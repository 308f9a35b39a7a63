-------------------------------- MODULE MC_Tlb --------------------------------
(* Tlb for TLC: two entries, two address spaces, pages and superpages. *)
EXTENDS Tlb

Vpn(lo, hi) == [l \in Level |-> CASE l = 0 -> lo [] l = 1 -> hi [] OTHER -> 0]

Leaf(mode, asid, vpn, level, ppn, g, rights) ==
  [valid |-> TRUE, mode |-> mode, asid |-> asid, vpn |-> vpn,
   ppn |-> [l \in Level |-> ppn], level |-> level, g |-> g, rights |-> rights]

User == {"u", "r", "w", "x", "a", "d"}
Kernel == {"r", "w", "a", "d"}

Page    == Leaf(SATP_MODE_SV48, 1, Vpn(0, 0), 0, 5, FALSE, User)
Moved   == Leaf(SATP_MODE_SV48, 1, Vpn(0, 0), 0, 6, FALSE, {"u", "x", "a"})
Super   == Leaf(SATP_MODE_SV48, 1, Vpn(1, 0), 1, 7, FALSE, User)
Other   == Leaf(SATP_MODE_SV48, 2, Vpn(0, 0), 0, 5, FALSE, User)
Global  == Leaf(SATP_MODE_SV48, 2, Vpn(0, 1), 0, 5, TRUE, Kernel)
Global2 == Leaf(SATP_MODE_SV48, 1, Vpn(1, 1), 1, 6, TRUE, Kernel)
Sv32    == Leaf(SATP_MODE_SV32, 1, Vpn(0, 0), 0, 7, FALSE, User)

MC_Leaves == {Page, Moved, Super, Other, Global, Global2, Sv32}
MC_FirstTables == {{Page, Other, Global, Sv32}}

Req(vpn, asid, mode, priv, kind, sum, mxr) ==
  [vpn |-> vpn, asid |-> asid, mode |-> mode, priv |-> priv, kind |-> kind,
   sum |-> sum, mxr |-> mxr]

MC_Requests ==
  {Req(v, 1, SATP_MODE_SV48, 0, k, FALSE, TRUE) :
     v \in {Vpn(0, 0), Vpn(1, 0)}, k \in {"load", "store", "fetch"}}
    \cup {Req(Vpn(0, 0), 1, SATP_MODE_SV48, 1, k, s, FALSE) :
            k \in {"load", "fetch"}, s \in BOOLEAN}
    \cup {Req(v, 2, SATP_MODE_SV48, 1, "load", TRUE, FALSE) : v \in {Vpn(0, 0), Vpn(0, 1)}}
    \cup {Req(Vpn(0, 0), 1, m, 1, "load", TRUE, FALSE) :
            m \in {SATP_MODE_BARE, SATP_MODE_SV32, 8}}

MC_Fences ==
  {[NoFence EXCEPT !.all = TRUE],
   [NoFence EXCEPT !.asid_valid = TRUE, !.asid = 1],
   [NoFence EXCEPT !.vpn_valid = TRUE, !.vpn = Vpn(0, 0), !.mode = SATP_MODE_SV48],
   [NoFence EXCEPT !.vpn_valid = TRUE, !.vpn = Vpn(0, 1), !.mode = SATP_MODE_SV48],
   [NoFence EXCEPT !.asid_valid = TRUE, !.asid = 1,
                   !.vpn_valid = TRUE, !.vpn = Vpn(1, 0), !.mode = SATP_MODE_SV48],
   [NoFence EXCEPT !.vpn_valid = TRUE, !.vpn = Vpn(0, 0), !.mode = SATP_MODE_SV32]}
=============================================================================
