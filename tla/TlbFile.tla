------------------------------- MODULE TlbFile -------------------------------
(***************************************************************************)
(* The entries of mmu/tlb.sv and the functions over them.                  *)
(*                                                                         *)
(* A page number is held as its digits, least significant first: one digit *)
(* per level of the page table, of the mode's stride (10 bits in Sv32, 9   *)
(* in Sv48 and Sv57).  Every mask of the module covers whole digits, and   *)
(* only page numbers of one mode are ever compared, so nothing is lost; an *)
(* offset in the page passes through unchanged and is left out.            *)
(*                                                                         *)
(* A request is [vpn, asid, mode, priv, kind, sum, mxr] with kind "fetch", *)
(* "store" or "load"; a fence is [all, asid_valid, asid, vpn_valid, vpn,   *)
(* mode]; a refill is [valid |-> FALSE] or a translation with valid TRUE.  *)
(***************************************************************************)
EXTENDS Integers, FiniteSets

CONSTANTS
  ENTRIES,     \* number of entries
  PtrSize      \* values of the replacement pointer, of $clog2(ENTRIES) bits

\* The pointer wraps at a power of two. With fewer entries than values a
\* refill would be lost whenever the pointer is past the last entry.
ASSUME TlbAssumption ==
  /\ ENTRIES \in Nat /\ ENTRIES >= 2
  /\ PtrSize = ENTRIES

-----------------------------------------------------------------------------
(* Modes of satp *)

SATP_MODE_BARE == 0
SATP_MODE_SV32 == 1
SATP_MODE_SV48 == 9
SATP_MODE_SV57 == 10

is_supported_mode(mode) ==
  mode \in {SATP_MODE_BARE, SATP_MODE_SV32, SATP_MODE_SV48, SATP_MODE_SV57}

\* vpn_width / vpn_stride
VpnLevels(mode) ==
  CASE mode = SATP_MODE_SV32 -> 2
    [] mode = SATP_MODE_SV48 -> 4
    [] mode = SATP_MODE_SV57 -> 5
    [] OTHER                 -> 0

Level == 0 .. 4

\* Faulty variant: a superpage is compared like a page.
make_vpn_mask_full(mode, level) == {l \in Level : l < VpnLevels(mode)}

\* The digits a translation of that mode and level is compared in.
make_vpn_mask(mode, level) == {l \in Level : level <= l /\ l < VpnLevels(mode)}

vaddr_to_vpn(vaddr, mode) ==
  [l \in Level |-> IF l < VpnLevels(mode) THEN vaddr[l] ELSE 0]

-----------------------------------------------------------------------------
(* Lookup *)

SameVpn(e, vpn) ==
  \A l \in make_vpn_mask(e.mode, e.level) : e.vpn[l] = vpn[l]

entry_match(e, vpn, asid, mode) ==
  /\ e.valid /\ e.mode = mode
  /\ e.g \/ e.asid = asid
  /\ SameVpn(e, vpn)

allow_access(q, rights) ==
  LET priv_u  == q.priv = 0
      priv_ok == IF "u" \in rights THEN priv_u \/ (q.kind # "fetch" /\ q.sum)
                                   ELSE ~priv_u
  IN  /\ "a" \in rights /\ priv_ok
      /\ \/ q.kind = "fetch" /\ "x" \in rights
         \/ q.kind = "store" /\ {"w", "d"} \subseteq rights
         \/ q.kind = "load"  /\ ("r" \in rights \/ (q.mxr /\ "x" \in rights))

\* The page number of resp_paddr: digits below the level come from vaddr.
PhysicalPage(e, vaddr) ==
  [l \in Level |-> IF l < e.level THEN vaddr[l] ELSE e.ppn[l]]

Matches(es, q) ==
  {k \in DOMAIN es : entry_match(es[k], vaddr_to_vpn(q.vpn, q.mode), q.asid, q.mode)}

\* The lowest matching entry answers.
HitIndex(es, q) == CHOOSE k \in Matches(es, q) : \A j \in Matches(es, q) : k <= j

Fault == [answer |-> "page_fault"]
NeedPtw == [answer |-> "need_ptw"]
Hit(page) == [answer |-> "hit", page |-> page]

\* Bare mode and M-mode bypass translation.
Bypass(q) == q.mode = SATP_MODE_BARE \/ q.priv = 3

Lookup(es, q) ==
  CASE ~is_supported_mode(q.mode) -> Fault
    [] is_supported_mode(q.mode) /\ Bypass(q) -> Hit(q.vpn)
    [] is_supported_mode(q.mode) /\ ~Bypass(q) /\ Matches(es, q) = {} -> NeedPtw
    [] OTHER ->
         LET e == es[HitIndex(es, q)]
         IN  IF allow_access(q, e.rights) THEN Hit(PhysicalPage(e, q.vpn)) ELSE Fault

-----------------------------------------------------------------------------
(* The clocked part: the fence first, then the refill, which wins.         *)

InvalidEntry ==
  [valid |-> FALSE, mode |-> SATP_MODE_BARE, asid |-> 0, vpn |-> [l \in Level |-> 0],
   ppn |-> [l \in Level |-> 0], level |-> 0, g |-> FALSE, rights |-> {}]

ResetEntries == [k \in 0 .. ENTRIES - 1 |-> InvalidEntry]

\* Does fence f remove entry e?
FenceHits(f, e) ==
  \/ f.all
  \/ /\ f.asid_valid \/ f.vpn_valid
     /\ f.asid_valid => ~e.g /\ e.asid = f.asid
     /\ f.vpn_valid  => e.mode = f.mode /\ SameVpn(e, f.vpn)

Flushed(es, f) ==
  [k \in DOMAIN es |-> [es[k] EXCEPT !.valid = @ /\ ~FenceHits(f, es[k])]]

Accepted(r) ==
  r.valid /\ is_supported_mode(r.mode) /\ r.mode # SATP_MODE_BARE

\* Faulty variant: a refill does not replace a valid entry.
RefilledIfFree(es, ptr, r) ==
  [k \in DOMAIN es |-> IF k = ptr /\ Accepted(r) /\ ~es[k].valid THEN r ELSE es[k]]

\* A pointer past the last entry writes nothing.
Refilled(es, ptr, r) == [k \in DOMAIN es |-> IF k = ptr /\ Accepted(r) THEN r ELSE es[k]]

EntriesNext(es, ptr, f, r) == Refilled(Flushed(es, f), ptr, r)

\* Faulty variants: the pointer runs past the last entry; it sticks there.
PtrNextUnwrapped(ptr, r) == IF Accepted(r) THEN ptr + 1 ELSE ptr
PtrNextSticky(ptr, r) == IF Accepted(r) /\ ptr < ENTRIES - 1 THEN ptr + 1 ELSE ptr

PtrNext(ptr, r) == IF Accepted(r) THEN (ptr + 1) % PtrSize ELSE ptr
=============================================================================
