------------------------------- MODULE TlbBench -------------------------------
(***************************************************************************)
(* tb/unit/tb_tlb.cc: the calls the bench makes on the TLB and the checks  *)
(* between them, as a sequence of steps.  A step is a refill or a fence    *)
(* that takes one clock edge, or a request with what the bench expects of  *)
(* the combinational answer.                                               *)
(***************************************************************************)
EXTENDS TlbFile, Sequences

\* A page number below 2^31 in digits of 'stride' bits, and an Sv57 one
\* given as its upper 18 and lower 27 bits.
Digits(n, stride) ==
  [l \in Level |-> IF stride * l < 31 THEN (n \div 2^(stride * l)) % 2^stride ELSE 0]
sv48_vpn(n) == Digits(n, 9)
sv32_vpn(n) == Digits(n, 10)
sv57_vpn(hi, lo) ==
  [l \in Level |-> IF l < 3 THEN Digits(lo, 9)[l] ELSE Digits(hi, 9)[l - 3]]

NoFlush == [all |-> FALSE, asid_valid |-> FALSE, asid |-> 0, vpn_valid |-> FALSE,
            vpn |-> sv48_vpn(0), mode |-> SATP_MODE_SV48]

\* clear_flush, then one flush input, then a tick.
FlushStep(f) == [do |-> "edge", flush |-> f, refill |-> [valid |-> FALSE]]
apply_flush_all == FlushStep([NoFlush EXCEPT !.all = TRUE])
apply_flush_asid(asid) == FlushStep([NoFlush EXCEPT !.asid_valid = TRUE, !.asid = asid])
apply_flush_vpn(vpn, mode) ==
  FlushStep([NoFlush EXCEPT !.vpn_valid = TRUE, !.vpn = vpn, !.mode = mode])

do_refill(vpn, ppn, level, mode, asid, g, rights) ==
  [do |-> "edge", flush |-> NoFlush,
   refill |-> [valid |-> TRUE, vpn |-> vpn, ppn |-> ppn, level |-> level, mode |-> mode,
               asid |-> asid, g |-> g, rights |-> rights]]

\* A leaf of level 0 in Sv48 with most of the bench's rights.
RW   == {"r", "w", "a", "d"}
Page48(n, ppn, asid) ==
  do_refill(sv48_vpn(n), Digits(ppn, 9), 0, SATP_MODE_SV48, asid, FALSE, RW)

\* A request, the answers the checks after it accept and the page, if they
\* compare it.
issue_req(vpn, asid, mode, priv, kind, sum, mxr, expect) ==
  [do |-> "check", expect |-> expect,
   req |-> [vpn |-> vpn, asid |-> asid, mode |-> mode, priv |-> priv, kind |-> kind,
            sum |-> sum, mxr |-> mxr]]
issue_load(vpn, asid, mode, expect) ==
  issue_req(vpn, asid, mode, 1, "load", FALSE, FALSE, expect)

Expect(answers) == [answers |-> answers, page |-> <<>>]
HIT   == Expect({"hit"})
FAULT == Expect({"page_fault"})
PTW   == Expect({"need_ptw"})
NOHIT == Expect({"page_fault", "need_ptw"})
\* resp_paddr is compared too.
HitAt(page) == [HIT EXCEPT !.page = <<page>>]

SV32 == SATP_MODE_SV32
SV48 == SATP_MODE_SV48
SV57 == SATP_MODE_SV57

-----------------------------------------------------------------------------
(* main(), in three parts *)

\* Checks 1 to 12: bypass, misses, permissions, superpages, fences.
BypassToFences ==
  LET bare == [l \in Level |-> 100 + l]
      vpn5 == sv48_vpn(\hC1234)
  IN <<issue_req(bare, 0, SATP_MODE_BARE, 1, "load", FALSE, FALSE, HitAt(bare)),
       issue_req(sv48_vpn(\h80000), 0, 4, 1, "load", FALSE, FALSE, FAULT),
       issue_load(sv48_vpn(\h80401), 1, SV48, PTW),
       Page48(\h80401, \h12345, 1),
       issue_load(sv48_vpn(\h80401), 1, SV48, HitAt(Digits(\h12345, 9))),
       issue_load(sv48_vpn(\h80401), 2, SV48, PTW),
       do_refill(sv48_vpn(\h90003), Digits(\h23456, 9), 0, SV48, 9, TRUE, {"r", "x", "a", "d"}),
       issue_load(sv48_vpn(\h90003), 99, SV48, HIT),
       do_refill(sv48_vpn(\hA0002), Digits(\h34567, 9), 0, SV48, 3, FALSE, {"r", "w", "a"}),
       issue_req(sv48_vpn(\hA0002), 3, SV48, 1, "store", FALSE, FALSE, FAULT),
       do_refill(sv48_vpn(\hB0000), Digits(\h45678, 9), 0, SV48, 4, FALSE, {"x", "a", "d"}),
       issue_req(sv48_vpn(\hB0000), 4, SV48, 1, "load", FALSE, TRUE, HIT),
       do_refill(vpn5, Digits(\h56780, 9), 1, SV48, 5, FALSE, {"r", "w", "x", "a", "d"}),
       issue_load(sv48_vpn(\hC1238), 5, SV48, HIT),
       apply_flush_all,
       issue_load(sv48_vpn(\h80401), 1, SV48, NOHIT),
       Page48(\hD0001, \h60100, 7), Page48(\hD0002, \h60200, 8),
       apply_flush_asid(7),
       issue_load(sv48_vpn(\hD0001), 7, SV48, NOHIT),
       issue_load(sv48_vpn(\hD0002), 8, SV48, HIT),
       Page48(\hE1000, \h70100, 9), Page48(\hE2000, \h70200, 9),
       apply_flush_vpn(sv48_vpn(\hE1000), SV48),
       issue_load(sv48_vpn(\hE1000), 9, SV48, NOHIT),
       issue_load(sv48_vpn(\hE2000), 9, SV48, HIT)>>

\* Checks 13 to 22: the other modes, SUM, MXR, U- and A-bits, globals.
ModesAndRights ==
  LET U9 == sv48_vpn(\h83330)
      X12 == sv48_vpn(\h86660)
      A13 == sv48_vpn(\h87770)
  IN <<do_refill(sv32_vpn(\h81234), Digits(\h31000, 10), 1, SV32, 11, FALSE, RW),
       issue_load(sv32_vpn(\h813FF), 11, SV32, HIT),
       do_refill(sv57_vpn(\h2468, \h5678004), Digits(\h4A1234, 9), 2, SV57, 12, FALSE, RW),
       issue_load(sv57_vpn(\h2468, \h567BFF8), 12, SV57, HIT),
       do_refill(sv32_vpn(\h81234), Digits(\h81000, 10), 0, SV32, 13, FALSE, RW),
       Page48(\h81234, \h82000, 13),
       apply_flush_vpn(sv32_vpn(\h81234), SV32),
       issue_load(sv32_vpn(\h81234), 13, SV32, NOHIT),
       issue_load(sv48_vpn(\h81234), 13, SV48, HIT),
       do_refill(U9, Digits(\h83000, 9), 0, SV48, 14, FALSE, RW \cup {"u"}),
       issue_req(U9, 14, SV48, 1, "load", FALSE, FALSE, FAULT),
       issue_req(U9, 14, SV48, 1, "load", TRUE, FALSE, HIT),
       issue_req(U9, 14, SV48, 1, "fetch", TRUE, FALSE, FAULT),
       do_refill(sv48_vpn(\h84440), Digits(\h84000, 9), 0, SV48, 15, FALSE, RW \cup {"x"}),
       issue_req(sv48_vpn(\h84440), 15, SV48, 0, "load", FALSE, FALSE, FAULT),
       do_refill(sv48_vpn(\h85550), Digits(\h85000, 9), 0, SV48, 16, FALSE, {"u", "r", "a", "d"}),
       issue_req(sv48_vpn(\h85550), 16, SV48, 0, "load", FALSE, FALSE, HIT),
       do_refill(X12, Digits(\h86000, 9), 0, SV48, 17, FALSE, {"x", "a", "d"}),
       issue_req(X12, 17, SV48, 1, "load", FALSE, FALSE, FAULT),
       issue_req(X12, 17, SV48, 1, "load", FALSE, TRUE, HIT),
       do_refill(A13, Digits(\h87000, 9), 0, SV48, 18, FALSE, {"r", "w", "x", "d"}),
       issue_req(A13, 18, SV48, 1, "load", FALSE, FALSE, FAULT),
       issue_req(A13, 18, SV48, 1, "fetch", FALSE, FALSE, FAULT),
       do_refill(sv48_vpn(\h88880), Digits(\h88000, 9), 0, SV48, 33, TRUE, RW),
       apply_flush_asid(33),
       issue_load(sv48_vpn(\h88880), 99, SV48, HIT)>>

\* Checks 23 to 27: replacement, and fences by page against superpages and
\* neighbours.
PressureAndRanges ==
  LET Super(vpn, ppn, level, mode, asid) ==
        do_refill(vpn, Digits(ppn, 9), level, mode, asid, FALSE, RW)
  IN  <<apply_flush_all, Page48(\h90001, \h90001, 40)>>
      \o [n \in 1 .. 32 |-> Page48(\h100000 + n - 1, \h91000 + n - 1, 49 + n)]
      \o <<issue_load(sv48_vpn(\h90001), 40, SV48, NOHIT),
           Page48(\h10001F, \hA001F, 77),
           issue_load(sv48_vpn(\h10001F), 77, SV48, HIT),
           apply_flush_all,
           Super(sv48_vpn(\h123400), \hB1000, 1, SV48, 88),
           Super(sv48_vpn(\h124400), \hB2000, 1, SV48, 88),
           apply_flush_vpn(sv48_vpn(\h123412), SV48),
           issue_load(sv48_vpn(\h123400), 88, SV48, NOHIT),
           issue_load(sv48_vpn(\h124400), 88, SV48, HIT),
           apply_flush_all,
           Super(sv57_vpn(\h2468, \h5678001), \hC1234, 2, SV57, 99),
           Super(sv57_vpn(\h2468, \h5A00002), \hC5678, 2, SV57, 99),
           apply_flush_vpn(sv57_vpn(\h2468, \h567BFF8), SV57),
           issue_load(sv57_vpn(\h2468, \h5678001), 99, SV57, NOHIT),
           issue_load(sv57_vpn(\h2468, \h5A00002), 99, SV57, HIT),
           apply_flush_all,
           Page48(\h99001, \hD1000, 120), Page48(\h99002, \hD2000, 120),
           apply_flush_vpn(sv48_vpn(\h99001), SV48),
           issue_load(sv48_vpn(\h99001), 120, SV48, NOHIT),
           issue_load(sv48_vpn(\h99002), 120, SV48, HIT)>>

TlbScript == BypassToFences \o ModesAndRights \o PressureAndRanges

\* reset(), then the TLB as [entries, ptr].
TlbBenchReset == [entries |-> ResetEntries, ptr |-> 0]

\* tick: one edge with the step's inputs; a check leaves the TLB alone.
TlbBenchStep(t, s) ==
  IF s.do = "check" THEN t
  ELSE [entries |-> EntriesNext(t.entries, t.ptr, s.flush, s.refill),
        ptr |-> PtrNext(t.ptr, s.refill)]

\* check(): the answer is one of the expected ones.
TlbBenchCheck(t, s) ==
  s.do = "check" =>
    LET r == Lookup(t.entries, s.req)
    IN  /\ r.answer \in s.expect.answers
        /\ s.expect.page # <<>> => r.page = s.expect.page[1]
=============================================================================
