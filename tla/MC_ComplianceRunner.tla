------------------------- MODULE MC_ComplianceRunner -------------------------
(* ComplianceRunner for TLC. *)
EXTENDS ComplianceRunner

\* A command line of the script, the smoke test, help, a flag without its
\* value, and a run without a signature.
MC_Invocations ==
  {<<"--elf", "t.elf", "--max-cycles", "3", "--signature", "t.sig">>,
   <<>>, <<"-v", "--help", "--elf", "t.elf">>, <<"--signature", "t.sig", "--elf">>,
   <<"--elf", "t.elf">>, <<"--max-cycles", "0", "--signature", "t.sig", "--elf", "t.elf">>}

MC_Numbers == [n \in {"0", "3"} |-> IF n = "0" THEN 0 ELSE 3]

Seg(paddr, vaddr, file, memsz) ==
  [load |-> TRUE, paddr |-> paddr, vaddr |-> vaddr, file |-> file, memsz |-> memsz, fits |-> TRUE]
Sym(name, value) == [name |-> name, value |-> value]
Table(tohost, begin, end) ==
  <<Sym("tohost", tohost), Sym("main", 4), Sym("begin_signature", begin),
    Sym("end_signature", end)>>
Elf(segments, tables) == [valid |-> TRUE, segments |-> segments, tables |-> tables]

\* tohost at the start and in the middle of a cell, and missing; a signature
\* that is no multiple of eight bytes, and none; overlapping segments; a
\* symbol defined again; files that do not load.
MC_Elfs ==
  {Elf(<<Seg(8, 0, <<7, 7>>, 2), Seg(24, 0, <<5, 6>>, 12)>>, <<Table(16, 24, 40)>>),
   Elf(<<Seg(0, 24, <<9, 9, 9>>, 3), Seg(25, 0, <<>>, 1)>>,
       <<<<Sym("tohost", 8)>>, Table(20, 24, 36)>>),
   Elf(<<Seg(24, 0, <<4>>, 4)>>, <<>>),
   Elf(<<>>, <<Table(12, 24, 24)>>),
   [Elf(<<>>, <<>>) EXCEPT !.valid = FALSE],
   Elf(<<Seg(8, 0, <<1>>, 1), [Seg(16, 0, <<1>>, 1) EXCEPT !.fits = FALSE]>>,
       <<Table(16, 24, 40)>>)}

St(addr, size, first) ==
  [addr |-> addr, size |-> size,
   data |-> [i \in 1 .. Bytes(size) |-> IF i \in DOMAIN first THEN first[i] ELSE 0]]

\* Verdicts by byte, halfword, word and doubleword stores, at tohost, below
\* it and across it; other values; stores beside it and into the signature;
\* reserved sizes, which clear what they touch, one across two cells.
MC_Stores ==
  {St(16, 2, <<1>>), St(16, 3, <<3>>), St(16, 3, <<0, 0, 0, 0, 1>>), St(20, 2, <<1>>),
   St(20, 0, <<3>>), St(21, 0, <<1>>), St(8, 3, <<1>>), St(12, 2, <<3>>),
   St(16, 1, <<1, 1>>), St(24, 3, <<3, 2>>), St(30, 1, <<4, 3>>), St(35, 0, <<9>>),
   St(16, 4, <<1>>), St(21, 7, <<3>>)}

Zeroes == <<0, 0, 0, 0, 0, 0, 0, 0>>
MC_References == {<<>>, <<<<5, 6, 0, 0, 0, 0, 0, 0>>, Zeroes>>}
=============================================================================
