--------------------------------- MODULE Tlb ---------------------------------
(***************************************************************************)
(* mmu/tlb.sv at work: beside the page table it caches, a walker that      *)
(* refills it and software that edits the table and fences.                *)
(*                                                                         *)
(* The table is the set of its leaves.  Software may edit it at any time;  *)
(* a leaf taken out stays in 'unfenced' until a fence that covers it, and  *)
(* until then the TLB may go on using it.                                  *)
(*                                                                         *)
(* The walker is not in the repository (ptw.sv is empty) and is modelled   *)
(* by what the ports of the TLB ask of it: it walks for one missed request *)
(* at a time, reads the leaf, and delivers it some edges later.  Because a *)
(* refill wins over a fence on the same edge, it must (W1) start again     *)
(* when a fence overtakes it and (W2) not deliver on the edge of a fence   *)
(* that covers the leaf it holds.                                          *)
(***************************************************************************)
EXTENDS TlbFile, Sequences

CONSTANTS
  Leaves,       \* page table leaves software uses
  FirstTables,  \* tables it starts from
  Requests,     \* requests of the core
  Fences,       \* fences it executes
  MaxEdits      \* bound on the number of edits

NoFence == [all |-> FALSE, asid_valid |-> FALSE, asid |-> 0,
            vpn_valid |-> FALSE, vpn |-> [l \in Level |-> 0], mode |-> 0]
NoRefill == [valid |-> FALSE]

LeafType == [valid : {TRUE}, mode : {SATP_MODE_SV32, SATP_MODE_SV48, SATP_MODE_SV57},
             asid : Nat, vpn : [Level -> Nat], ppn : [Level -> Nat], level : Level,
             g : BOOLEAN, rights : SUBSET {"u", "r", "w", "x", "a", "d"}]
RequestType == [vpn : [Level -> Nat], asid : Nat, mode : 0 .. 15, priv : 0 .. 3,
                kind : {"fetch", "store", "load"}, sum : BOOLEAN, mxr : BOOLEAN]
FenceType == [all : BOOLEAN, asid_valid : BOOLEAN, asid : Nat, vpn_valid : BOOLEAN,
              vpn : [Level -> Nat], mode : 0 .. 15]

\* What the architecture says a leaf maps: one page or, above level 0, all
\* pages that differ in the digits below. Global leaves are in every space.
Maps(leaf, mode, asid, vpn) ==
  /\ leaf.mode = mode /\ (leaf.g \/ leaf.asid = asid)
  /\ \A l \in leaf.level .. VpnLevels(leaf.mode) - 1 : leaf.vpn[l] = vpn[l]

\* Two leaves that map one page cannot be in one table.
Overlap(x, y) ==
  /\ x.mode = y.mode /\ (x.g \/ y.g \/ x.asid = y.asid)
  /\ \A l \in Level : x.level <= l /\ y.level <= l /\ l < VpnLevels(x.mode)
                        => x.vpn[l] = y.vpn[l]

WellFormed(t) == \A x, y \in t : Overlap(x, y) => x = y

ASSUME TlbSystemAssumption ==
  /\ Leaves \subseteq LeafType
  /\ FirstTables \subseteq SUBSET Leaves /\ \A t \in FirstTables : WellFormed(t)
  /\ Requests \subseteq RequestType
  /\ Fences \subseteq FenceType
  /\ MaxEdits \in Nat

VARIABLES
  entries, repl_ptr,   \* the TLB
  table,               \* leaves in the page table
  unfenced,            \* leaves taken out of it since the fence that covers them
  walk,                \* the walker: idle, or the page walked for and the leaf read
  recent,              \* history: the last refills, newest first, while not fenced
  edits                \* number of edits so far

vars == <<entries, repl_ptr, table, unfenced, walk, recent, edits>>

Idle == [busy |-> FALSE]
Walking(page) == [busy |-> TRUE, page |-> page, leaf |-> NoRefill]
PageOf(q) == [vpn |-> q.vpn, asid |-> q.asid, mode |-> q.mode]

\* What the architecture says a fence orders: leaves of the address space
\* (never global ones) if it names one, leaves that map the page if it names
\* one.
Orders(f, leaf) ==
  \/ f.all
  \/ /\ f.asid_valid \/ f.vpn_valid
     /\ f.asid_valid => ~leaf.g /\ leaf.asid = f.asid
     /\ f.vpn_valid  => /\ leaf.mode = f.mode
                        /\ \A l \in leaf.level .. VpnLevels(leaf.mode) - 1 :
                             leaf.vpn[l] = f.vpn[l]

-----------------------------------------------------------------------------
Init ==
  /\ entries = ResetEntries /\ repl_ptr = 0
  /\ table \in FirstTables /\ unfenced = {}
  /\ walk = Idle /\ recent = <<>> /\ edits = 0

\* rst high at an edge; the walker is reset with the TLB.
Reset ==
  /\ entries' = ResetEntries /\ repl_ptr' = 0
  /\ unfenced' = {} /\ walk' = Idle /\ recent' = <<>>
  /\ UNCHANGED <<table, edits>>

Survivors(f) ==
  [i \in DOMAIN recent |-> IF recent[i].valid /\ ~Orders(f, recent[i])
                           THEN recent[i] ELSE NoRefill]

\* An edge with refill r and fence f.
Edge(f, r) ==
  /\ entries' = EntriesNext(entries, repl_ptr, f, r)
  /\ repl_ptr' = PtrNext(repl_ptr, r)
  /\ unfenced' = {l \in unfenced : ~Orders(f, l)}
  /\ recent' = IF r.valid THEN SubSeq(<<r>> \o Survivors(f), 1,
                                      IF Len(recent) < ENTRIES THEN Len(recent) + 1
                                                               ELSE ENTRIES)
                          ELSE Survivors(f)
  /\ UNCHANGED <<table, edits>>

\* SFENCE.VMA; a walk under way starts again (W1).
Fence(f) ==
  /\ Edge(f, NoRefill)
  /\ walk' = IF walk.busy THEN Walking(walk.page) ELSE Idle

\* The walker delivers the leaf, alone or on the edge of a fence that does
\* not cover it (W2).
Refill(f) ==
  /\ walk.busy /\ walk.leaf.valid
  /\ ~Orders(f, walk.leaf)
  /\ Edge(f, walk.leaf)
  /\ walk' = Idle

\* A request misses and the walker takes it up.
Miss(q) ==
  /\ ~walk.busy
  /\ Lookup(entries, q) = NeedPtw
  /\ walk' = Walking(PageOf(q))
  /\ UNCHANGED <<entries, repl_ptr, table, unfenced, recent, edits>>

\* The walker reads the leaf, or finds none and reports a fault itself.
ReadLeaf ==
  /\ walk.busy /\ ~walk.leaf.valid
  /\ LET q == walk.page
     IN  \/ \E l \in table : /\ Maps(l, q.mode, q.asid, q.vpn)
                             /\ walk' = [walk EXCEPT !.leaf = l]
         \/ /\ \A l \in table : ~Maps(l, q.mode, q.asid, q.vpn)
            /\ walk' = Idle
  /\ UNCHANGED <<entries, repl_ptr, table, unfenced, recent, edits>>

\* Software takes leaves out of the table, puts one in, or both in one step.
Edit(out, in) ==
  /\ edits < MaxEdits
  /\ WellFormed((table \ out) \cup in)
  /\ table' = (table \ out) \cup in
  /\ unfenced' = unfenced \cup (out \ in)
  /\ edits' = edits + 1
  /\ UNCHANGED <<entries, repl_ptr, walk, recent>>

Next ==
  \/ Reset
  \/ \E f \in Fences : Fence(f)
  \/ \E f \in Fences \cup {NoFence} : Refill(f)
  \/ \E q \in Requests : Miss(q)
  \/ ReadLeaf
  \/ \E old \in table, new \in Leaves : Edit({old}, {new})
  \/ \E old \in table : Edit({old}, {})
  \/ \E new \in Leaves : Edit({}, {new})

Spec == Init /\ [][Next]_vars

-----------------------------------------------------------------------------
(* Properties *)

\* Type correctness of the TLB and of the system around it.
TypeOK ==
  /\ entries \in [0 .. ENTRIES - 1 -> LeafType \cup {[l EXCEPT !.valid = FALSE] : l \in Leaves}
                                               \cup {InvalidEntry}]
  /\ repl_ptr \in 0 .. ENTRIES - 1
  /\ table \subseteq Leaves /\ unfenced \subseteq Leaves

\* The rules of the privileged architecture for a leaf page table entry.
Permitted(q, rights) ==
  /\ "a" \in rights
  /\ (q.priv = 0) = ("u" \in rights) \/ ("u" \in rights /\ q.kind # "fetch" /\ q.sum)
  /\ CASE q.kind = "fetch" -> "x" \in rights
       [] q.kind = "load"  -> "r" \in rights \/ (q.mxr /\ "x" \in rights)
       [] q.kind = "store" -> "w" \in rights /\ "d" \in rights

\* No request is answered from a translation that software has fenced: an
\* answer from an entry is the one the current page table gives, unless a
\* leaf for the address was replaced and not fenced yet. Superpages, global
\* leaves, duplicates, the three forms of fence and a refill racing a fence
\* must not let an old translation through, nor old permissions.
NoStaleTranslation ==
  \A q \in Requests :
    LET r == Lookup(entries, q)
    IN  is_supported_mode(q.mode) /\ ~Bypass(q) /\ r # NeedPtw =>
          \/ \E l \in unfenced : Maps(l, q.mode, q.asid, q.vpn)
          \/ \E l \in table :
               /\ Maps(l, q.mode, q.asid, q.vpn)
               /\ r = IF Permitted(q, l.rights)
                      THEN Hit([d \in Level |-> IF d < l.level THEN q.vpn[d] ELSE l.ppn[d]])
                      ELSE Fault

\* The request a walk was made for does not miss again right after the
\* refill: it hits or faults, on the edge of an unrelated fence too. A miss
\* that repeated itself would stall the core for ever.
RetryIsAnswered ==
  [][walk.busy /\ walk.leaf.valid /\ ~walk'.busy /\ recent' # <<>> =>
       \A q \in Requests : PageOf(q) = walk.page => Lookup(entries', q) # NeedPtw]_vars

\* Replacement is round robin: the last ENTRIES refills that no fence covered
\* since are all still there, whatever fences freed in between, and nothing
\* else is.
KeepsRecent ==
  {entries[k] : k \in {k \in DOMAIN entries : entries[k].valid}}
    = {recent[i] : i \in {i \in DOMAIN recent : recent[i].valid}}
=============================================================================
