------------------------------ MODULE TlbProofs ------------------------------
(***************************************************************************)
(* The TLB never answers from a fenced translation, and a refill answers   *)
(* the request it was made for: for every number of entries, set of        *)
(* leaves, requests and fences, and any number of edits.                   *)
(*                                                                         *)
(* The inductive invariant says where a translation that is still in use   *)
(* can come from: every valid entry, and the leaf a walk holds, is a leaf  *)
(* of the current table or one taken out of it that no fence has covered.  *)
(***************************************************************************)
EXTENDS Tlb, TLAPS, WellFoundedInduction

EntryType ==
  LeafType \cup {[l EXCEPT !.valid = FALSE] : l \in Leaves} \cup {InvalidEntry}

\* Every valid entry stems from a leaf that may still be used.
Cached == \A k \in DOMAIN entries : entries[k].valid => entries[k] \in table \cup unfenced

\* The walker is idle, has read nothing yet, or holds a leaf that may still
\* be used and maps the page it walks for.
WalkSound ==
  \/ walk = Idle
  \/ /\ walk.busy
     /\ walk = [busy |-> TRUE, page |-> walk.page, leaf |-> walk.leaf]
     /\ \/ walk.leaf = NoRefill
        \/ /\ walk.leaf \in table \cup unfenced
           /\ Maps(walk.leaf, walk.page.mode, walk.page.asid, walk.page.vpn)

\* The inductive invariant.
TlbInv == TypeOK /\ Cached /\ WalkSound

-----------------------------------------------------------------------------
(* Leaves *)

\* A leaf is valid, of a translating mode, and compared in at most five
\* digits.
LEMMA LeafFacts ==
  ASSUME NEW l \in LeafType
  PROVE  /\ l.valid = TRUE /\ l.level \in Level
         /\ l.mode \in {SATP_MODE_SV32, SATP_MODE_SV48, SATP_MODE_SV57}
         /\ VpnLevels(l.mode) \in {2, 4, 5}
<1>1. /\ l.valid = TRUE /\ l.level \in Level
      /\ l.mode \in {SATP_MODE_SV32, SATP_MODE_SV48, SATP_MODE_SV57}
  BY DEF LeafType
<1> QED
  BY <1>1 DEF VpnLevels, SATP_MODE_SV32, SATP_MODE_SV48, SATP_MODE_SV57

\* The mask of the comparators covers the digits from the level up.
LEMMA MaskIsRange ==
  ASSUME NEW l \in LeafType
  PROVE  make_vpn_mask(l.mode, l.level) = l.level .. VpnLevels(l.mode) - 1
<1>1. l.level \in 0 .. 4 /\ VpnLevels(l.mode) \in {2, 4, 5}
  BY LeafFacts DEF Level
<1> QED
  BY <1>1 DEF make_vpn_mask, Level

\* The comparators of a fence remove exactly what the fence orders.
LEMMA FenceIsOrder ==
  ASSUME NEW l \in LeafType, NEW f
  PROVE  FenceHits(f, l) <=> Orders(f, l)
BY MaskIsRange DEF FenceHits, Orders, SameVpn

\* A lookup matches a leaf exactly when the leaf maps the page.
LEMMA MatchIsMap ==
  ASSUME NEW l \in LeafType, NEW q
  PROVE  entry_match(l, vaddr_to_vpn(q.vpn, q.mode), q.asid, q.mode)
           <=> Maps(l, q.mode, q.asid, q.vpn)
<1>1. l.valid
  BY LeafFacts
<1>2. ASSUME l.mode = q.mode, NEW d \in l.level .. VpnLevels(l.mode) - 1
      PROVE  vaddr_to_vpn(q.vpn, q.mode)[d] = q.vpn[d]
  <2>1. l.level \in 0 .. 4 /\ VpnLevels(q.mode) \in {2, 4, 5}
    BY <1>2, LeafFacts DEF Level
  <2>2. d \in l.level .. VpnLevels(q.mode) - 1
    BY <1>2
  <2>3. d \in Level /\ d < VpnLevels(q.mode)
    BY <2>1, <2>2 DEF Level
  <2> QED
    BY <2>3 DEF vaddr_to_vpn
<1> QED
  BY <1>1, <1>2, MaskIsRange DEF entry_match, Maps, SameVpn

\* The permission logic is the architecture's.
LEMMA AccessIsPermission ==
  ASSUME NEW q \in RequestType, NEW rights
  PROVE  allow_access(q, rights) <=> Permitted(q, rights)
<1>1. q.kind \in {"fetch", "store", "load"}
  BY DEF RequestType
<1>2. CASE q.kind = "fetch"
  BY <1>2 DEF allow_access, Permitted
<1>3. CASE q.kind = "store"
  BY <1>3 DEF allow_access, Permitted
<1>4. CASE q.kind = "load"
  BY <1>4 DEF allow_access, Permitted
<1> QED
  BY <1>1, <1>2, <1>3, <1>4

-----------------------------------------------------------------------------
(* Entries *)

\* A fence clears the valid bit of an entry or leaves the entry as it is.
LEMMA FlushedEntry ==
  ASSUME NEW e \in EntryType, e.valid => e \in Leaves, NEW f,
         NEW x, x = [e EXCEPT !.valid = @ /\ ~FenceHits(f, e)]
  PROVE  /\ x \in EntryType
         /\ x.valid => x = e /\ ~FenceHits(f, e)
<1>1. CASE e \in LeafType
  <2>1. e.valid = TRUE /\ e \in Leaves
    BY <1>1, LeafFacts
  <2>2. CASE FenceHits(f, e)
    <3>1. x = [e EXCEPT !.valid = FALSE]
      BY <2>1, <2>2
    <3>2. x.valid = FALSE
      BY <1>1, <3>1 DEF LeafType
    <3> QED
      BY <2>1, <3>1, <3>2 DEF EntryType
  <2>3. CASE ~FenceHits(f, e)
    <3>1. x = [e EXCEPT !.valid = TRUE]
      BY <2>1, <2>3
    <3>2. x = e
      BY <1>1, <2>1, <3>1 DEF LeafType
    <3> QED
      BY <2>3, <3>2
  <2> QED
    BY <2>2, <2>3
<1>2. CASE e \in {[l EXCEPT !.valid = FALSE] : l \in Leaves} \cup {InvalidEntry}
  <2>1. e.valid = FALSE /\ [e EXCEPT !.valid = FALSE] = e
    <3>1. CASE e = InvalidEntry
      <4> DEFINE zero == [l \in Level |-> 0]
      <4>1. e \in [valid : {FALSE}, mode : {SATP_MODE_BARE}, asid : {0}, vpn : {zero},
                   ppn : {zero}, level : {0}, g : {FALSE}, rights : {{}}]
        BY <3>1 DEF InvalidEntry
      <4> HIDE DEF zero
      <4>2. e.valid = FALSE
        BY <4>1
      <4> QED
        BY <4>1, <4>2
    <3>2. CASE e \in {[l EXCEPT !.valid = FALSE] : l \in Leaves}
      <4>1. PICK l \in Leaves : e = [l EXCEPT !.valid = FALSE]
        BY <3>2
      <4>2. l \in LeafType
        BY TlbSystemAssumption
      <4> QED
        BY <4>1, <4>2 DEF LeafType
    <3> QED
      BY <1>2, <3>1, <3>2
  <2>2. x = [e EXCEPT !.valid = FALSE]
    BY <2>1
  <2> QED
    BY <2>1, <2>2
<1> QED
  BY <1>1, <1>2 DEF EntryType

\* After an edge without a refill or with a leaf as refill, every entry is
\* typed; a valid one is the refill, or was there and is not fenced.
LEMMA EdgeEntries ==
  ASSUME TypeOK, Cached, NEW f, NEW r \in Leaves \cup {NoRefill},
         entries' = EntriesNext(entries, repl_ptr, f, r)
  PROVE  /\ entries' \in [0 .. ENTRIES - 1 -> EntryType]
         /\ \A k \in DOMAIN entries' : entries'[k].valid =>
              \/ entries'[k] = r
              \/ entries'[k] = entries[k] /\ entries[k].valid /\ ~Orders(f, entries[k])
<1>1. /\ entries \in [0 .. ENTRIES - 1 -> EntryType]
      /\ table \subseteq Leaves /\ unfenced \subseteq Leaves
  BY DEF TypeOK, EntryType
<1>2. entries' = [k \in 0 .. ENTRIES - 1 |->
                    IF k = repl_ptr /\ Accepted(r) THEN r
                    ELSE [entries[k] EXCEPT !.valid = @ /\ ~FenceHits(f, entries[k])]]
  BY <1>1 DEF EntriesNext, Refilled, Flushed
<1>3. Accepted(r) => r \in Leaves
  BY DEF Accepted, NoRefill
<1>4. ASSUME NEW k \in 0 .. ENTRIES - 1
      PROVE  /\ entries'[k] \in EntryType
             /\ entries'[k].valid =>
                  \/ entries'[k] = r
                  \/ entries'[k] = entries[k] /\ entries[k].valid /\ ~Orders(f, entries[k])
  <2>1. CASE k = repl_ptr /\ Accepted(r)
    BY <1>2, <1>3, <2>1, TlbSystemAssumption DEF EntryType
  <2>2. CASE ~(k = repl_ptr /\ Accepted(r))
    <3>1. entries'[k] = [entries[k] EXCEPT !.valid = @ /\ ~FenceHits(f, entries[k])]
      BY <1>2, <2>2
    <3>2. entries[k] \in EntryType /\ (entries[k].valid => entries[k] \in Leaves)
      BY <1>1 DEF Cached
    <3>3. /\ entries'[k] \in EntryType
          /\ entries'[k].valid => entries'[k] = entries[k] /\ ~FenceHits(f, entries[k])
      BY <3>1, <3>2, FlushedEntry
    <3>4. ASSUME entries'[k].valid
          PROVE  entries[k].valid /\ ~Orders(f, entries[k])
      <4>1. entries'[k] = entries[k] /\ ~FenceHits(f, entries[k]) /\ entries[k] \in LeafType
        BY <3>2, <3>3, <3>4, TlbSystemAssumption
      <4> QED
        BY <3>4, <4>1, FenceIsOrder
    <3> QED
      BY <3>3, <3>4
  <2> QED
    BY <2>1, <2>2
<1> QED
  BY <1>2, <1>4

\* The pointer stays on an entry.
LEMMA PtrInRange ==
  ASSUME repl_ptr \in 0 .. ENTRIES - 1, NEW r
  PROVE  PtrNext(repl_ptr, r) \in 0 .. ENTRIES - 1
BY TlbAssumption DEF PtrNext

-----------------------------------------------------------------------------
(* The invariant is inductive *)

\* An empty TLB beside a well-formed table.
LEMMA InitInv == Init => TlbInv
<1> SUFFICES ASSUME Init PROVE TlbInv
  OBVIOUS
<1>1. entries \in [0 .. ENTRIES - 1 -> EntryType] /\ \A k \in DOMAIN entries : ~entries[k].valid
  BY DEF Init, ResetEntries, EntryType, InvalidEntry
<1>2. repl_ptr \in 0 .. ENTRIES - 1 /\ table \subseteq Leaves /\ unfenced \subseteq Leaves
  BY TlbAssumption, TlbSystemAssumption DEF Init
<1> QED
  BY <1>1, <1>2 DEF TlbInv, TypeOK, Cached, WalkSound, Init, EntryType

\* An edge with a fence, with or without a refill, keeps entries and table
\* sound.
LEMMA EdgeInv ==
  ASSUME TlbInv, NEW f, NEW r \in Leaves \cup {NoRefill}, Edge(f, r),
         r = NoRefill \/ (r \in table \cup unfenced /\ ~Orders(f, r))
  PROVE  TypeOK' /\ Cached'
<1>1. /\ entries' \in [0 .. ENTRIES - 1 -> EntryType]
      /\ \A k \in DOMAIN entries' : entries'[k].valid =>
           \/ entries'[k] = r
           \/ entries'[k] = entries[k] /\ entries[k].valid /\ ~Orders(f, entries[k])
  BY EdgeEntries DEF TlbInv, Edge
<1>2. repl_ptr' \in 0 .. ENTRIES - 1
  BY PtrInRange DEF TlbInv, TypeOK, Edge
<1>3. table' = table /\ unfenced' = {l \in unfenced : ~Orders(f, l)}
  BY DEF Edge
<1>4. TypeOK'
  BY <1>1, <1>2, <1>3 DEF TlbInv, TypeOK, EntryType
<1>5. ASSUME NEW k \in DOMAIN entries', entries'[k].valid
      PROVE  entries'[k] \in table' \cup unfenced'
  <2>1. CASE entries'[k] = r
    <3>1. r # NoRefill
      BY <1>5, <2>1 DEF NoRefill
    <3> QED
      BY <1>3, <2>1, <3>1
  <2>2. CASE entries'[k] = entries[k] /\ entries[k].valid /\ ~Orders(f, entries[k])
    <3>1. k \in DOMAIN entries
      BY <1>1, <1>5 DEF TlbInv, TypeOK
    <3>2. entries[k] \in table \cup unfenced
      BY <2>2, <3>1 DEF TlbInv, Cached
    <3> QED
      BY <1>3, <2>2, <3>2
  <2> QED
    BY <1>1, <1>5, <2>1, <2>2
<1> QED
  BY <1>4, <1>5 DEF Cached

\* One step per action.
LEMMA StepInv ==
  ASSUME TlbInv, [Next]_vars
  PROVE  TlbInv'
<1> USE DEF TlbInv
<1>1. CASE Reset
  <2>1. /\ entries' \in [0 .. ENTRIES - 1 -> EntryType]
        /\ \A k \in DOMAIN entries' : ~entries'[k].valid
    BY <1>1 DEF Reset, ResetEntries, EntryType, InvalidEntry
  <2>2. repl_ptr' \in 0 .. ENTRIES - 1
    BY <1>1, TlbAssumption DEF Reset
  <2>3. table' = table /\ unfenced' = {} /\ walk' = Idle
    BY <1>1 DEF Reset
  <2> QED
    BY <2>1, <2>2, <2>3 DEF TypeOK, Cached, WalkSound, EntryType
<1>2. ASSUME NEW f, Fence(f)
      PROVE  TlbInv'
  <2>1. TypeOK' /\ Cached'
    BY <1>2, EdgeInv DEF Fence
  <2>2. WalkSound'
    BY <1>2 DEF Fence, WalkSound, Walking, Idle
  <2> QED
    BY <2>1, <2>2
<1>3. ASSUME NEW f, Refill(f)
      PROVE  TlbInv'
  <2>1. walk.leaf \in table \cup unfenced
    BY <1>3 DEF Refill, WalkSound, Idle, NoRefill
  <2>2. TypeOK' /\ Cached'
    BY <1>3, <2>1, EdgeInv DEF Refill, TypeOK
  <2>3. WalkSound'
    BY <1>3 DEF Refill, WalkSound
  <2> QED
    BY <2>2, <2>3
<1>4. ASSUME NEW q, Miss(q)
      PROVE  TlbInv'
  <2>1. WalkSound'
    BY <1>4 DEF Miss, WalkSound, Walking
  <2>2. TypeOK' /\ Cached'
    BY <1>4 DEF Miss, TypeOK, Cached
  <2> QED
    BY <2>1, <2>2
<1>5. CASE ReadLeaf
  <2>1. UNCHANGED <<entries, repl_ptr, table, unfenced>>
    BY <1>5 DEF ReadLeaf
  <2>2. TypeOK' /\ Cached'
    BY <2>1 DEF TypeOK, Cached
  <2>3. PICK p, h : walk = [busy |-> TRUE, page |-> p, leaf |-> h]
    BY <1>5 DEF ReadLeaf, WalkSound, Idle
  <2>4. CASE \E l \in table : /\ Maps(l, walk.page.mode, walk.page.asid, walk.page.vpn)
                              /\ walk' = [walk EXCEPT !.leaf = l]
    <3>1. PICK l \in table : /\ Maps(l, walk.page.mode, walk.page.asid, walk.page.vpn)
                             /\ walk' = [walk EXCEPT !.leaf = l]
      BY <2>4
    <3>2. walk' = [busy |-> TRUE, page |-> p, leaf |-> l] /\ walk.page = p
      BY <2>3, <3>1
    <3>3. walk'.busy /\ walk'.page = p /\ walk'.leaf = l
      BY <3>2
    <3>4. walk' = [busy |-> TRUE, page |-> walk'.page, leaf |-> walk'.leaf]
      BY <3>2, <3>3
    <3>5. Maps(walk'.leaf, walk'.page.mode, walk'.page.asid, walk'.page.vpn)
      BY <3>1, <3>2, <3>3
    <3>6. WalkSound'
      BY <2>1, <3>3, <3>4, <3>5 DEF WalkSound
    <3> QED
      BY <2>2, <3>6
  <2>5. CASE walk' = Idle
    BY <2>2, <2>5 DEF WalkSound
  <2> QED
    BY <1>5, <2>4, <2>5 DEF ReadLeaf
<1>6. ASSUME NEW out \in SUBSET table, NEW in \in SUBSET Leaves, Edit(out, in)
      PROVE  TlbInv'
  <2>1. /\ table' = (table \ out) \cup in /\ unfenced' = unfenced \cup (out \ in)
        /\ UNCHANGED <<entries, repl_ptr, walk>>
    BY <1>6 DEF Edit
  <2>2. table \cup unfenced \subseteq table' \cup unfenced'
    BY <2>1
  <2>3. TypeOK'
    BY <2>1 DEF TypeOK
  <2>4. Cached' /\ WalkSound'
    BY <2>1, <2>2 DEF Cached, WalkSound
  <2> QED
    BY <2>3, <2>4
<1>7. CASE UNCHANGED vars
  BY <1>7 DEF vars, TypeOK, Cached, WalkSound
<1> QED
  <2>1. CASE \E old \in table, new \in Leaves : Edit({old}, {new})
    BY <1>6, <2>1
  <2>2. CASE \E old \in table : Edit({old}, {})
    BY <1>6, <2>2
  <2>3. CASE \E new \in Leaves : Edit({}, {new})
    BY <1>6, <2>3
  <2> QED
    BY <1>1, <1>2, <1>3, <1>4, <1>5, <1>7, <2>1, <2>2, <2>3 DEF Next

\* The invariant holds of every reachable state.
LEMMA InvHolds == Spec => []TlbInv
BY InitInv, StepInv, PTL DEF Spec

-----------------------------------------------------------------------------
(* What follows from it *)

\* Some entry matches: the lowest one exists and answers.
LEMMA HitMatches ==
  ASSUME TypeOK, NEW q, Matches(entries, q) # {}
  PROVE  HitIndex(entries, q) \in Matches(entries, q)
<1> DEFINE T == Matches(entries, q)
<1>1. T \subseteq Nat
  BY TlbAssumption DEF TypeOK, Matches
<1>2. PICK k \in T : \A j \in T : ~(<<j, k>> \in OpToRel(<, Nat))
  BY <1>1, NatLessThanWellFounded, WFMin
<1>3. ASSUME NEW j \in T
      PROVE  k <= j
  <2>1. j \in Nat /\ k \in Nat
    BY <1>1
  <2>2. ~(<<j, k>> \in {ss \in Nat \X Nat : ss[1] < ss[2]})
    BY <1>2 DEF OpToRel
  <2> QED
    BY <2>1, <2>2
<1> QED
  BY <1>3 DEF HitIndex

\* No request is answered from a translation that software has fenced.
THEOREM NoFencedTranslation == Spec => []NoStaleTranslation
<1>1. TlbInv => NoStaleTranslation
  <2> SUFFICES ASSUME TlbInv, NEW q \in Requests, is_supported_mode(q.mode), ~Bypass(q),
                      Lookup(entries, q) # NeedPtw
               PROVE  \/ \E l \in unfenced : Maps(l, q.mode, q.asid, q.vpn)
                      \/ \E l \in table :
                           /\ Maps(l, q.mode, q.asid, q.vpn)
                           /\ Lookup(entries, q) =
                                IF Permitted(q, l.rights)
                                THEN Hit([d \in Level |-> IF d < l.level THEN q.vpn[d]
                                                                         ELSE l.ppn[d]])
                                ELSE Fault
    BY DEF NoStaleTranslation
  <2> DEFINE e == entries[HitIndex(entries, q)]
  <2>1. Matches(entries, q) # {}
    BY DEF Lookup
  <2>2. Lookup(entries, q) = IF allow_access(q, e.rights) THEN Hit(PhysicalPage(e, q.vpn))
                             ELSE Fault
    BY <2>1 DEF Lookup
  <2>3. HitIndex(entries, q) \in Matches(entries, q)
    BY <2>1, HitMatches DEF TlbInv
  <2>4. e.valid /\ entry_match(e, vaddr_to_vpn(q.vpn, q.mode), q.asid, q.mode)
    BY <2>3 DEF Matches, entry_match
  <2>5. e \in table \cup unfenced
    BY <2>3, <2>4 DEF TlbInv, Cached, Matches
  <2>6. e \in LeafType
    BY <2>5, TlbSystemAssumption DEF TlbInv, TypeOK
  <2>7. Maps(e, q.mode, q.asid, q.vpn)
    BY <2>4, <2>6, MatchIsMap
  <2>8. allow_access(q, e.rights) <=> Permitted(q, e.rights)
    BY AccessIsPermission, TlbSystemAssumption
  <2> HIDE DEF e
  <2> QED
    BY <2>2, <2>5, <2>7, <2>8 DEF PhysicalPage
<1> QED
  BY <1>1, InvHolds, PTL

\* The entries, the pointer and the table are well typed.
THEOREM TlbTypeCorrect == Spec => []TypeOK
<1>1. TlbInv => TypeOK
  BY DEF TlbInv
<1> QED
  BY <1>1, InvHolds, PTL

\* The request a walk was made for is answered right after the refill.
THEOREM RefillAnswers == Spec => RetryIsAnswered
<1> DEFINE Answered ==
      walk.busy /\ walk.leaf.valid /\ ~walk'.busy /\ recent' # <<>> =>
        \A q \in Requests : PageOf(q) = walk.page => Lookup(entries', q) # NeedPtw
<1>1. TlbInv /\ [Next]_vars => [Answered]_vars
  <2> SUFFICES ASSUME TlbInv, Next, walk.busy, walk.leaf.valid, ~walk'.busy, recent' # <<>>,
                      NEW q \in Requests, PageOf(q) = walk.page
               PROVE  Lookup(entries', q) # NeedPtw
    OBVIOUS
  <2>1. PICK f : Refill(f)
    <3>1. ~Reset
      BY DEF Reset
    <3>2. \A f : ~Fence(f)
      BY DEF Fence, Walking
    <3>3. \A r : ~Miss(r)
      BY DEF Miss
    <3>4. ~ReadLeaf
      BY DEF ReadLeaf
    <3>5. \A out, in : ~Edit(out, in)
      BY DEF Edit
    <3> QED
      BY <3>1, <3>2, <3>3, <3>4, <3>5 DEF Next
  <2>2. walk.leaf \in LeafType /\ Maps(walk.leaf, q.mode, q.asid, q.vpn)
    <3>1. /\ walk.leaf \in table \cup unfenced
          /\ Maps(walk.leaf, walk.page.mode, walk.page.asid, walk.page.vpn)
      BY DEF TlbInv, WalkSound, Idle, NoRefill
    <3>2. walk.page.mode = q.mode /\ walk.page.asid = q.asid /\ walk.page.vpn = q.vpn
      BY DEF PageOf
    <3> QED
      BY <3>1, <3>2, TlbSystemAssumption DEF TlbInv, TypeOK
  <2>3. Accepted(walk.leaf)
    <3>1. walk.leaf.valid /\ walk.leaf.mode \in {SATP_MODE_SV32, SATP_MODE_SV48, SATP_MODE_SV57}
      BY <2>2, LeafFacts
    <3> QED
      BY <3>1 DEF Accepted, is_supported_mode, SATP_MODE_SV32, SATP_MODE_SV48, SATP_MODE_SV57,
                  SATP_MODE_BARE
  <2>4. repl_ptr \in DOMAIN entries' /\ entries'[repl_ptr] = walk.leaf
    BY <2>1, <2>3 DEF Refill, Edge, EntriesNext, Refilled, Flushed, TlbInv, TypeOK
  <2>5. Matches(entries', q) # {}
    BY <2>2, <2>4, MatchIsMap DEF Matches
  <2>6. Fault # NeedPtw /\ \A p : Hit(p) # NeedPtw
    <3>1. Fault.answer = "page_fault" /\ NeedPtw.answer = "need_ptw"
      BY DEF Fault, NeedPtw
    <3>2. \A p : Hit(p).answer = "hit"
      BY DEF Hit
    <3> QED
      BY <3>1, <3>2
  <2> QED
    BY <2>5, <2>6 DEF Lookup
<1> QED
  BY <1>1, InvHolds, PTL DEF Spec, RetryIsAnswered

-----------------------------------------------------------------------------
(* Round robin *)

\* Where the i-th newest refill was written.
Slot(ptr, i) == IF i <= ptr THEN ptr - i ELSE ptr - i + ENTRIES

\* The entries, from the one below the pointer downwards and round, are the
\* refills from the newest to the oldest; one that a fence took away, and one
\* never written, is invalid.
RoundRobin ==
  /\ recent \in Seq(Leaves \cup {NoRefill}) /\ Len(recent) <= ENTRIES
  /\ \A i \in 1 .. ENTRIES :
       IF i <= Len(recent) /\ recent[i].valid
       THEN entries[Slot(repl_ptr, i)] = recent[i]
       ELSE ~entries[Slot(repl_ptr, i)].valid

\* Slots are entries, and every entry is one; after a refill at the pointer
\* the newest is that one and the others are one further back.
LEMMA Slots ==
  ASSUME NEW ptr \in 0 .. ENTRIES - 1
  PROVE  /\ \A i \in 1 .. ENTRIES : Slot(ptr, i) \in 0 .. ENTRIES - 1
         /\ \A k \in 0 .. ENTRIES - 1 : \E i \in 1 .. ENTRIES : Slot(ptr, i) = k
         /\ Slot((ptr + 1) % ENTRIES, 1) = ptr
         /\ \A i \in 2 .. ENTRIES : /\ Slot((ptr + 1) % ENTRIES, i) = Slot(ptr, i - 1)
                                    /\ Slot(ptr, i - 1) # ptr
<1>1. ENTRIES \in Nat /\ ENTRIES >= 2 /\ ptr \in Int
  BY TlbAssumption
<1>2. (ptr + 1) % ENTRIES = IF ptr = ENTRIES - 1 THEN 0 ELSE ptr + 1
  <2>1. CASE ptr = ENTRIES - 1
    BY <1>1, <2>1
  <2>2. CASE ptr # ENTRIES - 1
    BY <1>1, <2>2
  <2> QED
    BY <2>1, <2>2
<1>3. ASSUME NEW i \in 1 .. ENTRIES
      PROVE  Slot(ptr, i) \in 0 .. ENTRIES - 1
  BY <1>1 DEF Slot
<1>4. ASSUME NEW k \in 0 .. ENTRIES - 1
      PROVE  \E i \in 1 .. ENTRIES : Slot(ptr, i) = k
  <2> DEFINE n == IF k < ptr THEN ptr - k ELSE ptr - k + ENTRIES
  <2>1. n \in 1 .. ENTRIES /\ Slot(ptr, n) = k
    BY <1>1 DEF Slot
  <2> QED
    BY <2>1
<1>5. Slot((ptr + 1) % ENTRIES, 1) = ptr
  BY <1>1, <1>2 DEF Slot
<1>6. ASSUME NEW i \in 2 .. ENTRIES
      PROVE  /\ Slot((ptr + 1) % ENTRIES, i) = Slot(ptr, i - 1)
             /\ Slot(ptr, i - 1) # ptr
  BY <1>1, <1>2 DEF Slot
<1> QED
  BY <1>3, <1>4, <1>5, <1>6

\* A leaf is a refill the TLB accepts.
LEMMA LeafAccepted ==
  ASSUME NEW r \in Leaves
  PROVE  r.valid /\ Accepted(r)
<1>1. r.valid = TRUE /\ r.mode \in {SATP_MODE_SV32, SATP_MODE_SV48, SATP_MODE_SV57}
  BY LeafFacts, TlbSystemAssumption
<1> QED
  BY <1>1 DEF Accepted, is_supported_mode, SATP_MODE_SV32, SATP_MODE_SV48,
              SATP_MODE_SV57, SATP_MODE_BARE

\* After reset nothing is held.
LEMMA ResetRoundRobin ==
  /\ <<>> \in Seq(Leaves \cup {NoRefill}) /\ Len(<<>>) = 0 /\ Len(<<>>) <= ENTRIES
  /\ \A i \in 1 .. ENTRIES : ~(i <= Len(<<>>)) /\ ~ResetEntries[Slot(0, i)].valid
<1>1. \A k \in 0 .. ENTRIES - 1 : ~ResetEntries[k].valid
  BY DEF ResetEntries, InvalidEntry
<1>2. 0 \in 0 .. ENTRIES - 1
  BY TlbAssumption
<1>3. \A i \in 1 .. ENTRIES : Slot(0, i) \in 0 .. ENTRIES - 1
  BY <1>2, Slots
<1> QED
  BY <1>1, <1>3, TlbAssumption

\* What an edge makes of each entry.
LEMMA EdgeSlots ==
  ASSUME TypeOK, Cached, NEW f, NEW r \in Leaves \cup {NoRefill},
         entries' = EntriesNext(entries, repl_ptr, f, r), NEW k \in 0 .. ENTRIES - 1
  PROVE  IF k = repl_ptr /\ r.valid THEN entries'[k] = r
         ELSE IF entries[k].valid /\ ~Orders(f, entries[k]) THEN entries'[k] = entries[k]
         ELSE ~entries'[k].valid
<1>1. entries \in [0 .. ENTRIES - 1 -> EntryType]
  BY DEF TypeOK, EntryType
<1>2. entries'[k] = IF k = repl_ptr /\ Accepted(r) THEN r
                    ELSE [entries[k] EXCEPT !.valid = @ /\ ~FenceHits(f, entries[k])]
  BY <1>1 DEF EntriesNext, Refilled, Flushed
<1>3. Accepted(r) <=> r.valid
  <2>1. CASE r = NoRefill
    BY <2>1 DEF Accepted, NoRefill
  <2>2. CASE r \in Leaves
    BY <2>2, LeafAccepted
  <2> QED
    BY <2>1, <2>2
<1>4. entries[k] \in EntryType /\ (entries[k].valid => entries[k] \in Leaves)
  BY <1>1 DEF Cached, TypeOK
<1>5. CASE k = repl_ptr /\ r.valid
  BY <1>2, <1>3, <1>5
<1>6. CASE ~(k = repl_ptr /\ r.valid)
  <2>1. entries'[k] = [entries[k] EXCEPT !.valid = @ /\ ~FenceHits(f, entries[k])]
    BY <1>2, <1>3, <1>6
  <2>2. entries'[k].valid => entries'[k] = entries[k] /\ ~FenceHits(f, entries[k])
    BY <1>4, <2>1, FlushedEntry
  <2>3. CASE entries[k].valid /\ ~Orders(f, entries[k])
    <3>1. entries[k] \in LeafType /\ entries[k].valid = TRUE
      BY <1>4, <2>3, LeafFacts, TlbSystemAssumption
    <3>2. ~FenceHits(f, entries[k])
      BY <2>3, <3>1, FenceIsOrder
    <3>3. entries'[k] = [entries[k] EXCEPT !.valid = TRUE]
      BY <2>1, <3>1, <3>2
    <3>4. entries'[k] = entries[k]
      BY <3>1, <3>3 DEF LeafType
    <3> QED
      BY <1>6, <2>3, <3>4
  <2>4. CASE ~(entries[k].valid /\ ~Orders(f, entries[k]))
    <3>1. ASSUME entries'[k].valid PROVE FALSE
      <4>1. entries'[k] = entries[k] /\ ~FenceHits(f, entries[k])
        BY <2>2, <3>1
      <4>2. entries[k].valid /\ entries[k] \in LeafType
        BY <1>4, <3>1, <4>1, TlbSystemAssumption
      <4> QED
        BY <2>4, <4>1, <4>2, FenceIsOrder
    <3> QED
      BY <1>6, <2>4, <3>1
  <2> QED
    BY <2>3, <2>4
<1> QED
  BY <1>5, <1>6

\* The history after an edge: the refill in front if there is one, then what
\* the fence leaves, and what falls off the end is the refill overwritten.
LEMMA EdgeRecent ==
  ASSUME RoundRobin, NEW f, NEW r \in Leaves \cup {NoRefill}, Edge(f, r)
  PROVE  /\ recent' \in Seq(Leaves \cup {NoRefill}) /\ Len(recent') <= ENTRIES
         /\ ~r.valid => Len(recent') = Len(recent)
         /\ r.valid => /\ Len(recent') = IF Len(recent) < ENTRIES THEN Len(recent) + 1
                                                                  ELSE ENTRIES
                       /\ recent'[1] = r
         /\ \A i \in 1 .. Len(recent) :
              LET j == IF r.valid THEN i + 1 ELSE i
              IN  j <= Len(recent') =>
                    recent'[j] = IF recent[i].valid /\ ~Orders(f, recent[i])
                                 THEN recent[i] ELSE NoRefill
<1> DEFINE L == Leaves \cup {NoRefill}
           s == Survivors(f)
           n == Len(recent)
           t == <<r>> \o s
           m == IF n < ENTRIES THEN n + 1 ELSE ENTRIES
<1>1. recent \in Seq(L) /\ n \in Nat /\ n <= ENTRIES /\ DOMAIN recent = 1 .. n
      /\ ENTRIES \in Nat /\ ENTRIES >= 2
  BY TlbAssumption DEF RoundRobin
<1>2. /\ s \in Seq(L) /\ Len(s) = n
      /\ \A i \in 1 .. n : s[i] = IF recent[i].valid /\ ~Orders(f, recent[i])
                                  THEN recent[i] ELSE NoRefill
  <2>1. s = [i \in 1 .. n |-> IF recent[i].valid /\ ~Orders(f, recent[i])
                              THEN recent[i] ELSE NoRefill]
    BY <1>1 DEF Survivors
  <2>2. \A i \in 1 .. n : recent[i] \in L
    BY <1>1
  <2>3. s \in [1 .. n -> L]
    BY <2>1, <2>2
  <2> HIDE DEF s, L, n
  <2> QED
    BY <1>1, <2>1, <2>3
<1>3. /\ t \in Seq(L) /\ Len(t) = n + 1 /\ t[1] = r
      /\ \A i \in 1 .. n : t[i + 1] = s[i]
  <2>1. r \in L
    OBVIOUS
  <2> HIDE DEF s, L, n
  <2>2. <<r>> \in Seq(L) /\ Len(<<r>>) = 1 /\ <<r>>[1] = r
    BY <2>1
  <2>3. t \in Seq(L) /\ Len(t) = n + 1 /\ t[1] = r
    BY <1>1, <1>2, <2>2
  <2>4. ASSUME NEW i \in 1 .. n
        PROVE  t[i + 1] = s[i]
    BY <1>1, <1>2, <2>2
  <2> QED
    BY <2>3, <2>4
<1>4. m \in 1 .. n + 1 /\ m <= ENTRIES
  BY <1>1
<1>5. LET u == SubSeq(t, 1, m)
      IN  u \in Seq(L) /\ Len(u) = m /\ \A i \in 1 .. m : u[i] = t[i]
  <2> HIDE DEF t, m, L, n
  <2> QED
    BY <1>1, <1>3, <1>4
<1>6. recent' = IF r.valid THEN SubSeq(t, 1, m) ELSE s
  BY DEF Edge
<1> HIDE DEF s, t
<1>7. CASE r.valid
  BY <1>1, <1>3, <1>2, <1>4, <1>5, <1>6, <1>7
<1>8. CASE ~r.valid
  BY <1>1, <1>2, <1>6, <1>8
<1> QED
  BY <1>7, <1>8

\* An edge keeps the entries and the history in step.
LEMMA EdgeRoundRobin ==
  ASSUME TypeOK, Cached, RoundRobin, NEW f, NEW r \in Leaves \cup {NoRefill}, Edge(f, r)
  PROVE  RoundRobin'
<1> DEFINE Shown(es, ptr, rc, i) ==
             IF i <= Len(rc) /\ rc[i].valid THEN es[Slot(ptr, i)] = rc[i]
                                            ELSE ~es[Slot(ptr, i)].valid
<1>1. ENTRIES \in Nat /\ ENTRIES >= 2 /\ repl_ptr \in 0 .. ENTRIES - 1
      /\ Len(recent) \in Nat /\ Len(recent) <= ENTRIES
  BY TlbAssumption DEF TypeOK, RoundRobin
<1>2. \A i \in 1 .. ENTRIES : Shown(entries, repl_ptr, recent, i)
  BY DEF RoundRobin
<1>3. /\ \A i \in 1 .. ENTRIES : Slot(repl_ptr, i) \in 0 .. ENTRIES - 1
      /\ Slot((repl_ptr + 1) % ENTRIES, 1) = repl_ptr
      /\ \A i \in 2 .. ENTRIES : /\ Slot((repl_ptr + 1) % ENTRIES, i) = Slot(repl_ptr, i - 1)
                                 /\ Slot(repl_ptr, i - 1) # repl_ptr
  BY <1>1, Slots
<1>4. ~NoRefill.valid
  BY DEF NoRefill
<1>5. ASSUME NEW i \in 1 .. ENTRIES, ~(Slot(repl_ptr, i) = repl_ptr /\ r.valid)
      PROVE  LET k == Slot(repl_ptr, i)
             IN  IF i <= Len(recent) /\ recent[i].valid /\ ~Orders(f, recent[i])
                 THEN entries'[k] = recent[i] ELSE ~entries'[k].valid
  <2> DEFINE k == Slot(repl_ptr, i)
  <2>1. k \in 0 .. ENTRIES - 1 /\ entries' = EntriesNext(entries, repl_ptr, f, r)
    BY <1>3 DEF Edge
  <2> HIDE DEF k
  <2>2. IF entries[k].valid /\ ~Orders(f, entries[k]) THEN entries'[k] = entries[k]
        ELSE ~entries'[k].valid
    BY <1>5, <2>1, EdgeSlots DEF k
  <2>3. IF i <= Len(recent) /\ recent[i].valid THEN entries[k] = recent[i]
                                               ELSE ~entries[k].valid
    BY <1>2 DEF k
  <2> QED
    BY <2>2, <2>3 DEF k
<1>6. /\ Len(recent') \in Nat
      /\ recent' \in Seq(Leaves \cup {NoRefill}) /\ Len(recent') <= ENTRIES
  BY EdgeRecent
<1>7. CASE r.valid
  <2>1. /\ Len(recent') = IF Len(recent) < ENTRIES THEN Len(recent) + 1 ELSE ENTRIES
        /\ recent'[1] = r
        /\ \A i \in 1 .. Len(recent) : i + 1 <= Len(recent') =>
             recent'[i + 1] = IF recent[i].valid /\ ~Orders(f, recent[i])
                              THEN recent[i] ELSE NoRefill
    BY <1>7, EdgeRecent
  <2>2. repl_ptr' = (repl_ptr + 1) % ENTRIES
    <3>1. r \in Leaves
      BY <1>4, <1>7
    <3>2. Accepted(r)
      BY <3>1, LeafAccepted
    <3> QED
      BY <3>2, TlbAssumption DEF Edge, PtrNext
  <2>3. entries'[repl_ptr] = r
    BY <1>1, <1>7, EdgeSlots DEF Edge
  <2>4. Shown(entries', repl_ptr', recent', 1)
    BY <1>1, <1>3, <1>7, <2>1, <2>2, <2>3
  <2>5. ASSUME NEW i \in 2 .. ENTRIES
        PROVE  Shown(entries', repl_ptr', recent', i)
    <3> DEFINE h == i - 1
               k == Slot(repl_ptr, h)
    <3>1. h \in 1 .. ENTRIES /\ h + 1 = i /\ k # repl_ptr /\ Slot(repl_ptr', i) = k
      BY <1>1, <1>3, <2>2
    <3>2. IF h <= Len(recent) /\ recent[h].valid /\ ~Orders(f, recent[h])
          THEN entries'[k] = recent[h] ELSE ~entries'[k].valid
      BY <1>5, <3>1
    <3>3. i <= Len(recent') <=> h <= Len(recent)
      BY <1>1, <2>1
    <3> HIDE DEF h, k
    <3>4. ASSUME h <= Len(recent)
          PROVE  recent'[i] = IF recent[h].valid /\ ~Orders(f, recent[h])
                              THEN recent[h] ELSE NoRefill
      <4>1. h \in 1 .. Len(recent) /\ h + 1 <= Len(recent')
        BY <1>1, <3>1, <3>3, <3>4
      <4> QED
        BY <2>1, <3>1, <4>1
    <3> QED
      BY <1>4, <3>1, <3>2, <3>3, <3>4
  <2>6. \A i \in 1 .. ENTRIES : i = 1 \/ i \in 2 .. ENTRIES
    BY <1>1
  <2> HIDE DEF Shown
  <2>7. \A i \in 1 .. ENTRIES : Shown(entries', repl_ptr', recent', i)
    BY <2>4, <2>5, <2>6
  <2> QED
    BY <1>6, <2>7 DEF RoundRobin, Shown
<1>8. CASE ~r.valid
  <2>1. /\ Len(recent') = Len(recent)
        /\ \A i \in 1 .. Len(recent) :
             recent'[i] = IF recent[i].valid /\ ~Orders(f, recent[i])
                          THEN recent[i] ELSE NoRefill
    BY <1>1, <1>8, EdgeRecent
  <2>2. repl_ptr' = repl_ptr
    BY <1>8 DEF Edge, PtrNext, Accepted
  <2>3. ASSUME NEW i \in 1 .. ENTRIES
        PROVE  Shown(entries', repl_ptr', recent', i)
    BY <1>1, <1>4, <1>5, <1>8, <2>1, <2>2
  <2> QED
    BY <1>6, <2>3 DEF RoundRobin
<1> QED
  BY <1>7, <1>8

\* One step per action.
LEMMA StepRoundRobin ==
  ASSUME TlbInv, RoundRobin, [Next]_vars
  PROVE  RoundRobin'
<1>1. CASE UNCHANGED <<entries, repl_ptr, recent>>
  BY <1>1 DEF RoundRobin
<1>2. CASE Reset
  <2>1. recent' = <<>> /\ entries' = ResetEntries /\ repl_ptr' = 0
    BY <1>2 DEF Reset
  <2> QED
    BY <2>1, ResetRoundRobin DEF RoundRobin
<1>3. ASSUME NEW f, Fence(f)
      PROVE  RoundRobin'
  BY <1>3, EdgeRoundRobin DEF Fence, TlbInv
<1>4. ASSUME NEW f, Refill(f)
      PROVE  RoundRobin'
  <2>1. walk.leaf \in table \cup unfenced
    BY <1>4 DEF Refill, TlbInv, WalkSound, Idle, NoRefill
  <2> QED
    BY <1>4, <2>1, EdgeRoundRobin DEF Refill, TlbInv, TypeOK
<1>5. (\E q \in Requests : Miss(q)) => UNCHANGED <<entries, repl_ptr, recent>>
  BY DEF Miss
<1>6. ReadLeaf => UNCHANGED <<entries, repl_ptr, recent>>
  BY DEF ReadLeaf
<1>7. \A out, in : Edit(out, in) => UNCHANGED <<entries, repl_ptr, recent>>
  BY DEF Edit
<1>8. UNCHANGED vars => UNCHANGED <<entries, repl_ptr, recent>>
  BY DEF vars
<1> QED
  BY <1>1, <1>2, <1>3, <1>4, <1>5, <1>6, <1>7, <1>8 DEF Next

\* Replacement is round robin: PtrNext and Refilled overwrite the oldest
\* refill and nothing else, for every number of entries, whatever fences
\* freed in between.
THEOREM RecentRefillsKept == Spec => []KeepsRecent
<1>1. Init => RoundRobin
  BY ResetRoundRobin DEF Init, RoundRobin
<1>2. TlbInv /\ RoundRobin => KeepsRecent
  <2> SUFFICES ASSUME TlbInv, RoundRobin PROVE KeepsRecent
    OBVIOUS
  <2>1. /\ DOMAIN entries = 0 .. ENTRIES - 1 /\ repl_ptr \in 0 .. ENTRIES - 1
        /\ DOMAIN recent = 1 .. Len(recent) /\ Len(recent) \in Nat /\ Len(recent) <= ENTRIES
        /\ ENTRIES \in Nat
    BY TlbAssumption DEF TlbInv, TypeOK, RoundRobin
  <2>2. ASSUME NEW k \in DOMAIN entries, entries[k].valid
        PROVE  \E i \in DOMAIN recent : recent[i].valid /\ recent[i] = entries[k]
    <3>1. PICK i \in 1 .. ENTRIES : Slot(repl_ptr, i) = k
      BY <2>1, Slots
    <3>2. i <= Len(recent) /\ recent[i].valid /\ entries[k] = recent[i]
      BY <2>2, <3>1 DEF RoundRobin
    <3> QED
      BY <2>1, <3>1, <3>2
  <2>3. ASSUME NEW i \in DOMAIN recent, recent[i].valid
        PROVE  \E k \in DOMAIN entries : entries[k].valid /\ entries[k] = recent[i]
    <3>1. i \in 1 .. ENTRIES /\ i <= Len(recent)
      BY <2>1
    <3>2. Slot(repl_ptr, i) \in DOMAIN entries
      BY <2>1, <3>1, Slots
    <3>3. entries[Slot(repl_ptr, i)] = recent[i]
      BY <2>3, <3>1 DEF RoundRobin
    <3> QED
      BY <2>3, <3>2, <3>3
  <2> QED
    BY <2>2, <2>3 DEF KeepsRecent
<1> QED
  BY <1>1, <1>2, StepRoundRobin, InvHolds, PTL DEF Spec
=============================================================================
