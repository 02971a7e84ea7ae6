-------------------------- MODULE ClaimLedger_proofs --------------------------
(***************************************************************************)
(* Proofs about ClaimLedger, for every set of claims, bodies and threads.  *)
(***************************************************************************)
EXTENDS ClaimLedger, TLAPS

USE NoneAssumption, ExtractAssumption, TreesAssumption, OrderAssumption, SwitchAssumption

(* A conflict is a pair of claims. *)
LEMMA ConflictClaims == \A k \in Conflicts : k \subseteq Claims
BY DEF Conflicts

(* The decisions and events, kind by kind *)
LEMMA DecisionKinds ==
  ASSUME NEW e \in Decisions
  PROVE  /\ e \in Events
         /\ \/ /\ e.kind = "supersede" /\ e.of \in Claims /\ e.by \in Claims
               /\ e = ClaimSuperseded(e.of, e.by)
            \/ /\ e.kind = "open" /\ e.of \in Conflicts /\ e = ConflictOpened(e.of)
            \/ /\ e.kind = "resolve" /\ e.of \in Conflicts /\ e.by \in Resolutions
               /\ e = ConflictResolved(e.of, e.by)
BY DEF Decisions, Events, ClaimSuperseded, ConflictOpened, ConflictResolved

LEMMA DecisionTypes ==
  /\ \A x, y \in Claims : ClaimSuperseded(x, y) \in Decisions
  /\ \A k \in Conflicts : ConflictOpened(k) \in Decisions
  /\ \A k \in Conflicts, r \in Resolutions : ConflictResolved(k, r) \in Decisions
BY DEF Decisions

LEMMA EventKinds ==
  ASSUME NEW e \in Events
  PROVE  \/ /\ e.kind = "source" /\ e.of \in Bodies /\ e = SourceObserved(e.of)
         \/ /\ e.kind = "claim" /\ e.of \in Claims /\ e = ClaimRecorded(e.of)
         \/ e \in Decisions
BY DEF Events, SourceObserved, ClaimRecorded

(* Every fold step takes a card to a card. *)
LEMMA ClaimCardTypes ==
  ASSUME NEW card \in ClaimCards
  PROVE  /\ OnRecorded(card) \in ClaimCards
         /\ \A new \in Claims : OnSuperseded(card, new) \in ClaimCards
<1>1. OnRecorded(card) \in ClaimCards
  BY DEF OnRecorded, ClaimCards, ClaimAnomalies
<1>2. SupersedeFrom(card.phase) \subseteq ClaimAnomalies
  <2>1. card.phase = 0 \/ card.phase = 1 \/ card.phase = 2
    BY DEF ClaimCards
  <2> QED BY <2>1 DEF SupersedeFrom, ClaimAnomalies
<1>3. ASSUME NEW new \in Claims PROVE OnSuperseded(card, new) \in ClaimCards
  <2>1. /\ card.anomalies \cup SupersedeFrom(card.phase) \subseteq ClaimAnomalies
        /\ {"duplicate-supersede"} \subseteq ClaimAnomalies
    BY <1>2 DEF ClaimCards, ClaimAnomalies
  <2> QED BY <2>1 DEF OnSuperseded, ClaimCards
<1> QED BY <1>1, <1>3

LEMMA ConflictCardTypes ==
  ASSUME NEW card \in ConflictCards
  PROVE  /\ OnOpened(card) \in ConflictCards
         /\ \A r \in Resolutions : OnResolved(card, r) \in ConflictCards
<1>1. OnOpened(card) \in ConflictCards
  BY DEF OnOpened, ConflictCards, ConflictAnomalies
<1>2. ResolveFrom(card.phase) \subseteq ConflictAnomalies
  <2>1. card.phase = 0 \/ card.phase = 1 \/ card.phase = 2 \/ card.phase = 3
    BY DEF ConflictCards
  <2> QED BY <2>1 DEF ResolveFrom, ConflictAnomalies
<1>3. \A r \in Resolutions : OnResolved(card, r) \in ConflictCards
  BY <1>2 DEF OnResolved, ConflictCards
<1> QED BY <1>1, <1>3

(* An append leaves the state typed. *)
LEMMA AppendTypes ==
  ASSUME TypeOK, NEW e \in Events, Append_(e)
  PROVE  /\ journal' \in Seq(Events)
         /\ claimCard' \in [Claims -> ClaimCards]
         /\ conflictCard' \in [Conflicts -> ConflictCards]
         /\ observed' \subseteq Bodies
<1>1. CASE Journaled(e)
  BY <1>1 DEF Append_, TypeOK
<1>2. CASE ~Journaled(e)
  <2>1. /\ journal' = Append(journal, e)
        /\ FoldClaim(e)
        /\ FoldConflict(e)
        /\ observed' = IF e.kind = "source" THEN observed \cup {e.of} ELSE observed
    BY <1>2 DEF Append_
  <2>2. journal' \in Seq(Events)
    BY <2>1 DEF TypeOK
  <2>3. observed' \subseteq Bodies
    BY <2>1, EventKinds, DecisionKinds DEF TypeOK
  <2>4. claimCard' \in [Claims -> ClaimCards]
    <3>1. CASE e.kind = "claim"
      <4>1. e.of \in Claims
        BY <3>1, EventKinds, DecisionKinds
      <4>2. OnRecorded(claimCard[e.of]) \in ClaimCards
        BY <4>1, ClaimCardTypes DEF TypeOK
      <4>3. claimCard' = [claimCard EXCEPT ![e.of] = OnRecorded(claimCard[e.of])]
        BY <2>1, <3>1 DEF FoldClaim
      <4> QED BY <4>1, <4>2, <4>3 DEF TypeOK
    <3>2. CASE e.kind = "supersede"
      <4>1. e.of \in Claims /\ e.by \in Claims
        BY <3>2, EventKinds, DecisionKinds
      <4>2. OnSuperseded(claimCard[e.of], e.by)
              \in ClaimCards
        BY <4>1, ClaimCardTypes DEF TypeOK
      <4>3. claimCard' = [claimCard EXCEPT ![e.of] = OnSuperseded(claimCard[e.of], e.by)]
        BY <2>1, <3>2 DEF FoldClaim
      <4> QED BY <4>1, <4>2, <4>3 DEF TypeOK
    <3>3. CASE e.kind # "claim" /\ e.kind # "supersede"
      BY <2>1, <3>3 DEF FoldClaim, TypeOK
    <3> QED BY <3>1, <3>2, <3>3
  <2>5. conflictCard' \in [Conflicts -> ConflictCards]
    <3>1. CASE e.kind = "open"
      <4>1. e.of \in Conflicts
        BY <3>1, EventKinds, DecisionKinds
      <4>2. OnOpened(conflictCard[e.of]) \in ConflictCards
        BY <4>1, ConflictCardTypes DEF TypeOK
      <4>3. conflictCard' = [conflictCard EXCEPT ![e.of] = OnOpened(conflictCard[e.of])]
        BY <2>1, <3>1 DEF FoldConflict
      <4> QED BY <4>1, <4>2, <4>3 DEF TypeOK
    <3>2. CASE e.kind = "resolve"
      <4>1. e.of \in Conflicts /\ e.by \in Resolutions
        BY <3>2, EventKinds, DecisionKinds
      <4>2. OnResolved(conflictCard[e.of], e.by)
              \in ConflictCards
        BY <4>1, ConflictCardTypes DEF TypeOK
      <4>3. conflictCard' = [conflictCard EXCEPT ![e.of] = OnResolved(conflictCard[e.of], e.by)]
        BY <2>1, <3>2 DEF FoldConflict
      <4> QED BY <4>1, <4>2, <4>3 DEF TypeOK
    <3>3. CASE e.kind # "open" /\ e.kind # "resolve"
      BY <2>1, <3>3 DEF FoldConflict, TypeOK
    <3> QED BY <3>1, <3>2, <3>3
  <2> QED BY <2>2, <2>3, <2>4, <2>5
<1> QED BY <1>1, <1>2

-----------------------------------------------------------------------------
(* Type correctness *)

(* Inference proposes decisions about claims. *)
LEMMA InferredTypes ==
  ASSUME NEW tree \in Seq(Bodies), NEW plan \in SUBSET (DOMAIN tree)
  PROVE  Inferred(tree, plan) \subseteq Decisions
<1>1. \A q \in Positions(tree, plan) : ClaimAt(tree, q) \in Claims
  <2> SUFFICES ASSUME NEW i \in plan, NEW n \in DOMAIN Extract[tree[i]]
               PROVE  ClaimAt(tree, <<i, n>>) \in Claims
    BY DEF Positions
  <2>1. tree[i] \in Bodies
    OBVIOUS
  <2>2. Extract[tree[i]] \in Seq(Claims)
    BY <2>1
  <2> QED BY <2>2 DEF ClaimAt
<1>2. \A old \in Claims, q \in Positions(tree, plan) :
        ClaimSuperseded(old, ClaimAt(tree, q)) \in Decisions
  BY <1>1, DecisionTypes
<1> QED BY <1>2 DEF Inferred

LEMMA IdleTypes == Idle \in Operations
BY DEF Idle, Operations

LEMMA FreshTypes ==
  ASSUME NEW tree \in Seq(Bodies)
  PROVE  Fresh(tree) \subseteq DOMAIN tree /\ Fresh(tree) \subseteq Nat
BY DEF Fresh

(* A slot may be given any operation whose plan lies in its tree. *)
Sound(o) == o \in Operations /\ WellFormed(o)

LEMMA SlotTypes ==
  ASSUME TypeOK, NEW p \in Slots, NEW o, Sound(o), op' = [op EXCEPT ![p] = o]
  PROVE  /\ op' \in [Slots -> Operations]
         /\ \A q \in Slots : WellFormed(op'[q])
BY DEF Sound, TypeOK

LEMMA StartTypes ==
  ASSUME TypeOK, NEW p \in Slots, Start(p)
  PROVE  TypeOK'
<1>1. ASSUME NEW o, Sound(o), Begin(p, o)
      PROVE  TypeOK'
  BY <1>1, SlotTypes DEF Begin, TypeOK
<1>2. ASSUME NEW tree \in Seq(Bodies), NEW next \in SUBSET Decisions,
             NEW kind \in {"cli", "session"}, NEW todo \in {"none", "infer", "relate"}
      PROVE  Sound(Planned(kind, tree, next, todo))
  BY FreshTypes DEF Planned, Operations, Sound, WellFormed
<1>3. ASSUME NEW next \in SUBSET Decisions, NEW todo \in {"none", "infer", "relate"}
      PROVE  Sound(Deciding(next, todo))
  <2>1. <<>> \in Seq(Bodies) /\ "cli" \in {"cli", "session"}
    OBVIOUS
  <2> QED BY <1>2, <2>1 DEF Deciding
<1>4. CASE \E tree \in Trees : Ingest(p, tree)
  BY <1>1, <1>2, <1>4, TreesAssumption DEF Ingest
<1>5. CASE \E b \in Transcripts : SessionEnd(p, b)
  <2>1. PICK b \in Transcripts : SessionEnd(p, b)
    BY <1>5
  <2>2. <<b>> \in Seq(Bodies)
    OBVIOUS
  <2>3. Inferred(<<b>>, Fresh(<<b>>)) \in SUBSET Decisions
    BY <2>2, FreshTypes, InferredTypes
  <2> QED BY <1>1, <1>2, <2>1, <2>2, <2>3 DEF SessionEnd
<1>6. CASE \E old, new \in Claims : ClaimSupersede(p, old, new)
  <2>1. PICK old \in Claims, new \in Claims : ClaimSupersede(p, old, new)
    BY <1>6
  <2>2. {ClaimSuperseded(old, new)} \in SUBSET Decisions
    BY DecisionTypes
  <2> QED BY <1>1, <1>3, <2>1, <2>2 DEF ClaimSupersede
<1>7. CASE ConflictsCommit(p)
  <2>1. {ConflictOpened(k) : k \in {j \in Conflicts : Contradictory(j) /\ conflictCard[j].phase = 0}}
          \in SUBSET Decisions
    BY DecisionTypes
  <2> QED BY <1>1, <1>3, <1>7, <2>1 DEF ConflictsCommit
<1>8. CASE \E k \in Conflicts, r \in Resolutions : ConflictResolve(p, k, r)
  <2>1. PICK k \in Conflicts, r \in Resolutions : ConflictResolve(p, k, r)
    BY <1>8
  <2>2. {ConflictResolved(k, r)} \in SUBSET Decisions
    BY DecisionTypes
  <2> QED BY <1>1, <1>3, <2>1, <2>2 DEF ConflictResolve
<1>9. CASE RelateRun(p)
  BY <1>1, <1>3, <1>9 DEF RelateRun
<1> QED BY <1>4, <1>5, <1>6, <1>7, <1>8, <1>9 DEF Start

LEMMA JudgedTypes ==
  ASSUME NEW edges \in SUBSET Judgeable, NEW clashes \in SUBSET Conflicts
  PROVE  {ClaimSuperseded(e[1], e[2]) : e \in edges} \cup {ConflictOpened(k) : k \in clashes}
           \in SUBSET Decisions
<1>1. edges \subseteq Claims \X Claims
  BY DEF Judgeable, Current
<1> QED BY <1>1, DecisionTypes

LEMMA StepTypes ==
  ASSUME TypeOK, NEW p \in Slots, Step(p)
  PROVE  TypeOK'
<1> DEFINE o == op[p]
<1>1. Sound(o)
  BY DEF TypeOK, Sound
<1> HIDE DEF o
<1>2. ASSUME NEW new, Sound(new), Change(p, new), UNCHANGED abandoned,
             \/ UNCHANGED <<journal, claimCard, conflictCard, observed>>
             \/ \E e \in Events : Append_(e)
      PROVE  TypeOK'
  <2>1. CASE UNCHANGED <<journal, claimCard, conflictCard, observed>>
    BY <1>2, <2>1, SlotTypes DEF Change, TypeOK
  <2>2. CASE \E e \in Events : Append_(e)
    BY <1>2, <2>2, SlotTypes, AppendTypes DEF Change, TypeOK
  <2> QED BY <1>2, <2>1, <2>2
<1>3. CASE AppendSource(p)
  <2>1. PICK i \in o.left :
          /\ Append_(SourceObserved(o.tree[i]))
          /\ Change(p, [o EXCEPT !.left = @ \ {i}, !.body = o.tree[i],
                                 !.lines = Extract[o.tree[i]]])
          /\ UNCHANGED abandoned
    BY <1>3 DEF AppendSource, o
  <2>2. o.tree[i] \in Bodies /\ Extract[o.tree[i]] \in Seq(Claims)
    BY <1>1 DEF Sound, WellFormed, Operations
  <2>3. SourceObserved(o.tree[i]) \in Events
    BY <2>2 DEF Events
  <2>4. Sound([o EXCEPT !.left = @ \ {i}, !.body = o.tree[i], !.lines = Extract[o.tree[i]]])
    BY <1>1, <2>2 DEF Sound, WellFormed, Operations
  <2> QED BY <1>2, <2>1, <2>3, <2>4
<1>4. CASE AppendClaim(p)
  <2>1. /\ o.lines # <<>>
        /\ Append_(ClaimRecorded(Head(o.lines)))
        /\ Change(p, [o EXCEPT !.lines = Tail(@)])
        /\ UNCHANGED abandoned
    BY <1>4 DEF AppendClaim, o
  <2>2. Head(o.lines) \in Claims /\ Tail(o.lines) \in Seq(Claims)
    BY <1>1, <2>1 DEF Sound, WellFormed, Operations
  <2>3. ClaimRecorded(Head(o.lines)) \in Events
    BY <2>2 DEF Events
  <2>4. o.body \in Bodies
    BY <1>1, <2>1 DEF Sound, WellFormed
  <2>5. Sound([o EXCEPT !.lines = Tail(@)])
    BY <1>1, <2>2, <2>4 DEF Sound, WellFormed, Operations
  <2> QED BY <1>2, <2>1, <2>3, <2>5
<1>5. CASE Infer(p)
  <2>1. /\ Change(p, [o EXCEPT !.next = Inferred(o.tree, o.plan), !.todo = "none"])
        /\ UNCHANGED <<journal, claimCard, conflictCard, observed, abandoned>>
    BY <1>5 DEF Infer, o
  <2>2. Inferred(o.tree, o.plan) \in SUBSET Decisions
    <3>1. o.tree \in Seq(Bodies) /\ o.plan \in SUBSET (DOMAIN o.tree)
      BY <1>1 DEF Sound, WellFormed, Operations
    <3> QED BY <3>1, InferredTypes
  <2>3. Sound([o EXCEPT !.next = Inferred(o.tree, o.plan), !.todo = "none"])
    BY <1>1, <2>2 DEF Sound, WellFormed, Operations
  <2> QED BY <1>2, <2>1, <2>3
<1>6. CASE Publish(p)
  <2>1. PICK e \in o.next :
          Append_(e) /\ Change(p, [o EXCEPT !.next = @ \ {e}]) /\ UNCHANGED abandoned
    BY <1>6 DEF Publish, o
  <2>2. e \in Events
    BY <1>1, DecisionKinds DEF Sound, WellFormed, Operations
  <2>3. Sound([o EXCEPT !.next = @ \ {e}])
    BY <1>1 DEF Sound, WellFormed, Operations
  <2> QED BY <1>2, <2>1, <2>2, <2>3
<1>7. CASE Judge(p)
  <2>1. PICK edges \in SUBSET Judgeable, clashes \in SUBSET Conflicts :
          Change(p, [o EXCEPT !.todo = "none",
                       !.next = {ClaimSuperseded(e[1], e[2]) : e \in edges}
                                  \cup {ConflictOpened(k) : k \in clashes}])
    BY <1>7 DEF Judge, o
  <2> DEFINE next == {ClaimSuperseded(e[1], e[2]) : e \in edges}
                       \cup {ConflictOpened(k) : k \in clashes}
  <2>2. next \in SUBSET Decisions
    BY JudgedTypes
  <2>3. Change(p, [o EXCEPT !.todo = "none", !.next = next])
    BY <2>1
  <2> HIDE DEF next
  <2>4. Sound([o EXCEPT !.todo = "none", !.next = next])
    BY <1>1, <2>2 DEF Sound, WellFormed, Operations
  <2>5. UNCHANGED <<journal, claimCard, conflictCard, observed, abandoned>>
    BY <1>7 DEF Judge
  <2> QED BY <1>2, <2>3, <2>4, <2>5
<1>8. CASE Finish(p)
  <2>1. Sound(Idle)
    BY IdleTypes DEF Sound, WellFormed, Idle
  <2> QED BY <1>2, <1>8, <2>1 DEF Finish
<1> QED BY <1>3, <1>4, <1>5, <1>6, <1>7, <1>8 DEF Step

LEMMA CutShortTypes ==
  ASSUME TypeOK, NEW S \in SUBSET Slots
  PROVE  CutShort(S) \subseteq Bodies
BY DEF CutShort, TypeOK, WellFormed

LEMMA StopTypes ==
  ASSUME TypeOK, (\E p \in Slots : Fail(p)) \/ Crash
  PROVE  TypeOK'
<1>1. Sound(Idle)
  BY IdleTypes DEF Sound, WellFormed, Idle
<1>2. CASE \E p \in Slots : Fail(p)
  <2>1. PICK p \in Slots : Fail(p)
    BY <1>2
  <2>2. abandoned' \subseteq Bodies
    BY <2>1, CutShortTypes DEF Fail, TypeOK
  <2> QED BY <1>1, <2>1, <2>2, SlotTypes DEF Fail, Change, TypeOK
<1>3. CASE Crash
  <2>1. abandoned' \subseteq Bodies
    BY <1>3, CutShortTypes DEF Crash, TypeOK
  <2> QED BY <1>1, <1>3, <2>1 DEF Crash, Sound, TypeOK
<1> QED BY <1>2, <1>3

LEMMA InitTypes == Init => TypeOK
<1> SUFFICES ASSUME Init PROVE TypeOK
  OBVIOUS
<1>1. NoClaimCard \in ClaimCards /\ NoConflictCard \in ConflictCards
  BY DEF NoClaimCard, NoConflictCard, ClaimCards, ConflictCards
<1>2. Sound(Idle)
  BY IdleTypes DEF Sound, WellFormed, Idle
<1> QED BY <1>1, <1>2 DEF Init, TypeOK, Sound

LEMMA NextTypes == TypeOK /\ [Next]_vars => TypeOK'
<1> SUFFICES ASSUME TypeOK, [Next]_vars PROVE TypeOK'
  OBVIOUS
<1>1. CASE UNCHANGED vars
  BY <1>1 DEF vars, TypeOK, WellFormed
<1>2. CASE \E p \in Slots : Start(p)
  BY <1>2, StartTypes
<1>3. CASE \E p \in Slots : Step(p)
  BY <1>3, StepTypes
<1>4. CASE (\E p \in Slots : Fail(p)) \/ Crash
  BY <1>4, StopTypes
<1> QED BY <1>1, <1>2, <1>3, <1>4 DEF Next

(* Whatever the operations, threads, failures and crashes, the journal     *)
(* holds only events of the claim domain, the cards only the phases and    *)
(* anomalies of their machines, and an operation in flight only claims of  *)
(* the bodies it planned.                                                  *)
THEOREM TypeCorrect == Spec => []TypeOK
BY InitTypes, NextTypes, PTL DEF Spec

-----------------------------------------------------------------------------
(* The journal, its keys and its cards *)

(* An append adds its event exactly when the key is new. *)
LEMMA JournalGrowth ==
  ASSUME TypeOK, NEW e \in Events, Append_(e), NEW f
  PROVE  InJournal(f)' <=> InJournal(f) \/ (f = e /\ ~Journaled(e))
<1>1. CASE Journaled(e)
  BY <1>1 DEF Append_, InJournal
<1>2. CASE ~Journaled(e)
  <2>1. journal' = Append(journal, e) /\ journal \in Seq(Events)
    BY <1>2 DEF Append_, TypeOK
  <2>2. /\ DOMAIN journal' = 1..(Len(journal) + 1)
        /\ DOMAIN journal = 1..Len(journal)
        /\ Len(journal) \in Nat
        /\ \A i \in 1..Len(journal) : journal'[i] = journal[i]
        /\ journal'[Len(journal) + 1] = e
    BY <2>1
  <2>3. (\E i \in DOMAIN journal' : journal'[i] = f) <=>
          (\E i \in DOMAIN journal : journal[i] = f) \/ f = e
    <3>1. ASSUME NEW i \in DOMAIN journal', journal'[i] = f
          PROVE  (\E j \in DOMAIN journal : journal[j] = f) \/ f = e
      <4>1. i \in 1..Len(journal) \/ i = Len(journal) + 1
        BY <2>2
      <4> QED BY <2>2, <3>1, <4>1
    <3>2. ASSUME NEW i \in DOMAIN journal, journal[i] = f
          PROVE  \E j \in DOMAIN journal' : journal'[j] = f
      BY <2>2, <3>2
    <3>3. ASSUME f = e PROVE \E j \in DOMAIN journal' : journal'[j] = f
      BY <2>2, <3>3
    <3> QED BY <3>1, <3>2, <3>3
  <2> QED BY <1>2, <2>3 DEF InJournal
<1> QED BY <1>1, <1>2

(* Except for a resolution, a key identifies its event. *)
LEMMA KeysIdentify ==
  ASSUME TypeOK, NEW e \in Events
  PROVE  /\ InJournal(e) => Journaled(e)
         /\ e.kind # "resolve" => (Journaled(e) => InJournal(e))
         /\ e.kind = "resolve" =>
              (Journaled(e) <=> \E r \in Resolutions : InJournal(ConflictResolved(e.of, r)))
<1>1. \A i \in DOMAIN journal : journal[i] \in Events
  BY DEF TypeOK
<1>2. InJournal(e) => Journaled(e)
  BY DEF InJournal, Journaled, SameKey
<1>3. ASSUME e.kind # "resolve", Journaled(e) PROVE InJournal(e)
  <2>1. PICK i \in DOMAIN journal : SameKey(journal[i], e)
    BY <1>3 DEF Journaled
  <2>2. journal[i] \in Events /\ journal[i].kind = e.kind /\ journal[i].of = e.of
          /\ journal[i].by = e.by
    BY <1>1, <1>3, <2>1 DEF SameKey
  <2>3. journal[i] = e
    <3>1. /\ e.kind = "source" => e = SourceObserved(e.of)
          /\ e.kind = "claim" => e = ClaimRecorded(e.of)
          /\ e.kind = "supersede" => e = ClaimSuperseded(e.of, e.by)
          /\ e.kind = "open" => e = ConflictOpened(e.of)
      BY EventKinds, DecisionKinds
    <3>2. /\ journal[i].kind = "source" => journal[i] = SourceObserved(journal[i].of)
          /\ journal[i].kind = "claim" => journal[i] = ClaimRecorded(journal[i].of)
          /\ journal[i].kind = "supersede" =>
               journal[i] = ClaimSuperseded(journal[i].of, journal[i].by)
          /\ journal[i].kind = "open" => journal[i] = ConflictOpened(journal[i].of)
      BY <2>2, EventKinds, DecisionKinds
    <3>3. e.kind \in {"source", "claim", "supersede", "open"}
      BY <1>3, EventKinds, DecisionKinds
    <3> QED BY <2>2, <3>1, <3>2, <3>3
  <2> QED BY <2>3 DEF InJournal
<1>4. ASSUME e.kind = "resolve", Journaled(e)
      PROVE  \E r \in Resolutions : InJournal(ConflictResolved(e.of, r))
  <2>1. PICK i \in DOMAIN journal : SameKey(journal[i], e)
    BY <1>4 DEF Journaled
  <2>2. journal[i] \in Events /\ journal[i].kind = "resolve" /\ journal[i].of = e.of
    BY <1>1, <1>4, <2>1 DEF SameKey
  <2>3. journal[i].by \in Resolutions /\ journal[i] = ConflictResolved(e.of, journal[i].by)
    BY <2>2, EventKinds, DecisionKinds
  <2> QED BY <2>3 DEF InJournal
<1>5. ASSUME e.kind = "resolve", NEW r \in Resolutions, InJournal(ConflictResolved(e.of, r))
      PROVE  Journaled(e)
  BY <1>5 DEF InJournal, Journaled, SameKey, ConflictResolved
<1> QED BY <1>2, <1>3, <1>4, <1>5

(* What must hold of an event when it is appended. *)
Grounded(e) ==
  /\ e.kind = "supersede" => /\ e.of # e.by
                             /\ claimCard[e.of].phase # 0
                             /\ claimCard[e.by].phase # 0
  /\ e.kind = "open" => \A x \in e.of : claimCard[x].phase # 0
  /\ e.kind = "resolve" => conflictCard[e.of].phase # 0

Story == CardsFoldJournal /\ DecisionsConcernRecordedClaims /\ NothingIsRepeated

(* A card never returns to the phase before its first event. *)
Kept ==
  /\ \A x \in Claims : claimCard[x].phase # 0 => claimCard'[x].phase # 0
  /\ \A k \in Conflicts : conflictCard[k].phase # 0 => conflictCard'[k].phase # 0

LEMMA AppendSourceStory ==
  ASSUME TypeOK, Story, NEW e \in Events, Append_(e), ~Journaled(e), e.kind = "source"
  PROVE  Story' /\ Kept
<1>1. claimCard' = claimCard /\ conflictCard' = conflictCard
  BY DEF Append_, FoldClaim, FoldConflict
<1>2. /\ \A x \in Claims : InJournal(ClaimRecorded(x))' <=> InJournal(ClaimRecorded(x))
      /\ \A x, y \in Claims : InJournal(ClaimSuperseded(x, y))' <=> InJournal(ClaimSuperseded(x, y))
      /\ \A k \in Conflicts : InJournal(ConflictOpened(k))' <=> InJournal(ConflictOpened(k))
      /\ \A k \in Conflicts, r \in Resolutions :
           InJournal(ConflictResolved(k, r))' <=> InJournal(ConflictResolved(k, r))
  BY JournalGrowth DEF ClaimRecorded, ClaimSuperseded, ConflictOpened, ConflictResolved
<1>3. CardsFoldJournal'
  BY <1>1, <1>2 DEF Story, CardsFoldJournal
<1>4. DecisionsConcernRecordedClaims' /\ NothingIsRepeated' /\ Kept
  BY <1>1 DEF Story, DecisionsConcernRecordedClaims, NothingIsRepeated, Kept
<1> QED BY <1>3, <1>4 DEF Story

LEMMA AppendClaimStory ==
  ASSUME TypeOK, Story, NEW e \in Events, Append_(e), ~Journaled(e), e.kind = "claim"
  PROVE  Story' /\ Kept
<1> DEFINE x == e.of
<1>1. x \in Claims /\ e = ClaimRecorded(x)
  BY EventKinds, DecisionKinds
<1>2. claimCard[x].phase = 0 /\ claimCard[x].by = None
  BY <1>1, KeysIdentify DEF Story, CardsFoldJournal
<1>3. /\ conflictCard' = conflictCard
      /\ claimCard' = [claimCard EXCEPT ![x] = OnRecorded(claimCard[x])]
  BY DEF Append_, FoldClaim, FoldConflict
<1>4. /\ claimCard'[x] = [phase |-> 1, by |-> None, anomalies |-> claimCard[x].anomalies]
      /\ \A y \in Claims : y # x => claimCard'[y] = claimCard[y]
  BY <1>1, <1>2, <1>3 DEF OnRecorded, TypeOK, ClaimCards
<1>5. /\ \A y \in Claims : InJournal(ClaimRecorded(y))' <=> InJournal(ClaimRecorded(y)) \/ y = x
      /\ \A y, z \in Claims : InJournal(ClaimSuperseded(y, z))' <=> InJournal(ClaimSuperseded(y, z))
      /\ \A k \in Conflicts : InJournal(ConflictOpened(k))' <=> InJournal(ConflictOpened(k))
      /\ \A k \in Conflicts, r \in Resolutions :
           InJournal(ConflictResolved(k, r))' <=> InJournal(ConflictResolved(k, r))
  BY <1>1, JournalGrowth DEF ClaimRecorded, ClaimSuperseded, ConflictOpened, ConflictResolved
<1> HIDE DEF x
<1>6. CardsFoldJournal'
  BY <1>1, <1>2, <1>3, <1>4, <1>5 DEF Story, CardsFoldJournal
<1>7. Kept
  BY <1>2, <1>3, <1>4 DEF Kept
<1>8. DecisionsConcernRecordedClaims'
  <2>1. \A y \in Claims : claimCard'[y].by # None =>
          claimCard[y].by # None /\ claimCard'[y].by = claimCard[y].by /\ claimCard[y].by \in Claims
    BY SMTT(40), <1>1, <1>2, <1>4 DEF TypeOK, ClaimCards
  <2> QED BY <1>3, <1>7, <2>1, ConflictClaims DEF Story, DecisionsConcernRecordedClaims, Kept
<1>9. NothingIsRepeated'
  BY <1>1, <1>3, <1>4 DEF Story, NothingIsRepeated
<1> QED BY <1>6, <1>7, <1>8, <1>9 DEF Story

LEMMA AppendSupersedeStory ==
  ASSUME TypeOK, Story, NEW e \in Events, Append_(e), ~Journaled(e), e.kind = "supersede",
         Grounded(e)
  PROVE  Story' /\ Kept
<1> DEFINE x == e.of
           n == e.by
<1>1. x \in Claims /\ n \in Claims /\ e = ClaimSuperseded(x, n) /\ x # n
  BY EventKinds, DecisionKinds DEF Grounded
<1>2. claimCard[x].phase \in {1, 2} /\ claimCard[n].phase # 0
  BY <1>1 DEF Grounded, TypeOK, ClaimCards
<1>3. /\ conflictCard' = conflictCard
      /\ claimCard' = [claimCard EXCEPT ![x] = OnSuperseded(claimCard[x], n)]
  BY DEF Append_, FoldClaim, FoldConflict
<1>4. /\ claimCard[x].phase = 2 <=> claimCard[x].by # None
      /\ "supersede-from-0" \notin claimCard[x].anomalies
      /\ "duplicate-record" \notin claimCard[x].anomalies
  BY <1>1 DEF Story, CardsFoldJournal, NothingIsRepeated
<1>5. /\ claimCard'[x].phase = 2
      /\ claimCard'[x].by = IF claimCard[x].by = None THEN n ELSE claimCard[x].by
      /\ "supersede-from-0" \notin claimCard'[x].anomalies
      /\ "duplicate-record" \notin claimCard'[x].anomalies
      /\ \A y \in Claims : y # x => claimCard'[y] = claimCard[y]
  BY <1>1, <1>2, <1>3, <1>4 DEF OnSuperseded, SupersedeFrom, TypeOK
<1>6. /\ \A y \in Claims : InJournal(ClaimRecorded(y))' <=> InJournal(ClaimRecorded(y))
      /\ \A y, z \in Claims : InJournal(ClaimSuperseded(y, z))' <=>
                                InJournal(ClaimSuperseded(y, z)) \/ (y = x /\ z = n)
      /\ \A k \in Conflicts : InJournal(ConflictOpened(k))' <=> InJournal(ConflictOpened(k))
      /\ \A k \in Conflicts, r \in Resolutions :
           InJournal(ConflictResolved(k, r))' <=> InJournal(ConflictResolved(k, r))
  BY <1>1, JournalGrowth DEF ClaimRecorded, ClaimSuperseded, ConflictOpened, ConflictResolved
<1> HIDE DEF x, n
<1>7. CardsFoldJournal'
  <2>1. ASSUME NEW y \in Claims
        PROVE  /\ claimCard'[y].phase # 0 <=> InJournal(ClaimRecorded(y))'
               /\ claimCard'[y].phase = 2 <=> claimCard'[y].by # None
               /\ claimCard'[y].by # None <=> \E z \in Claims : InJournal(ClaimSuperseded(y, z))'
    <3>1. CASE y = x
      <4>1. InJournal(ClaimRecorded(x))
        BY <1>1, <1>2 DEF Story, CardsFoldJournal
      <4>2. claimCard'[x].by # None
        BY <1>1, <1>5
      <4> QED BY <1>1, <1>5, <1>6, <3>1, <4>1, <4>2
    <3>2. CASE y # x
      BY <1>5, <1>6, <3>2 DEF Story, CardsFoldJournal
    <3> QED BY <3>1, <3>2
  <2> QED BY <1>3, <1>6, <2>1 DEF Story, CardsFoldJournal
<1>8. Kept
  BY <1>3, <1>5 DEF Kept
<1>9. DecisionsConcernRecordedClaims'
  <2>1. \A y \in Claims : claimCard'[y].by # None =>
          claimCard'[y].by \in Claims /\ claimCard[claimCard'[y].by].phase # 0
    BY <1>1, <1>2, <1>5 DEF TypeOK, ClaimCards, Story, DecisionsConcernRecordedClaims
  <2> QED BY <1>3, <1>8, <2>1, ConflictClaims DEF Story, DecisionsConcernRecordedClaims, Kept
<1>10. NothingIsRepeated'
  BY <1>1, <1>3, <1>5 DEF Story, NothingIsRepeated
<1> QED BY <1>7, <1>8, <1>9, <1>10 DEF Story

LEMMA AppendOpenStory ==
  ASSUME TypeOK, Story, NEW e \in Events, Append_(e), ~Journaled(e), e.kind = "open",
         Grounded(e)
  PROVE  Story' /\ Kept
<1> DEFINE k == e.of
<1>1. k \in Conflicts /\ e = ConflictOpened(k) /\ \A x \in k : claimCard[x].phase # 0
  BY EventKinds, DecisionKinds DEF Grounded
<1>2. conflictCard[k].phase = 0
  BY <1>1, KeysIdentify DEF Story, CardsFoldJournal
<1>3. /\ claimCard' = claimCard
      /\ conflictCard' = [conflictCard EXCEPT ![k] = OnOpened(conflictCard[k])]
  BY DEF Append_, FoldClaim, FoldConflict
<1>4. /\ conflictCard'[k] = [phase |-> 1, anomalies |-> conflictCard[k].anomalies]
      /\ \A j \in Conflicts : j # k => conflictCard'[j] = conflictCard[j]
  BY <1>1, <1>2, <1>3 DEF OnOpened, TypeOK, ConflictCards
<1>5. /\ \A y \in Claims : InJournal(ClaimRecorded(y))' <=> InJournal(ClaimRecorded(y))
      /\ \A y, z \in Claims : InJournal(ClaimSuperseded(y, z))' <=> InJournal(ClaimSuperseded(y, z))
      /\ \A j \in Conflicts : InJournal(ConflictOpened(j))' <=> InJournal(ConflictOpened(j)) \/ j = k
      /\ \A j \in Conflicts, r \in Resolutions :
           InJournal(ConflictResolved(j, r))' <=> InJournal(ConflictResolved(j, r))
  BY <1>1, JournalGrowth DEF ClaimRecorded, ClaimSuperseded, ConflictOpened, ConflictResolved
<1> HIDE DEF k
<1>6. CardsFoldJournal'
  BY <1>1, <1>2, <1>3, <1>4, <1>5 DEF Story, CardsFoldJournal
<1>7. Kept
  BY <1>2, <1>3, <1>4 DEF Kept
<1>8. DecisionsConcernRecordedClaims'
  BY <1>1, <1>3, <1>4 DEF Story, DecisionsConcernRecordedClaims
<1>9. NothingIsRepeated'
  BY <1>1, <1>3, <1>4 DEF Story, NothingIsRepeated
<1> QED BY <1>6, <1>7, <1>8, <1>9 DEF Story

LEMMA AppendResolveStory ==
  ASSUME TypeOK, Story, NEW e \in Events, Append_(e), ~Journaled(e), e.kind = "resolve",
         Grounded(e)
  PROVE  Story' /\ Kept
<1> DEFINE k == e.of
           r == e.by
<1>1. k \in Conflicts /\ r \in Resolutions /\ e = ConflictResolved(k, r)
        /\ conflictCard[k].phase # 0
  BY EventKinds, DecisionKinds DEF Grounded
<1>2. conflictCard[k].phase = 1
  <2>1. conflictCard[k].phase \in 0..3
    BY <1>1 DEF TypeOK, ConflictCards
  <2>2. conflictCard[k].phase \notin {2, 3}
    BY <1>1, KeysIdentify DEF Story, CardsFoldJournal
  <2> QED BY <1>1, <2>1, <2>2
<1>3. /\ claimCard' = claimCard
      /\ conflictCard' = [conflictCard EXCEPT ![k] = OnResolved(conflictCard[k], r)]
  BY DEF Append_, FoldClaim, FoldConflict
<1>4. /\ conflictCard'[k].phase \in {2, 3}
      /\ conflictCard'[k].anomalies = conflictCard[k].anomalies
      /\ \A j \in Conflicts : j # k => conflictCard'[j] = conflictCard[j]
  BY <1>1, <1>2, <1>3 DEF OnResolved, ResolveFrom, TypeOK, ConflictCards
<1>5. /\ \A y \in Claims : InJournal(ClaimRecorded(y))' <=> InJournal(ClaimRecorded(y))
      /\ \A y, z \in Claims : InJournal(ClaimSuperseded(y, z))' <=> InJournal(ClaimSuperseded(y, z))
      /\ \A j \in Conflicts : InJournal(ConflictOpened(j))' <=> InJournal(ConflictOpened(j))
      /\ \A j \in Conflicts, s \in Resolutions :
           InJournal(ConflictResolved(j, s))' <=>
             InJournal(ConflictResolved(j, s)) \/ (j = k /\ s = r)
  BY <1>1, JournalGrowth DEF ClaimRecorded, ClaimSuperseded, ConflictOpened, ConflictResolved
<1> HIDE DEF k, r
<1>6. CardsFoldJournal'
  BY <1>1, <1>2, <1>3, <1>4, <1>5 DEF Story, CardsFoldJournal
<1>7. Kept
  BY <1>2, <1>3, <1>4 DEF Kept
<1>8. DecisionsConcernRecordedClaims'
  BY <1>1, <1>2, <1>3, <1>4 DEF Story, DecisionsConcernRecordedClaims
<1>9. NothingIsRepeated'
  BY <1>1, <1>3, <1>4 DEF Story, NothingIsRepeated
<1> QED BY <1>6, <1>7, <1>8, <1>9 DEF Story

LEMMA AppendStory ==
  ASSUME TypeOK, Story, NEW e \in Events, Append_(e), Grounded(e)
  PROVE  Story' /\ Kept
<1>1. CASE Journaled(e)
  BY <1>1 DEF Append_, Story, CardsFoldJournal, InJournal, DecisionsConcernRecordedClaims,
              NothingIsRepeated, Kept
<1>2. CASE ~Journaled(e)
  <2>1. e.kind \in {"source", "claim", "supersede", "open", "resolve"}
    BY EventKinds, DecisionKinds
  <2> QED BY <1>2, <2>1, AppendSourceStory, AppendClaimStory, AppendSupersedeStory,
             AppendOpenStory, AppendResolveStory
<1> QED BY <1>1, <1>2

-----------------------------------------------------------------------------
(* Operations in flight stay grounded *)

OperationGrounded(o, cards, disputes) ==
  /\ PlanKept(o, cards)
  /\ \A e \in o.next : DecisionGrounded(o, e, cards, disputes)

(* What an operation rests on survives every append. *)
LEMMA StaysGrounded ==
  ASSUME TypeOK, Kept, NEW o, Sound(o), OperationGrounded(o, claimCard, conflictCard)
  PROVE  OperationGrounded(o, claimCard', conflictCard')
<1>1. \A i \in o.plan : \A n \in DOMAIN Extract[o.tree[i]] : Extract[o.tree[i]][n] \in Claims
  <2> SUFFICES ASSUME NEW i \in o.plan, NEW n \in DOMAIN Extract[o.tree[i]]
               PROVE  Extract[o.tree[i]][n] \in Claims
    OBVIOUS
  <2>1. o.tree[i] \in Bodies
    BY DEF Sound, WellFormed, Operations
  <2>2. Extract[o.tree[i]] \in Seq(Claims)
    BY <2>1
  <2> QED BY <2>2
<1>2. PlanKept(o, claimCard')
  BY <1>1 DEF OperationGrounded, PlanKept, Kept
<1>3. ASSUME NEW e \in o.next PROVE DecisionGrounded(o, e, claimCard', conflictCard')
  <2>1. e \in Decisions /\ DecisionGrounded(o, e, claimCard, conflictCard)
    BY DEF Sound, Operations, OperationGrounded
  <2> QED BY <2>1, DecisionKinds, ConflictClaims DEF DecisionGrounded, Kept
<1> QED BY <1>2, <1>3 DEF OperationGrounded

(* What a step may do to the journal. *)
JournalStep ==
  \/ UNCHANGED <<journal, claimCard, conflictCard>>
  \/ \E e \in Events : Append_(e) /\ Grounded(e)

(* A step of slot p that appends at most one grounded event and leaves p   *)
(* grounded keeps the whole invariant.                                     *)
LEMMA SlotStep ==
  ASSUME IndInv, TypeOK', NEW p \in Slots, NEW o,
         op' = [op EXCEPT ![p] = o],
         JournalStep,
         OperationGrounded(o, claimCard', conflictCard')
  PROVE  IndInv' /\ JournalStep
<1>1. Story' /\ Kept
  <2>1. CASE UNCHANGED <<journal, claimCard, conflictCard>>
    BY <2>1 DEF IndInv, Story, CardsFoldJournal, InJournal, DecisionsConcernRecordedClaims,
                NothingIsRepeated, Kept
  <2>2. CASE \E e \in Events : Append_(e) /\ Grounded(e)
    BY <2>2, AppendStory DEF IndInv, Story
  <2> QED BY <2>1, <2>2 DEF JournalStep
<1>2. ASSUME NEW q \in Slots PROVE OperationGrounded(op'[q], claimCard', conflictCard')
  <2>1. CASE q = p
    <3>1. op'[q] = o
      BY <2>1 DEF IndInv, TypeOK
    <3> QED BY <3>1
  <2>2. CASE q # p
    <3>1. op'[q] = op[q]
      BY <2>2 DEF IndInv, TypeOK
    <3>2. Sound(op[q]) /\ OperationGrounded(op[q], claimCard, conflictCard)
      BY DEF IndInv, TypeOK, Sound, OperationsAreGrounded, OperationGrounded
    <3>3. OperationGrounded(op[q], claimCard', conflictCard')
      BY <1>1, <3>2, StaysGrounded DEF IndInv
    <3> QED BY <3>1, <3>3
  <2> QED BY <2>1, <2>2
<1>3. OperationsAreGrounded'
  BY <1>2 DEF OperationsAreGrounded, OperationGrounded
<1> QED BY <1>1, <1>3 DEF IndInv, Story

(* Inferred supersessions replace a current claim by another claim of the  *)
(* plan.                                                                   *)
LEMMA InferredGrounded ==
  ASSUME NEW tree \in Seq(Bodies), NEW plan \in SUBSET (DOMAIN tree),
         NEW e \in Inferred(tree, plan)
  PROVE  /\ e.kind = "supersede"
         /\ e.of # e.by
         /\ claimCard[e.of].phase = 1
         /\ \E i \in plan : \E n \in DOMAIN Extract[tree[i]] : Extract[tree[i]][n] = e.by
<1>1. PICK old \in Claims, q \in Positions(tree, plan) :
        e = ClaimSuperseded(old, ClaimAt(tree, q)) /\ Proposes(ClaimAt(tree, q), old)
  BY DEF Inferred
<1>2. PICK i \in plan : \E n \in DOMAIN Extract[tree[i]] : q = <<i, n>>
  BY DEF Positions
<1> QED BY <1>1, <1>2 DEF ClaimSuperseded, Proposes, ClaimAt

LEMMA PlannedGrounded ==
  ASSUME NEW kind, NEW tree, NEW next, NEW todo, NEW cards, NEW disputes,
         \A e \in next : DecisionGrounded(Planned(kind, tree, next, todo), e, cards, disputes)
  PROVE  OperationGrounded(Planned(kind, tree, next, todo), cards, disputes)
BY DEF OperationGrounded, PlanKept, Awaited, Planned

LEMMA StartGrounded ==
  ASSUME IndInv, NEW p \in Slots, Start(p)
  PROVE  IndInv' /\ JournalStep
<1>1. TypeOK'
  BY StartTypes DEF IndInv
<1>2. ASSUME NEW kind, NEW tree, NEW next, NEW todo,
             Begin(p, Planned(kind, tree, next, todo)),
             \A e \in next :
               DecisionGrounded(Planned(kind, tree, next, todo), e, claimCard, conflictCard)
      PROVE  IndInv' /\ JournalStep
  <2>1. UNCHANGED <<journal, claimCard, conflictCard>>
    BY <1>2 DEF Begin
  <2>2. op' = [op EXCEPT ![p] = Planned(kind, tree, next, todo)]
    BY <1>2 DEF Begin
  <2>3. OperationGrounded(Planned(kind, tree, next, todo), claimCard', conflictCard')
    BY <1>2, <2>1, PlannedGrounded
  <2> QED BY <1>1, <2>1, <2>2, <2>3, SlotStep DEF JournalStep
<1>3. CASE \E tree \in Trees : Ingest(p, tree)
  BY <1>2, <1>3 DEF Ingest
<1>4. CASE \E b \in Transcripts : SessionEnd(p, b)
  <2>1. PICK b \in Transcripts : SessionEnd(p, b)
    BY <1>4
  <2> DEFINE tree == <<b>>
             next == Inferred(tree, Fresh(tree))
             todo == IF ModelEnabled THEN "relate" ELSE "none"
  <2>2. tree \in Seq(Bodies) /\ Fresh(tree) \in SUBSET (DOMAIN tree)
    <3>1. tree \in Seq(Bodies)
      BY TreesAssumption
    <3> HIDE DEF tree
    <3> QED BY <3>1, FreshTypes
  <2>3. Begin(p, Planned("session", tree, next, todo))
    BY <2>1 DEF SessionEnd
  <2>4. ASSUME NEW e \in next
        PROVE  DecisionGrounded(Planned("session", tree, next, todo), e, claimCard, conflictCard)
    <3> HIDE DEF tree
    <3>1. /\ e.kind = "supersede" /\ e.of # e.by /\ claimCard[e.of].phase = 1
          /\ \E i \in Fresh(tree) : \E n \in DOMAIN Extract[tree[i]] : Extract[tree[i]][n] = e.by
      BY <2>2, InferredGrounded
    <3>2. Awaited(Planned("session", tree, next, todo), e.by)
      BY <3>1 DEF Awaited, Planned
    <3> QED BY <3>1, <3>2 DEF DecisionGrounded
  <2> HIDE DEF tree, next, todo
  <2> QED BY <1>2, <2>3, <2>4
<1>5. CASE \E old, new \in Claims : ClaimSupersede(p, old, new)
  <2>1. PICK old \in Claims, new \in Claims : ClaimSupersede(p, old, new)
    BY <1>5
  <2>2. Begin(p, Planned("cli", <<>>, {ClaimSuperseded(old, new)}, "none"))
    BY <2>1 DEF ClaimSupersede, Deciding
  <2>3. \A e \in {ClaimSuperseded(old, new)} :
          DecisionGrounded(Planned("cli", <<>>, {ClaimSuperseded(old, new)}, "none"), e,
                           claimCard, conflictCard)
    BY <2>1 DEF ClaimSupersede, DecisionGrounded, ClaimSuperseded
  <2> QED BY <1>2, <2>2, <2>3
<1>6. CASE ConflictsCommit(p)
  <2> DEFINE next == {ConflictOpened(k) : k \in {j \in Conflicts :
                        Contradictory(j) /\ conflictCard[j].phase = 0}}
  <2>1. Begin(p, Planned("cli", <<>>, next, "none"))
    BY <1>6 DEF ConflictsCommit, Deciding
  <2>2. \A e \in next : DecisionGrounded(Planned("cli", <<>>, next, "none"), e,
                                         claimCard, conflictCard)
    <3>1. \A e \in next : e.kind = "open" /\ \A x \in e.of : claimCard[x].phase = 1
      BY DEF Contradictory, ConflictOpened
    <3> QED BY <3>1 DEF DecisionGrounded
  <2> QED BY <1>2, <2>1, <2>2
<1>7. CASE \E k \in Conflicts, r \in Resolutions : ConflictResolve(p, k, r)
  <2>1. PICK k \in Conflicts, r \in Resolutions : ConflictResolve(p, k, r)
    BY <1>7
  <2>2. Begin(p, Planned("cli", <<>>, {ConflictResolved(k, r)}, "none"))
    BY <2>1 DEF ConflictResolve, Deciding
  <2>3. \A e \in {ConflictResolved(k, r)} :
          DecisionGrounded(Planned("cli", <<>>, {ConflictResolved(k, r)}, "none"), e,
                           claimCard, conflictCard)
    BY <2>1 DEF ConflictResolve, DecisionGrounded, ConflictResolved
  <2> QED BY <1>2, <2>2, <2>3
<1>8. CASE RelateRun(p)
  BY <1>2, <1>8 DEF RelateRun, Deciding
<1> QED BY <1>3, <1>4, <1>5, <1>6, <1>7, <1>8 DEF Start

(* A source event, then its claims: nothing awaited is dropped. *)
LEMMA AppendSourceGrounded ==
  ASSUME IndInv, NEW p \in Slots, AppendSource(p)
  PROVE  IndInv' /\ JournalStep
<1> DEFINE o == op[p]
<1>1. TypeOK' /\ Sound(o) /\ OperationGrounded(o, claimCard, conflictCard) /\ o.lines = <<>>
  BY StepTypes DEF IndInv, TypeOK, Sound, OperationsAreGrounded, OperationGrounded, Step,
                   AppendSource
<1>2. PICK i \in o.left :
        /\ Append_(SourceObserved(o.tree[i]))
        /\ op' = [op EXCEPT ![p] = [o EXCEPT !.left = @ \ {i}, !.body = o.tree[i],
                                             !.lines = Extract[o.tree[i]]]]
  BY DEF AppendSource, Change
<1> DEFINE new == [o EXCEPT !.left = @ \ {i}, !.body = o.tree[i], !.lines = Extract[o.tree[i]]]
<1> HIDE DEF o
<1>3. SourceObserved(o.tree[i]) \in Events /\ Grounded(SourceObserved(o.tree[i]))
  <2>1. o.tree[i] \in Bodies
    BY <1>1 DEF Sound, WellFormed, Operations
  <2> QED BY <2>1 DEF Events, Grounded, SourceObserved
<1>4. Kept
  BY <1>2, <1>3, AppendStory DEF IndInv, Story
<1>5. OperationGrounded(o, claimCard', conflictCard')
  BY <1>1, <1>4, StaysGrounded DEF IndInv
<1>6. \A x : Awaited(o, x) => Awaited(new, x)
  <2>1. new.lines = Extract[o.tree[i]] /\ new.left = o.left \ {i} /\ new.tree = o.tree
    BY <1>1 DEF Sound, Operations
  <2> HIDE DEF new
  <2> SUFFICES ASSUME NEW x, Awaited(o, x) PROVE Awaited(new, x)
    OBVIOUS
  <2>2. PICK j \in o.left : \E n \in DOMAIN Extract[o.tree[j]] : Extract[o.tree[j]][n] = x
    BY <1>1 DEF Awaited
  <2>3. CASE j = i
    BY <2>1, <2>2, <2>3 DEF Awaited
  <2>4. CASE j # i
    BY <2>1, <2>2, <2>4 DEF Awaited
  <2> QED BY <2>3, <2>4
<1>7. new.plan = o.plan /\ new.tree = o.tree /\ new.next = o.next
  BY <1>1 DEF Sound, Operations
<1> HIDE DEF new
<1>8. OperationGrounded(new, claimCard', conflictCard')
  BY <1>5, <1>6, <1>7 DEF OperationGrounded, PlanKept, DecisionGrounded
<1> QED BY <1>1, <1>2, <1>3, <1>8, SlotStep DEF new, JournalStep

(* The claim an append takes off the list is recorded by that append. *)
LEMMA AppendClaimGrounded ==
  ASSUME IndInv, NEW p \in Slots, AppendClaim(p)
  PROVE  IndInv' /\ JournalStep
<1> DEFINE o == op[p]
           new == [o EXCEPT !.lines = Tail(@)]
<1>1. TypeOK' /\ Sound(o) /\ OperationGrounded(o, claimCard, conflictCard)
  BY StepTypes DEF IndInv, TypeOK, Sound, OperationsAreGrounded, OperationGrounded, Step
<1>2. PICK x : /\ o.lines # <<>>
               /\ x = Head(o.lines)
               /\ Append_(ClaimRecorded(x))
               /\ op' = [op EXCEPT ![p] = new]
  BY DEF AppendClaim, Change
<1> HIDE DEF o
<1>3. o.lines \in Seq(Claims) /\ x \in Claims
  BY <1>1, <1>2 DEF Sound, Operations
<1>4. ClaimRecorded(x) \in Events /\ Grounded(ClaimRecorded(x))
  BY <1>3 DEF Events, Grounded, ClaimRecorded
<1>5. Kept /\ Story'
  BY <1>2, <1>4, AppendStory DEF IndInv, Story
<1>6. claimCard'[x].phase # 0
  <2>1. InJournal(ClaimRecorded(x))'
    BY <1>2, <1>4, JournalGrowth, KeysIdentify DEF IndInv, ClaimRecorded
  <2> QED BY <1>3, <1>5, <2>1 DEF Story, CardsFoldJournal
<1>7. OperationGrounded(o, claimCard', conflictCard')
  BY <1>1, <1>5, StaysGrounded DEF IndInv
<1>8. \A y : Awaited(o, y) => y = x \/ Awaited(new, y)
  <2> SUFFICES ASSUME NEW y, NEW i \in DOMAIN o.lines, o.lines[i] = y, y # x
               PROVE  \E j \in DOMAIN Tail(o.lines) : Tail(o.lines)[j] = y
    BY <1>1 DEF Awaited, Sound, Operations
  <2>1. i # 1 /\ i - 1 \in DOMAIN Tail(o.lines) /\ Tail(o.lines)[i - 1] = o.lines[i]
    BY SMTT(40), <1>2, <1>3
  <2> QED BY <2>1
<1>9. new.plan = o.plan /\ new.tree = o.tree /\ new.next = o.next
  BY <1>1 DEF Sound, Operations
<1> HIDE DEF new
<1>10. OperationGrounded(new, claimCard', conflictCard')
  BY <1>6, <1>7, <1>8, <1>9 DEF OperationGrounded, PlanKept, DecisionGrounded
<1> QED BY <1>1, <1>2, <1>4, <1>10, SlotStep DEF JournalStep

(* With the sources appended nothing is awaited any more. *)
LEMMA NothingAwaited ==
  ASSUME NEW p \in Slots, SourcesDone(p), NEW x
  PROVE  ~Awaited(op[p], x)
BY DEF SourcesDone, Awaited

LEMMA InferGrounded ==
  ASSUME IndInv, NEW p \in Slots, Infer(p)
  PROVE  IndInv' /\ JournalStep
<1> DEFINE o == op[p]
           next == Inferred(o.tree, o.plan)
           new == [o EXCEPT !.next = next, !.todo = "none"]
<1>1. TypeOK' /\ Sound(o) /\ PlanKept(o, claimCard)
  BY StepTypes DEF IndInv, TypeOK, Sound, OperationsAreGrounded, Step
<1>2. /\ op' = [op EXCEPT ![p] = new]
      /\ UNCHANGED <<journal, claimCard, conflictCard>>
      /\ \A x : ~Awaited(o, x)
  BY NothingAwaited DEF Infer, Change
<1> HIDE DEF o
<1>3. o.tree \in Seq(Bodies) /\ o.plan \in SUBSET (DOMAIN o.tree)
  BY <1>1 DEF Sound, WellFormed, Operations
<1>4. ASSUME NEW e \in next PROVE DecisionGrounded(new, e, claimCard, conflictCard)
  <2>1. /\ e.kind = "supersede" /\ e.of # e.by /\ claimCard[e.of].phase = 1
        /\ \E i \in o.plan : \E n \in DOMAIN Extract[o.tree[i]] : Extract[o.tree[i]][n] = e.by
    BY <1>3, InferredGrounded
  <2>2. claimCard[e.by].phase # 0
    BY <1>1, <1>2, <2>1 DEF PlanKept
  <2> QED BY <2>1, <2>2 DEF DecisionGrounded
<1>5. PlanKept(new, claimCard)
  <2>1. new.plan = o.plan /\ new.tree = o.tree
    BY <1>1 DEF Sound, Operations
  <2> HIDE DEF new
  <2> QED BY <1>1, <1>2, <2>1 DEF PlanKept
<1>6. new.next = next
  BY <1>1 DEF Sound, Operations
<1> HIDE DEF new, next
<1>7. OperationGrounded(new, claimCard', conflictCard')
  BY <1>2, <1>4, <1>5, <1>6 DEF OperationGrounded
<1> QED BY <1>1, <1>2, <1>7, SlotStep DEF JournalStep

(* By the time a decision is appended, all it rests on is in the journal.  *)
LEMMA PublishGrounded ==
  ASSUME IndInv, NEW p \in Slots, Publish(p)
  PROVE  IndInv' /\ JournalStep
<1> DEFINE o == op[p]
<1>1. /\ TypeOK' /\ Sound(o) /\ OperationGrounded(o, claimCard, conflictCard)
      /\ \A x : ~Awaited(o, x)
  <2>1. TypeOK'
    BY StepTypes DEF IndInv, Step
  <2>2. Sound(o) /\ OperationGrounded(o, claimCard, conflictCard)
    BY DEF IndInv, TypeOK, Sound, OperationsAreGrounded, OperationGrounded
  <2>3. SourcesDone(p)
    BY DEF Publish
  <2> QED BY <2>1, <2>2, <2>3, NothingAwaited
<1>2. PICK e \in o.next : Append_(e) /\ op' = [op EXCEPT ![p] = [o EXCEPT !.next = @ \ {e}]]
  BY DEF Publish, Change
<1> DEFINE new == [o EXCEPT !.next = @ \ {e}]
<1> HIDE DEF o
<1>3. e \in Events
  BY <1>1, DecisionKinds DEF Sound, Operations
<1>4. Grounded(e)
  BY <1>1, <1>2 DEF OperationGrounded, DecisionGrounded, Grounded
<1>5. OperationGrounded(o, claimCard', conflictCard')
  BY <1>1, <1>2, <1>3, <1>4, AppendStory, StaysGrounded DEF IndInv, Story
<1>6. /\ new.plan = o.plan /\ new.tree = o.tree /\ new.next \subseteq o.next
      /\ new.lines = o.lines /\ new.left = o.left
  BY <1>1 DEF Sound, Operations
<1> HIDE DEF new
<1>7. OperationGrounded(new, claimCard', conflictCard')
  BY <1>5, <1>6 DEF OperationGrounded, PlanKept, DecisionGrounded, Awaited
<1> QED BY <1>1, <1>2, <1>3, <1>4, <1>7, SlotStep DEF JournalStep, new

LEMMA JudgeGrounded ==
  ASSUME IndInv, NEW p \in Slots, Judge(p)
  PROVE  IndInv' /\ JournalStep
<1> DEFINE o == op[p]
<1>1. TypeOK' /\ Sound(o) /\ PlanKept(o, claimCard)
  BY StepTypes DEF IndInv, TypeOK, Sound, OperationsAreGrounded, Step
<1>2. PICK edges \in SUBSET Judgeable, clashes \in SUBSET Conflicts :
        /\ \A k \in clashes : \E q \in Judgeable : k = {q[1], q[2]}
        /\ Change(p, [o EXCEPT !.todo = "none",
                       !.next = {ClaimSuperseded(e[1], e[2]) : e \in edges}
                                  \cup {ConflictOpened(k) : k \in clashes}])
  BY DEF Judge
<1> DEFINE next == {ClaimSuperseded(e[1], e[2]) : e \in edges}
                     \cup {ConflictOpened(k) : k \in clashes}
           new == [o EXCEPT !.todo = "none", !.next = next]
<1>3. UNCHANGED <<journal, claimCard, conflictCard>>
  BY DEF Judge
<1> HIDE DEF o
<1>4. \A q \in Judgeable : /\ q[1] # q[2]
                           /\ claimCard[q[1]].phase = 1
                           /\ claimCard[q[2]].phase = 1
  BY DEF Judgeable, Current
<1>5. ASSUME NEW e \in next PROVE DecisionGrounded(new, e, claimCard, conflictCard)
  <2>1. CASE \E q \in edges : e = ClaimSuperseded(q[1], q[2])
    BY <1>4, <2>1 DEF DecisionGrounded, ClaimSuperseded
  <2>2. CASE \E k \in clashes : e = ConflictOpened(k)
    BY <1>2, <1>4, <2>2 DEF DecisionGrounded, ConflictOpened
  <2> QED BY <2>1, <2>2
<1>6. new.plan = o.plan /\ new.tree = o.tree /\ new.next = next
        /\ new.lines = o.lines /\ new.left = o.left
  BY <1>1 DEF Sound, Operations
<1>7. op' = [op EXCEPT ![p] = new]
  BY <1>2 DEF Change
<1> HIDE DEF new, next
<1>8. OperationGrounded(new, claimCard', conflictCard')
  BY <1>1, <1>3, <1>5, <1>6 DEF OperationGrounded, PlanKept, Awaited
<1> QED BY <1>1, <1>3, <1>7, <1>8, SlotStep DEF JournalStep

LEMMA IdleGrounded ==
  ASSUME NEW cards, NEW disputes
  PROVE  OperationGrounded(Idle, cards, disputes)
BY DEF OperationGrounded, PlanKept, Idle

LEMMA StopGrounded ==
  ASSUME IndInv, NEW p \in Slots, Finish(p) \/ Fail(p)
  PROVE  IndInv' /\ JournalStep
<1>1. TypeOK'
  BY StepTypes, StopTypes DEF IndInv, Step
<1>2. op' = [op EXCEPT ![p] = Idle] /\ UNCHANGED <<journal, claimCard, conflictCard>>
  BY DEF Finish, Fail, Change
<1> QED BY <1>1, <1>2, IdleGrounded, SlotStep DEF JournalStep

LEMMA CrashGrounded ==
  ASSUME IndInv, Crash
  PROVE  IndInv' /\ JournalStep
<1>1. TypeOK'
  BY StopTypes DEF IndInv
<1>2. UNCHANGED <<journal, claimCard, conflictCard>>
  BY DEF Crash
<1>3. OperationsAreGrounded'
  BY IdleGrounded DEF Crash, OperationsAreGrounded, OperationGrounded
<1> QED BY <1>1, <1>2, <1>3 DEF IndInv, JournalStep, CardsFoldJournal, InJournal,
                                DecisionsConcernRecordedClaims, NothingIsRepeated

LEMMA InitInductive == Init => IndInv
<1> SUFFICES ASSUME Init PROVE IndInv
  OBVIOUS
<1>1. TypeOK
  BY InitTypes
<1>2. /\ \A x \in Claims : claimCard[x] = [phase |-> 0, by |-> None, anomalies |-> {}]
      /\ \A k \in Conflicts : conflictCard[k] = [phase |-> 0, anomalies |-> {}]
      /\ \A f : ~InJournal(f)
  BY DEF Init, NoClaimCard, NoConflictCard, InJournal
<1>3. CardsFoldJournal /\ DecisionsConcernRecordedClaims /\ NothingIsRepeated
  BY <1>2 DEF CardsFoldJournal, DecisionsConcernRecordedClaims, NothingIsRepeated
<1>4. OperationsAreGrounded
  BY IdleGrounded DEF Init, OperationsAreGrounded, OperationGrounded
<1> QED BY <1>1, <1>3, <1>4 DEF IndInv

LEMMA NextInductive == IndInv /\ [Next]_vars => IndInv' /\ JournalStep
<1> SUFFICES ASSUME IndInv, [Next]_vars PROVE IndInv' /\ JournalStep
  OBVIOUS
<1>1. CASE UNCHANGED vars
  <2>1. TypeOK'
    BY <1>1, NextTypes DEF IndInv
  <2> QED BY <1>1, <2>1 DEF vars, IndInv, JournalStep, CardsFoldJournal, InJournal,
             DecisionsConcernRecordedClaims, NothingIsRepeated, OperationsAreGrounded
<1>2. ASSUME NEW p \in Slots, Start(p) PROVE IndInv' /\ JournalStep
  BY <1>2, StartGrounded
<1>3. ASSUME NEW p \in Slots, Step(p) PROVE IndInv' /\ JournalStep
  BY <1>3, AppendSourceGrounded, AppendClaimGrounded, InferGrounded, PublishGrounded,
     JudgeGrounded, StopGrounded DEF Step
<1>4. ASSUME NEW p \in Slots, Fail(p) PROVE IndInv' /\ JournalStep
  BY <1>4, StopGrounded
<1>5. CASE Crash
  BY <1>5, CrashGrounded
<1> QED BY <1>1, <1>2, <1>3, <1>4, <1>5 DEF Next

LEMMA Inductive == Spec => []IndInv
<1>1. IndInv /\ [Next]_vars => IndInv'
  BY NextInductive
<1> QED BY InitInductive, <1>1, PTL DEF Spec

(* Crashes, failures and races never leave a claim superseded by, or in    *)
(* conflict with, a claim the journal does not hold.                       *)
THEOREM GroundedDecisions == Spec => []DecisionsConcernRecordedClaims
<1>1. IndInv => DecisionsConcernRecordedClaims
  BY DEF IndInv
<1> QED BY Inductive, <1>1, PTL

(* However operations race on stale views, a claim is recorded once and    *)
(* first, and a conflict opened and settled once.                          *)
THEOREM NoRepetition == Spec => []NothingIsRepeated
<1>1. IndInv => NothingIsRepeated
  BY DEF IndInv
<1> QED BY Inductive, <1>1, PTL

-----------------------------------------------------------------------------
(* Finality *)

(* What one append does to the cards, seen from outside: the new event's   *)
(* claim or conflict takes the next step of its machine, or nothing does.  *)
LEMMA AppendOutcome ==
  ASSUME TypeOK, Story, NEW e \in Events, Append_(e), Grounded(e)
  PROVE  \/ UNCHANGED <<claimCard, conflictCard>>
         \/ /\ UNCHANGED conflictCard
            /\ \E x \in Claims :
                 /\ \A y \in Claims : y # x => claimCard'[y] = claimCard[y]
                 /\ \/ /\ claimCard[x].phase = 0 /\ claimCard[x].by = None
                       /\ claimCard'[x].phase = 1 /\ claimCard'[x].by = None
                    \/ /\ e = ClaimSuperseded(x, e.by) /\ e.by \in Claims /\ e.by # x
                       /\ claimCard[e.by].phase # 0
                       /\ claimCard[x].phase = 1 /\ claimCard[x].by = None
                       /\ claimCard'[x].phase = 2 /\ claimCard'[x].by = e.by
                    \/ /\ claimCard[x].phase = 2 /\ claimCard[x].by # None
                       /\ claimCard'[x].phase = 2 /\ claimCard'[x].by = claimCard[x].by
         \/ /\ UNCHANGED claimCard
            /\ \E k \in Conflicts :
                 /\ \A j \in Conflicts : j # k => conflictCard'[j] = conflictCard[j]
                 /\ \/ /\ conflictCard[k].phase = 0
                       /\ conflictCard'[k].phase = 1
                       /\ \A x \in k : claimCard[x].phase # 0
                    \/ /\ conflictCard[k].phase = 1
                       /\ conflictCard'[k].phase \in {2, 3}
<1>1. CASE Journaled(e)
  BY <1>1 DEF Append_
<1>2. CASE ~Journaled(e) /\ e.kind = "source"
  BY <1>2 DEF Append_, FoldClaim, FoldConflict
<1>3. CASE ~Journaled(e) /\ e.kind = "claim"
  <2>1. e.of \in Claims /\ e = ClaimRecorded(e.of)
    BY <1>3, EventKinds, DecisionKinds
  <2>2. claimCard[e.of].phase = 0 /\ claimCard[e.of].by = None
    BY <1>3, <2>1, KeysIdentify DEF Story, CardsFoldJournal
  <2>3. /\ conflictCard' = conflictCard
        /\ claimCard' = [claimCard EXCEPT ![e.of] = OnRecorded(claimCard[e.of])]
    BY <1>3 DEF Append_, FoldClaim, FoldConflict
  <2>4. claimCard'[e.of].phase = 1 /\ claimCard'[e.of].by = None
    BY <2>1, <2>2, <2>3 DEF OnRecorded, TypeOK
  <2>5. \A y \in Claims : y # e.of => claimCard'[y] = claimCard[y]
    BY <2>1, <2>3 DEF TypeOK
  <2> QED BY <2>1, <2>2, <2>3, <2>4, <2>5
<1>4. CASE ~Journaled(e) /\ e.kind = "supersede"
  <2> DEFINE x == e.of
  <2>1. x \in Claims /\ e.by \in Claims /\ e = ClaimSuperseded(x, e.by) /\ x # e.by
          /\ claimCard[x].phase # 0 /\ claimCard[e.by].phase # 0
    BY <1>4, EventKinds, DecisionKinds DEF Grounded
  <2>2. /\ conflictCard' = conflictCard
        /\ claimCard' = [claimCard EXCEPT ![x] = OnSuperseded(claimCard[x], e.by)]
    BY <1>4 DEF Append_, FoldClaim, FoldConflict
  <2>3. \A y \in Claims : y # x => claimCard'[y] = claimCard[y]
    BY <2>1, <2>2 DEF TypeOK
  <2>4. claimCard[x].phase \in {1, 2} /\ (claimCard[x].phase = 2 <=> claimCard[x].by # None)
    BY <2>1 DEF TypeOK, ClaimCards, Story, CardsFoldJournal
  <2>5. claimCard'[x].phase = 2
          /\ claimCard'[x].by = IF claimCard[x].by = None THEN e.by ELSE claimCard[x].by
    BY <2>1, <2>2, <2>4 DEF OnSuperseded, TypeOK
  <2> HIDE DEF x
  <2> QED BY <2>1, <2>2, <2>3, <2>4, <2>5
<1>5. CASE ~Journaled(e) /\ e.kind = "open"
  <2>1. e.of \in Conflicts /\ e = ConflictOpened(e.of) /\ \A x \in e.of : claimCard[x].phase # 0
    BY <1>5, EventKinds, DecisionKinds DEF Grounded
  <2>2. conflictCard[e.of].phase = 0
    BY <1>5, <2>1, KeysIdentify DEF Story, CardsFoldJournal
  <2>3. /\ claimCard' = claimCard
        /\ conflictCard' = [conflictCard EXCEPT ![e.of] = OnOpened(conflictCard[e.of])]
    BY <1>5 DEF Append_, FoldClaim, FoldConflict
  <2>4. conflictCard'[e.of].phase = 1
    BY <2>1, <2>3 DEF OnOpened, TypeOK
  <2>5. \A j \in Conflicts : j # e.of => conflictCard'[j] = conflictCard[j]
    BY <2>1, <2>3 DEF TypeOK
  <2> QED BY <2>1, <2>2, <2>3, <2>4, <2>5
<1>6. CASE ~Journaled(e) /\ e.kind = "resolve"
  <2>1. e.of \in Conflicts /\ e.by \in Resolutions /\ e = ConflictResolved(e.of, e.by)
          /\ conflictCard[e.of].phase # 0
    BY <1>6, EventKinds, DecisionKinds DEF Grounded
  <2>2. conflictCard[e.of].phase = 1
    <3>1. conflictCard[e.of].phase \in 0..3
      BY <2>1 DEF TypeOK, ConflictCards
    <3>2. conflictCard[e.of].phase \notin {2, 3}
      BY <1>6, <2>1, KeysIdentify DEF Story, CardsFoldJournal
    <3> QED BY <2>1, <3>1, <3>2
  <2>3. /\ claimCard' = claimCard
        /\ conflictCard' = [conflictCard EXCEPT ![e.of] = OnResolved(conflictCard[e.of], e.by)]
    BY <1>6 DEF Append_, FoldClaim, FoldConflict
  <2>4. conflictCard'[e.of].phase \in {2, 3}
    BY <2>1, <2>3 DEF OnResolved, TypeOK
  <2>5. \A j \in Conflicts : j # e.of => conflictCard'[j] = conflictCard[j]
    BY <2>1, <2>3 DEF TypeOK
  <2> QED BY <2>1, <2>2, <2>3, <2>4, <2>5
<1>7. e.kind \in {"source", "claim", "supersede", "open", "resolve"}
  BY EventKinds, DecisionKinds
<1> QED BY <1>1, <1>2, <1>3, <1>4, <1>5, <1>6, <1>7

(* No later operation, stale or not, makes a superseded claim current      *)
(* again, gives it another successor, or reopens a settled conflict.       *)
THEOREM Finality == Spec => DecidedForever
<1> DEFINE Final ==
      /\ \A c \in Claims : claimCard[c].phase = 2 =>
           claimCard'[c].phase = 2 /\ claimCard'[c].by = claimCard[c].by
      /\ \A k \in Conflicts : conflictCard[k].phase \in {2, 3} =>
           conflictCard'[k].phase = conflictCard[k].phase
<1>1. ASSUME IndInv, [Next]_vars PROVE Final
  <2>1. CASE UNCHANGED <<journal, claimCard, conflictCard>>
    BY <2>1
  <2>2. CASE \E e \in Events : Append_(e) /\ Grounded(e)
    <3>1. PICK e \in Events : Append_(e) /\ Grounded(e)
      BY <2>2
    <3>2. TypeOK /\ Story
      BY <1>1 DEF IndInv, Story
    <3> QED BY <3>1, <3>2, AppendOutcome
  <2> QED BY <1>1, <2>1, <2>2, NextInductive DEF JournalStep
<1>2. IndInv /\ [Next]_vars => [Final]_vars
  BY <1>1
<1> QED BY Inductive, <1>2, PTL DEF Spec, DecidedForever

-----------------------------------------------------------------------------
(* Keys *)

(* A retry, a repeated ingest or a racing session-end commits an event     *)
(* once: no two events of the journal share an idempotency key.            *)
THEOREM KeysAreUnique == Spec => []OneEventPerKey
<1>1. Init => OneEventPerKey
  BY DEF Init, OneEventPerKey
<1>2. ASSUME IndInv, OneEventPerKey, [Next]_vars PROVE OneEventPerKey'
  <2>1. CASE UNCHANGED <<journal, claimCard, conflictCard>>
    BY <1>2, <2>1 DEF OneEventPerKey
  <2>2. CASE \E e \in Events : Append_(e) /\ Grounded(e)
    <3>1. PICK e \in Events : Append_(e)
      BY <2>2
    <3>2. CASE Journaled(e)
      BY <1>2, <3>1, <3>2 DEF Append_, OneEventPerKey
    <3>3. CASE ~Journaled(e)
      <4>1. journal' = Append(journal, e) /\ journal \in Seq(Events)
        BY <1>2, <3>1, <3>3 DEF Append_, IndInv, TypeOK
      <4>2. /\ DOMAIN journal' = 1..(Len(journal) + 1)
            /\ DOMAIN journal = 1..Len(journal)
            /\ Len(journal) \in Nat
            /\ \A i \in 1..Len(journal) : journal'[i] = journal[i]
            /\ journal'[Len(journal) + 1] = e
        BY <4>1
      <4>3. \A i \in 1..Len(journal) : ~SameKey(journal[i], e) /\ ~SameKey(e, journal[i])
        BY <3>3, <4>2 DEF Journaled, SameKey
      <4>4. ASSUME NEW i \in DOMAIN journal', NEW j \in DOMAIN journal',
                   SameKey(journal'[i], journal'[j])
            PROVE  i = j
        <5>1. CASE i \in 1..Len(journal) /\ j \in 1..Len(journal)
          BY <1>2, <4>2, <4>4, <5>1 DEF OneEventPerKey
        <5>2. CASE i = Len(journal) + 1 \/ j = Len(journal) + 1
          BY <4>2, <4>3, <4>4, <5>2
        <5> QED BY <4>2, <5>1, <5>2
      <4> QED BY <4>4 DEF OneEventPerKey, SameKey
    <3> QED BY <3>2, <3>3
  <2> QED BY <1>2, <2>1, <2>2, NextInductive DEF JournalStep
<1> QED BY Inductive, <1>1, <1>2, PTL DEF Spec

(* A card that has a successor keeps it across an append; a claim without  *)
(* one takes it from the event.                                            *)
LEMMA AppendSuccessor ==
  ASSUME TypeOK, Story, NEW e \in Events, ~Journaled(e), Append_(e), NEW x \in Claims
  PROVE  /\ claimCard[x].by # None => claimCard'[x].by = claimCard[x].by
         /\ e.kind = "supersede" /\ e.of = x /\ claimCard[x].by = None =>
              claimCard'[x].by = e.by
<1>1. FoldClaim(e)
  BY DEF Append_
<1>2. CASE e.kind = "claim"
  <2>1. e.of \in Claims
    BY <1>2, EventKinds, DecisionKinds
  <2> QED BY <1>1, <1>2, <2>1 DEF FoldClaim, OnRecorded, TypeOK
<1>3. CASE e.kind = "supersede"
  <2>1. e.of \in Claims
    BY <1>3, EventKinds, DecisionKinds
  <2> QED BY <1>1, <1>3, <2>1 DEF FoldClaim, OnSuperseded, TypeOK
<1>4. CASE e.kind # "claim" /\ e.kind # "supersede"
  BY <1>1, <1>4 DEF FoldClaim
<1> QED BY <1>2, <1>3, <1>4

(* A claim's successor is the one of the first supersession the journal    *)
(* committed for it, however late a stale operation publishes another.     *)
THEOREM FirstWins == Spec => []FirstSupersessionWins
<1>1. Init => FirstSupersessionWins
  BY DEF Init, FirstSupersessionWins
<1>2. ASSUME IndInv, FirstSupersessionWins, [Next]_vars PROVE FirstSupersessionWins'
  <2>1. CASE UNCHANGED <<journal, claimCard, conflictCard>>
    BY <1>2, <2>1 DEF FirstSupersessionWins
  <2>2. CASE \E e \in Events : Append_(e) /\ Grounded(e)
    <3>1. PICK e \in Events : Append_(e)
      BY <2>2
    <3>2. CASE Journaled(e)
      <4>1. UNCHANGED <<journal, claimCard, conflictCard>>
        BY <3>1, <3>2 DEF Append_
      <4> QED BY <1>2, <4>1 DEF FirstSupersessionWins
    <3>3. CASE ~Journaled(e)
      <4>1. /\ journal' = Append(journal, e) /\ journal \in Seq(Events)
            /\ TypeOK /\ Story
        BY <1>2, <3>1, <3>3 DEF Append_, IndInv, TypeOK, Story
      <4>2. /\ DOMAIN journal' = 1..(Len(journal) + 1)
            /\ DOMAIN journal = 1..Len(journal)
            /\ Len(journal) \in Nat
            /\ \A i \in 1..Len(journal) : journal'[i] = journal[i] /\ journal[i] \in Events
            /\ journal'[Len(journal) + 1] = e
        BY <4>1
      <4>3. ASSUME NEW h \in 1..Len(journal), journal[h].kind = "supersede"
            PROVE  /\ journal[h].of \in Claims
                   /\ claimCard[journal[h].of].by # None
        <5>1. /\ journal[h].of \in Claims /\ journal[h].by \in Claims
              /\ journal[h] = ClaimSuperseded(journal[h].of, journal[h].by)
          BY <4>2, <4>3, EventKinds, DecisionKinds
        <5>2. InJournal(ClaimSuperseded(journal[h].of, journal[h].by))
          BY <4>2, <5>1 DEF InJournal
        <5> QED BY <4>1, <5>1, <5>2 DEF Story, CardsFoldJournal
      <4>4. ASSUME NEW h \in 1..Len(journal), journal[h].kind = "supersede"
            PROVE  \E j \in 1..h :
                     /\ journal'[j] = ClaimSuperseded(journal[h].of, claimCard'[journal[h].of].by)
                     /\ \A g \in 1..(j - 1) : journal'[g].kind = "supersede" =>
                                                journal'[g].of # journal[h].of
        <5>1. PICK j \in 1..h :
                 /\ journal[j] = ClaimSuperseded(journal[h].of, claimCard[journal[h].of].by)
                 /\ \A g \in 1..(j - 1) : journal[g].kind = "supersede" =>
                                            journal[g].of # journal[h].of
          BY <1>2, <4>2, <4>4 DEF FirstSupersessionWins
        <5>2. claimCard'[journal[h].of].by = claimCard[journal[h].of].by
          BY <3>1, <3>3, <4>1, <4>3, <4>4, AppendSuccessor
        <5>3. j \in 1..Len(journal) /\ \A g \in 1..(j - 1) : g \in 1..Len(journal)
          BY <4>2
        <5> QED BY <4>2, <5>1, <5>2, <5>3
      <4>5. ASSUME e.kind = "supersede"
            PROVE  \E j \in 1..(Len(journal) + 1) :
                     /\ journal'[j] = ClaimSuperseded(e.of, claimCard'[e.of].by)
                     /\ \A g \in 1..(j - 1) : journal'[g].kind = "supersede" =>
                                                journal'[g].of # e.of
        <5>1. e.of \in Claims /\ e.by \in Claims /\ e = ClaimSuperseded(e.of, e.by)
          BY <4>5, EventKinds, DecisionKinds
        <5>2. CASE claimCard[e.of].by = None
          <6>1. claimCard'[e.of].by = e.by
            BY <3>1, <3>3, <4>1, <4>5, <5>1, <5>2, AppendSuccessor
          <6>2. \A g \in 1..Len(journal) : journal'[g].kind = "supersede" => journal'[g].of # e.of
            BY <4>2, <4>3, <5>2
          <6> QED BY <4>2, <5>1, <6>1, <6>2
        <5>3. CASE claimCard[e.of].by # None
          <6>1. PICK y \in Claims : InJournal(ClaimSuperseded(e.of, y))
            BY <4>1, <5>1, <5>3 DEF Story, CardsFoldJournal
          <6>2. PICK h \in 1..Len(journal) : journal[h] = ClaimSuperseded(e.of, y)
            BY <4>2, <6>1 DEF InJournal
          <6>3. journal[h].kind = "supersede" /\ journal[h].of = e.of
            BY <6>2 DEF ClaimSuperseded
          <6> QED BY <4>2, <4>4, <6>3
        <5> QED BY <5>2, <5>3
      <4>6. ASSUME NEW i \in DOMAIN journal', journal'[i].kind = "supersede"
            PROVE  \E j \in 1..i :
                     /\ journal'[j] = ClaimSuperseded(journal'[i].of, claimCard'[journal'[i].of].by)
                     /\ \A g \in 1..(j - 1) : journal'[g].kind = "supersede" =>
                                                journal'[g].of # journal'[i].of
        <5> DEFINE HasFirst(v, n) ==
              \E j \in 1..n : /\ journal'[j] = ClaimSuperseded(v.of, claimCard'[v.of].by)
                             /\ \A g \in 1..(j - 1) : journal'[g].kind = "supersede" =>
                                                        journal'[g].of # v.of
        <5> PICK v : v = journal'[i]
          OBVIOUS
        <5>1. CASE i \in 1..Len(journal)
          <6>1. v = journal[i] /\ v.kind = "supersede"
            BY <4>2, <4>6, <5>1
          <6>2. HasFirst(journal[i], i)
            BY <4>4, <5>1, <6>1
          <6> HIDE DEF HasFirst
          <6>3. HasFirst(v, i)
            BY <6>1, <6>2
          <6> QED BY <6>3 DEF HasFirst
        <5>2. CASE i = Len(journal) + 1
          <6>1. v = e /\ e.kind = "supersede"
            BY <4>2, <4>6, <5>2
          <6>2. HasFirst(e, i)
            BY <4>5, <5>2, <6>1
          <6> HIDE DEF HasFirst
          <6>3. HasFirst(v, i)
            BY <6>1, <6>2
          <6> QED BY <6>3 DEF HasFirst
        <5> QED BY <4>2, <5>1, <5>2
      <4> QED BY <4>6 DEF FirstSupersessionWins, ClaimSuperseded
    <3> QED BY <3>2, <3>3
  <2> QED BY <1>2, <2>1, <2>2, NextInductive DEF JournalStep
<1> QED BY Inductive, <1>1, <1>2, PTL DEF Spec

-----------------------------------------------------------------------------
(* Refinement *)

LEMMA PointUpdate ==
  ASSUME NEW S, NEW f, NEW g, f = [y \in S |-> f[y]], g = [y \in S |-> g[y]],
         NEW x \in S, NEW v, g[x] = v, \A y \in S : y # x => g[y] = f[y]
  PROVE  g = [f EXCEPT ![x] = v]
OBVIOUS

LEMMA ViewFunctions ==
  /\ statusView = [y \in Claims |-> statusView[y]]
  /\ statusView' = [y \in Claims |-> statusView'[y]]
  /\ successorView = [y \in Claims |-> successorView[y]]
  /\ successorView' = [y \in Claims |-> successorView'[y]]
  /\ disputeView = [j \in Conflicts |-> disputeView[j]]
  /\ disputeView' = [j \in Conflicts |-> disputeView'[j]]
BY DEF statusView, successorView, disputeView

LEMMA ClaimViewValues ==
  ASSUME NEW y \in Claims
  PROVE  /\ claimCard[y].phase = 0 <=> statusView[y] = "absent"
         /\ claimCard[y].phase = 1 => statusView[y] = "current"
         /\ claimCard'[y].phase = 1 => statusView'[y] = "current"
         /\ claimCard'[y].phase = 2 => statusView'[y] = "superseded"
         /\ successorView'[y] = claimCard'[y].by
         /\ claimCard'[y] = claimCard[y] =>
              statusView'[y] = statusView[y] /\ successorView'[y] = successorView[y]
BY DEF statusView, successorView, StatusOf

LEMMA ConflictViewValues ==
  ASSUME NEW j \in Conflicts
  PROVE  /\ conflictCard[j].phase = 0 => disputeView[j] = "none"
         /\ conflictCard[j].phase = 1 => disputeView[j] = "open"
         /\ conflictCard'[j].phase = 1 => disputeView'[j] = "open"
         /\ conflictCard'[j].phase \in {2, 3} => disputeView'[j] \in {"resolved", "ignored"}
         /\ conflictCard'[j] = conflictCard[j] => disputeView'[j] = disputeView[j]
BY DEF disputeView, DisputeOf

(* Every step either leaves the cards alone, repeats what they say, or is  *)
(* one step of ClaimTruth: the operations implement it.                    *)
THEOREM Refinement == Spec => ImplementsClaimTruth
<1>1. Init => Truth!Init
  BY DEF Init, NoClaimCard, NoConflictCard, Truth!Init, statusView, successorView, disputeView,
         StatusOf, DisputeOf
<1>2. ASSUME IndInv, [Next]_vars PROVE [Truth!Next]_(Truth!vars)
  <2>1. CASE UNCHANGED <<claimCard, conflictCard>>
    BY <2>1 DEF Truth!vars, statusView, successorView, disputeView
  <2>2. CASE \E e \in Events : Append_(e) /\ Grounded(e)
    <3>1. PICK e \in Events : Append_(e) /\ Grounded(e)
      BY <2>2
    <3>2. TypeOK /\ Story
      BY <1>2 DEF IndInv, Story
    <3>3. TypeOK'
      BY <1>2, NextTypes DEF IndInv
    <3>4. CASE UNCHANGED <<claimCard, conflictCard>>
      BY <2>1, <3>4
    <3>5. CASE UNCHANGED conflictCard /\ ~UNCHANGED claimCard
      <4>1. PICK x \in Claims :
              /\ \A y \in Claims : y # x => claimCard'[y] = claimCard[y]
              /\ \/ /\ claimCard[x].phase = 0 /\ claimCard[x].by = None
                    /\ claimCard'[x].phase = 1 /\ claimCard'[x].by = None
                 \/ /\ e.by \in Claims /\ e.by # x
                    /\ claimCard[e.by].phase # 0
                    /\ claimCard[x].phase = 1 /\ claimCard[x].by = None
                    /\ claimCard'[x].phase = 2 /\ claimCard'[x].by = e.by
                 \/ /\ claimCard[x].phase = 2
                    /\ claimCard'[x].phase = 2 /\ claimCard'[x].by = claimCard[x].by
        BY <3>1, <3>2, <3>5, AppendOutcome
      <4>2. disputeView' = disputeView
        BY <3>5 DEF disputeView
      <4>3. CASE claimCard[x].phase = 0
        <5>1. /\ statusView[x] = "absent" /\ statusView'[x] = "current"
              /\ \A y \in Claims : y # x => statusView'[y] = statusView[y]
          BY <4>1, <4>3, ClaimViewValues
        <5>2. statusView' = [statusView EXCEPT ![x] = "current"]
          BY <5>1, ViewFunctions, PointUpdate
        <5>3. successorView' = successorView
          BY <4>1, <4>3 DEF successorView
        <5> QED BY <4>2, <5>1, <5>2, <5>3 DEF Truth!Next, Truth!Record
      <4>4. CASE claimCard[x].phase = 1
        <5>1. /\ e.by # x /\ e.by \in Claims
              /\ statusView[x] = "current" /\ statusView[e.by] # "absent"
              /\ statusView'[x] = "superseded" /\ successorView'[x] = e.by
              /\ \A y \in Claims : y # x => statusView'[y] = statusView[y]
              /\ \A y \in Claims : y # x => successorView'[y] = successorView[y]
          BY <4>1, <4>4, ClaimViewValues
        <5>2. statusView' = [statusView EXCEPT ![x] = "superseded"]
          BY <5>1, ViewFunctions, PointUpdate
        <5>3. successorView' = [successorView EXCEPT ![x] = e.by]
          BY <5>1, ViewFunctions, PointUpdate
        <5> QED BY <4>2, <5>1, <5>2, <5>3 DEF Truth!Next, Truth!Supersede
      <4>5. CASE claimCard[x].phase = 2
        <5>1. statusView' = statusView /\ successorView' = successorView
          BY <4>1, <4>5 DEF statusView, successorView, StatusOf
        <5> QED BY <4>2, <5>1 DEF Truth!vars
      <4> QED BY <4>1, <4>3, <4>4, <4>5
    <3>6. CASE UNCHANGED claimCard /\ ~UNCHANGED conflictCard
      <4>1. PICK k \in Conflicts :
              /\ \A j \in Conflicts : j # k => conflictCard'[j] = conflictCard[j]
              /\ \/ /\ conflictCard[k].phase = 0
                    /\ conflictCard'[k].phase = 1
                    /\ \A x \in k : claimCard[x].phase # 0
                 \/ /\ conflictCard[k].phase = 1
                    /\ conflictCard'[k].phase \in {2, 3}
        BY <3>1, <3>2, <3>6, AppendOutcome
      <4>2. statusView' = statusView /\ successorView' = successorView
        BY <3>6 DEF statusView, successorView
      <4>3. CASE conflictCard[k].phase = 0
        <5>1. /\ disputeView[k] = "none" /\ disputeView'[k] = "open"
              /\ \A j \in Conflicts : j # k => disputeView'[j] = disputeView[j]
          BY <4>1, <4>3, ConflictViewValues
        <5>2. disputeView' = [disputeView EXCEPT ![k] = "open"]
          BY <5>1, ViewFunctions, PointUpdate
        <5>3. \A x \in k : statusView[x] # "absent"
          BY <4>1, <4>3, ConflictClaims, ClaimViewValues
        <5> QED BY <4>2, <5>1, <5>2, <5>3 DEF Truth!Next, Truth!Open
      <4>4. CASE conflictCard[k].phase = 1
        <5>1. /\ disputeView[k] = "open" /\ disputeView'[k] \in {"resolved", "ignored"}
              /\ \A j \in Conflicts : j # k => disputeView'[j] = disputeView[j]
          BY <4>1, <4>4, ConflictViewValues
        <5>2. disputeView' = [disputeView EXCEPT ![k] = disputeView'[k]]
          BY ViewFunctions, PointUpdate, <5>1
        <5> QED BY <4>2, <5>1, <5>2 DEF Truth!Next, Truth!Settle
      <4> QED BY <4>1, <4>3, <4>4
    <3> QED BY <3>1, <3>2, <3>4, <3>5, <3>6, AppendOutcome
  <2> QED BY <1>2, <2>1, <2>2, NextInductive DEF JournalStep
<1> QED BY Inductive, <1>1, <1>2, PTL DEF Spec, ImplementsClaimTruth, Truth!Spec

-----------------------------------------------------------------------------
(* Interruption *)

(* The claims an operation still has to append of its body are all that    *)
(* the journal lacks of it.                                                *)
LinesAreRest(o, cards) ==
  o.lines # <<>> =>
    \A i \in DOMAIN Extract[o.body] :
      \/ cards[Extract[o.body][i]].phase # 0
      \/ \E n \in DOMAIN o.lines : o.lines[n] = Extract[o.body][i]

AllLinesAreRest == \A p \in Slots : LinesAreRest(op[p], claimCard)

(* A slot without an operation holds nothing of the last one. *)
AllIdleEmpty == \A p \in Slots : op[p].kind = "idle" => op[p] = Idle

WholeInv == AllLinesAreRest /\ OnlyInterruptionLosesClaims /\ AllIdleEmpty

Whole(b, cards) == \A i \in DOMAIN Extract[b] : cards[Extract[b][i]].phase # 0

LEMMA BodyClaims ==
  ASSUME NEW b \in Bodies
  PROVE  Extract[b] \in Seq(Claims) /\ \A i \in DOMAIN Extract[b] : Extract[b][i] \in Claims
<1>1. Extract[b] \in Seq(Claims)
  BY ExtractAssumption
<1>2. \A i \in DOMAIN Extract[b] : Extract[b][i] \in Claims
  BY <1>1
<1> QED BY <1>1, <1>2

(* What is recorded stays recorded, so what a list lacks it keeps lacking. *)
LEMMA RestSurvives ==
  ASSUME Kept, NEW o, Sound(o), LinesAreRest(o, claimCard)
  PROVE  LinesAreRest(o, claimCard')
<1> SUFFICES ASSUME o.lines # <<>>, NEW i \in DOMAIN Extract[o.body]
             PROVE  \/ claimCard'[Extract[o.body][i]].phase # 0
                    \/ \E n \in DOMAIN o.lines : o.lines[n] = Extract[o.body][i]
  BY DEF LinesAreRest
<1>1. o.body \in Bodies
  BY DEF Sound, WellFormed
<1>2. Extract[o.body][i] \in Claims
  BY <1>1, BodyClaims
<1> QED BY <1>2 DEF LinesAreRest, Kept

(* A step of slot p that accounts for its body, and observes only a body   *)
(* whose claims p has yet to append or whose claims are all recorded,      *)
(* keeps the account.                                                      *)
LEMMA WholeStep ==
  ASSUME IndInv, WholeInv, Kept, NEW p \in Slots, NEW o,
         op' = [op EXCEPT ![p] = o],
         LinesAreRest(o, claimCard'),
         o.kind = "idle" => o = Idle,
         abandoned \subseteq abandoned',
         \A b \in Bodies :
           b \in observed' /\ (b \notin observed \/ (op[p].lines # <<>> /\ op[p].body = b)) =>
             \/ b \in abandoned'
             \/ o.lines # <<>> /\ o.body = b
             \/ Whole(b, claimCard'),
         observed' \subseteq Bodies
  PROVE  WholeInv'
<1>1. op \in [Slots -> Operations]
  BY DEF IndInv, TypeOK
<1>2. op'[p] = o /\ \A q \in Slots : q # p => op'[q] = op[q]
  BY <1>1
<1>3. ASSUME NEW q \in Slots PROVE LinesAreRest(op'[q], claimCard')
  <2>1. CASE q = p
    BY <1>2, <2>1
  <2>2. CASE q # p
    <3>1. Sound(op[q]) /\ LinesAreRest(op[q], claimCard)
      BY DEF IndInv, TypeOK, Sound, WholeInv, AllLinesAreRest
    <3> QED BY <1>2, <2>2, <3>1, RestSurvives
  <2> QED BY <2>1, <2>2
<1>4. ASSUME NEW b \in observed'
      PROVE  \/ b \in abandoned'
             \/ \E q \in Slots : op'[q].lines # <<>> /\ op'[q].body = b
             \/ Whole(b, claimCard')
  <2>1. b \in Bodies
    OBVIOUS
  <2>2. CASE b \notin observed \/ (op[p].lines # <<>> /\ op[p].body = b)
    BY <1>2, <2>1, <2>2
  <2>3. CASE b \in observed /\ ~(op[p].lines # <<>> /\ op[p].body = b)
    <3>1. \/ b \in abandoned
          \/ \E q \in Slots : op[q].lines # <<>> /\ op[q].body = b
          \/ Whole(b, claimCard)
      BY <2>3 DEF WholeInv, OnlyInterruptionLosesClaims, Whole
    <3>2. CASE Whole(b, claimCard)
      <4>1. Whole(b, claimCard')
        BY <2>1, <3>2, BodyClaims DEF Whole, Kept
      <4> QED BY <4>1
    <3>3. CASE \E q \in Slots : op[q].lines # <<>> /\ op[q].body = b
      BY <1>2, <2>3, <3>3
    <3> QED BY <3>1, <3>2, <3>3
  <2> QED BY <2>2, <2>3
<1>5. AllLinesAreRest'
  BY <1>3 DEF AllLinesAreRest, LinesAreRest
<1>6. OnlyInterruptionLosesClaims'
  BY <1>4 DEF OnlyInterruptionLosesClaims, Whole
<1>7. AllIdleEmpty'
  <2> SUFFICES ASSUME NEW q \in Slots, op'[q].kind = "idle" PROVE op'[q] = Idle
    BY DEF AllIdleEmpty
  <2>1. CASE q = p
    BY <1>2, <2>1
  <2>2. CASE q # p
    BY <1>2, <2>2 DEF WholeInv, AllIdleEmpty
  <2> QED BY <2>1, <2>2
<1> QED BY <1>5, <1>6, <1>7 DEF WholeInv

(* Every step of the ledger keeps what is recorded. *)
LEMMA StepKeeps ==
  ASSUME IndInv, JournalStep
  PROVE  Kept
<1>1. CASE UNCHANGED <<journal, claimCard, conflictCard>>
  BY <1>1 DEF Kept
<1>2. CASE \E e \in Events : Append_(e) /\ Grounded(e)
  BY <1>2, AppendStory DEF IndInv, Story
<1> QED BY <1>1, <1>2 DEF JournalStep

(* Only a source event observes a body. *)
LEMMA AppendObserves ==
  ASSUME NEW e, Append_(e)
  PROVE  observed' = observed \/ (e.kind = "source" /\ observed' = observed \cup {e.of})
BY DEF Append_

(* A slot in which something is left to do holds an operation. *)
LEMMA Busy ==
  ASSUME AllIdleEmpty, NEW p \in Slots,
         op[p].left # {} \/ op[p].lines # <<>> \/ op[p].next # {} \/ op[p].todo # "none"
  PROVE  op[p].kind # "idle"
BY DEF AllIdleEmpty, Idle

LEMMA StartWhole ==
  ASSUME IndInv, WholeInv, Kept, NEW p \in Slots, Start(p)
  PROVE  WholeInv'
<1>1. PICK o : /\ op[p].kind = "idle" /\ o.kind # "idle"
               /\ op' = [op EXCEPT ![p] = o]
               /\ o.lines = <<>>
               /\ UNCHANGED <<observed, abandoned>>
  <2>1. \A kind, tree, next, todo : /\ Planned(kind, tree, next, todo).lines = <<>>
                                    /\ Planned(kind, tree, next, todo).kind = kind
    BY DEF Planned
  <2>2. \E kind \in {"cli", "session"} : \E tree, next, todo :
          Begin(p, Planned(kind, tree, next, todo))
    <3>1. CASE \E tree \in Trees : Ingest(p, tree)
      BY <3>1 DEF Ingest
    <3>2. CASE \E b \in Transcripts : SessionEnd(p, b)
      BY <3>2 DEF SessionEnd
    <3>3. ASSUME \E next : Begin(p, Deciding(next, "none")) \/ Begin(p, Deciding(next, "relate"))
          PROVE  \E kind \in {"cli", "session"} : \E tree, next, todo :
                   Begin(p, Planned(kind, tree, next, todo))
      BY <3>3 DEF Deciding
    <3>4. CASE \E old, new \in Claims : ClaimSupersede(p, old, new)
      BY <3>3, <3>4 DEF ClaimSupersede
    <3>5. CASE ConflictsCommit(p)
      BY <3>3, <3>5 DEF ConflictsCommit
    <3>6. CASE \E k \in Conflicts, r \in Resolutions : ConflictResolve(p, k, r)
      BY <3>3, <3>6 DEF ConflictResolve
    <3>7. CASE RelateRun(p)
      BY <3>3, <3>7 DEF RelateRun
    <3> QED BY <3>1, <3>2, <3>4, <3>5, <3>6, <3>7 DEF Start
  <2>3. PICK kind \in {"cli", "session"} :
          \E tree, next, todo : Begin(p, Planned(kind, tree, next, todo))
    BY <2>2
  <2>4. PICK tree, next, todo : Begin(p, Planned(kind, tree, next, todo))
    BY <2>3
  <2>5. PICK o : o = Planned(kind, tree, next, todo)
    OBVIOUS
  <2>6. o.lines = <<>> /\ o.kind # "idle"
    BY <2>1, <2>5
  <2>7. Begin(p, o)
    BY <2>4, <2>5
  <2> QED BY <2>6, <2>7 DEF Begin
<1>2. op[p].lines = <<>>
  BY <1>1, Busy DEF WholeInv
<1>3. observed' \subseteq Bodies
  BY <1>1 DEF IndInv, TypeOK
<1>4. LinesAreRest(o, claimCard')
  BY <1>1 DEF LinesAreRest
<1> QED BY <1>1, <1>2, <1>3, <1>4, WholeStep

(* A step that neither begins nor continues a body *)
LEMMA QuietWhole ==
  ASSUME IndInv, WholeInv, Kept, NEW p \in Slots, NEW o,
         op' = [op EXCEPT ![p] = o],
         op[p].lines = <<>>, o.lines = <<>>, o.kind = "idle" => o = Idle,
         observed' = observed, abandoned' = abandoned
  PROVE  WholeInv'
<1>1. observed' \subseteq Bodies
  BY DEF IndInv, TypeOK
<1>2. LinesAreRest(o, claimCard')
  BY DEF LinesAreRest
<1> QED BY <1>1, <1>2, WholeStep

LEMMA AppendSourceWhole ==
  ASSUME IndInv, WholeInv, Kept, NEW p \in Slots, AppendSource(p)
  PROVE  WholeInv'
<1> DEFINE o == op[p]
<1>1. PICK i \in o.left :
        /\ o.lines = <<>>
        /\ Append_(SourceObserved(o.tree[i]))
        /\ op' = [op EXCEPT ![p] = [o EXCEPT !.left = @ \ {i}, !.body = o.tree[i],
                                             !.lines = Extract[o.tree[i]]]]
        /\ abandoned' = abandoned
  BY DEF AppendSource, Change
<1>2. Sound(o) /\ o.kind # "idle"
  <2>1. o.left # {}
    BY <1>1
  <2>2. o.kind # "idle"
    BY <2>1, Busy DEF WholeInv
  <2> QED BY <2>2 DEF IndInv, TypeOK, Sound
<1> DEFINE b == o.tree[i]
           new == [o EXCEPT !.left = @ \ {i}, !.body = b, !.lines = Extract[b]]
<1> HIDE DEF o
<1>3. b \in Bodies
  BY <1>2 DEF Sound, WellFormed, Operations
<1>4. new.kind # "idle" /\ new.body = b /\ new.lines = Extract[b]
  BY <1>2 DEF Sound, Operations
<1> HIDE DEF new, b
<1>5. observed' = observed \/ observed' = observed \cup {b}
  BY <1>1, AppendObserves DEF SourceObserved, b
<1>6. observed' \subseteq Bodies
  BY <1>3, <1>5 DEF IndInv, TypeOK
<1>7. LinesAreRest(new, claimCard')
  BY <1>4 DEF LinesAreRest
<1>8. ASSUME NEW d \in Bodies,
             d \in observed' /\ (d \notin observed \/ (o.lines # <<>> /\ o.body = d))
      PROVE  \/ d \in abandoned'
             \/ new.lines # <<>> /\ new.body = d
             \/ Whole(d, claimCard')
  <2>1. d = b
    BY <1>1, <1>5, <1>8
  <2>2. CASE Extract[b] = <<>>
    BY <2>1, <2>2 DEF Whole
  <2>3. CASE Extract[b] # <<>>
    BY <1>4, <2>1, <2>3
  <2> QED BY <2>2, <2>3
<1> QED BY <1>1, <1>4, <1>6, <1>7, <1>8, WholeStep DEF new, b, o

(* The claim taken off the list is recorded by that append, and with the   *)
(* last of them the body is whole.                                         *)
LEMMA AppendClaimWhole ==
  ASSUME IndInv, WholeInv, Kept, NEW p \in Slots, AppendClaim(p)
  PROVE  WholeInv'
<1> DEFINE o == op[p]
           new == [o EXCEPT !.lines = Tail(@)]
<1>1. /\ o.lines # <<>>
      /\ Append_(ClaimRecorded(Head(o.lines)))
      /\ op' = [op EXCEPT ![p] = new]
      /\ abandoned' = abandoned
  BY DEF AppendClaim, Change
<1>2. Sound(o) /\ o.kind # "idle" /\ LinesAreRest(o, claimCard)
  <2>1. o.kind # "idle"
    BY <1>1, Busy DEF WholeInv
  <2> QED BY <2>1 DEF IndInv, TypeOK, Sound, WholeInv, AllLinesAreRest
<1> HIDE DEF o
<1>3. o.lines \in Seq(Claims) /\ Head(o.lines) \in Claims /\ o.body \in Bodies
  <2>1. o.lines \in Seq(Claims) /\ o.body \in Bodies
    BY <1>1, <1>2 DEF Sound, WellFormed, Operations
  <2> QED BY <1>1, <2>1
<1>4. claimCard'[Head(o.lines)].phase # 0
  <2>1. PICK x \in Claims : x = Head(o.lines)
    BY <1>3
  <2>2. ClaimRecorded(x) \in Events /\ Grounded(ClaimRecorded(x))
    BY <2>1 DEF Events, Grounded, ClaimRecorded
  <2>3. Append_(ClaimRecorded(x))
    BY <1>1, <2>1
  <2>4. Story'
    BY <2>2, <2>3, AppendStory DEF IndInv, Story
  <2>5. InJournal(ClaimRecorded(x))'
    BY <2>2, <2>3, JournalGrowth, KeysIdentify DEF IndInv, ClaimRecorded
  <2>6. claimCard'[x].phase # 0
    BY <2>1, <2>4, <2>5 DEF Story, CardsFoldJournal
  <2> QED BY <2>1, <2>6
<1>5. observed' = observed
  BY <1>1, AppendObserves DEF ClaimRecorded
<1>6. new.kind # "idle" /\ new.body = o.body /\ new.lines = Tail(o.lines)
  BY <1>2 DEF Sound, Operations
<1> HIDE DEF new
<1>7. ASSUME NEW i \in DOMAIN Extract[o.body]
      PROVE  \/ claimCard'[Extract[o.body][i]].phase # 0
             \/ \E n \in DOMAIN new.lines : new.lines[n] = Extract[o.body][i]
  <2>1. LinesAreRest(o, claimCard')
    BY <1>2, RestSurvives
  <2>2. CASE \E n \in DOMAIN o.lines : o.lines[n] = Extract[o.body][i]
    <3>1. PICK n \in DOMAIN o.lines : o.lines[n] = Extract[o.body][i]
      BY <2>2
    <3>2. CASE n = 1
      <4>1. Head(o.lines) = o.lines[1]
        BY <1>1, <1>3
      <4> QED BY <1>4, <3>1, <3>2, <4>1
    <3>3. CASE n # 1
      <4>1. n - 1 \in DOMAIN Tail(o.lines) /\ Tail(o.lines)[n - 1] = o.lines[n]
        BY <1>1, <1>3, <3>1, <3>3
      <4> QED BY <1>6, <3>1, <4>1
    <3> QED BY <3>2, <3>3
  <2> QED BY <1>1, <2>1, <2>2 DEF LinesAreRest
<1>8. LinesAreRest(new, claimCard')
  BY <1>6, <1>7 DEF LinesAreRest
<1>9. ASSUME NEW d \in Bodies,
             d \in observed' /\ (d \notin observed \/ (o.lines # <<>> /\ o.body = d))
      PROVE  \/ d \in abandoned'
             \/ new.lines # <<>> /\ new.body = d
             \/ Whole(d, claimCard')
  <2>1. d = o.body
    BY <1>5, <1>9
  <2>2. CASE new.lines # <<>>
    BY <1>6, <2>1, <2>2
  <2>3. CASE new.lines = <<>>
    <3>1. DOMAIN new.lines = {}
      BY <2>3
    <3> QED BY <1>7, <2>1, <3>1 DEF Whole
  <2> QED BY <2>2, <2>3
<1>10. observed' \subseteq Bodies
  BY <1>5 DEF IndInv, TypeOK
<1> QED BY <1>1, <1>6, <1>8, <1>9, <1>10, WholeStep DEF o

LEMMA DecidingWhole ==
  ASSUME IndInv, WholeInv, Kept, NEW p \in Slots, Infer(p) \/ Publish(p) \/ Judge(p) \/ Finish(p)
  PROVE  WholeInv'
<1> DEFINE o == op[p]
<1>1. Sound(o) /\ o.lines = <<>>
  BY DEF IndInv, TypeOK, Sound, Infer, Publish, Judge, Finish, SourcesDone
<1>2. CASE Infer(p) \/ Judge(p)
  <2>1. PICK next : /\ op' = [op EXCEPT ![p] = [o EXCEPT !.next = next, !.todo = "none"]]
                    /\ o.todo # "none"
                    /\ UNCHANGED <<observed, abandoned>>
    <3>1. CASE Infer(p)
      BY <3>1 DEF Infer, Change
    <3>2. CASE Judge(p)
      <4>1. PICK edges \in SUBSET Judgeable, clashes \in SUBSET Conflicts :
              Change(p, [op[p] EXCEPT !.todo = "none",
                          !.next = {ClaimSuperseded(e[1], e[2]) : e \in edges}
                                     \cup {ConflictOpened(k) : k \in clashes}])
        BY <3>2 DEF Judge
      <4>2. o.todo # "none" /\ UNCHANGED <<observed, abandoned>>
        BY <3>2 DEF Judge
      <4>3. [o EXCEPT !.todo = "none", !.next = {ClaimSuperseded(e[1], e[2]) : e \in edges}
                                     \cup {ConflictOpened(k) : k \in clashes}]
            = [o EXCEPT !.next = {ClaimSuperseded(e[1], e[2]) : e \in edges}
                                     \cup {ConflictOpened(k) : k \in clashes}, !.todo = "none"]
        BY <1>1 DEF Sound, Operations
      <4> QED BY <4>1, <4>2, <4>3 DEF Change
    <3> QED BY <1>2, <3>1, <3>2
  <2>2. o.kind # "idle"
    BY <2>1, Busy DEF WholeInv
  <2> HIDE DEF o
  <2>3. LET new == [o EXCEPT !.next = next, !.todo = "none"]
        IN new.kind # "idle" /\ new.lines = <<>>
    BY <1>1, <2>2 DEF Sound, Operations
  <2> QED BY <1>1, <2>1, <2>3, QuietWhole DEF o
<1>3. CASE Publish(p)
  <2>1. PICK e \in o.next : Append_(e) /\ op' = [op EXCEPT ![p] = [o EXCEPT !.next = @ \ {e}]]
                              /\ abandoned' = abandoned
    BY <1>3 DEF Publish, Change
  <2>2. o.kind # "idle"
    BY <2>1, Busy DEF WholeInv
  <2> HIDE DEF o
  <2>3. LET new == [o EXCEPT !.next = @ \ {e}]
        IN new.kind # "idle" /\ new.lines = <<>>
    BY <1>1, <2>2 DEF Sound, Operations
  <2>4. e.kind # "source"
    BY <1>1, DecisionKinds DEF Sound, Operations
  <2>5. observed' = observed
    BY <2>1, <2>4, AppendObserves
  <2> QED BY <1>1, <2>1, <2>3, <2>5, QuietWhole DEF o
<1>4. CASE Finish(p)
  <2>1. op' = [op EXCEPT ![p] = Idle] /\ observed' = observed /\ abandoned' = abandoned
    BY <1>4 DEF Finish, Change
  <2>2. Idle.lines = <<>>
    BY DEF Idle
  <2> QED BY <1>1, <2>1, <2>2, QuietWhole
<1> QED BY <1>2, <1>3, <1>4

(* A failure or a crash gives the bodies it cuts short up. *)
LEMMA FailWhole ==
  ASSUME IndInv, WholeInv, Kept, NEW p \in Slots, Fail(p)
  PROVE  WholeInv'
<1>1. /\ op' = [op EXCEPT ![p] = Idle] /\ observed' = observed
      /\ abandoned' = abandoned \cup CutShort({p})
  BY DEF Fail, Change
<1>2. op[p].lines # <<>> => op[p].body \in CutShort({p})
  BY DEF CutShort
<1>3. Idle.lines = <<>>
  BY DEF Idle
<1>4. LinesAreRest(Idle, claimCard')
  BY <1>3 DEF LinesAreRest
<1>5. observed' \subseteq Bodies
  BY <1>1 DEF IndInv, TypeOK
<1>6. \A d \in Bodies :
        d \in observed' /\ (d \notin observed \/ (op[p].lines # <<>> /\ op[p].body = d)) =>
          d \in abandoned'
  BY <1>1, <1>2
<1> QED BY <1>1, <1>4, <1>5, <1>6, WholeStep

LEMMA CrashWhole ==
  ASSUME IndInv, WholeInv, Crash
  PROVE  WholeInv'
<1>1. /\ \A p \in Slots : op'[p] = Idle
      /\ UNCHANGED <<claimCard, observed>>
      /\ abandoned' = abandoned \cup CutShort(Slots)
  BY DEF Crash
<1>2. Idle.lines = <<>>
  BY DEF Idle
<1>3. AllLinesAreRest' /\ AllIdleEmpty'
  BY <1>1, <1>2 DEF AllLinesAreRest, LinesAreRest, AllIdleEmpty
<1>4. ASSUME NEW b \in observed
      PROVE  b \in abandoned' \/ Whole(b, claimCard)
  <2>1. \A q \in Slots : op[q].lines # <<>> => op[q].body \in CutShort(Slots)
    BY DEF CutShort
  <2> QED BY <1>1, <2>1 DEF WholeInv, OnlyInterruptionLosesClaims, Whole
<1>5. OnlyInterruptionLosesClaims'
  BY <1>1, <1>4 DEF OnlyInterruptionLosesClaims, Whole
<1> QED BY <1>3, <1>5 DEF WholeInv

LEMMA InitWhole == Init => WholeInv
BY DEF Init, WholeInv, AllLinesAreRest, LinesAreRest, AllIdleEmpty, OnlyInterruptionLosesClaims,
       Idle

LEMMA NextWhole == IndInv /\ WholeInv /\ [Next]_vars => WholeInv'
<1> SUFFICES ASSUME IndInv, WholeInv, [Next]_vars PROVE WholeInv'
  OBVIOUS
<1>1. Kept
  BY NextInductive, StepKeeps
<1>2. CASE UNCHANGED vars
  BY <1>2 DEF vars, WholeInv, AllLinesAreRest, LinesAreRest, AllIdleEmpty,
              OnlyInterruptionLosesClaims
<1>3. CASE \E p \in Slots : Start(p)
  BY <1>1, <1>3, StartWhole
<1>4. CASE \E p \in Slots : Step(p)
  BY <1>1, <1>4, AppendSourceWhole, AppendClaimWhole, DecidingWhole DEF Step
<1>5. CASE \E p \in Slots : Fail(p)
  BY <1>1, <1>5, FailWhole
<1>6. CASE Crash
  BY <1>6, CrashWhole
<1> QED BY <1>2, <1>3, <1>4, <1>5, <1>6 DEF Next

(* A body the journal calls observed has all its claims, or a writer of it *)
(* is still appending them, or a writer of it was cut short by a failure   *)
(* or a crash, whatever races and repeats there were.                      *)
THEOREM NothingElseLosesClaims == Spec => []OnlyInterruptionLosesClaims
<1>1. WholeInv => OnlyInterruptionLosesClaims
  BY DEF WholeInv
<1> QED BY Inductive, InitWhole, NextWhole, <1>1, PTL DEF Spec

-----------------------------------------------------------------------------
(* One operation at a time *)

(* Either there are no session-ends, and every operation waits for the     *)
(* store to be free, or there is one thread.                               *)
OneAtATime == Transcripts = {} \/ \A p, q \in Slots : p = q

(* The conflicts an operation has yet to open are between claims that are  *)
(* current, and none of its own supersessions ends one of them.            *)
CurrentOpens(o, cards) ==
  \A e \in o.next : e.kind = "open" =>
    \A x \in e.of : /\ cards[x].phase = 1
                    /\ \A f \in o.next : f.kind = "supersede" => f.of # x

AloneInv ==
  /\ AllIdleEmpty
  /\ \A p, q \in Slots : op[p].kind # "idle" /\ op[q].kind # "idle" => p = q
  /\ \A p \in Slots : CurrentOpens(op[p], claimCard)

TimelyOpens ==
  \A k \in Conflicts : conflictCard[k].phase = 0 /\ conflictCard'[k].phase = 1 =>
    \A c \in k : claimCard[c].phase = 1

(* Whoever starts or goes on is the only one at work. *)
LEMMA Solo ==
  ASSUME OneAtATime, AloneInv, NEW p \in Slots, Start(p) \/ op[p].kind # "idle"
  PROVE  \A q \in Slots : q # p => op[q].kind = "idle"
<1>1. CASE op[p].kind # "idle"
  BY <1>1 DEF AloneInv
<1>2. CASE Start(p) /\ Transcripts = {}
  <2>1. MayRunCli
    BY <1>2 DEF Start, Ingest, ClaimSupersede, ConflictsCommit, ConflictResolve, RelateRun
  <2> QED BY <2>1 DEF MayRunCli
<1>3. CASE \A q, r \in Slots : q = r
  BY <1>3
<1> QED BY <1>1, <1>2, <1>3 DEF OneAtATime

LEMMA AloneStep ==
  ASSUME TypeOK, AloneInv, NEW p \in Slots, NEW o,
         op' = [op EXCEPT ![p] = o],
         \A q \in Slots : q # p => op[q].kind = "idle",
         o.kind = "idle" => o = Idle,
         CurrentOpens(o, claimCard')
  PROVE  AloneInv'
<1>1. op \in [Slots -> Operations]
  BY DEF TypeOK
<1>2. op'[p] = o /\ \A q \in Slots : q # p => op'[q] = op[q]
  BY <1>1
<1>3. \A q \in Slots : q # p => op'[q].kind = "idle" /\ op'[q] = Idle
  BY <1>2 DEF AloneInv, AllIdleEmpty
<1>4. AllIdleEmpty'
  BY <1>2, <1>3 DEF AllIdleEmpty
<1>5. CurrentOpens(Idle, claimCard')
  BY DEF CurrentOpens, Idle
<1>6. \A q \in Slots : CurrentOpens(op'[q], claimCard')
  BY <1>2, <1>3, <1>5
<1>7. \A q, r \in Slots : op'[q].kind # "idle" /\ op'[r].kind # "idle" => q = r
  BY <1>3
<1>8. (\A q \in Slots : CurrentOpens(op[q], claimCard))'
  BY <1>6 DEF CurrentOpens
<1> QED BY <1>4, <1>7, <1>8 DEF AloneInv

LEMMA StartAlone ==
  ASSUME OneAtATime, TypeOK, AloneInv, NEW p \in Slots, Start(p)
  PROVE  AloneInv' /\ TimelyOpens
<1>1. \A q \in Slots : q # p => op[q].kind = "idle"
  BY Solo
<1>2. ASSUME NEW kind \in {"cli", "session"}, NEW tree, NEW next, NEW todo,
             Begin(p, Planned(kind, tree, next, todo)),
             \A e \in next : e.kind = "open" =>
               \A x \in e.of : /\ claimCard[x].phase = 1
                               /\ \A f \in next : f.kind # "supersede"
      PROVE  AloneInv' /\ TimelyOpens
  <2>1. PICK o : o = Planned(kind, tree, next, todo)
    OBVIOUS
  <2>2. o.kind # "idle" /\ o.next = next
    BY <2>1 DEF Planned
  <2>3. op' = [op EXCEPT ![p] = o] /\ UNCHANGED <<claimCard, conflictCard>>
    BY <1>2, <2>1 DEF Begin
  <2>4. CurrentOpens(o, claimCard')
    BY <1>2, <2>2, <2>3 DEF CurrentOpens
  <2>5. AloneInv'
    BY <1>1, <2>2, <2>3, <2>4, AloneStep
  <2> QED BY <2>3, <2>5 DEF TimelyOpens
<1>3. ASSUME NEW tree, NEW plan PROVE \A e \in Inferred(tree, plan) : e.kind # "open"
  BY DEF Inferred, ClaimSuperseded
<1>4. CASE \E tree \in Trees : Ingest(p, tree)
  BY <1>2, <1>4 DEF Ingest
<1>5. CASE \E b \in Transcripts : SessionEnd(p, b)
  <2>1. PICK b \in Transcripts : SessionEnd(p, b)
    BY <1>5
  <2>2. PICK next, todo : /\ next = Inferred(<<b>>, Fresh(<<b>>))
                          /\ todo = IF ModelEnabled THEN "relate" ELSE "none"
    OBVIOUS
  <2>3. Begin(p, Planned("session", <<b>>, next, todo))
    BY <2>1, <2>2 DEF SessionEnd
  <2>4. \A e \in next : e.kind # "open"
    BY <1>3, <2>2
  <2> QED BY <1>2, <2>3, <2>4
<1>6. CASE \E old, new \in Claims : ClaimSupersede(p, old, new)
  <2>1. PICK old \in Claims, new \in Claims : ClaimSupersede(p, old, new)
    BY <1>6
  <2>2. Begin(p, Planned("cli", <<>>, {ClaimSuperseded(old, new)}, "none"))
    BY <2>1 DEF ClaimSupersede, Deciding
  <2>3. \A e \in {ClaimSuperseded(old, new)} : e.kind # "open"
    BY DEF ClaimSuperseded
  <2> QED BY <1>2, <2>2, <2>3
<1>7. CASE ConflictsCommit(p)
  <2> DEFINE next == {ConflictOpened(k) : k \in {j \in Conflicts :
                        Contradictory(j) /\ conflictCard[j].phase = 0}}
  <2>1. Begin(p, Planned("cli", <<>>, next, "none"))
    BY <1>7 DEF ConflictsCommit, Deciding
  <2>2. \A e \in next : e.kind = "open" /\ \A x \in e.of : claimCard[x].phase = 1
    BY DEF Contradictory, ConflictOpened
  <2> HIDE DEF next
  <2> QED BY <1>2, <2>1, <2>2
<1>8. CASE \E k \in Conflicts, r \in Resolutions : ConflictResolve(p, k, r)
  <2>1. PICK k \in Conflicts, r \in Resolutions : ConflictResolve(p, k, r)
    BY <1>8
  <2>2. Begin(p, Planned("cli", <<>>, {ConflictResolved(k, r)}, "none"))
    BY <2>1 DEF ConflictResolve, Deciding
  <2>3. \A e \in {ConflictResolved(k, r)} : e.kind # "open"
    BY DEF ConflictResolved
  <2> QED BY <1>2, <2>2, <2>3
<1>9. CASE RelateRun(p)
  <2>1. Begin(p, Planned("cli", <<>>, {}, "relate"))
    BY <1>9 DEF RelateRun, Deciding
  <2> QED BY <1>2, <2>1
<1> QED BY <1>4, <1>5, <1>6, <1>7, <1>8, <1>9 DEF Start

(* An append ends no claim but the one it supersedes. *)
LEMMA AppendKeepsCurrent ==
  ASSUME TypeOK, NEW e \in Events, Append_(e), NEW x \in Claims, claimCard[x].phase = 1,
         e.kind = "supersede" => e.of # x
  PROVE  claimCard'[x].phase = 1
<1>1. CASE Journaled(e)
  BY <1>1 DEF Append_
<1>2. CASE ~Journaled(e)
  <2>1. FoldClaim(e) /\ claimCard \in [Claims -> ClaimCards]
    BY <1>2 DEF Append_, TypeOK
  <2>2. CASE e.kind = "claim"
    BY <2>1, <2>2 DEF FoldClaim, OnRecorded
  <2>3. CASE e.kind = "supersede"
    BY <2>1, <2>3 DEF FoldClaim
  <2>4. CASE e.kind # "claim" /\ e.kind # "supersede"
    BY <2>1, <2>4 DEF FoldClaim
  <2> QED BY <2>2, <2>3, <2>4
<1> QED BY <1>1, <1>2

(* A conflict is opened by the append of its own event. *)
LEMMA AppendOpens ==
  ASSUME TypeOK, NEW e \in Events, Append_(e), NEW k \in Conflicts,
         conflictCard[k].phase = 0, conflictCard'[k].phase = 1
  PROVE  e.kind = "open" /\ e.of = k
<1>1. FoldConflict(e) /\ conflictCard \in [Conflicts -> ConflictCards]
  BY DEF Append_, TypeOK
<1>2. CASE e.kind = "open"
  BY <1>1, <1>2 DEF FoldConflict
<1>3. CASE e.kind = "resolve"
  <2>1. e.of # k
    BY <1>1, <1>3 DEF FoldConflict, OnResolved
  <2> QED BY <1>1, <1>3, <2>1 DEF FoldConflict
<1>4. CASE e.kind # "open" /\ e.kind # "resolve"
  BY <1>1, <1>4 DEF FoldConflict
<1> QED BY <1>2, <1>3, <1>4

(* A step that appends one event and keeps, of its decisions, all but it *)
LEMMA AppendingAlone ==
  ASSUME OneAtATime, TypeOK, AloneInv, NEW p \in Slots, NEW o, NEW e \in Events,
         op[p].kind # "idle", o.kind # "idle",
         op' = [op EXCEPT ![p] = o], o.next \subseteq op[p].next,
         Append_(e), e \in op[p].next \/ e.kind \in {"source", "claim"}
  PROVE  AloneInv' /\ TimelyOpens
<1>1. \A q \in Slots : q # p => op[q].kind = "idle"
  BY Solo
<1>2. CurrentOpens(op[p], claimCard) /\ op[p].next \subseteq Decisions
  BY DEF AloneInv, TypeOK, Operations
<1>3. ASSUME NEW d \in o.next, d.kind = "open", NEW x \in d.of
      PROVE  claimCard'[x].phase = 1 /\ \A f \in o.next : f.kind = "supersede" => f.of # x
  <2>1. d \in op[p].next /\ x \in Claims
    BY <1>2, <1>3, DecisionKinds, ConflictClaims
  <2>2. claimCard[x].phase = 1 /\ \A f \in op[p].next : f.kind = "supersede" => f.of # x
    BY <1>2, <1>3, <2>1 DEF CurrentOpens
  <2>3. e.kind = "supersede" => e.of # x
    BY <2>2
  <2>4. claimCard'[x].phase = 1
    BY <2>1, <2>2, <2>3, AppendKeepsCurrent
  <2> QED BY <2>2, <2>4
<1>4. AloneInv'
  <2>1. CurrentOpens(o, claimCard')
    BY <1>3 DEF CurrentOpens
  <2> QED BY <1>1, <2>1, AloneStep
<1>5. ASSUME NEW k \in Conflicts, conflictCard[k].phase = 0, conflictCard'[k].phase = 1,
             NEW c \in k
      PROVE  claimCard[c].phase = 1
  <2>1. e.kind = "open" /\ e.of = k
    BY <1>5, AppendOpens
  <2>2. e \in op[p].next
    BY <2>1
  <2> QED BY <1>2, <1>5, <2>1, <2>2 DEF CurrentOpens
<1> QED BY <1>4, <1>5 DEF TimelyOpens

LEMMA StepAlone ==
  ASSUME OneAtATime, TypeOK, AloneInv, NEW p \in Slots, Step(p)
  PROVE  AloneInv' /\ TimelyOpens
<1> DEFINE o == op[p]
<1>1. Sound(o)
  BY DEF TypeOK, Sound
<1>2. /\ o.left # {} \/ o.lines # <<>> \/ o.next # {} \/ o.todo # "none" => o.kind # "idle"
      /\ o.kind # "idle" => \A q \in Slots : q # p => op[q].kind = "idle"
  BY Busy, Solo DEF AloneInv
<1>3. CASE AppendSource(p)
  <2>1. PICK i \in o.left :
          /\ Append_(SourceObserved(o.tree[i]))
          /\ op' = [op EXCEPT ![p] = [o EXCEPT !.left = @ \ {i}, !.body = o.tree[i],
                                               !.lines = Extract[o.tree[i]]]]
    BY <1>3 DEF AppendSource, Change
  <2>2. o.kind # "idle"
    BY <1>2, <2>1
  <2>3. SourceObserved(o.tree[i]) \in Events /\ SourceObserved(o.tree[i]).kind = "source"
    <3>1. o.tree[i] \in Bodies
      BY <1>1 DEF Sound, WellFormed, Operations
    <3> QED BY <3>1 DEF Events, SourceObserved
  <2> HIDE DEF o
  <2>4. PICK new : new = [o EXCEPT !.left = @ \ {i}, !.body = o.tree[i],
                                   !.lines = Extract[o.tree[i]]]
    OBVIOUS
  <2>5. new.kind # "idle" /\ new.next = o.next
    BY <1>1, <2>2, <2>4 DEF Sound, Operations
  <2>6. op' = [op EXCEPT ![p] = new]
    BY <2>1, <2>4
  <2> QED BY <2>1, <2>2, <2>3, <2>5, <2>6, AppendingAlone DEF o
<1>4. CASE AppendClaim(p)
  <2>1. /\ o.lines # <<>>
        /\ Append_(ClaimRecorded(Head(o.lines)))
        /\ op' = [op EXCEPT ![p] = [o EXCEPT !.lines = Tail(@)]]
    BY <1>4 DEF AppendClaim, Change
  <2>2. o.kind # "idle"
    BY <1>2, <2>1
  <2> HIDE DEF o
  <2>3. ClaimRecorded(Head(o.lines)) \in Events /\ ClaimRecorded(Head(o.lines)).kind = "claim"
    <3>1. o.lines \in Seq(Claims)
      BY <1>1 DEF Sound, Operations
    <3>2. Head(o.lines) \in Claims
      BY <2>1, <3>1
    <3> QED BY <3>2 DEF Events, ClaimRecorded
  <2>4. PICK new : new = [o EXCEPT !.lines = Tail(@)]
    OBVIOUS
  <2>5. new.kind # "idle" /\ new.next = o.next
    BY <1>1, <2>2, <2>4 DEF Sound, Operations
  <2>6. op' = [op EXCEPT ![p] = new]
    BY <2>1, <2>4
  <2> QED BY <2>1, <2>2, <2>3, <2>5, <2>6, AppendingAlone DEF o
<1>5. CASE Infer(p)
  <2>1. /\ o.todo # "none"
        /\ op' = [op EXCEPT ![p] = [o EXCEPT !.next = Inferred(o.tree, o.plan), !.todo = "none"]]
        /\ UNCHANGED <<claimCard, conflictCard>>
    BY <1>5 DEF Infer, Change
  <2>2. o.kind # "idle" /\ \A q \in Slots : q # p => op[q].kind = "idle"
    BY <1>2, <2>1
  <2> HIDE DEF o
  <2>3. PICK next : next = Inferred(o.tree, o.plan)
    OBVIOUS
  <2>4. \A e \in next : e.kind # "open"
    BY <2>3 DEF Inferred, ClaimSuperseded
  <2>5. PICK new : new = [o EXCEPT !.next = next, !.todo = "none"]
    OBVIOUS
  <2>6. new.kind # "idle" /\ new.next = next
    BY <1>1, <2>2, <2>5 DEF Sound, Operations
  <2>7. op' = [op EXCEPT ![p] = new]
    BY <2>1, <2>3, <2>5
  <2>8. CurrentOpens(new, claimCard')
    BY <2>4, <2>6 DEF CurrentOpens
  <2>9. AloneInv'
    BY <2>2, <2>6, <2>7, <2>8, AloneStep
  <2> QED BY <2>1, <2>9 DEF TimelyOpens
<1>6. CASE Publish(p)
  <2>1. PICK e \in o.next : Append_(e) /\ op' = [op EXCEPT ![p] = [o EXCEPT !.next = @ \ {e}]]
    BY <1>6 DEF Publish, Change
  <2>2. o.kind # "idle"
    BY <1>2, <2>1
  <2> HIDE DEF o
  <2>3. e \in Events
    BY <1>1, DecisionKinds DEF Sound, Operations
  <2>4. PICK new : new = [o EXCEPT !.next = @ \ {e}]
    OBVIOUS
  <2>5. new.kind # "idle" /\ new.next \subseteq o.next
    BY <1>1, <2>2, <2>4 DEF Sound, Operations
  <2>6. op' = [op EXCEPT ![p] = new]
    BY <2>1, <2>4
  <2> QED BY <2>1, <2>2, <2>3, <2>5, <2>6, AppendingAlone DEF o
<1>7. CASE Judge(p)
  <2>1. PICK edges \in SUBSET Judgeable, clashes \in SUBSET Conflicts :
          /\ \A k \in clashes : /\ \E q \in Judgeable : k = {q[1], q[2]}
                                /\ \A e \in edges : e[1] \notin k
          /\ Change(p, [o EXCEPT !.todo = "none",
                       !.next = {ClaimSuperseded(e[1], e[2]) : e \in edges}
                                  \cup {ConflictOpened(k) : k \in clashes}])
    BY <1>7 DEF Judge
  <2>2. o.todo # "none" /\ UNCHANGED <<claimCard, conflictCard>>
    BY <1>7 DEF Judge
  <2>3. o.kind # "idle" /\ \A q \in Slots : q # p => op[q].kind = "idle"
    BY <1>2, <2>2
  <2> HIDE DEF o
  <2>4. PICK next : next = {ClaimSuperseded(e[1], e[2]) : e \in edges}
                             \cup {ConflictOpened(k) : k \in clashes}
    OBVIOUS
  <2>5. ASSUME NEW d \in next, d.kind = "open", NEW x \in d.of
        PROVE  claimCard[x].phase = 1 /\ \A f \in next : f.kind = "supersede" => f.of # x
    <3>1. PICK k \in clashes : d = ConflictOpened(k)
      BY <2>4, <2>5 DEF ClaimSuperseded
    <3>2. x \in k
      BY <2>5, <3>1 DEF ConflictOpened
    <3>3. claimCard[x].phase = 1
      BY <2>1, <3>2 DEF Judgeable, Current
    <3>4. ASSUME NEW f \in next, f.kind = "supersede" PROVE f.of # x
      <4>1. PICK e \in edges : f = ClaimSuperseded(e[1], e[2])
        BY <2>4, <3>4 DEF ConflictOpened
      <4> QED BY <2>1, <3>2, <4>1 DEF ClaimSuperseded
    <3> QED BY <3>3, <3>4
  <2>6. PICK new : new = [o EXCEPT !.todo = "none", !.next = next]
    OBVIOUS
  <2>7. new.kind # "idle" /\ new.next = next
    BY <1>1, <2>3, <2>6 DEF Sound, Operations
  <2>8. op' = [op EXCEPT ![p] = new]
    BY <2>1, <2>4, <2>6 DEF Change
  <2>9. CurrentOpens(new, claimCard')
    BY <2>2, <2>5, <2>7 DEF CurrentOpens
  <2>10. AloneInv'
    BY <2>3, <2>7, <2>8, <2>9, AloneStep
  <2> QED BY <2>2, <2>10 DEF TimelyOpens
<1>8. CASE Finish(p)
  <2>1. op' = [op EXCEPT ![p] = Idle] /\ UNCHANGED <<claimCard, conflictCard>> /\ o.kind # "idle"
    BY <1>8 DEF Finish, Change
  <2>2. CurrentOpens(Idle, claimCard')
    BY DEF CurrentOpens, Idle
  <2>3. AloneInv'
    BY <1>2, <2>1, <2>2, AloneStep
  <2> QED BY <2>1, <2>3 DEF TimelyOpens
<1> QED BY <1>3, <1>4, <1>5, <1>6, <1>7, <1>8 DEF Step

LEMMA StopAlone ==
  ASSUME OneAtATime, TypeOK, AloneInv, (\E p \in Slots : Fail(p)) \/ Crash
  PROVE  AloneInv' /\ TimelyOpens
<1>1. CurrentOpens(Idle, claimCard')
  BY DEF CurrentOpens, Idle
<1>2. CASE \E p \in Slots : Fail(p)
  <2>1. PICK p \in Slots : Fail(p)
    BY <1>2
  <2>2. /\ op' = [op EXCEPT ![p] = Idle] /\ UNCHANGED <<claimCard, conflictCard>>
        /\ op[p].kind # "idle"
    BY <2>1 DEF Fail, Change
  <2>3. AloneInv'
    BY <1>1, <2>2, Solo, AloneStep
  <2> QED BY <2>2, <2>3 DEF TimelyOpens
<1>3. CASE Crash
  <2>1. /\ \A p \in Slots : op'[p] = Idle
        /\ UNCHANGED <<claimCard, conflictCard>>
    BY <1>3 DEF Crash
  <2>2. Idle.kind = "idle"
    BY DEF Idle
  <2>3. (\A p \in Slots : CurrentOpens(op[p], claimCard))'
    BY <1>1, <2>1 DEF CurrentOpens
  <2>4. AloneInv'
    BY <2>1, <2>2, <2>3 DEF AloneInv, AllIdleEmpty
  <2> QED BY <2>1, <2>4 DEF TimelyOpens
<1> QED BY <1>2, <1>3

(* Where one operation runs at a time, on the command line under the       *)
(* store's lock or on a server with one connection, a conflict opens only  *)
(* between claims that are current at that very append.                    *)
THEOREM TimelyConflicts ==
  OneAtATime => (Spec => ConflictsOpenBetweenCurrentClaims)
<1> SUFFICES ASSUME OneAtATime PROVE Spec => ConflictsOpenBetweenCurrentClaims
  OBVIOUS
<1>1. Init => AloneInv
  BY DEF Init, AloneInv, AllIdleEmpty, CurrentOpens, Idle
<1>2. ASSUME TypeOK, AloneInv, [Next]_vars PROVE AloneInv' /\ [TimelyOpens]_vars
  <2>1. CASE UNCHANGED vars
    BY <1>2, <2>1 DEF vars, AloneInv, AllIdleEmpty, CurrentOpens
  <2>2. CASE \E p \in Slots : Start(p)
    BY <1>2, <2>2, StartAlone
  <2>3. CASE \E p \in Slots : Step(p)
    BY <1>2, <2>3, StepAlone
  <2>4. CASE (\E p \in Slots : Fail(p)) \/ Crash
    BY <1>2, <2>4, StopAlone
  <2> QED BY <1>2, <2>1, <2>2, <2>3, <2>4 DEF Next
<1> QED BY <1>1, <1>2, TypeCorrect, PTL DEF Spec, ConflictsOpenBetweenCurrentClaims, TimelyOpens
=============================================================================
