------------------------ MODULE RelateCampaign_proofs ------------------------
(***************************************************************************)
(* Proofs about RelateCampaign, for any number of claims, threads, page    *)
(* sizes, policies and revision orders.                                    *)
(***************************************************************************)
EXTENDS RelateCampaign, FiniteSetTheorems, WellFoundedInduction, TLAPS

USE SizeAssumption, BudgetAssumption, SimilarAssumption, OrderAssumption, OthersAssumption

-----------------------------------------------------------------------------
(* Numbers *)

(* A set of naturals that is not empty has a least member. *)
LEMMA LeastMember ==
  ASSUME NEW S \in SUBSET Nat, S # {}
  PROVE  \E n \in S : \A m \in S : n <= m
<1>1. IsWellFoundedOn(OpToRel(<, Nat), Nat)
  BY NatLessThanWellFounded
<1>2. PICK n \in S : \A m \in S : ~(<<m, n>> \in OpToRel(<, Nat))
  BY <1>1, WFMin
<1>3. \A m \in S : ~(m < n)
  BY <1>2 DEF OpToRel
<1> QED BY <1>3

LEMMA EarliestMember ==
  ASSUME NEW S \in SUBSET Nat, S # {}
  PROVE  Earliest(S) \in S /\ \A m \in S : Earliest(S) <= m
BY LeastMember DEF Earliest

(* There are finitely many pairs. *)
LEMMA PairsFinite ==
  ASSUME NEW S
  PROVE  IsFiniteSet(PairsOf(S)) /\ Total(S) \in Nat
<1>1. IsFiniteSet(Claims)
  BY FS_Interval DEF Claims
<1>2. IsFiniteSet(Claims \X Claims)
  BY <1>1, FS_Product
<1>3. PairsOf(S) \subseteq Claims \X Claims
  BY DEF PairsOf, Pairs
<1>4. IsFiniteSet(PairsOf(S))
  BY <1>2, <1>3, FS_Subset
<1> QED BY <1>4, FS_CardinalityType DEF Total

(* A pair has a slot, and its slot is one of those enumerated. *)
LEMMA OrdinalBound ==
  ASSUME NEW S, NEW q \in PairsOf(S)
  PROVE  Ordinal(S, q) \in Nat /\ Ordinal(S, q) < Total(S)
<1> DEFINE before == {r \in PairsOf(S) : Precedes(r, q)}
<1>1. ~Precedes(q, q)
  BY DEF Precedes, PairsOf, Pairs, Claims
<1>2. before \subseteq PairsOf(S) \ {q}
  BY <1>1
<1>3. /\ IsFiniteSet(PairsOf(S) \ {q})
      /\ Cardinality(PairsOf(S) \ {q}) = Total(S) - 1
  BY PairsFinite, FS_RemoveElement DEF Total
<1>4. IsFiniteSet(before) /\ Cardinality(before) <= Total(S) - 1
  BY <1>2, <1>3, FS_Subset
<1>5. Cardinality(before) \in Nat
  BY <1>4, FS_CardinalityType
<1> QED BY <1>4, <1>5, PairsFinite DEF Ordinal

-----------------------------------------------------------------------------
(* Types *)

LEMMA PairTypes ==
  /\ Pairs \subseteq Directed
  /\ \A d \in Directed : Reverse(d) \in Directed /\ Reverse(Reverse(d)) = d
  /\ \A S : PairsOf(S) \subseteq Pairs
<1>1. Pairs \subseteq Directed
  BY DEF Pairs, Directed, Claims
<1>2. ASSUME NEW d \in Directed PROVE Reverse(d) \in Directed /\ Reverse(Reverse(d)) = d
  <2>1. d = <<d[1], d[2]>> /\ d[1] \in Claims /\ d[2] \in Claims /\ d[1] # d[2]
    BY DEF Directed
  <2> QED BY <2>1 DEF Reverse, Directed
<1>3. \A S : PairsOf(S) \subseteq Pairs
  BY DEF PairsOf
<1> QED BY <1>1, <1>2, <1>3

(* A pass asks about pairs of its page; it orients them and never leaves   *)
(* their slots.                                                            *)
LEMMA PageTypes ==
  ASSUME NEW o \in PreparedPasses
  PROVE  /\ Pending(o) \subseteq PairsOf(o.basis.eligible) \cap Similar[o.policy]
         /\ Live(o) \subseteq Pending(o)
         /\ \A failed : Unresolved(o, failed) \subseteq Pending(o)
         /\ \A q \in Pairs : Oriented(q, o) \in {q, Reverse(q)}
BY DEF Pending, Live, Unresolved, Oriented

LEMMA BasisTypes ==
  ASSUME TypeOK
  PROVE  /\ Basis \in Bases
         /\ \A b \in Bases : \A edges, clashes : AfterPublication(b, edges, clashes) \in Bases
<1>1. Current \subseteq Claims
  BY DEF TypeOK, Current, Claims
<1>2. Basis \in Bases
  BY <1>1 DEF TypeOK, Basis, Bases
<1>3. ASSUME NEW b \in Bases, NEW edges, NEW clashes
      PROVE  AfterPublication(b, edges, clashes) \in Bases
  BY DEF AfterPublication, Bases
<1> QED BY <1>2, <1>3

LEMMA ResumeTypes ==
  ASSUME NEW o \in PreparedPasses, NEW failed
  PROVE  /\ End(o.basis.eligible, o.cursor, o.budget) \in Nat
         /\ Resume(o, failed) \subseteq Nat
<1> DEFINE S == o.basis.eligible
<1>1. o.cursor \in Nat /\ o.budget \in Nat
  BY DEF PreparedPasses
<1>2. End(S, o.cursor, o.budget) \in Nat
  BY <1>1, PairsFinite DEF End, Least
<1>3. \A q \in Unresolved(o, failed) : Ordinal(S, q) \in Nat
  BY PageTypes, OrdinalBound
<1> QED BY <1>2, <1>3 DEF Resume

LEMMA OutcomeTypes ==
  ASSUME TypeOK, NEW o \in PreparedPasses,
         NEW answer \in [Live(o) -> Verdicts \cup {"failed"}]
  PROVE  Outcome(o, answer) \in PublishingPasses
<1> DEFINE failed == {q \in Live(o) : answer[q] = "failed"}
           judgments == {<<Oriented(q, o), answer[q]>> : q \in Live(o) \ failed}
           v == Authority(judgments)
           edges == Edges(v, o.basis)
           clashes == Clashes(v, o.basis, o.known)
           deferrals == {Oriented(q, o) : q \in Unresolved(o, failed)}
           partial == Draft("partial", o.basis, o, Earliest(Resume(o, failed)))
           complete == Draft("complete", AfterPublication(o.basis, edges, clashes), o, 0)
<1>1. \A q \in Pending(o) : Oriented(q, o) \in Directed
  BY PageTypes, PairTypes
<1>2. judgments \subseteq Judgments
  <2>1. \A q \in Live(o) \ failed : answer[q] \in Verdicts
    OBVIOUS
  <2> QED BY <1>1, <2>1, PageTypes DEF Judgments
<1>3. deferrals \subseteq Directed
  BY <1>1, PageTypes
<1>4. edges \subseteq Directed /\ clashes \subseteq Pairs
  BY PairTypes DEF Edges, Clashes
<1>5. o.basis \in Bases /\ o.policy \in Policies
  BY DEF PreparedPasses
<1>6. complete \in Checkpoints
  BY <1>5, BasisTypes DEF Draft, Checkpoints
<1>7. CASE Resume(o, failed) # {}
  <2>1. Earliest(Resume(o, failed)) \in Nat
    BY <1>7, EarliestMember, ResumeTypes
  <2>2. partial \in Checkpoints
    BY <1>5, <2>1 DEF Draft, Checkpoints
  <2>3. Outcome(o, answer) =
          [phase |-> "publishing", judgments |-> judgments, deferrals |-> deferrals,
           edges |-> {}, clashes |-> {}, draft |-> partial]
    BY <1>7 DEF Outcome
  <2> HIDE DEF judgments, deferrals, partial
  <2> QED BY <1>2, <1>3, <2>2, <2>3 DEF PublishingPasses
<1>8. CASE Resume(o, failed) = {}
  <2>1. Outcome(o, answer) =
          [phase |-> "publishing", judgments |-> judgments, deferrals |-> {},
           edges |-> edges, clashes |-> clashes, draft |-> complete]
    BY <1>8 DEF Outcome
  <2> HIDE DEF judgments, edges, clashes, complete
  <2> QED BY <1>2, <1>4, <1>6, <2>1 DEF PublishingPasses
<1> QED BY <1>7, <1>8

Passes == {Idle} \cup PreparedPasses \cup PublishingPasses

(* The phase tells what a pass holds. *)
LEMMA Phases ==
  ASSUME NEW o \in Passes
  PROVE  /\ o.phase = "prepared" => o \in PreparedPasses
         /\ o.phase = "publishing" => o \in PublishingPasses
         /\ o = Idle => o.phase = "idle"
BY DEF Passes, Idle, PreparedPasses, PublishingPasses

LEMMA OnePass ==
  ASSUME TypeOK, NEW t \in Threads, NEW o \in Passes, pass' = [pass EXCEPT ![t] = o]
  PROVE  /\ pass' \in [Threads -> Passes]
         /\ pass'[t] = o
         /\ \A u \in Threads : u # t => pass'[u] = pass[u]
BY DEF TypeOK, Passes

LEMMA JudgedTypes ==
  ASSUME TypeOK, NEW d \in Directed, NEW w \in Verdicts, OnJudged(d, w)
  PROVE  /\ verdict' \in [Directed -> Verdicts \cup {"none"}]
         /\ contested' \subseteq Directed
         /\ verdict'[d] # "none"
         /\ \A e \in Directed : verdict[e] # "none" => verdict'[e] = verdict[e]
<1>1. "none" \notin Verdicts
  BY DEF Verdicts
<1> QED BY <1>1 DEF TypeOK, OnJudged

(* What the pass of a thread becomes, action by action *)
LEMMA PassTypes ==
  ASSUME TypeOK, NEW t \in Threads
  PROVE  /\ \A budget \in Budgets, rejudge \in BOOLEAN :
              Prepare(t, budget, rejudge) => pass' \in [Threads -> Passes]
         /\ \A d \in Directed, w \in Verdicts :
              Rejudge(t, d, w) => pass' \in [Threads -> Passes]
         /\ Evaluate(t, Verdicts \cup {"failed"}) => pass' \in [Threads -> Passes]
         /\ Append(t) => pass' \in [Threads -> Passes]
<1>1. pass[t] \in Passes
  BY DEF TypeOK, Passes
<1>2. ASSUME NEW budget \in Budgets, NEW rejudge \in BOOLEAN, Prepare(t, budget, rejudge)
      PROVE  pass' \in [Threads -> Passes]
  <2> DEFINE known == {q \in Pairs : dispute[q] # "none"}
             o == [phase |-> "prepared", basis |-> Basis, policy |-> policy,
                   cursor |-> Start, budget |-> budget, known |-> known,
                   rejudge |-> rejudge, settled |-> GateComplete]
  <2>1. Start \in Nat
    BY DEF TypeOK, Start, Matches, Checkpoints, NoCheckpoint
  <2>2. GateComplete \in BOOLEAN
    BY DEF GateComplete, Matches
  <2>3. policy \in Policies /\ known \in SUBSET Pairs
    BY DEF TypeOK
  <2>4. pass' = [pass EXCEPT ![t] = o]
    BY <1>2 DEF Prepare
  <2>5. o \in PreparedPasses
    <3> HIDE DEF known
    <3> QED BY <2>1, <2>2, <2>3, BasisTypes DEF PreparedPasses
  <2> HIDE DEF o
  <2> QED BY <2>4, <2>5, OnePass DEF Passes
<1>3. ASSUME NEW d \in Directed, NEW w \in Verdicts, Rejudge(t, d, w)
      PROVE  pass' \in [Threads -> Passes]
  <2> DEFINE o == pass[t]
             done == [phase |-> "publishing", judgments |-> {}, deferrals |-> {},
                      edges |-> {}, clashes |-> {},
                      draft |-> Draft("complete", o.basis, o, 0)]
             next == [o EXCEPT !.rejudge = FALSE]
  <2>1. o \in PreparedPasses
    BY <1>1, <1>3, Phases DEF Rejudge, Recheckpointed
  <2>2. done \in PublishingPasses
    <3>1. Draft("complete", o.basis, o, 0) \in Checkpoints
      BY <2>1 DEF Draft, Checkpoints, PreparedPasses
    <3> QED BY <3>1 DEF PublishingPasses
  <2>3. next \in PreparedPasses
    BY <2>1 DEF PreparedPasses
  <2>4. pass' = [pass EXCEPT ![t] = IF o.settled THEN done ELSE next]
    BY <1>3 DEF Rejudge, Recheckpointed
  <2> HIDE DEF done, next
  <2> QED BY <2>2, <2>3, <2>4, OnePass DEF Passes
<1>4. ASSUME Evaluate(t, Verdicts \cup {"failed"})
      PROVE  pass' \in [Threads -> Passes]
  <2>1. pass[t] \in PreparedPasses
    BY <1>1, <1>4, Phases DEF Evaluate, AnswersTo
  <2>2. PICK answer \in [Live(pass[t]) -> Verdicts \cup {"failed"}] :
          pass' = [pass EXCEPT ![t] = Outcome(pass[t], answer)]
    BY <1>4 DEF Evaluate, AnswersTo
  <2>3. Outcome(pass[t], answer) \in Passes
    BY <2>1, OutcomeTypes DEF Passes
  <2> QED BY <2>2, <2>3, OnePass
<1>5. ASSUME Append(t)
      PROVE  pass' \in [Threads -> Passes]
  <2> DEFINE o == pass[t]
  <2>1. o \in PublishingPasses
    BY <1>1, <1>5, Phases DEF Append, AppendJudgment, AppendDeferral, AppendEdge, AppendClash, AppendCheckpoint
  <2>2. CASE AppendJudgment(t)
    <3>1. PICK j \in o.judgments : pass' = [pass EXCEPT ![t] = [o EXCEPT !.judgments = @ \ {j}]]
      BY <2>2, <1>1 DEF AppendJudgment, TypeOK
    <3>2. [o EXCEPT !.judgments = @ \ {j}] \in PublishingPasses
      BY <2>1 DEF PublishingPasses
    <3> QED BY <3>1, <3>2, OnePass DEF Passes
  <2>3. CASE AppendDeferral(t)
    <3>1. PICK d \in o.deferrals : pass' = [pass EXCEPT ![t] = [o EXCEPT !.deferrals = @ \ {d}]]
      BY <2>3, <1>1 DEF AppendDeferral, TypeOK
    <3>2. [o EXCEPT !.deferrals = @ \ {d}] \in PublishingPasses
      BY <2>1 DEF PublishingPasses
    <3> QED BY <3>1, <3>2, OnePass DEF Passes
  <2>4. CASE AppendEdge(t)
    <3>1. PICK e \in o.edges : pass' = [pass EXCEPT ![t] = [o EXCEPT !.edges = @ \ {e}]]
      BY <2>4, <1>1 DEF AppendEdge, TypeOK
    <3>2. [o EXCEPT !.edges = @ \ {e}] \in PublishingPasses
      BY <2>1 DEF PublishingPasses
    <3> QED BY <3>1, <3>2, OnePass DEF Passes
  <2>5. CASE AppendClash(t)
    <3>1. PICK q \in o.clashes : pass' = [pass EXCEPT ![t] = [o EXCEPT !.clashes = @ \ {q}]]
      BY <2>5, <1>1 DEF AppendClash, TypeOK
    <3>2. [o EXCEPT !.clashes = @ \ {q}] \in PublishingPasses
      BY <2>1 DEF PublishingPasses
    <3> QED BY <3>1, <3>2, OnePass DEF Passes
  <2>6. CASE AppendCheckpoint(t)
    BY <2>6, OnePass DEF AppendCheckpoint, Passes
  <2> QED BY <1>5, <2>2, <2>3, <2>4, <2>5, <2>6 DEF Append
<1> QED BY <1>2, <1>3, <1>4, <1>5

(* Every step keeps the types. *)
LEMMA TypeInductive == TypeOK /\ [Next]_vars => TypeOK'
<1> SUFFICES ASSUME TypeOK, [Next]_vars PROVE TypeOK'
  OBVIOUS
<1> USE DEF ledger, settings, settlement
<1>1. ASSUME pass' \in [Threads -> Passes],
             recorded' \in 0..N, successor' \in [Claims -> 0..N],
             dispute' \in [Pairs -> {"none", "open", "settled"}],
             verdict' \in [Directed -> Verdicts \cup {"none"}],
             contested' \subseteq Directed, deferred' \subseteq Directed,
             index' \in Indexes, policy' \in Policies,
             checkpoint' \in Checkpoints \cup {NoCheckpoint}, lost' \subseteq Claims
      PROVE  TypeOK'
  BY <1>1 DEF TypeOK, Passes
<1>2. \A t \in Threads : pass[t] \in Passes
  BY DEF TypeOK, Passes
<1>3. \A t \in Threads : Dropped(pass[t]) \subseteq Claims
  <2> TAKE t \in Threads
  <2>1. CASE pass[t].phase = "publishing"
    <3>1. pass[t].edges \subseteq Directed
      BY <2>1, <1>2, Phases DEF PublishingPasses
    <3> QED BY <2>1, <3>1 DEF Dropped, Directed
  <2>2. CASE pass[t].phase # "publishing"
    BY <2>2 DEF Dropped
  <2> QED BY <2>1, <2>2
<1>4. ASSUME NEW t \in Threads, Pass(t) PROVE TypeOK'
  <2>1. CASE \E budget \in Budgets, rejudge \in BOOLEAN : Prepare(t, budget, rejudge)
    <3>1. pass' \in [Threads -> Passes]
      BY <2>1, PassTypes
    <3> QED BY <1>1, <2>1, <3>1 DEF Prepare, TypeOK
  <2>2. CASE \E d \in Directed, w \in Verdicts : Rejudge(t, d, w)
    <3>1. PICK d \in Directed, w \in Verdicts : Rejudge(t, d, w)
      BY <2>2
    <3>2. pass' \in [Threads -> Passes]
      BY <3>1, PassTypes
    <3>3. OnJudged(d, w)
      BY <3>1 DEF Rejudge, Recheckpointed
    <3>4. verdict' \in [Directed -> Verdicts \cup {"none"}] /\ contested' \subseteq Directed
      BY <3>3, JudgedTypes
    <3> QED BY <1>1, <3>1, <3>2, <3>4 DEF Rejudge, Recheckpointed, TypeOK
  <2>3. CASE Evaluate(t, Verdicts \cup {"failed"})
    <3>1. pass' \in [Threads -> Passes]
      BY <2>3, PassTypes
    <3> QED BY <1>1, <2>3, <3>1 DEF Evaluate, AnswersTo, TypeOK
  <2>4. CASE Append(t)
    <3> DEFINE o == pass[t]
    <3>1. pass' \in [Threads -> Passes]
      BY <2>4, PassTypes
    <3>2. o \in PublishingPasses
      BY <1>2, <2>4, Phases DEF Append, AppendJudgment, AppendDeferral, AppendEdge, AppendClash, AppendCheckpoint
    <3>3. CASE AppendJudgment(t)
      <4>1. PICK j \in o.judgments : OnJudged(j[1], j[2])
        BY <3>3 DEF AppendJudgment
      <4>2. j[1] \in Directed /\ j[2] \in Verdicts
        BY <3>2 DEF PublishingPasses, Judgments
      <4>3. verdict' \in [Directed -> Verdicts \cup {"none"}] /\ contested' \subseteq Directed
        BY <4>1, <4>2, JudgedTypes
      <4> QED BY <1>1, <3>1, <3>3, <4>3 DEF AppendJudgment, TypeOK
    <3>4. CASE AppendDeferral(t)
      <4>1. deferred' \subseteq Directed
        BY <3>2, <3>4 DEF AppendDeferral, PublishingPasses, TypeOK
      <4> QED BY <1>1, <3>1, <3>4, <4>1 DEF AppendDeferral, TypeOK
    <3>5. CASE AppendEdge(t)
      <4>1. PICK e \in o.edges : successor' = [successor EXCEPT ![e[1]] = IF @ = 0 THEN e[2] ELSE @]
        BY <3>5 DEF AppendEdge
      <4>2. e[1] \in Claims /\ e[2] \in 0..N
        BY <3>2 DEF PublishingPasses, Directed, Claims
      <4>3. successor' \in [Claims -> 0..N]
        BY <4>1, <4>2 DEF TypeOK
      <4> QED BY <1>1, <3>1, <3>5, <4>3 DEF AppendEdge, TypeOK
    <3>6. CASE AppendClash(t)
      <4>1. dispute' \in [Pairs -> {"none", "open", "settled"}]
        BY <3>2, <3>6 DEF AppendClash, PublishingPasses, TypeOK
      <4> QED BY <1>1, <3>1, <3>6, <4>1 DEF AppendClash, TypeOK
    <3>7. CASE AppendCheckpoint(t)
      <4>1. checkpoint' \in Checkpoints
        BY <3>2, <3>7 DEF AppendCheckpoint, PublishingPasses
      <4> QED BY <1>1, <3>1, <3>7, <4>1 DEF AppendCheckpoint, TypeOK
    <3> QED BY <2>4, <3>3, <3>4, <3>5, <3>6, <3>7 DEF Append
  <2>5. CASE Fail(t)
    <3>1. pass' \in [Threads -> Passes]
      BY <2>5, OnePass DEF Fail, Passes
    <3>2. lost' \subseteq Claims
      BY <1>3, <2>5 DEF Fail, TypeOK
    <3> QED BY <1>1, <2>5, <3>1, <3>2 DEF Fail, TypeOK
  <2> QED BY <1>4, <2>1, <2>2, <2>3, <2>4, <2>5 DEF Pass
<1>5. CASE Crash
  <2>1. pass' \in [Threads -> Passes]
    BY <1>5 DEF Crash, Passes
  <2>2. lost' \subseteq Claims
    BY <1>3, <1>5 DEF Crash, TypeOK
  <2> QED BY <1>1, <1>5, <2>1, <2>2 DEF Crash, TypeOK
<1>6. CASE Other
  <2>1. pass' = pass
    BY <1>6 DEF Other, Record, Supersede, Open, Settle, IndexSources, Configure
  <2>2. CASE Record
    BY <1>1, <2>1, <2>2 DEF Record, TypeOK, Passes
  <2>3. CASE \E old, new \in Claims : Supersede(old, new)
    <3>1. PICK old \in Claims, new \in Claims : Supersede(old, new)
      BY <2>3
    <3>2. successor' \in [Claims -> 0..N]
      BY <3>1 DEF Supersede, TypeOK, Claims
    <3> QED BY <1>1, <2>1, <3>1, <3>2 DEF Supersede, TypeOK, Passes
  <2>4. CASE \E q \in Pairs : Open(q) \/ Settle(q)
    BY <1>1, <2>1, <2>4 DEF Open, Settle, TypeOK, Passes
  <2>5. CASE IndexSources
    <3>1. index' \in Indexes
      BY <2>5 DEF IndexSources, TypeOK, Indexes
    <3> QED BY <1>1, <2>1, <2>5, <3>1 DEF IndexSources, TypeOK, Passes
  <2>6. CASE Configure
    BY <1>1, <2>1, <2>6 DEF Configure, TypeOK, Passes
  <2> QED BY <1>6, <2>2, <2>3, <2>4, <2>5, <2>6 DEF Other
<1>7. CASE UNCHANGED vars
  BY <1>7 DEF vars, TypeOK
<1> QED BY <1>4, <1>5, <1>6, <1>7 DEF Next

LEMMA TypeInit == Init => TypeOK
BY DEF Init, TypeOK, Indexes, Claims

(* Every variable keeps the shape the journal's folds give it, for any     *)
(* number of claims and threads.                                           *)
THEOREM TypeCorrect == Spec => []TypeOK
BY TypeInit, TypeInductive, PTL DEF Spec

-----------------------------------------------------------------------------
(* Authority *)

LEMMA AuthorityStays ==
  ASSUME TypeOK, [Next]_vars
  PROVE  \A d \in Directed : verdict[d] # "none" => verdict'[d] = verdict[d]
<1> USE DEF ledger, settings, settlement
<1>1. CASE \E t \in Threads : AppendJudgment(t)
  <2>0. PICK t \in Threads : AppendJudgment(t)
    BY <1>1
  <2>1. PICK j \in pass[t].judgments :
          pass[t].phase = "publishing" /\ OnJudged(j[1], j[2])
    BY <2>0 DEF AppendJudgment
  <2>2. j[1] \in Directed /\ j[2] \in Verdicts
    BY <2>1, Phases DEF TypeOK, Passes, PublishingPasses, Judgments
  <2> QED BY <2>1, <2>2, JudgedTypes
<1>2. CASE \E t \in Threads, d \in Directed, w \in Verdicts : Rejudge(t, d, w)
  BY <1>2, JudgedTypes DEF Rejudge, Recheckpointed
<1>3. CASE verdict' = verdict
  BY <1>3
<1>4. \/ \E t \in Threads : AppendJudgment(t)
      \/ \E t \in Threads, d \in Directed, w \in Verdicts : Rejudge(t, d, w)
      \/ verdict' = verdict
  BY DEF Next, Pass, Prepare, Evaluate, AnswersTo, Append, AppendDeferral, AppendEdge, AppendClash,
         AppendCheckpoint, Fail, Crash, Other, Record, Supersede, Open, Settle,
         IndexSources, Configure, vars
<1> QED BY <1>1, <1>2, <1>3, <1>4

(* The journaled judgment of a pair never changes, however often and by    *)
(* however many threads the pair is judged (SettlementCard::on_judged).    *)
THEOREM AuthorityForever == Spec => AuthorityIsForever
<1>1. TypeOK /\ [Next]_vars =>
        [\A d \in Directed : verdict[d] # "none" => verdict'[d] = verdict[d]]_vars
  BY AuthorityStays
<1> QED BY <1>1, TypeCorrect, PTL DEF Spec, AuthorityIsForever

-----------------------------------------------------------------------------
(* What a checkpoint stands for: every candidate pair before its cursor    *)
(* has a judgment.                                                         *)

Candidates(b, p) == PairsOf(b.eligible) \cap Similar[p]

Answered(q, judgments) == Judged(q) \/ \E j \in judgments : j[1] \in {q, Reverse(q)}

Covers(c, q) == c.phase = "complete" \/ Ordinal(c.basis.eligible, q) < c.cursor

Holds(c, judgments) ==
  \A q \in Candidates(c.basis, c.policy) : Covers(c, q) => Answered(q, judgments)

CheckpointHolds == checkpoint # NoCheckpoint => Holds(checkpoint, {})

PreparedHolds(o) ==
  \A q \in Candidates(o.basis, o.policy) :
    o.settled \/ Ordinal(o.basis.eligible, q) < o.cursor => Judged(q)

(* A prepared pass took up such a checkpoint, and what a publishing pass   *)
(* drafted is one as soon as its judgments are in the journal.             *)
PassHolds(t) ==
  /\ pass[t].phase = "prepared" => PreparedHolds(pass[t])
  /\ pass[t].phase = "publishing" => Holds(pass[t].draft, pass[t].judgments)

Coverage == CheckpointHolds /\ \A t \in Threads : PassHolds(t)

LEMMA CandidateTypes ==
  ASSUME NEW b, NEW p, NEW q \in Candidates(b, p)
  PROVE  q \in PairsOf(b.eligible) /\ q \in Pairs /\ q \in Directed /\ Reverse(q) \in Directed
BY PairTypes DEF Candidates

(* Judged pairs stay judged. *)
LEMMA JudgedStays ==
  ASSUME TypeOK, [Next]_vars, NEW q \in Directed, Judged(q)
  PROVE  Judged(q)'
<1>1. Reverse(q) \in Directed
  BY PairTypes
<1> QED BY <1>1, AuthorityStays DEF Judged

LEMMA HoldsStays ==
  ASSUME TypeOK, [Next]_vars
  PROVE  /\ \A c, j : Holds(c, j) => Holds(c, j)'
         /\ \A o : PreparedHolds(o) => PreparedHolds(o)'
BY CandidateTypes, JudgedStays DEF Holds, Answered, Covers, PreparedHolds

(* A pass that took up a checkpoint drafts one: each pair of its page is   *)
(* judged already, answered now, or keeps the next page from passing it.   *)
LEMMA OutcomeHolds ==
  ASSUME TypeOK, NEW o \in PreparedPasses, PreparedHolds(o),
         NEW answer \in [Live(o) -> Verdicts \cup {"failed"}]
  PROVE  Holds(Outcome(o, answer).draft, Outcome(o, answer).judgments)
<1> DEFINE S == o.basis.eligible
           failed == {q \in Live(o) : answer[q] = "failed"}
           judgments == {<<Oriented(q, o), answer[q]>> : q \in Live(o) \ failed}
           v == Authority(judgments)
           edges == Edges(v, o.basis)
           clashes == Clashes(v, o.basis, o.known)
           last == End(S, o.cursor, o.budget)
           resume == Resume(o, failed)
           outcome == Outcome(o, answer)
<1>1. o.cursor \in Nat /\ o.budget \in Nat /\ last \in Nat /\ resume \subseteq Nat /\ Total(S) \in Nat
  BY ResumeTypes, PairsFinite DEF PreparedPasses
<1>2. ASSUME NEW q \in Candidates(o.basis, o.policy), ~Answered(q, judgments)
      PROVE  \E n \in resume : n <= Ordinal(S, q)
  <2> DEFINE n == Ordinal(S, q)
  <2>1. n \in Nat /\ n < Total(S)
    BY <1>2, CandidateTypes, OrdinalBound
  <2>2. ~Judged(q)
    BY <1>2 DEF Answered
  <2>3. o.cursor <= n
    BY <1>1, <2>1, <2>2 DEF PreparedHolds
  <2>4. CASE n < last
    <3>1. q \in Pending(o)
      BY <2>3, <2>4 DEF Pending, Candidates
    <3>2. q \notin Live(o) \ failed
      <4> SUFFICES ASSUME q \in Live(o) \ failed PROVE FALSE
        OBVIOUS
      <4>1. Oriented(q, o) \in {q, Reverse(q)}
        BY <1>2, PageTypes, CandidateTypes
      <4>2. <<Oriented(q, o), answer[q]>> \in judgments
        OBVIOUS
      <4>3. \E j \in judgments : j[1] \in {q, Reverse(q)}
        <5> HIDE DEF judgments
        <5> QED BY <4>1, <4>2
      <4> QED BY <1>2, <4>3 DEF Answered
    <3> HIDE DEF failed
    <3>3. q \in Unresolved(o, failed)
      BY <2>2, <3>1, <3>2 DEF Unresolved
    <3>4. n \in resume
      BY <3>3 DEF Resume
    <3> HIDE DEF n, resume
    <3>5. n \in resume /\ n <= n
      BY <2>1, <3>4
    <3> QED BY <3>5 DEF n
  <2>5. CASE ~(n < last)
    <3>1. last < Total(S)
      BY <1>1, <2>1, <2>5
    <3>2. last \in resume
      BY <3>1 DEF Resume
    <3>3. last <= n
      BY <1>1, <2>1, <2>5
    <3> HIDE DEF last, resume
    <3> QED BY <3>2, <3>3
  <2> QED BY <2>4, <2>5
<1>3. CASE resume # {}
  <2>1. \A n \in resume : Earliest(resume) <= n /\ Earliest(resume) \in Nat
    BY <1>1, <1>3, EarliestMember
  <2>2. /\ outcome.judgments = judgments
        /\ outcome.draft = Draft("partial", o.basis, o, Earliest(resume))
    BY <1>3 DEF Outcome
  <2>3. /\ outcome.draft.phase = "partial"
        /\ outcome.draft.basis = o.basis
        /\ outcome.draft.policy = o.policy
        /\ outcome.draft.cursor = Earliest(resume)
    BY <2>2 DEF Draft
  <2>4. ASSUME NEW q \in Candidates(o.basis, o.policy), Ordinal(S, q) < Earliest(resume)
        PROVE  Answered(q, judgments)
    <3>1. Ordinal(S, q) \in Nat
      BY CandidateTypes, OrdinalBound
    <3> HIDE DEF judgments, resume
    <3> QED BY <1>1, <1>2, <2>1, <2>4, <3>1
  <2> HIDE DEF judgments, resume
  <2> QED BY <2>2, <2>3, <2>4 DEF Holds, Covers
<1>4. CASE resume = {}
  <2>1. /\ outcome.judgments = judgments
        /\ outcome.draft = Draft("complete", AfterPublication(o.basis, edges, clashes), o, 0)
    BY <1>4 DEF Outcome
  <2>2. /\ outcome.draft.basis.eligible \subseteq S
        /\ outcome.draft.policy = o.policy
    BY <2>1 DEF Draft, AfterPublication, PreparedPasses, Bases
  <2>3. \A q \in Candidates(outcome.draft.basis, outcome.draft.policy) :
          q \in Candidates(o.basis, o.policy)
    BY <2>2 DEF Candidates, PairsOf
  <2> HIDE DEF judgments, resume
  <2> QED BY <1>2, <1>4, <2>1, <2>3 DEF Holds
<1> QED BY <1>3, <1>4

(* A pass takes up only a checkpoint of its own basis. *)
LEMMA PreparedFromCheckpoint ==
  ASSUME TypeOK, CheckpointHolds, NEW t \in Threads, NEW budget, NEW rejudge,
         Prepare(t, budget, rejudge)
  PROVE  PreparedHolds(pass'[t])
<1>1. /\ pass'[t].basis = Basis
      /\ pass'[t].policy = policy
      /\ pass'[t].cursor = Start
      /\ pass'[t].settled = GateComplete
  BY DEF Prepare, TypeOK
<1>2. SUFFICES ASSUME NEW q \in Candidates(Basis, policy),
                      GateComplete \/ Ordinal(Basis.eligible, q) < Start
               PROVE  Judged(q)
  BY <1>1 DEF PreparedHolds
<1>3. Ordinal(Basis.eligible, q) \in Nat
  BY CandidateTypes, OrdinalBound
<1>4. Matches
  <2>1. CASE Start # 0
    BY <2>1 DEF Start
  <2>2. CASE Start = 0
    BY <1>2, <1>3, <2>2 DEF GateComplete
  <2> QED BY <2>1, <2>2
<1>5. checkpoint # NoCheckpoint /\ checkpoint.basis = Basis /\ checkpoint.policy = policy
  BY <1>4 DEF Matches, NoCheckpoint
<1>6. Covers(checkpoint, q)
  BY <1>2, <1>3, <1>5 DEF Covers, GateComplete, Start
<1> QED BY <1>5, <1>6 DEF CheckpointHolds, Holds, Answered

(* An append keeps what a publishing pass drafted: the judgment it takes   *)
(* off the list is in the journal.                                         *)
LEMMA AppendHolds ==
  ASSUME TypeOK, [Next]_vars, NEW t \in Threads, PassHolds(t), Append(t)
  PROVE  PassHolds(t)'
<1> DEFINE o == pass[t]
<1>0. o \in PublishingPasses /\ o.phase = "publishing" /\ t \in DOMAIN pass
  BY Phases DEF TypeOK, Passes, Append, AppendJudgment, AppendDeferral, AppendEdge, AppendClash, AppendCheckpoint
<1>1. CASE AppendJudgment(t)
  <2>1. PICK j \in o.judgments :
          OnJudged(j[1], j[2]) /\ pass' = [pass EXCEPT ![t].judgments = @ \ {j}]
    BY <1>1 DEF AppendJudgment
  <2>2. /\ pass'[t].phase = "publishing"
        /\ pass'[t].draft = o.draft
        /\ pass'[t].judgments = o.judgments \ {j}
    BY <1>0, <2>1 DEF PublishingPasses
  <2>3. j[1] \in Directed /\ j[2] \in Verdicts
    BY <1>0 DEF PublishingPasses, Judgments
  <2>4. verdict'[j[1]] # "none"
    BY <2>1, <2>3, JudgedTypes
  <2>5. ASSUME NEW q \in Candidates(o.draft.basis, o.draft.policy), Covers(o.draft, q)
        PROVE  Judged(q)' \/ \E k \in o.judgments \ {j} : k[1] \in {q, Reverse(q)}
    <3>1. Answered(q, o.judgments)
      BY <1>0, <2>5 DEF PassHolds, Holds
    <3>2. CASE Judged(q)
      BY <3>2, JudgedStays, CandidateTypes
    <3>3. CASE j[1] \in {q, Reverse(q)}
      BY <2>4, <3>3 DEF Judged
    <3> QED BY <3>1, <3>2, <3>3 DEF Answered
  <2> QED BY <2>2, <2>5 DEF PassHolds, Holds, Answered, Covers
<1>2. CASE AppendDeferral(t) \/ AppendEdge(t) \/ AppendClash(t)
  <2>1. /\ pass'[t].phase = "publishing"
        /\ pass'[t].draft = o.draft
        /\ pass'[t].judgments = o.judgments
    BY <1>0, <1>2 DEF AppendDeferral, AppendEdge, AppendClash, PublishingPasses
  <2>2. ASSUME NEW q \in Candidates(o.draft.basis, o.draft.policy), Covers(o.draft, q)
        PROVE  Judged(q)' \/ \E k \in o.judgments : k[1] \in {q, Reverse(q)}
    BY <1>0, <2>2, JudgedStays, CandidateTypes DEF PassHolds, Holds, Answered
  <2> QED BY <2>1, <2>2 DEF PassHolds, Holds, Answered, Covers
<1>3. CASE AppendCheckpoint(t)
  BY <1>0, <1>3 DEF AppendCheckpoint, PassHolds, Idle
<1> QED BY <1>1, <1>2, <1>3 DEF Append

LEMMA CoverageInductive ==
  ASSUME TypeOK, Coverage, [Next]_vars
  PROVE  Coverage'
<1> USE DEF ledger, settings, settlement
<1>0. \A t \in Threads : pass[t] \in Passes /\ t \in DOMAIN pass
  BY DEF TypeOK, Passes
<1>1. ASSUME NEW u \in Threads, pass'[u] = pass[u] \/ pass'[u] = Idle
      PROVE  PassHolds(u)'
  <2>1. CASE pass'[u] = Idle
    BY <2>1 DEF PassHolds, Idle
  <2>2. CASE pass'[u] = pass[u]
    <3>1. PassHolds(u)
      BY DEF Coverage
    <3>2. ASSUME pass[u].phase = "prepared", NEW q \in Candidates(pass[u].basis, pass[u].policy),
                 pass[u].settled \/ Ordinal(pass[u].basis.eligible, q) < pass[u].cursor
          PROVE  Judged(q)'
      BY <3>1, <3>2, JudgedStays, CandidateTypes DEF PassHolds, PreparedHolds
    <3>3. ASSUME pass[u].phase = "publishing",
                 NEW q \in Candidates(pass[u].draft.basis, pass[u].draft.policy),
                 Covers(pass[u].draft, q)
          PROVE  Judged(q)' \/ \E j \in pass[u].judgments : j[1] \in {q, Reverse(q)}
      BY <3>1, <3>3, JudgedStays, CandidateTypes DEF PassHolds, Holds, Answered
    <3> QED BY <2>2, <3>2, <3>3 DEF PassHolds, PreparedHolds, Holds, Answered, Covers
  <2> QED BY <1>1, <2>1, <2>2
<1>2. ASSUME checkpoint' = checkpoint
      PROVE  CheckpointHolds'
  <2>1. ASSUME checkpoint # NoCheckpoint,
               NEW q \in Candidates(checkpoint.basis, checkpoint.policy), Covers(checkpoint, q)
        PROVE  Judged(q)'
    BY <2>1, JudgedStays, CandidateTypes DEF Coverage, CheckpointHolds, Holds, Answered
  <2> QED BY <1>2, <2>1 DEF CheckpointHolds, Holds, Answered, Covers, NoCheckpoint
<1>3. ASSUME NEW t \in Threads, Pass(t)
      PROVE  Coverage'
  <2>1. \A u \in Threads : u # t => pass'[u] = pass[u]
    BY <1>3 DEF Pass, Prepare, Rejudge, Recheckpointed, Evaluate, AnswersTo, Append, AppendJudgment, AppendDeferral,
                AppendEdge, AppendClash, AppendCheckpoint, Fail, TypeOK
  <2>2. PassHolds(t)' /\ CheckpointHolds' => Coverage'
    BY <1>1, <2>1 DEF Coverage
  <2>3. CASE \E budget \in Budgets, rejudge \in BOOLEAN : Prepare(t, budget, rejudge)
    <3>1. PICK budget \in Budgets, rejudge \in BOOLEAN : Prepare(t, budget, rejudge)
      BY <2>3
    <3>2. PreparedHolds(pass'[t])
      BY <3>1, PreparedFromCheckpoint DEF Coverage
    <3>3. pass'[t].phase = "prepared" /\ verdict' = verdict /\ checkpoint' = checkpoint
      BY <1>0, <3>1 DEF Prepare
    <3>4. PassHolds(t)'
      BY <3>2, <3>3 DEF PassHolds, PreparedHolds, Judged
    <3> QED BY <1>2, <2>2, <3>3, <3>4
  <2>4. CASE \E d \in Directed, w \in Verdicts : Rejudge(t, d, w)
    <3> DEFINE o == pass[t]
    <3>1. PICK d \in Directed, w \in Verdicts : Rejudge(t, d, w)
      BY <2>4
    <3>2. o \in PreparedPasses /\ PreparedHolds(o) /\ checkpoint' = checkpoint
      BY <1>0, <3>1, Phases DEF Rejudge, Recheckpointed, Coverage, PassHolds
    <3>3. CASE o.settled
      <4>1. /\ pass'[t].phase = "publishing"
            /\ pass'[t].draft.basis = o.basis
            /\ pass'[t].draft.policy = o.policy
            /\ pass'[t].judgments = {}
        BY <1>0, <3>1, <3>3 DEF Rejudge, Recheckpointed, Draft
      <4>2. ASSUME NEW q \in Candidates(o.basis, o.policy) PROVE Judged(q)'
        BY <3>2, <3>3, JudgedStays, CandidateTypes DEF PreparedHolds
      <4>3. PassHolds(t)'
        BY <4>1, <4>2 DEF PassHolds, Holds, Answered
      <4> QED BY <1>2, <2>2, <3>2, <4>3
    <3>4. CASE ~o.settled
      <4>1. /\ pass'[t].phase = "prepared" /\ pass'[t].basis = o.basis
            /\ pass'[t].policy = o.policy /\ pass'[t].cursor = o.cursor
            /\ pass'[t].settled = o.settled
        BY <1>0, <3>1, <3>2, <3>4 DEF Rejudge, Recheckpointed, PreparedPasses
      <4>2. ASSUME NEW q \in Candidates(o.basis, o.policy),
                   o.settled \/ Ordinal(o.basis.eligible, q) < o.cursor
            PROVE  Judged(q)'
        BY <3>2, <4>2, JudgedStays, CandidateTypes DEF PreparedHolds
      <4>3. PassHolds(t)'
        BY <4>1, <4>2 DEF PassHolds, PreparedHolds
      <4> QED BY <1>2, <2>2, <3>2, <4>3
    <3> QED BY <3>3, <3>4
  <2>5. CASE Evaluate(t, Verdicts \cup {"failed"})
    <3> DEFINE o == pass[t]
    <3>1. o \in PreparedPasses /\ PreparedHolds(o) /\ checkpoint' = checkpoint /\ verdict' = verdict
      BY <1>0, <2>5, Phases DEF Evaluate, AnswersTo, Coverage, PassHolds
    <3>2. PICK answer \in [Live(o) -> Verdicts \cup {"failed"}] :
            pass' = [pass EXCEPT ![t] = Outcome(o, answer)]
      BY <2>5 DEF Evaluate, AnswersTo
    <3>3. Holds(pass'[t].draft, pass'[t].judgments) /\ pass'[t].phase = "publishing"
      <4>1. pass'[t] = Outcome(o, answer)
        BY <1>0, <3>2
      <4>2. Outcome(o, answer) \in PublishingPasses
        BY <3>1, OutcomeTypes
      <4> QED BY <3>1, <4>1, <4>2, OutcomeHolds DEF PublishingPasses
    <3>4. PassHolds(t)'
      BY <3>1, <3>3 DEF PassHolds, Holds, Answered, Judged, Covers
    <3> QED BY <1>2, <2>2, <3>1, <3>4
  <2>6. CASE Append(t)
    <3>1. PassHolds(t)'
      BY <2>6, AppendHolds DEF Coverage
    <3>2. CASE AppendCheckpoint(t)
      <4>1. /\ pass[t].phase = "publishing" /\ pass[t].judgments = {}
            /\ checkpoint' = pass[t].draft /\ verdict' = verdict
        BY <3>2 DEF AppendCheckpoint
      <4>2. Holds(pass[t].draft, {})
        BY <4>1 DEF Coverage, PassHolds
      <4>3. CheckpointHolds'
        BY <4>1, <4>2 DEF CheckpointHolds, Holds, Answered, Judged, Covers
      <4> QED BY <2>2, <3>1, <4>3
    <3>3. CASE ~AppendCheckpoint(t)
      <4>1. checkpoint' = checkpoint
        BY <2>6, <3>3 DEF Append, AppendJudgment, AppendDeferral, AppendEdge, AppendClash
      <4> QED BY <1>2, <2>2, <3>1, <4>1
    <3> QED BY <3>2, <3>3
  <2>7. CASE Fail(t)
    <3>1. pass'[t] = Idle /\ checkpoint' = checkpoint
      BY <1>0, <2>7 DEF Fail
    <3> QED BY <1>1, <1>2, <2>2, <3>1
  <2> QED BY <1>3, <2>3, <2>4, <2>5, <2>6, <2>7 DEF Pass
<1>4. CASE Crash
  <2>1. checkpoint' = checkpoint /\ \A u \in Threads : pass'[u] = Idle
    BY <1>4 DEF Crash
  <2> QED BY <1>1, <1>2, <2>1 DEF Coverage
<1>5. CASE Other \/ UNCHANGED vars
  <2>1. checkpoint' = checkpoint /\ pass' = pass
    BY <1>5 DEF Other, Record, Supersede, Open, Settle, IndexSources, Configure, vars
  <2> QED BY <1>1, <1>2, <2>1 DEF Coverage
<1> QED BY <1>3, <1>4, <1>5 DEF Next

LEMMA CoverageInvariant == Spec => [](TypeOK /\ Coverage)
<1>1. Init => TypeOK /\ Coverage
  BY TypeInit DEF Init, Coverage, CheckpointHolds, PassHolds, Idle
<1>2. TypeOK /\ Coverage /\ [Next]_vars => (TypeOK /\ Coverage)'
  BY TypeInductive, CoverageInductive
<1> QED BY <1>1, <1>2, PTL DEF Spec

(* When the gate of strict outputs is open, every candidate pair of the    *)
(* current claims has a judgment in the journal: for every page size, and  *)
(* however passes failed, crashed, resumed or ran at once                  *)
(* (settlement_gate).                                                      *)
THEOREM GateIsSound == Spec => []CompleteIsSettled
<1>1. TypeOK /\ Coverage => CompleteIsSettled
  <2> SUFFICES ASSUME TypeOK, Coverage, GateComplete,
                      NEW q \in PairsOf(Current) \cap Similar[policy]
               PROVE  Judged(q)
    BY DEF CompleteIsSettled
  <2>1. /\ checkpoint # NoCheckpoint /\ checkpoint.phase = "complete"
        /\ checkpoint.basis = Basis /\ checkpoint.policy = policy
    BY DEF GateComplete, Matches, NoCheckpoint
  <2>2. q \in Candidates(checkpoint.basis, checkpoint.policy) /\ Covers(checkpoint, q)
    BY <2>1 DEF Candidates, Basis, Covers
  <2> QED BY <2>1, <2>2 DEF Coverage, CheckpointHolds, Holds, Answered
<1> QED BY <1>1, CoverageInvariant, PTL

-----------------------------------------------------------------------------
(* One process: nothing changes beside a pass, so what it read is so until *)
(* it is done.                                                             *)

OneProcess == ~Serving

Known == {q \in Pairs : dispute[q] # "none"}

(* The pairs of a page had no verdict in either direction, and get one.    *)
JudgesOnce(judgments) ==
  /\ \A j \in judgments : ~Judged(j[1])
  /\ \A j, k \in judgments : k[1] \in {j[1], Reverse(j[1])} => j = k

PreparedIsNow(o) ==
  o.phase = "prepared" =>
    o.basis = Basis /\ o.policy = policy /\ o.known = Known /\ o.settled = GateComplete

(* What is still to be appended leads to the basis that was drafted.       *)
PublishingIsNow(o) ==
  o.phase = "publishing" =>
    /\ JudgesOnce(o.judgments)
    /\ AfterPublication(Basis, o.edges, o.clashes) = o.draft.basis
    /\ o.draft.policy = policy
    /\ \A q \in o.clashes : dispute[q] = "none"
    /\ \A e \in o.edges : Authority(o.judgments)[e] = "supersedes"
    /\ \A q \in o.clashes :
         "conflicts" \in {Authority(o.judgments)[q], Authority(o.judgments)[Reverse(q)]}

OnlyPass == \A t, u \in Threads : pass[t] # Idle /\ pass[u] # Idle => t = u

PassIsNow == OnlyPass /\ \A t \in Threads : PreparedIsNow(pass[t]) /\ PublishingIsNow(pass[t])

-----------------------------------------------------------------------------
(* Authority *)

LEMMA AuthorityTypes ==
  ASSUME TypeOK, NEW judgments \in SUBSET Judgments
  PROVE  Authority(judgments) \in [Directed -> Verdicts \cup {"none"}]
BY DEF Authority, TypeOK

(* What is judged is not judged anew. *)
LEMMA AuthorityOfJudged ==
  ASSUME TypeOK, NEW judgments \in SUBSET Judgments, JudgesOnce(judgments),
         NEW d \in Directed
  PROVE  verdict[d] # "none" => Authority(judgments)[d] = verdict[d]
<1>1. ASSUME verdict[d] # "none", NEW w \in Verdicts, <<d, w>> \in judgments PROVE FALSE
  <2>1. ~Judged(<<d, w>>[1])
    BY <1>1 DEF JudgesOnce
  <2> QED BY <1>1, <2>1 DEF Judged
<1> QED BY <1>1 DEF Authority

LEMMA AuthorityOfNew ==
  ASSUME TypeOK, NEW judgments \in SUBSET Judgments, JudgesOnce(judgments),
         NEW d \in Directed, NEW w \in Verdicts, <<d, w>> \in judgments
  PROVE  Authority(judgments)[d] = w
<1>1. \A x \in Verdicts : <<d, x>> \in judgments => x = w
  <2> SUFFICES ASSUME NEW x \in Verdicts, <<d, x>> \in judgments PROVE x = w
    OBVIOUS
  <2>1. <<d, w>> = <<d, x>>
    BY DEF JudgesOnce
  <2> QED BY <2>1
<1>2. (CHOOSE x \in Verdicts : <<d, x>> \in judgments) = w
  BY <1>1
<1> QED BY <1>2 DEF Authority

LEMMA AuthorityOfNone == ASSUME TypeOK PROVE Authority({}) = verdict
BY DEF Authority, TypeOK

(* An appended judgment is authority as it was when it waited. *)
LEMMA AuthorityKept ==
  ASSUME TypeOK, NEW judgments \in SUBSET Judgments, JudgesOnce(judgments),
         NEW j \in judgments, OnJudged(j[1], j[2])
  PROVE  Authority(judgments \ {j})' = Authority(judgments)
<1> DEFINE rest == judgments \ {j}
<1>0. j = <<j[1], j[2]>> /\ j[1] \in Directed /\ j[2] \in Verdicts
  BY DEF Judgments
<1>1. ASSUME NEW d \in Directed
      PROVE  Authority(rest)'[d] = Authority(judgments)[d]
  <2>1. CASE d = j[1]
    <3>1. verdict[d] = "none"
      BY <2>1 DEF JudgesOnce, Judged
    <3>2. verdict'[d] = j[2]
      BY <1>0, <2>1, <3>1 DEF OnJudged, TypeOK
    <3>3. Authority(judgments)[d] = j[2]
      BY <1>0, <2>1, AuthorityOfNew
    <3>4. ~ \E w \in Verdicts : <<d, w>> \in rest
      <4> SUFFICES ASSUME NEW w \in Verdicts, <<d, w>> \in rest PROVE FALSE
        OBVIOUS
      <4>1. <<d, w>> = j
        BY <2>1 DEF JudgesOnce
      <4> QED BY <4>1
    <3> QED BY <3>2, <3>3, <3>4 DEF Authority
  <2>2. CASE d # j[1]
    <3>1. verdict'[d] = verdict[d]
      BY <1>0, <2>2 DEF OnJudged, TypeOK
    <3>2. \A w : <<d, w>> \in rest <=> <<d, w>> \in judgments
      BY <1>0, <2>2
    <3> QED BY <3>1, <3>2 DEF Authority
  <2> QED BY <2>1, <2>2
<1>2. PICK new : new = Authority(rest)'
  OBVIOUS
<1>3. new = [d \in Directed |-> new[d]]
  BY <1>2 DEF Authority
<1>4. Authority(judgments) = [d \in Directed |-> Authority(judgments)[d]]
  BY DEF Authority
<1>5. \A d \in Directed : new[d] = Authority(judgments)[d]
  BY <1>1, <1>2
<1>6. new = Authority(judgments)
  <2> PICK old : old = Authority(judgments)
    OBVIOUS
  <2> QED BY <1>3, <1>4, <1>5
<1> QED BY <1>2, <1>6

LEMMA JudgesTheRest ==
  ASSUME TypeOK, NEW judgments \in SUBSET Judgments, JudgesOnce(judgments),
         NEW j \in judgments, OnJudged(j[1], j[2])
  PROVE  JudgesOnce(judgments \ {j})'
<1>0. j[1] \in Directed /\ j[2] \in Verdicts
  BY DEF Judgments
<1>1. ASSUME NEW k \in judgments \ {j}
      PROVE  ~Judged(k[1])'
  <2>1. k[1] \in Directed /\ Reverse(k[1]) \in Directed
    BY PairTypes DEF Judgments
  <2>2. k[1] # j[1] /\ Reverse(k[1]) # j[1]
    <3>1. Reverse(k[1]) = j[1] => k[1] = Reverse(j[1])
      BY <2>1, PairTypes
    <3> QED BY <3>1 DEF JudgesOnce
  <2>3. verdict'[k[1]] = verdict[k[1]] /\ verdict'[Reverse(k[1])] = verdict[Reverse(k[1])]
    BY <1>0, <2>1, <2>2 DEF OnJudged, TypeOK
  <2> QED BY <2>3 DEF JudgesOnce, Judged
<1> QED BY <1>1 DEF JudgesOnce

-----------------------------------------------------------------------------
(* What a publication leaves *)

LEMMA EligibleAfter ==
  ASSUME NEW b \in Bases, NEW edges, NEW clashes
  PROVE  LET c == AfterPublication(b, edges, clashes) IN
         /\ c.eligible = (b.eligible \ {e[1] : e \in edges}) \ UNION {{q[1], q[2]} : q \in clashes}
         /\ c.recorded = b.recorded /\ c.index = b.index
BY DEF AfterPublication, Bases

LEMMA SameBasis ==
  ASSUME NEW b \in Bases, NEW c \in Bases, b.recorded = c.recorded,
         b.eligible = c.eligible, b.index = c.index
  PROVE  b = c
BY DEF Bases

LEMMA NothingToPublish ==
  ASSUME TypeOK
  PROVE  AfterPublication(Basis, {}, {}) = Basis
<1>1. PICK b \in Bases : b = Basis
  BY BasisTypes
<1>2. PICK c \in Bases : c = AfterPublication(b, {}, {})
  BY <1>1, BasisTypes
<1>3. c.recorded = b.recorded /\ c.eligible = b.eligible /\ c.index = b.index
  <2>1. {e[1] : e \in {}} = {} /\ UNION {{q[1], q[2]} : q \in {}} = {}
    OBVIOUS
  <2>2. c.eligible = (b.eligible \ {e[1] : e \in {}}) \ UNION {{q[1], q[2]} : q \in {}}
    BY <1>2, EligibleAfter
  <2>3. c.recorded = b.recorded /\ c.index = b.index
    BY <1>2, EligibleAfter
  <2> QED BY <2>1, <2>2, <2>3
<1>4. b = c
  BY <1>3, SameBasis
<1> QED BY <1>1, <1>2, <1>4

(* A supersession makes its old claim ineligible, ... *)
LEMMA CurrentAfterEdge ==
  ASSUME TypeOK, NEW e \in Directed, recorded' = recorded, dispute' = dispute,
         successor' = [successor EXCEPT ![e[1]] = IF @ = 0 THEN e[2] ELSE @]
  PROVE  Current' = Current \ {e[1]}
<1>1. e[1] \in Claims /\ e[2] \in Claims /\ e[2] # 0
  BY DEF Directed, Claims
<1>2. ASSUME NEW c \in 1..recorded
      PROVE  successor'[c] = 0 <=> successor[c] = 0 /\ c # e[1]
  <2>1. c \in Claims
    BY DEF TypeOK, Claims
  <2> QED BY <1>1, <2>1 DEF TypeOK
<1> QED BY <1>2 DEF Current

(* ... and a conflict both of its claims. *)
LEMMA CurrentAfterClash ==
  ASSUME TypeOK, NEW q \in Pairs, recorded' = recorded, successor' = successor,
         dispute[q] = "none",
         dispute' = [dispute EXCEPT ![q] = IF @ = "none" THEN "open" ELSE @]
  PROVE  Current' = Current \ {q[1], q[2]}
<1>1. dispute'[q] = "open" /\ \A r \in Pairs : r # q => dispute'[r] = dispute[r]
  BY DEF TypeOK
<1> QED BY <1>1 DEF Current

LEMMA EdgeLeads ==
  ASSUME TypeOK, TypeOK', NEW edges \in SUBSET Directed, NEW clashes, NEW e \in edges,
         recorded' = recorded, index' = index, Current' = Current \ {e[1]}
  PROVE  AfterPublication(Basis, edges \ {e}, clashes)' = AfterPublication(Basis, edges, clashes)
<1>1. PICK b \in Bases : b = Basis
  BY BasisTypes
<1>2. PICK b1 \in Bases : b1 = Basis'
  BY BasisTypes DEF Basis, Bases, TypeOK, Current, Claims
<1>3. b1.recorded = b.recorded /\ b1.index = b.index /\ b1.eligible = b.eligible \ {e[1]}
  BY <1>1, <1>2 DEF Basis
<1>4. PICK c \in Bases : c = AfterPublication(b, edges, clashes)
  BY BasisTypes
<1>5. PICK c1 \in Bases : c1 = AfterPublication(b1, edges \ {e}, clashes)
  BY BasisTypes
<1>6. {x[1] : x \in edges} = {x[1] : x \in edges \ {e}} \cup {e[1]}
  OBVIOUS
<1>7. c1.recorded = c.recorded /\ c1.index = c.index /\ c1.eligible = c.eligible
  <2>1. c.eligible = (b.eligible \ {x[1] : x \in edges}) \ UNION {{q[1], q[2]} : q \in clashes}
    BY <1>4, EligibleAfter
  <2>2. c1.eligible = (b1.eligible \ {x[1] : x \in edges \ {e}}) \ UNION {{q[1], q[2]} : q \in clashes}
    BY <1>5, EligibleAfter
  <2>3. c1.recorded = c.recorded /\ c1.index = c.index
    BY <1>3, <1>4, <1>5, EligibleAfter
  <2> QED BY <1>3, <1>6, <2>1, <2>2, <2>3
<1>8. c1 = c
  BY <1>7, SameBasis
<1>9. AfterPublication(Basis, edges \ {e}, clashes)' = AfterPublication(b1, edges \ {e}, clashes)
  BY <1>2 DEF AfterPublication
<1> QED BY <1>1, <1>4, <1>5, <1>8, <1>9

LEMMA ClashLeads ==
  ASSUME TypeOK, TypeOK', NEW edges, NEW clashes, NEW q \in clashes,
         recorded' = recorded, index' = index, Current' = Current \ {q[1], q[2]}
  PROVE  AfterPublication(Basis, edges, clashes \ {q})' = AfterPublication(Basis, edges, clashes)
<1>1. PICK b \in Bases : b = Basis
  BY BasisTypes
<1>2. PICK b1 \in Bases : b1 = Basis'
  BY BasisTypes DEF Basis, Bases, TypeOK, Current, Claims
<1>3. b1.recorded = b.recorded /\ b1.index = b.index /\ b1.eligible = b.eligible \ {q[1], q[2]}
  BY <1>1, <1>2 DEF Basis
<1>4. PICK c \in Bases : c = AfterPublication(b, edges, clashes)
  BY BasisTypes
<1>5. PICK c1 \in Bases : c1 = AfterPublication(b1, edges, clashes \ {q})
  BY BasisTypes
<1>6. UNION {{x[1], x[2]} : x \in clashes} =
        {q[1], q[2]} \cup UNION {{x[1], x[2]} : x \in clashes \ {q}}
  OBVIOUS
<1>7. c1.recorded = c.recorded /\ c1.index = c.index /\ c1.eligible = c.eligible
  <2>1. c.eligible = (b.eligible \ {x[1] : x \in edges}) \ UNION {{x[1], x[2]} : x \in clashes}
    BY <1>4, EligibleAfter
  <2>2. c1.eligible = (b1.eligible \ {x[1] : x \in edges}) \ UNION {{x[1], x[2]} : x \in clashes \ {q}}
    BY <1>5, EligibleAfter
  <2>3. c1.recorded = c.recorded /\ c1.index = c.index
    BY <1>3, <1>4, <1>5, EligibleAfter
  <2> QED BY <1>3, <1>6, <2>1, <2>2, <2>3
<1>8. c1 = c
  BY <1>7, SameBasis
<1>9. AfterPublication(Basis, edges, clashes \ {q})' = AfterPublication(b1, edges, clashes \ {q})
  BY <1>2 DEF AfterPublication
<1> QED BY <1>1, <1>4, <1>5, <1>8, <1>9

-----------------------------------------------------------------------------
(* What the answers come to *)

Failed(o, answer) == {q \in Live(o) : answer[q] = "failed"}

Answers(o, answer) == {<<Oriented(q, o), answer[q]>> : q \in Live(o) \ Failed(o, answer)}

LEMMA OutcomeIs ==
  ASSUME NEW o, NEW answer
  PROVE  LET r == Outcome(o, answer)
             v == Authority(Answers(o, answer))
             edges == Edges(v, o.basis)
             clashes == Clashes(v, o.basis, o.known)
         IN /\ r.phase = "publishing" /\ r.judgments = Answers(o, answer)
            /\ r.draft.policy = o.policy
            /\ Resume(o, Failed(o, answer)) # {} =>
                 /\ r.deferrals = {Oriented(q, o) : q \in Unresolved(o, Failed(o, answer))}
                 /\ r.edges = {} /\ r.clashes = {}
                 /\ r.draft.phase = "partial" /\ r.draft.basis = o.basis
            /\ Resume(o, Failed(o, answer)) = {} =>
                 /\ r.deferrals = {} /\ r.edges = edges /\ r.clashes = clashes
                 /\ r.draft.phase = "complete"
                 /\ r.draft.basis = AfterPublication(o.basis, edges, clashes)
<1> DEFINE failed == Failed(o, answer)
           judgments == Answers(o, answer)
           v == Authority(judgments)
           edges == Edges(v, o.basis)
           clashes == Clashes(v, o.basis, o.known)
           deferrals == {Oriented(q, o) : q \in Unresolved(o, failed)}
           cursor == Earliest(Resume(o, failed))
           basis == AfterPublication(o.basis, edges, clashes)
<1>1. Outcome(o, answer) =
        IF Resume(o, failed) # {}
        THEN [phase |-> "publishing", judgments |-> judgments, deferrals |-> deferrals,
              edges |-> {}, clashes |-> {}, draft |-> Draft("partial", o.basis, o, cursor)]
        ELSE [phase |-> "publishing", judgments |-> judgments, deferrals |-> {},
              edges |-> edges, clashes |-> clashes, draft |-> Draft("complete", basis, o, 0)]
  BY DEF Outcome, Failed, Answers
<1> HIDE DEF failed, judgments, edges, clashes, deferrals, cursor, basis
<1>2. /\ Outcome(o, answer).phase = "publishing"
      /\ Outcome(o, answer).judgments = judgments
      /\ Outcome(o, answer).draft.policy = o.policy
      /\ Resume(o, failed) # {} =>
           /\ Outcome(o, answer).deferrals = deferrals
           /\ Outcome(o, answer).edges = {} /\ Outcome(o, answer).clashes = {}
           /\ Outcome(o, answer).draft.phase = "partial"
           /\ Outcome(o, answer).draft.basis = o.basis
      /\ Resume(o, failed) = {} =>
           /\ Outcome(o, answer).deferrals = {}
           /\ Outcome(o, answer).edges = edges /\ Outcome(o, answer).clashes = clashes
           /\ Outcome(o, answer).draft.phase = "complete"
           /\ Outcome(o, answer).draft.basis = basis
  BY <1>1 DEF Draft
<1> QED BY <1>2 DEF failed, judgments, edges, clashes, deferrals, cursor, basis

LEMMA PairsAreOrdered ==
  ASSUME NEW q \in Pairs, NEW r \in Pairs, r \in {q, Reverse(q)}
  PROVE  r = q
BY DEF Pairs, Claims, Reverse

LEMMA AnswersJudgeOnce ==
  ASSUME TypeOK, NEW o \in PreparedPasses,
         NEW answer \in [Live(o) -> Verdicts \cup {"failed"}]
  PROVE  Answers(o, answer) \subseteq Judgments /\ JudgesOnce(Answers(o, answer))
<1> DEFINE judgments == Answers(o, answer)
<1>0. ASSUME NEW j \in judgments
      PROVE  \E q \in Live(o) : j = <<Oriented(q, o), answer[q]>> /\ answer[q] \in Verdicts
  BY <1>0 DEF Answers, Failed
<1>1. ASSUME NEW q \in Live(o)
      PROVE  /\ q \in Pairs /\ q \in Directed /\ Reverse(Reverse(q)) = q /\ ~Judged(q)
             /\ Oriented(q, o) \in {q, Reverse(q)} /\ Oriented(q, o) \in Directed
  BY PageTypes, PairTypes DEF Live
<1>2. ASSUME NEW j \in judgments
      PROVE  j \in Judgments /\ ~Judged(j[1])
  <2>1. PICK q \in Live(o) : j = <<Oriented(q, o), answer[q]>> /\ answer[q] \in Verdicts
    BY <1>0
  <2>2. j[1] = Oriented(q, o)
    BY <2>1
  <2> QED BY <1>1, <2>1, <2>2 DEF Judgments, Judged
<1>3. ASSUME NEW j \in judgments, NEW k \in judgments, k[1] \in {j[1], Reverse(j[1])}
      PROVE  j = k
  <2>1. PICK q \in Live(o) : j = <<Oriented(q, o), answer[q]>>
    BY <1>0
  <2>2. PICK r \in Live(o) : k = <<Oriented(r, o), answer[r]>>
    BY <1>0
  <2>3. Oriented(r, o) \in {Oriented(q, o), Reverse(Oriented(q, o))}
    BY <1>3, <2>1, <2>2
  <2>4. r \in {q, Reverse(q)}
    BY <1>1, <2>3
  <2>5. r = q
    BY <1>1, <2>4, PairsAreOrdered
  <2> QED BY <2>1, <2>2, <2>5
<1> QED BY <1>2, <1>3 DEF JudgesOnce

LEMMA EdgesAndClashes ==
  ASSUME NEW v, NEW b, NEW known
  PROVE  /\ Edges(v, b) \subseteq Directed
         /\ \A e \in Edges(v, b) : v[e] = "supersedes" /\ e[1] \in b.eligible /\ e[2] \in b.eligible
         /\ Clashes(v, b, known) \subseteq PairsOf(b.eligible) \ known
         /\ \A q \in Clashes(v, b, known) : "conflicts" \in {v[q], v[Reverse(q)]}
<1>1. \A e \in Directed : <<e[1], e[2]>> = e
  BY DEF Directed
<1> QED BY <1>1 DEF Edges, Clashes, Successors

LEMMA OutcomeNow ==
  ASSUME TypeOK, NEW o \in PreparedPasses, PreparedIsNow(o), o.phase = "prepared",
         NEW answer \in [Live(o) -> Verdicts \cup {"failed"}]
  PROVE  PublishingIsNow(Outcome(o, answer))
<1> PICK r : r = Outcome(o, answer)
  OBVIOUS
<1> PICK v : v = Authority(Answers(o, answer))
  OBVIOUS
<1>1. o.basis = Basis /\ o.policy = policy /\ o.known = Known
  BY DEF PreparedIsNow
<1>2. JudgesOnce(r.judgments) /\ r.draft.policy = policy /\ v = Authority(r.judgments)
  BY <1>1, OutcomeIs, AnswersJudgeOnce
<1>3. CASE Resume(o, Failed(o, answer)) # {}
  <2>1. r.edges = {} /\ r.clashes = {} /\ r.draft.basis = Basis
    BY <1>1, <1>3, OutcomeIs
  <2>2. AfterPublication(Basis, r.edges, r.clashes) = r.draft.basis
    BY <2>1, NothingToPublish
  <2> QED BY <1>2, <2>1, <2>2 DEF PublishingIsNow
<1>4. CASE Resume(o, Failed(o, answer)) = {}
  <2>1. /\ r.edges = Edges(v, o.basis) /\ r.clashes = Clashes(v, o.basis, o.known)
        /\ r.draft.basis = AfterPublication(o.basis, r.edges, r.clashes)
    BY <1>4, OutcomeIs
  <2>2. \A e \in r.edges : v[e] = "supersedes"
    BY <2>1, EdgesAndClashes
  <2>3. \A q \in r.clashes : "conflicts" \in {v[q], v[Reverse(q)]} /\ q \in Pairs /\ q \notin Known
    BY <1>1, <2>1, EdgesAndClashes, PairTypes
  <2>4. \A q \in r.clashes : dispute[q] = "none"
    BY <2>3 DEF Known
  <2> QED BY <1>1, <1>2, <2>1, <2>2, <2>3, <2>4 DEF PublishingIsNow
<1> QED BY <1>3, <1>4

-----------------------------------------------------------------------------
(* Steps of the only pass *)

Seen == <<recorded, successor, dispute, verdict, index, policy, checkpoint>>

(* Nothing a pass reads has changed. *)
LEMMA SeenIsNow ==
  ASSUME UNCHANGED Seen, NEW o
  PROVE  /\ PreparedIsNow(o) => PreparedIsNow(o)'
         /\ PublishingIsNow(o) => PublishingIsNow(o)'
         /\ Basis' = Basis /\ GateComplete' = GateComplete
<1>1. /\ recorded' = recorded /\ successor' = successor /\ dispute' = dispute
      /\ verdict' = verdict /\ index' = index /\ policy' = policy /\ checkpoint' = checkpoint
  BY DEF Seen
<1>2. Basis' = Basis
  BY <1>1 DEF Basis, Current
<1>3. GateComplete' = GateComplete
  BY <1>1, <1>2 DEF GateComplete, Matches
<1>4. Known' = Known
  BY <1>1 DEF Known
<1>5. PreparedIsNow(o) => PreparedIsNow(o)'
  BY <1>1, <1>2, <1>3, <1>4 DEF PreparedIsNow
<1>6. Authority(o.judgments)' = Authority(o.judgments)
  BY <1>1 DEF Authority
<1>7. PublishingIsNow(o) => PublishingIsNow(o)'
  BY <1>1, <1>2, <1>6 DEF PublishingIsNow, JudgesOnce, Judged, AfterPublication
<1> QED BY <1>2, <1>3, <1>5, <1>7

LEMMA IdleIsNow == PreparedIsNow(Idle) /\ PublishingIsNow(Idle)
BY DEF PreparedIsNow, PublishingIsNow, Idle

LEMMA OnlyPassIsNow ==
  ASSUME NEW t \in Threads, \A u \in Threads : u # t => pass'[u] = Idle,
         NEW o, pass'[t] = o, PreparedIsNow(o)', PublishingIsNow(o)'
  PROVE  PassIsNow'
BY IdleIsNow DEF PassIsNow, OnlyPass, PreparedIsNow, PublishingIsNow, Idle

LEMMA PrepareIsNow ==
  ASSUME TypeOK, NEW t \in Threads, NEW budget \in Budgets, NEW rejudge \in BOOLEAN,
         Prepare(t, budget, rejudge)
  PROVE  \E o : pass'[t] = o /\ PreparedIsNow(o)' /\ PublishingIsNow(o)'
<1> PICK o : o = pass'[t]
  OBVIOUS
<1>1. UNCHANGED Seen
  BY DEF Prepare, ledger, settings, settlement, Seen
<1>2. /\ o.phase = "prepared" /\ o.basis = Basis /\ o.policy = policy
      /\ o.known = Known /\ o.settled = GateComplete
  BY DEF Prepare, TypeOK, Known
<1>3. PreparedIsNow(o) /\ PublishingIsNow(o)
  BY <1>2 DEF PreparedIsNow, PublishingIsNow
<1> QED BY <1>1, <1>3, SeenIsNow

LEMMA RejudgeSees ==
  ASSUME TypeOK, NEW t \in Threads, NEW d \in Directed, NEW w \in Verdicts, Rejudge(t, d, w)
  PROVE  UNCHANGED Seen
<1>1. verdict' = verdict
  BY DEF Rejudge, OnJudged, TypeOK
<1> QED BY <1>1 DEF Rejudge, ledger, settings, Seen

LEMMA RejudgeIsNow ==
  ASSUME TypeOK, PassIsNow, NEW t \in Threads, NEW d \in Directed, NEW w \in Verdicts,
         Rejudge(t, d, w)
  PROVE  \E o : pass'[t] = o /\ PreparedIsNow(o)' /\ PublishingIsNow(o)'
<1> PICK o : o = pass[t]
  OBVIOUS
<1> PICK r : r = pass'[t]
  OBVIOUS
<1>0. o \in PreparedPasses /\ o.phase = "prepared"
  BY Phases DEF TypeOK, Passes, Rejudge
<1>1. o.basis = Basis /\ o.policy = policy /\ o.known = Known /\ o.settled = GateComplete
  BY <1>0 DEF PassIsNow, PreparedIsNow
<1>2. CASE o.settled
  <2>1. r = Recheckpointed(o)
    BY <1>2 DEF Rejudge, TypeOK
  <2>2. /\ r.phase = "publishing" /\ r.judgments = {} /\ r.edges = {} /\ r.clashes = {}
        /\ r.draft.basis = Basis /\ r.draft.policy = policy
    BY <1>1, <2>1 DEF Recheckpointed, Draft
  <2>3. AfterPublication(Basis, r.edges, r.clashes) = r.draft.basis
    BY <2>2, NothingToPublish
  <2>4. PreparedIsNow(r) /\ PublishingIsNow(r)
    BY <2>2, <2>3 DEF PreparedIsNow, PublishingIsNow, JudgesOnce
  <2> QED BY <2>4, RejudgeSees, SeenIsNow
<1>3. CASE ~o.settled
  <2>1. r = [o EXCEPT !.rejudge = FALSE]
    BY <1>3 DEF Rejudge, TypeOK
  <2>2. /\ r.phase = "prepared" /\ r.basis = o.basis /\ r.policy = o.policy
        /\ r.known = o.known /\ r.settled = o.settled
    BY <1>0, <2>1 DEF PreparedPasses
  <2>3. PreparedIsNow(r) /\ PublishingIsNow(r)
    BY <1>1, <2>2 DEF PreparedIsNow, PublishingIsNow
  <2> QED BY <2>3, RejudgeSees, SeenIsNow
<1> QED BY <1>2, <1>3

LEMMA EvaluateIsNow ==
  ASSUME TypeOK, PassIsNow, NEW t \in Threads, Evaluate(t, Verdicts \cup {"failed"})
  PROVE  \E o : pass'[t] = o /\ PreparedIsNow(o)' /\ PublishingIsNow(o)'
<1> PICK o : o = pass[t]
  OBVIOUS
<1>0. o \in PreparedPasses /\ o.phase = "prepared" /\ PreparedIsNow(o)
  BY Phases DEF TypeOK, Passes, Evaluate, PassIsNow
<1>1. PICK answer \in [Live(o) -> Verdicts \cup {"failed"}] :
        pass' = [pass EXCEPT ![t] = Outcome(o, answer)]
  BY DEF Evaluate, AnswersTo
<1> PICK r : r = Outcome(o, answer)
  OBVIOUS
<1>2. pass'[t] = r
  BY <1>1 DEF TypeOK
<1>3. PublishingIsNow(r)
  BY <1>0, OutcomeNow
<1>4. r.phase = "publishing"
  BY OutcomeIs
<1>5. PreparedIsNow(r)
  BY <1>4 DEF PreparedIsNow
<1>6. UNCHANGED Seen
  BY DEF Evaluate, ledger, settings, settlement, Seen
<1> QED BY <1>2, <1>3, <1>5, <1>6, SeenIsNow

(* The fields of a publishing pass after an append *)
LEMMA AppendFields ==
  ASSUME TypeOK, NEW t \in Threads, Append(t), ~AppendCheckpoint(t)
  PROVE  /\ pass[t] \in PublishingPasses /\ pass[t].phase = "publishing"
         /\ pass'[t].phase = "publishing" /\ pass'[t].draft = pass[t].draft
         /\ AppendJudgment(t) => /\ pass'[t].deferrals = pass[t].deferrals
                                 /\ pass'[t].edges = pass[t].edges
                                 /\ pass'[t].clashes = pass[t].clashes
         /\ AppendDeferral(t) => /\ pass'[t].judgments = {} /\ pass[t].judgments = {}
                                 /\ pass'[t].edges = pass[t].edges
                                 /\ pass'[t].clashes = pass[t].clashes
         /\ AppendEdge(t) => /\ pass'[t].judgments = {} /\ pass[t].judgments = {}
                             /\ pass'[t].deferrals = {} /\ pass[t].deferrals = {}
                             /\ pass'[t].clashes = pass[t].clashes
         /\ AppendClash(t) => /\ pass'[t].judgments = {} /\ pass[t].judgments = {}
                              /\ pass'[t].deferrals = {} /\ pass[t].deferrals = {}
                              /\ pass'[t].edges = {} /\ pass[t].edges = {}
<1> DEFINE o == pass[t]
<1>0. o \in PublishingPasses /\ o.phase = "publishing" /\ t \in DOMAIN pass
  BY Phases DEF TypeOK, Passes, Append, AppendJudgment, AppendDeferral, AppendEdge, AppendClash, AppendCheckpoint
<1>1. ASSUME AppendJudgment(t)
      PROVE  /\ pass'[t].phase = "publishing" /\ pass'[t].draft = o.draft
             /\ pass'[t].deferrals = o.deferrals /\ pass'[t].edges = o.edges
             /\ pass'[t].clashes = o.clashes
  BY <1>0, <1>1 DEF AppendJudgment, PublishingPasses
<1>2. ASSUME AppendDeferral(t)
      PROVE  /\ pass'[t].phase = "publishing" /\ pass'[t].draft = o.draft
             /\ pass'[t].judgments = {} /\ o.judgments = {} /\ pass'[t].edges = o.edges
             /\ pass'[t].clashes = o.clashes
  BY <1>0, <1>2 DEF AppendDeferral, PublishingPasses
<1>3. ASSUME AppendEdge(t)
      PROVE  /\ pass'[t].phase = "publishing" /\ pass'[t].draft = o.draft
             /\ pass'[t].judgments = {} /\ o.judgments = {}
             /\ pass'[t].deferrals = {} /\ o.deferrals = {}
             /\ pass'[t].clashes = o.clashes
  BY <1>0, <1>3 DEF AppendEdge, PublishingPasses
<1>4. ASSUME AppendClash(t)
      PROVE  /\ pass'[t].phase = "publishing" /\ pass'[t].draft = o.draft
             /\ pass'[t].judgments = {} /\ o.judgments = {}
             /\ pass'[t].deferrals = {} /\ o.deferrals = {}
             /\ pass'[t].edges = {} /\ o.edges = {}
  BY <1>0, <1>4 DEF AppendClash, PublishingPasses
<1>5. AppendJudgment(t) \/ AppendDeferral(t) \/ AppendEdge(t) \/ AppendClash(t)
  BY DEF Append
<1> QED BY <1>0, <1>1, <1>2, <1>3, <1>4, <1>5

(* An append takes one event off the list. *)
LEMMA JudgmentTaken ==
  ASSUME TypeOK, NEW t \in Threads, AppendJudgment(t)
  PROVE  \E j \in pass[t].judgments :
           /\ OnJudged(j[1], j[2]) /\ pass'[t].judgments = pass[t].judgments \ {j}
           /\ j[1] \in Directed /\ j[2] \in Verdicts /\ j = <<j[1], j[2]>>
<1> DEFINE o == pass[t]
<1>0. o \in PublishingPasses /\ t \in DOMAIN pass
  BY Phases DEF TypeOK, Passes, AppendJudgment
<1>1. PICK j \in o.judgments :
        OnJudged(j[1], j[2]) /\ pass' = [pass EXCEPT ![t].judgments = @ \ {j}]
  BY DEF AppendJudgment
<1>2. pass'[t].judgments = o.judgments \ {j}
  BY <1>0, <1>1 DEF PublishingPasses
<1>3. j[1] \in Directed /\ j[2] \in Verdicts /\ j = <<j[1], j[2]>>
  BY <1>0 DEF PublishingPasses, Judgments
<1> QED BY <1>1, <1>2, <1>3

LEMMA EdgeTaken ==
  ASSUME TypeOK, NEW t \in Threads, AppendEdge(t)
  PROVE  \E e \in pass[t].edges :
           /\ successor' = [successor EXCEPT ![e[1]] = IF @ = 0 THEN e[2] ELSE @]
           /\ pass'[t].edges = pass[t].edges \ {e}
           /\ e \in Directed
<1> DEFINE o == pass[t]
<1>0. o \in PublishingPasses /\ t \in DOMAIN pass
  BY Phases DEF TypeOK, Passes, AppendEdge
<1>1. PICK e \in o.edges :
        /\ successor' = [successor EXCEPT ![e[1]] = IF @ = 0 THEN e[2] ELSE @]
        /\ pass' = [pass EXCEPT ![t].edges = @ \ {e}]
  BY DEF AppendEdge
<1>2. pass'[t].edges = o.edges \ {e} /\ e \in Directed
  BY <1>0, <1>1 DEF PublishingPasses
<1> QED BY <1>1, <1>2

LEMMA ClashTaken ==
  ASSUME TypeOK, NEW t \in Threads, AppendClash(t)
  PROVE  \E q \in pass[t].clashes :
           /\ dispute' = [dispute EXCEPT ![q] = IF @ = "none" THEN "open" ELSE @]
           /\ pass'[t].clashes = pass[t].clashes \ {q}
           /\ q \in Pairs
<1> DEFINE o == pass[t]
<1>0. o \in PublishingPasses /\ t \in DOMAIN pass
  BY Phases DEF TypeOK, Passes, AppendClash
<1>1. PICK q \in o.clashes :
        /\ dispute' = [dispute EXCEPT ![q] = IF @ = "none" THEN "open" ELSE @]
        /\ pass' = [pass EXCEPT ![t].clashes = @ \ {q}]
  BY DEF AppendClash
<1>2. pass'[t].clashes = o.clashes \ {q} /\ q \in Pairs
  BY <1>0, <1>1 DEF PublishingPasses
<1> QED BY <1>1, <1>2

LEMMA AppendIsNow ==
  ASSUME TypeOK, TypeOK', PassIsNow, NEW t \in Threads, Append(t)
  PROVE  \E o : pass'[t] = o /\ PreparedIsNow(o)' /\ PublishingIsNow(o)'
<1> PICK o : o = pass[t]
  OBVIOUS
<1> PICK r : r = pass'[t]
  OBVIOUS
<1>1. CASE AppendCheckpoint(t)
  <2>1. r = Idle
    BY <1>1 DEF AppendCheckpoint, TypeOK
  <2> QED BY <2>1 DEF PreparedIsNow, PublishingIsNow, Idle
<1>2. CASE ~AppendCheckpoint(t)
  <2>0. /\ o \in PublishingPasses /\ o.phase = "publishing"
        /\ r.phase = "publishing" /\ r.draft = o.draft
    BY <1>2, AppendFields
  <2>1. /\ JudgesOnce(o.judgments)
        /\ AfterPublication(Basis, o.edges, o.clashes) = o.draft.basis
        /\ o.draft.policy = policy
        /\ \A q \in o.clashes : dispute[q] = "none"
        /\ \A e \in o.edges : Authority(o.judgments)[e] = "supersedes"
        /\ \A q \in o.clashes :
             "conflicts" \in {Authority(o.judgments)[q], Authority(o.judgments)[Reverse(q)]}
    BY <2>0 DEF PassIsNow, PublishingIsNow
  <2>2. o.judgments \subseteq Judgments /\ o.edges \subseteq Directed /\ o.clashes \subseteq Pairs
    BY <2>0 DEF PublishingPasses
  <2>3. CASE AppendJudgment(t)
    <3>1. PICK j \in o.judgments : OnJudged(j[1], j[2]) /\ r.judgments = o.judgments \ {j}
      BY <2>3, JudgmentTaken
    <3>2. r.edges = o.edges /\ r.clashes = o.clashes
      BY <1>2, <2>3, AppendFields
    <3>3. JudgesOnce(r.judgments)'
      BY <2>1, <2>2, <3>1, JudgesTheRest
    <3>4. Authority(r.judgments)' = Authority(o.judgments)
      BY <2>1, <2>2, <3>1, AuthorityKept
    <3>5. /\ recorded' = recorded /\ successor' = successor /\ dispute' = dispute
          /\ index' = index /\ policy' = policy
      BY <2>3 DEF AppendJudgment, ledger, settings
    <3>6. Basis' = Basis
      BY <3>5 DEF Basis, Current
    <3>7. AfterPublication(Basis, r.edges, r.clashes)' = r.draft.basis
      BY <2>0, <2>1, <3>2, <3>6 DEF AfterPublication
    <3> QED BY <2>0, <2>1, <3>2, <3>3, <3>4, <3>5, <3>7 DEF PublishingIsNow, PreparedIsNow
  <2>4. CASE AppendDeferral(t)
    <3>1. r.judgments = o.judgments /\ r.edges = o.edges /\ r.clashes = o.clashes
      BY <1>2, <2>4, AppendFields
    <3>2. UNCHANGED Seen
      BY <2>4 DEF AppendDeferral, ledger, settings, Seen
    <3>3. PublishingIsNow(r) /\ PreparedIsNow(r)
      BY <2>0, <2>1, <3>1 DEF PublishingIsNow, PreparedIsNow
    <3> QED BY <3>2, <3>3, SeenIsNow
  <2>5. CASE AppendEdge(t)
    <3>1. PICK e \in o.edges :
            /\ successor' = [successor EXCEPT ![e[1]] = IF @ = 0 THEN e[2] ELSE @]
            /\ r.edges = o.edges \ {e} /\ e \in Directed
      BY <2>5, EdgeTaken
    <3>2. r.judgments = {} /\ o.judgments = {} /\ r.clashes = o.clashes
      BY <1>2, <2>5, AppendFields
    <3>3. /\ recorded' = recorded /\ dispute' = dispute /\ verdict' = verdict
          /\ index' = index /\ policy' = policy
      BY <2>5 DEF AppendEdge, settings, settlement
    <3>4. Current' = Current \ {e[1]}
      BY <3>1, <3>3, CurrentAfterEdge
    <3>5. AfterPublication(Basis, r.edges, r.clashes)' = r.draft.basis
      BY <2>0, <2>1, <2>2, <3>1, <3>2, <3>3, <3>4, EdgeLeads
    <3>6. Authority(r.judgments)' = Authority(o.judgments)
      BY <3>2, <3>3 DEF Authority
    <3>7. JudgesOnce(r.judgments)'
      BY <3>2 DEF JudgesOnce
    <3>8. /\ \A x \in r.clashes : dispute'[x] = "none"
          /\ \A x \in r.edges : Authority(o.judgments)[x] = "supersedes"
      BY <2>1, <3>1, <3>2, <3>3
    <3>9. PublishingIsNow(r)'
      BY <2>0, <2>1, <3>2, <3>3, <3>5, <3>6, <3>7, <3>8 DEF PublishingIsNow
    <3> QED BY <2>0, <3>9 DEF PreparedIsNow
  <2>6. CASE AppendClash(t)
    <3>1. PICK q \in o.clashes :
            /\ dispute' = [dispute EXCEPT ![q] = IF @ = "none" THEN "open" ELSE @]
            /\ r.clashes = o.clashes \ {q} /\ q \in Pairs
      BY <2>6, ClashTaken
    <3>2. r.judgments = {} /\ o.judgments = {} /\ r.edges = {} /\ o.edges = {}
      BY <1>2, <2>6, AppendFields
    <3>3. /\ recorded' = recorded /\ successor' = successor /\ verdict' = verdict
          /\ index' = index /\ policy' = policy
      BY <2>6 DEF AppendClash, settings, settlement
    <3>4. Current' = Current \ {q[1], q[2]}
      BY <2>1, <3>1, <3>3, CurrentAfterClash
    <3>5. AfterPublication(Basis, r.edges, r.clashes)' = r.draft.basis
      BY <2>0, <2>1, <3>1, <3>2, <3>3, <3>4, ClashLeads
    <3>6. Authority(r.judgments)' = Authority(o.judgments)
      BY <3>2, <3>3 DEF Authority
    <3>7. JudgesOnce(r.judgments)'
      BY <3>2 DEF JudgesOnce
    <3>8. \A x \in r.clashes : dispute'[x] = "none"
      BY <2>1, <2>2, <3>1 DEF TypeOK
    <3> QED BY ZenonT(60), <2>0, <2>1, <3>1, <3>2, <3>3, <3>5, <3>6, <3>7, <3>8
            DEF PublishingIsNow, PreparedIsNow
  <2> QED BY <1>2, <2>3, <2>4, <2>5, <2>6 DEF Append
<1> QED BY <1>1, <1>2

LEMMA IdleBeside ==
  ASSUME TypeOK, PassIsNow, OneProcess, NEW t \in Threads, Pass(t)
  PROVE  \A u \in Threads : u # t => pass[u] = Idle /\ pass'[u] = Idle
<1>1. \A u \in Threads : u # t => pass'[u] = pass[u]
  BY DEF Pass, Prepare, Rejudge, Evaluate, Append, AppendJudgment, AppendDeferral,
         AppendEdge, AppendClash, AppendCheckpoint, Fail, TypeOK
<1>2. CASE \E budget \in Budgets, rejudge \in BOOLEAN : Prepare(t, budget, rejudge)
  BY <1>1, <1>2 DEF Prepare, MayRun, AllIdle, OneProcess
<1>3. CASE ~ \E budget \in Budgets, rejudge \in BOOLEAN : Prepare(t, budget, rejudge)
  <2>1. pass[t] # Idle
    BY <1>3 DEF Pass, Rejudge, Evaluate, Append, AppendJudgment, AppendDeferral,
                AppendEdge, AppendClash, AppendCheckpoint, Fail, Idle
  <2> QED BY <1>1, <2>1 DEF PassIsNow, OnlyPass
<1> QED BY <1>2, <1>3

LEMMA PassIsNowInductive ==
  ASSUME TypeOK, TypeOK', PassIsNow, OneProcess, [Next]_vars
  PROVE  PassIsNow'
<1>1. ASSUME NEW t \in Threads, Pass(t)
      PROVE  PassIsNow'
  <2>1. \A u \in Threads : u # t => pass'[u] = Idle
    BY <1>1, IdleBeside
  <2>2. \E o : pass'[t] = o /\ PreparedIsNow(o)' /\ PublishingIsNow(o)'
    <3>1. CASE \E budget \in Budgets, rejudge \in BOOLEAN : Prepare(t, budget, rejudge)
      BY <3>1, PrepareIsNow
    <3>2. CASE \E d \in Directed, w \in Verdicts : Rejudge(t, d, w)
      BY <3>2, RejudgeIsNow
    <3>3. CASE Evaluate(t, Verdicts \cup {"failed"})
      BY <3>3, EvaluateIsNow
    <3>4. CASE Append(t)
      BY <3>4, AppendIsNow
    <3>5. CASE Fail(t)
      <4>1. pass'[t] = Idle
        BY <3>5 DEF Fail, TypeOK
      <4> QED BY <4>1 DEF PreparedIsNow, PublishingIsNow, Idle
    <3> QED BY <1>1, <3>1, <3>2, <3>3, <3>4, <3>5 DEF Pass
  <2>3. PICK o : pass'[t] = o /\ PreparedIsNow(o)' /\ PublishingIsNow(o)'
    BY <2>2
  <2> QED BY <2>1, <2>3, OnlyPassIsNow
<1>2. ASSUME \A t \in Threads : pass'[t] = Idle
      PROVE  PassIsNow'
  BY <1>2 DEF PassIsNow, OnlyPass, PreparedIsNow, PublishingIsNow, Idle
<1>3. CASE Crash
  BY <1>2, <1>3 DEF Crash
<1>4. CASE Other
  <2>1. AllIdle /\ pass' = pass
    BY <1>4 DEF Other, Record, Supersede, Open, Settle, IndexSources, Configure, MayRun, OneProcess
  <2> QED BY <1>2, <2>1 DEF AllIdle
<1>5. CASE UNCHANGED vars
  <2>1. UNCHANGED Seen /\ pass' = pass
    BY <1>5 DEF vars, Seen
  <2>2. ASSUME NEW t \in Threads
        PROVE  PreparedIsNow(pass[t])' /\ PublishingIsNow(pass[t])'
    <3> PICK o : o = pass[t]
      OBVIOUS
    <3>1. PreparedIsNow(o)' /\ PublishingIsNow(o)'
      BY <2>1, SeenIsNow DEF PassIsNow
    <3>2. o = pass'[t]
      BY <2>1
    <3> QED BY <3>1, <3>2 DEF PreparedIsNow, PublishingIsNow
  <2> QED BY <2>1, <2>2 DEF PassIsNow, OnlyPass
<1> QED BY <1>1, <1>3, <1>4, <1>5 DEF Next

LEMMA PassIsNowInvariant == OneProcess => (Spec => [](TypeOK /\ PassIsNow))
<1> SUFFICES ASSUME OneProcess PROVE Spec => [](TypeOK /\ PassIsNow)
  OBVIOUS
<1>1. Init => TypeOK /\ PassIsNow
  BY TypeInit DEF Init, PassIsNow, OnlyPass, PreparedIsNow, PublishingIsNow, Idle
<1>2. TypeOK /\ PassIsNow /\ [Next]_vars => (TypeOK /\ PassIsNow)'
  BY TypeInductive, PassIsNowInductive
<1> QED BY <1>1, <1>2, PTL DEF Spec

(* A pass of a process alone in the journal completes the very state it    *)
(* leaves: the checkpoint it appends opens the gate at once                *)
(* (CampaignBasis::after_publication).                                     *)
THEOREM GateOpensWhenDone == OneProcess => (Spec => RecognisedWhenDone)
<1> SUFFICES ASSUME OneProcess PROVE Spec => RecognisedWhenDone
  OBVIOUS
<1>1. ASSUME TypeOK, PassIsNow, [Next]_vars, checkpoint' # checkpoint,
             checkpoint'.phase = "complete"
      PROVE  GateComplete'
  <2>1. PICK t \in Threads : AppendCheckpoint(t)
    BY <1>1 DEF Next, Pass, Prepare, Rejudge, Evaluate, Append, AppendJudgment, AppendDeferral,
                AppendEdge, AppendClash, Fail, Crash, Other, Record, Supersede, Open, Settle,
                IndexSources, Configure, vars
  <2>2. PICK o : o = pass[t]
    OBVIOUS
  <2>3. /\ checkpoint' = o.draft /\ o.edges = {} /\ o.clashes = {}
        /\ o.draft.policy = policy /\ AfterPublication(Basis, o.edges, o.clashes) = o.draft.basis
    BY <1>1, <2>1, <2>2 DEF AppendCheckpoint, PassIsNow, PublishingIsNow
  <2>4. o.draft.basis = Basis
    BY <1>1, <2>3, NothingToPublish
  <2>5. Basis' = Basis /\ policy' = policy
    BY <2>1 DEF AppendCheckpoint, ledger, settings, Basis, Current
  <2> QED BY <1>1, <2>3, <2>4, <2>5 DEF GateComplete, Matches
<1>2. TypeOK /\ PassIsNow /\ [Next]_vars =>
        [checkpoint' # checkpoint /\ checkpoint'.phase = "complete" => GateComplete']_vars
  BY <1>1
<1> QED BY <1>2, PassIsNowInvariant, PTL DEF Spec, RecognisedWhenDone

-----------------------------------------------------------------------------
(* Induction over the naturals, for a set of them                          *)

LEMMA Induction ==
  ASSUME NEW S, 0 \in S, \A n \in Nat : n \in S => n + 1 \in S
  PROVE  Nat \subseteq S
<1> DEFINE T == {n \in Nat : n \notin S}
<1> SUFFICES ASSUME T # {} PROVE FALSE
  OBVIOUS
<1>1. PICK x \in T : \A y \in T : x <= y
  BY LeastMember
<1>2. x # 0 /\ x - 1 \in Nat /\ (x - 1) + 1 = x /\ ~(x <= x - 1)
  BY <1>1
<1>3. x - 1 \in S
  BY <1>1, <1>2
<1> QED BY <1>1, <1>2, <1>3

-----------------------------------------------------------------------------
(* The successor a reduction keeps                                         *)

(* What the recursive function of Kept is, for the claims up to n.         *)
IsKept(f, n, old, v, S, i) ==
  f = [k \in 0..n |->
         IF k = 0 THEN 0
         ELSE LET held == f[k - 1] IN
              IF k \notin Successors(old, v, S) THEN held
              ELSE IF held = 0 THEN k
              ELSE IF Order[i][<<held, k>>] = "after" THEN held ELSE k]

KeptAfter(held, k, old, v, S, i) ==
  IF k \notin Successors(old, v, S) THEN held
  ELSE IF held = 0 THEN k
  ELSE IF Order[i][<<held, k>>] = "after" THEN held ELSE k

LEMMA KeptIsLonger ==
  ASSUME NEW n \in Nat, NEW old, NEW v, NEW S, NEW i, NEW f, IsKept(f, n, old, v, S, i),
         NEW g, g = [k \in 0..n + 1 |-> IF k \in 0..n THEN f[k]
                       ELSE KeptAfter(f[n], k, old, v, S, i)]
  PROVE  IsKept(g, n + 1, old, v, S, i)
<1>1. \A k \in 0..n : g[k] = f[k]
  OBVIOUS
<1>2. ASSUME NEW k \in 0..n + 1
      PROVE  g[k] = IF k = 0 THEN 0 ELSE KeptAfter(g[k - 1], k, old, v, S, i)
  <2>1. CASE k = 0
    BY <2>1 DEF IsKept
  <2>2. CASE k \in 1..n
    <3>1. k \in 0..n /\ k - 1 \in 0..n /\ k # 0
      BY <2>2
    <3>2. g[k] = f[k] /\ g[k - 1] = f[k - 1]
      BY <1>1, <3>1
    <3>3. f[k] = KeptAfter(f[k - 1], k, old, v, S, i)
      BY <3>1 DEF IsKept, KeptAfter
    <3> QED BY <3>1, <3>2, <3>3
  <2>3. CASE k = n + 1
    <3>1. n + 1 - 1 = n /\ n + 1 # 0 /\ n + 1 \notin 0..n /\ n \in 0..n
      OBVIOUS
    <3>2. g[k] = KeptAfter(f[n], k, old, v, S, i)
      BY <2>3, <3>1
    <3>3. g[k - 1] = f[n]
      BY <1>1, <2>3, <3>1
    <3> QED BY <2>3, <3>1, <3>2, <3>3
  <2> QED BY <2>1, <2>2, <2>3
<1>3. g = [k \in 0..n + 1 |-> g[k]]
  OBVIOUS
<1>4. g = [k \in 0..n + 1 |-> IF k = 0 THEN 0 ELSE KeptAfter(g[k - 1], k, old, v, S, i)]
  BY <1>2, <1>3
<1> QED BY <1>4, Zenon DEF IsKept, KeptAfter

LEMMA KeptExists ==
  ASSUME NEW old, NEW v, NEW S, NEW i
  PROVE  \E f : IsKept(f, N, old, v, S, i)
<1>1. PICK M : M = {n \in Nat : \E f : IsKept(f, n, old, v, S, i)}
  OBVIOUS
<1>2. 0 \in M
  <2>1. IsKept([k \in 0..0 |-> 0], 0, old, v, S, i)
    BY DEF IsKept
  <2> QED BY <1>1, <2>1
<1>3. ASSUME NEW n \in Nat, n \in M PROVE n + 1 \in M
  <2>1. PICK f : IsKept(f, n, old, v, S, i)
    BY <1>1, <1>3
  <2>2. PICK g : g = [k \in 0..n + 1 |-> IF k \in 0..n THEN f[k]
                        ELSE KeptAfter(f[n], k, old, v, S, i)]
    OBVIOUS
  <2>3. IsKept(g, n + 1, old, v, S, i)
    BY <2>1, <2>2, KeptIsLonger
  <2> QED BY <1>1, <2>3
<1>4. Nat \subseteq M
  BY <1>2, <1>3, Induction
<1> QED BY <1>1, <1>4

LEMMA KeptIs ==
  ASSUME NEW old, NEW v, NEW S, NEW i
  PROVE  IsKept(Kept(old, v, S, i), N, old, v, S, i)
<1>1. \E f : IsKept(f, N, old, v, S, i)
  BY KeptExists
<1>2. Kept(old, v, S, i) =
        (CHOOSE f : f = [k \in 0..N |->
         IF k = 0 THEN 0
         ELSE LET held == f[k - 1] IN
              IF k \notin Successors(old, v, S) THEN held
              ELSE IF held = 0 THEN k
              ELSE IF Order[i][<<held, k>>] = "after" THEN held ELSE k])
  BY Zenon DEF Kept
<1>3. (\E f : IsKept(f, N, old, v, S, i)) => IsKept(CHOOSE f : IsKept(f, N, old, v, S, i), N, old, v, S, i)
  BY Zenon
<1> QED BY <1>1, <1>2, <1>3, Zenon DEF IsKept

LEMMA KeptAt ==
  ASSUME NEW old, NEW v, NEW S, NEW i, NEW f, f = Kept(old, v, S, i)
  PROVE  /\ f[0] = 0
         /\ \A j \in 0..N, k \in 0..N : k = j + 1 => f[k] = KeptAfter(f[j], k, old, v, S, i)
<1>0. IsKept(f, N, old, v, S, i)
  BY KeptIs
<1>1. f[0] = 0
  BY <1>0 DEF IsKept
<1>2. ASSUME NEW j \in 0..N, NEW k \in 0..N, k = j + 1
      PROVE  f[k] = KeptAfter(f[j], k, old, v, S, i)
  <2>1. k # 0 /\ k - 1 = j
    BY <1>2
  <2>2. f[k] = KeptAfter(f[k - 1], k, old, v, S, i)
    BY <1>0, <2>1 DEF IsKept, KeptAfter
  <2> QED BY <2>1, <2>2
<1> QED BY <1>1, <1>2

(* It is a successor, if there is one among the claims looked at.          *)
LEMMA KeptIsSuccessor ==
  ASSUME NEW old, NEW v, NEW S \in SUBSET Claims, NEW i, NEW f, f = Kept(old, v, S, i),
         NEW k \in 0..N
  PROVE  /\ f[k] = 0 => \A r \in Successors(old, v, S) : r > k
         /\ f[k] # 0 => f[k] \in Successors(old, v, S) /\ f[k] <= k
<1> DEFINE P(n) == /\ f[n] = 0 => \A r \in Successors(old, v, S) : r > n
                   /\ f[n] # 0 => f[n] \in Successors(old, v, S) /\ f[n] <= n
<1>0. Successors(old, v, S) \subseteq Claims
  BY DEF Successors
<1>1. PICK M : M = {n \in Nat : n <= N => P(n)}
  OBVIOUS
<1>2. 0 \in M
  <2>1. f[0] = 0
    BY KeptAt
  <2>2. \A r \in Successors(old, v, S) : r > 0
    BY <1>0 DEF Claims
  <2> QED BY <1>1, <2>1, <2>2
<1>3. ASSUME NEW n \in Nat, n \in M PROVE n + 1 \in M
  <2> SUFFICES ASSUME n + 1 <= N PROVE P(n + 1)
    BY <1>1
  <2>1. P(n)
    BY <1>1, <1>3
  <2>2. n \in 0..N /\ n + 1 \in 0..N
    OBVIOUS
  <2>3. f[n + 1] = KeptAfter(f[n], n + 1, old, v, S, i)
    BY <2>2, KeptAt
  <2>4. CASE n + 1 \notin Successors(old, v, S)
    <3>1. f[n + 1] = f[n]
      BY <2>3, <2>4 DEF KeptAfter
    <3>2. \A r \in Successors(old, v, S) : r > n => r > n + 1
      BY <1>0, <2>4 DEF Claims
    <3>3. \A r \in Successors(old, v, S) : r <= n => r <= n + 1
      BY <1>0 DEF Claims
    <3> QED BY <2>1, <3>1, <3>2, <3>3
  <2>5. CASE n + 1 \in Successors(old, v, S)
    <3>1. f[n + 1] \in {f[n], n + 1} /\ (f[n] = 0 => f[n + 1] = n + 1) /\ n + 1 # 0
      BY <2>3, <2>5 DEF KeptAfter
    <3>2. \A r \in Successors(old, v, S) : r <= n => r <= n + 1
      BY <1>0 DEF Claims
    <3> QED BY <2>1, <2>5, <3>1, <3>2
  <2> QED BY <2>4, <2>5
<1>4. k \in M
  BY <1>2, <1>3, Induction
<1> QED BY <1>1, <1>4

(* A superseded claim is published so, unless its successors do not        *)
(* compare.                                                                *)
LEMMA SupersededHasEdge ==
  ASSUME NEW v, NEW b \in Bases, NEW old \in b.eligible,
         Successors(old, v, b.eligible) # {}, ~Tainted(old, v, b.eligible, b.index)
  PROVE  old \in {e[1] : e \in Edges(v, b)}
<1> DEFINE S == b.eligible
<1>0. S \subseteq Claims /\ b.index \in Indexes
  BY DEF Bases
<1> PICK f : f = Kept(old, v, S, b.index)
  OBVIOUS
<1>1. PICK r \in Successors(old, v, S) : TRUE
  OBVIOUS
<1>2. N \in 0..N /\ r <= N /\ r \in Nat
  BY <1>0, <1>1 DEF Successors, Claims
<1>3. f[N] \in Successors(old, v, S)
  BY <1>0, <1>1, <1>2, KeptIsSuccessor
<1> PICK e : e = <<old, f[N]>>
  OBVIOUS
<1>4. e[1] = old /\ e[2] = f[N] /\ e \in Directed
  BY <1>0, <1>3 DEF Successors, Directed
<1> QED BY <1>3, <1>4 DEF Edges

-----------------------------------------------------------------------------
(* Where revisions compare, and claims are decided by campaigns alone      *)

Comparable == \A i \in Indexes : \A d \in Directed : Order[i][d] \notin Incomparable

DecidedByCampaigns == Others \cap {"supersede", "open", "policy"} = {}

LEMMA NeverTainted ==
  ASSUME Comparable, NEW old, NEW v, NEW b \in Bases
  PROVE  ~Tainted(old, v, b.eligible, b.index)
<1> DEFINE S == b.eligible
<1>0. S \subseteq Claims /\ b.index \in Indexes
  BY DEF Bases
<1> PICK f : f = Kept(old, v, S, b.index)
  OBVIOUS
<1>1. ASSUME NEW k \in Successors(old, v, S), f[k - 1] # 0
      PROVE  Order[b.index][<<f[k - 1], k>>] \notin Incomparable
  <2>1. k \in Claims /\ k - 1 \in 0..N
    BY <1>0 DEF Successors, Claims
  <2>2. f[k - 1] \in Successors(old, v, S) /\ f[k - 1] <= k - 1
    BY <1>0, <1>1, <2>1, KeptIsSuccessor
  <2>3. f[k - 1] \in Claims /\ f[k - 1] # k
    BY <1>0, <2>1, <2>2 DEF Successors, Claims
  <2>4. <<f[k - 1], k>> \in Directed
    BY <2>1, <2>3 DEF Directed
  <2> QED BY <1>0, <2>4 DEF Comparable
<1> QED BY <1>1 DEF Tainted

OfPolicy(d) == Slot(d) \in Similar[policy]

(* Nothing is left to decide among the eligible claims of a basis.         *)
Decided(b, v, known) ==
  /\ \A old \in b.eligible : Successors(old, v, b.eligible) = {}
  /\ \A q \in PairsOf(b.eligible) : "conflicts" \in {v[q], v[Reverse(q)]} => q \in known

Handled(d, o) == successor[d[1]] # 0 \/ d[1] \in lost \/ d[1] \in Dropped(o)

PassDecides(o) ==
  o.phase = "publishing" =>
    /\ \A j \in o.judgments : OfPolicy(j[1])
    /\ o.draft.phase = "complete" =>
         /\ Decided(o.draft.basis, Authority(o.judgments), Known)
         /\ \A d \in Directed : Authority(o.judgments)[d] = "supersedes" => Handled(d, o)
    /\ o.draft.phase = "partial" =>
         /\ o.edges = {} /\ o.clashes = {}
         /\ \A j \in o.judgments : {j[1][1], j[1][2]} \subseteq Current

(* A claim judged superseded waits with its successor for the last page,   *)
(* or its supersession is published, about to be, or lost.                 *)
WaitsOrHandled(o) ==
  \A d \in Directed : verdict[d] = "supersedes" =>
    {d[1], d[2]} \subseteq Current \/ Handled(d, o)

JournalDecides ==
  /\ \A d \in Directed : verdict[d] # "none" => OfPolicy(d)
  /\ checkpoint # NoCheckpoint => checkpoint.policy = policy
  /\ checkpoint.phase = "complete" => Decided(checkpoint.basis, verdict, Known)

Decisions ==
  /\ JournalDecides
  /\ \A t \in Threads : PassDecides(pass[t])
  /\ \A d \in Directed : verdict[d] = "supersedes" =>
       \/ {d[1], d[2]} \subseteq Current
       \/ Handled(d, Idle)
       \/ \E t \in Threads : Handled(d, pass[t])

LEMMA OnlyPassDecides ==
  ASSUME NEW t \in Threads, \A u \in Threads : u # t => pass[u] = Idle
  PROVE  /\ Decisions => JournalDecides /\ PassDecides(pass[t]) /\ WaitsOrHandled(pass[t])
         /\ JournalDecides /\ PassDecides(pass[t]) /\ WaitsOrHandled(pass[t]) => Decisions
<1>1. \A d \in Directed : Handled(d, Idle) => Handled(d, pass[t])
  BY DEF Handled, Dropped, Idle
<1>2. PassDecides(Idle)
  BY DEF PassDecides, Idle
<1> QED BY <1>1, <1>2 DEF Decisions, WaitsOrHandled

LEMMA DecidedStays ==
  ASSUME NEW b, NEW v, NEW known, NEW more, known \subseteq more, Decided(b, v, known)
  PROVE  Decided(b, v, more)
BY DEF Decided

(* The end of a campaign decides all it judged.                            *)
LEMMA PublicationDecides ==
  ASSUME Comparable, NEW b \in Bases, NEW c \in Bases, NEW v, NEW known,
         NEW edges, NEW clashes, edges = Edges(v, b), clashes = Clashes(v, b, known),
         c = AfterPublication(b, edges, clashes)
  PROVE  Decided(c, v, known)
<1>0. c.eligible = (b.eligible \ {e[1] : e \in edges}) \ UNION {{q[1], q[2]} : q \in clashes}
  BY EligibleAfter
<1>1. ASSUME NEW old \in c.eligible
      PROVE  Successors(old, v, c.eligible) = {}
  <2> SUFFICES ASSUME Successors(old, v, c.eligible) # {} PROVE FALSE
    OBVIOUS
  <2>1. old \in b.eligible /\ Successors(old, v, b.eligible) # {}
    BY <1>0 DEF Successors
  <2>2. ~Tainted(old, v, b.eligible, b.index)
    BY NeverTainted
  <2>3. old \in {e[1] : e \in Edges(v, b)}
    BY <2>1, <2>2, SupersededHasEdge
  <2>4. PICK e \in edges : e[1] = old
    BY <2>3
  <2> QED BY <1>0, <2>4
<1>2. ASSUME NEW q \in PairsOf(c.eligible), "conflicts" \in {v[q], v[Reverse(q)]}
      PROVE  q \in known
  <2> SUFFICES ASSUME q \notin known PROVE FALSE
    OBVIOUS
  <2>1. q \in PairsOf(b.eligible) /\ q[1] \in c.eligible /\ q[2] \in c.eligible
    BY <1>0 DEF PairsOf
  <2>2. \A x \in {q[1], q[2]} : \A e \in edges : e[1] # x
    BY <1>0, <2>1
  <2>3. q \in clashes
    BY <1>2, <2>1, <2>2, NeverTainted DEF Clashes
  <2> QED BY <1>0, <2>1, <2>3
<1> QED BY <1>1, <1>2 DEF Decided

LEMMA OutcomeDecides ==
  ASSUME TypeOK, Comparable, NEW o \in PreparedPasses, o.phase = "prepared",
         PreparedIsNow(o), WaitsOrHandled(o),
         NEW answer \in [Live(o) -> Verdicts \cup {"failed"}]
  PROVE  PassDecides(Outcome(o, answer)) /\ WaitsOrHandled(Outcome(o, answer))
<1> PICK r : r = Outcome(o, answer)
  OBVIOUS
<1> PICK J : J = Answers(o, answer)
  OBVIOUS
<1> PICK v : v = Authority(J)
  OBVIOUS
<1>0. /\ o.basis = Basis /\ o.policy = policy /\ o.known = Known
      /\ o.basis \in Bases /\ o.basis.eligible = Current
  BY BasisTypes DEF PreparedIsNow, Basis
<1>1. /\ r.phase = "publishing" /\ r.judgments = J
      /\ J \subseteq Judgments /\ JudgesOnce(J)
  BY OutcomeIs, AnswersJudgeOnce
<1>2. Dropped(o) = {}
  BY DEF Dropped
<1>3. \A d \in Directed : Handled(d, o) => Handled(d, r)
  BY <1>2 DEF Handled
<1>4. ASSUME NEW j \in J
      PROVE  OfPolicy(j[1]) /\ {j[1][1], j[1][2]} \subseteq Current
  <2>1. PICK q \in Live(o) : j = <<Oriented(q, o), answer[q]>>
    BY DEF Answers
  <2>2. q \in Pairs /\ q \in PairsOf(Current) /\ q \in Similar[policy] /\ j[1] \in {q, Reverse(q)}
    BY <1>0, <2>1, PageTypes, PairTypes DEF Live
  <2>3. Slot(j[1]) = q /\ {j[1][1], j[1][2]} = {q[1], q[2]}
    BY <2>2 DEF Slot, Reverse, Pairs, Claims
  <2> QED BY <2>2, <2>3 DEF OfPolicy, PairsOf
<1>5. WaitsOrHandled(r)
  BY <1>3 DEF WaitsOrHandled
<1>6. CASE Resume(o, Failed(o, answer)) # {}
  <2>1. r.draft.phase = "partial" /\ r.edges = {} /\ r.clashes = {}
    BY <1>6, OutcomeIs
  <2> QED BY <1>1, <1>4, <1>5, <2>1 DEF PassDecides
<1>7. CASE Resume(o, Failed(o, answer)) = {}
  <2>1. /\ r.draft.phase = "complete" /\ r.edges = Edges(v, o.basis)
        /\ r.clashes = Clashes(v, o.basis, o.known)
        /\ r.draft.basis = AfterPublication(o.basis, r.edges, r.clashes)
    BY <1>7, OutcomeIs
  <2>2. r.draft.basis \in Bases
    BY <1>0, <2>1, BasisTypes
  <2>3. Decided(r.draft.basis, v, Known)
    BY <1>0, <2>1, <2>2, PublicationDecides
  <2>4. ASSUME NEW d \in Directed, v[d] = "supersedes"
        PROVE  Handled(d, r)
    <3>1. CASE {d[1], d[2]} \subseteq Current
      <4>1. d = <<d[1], d[2]>> /\ d[1] # d[2]
        BY DEF Directed
      <4>2. d[2] \in Successors(d[1], v, o.basis.eligible) /\ d[1] \in o.basis.eligible
        BY <1>0, <2>4, <3>1, <4>1 DEF Successors
      <4>3. ~Tainted(d[1], v, o.basis.eligible, o.basis.index)
        BY <1>0, NeverTainted
      <4>4. PICK b \in Bases : b = o.basis
        BY <1>0
      <4>5. d[1] \in b.eligible /\ Successors(d[1], v, b.eligible) # {} /\ ~Tainted(d[1], v, b.eligible, b.index)
        BY <4>2, <4>3, <4>4
      <4>6. d[1] \in {e[1] : e \in Edges(v, b)}
        BY <4>5, SupersededHasEdge
      <4>7. d[1] \in Dropped(r)
        BY <1>1, <2>1, <4>4, <4>6 DEF Dropped
      <4> QED BY <4>7 DEF Handled
    <3>2. CASE ~({d[1], d[2]} \subseteq Current)
      <4>1. ~ \E w \in Verdicts : <<d, w>> \in J
        <5> SUFFICES ASSUME NEW w \in Verdicts, <<d, w>> \in J PROVE FALSE
          OBVIOUS
        <5>1. PICK j \in J : j = <<d, w>>
          OBVIOUS
        <5>2. j[1] = d
          BY <5>1
        <5> QED BY <1>4, <3>2, <5>2
      <4>2. verdict[d] = "supersedes"
        BY <2>4, <4>1 DEF Authority
      <4> QED BY <1>3, <3>2, <4>2 DEF WaitsOrHandled
    <3> QED BY <3>1, <3>2
  <2> QED BY <1>1, <1>4, <1>5, <2>1, <2>3, <2>4 DEF PassDecides
<1> QED BY <1>6, <1>7

-----------------------------------------------------------------------------
(* Steps keep what is decided.                                             *)

LEMMA JournalStays ==
  ASSUME JournalDecides, UNCHANGED <<verdict, policy, checkpoint>>, Known \subseteq Known'
  PROVE  JournalDecides'
<1>1. /\ \A d \in Directed : verdict'[d] # "none" => OfPolicy(d)'
      /\ checkpoint' # NoCheckpoint => checkpoint'.policy = policy'
  BY DEF JournalDecides, OfPolicy
<1>2. checkpoint'.phase = "complete" => Decided(checkpoint'.basis, verdict', Known')
  BY DecidedStays DEF JournalDecides
<1> QED BY <1>1, <1>2 DEF JournalDecides, Decided

(* A new judgment is of a pair that no complete checkpoint speaks of.      *)
LEMMA NewJudgmentBeside ==
  ASSUME TypeOK, Coverage, JournalDecides, checkpoint.phase = "complete",
         NEW d \in Directed, ~Judged(d), OfPolicy(d)
  PROVE  ~({d[1], d[2]} \subseteq checkpoint.basis.eligible)
<1> SUFFICES ASSUME {d[1], d[2]} \subseteq checkpoint.basis.eligible PROVE FALSE
  OBVIOUS
<1> PICK q : q = Slot(d)
  OBVIOUS
<1>1. q \in Pairs /\ {q[1], q[2]} = {d[1], d[2]} /\ q \in {d, Reverse(d)}
  BY DEF Slot, Directed, Pairs, Claims, Reverse
<1>2. checkpoint # NoCheckpoint /\ checkpoint.policy = policy
  BY DEF NoCheckpoint, JournalDecides
<1>3. q \in Candidates(checkpoint.basis, checkpoint.policy)
  BY <1>1, <1>2 DEF Candidates, PairsOf, OfPolicy
<1>4. Judged(q)
  BY <1>2, <1>3 DEF Coverage, CheckpointHolds, Holds, Covers, Answered
<1>5. Reverse(Reverse(d)) = d
  BY PairTypes
<1> QED BY <1>1, <1>4, <1>5 DEF Judged

LEMMA JournalAfterJudgment ==
  ASSUME TypeOK, Coverage, JournalDecides, NEW d \in Directed, NEW w \in Verdicts,
         ~Judged(d), OfPolicy(d), OnJudged(d, w), UNCHANGED <<dispute, policy, checkpoint>>
  PROVE  JournalDecides'
<1>0. /\ \A e \in Directed : e # d => verdict'[e] = verdict[e]
      /\ policy' = policy /\ checkpoint' = checkpoint /\ Known' = Known
  BY DEF OnJudged, TypeOK, Known
<1>1. ASSUME NEW e \in Directed, verdict'[e] # "none"
      PROVE  OfPolicy(e)'
  BY <1>0, <1>1 DEF JournalDecides, OfPolicy
<1>2. ASSUME checkpoint.phase = "complete"
      PROVE  Decided(checkpoint.basis, verdict', Known)
  <2> PICK S : S = checkpoint.basis.eligible
    OBVIOUS
  <2>1. ~({d[1], d[2]} \subseteq S)
    BY <1>2, NewJudgmentBeside
  <2>2. S \subseteq Claims
    BY <1>2 DEF TypeOK, Checkpoints, Bases, NoCheckpoint
  <2>3. Decided(checkpoint.basis, verdict, Known)
    BY <1>2 DEF JournalDecides
  <2>4. ASSUME NEW old \in S
        PROVE  Successors(old, verdict', S) = {}
    <3> SUFFICES ASSUME NEW new \in S, new # old, verdict'[<<old, new>>] = "supersedes"
                 PROVE  FALSE
      BY DEF Successors
    <3>1. <<old, new>> \in Directed
      BY <2>2 DEF Directed
    <3>2. <<old, new>> # d
      BY <2>1
    <3>3. verdict[<<old, new>>] = "supersedes"
      BY <1>0, <3>1, <3>2
    <3>4. new \in Successors(old, verdict, S)
      BY <3>3 DEF Successors
    <3> QED BY <2>3, <3>4 DEF Decided
  <2>5. ASSUME NEW q \in PairsOf(S), "conflicts" \in {verdict'[q], verdict'[Reverse(q)]}
        PROVE  q \in Known
    <3>1. q \in Directed /\ Reverse(q) \in Directed /\ q[1] \in S /\ q[2] \in S
      BY PairTypes DEF PairsOf
    <3>2. q # d /\ Reverse(q) # d
      BY <2>1, <3>1 DEF Reverse
    <3>3. "conflicts" \in {verdict[q], verdict[Reverse(q)]}
      BY <1>0, <2>5, <3>1, <3>2
    <3> QED BY <2>3, <3>3 DEF Decided
  <2> QED BY <2>4, <2>5 DEF Decided
<1> QED BY <1>0, <1>1, <1>2 DEF JournalDecides, Decided

LEMMA JudgmentDecides ==
  ASSUME TypeOK, Coverage, PassIsNow, JournalDecides, NEW t \in Threads, AppendJudgment(t),
         PassDecides(pass[t]), WaitsOrHandled(pass[t])
  PROVE  JournalDecides' /\ PassDecides(pass[t])' /\ WaitsOrHandled(pass[t])'
<1> PICK o : o = pass[t]
  OBVIOUS
<1> PICK r : r = pass'[t]
  OBVIOUS
<1>0. /\ o \in PublishingPasses /\ o.phase = "publishing"
      /\ r.phase = "publishing" /\ r.draft = o.draft
      /\ r.edges = o.edges /\ r.clashes = o.clashes
  <2>1. Append(t) /\ ~AppendCheckpoint(t)
    BY DEF Append, AppendJudgment, AppendCheckpoint
  <2> QED BY <2>1, AppendFields
<1>1. JudgesOnce(o.judgments) /\ o.judgments \subseteq Judgments
  BY <1>0 DEF PassIsNow, PublishingIsNow, PublishingPasses
<1>2. PICK j \in o.judgments :
        /\ OnJudged(j[1], j[2]) /\ r.judgments = o.judgments \ {j}
        /\ j[1] \in Directed /\ j[2] \in Verdicts /\ j = <<j[1], j[2]>>
  BY JudgmentTaken
<1>3. /\ recorded' = recorded /\ successor' = successor /\ dispute' = dispute
      /\ policy' = policy /\ checkpoint' = checkpoint /\ lost' = lost
  BY DEF AppendJudgment, ledger, settings
<1>4. Current' = Current /\ Known' = Known /\ Dropped(r) = Dropped(o)
  BY <1>0, <1>3 DEF Current, Known, Dropped
<1>5. /\ \A k \in o.judgments : OfPolicy(k[1])
      /\ o.draft.phase = "complete" =>
           /\ Decided(o.draft.basis, Authority(o.judgments), Known)
           /\ \A d \in Directed : Authority(o.judgments)[d] = "supersedes" => Handled(d, o)
      /\ o.draft.phase = "partial" =>
           /\ o.edges = {} /\ o.clashes = {}
           /\ \A k \in o.judgments : {k[1][1], k[1][2]} \subseteq Current
  BY <1>0 DEF PassDecides
<1>6. ~Judged(j[1])
  BY <1>1 DEF JudgesOnce
<1>7. JournalDecides'
  BY <1>2, <1>3, <1>5, <1>6, JournalAfterJudgment
<1>8. Authority(r.judgments)' = Authority(o.judgments)
  BY <1>1, <1>2, AuthorityKept
<1>9. \A d : Handled(d, r)' <=> Handled(d, o)
  BY <1>3, <1>4 DEF Handled
<1>10. PassDecides(r)'
  BY <1>0, <1>2, <1>3, <1>4, <1>5, <1>8, <1>9 DEF PassDecides, OfPolicy, Decided
<1>11. ASSUME NEW d \in Directed, verdict'[d] = "supersedes"
       PROVE  {d[1], d[2]} \subseteq Current \/ Handled(d, o)
  <2>1. CASE d = j[1]
    <3>1. verdict[d] = "none"
      BY <1>6, <2>1 DEF Judged
    <3>2. j[2] = "supersedes"
      BY <1>2, <1>11, <2>1, <3>1 DEF OnJudged, TypeOK
    <3>3. Authority(o.judgments)[d] = "supersedes"
      BY <1>1, <1>2, <2>1, <3>2, AuthorityOfNew
    <3>4. o.draft.phase \in {"partial", "complete"}
      BY <1>0 DEF PublishingPasses, Checkpoints
    <3> QED BY <1>5, <2>1, <3>3, <3>4
  <2>2. CASE d # j[1]
    <3>1. verdict[d] = "supersedes"
      BY <1>2, <1>11, <2>2 DEF OnJudged, TypeOK
    <3> QED BY <3>1 DEF WaitsOrHandled
  <2> QED BY <2>1, <2>2
<1>12. WaitsOrHandled(r)'
  BY <1>4, <1>9, <1>11 DEF WaitsOrHandled
<1> QED BY <1>7, <1>10, <1>12 DEF PassDecides, WaitsOrHandled, Handled, Dropped

(* Only the end of a campaign has decisions to publish; what it publishes  *)
(* stays handled.                                                          *)
LEMMA EdgeDecides ==
  ASSUME TypeOK, JournalDecides, NEW t \in Threads, AppendEdge(t), PassDecides(pass[t])
  PROVE  JournalDecides' /\ PassDecides(pass[t])' /\ WaitsOrHandled(pass[t])'
<1> PICK o : o = pass[t]
  OBVIOUS
<1> PICK r : r = pass'[t]
  OBVIOUS
<1>0. /\ o \in PublishingPasses /\ o.phase = "publishing"
      /\ r.phase = "publishing" /\ r.draft = o.draft
      /\ r.judgments = {} /\ o.judgments = {} /\ r.clashes = o.clashes
  <2>1. Append(t) /\ ~AppendCheckpoint(t)
    BY DEF Append, AppendEdge, AppendCheckpoint
  <2> QED BY <2>1, AppendFields
<1>1. PICK e \in o.edges :
        /\ successor' = [successor EXCEPT ![e[1]] = IF @ = 0 THEN e[2] ELSE @]
        /\ r.edges = o.edges \ {e} /\ e \in Directed
  BY EdgeTaken
<1>2. /\ dispute' = dispute /\ verdict' = verdict /\ policy' = policy
      /\ checkpoint' = checkpoint /\ lost' = lost
  BY DEF AppendEdge, settings, settlement
<1>3. Known' = Known /\ Authority({})' = verdict /\ Authority({}) = verdict
  BY <1>2, AuthorityOfNone DEF Known, Authority
<1>4. o.draft.phase = "complete"
  <2>1. o.draft.phase \in {"partial", "complete"}
    BY <1>0 DEF PublishingPasses, Checkpoints
  <2> QED BY <1>0, <1>1, <2>1 DEF PassDecides
<1>5. /\ Decided(o.draft.basis, verdict, Known)
      /\ \A d \in Directed : verdict[d] = "supersedes" => Handled(d, o)
  BY <1>0, <1>3, <1>4 DEF PassDecides
<1>6. ASSUME NEW d \in Directed, Handled(d, o)
      PROVE  Handled(d, r)'
  <2>0. d[1] \in Claims /\ e[1] \in Claims /\ e[2] \in Claims /\ e[2] # 0
    BY <1>1 DEF Directed, Claims
  <2>1. CASE d[1] = e[1]
    <3>1. successor'[d[1]] # 0
      BY <1>1, <2>0, <2>1 DEF TypeOK
    <3> QED BY <3>1 DEF Handled
  <2>2. CASE d[1] # e[1]
    <3>1. successor'[d[1]] = successor[d[1]]
      BY <1>1, <2>0, <2>2 DEF TypeOK
    <3>2. d[1] \in Dropped(o) => d[1] \in Dropped(r)
      BY <1>0, <1>1, <2>2 DEF Dropped
    <3> QED BY <1>2, <1>6, <3>1, <3>2 DEF Handled, Dropped
  <2> QED BY <2>1, <2>2
<1>7. JournalDecides'
  BY <1>2, <1>3, JournalStays
<1>8. PassDecides(r)'
  BY <1>0, <1>2, <1>3, <1>4, <1>5, <1>6 DEF PassDecides, Decided
<1>9. WaitsOrHandled(r)'
  BY <1>2, <1>5, <1>6 DEF WaitsOrHandled
<1> QED BY <1>7, <1>8, <1>9 DEF PassDecides, WaitsOrHandled, Handled, Dropped

LEMMA ClashDecides ==
  ASSUME TypeOK, JournalDecides, NEW t \in Threads, AppendClash(t), PassDecides(pass[t])
  PROVE  JournalDecides' /\ PassDecides(pass[t])' /\ WaitsOrHandled(pass[t])'
<1> PICK o : o = pass[t]
  OBVIOUS
<1> PICK r : r = pass'[t]
  OBVIOUS
<1>0. /\ o \in PublishingPasses /\ o.phase = "publishing"
      /\ r.phase = "publishing" /\ r.draft = o.draft
      /\ r.judgments = {} /\ o.judgments = {} /\ r.edges = {} /\ o.edges = {}
  <2>1. Append(t) /\ ~AppendCheckpoint(t)
    BY DEF Append, AppendClash, AppendCheckpoint
  <2> QED BY <2>1, AppendFields
<1>1. PICK q \in o.clashes :
        dispute' = [dispute EXCEPT ![q] = IF @ = "none" THEN "open" ELSE @]
  BY ClashTaken
<1>2. /\ successor' = successor /\ verdict' = verdict /\ policy' = policy
      /\ checkpoint' = checkpoint /\ lost' = lost
  BY DEF AppendClash, settings, settlement
<1>3. Known \subseteq Known' /\ Authority({})' = verdict /\ Authority({}) = verdict
  BY <1>1, <1>2, AuthorityOfNone DEF Known, Authority, TypeOK
<1>4. o.draft.phase = "complete"
  <2>1. o.draft.phase \in {"partial", "complete"}
    BY <1>0 DEF PublishingPasses, Checkpoints
  <2> QED BY <1>0, <1>1, <2>1 DEF PassDecides
<1>5. /\ Decided(o.draft.basis, verdict, Known)
      /\ \A d \in Directed : verdict[d] = "supersedes" => Handled(d, o)
  BY <1>0, <1>3, <1>4 DEF PassDecides
<1>6. \A d : Handled(d, o) => Handled(d, r)'
  BY <1>0, <1>2 DEF Handled, Dropped
<1>7. JournalDecides'
  BY <1>2, <1>3, JournalStays
<1>8. Decided(o.draft.basis, verdict, Known')
  BY <1>3, <1>5, DecidedStays
<1>9. PassDecides(r)'
  BY <1>0, <1>2, <1>3, <1>4, <1>5, <1>6, <1>8 DEF PassDecides, Decided
<1>10. WaitsOrHandled(r)'
  BY <1>2, <1>5, <1>6 DEF WaitsOrHandled
<1> QED BY <1>7, <1>9, <1>10 DEF PassDecides, WaitsOrHandled, Handled, Dropped

LEMMA CheckpointDecides ==
  ASSUME TypeOK, PassIsNow, JournalDecides, NEW t \in Threads, AppendCheckpoint(t),
         PassDecides(pass[t]), WaitsOrHandled(pass[t])
  PROVE  JournalDecides' /\ PassDecides(pass[t])' /\ WaitsOrHandled(pass[t])'
<1> PICK o : o = pass[t]
  OBVIOUS
<1>0. /\ o.phase = "publishing" /\ o.judgments = {} /\ o.edges = {}
      /\ checkpoint' = o.draft /\ pass'[t] = Idle
  BY DEF AppendCheckpoint, TypeOK
<1>1. /\ recorded' = recorded /\ successor' = successor /\ dispute' = dispute
      /\ verdict' = verdict /\ policy' = policy /\ lost' = lost
  BY DEF AppendCheckpoint, ledger, settings, settlement
<1>2. Current' = Current /\ Known' = Known /\ Authority({}) = verdict
  BY <1>1, AuthorityOfNone DEF Current, Known
<1>3. o.draft.policy = policy
  BY <1>0 DEF PassIsNow, PublishingIsNow
<1>4. o.draft.phase = "complete" => Decided(o.draft.basis, verdict, Known)
  BY <1>0, <1>2 DEF PassDecides
<1>5. JournalDecides'
  BY <1>0, <1>1, <1>2, <1>3, <1>4 DEF JournalDecides, OfPolicy, Decided
<1>6. PassDecides(Idle)'
  BY DEF PassDecides, Idle
<1>7. Dropped(o) = {}
  BY <1>0 DEF Dropped
<1>8. WaitsOrHandled(Idle)'
  BY <1>1, <1>2, <1>7 DEF WaitsOrHandled, Handled
<1> QED BY <1>0, <1>5, <1>6, <1>8 DEF PassDecides, WaitsOrHandled, Handled, Dropped

(* Steps that change neither the journal's decisions nor what is current   *)
LEMMA NothingDecided ==
  ASSUME UNCHANGED <<recorded, successor, dispute, verdict, policy, checkpoint, lost>>, NEW o
  PROVE  /\ JournalDecides => JournalDecides'
         /\ PassDecides(o) => PassDecides(o)'
         /\ WaitsOrHandled(o) => WaitsOrHandled(o)'
<1>1. Current' = Current /\ Known' = Known
  BY DEF Current, Known
<1>2. JournalDecides => JournalDecides'
  BY <1>1, JournalStays
<1>3. Authority(o.judgments)' = Authority(o.judgments)
  BY DEF Authority
<1>4. \A d : Handled(d, o)' <=> Handled(d, o)
  BY DEF Handled
<1>5. PassDecides(o) => PassDecides(o)'
  BY <1>1, <1>3, <1>4 DEF PassDecides, OfPolicy, Decided
<1>6. WaitsOrHandled(o) => WaitsOrHandled(o)'
  BY <1>1, <1>4 DEF WaitsOrHandled
<1> QED BY <1>2, <1>5, <1>6

LEMMA PassKeepsDecisions ==
  ASSUME TypeOK, Coverage, PassIsNow, Decisions, Comparable, OneProcess,
         NEW t \in Threads, Pass(t)
  PROVE  Decisions'
<1>0. \A u \in Threads : u # t => pass[u] = Idle /\ pass'[u] = Idle
  BY IdleBeside
<1>1. JournalDecides /\ PassDecides(pass[t]) /\ WaitsOrHandled(pass[t])
  BY <1>0, OnlyPassDecides
<1> PICK o : o = pass[t]
  OBVIOUS
<1> PICK r : r = pass'[t]
  OBVIOUS
<1>2. SUFFICES JournalDecides' /\ PassDecides(r)' /\ WaitsOrHandled(r)'
  <2>1. ASSUME JournalDecides', PassDecides(r)', WaitsOrHandled(r)'
        PROVE  JournalDecides' /\ PassDecides(pass[t])' /\ WaitsOrHandled(pass[t])'
    BY <2>1 DEF PassDecides, WaitsOrHandled, Handled, Dropped
  <2>2. JournalDecides' /\ PassDecides(pass[t])' /\ WaitsOrHandled(pass[t])' => Decisions'
    <3>1. \A d \in Directed : Handled(d, Idle)' => Handled(d, pass[t])'
      BY DEF Handled, Dropped, Idle
    <3>2. PassDecides(Idle)'
      BY DEF PassDecides, Idle
    <3>3. \A u \in Threads : u # t => (PassDecides(pass[u])' <=> PassDecides(Idle)')
      BY <1>0 DEF PassDecides, Handled, Dropped
    <3> QED BY <1>0, <3>1, <3>2, <3>3 DEF Decisions, WaitsOrHandled
  <2> QED BY <2>1, <2>2
<1>3. ASSUME UNCHANGED <<recorded, successor, dispute, verdict, policy, checkpoint, lost>>,
             PassDecides(r), Dropped(o) \subseteq Dropped(r)
      PROVE  JournalDecides' /\ PassDecides(r)' /\ WaitsOrHandled(r)'
  <2>1. WaitsOrHandled(r)
    BY <1>1, <1>3 DEF WaitsOrHandled, Handled
  <2> QED BY <1>1, <1>3, <2>1, NothingDecided
<1>4. CASE \E budget \in Budgets, rejudge \in BOOLEAN : Prepare(t, budget, rejudge)
  <2>1. o = Idle /\ r.phase = "prepared"
    BY <1>4 DEF Prepare, TypeOK
  <2>2. PassDecides(r) /\ Dropped(o) = {}
    BY <2>1 DEF PassDecides, Dropped, Idle
  <2>3. UNCHANGED <<recorded, successor, dispute, verdict, policy, checkpoint, lost>>
    BY <1>4 DEF Prepare, ledger, settings, settlement
  <2> QED BY <1>3, <2>2, <2>3
<1>5. CASE \E d \in Directed, w \in Verdicts : Rejudge(t, d, w)
  <2>0. PICK d \in Directed, w \in Verdicts : Rejudge(t, d, w)
    BY <1>5
  <2>1. UNCHANGED <<recorded, successor, dispute, verdict, policy, checkpoint, lost>>
    BY <2>0, RejudgeSees DEF Rejudge, Seen
  <2>2. o \in PreparedPasses /\ o.phase = "prepared" /\ PreparedIsNow(o)
    BY <2>0, Phases DEF Rejudge, TypeOK, Passes, PassIsNow
  <2>3. Dropped(o) = {}
    BY <2>2 DEF Dropped
  <2>4. CASE o.settled
    <3>1. r = Recheckpointed(o)
      BY <2>0, <2>4 DEF Rejudge, TypeOK
    <3>2. /\ r.phase = "publishing" /\ r.judgments = {}
          /\ r.draft.phase = "complete" /\ r.draft.basis = o.basis
      BY <3>1 DEF Recheckpointed, Draft
    <3>3. checkpoint.phase = "complete" /\ checkpoint.basis = Basis /\ o.basis = Basis
      BY <2>2, <2>4 DEF PreparedIsNow, GateComplete, Matches
    <3>4. Decided(Basis, verdict, Known)
      BY <1>1, <3>3 DEF JournalDecides
    <3>5. ASSUME NEW x \in Directed, verdict[x] = "supersedes" PROVE Handled(x, r)
      <4>1. ~({x[1], x[2]} \subseteq Current)
        <5> SUFFICES ASSUME {x[1], x[2]} \subseteq Current PROVE FALSE
          OBVIOUS
        <5>1. x = <<x[1], x[2]>> /\ x[1] # x[2]
          BY DEF Directed
        <5>2. x[2] \in Successors(x[1], verdict, Current) /\ x[1] \in Current
          BY <3>5, <5>1 DEF Successors
        <5> QED BY <3>4, <5>2 DEF Decided, Basis
      <4> QED BY <1>1, <2>3, <3>5, <4>1 DEF WaitsOrHandled, Handled
    <3>6. PassDecides(r)
      BY <3>2, <3>3, <3>4, <3>5, AuthorityOfNone DEF PassDecides
    <3> QED BY <1>3, <2>1, <2>3, <3>6
  <2>5. CASE ~o.settled
    <3>1. r = [o EXCEPT !.rejudge = FALSE]
      BY <2>0, <2>5 DEF Rejudge, TypeOK
    <3>2. r.phase = "prepared"
      BY <2>2, <3>1 DEF PreparedPasses
    <3>3. PassDecides(r)
      BY <3>2 DEF PassDecides
    <3> QED BY <1>3, <2>1, <2>3, <3>3
  <2> QED BY <2>4, <2>5
<1>6. CASE Evaluate(t, Verdicts \cup {"failed"})
  <2>0. o \in PreparedPasses /\ o.phase = "prepared" /\ PreparedIsNow(o)
    BY <1>6, Phases DEF TypeOK, Passes, Evaluate, PassIsNow
  <2>1. PICK answer \in [Live(o) -> Verdicts \cup {"failed"}] :
          pass' = [pass EXCEPT ![t] = Outcome(o, answer)]
    BY <1>6 DEF Evaluate, AnswersTo
  <2>2. r = Outcome(o, answer)
    BY <2>1 DEF TypeOK
  <2>3. PassDecides(r)
    BY <1>1, <2>0, <2>2, OutcomeDecides
  <2>4. Dropped(o) = {}
    BY <2>0 DEF Dropped
  <2>5. UNCHANGED <<recorded, successor, dispute, verdict, policy, checkpoint, lost>>
    BY <1>6 DEF Evaluate, ledger, settings, settlement
  <2> QED BY <1>3, <2>3, <2>4, <2>5
<1>7. ASSUME JournalDecides', PassDecides(pass[t])', WaitsOrHandled(pass[t])'
      PROVE  JournalDecides' /\ PassDecides(r)' /\ WaitsOrHandled(r)'
  BY <1>7 DEF PassDecides, WaitsOrHandled, Handled, Dropped
<1>8. CASE AppendJudgment(t)
  BY <1>1, <1>7, <1>8, JudgmentDecides
<1>9. CASE AppendEdge(t)
  BY <1>1, <1>7, <1>9, EdgeDecides
<1>10. CASE AppendClash(t)
  BY <1>1, <1>7, <1>10, ClashDecides
<1>11. CASE AppendCheckpoint(t)
  BY <1>1, <1>7, <1>11, CheckpointDecides
<1>12. CASE AppendDeferral(t)
  <2>1. /\ r.phase = "publishing" /\ o.phase = "publishing" /\ r.draft = o.draft
        /\ r.judgments = o.judgments /\ r.edges = o.edges /\ r.clashes = o.clashes
    <3>1. Append(t) /\ ~AppendCheckpoint(t)
      BY <1>12 DEF Append, AppendDeferral, AppendCheckpoint
    <3> QED BY <1>12, <3>1, AppendFields
  <2>2. Dropped(r) = Dropped(o)
    BY <2>1 DEF Dropped
  <2>3. PassDecides(r)
    BY <1>1, <2>1, <2>2 DEF PassDecides, Handled
  <2>4. UNCHANGED <<recorded, successor, dispute, verdict, policy, checkpoint, lost>>
    BY <1>12 DEF AppendDeferral, ledger, settings
  <2> QED BY <1>3, <2>2, <2>3, <2>4
<1>13. CASE Fail(t)
  <2>1. /\ r = Idle /\ lost' = lost \cup Dropped(o)
        /\ UNCHANGED <<recorded, successor, dispute, verdict, policy, checkpoint>>
    BY <1>13 DEF Fail, TypeOK, ledger, settings, settlement
  <2>2. Current' = Current /\ Known' = Known
    BY <2>1 DEF Current, Known
  <2>3. JournalDecides'
    BY <1>1, <2>1, <2>2, JournalStays
  <2>4. PassDecides(r)'
    BY <2>1 DEF PassDecides, Idle
  <2>5. \A d : Handled(d, o) => Handled(d, r)'
    BY <2>1 DEF Handled
  <2>6. WaitsOrHandled(r)'
    BY <1>1, <2>1, <2>2, <2>5 DEF WaitsOrHandled
  <2> QED BY <2>3, <2>4, <2>6
<1> QED BY <1>4, <1>5, <1>6, <1>8, <1>9, <1>10, <1>11, <1>12, <1>13 DEF Pass, Append

LEMMA CrashKeepsDecisions ==
  ASSUME TypeOK, Decisions, Crash
  PROVE  Decisions'
<1>1. /\ \A t \in Threads : pass'[t] = Idle
      /\ lost' = lost \cup UNION {Dropped(pass[t]) : t \in Threads}
      /\ UNCHANGED <<recorded, successor, dispute, verdict, policy, checkpoint>>
  BY DEF Crash, ledger, settings, settlement
<1>2. Current' = Current /\ Known' = Known
  BY <1>1 DEF Current, Known
<1>3. JournalDecides'
  BY <1>1, <1>2, JournalStays DEF Decisions
<1>4. \A t \in Threads : PassDecides(pass[t])'
  BY <1>1 DEF PassDecides, Idle
<1>5. \A d : (\E t \in Threads : Handled(d, pass[t])) \/ Handled(d, Idle) => Handled(d, Idle)'
  <2>1. Dropped(Idle) = {}
    BY DEF Dropped, Idle
  <2>2. \A t \in Threads : Dropped(pass[t]) \subseteq lost'
    BY <1>1
  <2>3. lost \subseteq lost'
    BY <1>1
  <2> QED BY <1>1, <2>1, <2>2, <2>3 DEF Handled
<1>6. \A d \in Directed : verdict'[d] = "supersedes" =>
        {d[1], d[2]} \subseteq Current' \/ Handled(d, Idle)'
  BY <1>1, <1>2, <1>5 DEF Decisions
<1> QED BY <1>3, <1>4, <1>6 DEF Decisions

(* No other operation decides, nor takes a claim from those current.       *)
LEMMA OtherKeepsDecisions ==
  ASSUME TypeOK, Decisions, DecidedByCampaigns, OneProcess, Other
  PROVE  Decisions'
<1>1. AllIdle /\ pass' = pass
  BY DEF Other, Record, Supersede, Open, Settle, IndexSources, Configure, MayRun, OneProcess
<1>2. Record \/ (\E q \in Pairs : Settle(q)) \/ IndexSources
  <2>1. "supersede" \notin Others /\ "open" \notin Others /\ "policy" \notin Others
    BY DEF DecidedByCampaigns
  <2>2. /\ \A old, new \in Claims : ~Supersede(old, new)
        /\ \A q \in Pairs : ~Open(q)
        /\ ~Configure
    BY <2>1 DEF Supersede, Open, Configure
  <2> QED BY <2>2 DEF Other
<1>3. UNCHANGED <<successor, verdict, policy, checkpoint, lost>>
  BY <1>2 DEF Record, Settle, IndexSources, ledger, settings, settlement
<1>4. Current \subseteq Current' /\ Known \subseteq Known'
  <2>1. CASE Record
    BY <2>1 DEF Record, Current, Known, TypeOK
  <2>2. CASE \E q \in Pairs : Settle(q)
    <3>1. PICK q \in Pairs : Settle(q)
      BY <2>2
    <3>2. /\ dispute'[q] = "settled" /\ \A x \in Pairs : x # q => dispute'[x] = dispute[x]
          /\ recorded' = recorded /\ successor' = successor
      BY <3>1 DEF Settle, TypeOK
    <3> QED BY <3>1, <3>2 DEF Settle, Current, Known
  <2>3. CASE IndexSources
    BY <2>3 DEF IndexSources, ledger, Current, Known
  <2> QED BY <1>2, <2>1, <2>2, <2>3
<1>5. JournalDecides'
  BY <1>3, <1>4, JournalStays DEF Decisions
<1>6. \A t \in Threads : PassDecides(pass[t])'
  BY <1>1 DEF AllIdle, PassDecides, Idle
<1>7. \A d : (\E t \in Threads : Handled(d, pass[t])) \/ Handled(d, Idle) => Handled(d, Idle)'
  BY <1>1, <1>3 DEF AllIdle, Handled, Dropped, Idle
<1>8. \A d \in Directed : verdict'[d] = "supersedes" =>
        {d[1], d[2]} \subseteq Current' \/ Handled(d, Idle)'
  BY <1>3, <1>4, <1>7 DEF Decisions
<1> QED BY <1>5, <1>6, <1>8 DEF Decisions

LEMMA StutterKeepsDecisions ==
  ASSUME Decisions, UNCHANGED vars
  PROVE  Decisions'
<1>1. /\ UNCHANGED <<recorded, successor, dispute, verdict, policy, checkpoint, lost>>
      /\ pass' = pass
  BY DEF vars
<1>2. Current' = Current /\ Known' = Known /\ JournalDecides'
  BY <1>1, NothingDecided DEF Decisions, Current, Known
<1>3. ASSUME NEW t \in Threads PROVE PassDecides(pass[t])'
  <2> PICK o : o = pass[t]
    OBVIOUS
  <2>1. PassDecides(o)'
    BY <1>1, NothingDecided DEF Decisions
  <2> QED BY <1>1, <2>1 DEF PassDecides, Handled, Dropped
<1>4. \A d : /\ Handled(d, Idle)' <=> Handled(d, Idle)
             /\ \A t \in Threads : Handled(d, pass[t])' <=> Handled(d, pass[t])
  BY <1>1 DEF Handled, Dropped
<1> QED BY <1>1, <1>2, <1>3, <1>4 DEF Decisions

LEMMA DecisionsInvariant ==
  OneProcess /\ Comparable /\ DecidedByCampaigns =>
    (Spec => [](TypeOK /\ Coverage /\ PassIsNow /\ Decisions))
<1> SUFFICES ASSUME OneProcess, Comparable, DecidedByCampaigns
             PROVE  Spec => [](TypeOK /\ Coverage /\ PassIsNow /\ Decisions)
  OBVIOUS
<1>1. Init => Decisions
  <2> SUFFICES ASSUME Init PROVE Decisions
    OBVIOUS
  <2>1. \A d \in Directed : verdict[d] = "none"
    BY DEF Init
  <2>2. checkpoint = NoCheckpoint /\ \A t \in Threads : pass[t] = Idle
    BY DEF Init
  <2> QED BY <2>1, <2>2 DEF Decisions, JournalDecides, PassDecides, NoCheckpoint, Idle
<1>2. ASSUME TypeOK, TypeOK', Coverage, PassIsNow, Decisions, [Next]_vars
      PROVE  Decisions'
  BY <1>2, PassKeepsDecisions, CrashKeepsDecisions, OtherKeepsDecisions, StutterKeepsDecisions
     DEF Next
<1>3. Spec => [](TypeOK /\ PassIsNow)
  BY PassIsNowInvariant
<1>4. TypeOK /\ Coverage /\ PassIsNow /\ Decisions /\ [Next]_vars /\ (TypeOK /\ PassIsNow)'
        => Decisions'
  BY <1>2
<1> QED BY <1>1, <1>3, <1>4, CoverageInvariant, PTL DEF Spec

(* When a process is alone in the journal, revisions compare and claims    *)
(* are superseded and disputed by campaigns alone: the last page publishes *)
(* what all pages decided, only what the journal has as authority, and a   *)
(* decision is lost only by a stop inside a publication, for any number of *)
(* claims and pages (finish_page, publish_relate_pass).                    *)
THEOREM CampaignsPublishAll ==
  OneProcess /\ Comparable /\ DecidedByCampaigns => (Spec => []PublicationsAreSound)
<1> SUFFICES ASSUME OneProcess, Comparable, DecidedByCampaigns
             PROVE  Spec => []PublicationsAreSound
  OBVIOUS
<1>1. ASSUME TypeOK, PassIsNow, Decisions
      PROVE  PublicationsAreSound
  <2>1. ASSUME GateComplete
        PROVE  Decided(Basis, verdict, Known) /\ Basis.eligible = Current
    BY <1>1, <2>1 DEF GateComplete, Matches, Decisions, JournalDecides, Basis
  <2>2. NothingLeftToDecide
    <3> SUFFICES ASSUME GateComplete
                 PROVE  Edges(verdict, Basis) = {} /\ Clashes(verdict, Basis, Known) = {}
      BY DEF NothingLeftToDecide, Known
    <3>1. \A e \in Edges(verdict, Basis) : FALSE
      BY <2>1 DEF Edges, Decided
    <3>2. \A q \in Clashes(verdict, Basis, Known) : FALSE
      BY <2>1 DEF Clashes, Decided
    <3> QED BY <3>1, <3>2
  <2>3. OnlyInterruptionLosesDecisions
    <3> SUFFICES ASSUME GateComplete, NEW d \in Directed, d[1] \in Current,
                        verdict[d] = "supersedes"
                 PROVE  d[1] \in lost \/ \E t \in Threads : d[1] \in Dropped(pass[t])
      BY DEF OnlyInterruptionLosesDecisions
    <3>1. d[2] \notin Current
      <4> SUFFICES ASSUME d[2] \in Current PROVE FALSE
        OBVIOUS
      <4>1. d = <<d[1], d[2]>> /\ d[1] # d[2]
        BY DEF Directed
      <4>2. d[2] \in Successors(d[1], verdict, Current)
        BY <4>1 DEF Successors
      <4> QED BY <2>1, <4>2 DEF Decided
    <3>2. successor[d[1]] = 0
      BY DEF Current
    <3>3. Dropped(Idle) = {}
      BY DEF Dropped, Idle
    <3> QED BY <1>1, <3>1, <3>2, <3>3 DEF Decisions, Handled
  <2>4. PublishesAuthority
    <3> SUFFICES ASSUME NEW t \in Threads, pass[t].phase = "publishing",
                        pass[t].judgments = {}
                 PROVE  /\ \A e \in pass[t].edges : verdict[e] = "supersedes"
                        /\ \A q \in pass[t].clashes :
                             "conflicts" \in {verdict[q], verdict[Reverse(q)]}
      BY DEF PublishesAuthority
    <3>1. Authority(pass[t].judgments) = verdict
      BY <1>1, AuthorityOfNone
    <3> QED BY <1>1, <3>1 DEF PassIsNow, PublishingIsNow
  <2> QED BY <2>2, <2>3, <2>4 DEF PublicationsAreSound
<1> QED BY <1>1, DecisionsInvariant, PTL

-----------------------------------------------------------------------------
(* Where revisions do not always compare                                   *)

NotLater(i, a, b) == Order[i][<<a, b>>] \in {"none", "same", "before"}

(* A pair compares alike from both ends, and what is not later than a      *)
(* claim is not later than what that claim is not later than.              *)
OrderIsPartial ==
  \A i \in Indexes :
    /\ \A d \in Directed :
         /\ Order[i][d] = "after" => Order[i][Reverse(d)] = "before"
         /\ Order[i][Reverse(d)] \in Incomparable => Order[i][d] \in Incomparable
    /\ \A a, b, c \in Claims :
         a # b /\ b # c /\ a # c /\ NotLater(i, a, b) /\ NotLater(i, b, c) =>
           NotLater(i, a, c)

OrderIsFixed == "index" \notin Others

(* The successor kept is not earlier than any other.                       *)
LEMMA KeptIsLatest ==
  ASSUME OrderIsPartial, NEW old, NEW v, NEW S \in SUBSET Claims, NEW i \in Indexes,
         NEW f, f = Kept(old, v, S, i), ~Tainted(old, v, S, i), NEW k \in 0..N
  PROVE  \A r \in Successors(old, v, S) : r <= k /\ r # f[k] => NotLater(i, r, f[k])
<1> DEFINE T == Successors(old, v, S)
           P(n) == \A r \in T : r <= n /\ r # f[n] => NotLater(i, r, f[n])
<1>0. T \subseteq Claims
  BY DEF Successors
<1>1. PICK M : M = {n \in Nat : n <= N => P(n)}
  OBVIOUS
<1>2. 0 \in M
  <2>1. \A r \in T : ~(r <= 0)
    BY <1>0 DEF Claims
  <2> QED BY <1>1, <2>1
<1>3. ASSUME NEW n \in Nat, n \in M PROVE n + 1 \in M
  <2> SUFFICES ASSUME n + 1 <= N PROVE P(n + 1)
    BY <1>1
  <2>0. P(n) /\ n \in 0..N /\ n + 1 \in 0..N /\ (n + 1) - 1 = n
    BY <1>1, <1>3
  <2> PICK c : c = n + 1
    OBVIOUS
  <2> PICK held : held = f[n]
    OBVIOUS
  <2>1. f[c] = KeptAfter(held, c, old, v, S, i)
    BY <2>0, KeptAt
  <2>2. \A r \in T : r <= c => r <= n \/ r = c
    BY <1>0 DEF Claims
  <2>3. CASE c \notin T
    <3>1. f[c] = held
      BY <2>1, <2>3 DEF KeptAfter
    <3> QED BY <2>0, <2>2, <2>3, <3>1
  <2>4. CASE c \in T /\ held = 0
    <3>1. f[c] = c
      BY <2>1, <2>4 DEF KeptAfter
    <3>2. \A r \in T : r > n
      BY <2>0, <2>4, KeptIsSuccessor
    <3>3. \A r \in T : r <= c => r = c
      BY <1>0, <3>2 DEF Claims
    <3> QED BY <3>1, <3>3
  <2>5. CASE c \in T /\ held # 0
    <3>1. held \in T /\ held <= n
      BY <2>0, <2>5, KeptIsSuccessor
    <3>2. held \in Claims /\ c \in Claims /\ held # c
      BY <1>0, <2>0, <2>5, <3>1 DEF Claims
    <3>3. PICK d \in Directed : d = <<held, c>>
      BY <3>2 DEF Directed
    <3>4. Order[i][d] \in Relations /\ Order[i][d] \notin Incomparable
      BY <2>0, <2>5, <3>3 DEF Tainted
    <3>5. CASE Order[i][d] = "after"
      <4>1. f[c] = held
        BY <2>1, <2>5, <3>3, <3>5 DEF KeptAfter
      <4>2. NotLater(i, c, held)
        BY <3>3, <3>5 DEF OrderIsPartial, NotLater, Reverse
      <4> QED BY <2>0, <2>2, <4>1, <4>2
    <3>6. CASE Order[i][d] # "after"
      <4>1. f[c] = c
        BY <2>1, <2>5, <3>3, <3>6 DEF KeptAfter
      <4>2. NotLater(i, held, c)
        BY <3>3, <3>4, <3>6 DEF NotLater, Relations, Incomparable
      <4>3. ASSUME NEW r \in T, r <= n, r # held
            PROVE  NotLater(i, r, c)
        <5>1. NotLater(i, r, held)
          BY <2>0, <4>3
        <5>2. r \in Claims /\ r # c
          BY <1>0, <2>0, <4>3 DEF Claims
        <5> QED BY <3>2, <4>2, <4>3, <5>1, <5>2 DEF OrderIsPartial
      <4> QED BY <2>2, <4>1, <4>2, <4>3
    <3> QED BY <3>5, <3>6
  <2> QED BY <2>3, <2>4, <2>5
<1>4. k \in M
  BY <1>2, <1>3, Induction
<1> QED BY <1>1, <1>4

LEMMA EdgesAreLatest ==
  ASSUME OrderIsPartial, NEW v, NEW b \in Bases, NEW e \in Edges(v, b),
         NEW rival \in b.eligible \ {e[1], e[2]}, v[<<e[1], rival>>] = "supersedes"
  PROVE  Order[b.index][<<rival, e[2]>>] \notin Incomparable
<1> DEFINE S == b.eligible
<1>0. S \in SUBSET Claims /\ b.index \in Indexes
  BY DEF Bases
<1> PICK f : f = Kept(e[1], v, S, b.index)
  OBVIOUS
<1>1. e[2] = f[N] /\ ~Tainted(e[1], v, S, b.index)
  BY DEF Edges
<1>2. rival \in Successors(e[1], v, S)
  BY DEF Successors
<1>3. N \in 0..N /\ rival <= N
  BY <1>0 DEF Claims
<1>4. NotLater(b.index, rival, e[2])
  BY <1>0, <1>1, <1>2, <1>3, KeptIsLatest
<1> QED BY <1>4 DEF NotLater, Incomparable

-----------------------------------------------------------------------------
(* What is judged or deferred goes by the order of revisions.              *)

ByOrder(d) == d = IF Order[index][Slot(d)] = "after" THEN Reverse(Slot(d)) ELSE Slot(d)

Compares(d) == Order[index][Slot(d)] \notin Incomparable

JournalOrders ==
  \A d \in Directed : /\ verdict[d] # "none" => ByOrder(d) /\ Compares(d)
                      /\ d \in deferred => ByOrder(d)

PassOrders(o) ==
  o.phase = "publishing" =>
    /\ \A j \in o.judgments : ByOrder(j[1]) /\ Compares(j[1])
    /\ \A d \in o.deferrals : ByOrder(d)
    /\ \A e \in o.edges : \A rival \in Current \ {e[1], e[2]} :
         Authority(o.judgments)[<<e[1], rival>>] = "supersedes" =>
           Order[index][<<rival, e[2]>>] \notin Incomparable

Orders == JournalOrders /\ \A t \in Threads : PassOrders(pass[t])

LEMMA SlotOfPair ==
  ASSUME NEW q \in Pairs
  PROVE  Slot(q) = q /\ Slot(Reverse(q)) = q
BY DEF Slot, Reverse, Pairs, Claims

LEMMA SlotOf ==
  ASSUME NEW d \in Directed
  PROVE  Slot(d) \in Pairs /\ d \in {Slot(d), Reverse(Slot(d))}
BY DEF Slot, Reverse, Pairs, Directed, Claims

(* A pair that has no verdict is oriented by the order of revisions.       *)
LEMMA OrientedByOrder ==
  ASSUME NEW o, o.basis = Basis, NEW q \in Pairs, ~Judged(q)
  PROVE  ByOrder(Oriented(q, o)) /\ Slot(Oriented(q, o)) = q
<1>1. Oriented(q, o) = IF Order[index][q] = "after" THEN Reverse(q) ELSE q
  BY DEF Judged, Oriented, Basis
<1> QED BY <1>1, SlotOfPair DEF ByOrder

LEMMA OutcomeOrders ==
  ASSUME TypeOK, OrderIsPartial, NEW o \in PreparedPasses, o.phase = "prepared",
         PreparedIsNow(o), NEW answer \in [Live(o) -> Verdicts \cup {"failed"}]
  PROVE  PassOrders(Outcome(o, answer))
<1> PICK r : r = Outcome(o, answer)
  OBVIOUS
<1> PICK v : v = Authority(Answers(o, answer))
  OBVIOUS
<1>0. o.basis = Basis /\ o.basis \in Bases /\ o.basis.eligible = Current /\ o.basis.index = index
  BY BasisTypes DEF PreparedIsNow, Basis
<1>1. r.judgments = Answers(o, answer)
  BY OutcomeIs
<1>2. ASSUME NEW j \in r.judgments
      PROVE  ByOrder(j[1]) /\ Compares(j[1])
  <2>1. PICK q \in Live(o) : j = <<Oriented(q, o), answer[q]>>
    BY <1>1 DEF Answers
  <2>2. j[1] = Oriented(q, o)
    BY <2>1
  <2>3. q \in Pairs /\ ~Judged(q) /\ Order[index][q] \notin Incomparable
    BY <1>0, PageTypes, PairTypes DEF Live
  <2>4. ByOrder(Oriented(q, o)) /\ Slot(Oriented(q, o)) = q
    BY <1>0, <2>3, OrientedByOrder
  <2> QED BY <2>2, <2>3, <2>4 DEF Compares
<1>3. CASE Resume(o, Failed(o, answer)) # {}
  <2>1. r.deferrals = {Oriented(q, o) : q \in Unresolved(o, Failed(o, answer))} /\ r.edges = {}
    BY <1>3, OutcomeIs
  <2>2. ASSUME NEW d \in r.deferrals
        PROVE  ByOrder(d)
    <3>1. PICK q \in Unresolved(o, Failed(o, answer)) : d = Oriented(q, o)
      BY <2>1
    <3>2. q \in Pairs /\ ~Judged(q)
      BY PageTypes, PairTypes DEF Unresolved
    <3>3. ByOrder(Oriented(q, o))
      BY <1>0, <3>2, OrientedByOrder
    <3> QED BY <3>1, <3>3
  <2> QED BY <1>2, <2>1, <2>2 DEF PassOrders
<1>4. CASE Resume(o, Failed(o, answer)) = {}
  <2>1. r.deferrals = {} /\ r.edges = Edges(v, o.basis)
    BY <1>4, OutcomeIs
  <2>2. ASSUME NEW e \in r.edges, NEW rival \in Current \ {e[1], e[2]},
               v[<<e[1], rival>>] = "supersedes"
        PROVE  Order[index][<<rival, e[2]>>] \notin Incomparable
    BY <1>0, <2>1, <2>2, EdgesAreLatest
  <2> QED BY <1>1, <1>2, <2>1, <2>2 DEF PassOrders
<1> QED BY <1>3, <1>4

-----------------------------------------------------------------------------
(* Steps keep the order.                                                   *)

LEMMA OrdersStay ==
  ASSUME UNCHANGED <<verdict, index>>, Current' \subseteq Current, NEW o
  PROVE  /\ PassOrders(o) => PassOrders(o)'
         /\ JournalOrders /\ deferred' = deferred => JournalOrders'
<1>1. Authority(o.judgments)' = Authority(o.judgments)
  BY DEF Authority
<1>2. PassOrders(o) => PassOrders(o)'
  BY <1>1 DEF PassOrders, ByOrder, Compares
<1>3. JournalOrders /\ deferred' = deferred => JournalOrders'
  BY DEF JournalOrders, ByOrder, Compares
<1> QED BY <1>2, <1>3

(* An append keeps what is left of a pass in order.                        *)
LEMMA AppendOrders ==
  ASSUME TypeOK, PassIsNow, JournalOrders, NEW t \in Threads, PassOrders(pass[t]), Append(t)
  PROVE  \E o : pass'[t] = o /\ PassOrders(o)' /\ JournalOrders'
<1> PICK o : o = pass[t]
  OBVIOUS
<1> PICK r : r = pass'[t]
  OBVIOUS
<1>1. CASE AppendCheckpoint(t)
  <2>1. r = Idle /\ UNCHANGED <<recorded, successor, dispute, verdict, index, deferred>>
    BY <1>1 DEF AppendCheckpoint, TypeOK, ledger, settings, settlement
  <2>2. Current' = Current /\ PassOrders(Idle)
    BY <2>1 DEF Current, PassOrders, Idle
  <2> QED BY <2>1, <2>2, OrdersStay
<1>2. CASE ~AppendCheckpoint(t)
  <2>0. /\ o \in PublishingPasses /\ o.phase = "publishing" /\ r.phase = "publishing"
    BY <1>2, AppendFields
  <2>1. /\ \A j \in o.judgments : ByOrder(j[1]) /\ Compares(j[1])
        /\ \A d \in o.deferrals : ByOrder(d)
        /\ \A e \in o.edges : \A rival \in Current \ {e[1], e[2]} :
             Authority(o.judgments)[<<e[1], rival>>] = "supersedes" =>
               Order[index][<<rival, e[2]>>] \notin Incomparable
    BY <2>0 DEF PassOrders
  <2>2. CASE AppendJudgment(t)
    <3>1. PICK j \in o.judgments :
            /\ OnJudged(j[1], j[2]) /\ r.judgments = o.judgments \ {j}
            /\ j[1] \in Directed /\ j[2] \in Verdicts
      BY <2>2, JudgmentTaken
    <3>2. r.edges = o.edges /\ r.deferrals = o.deferrals
      BY <1>2, <2>2, AppendFields
    <3>3. UNCHANGED <<recorded, successor, dispute, index, deferred>>
      BY <2>2 DEF AppendJudgment, ledger, settings
    <3>4. Current' = Current
      BY <3>3 DEF Current
    <3>5. JudgesOnce(o.judgments) /\ o.judgments \subseteq Judgments
      BY <2>0 DEF PassIsNow, PublishingIsNow, PublishingPasses
    <3>6. Authority(r.judgments)' = Authority(o.judgments)
      BY <3>1, <3>5, AuthorityKept
    <3>7. PassOrders(r)'
      BY <2>1, <3>1, <3>2, <3>3, <3>4, <3>6 DEF PassOrders, ByOrder, Compares
    <3>8. \A d \in Directed : verdict'[d] # "none" => verdict[d] # "none" \/ d = j[1]
      BY <3>1 DEF OnJudged, TypeOK
    <3>9. JournalOrders'
      BY <2>1, <3>1, <3>3, <3>8 DEF JournalOrders, ByOrder, Compares
    <3> QED BY <3>7, <3>9
  <2>3. CASE AppendDeferral(t)
    <3>1. PICK d \in o.deferrals :
            deferred' = deferred \cup {d} /\ pass' = [pass EXCEPT ![t].deferrals = @ \ {d}]
      BY <2>3 DEF AppendDeferral
    <3>2. r.deferrals = o.deferrals \ {d}
      BY <2>0, <3>1 DEF TypeOK, PublishingPasses
    <3>3. r.judgments = o.judgments /\ r.edges = o.edges
      BY <1>2, <2>3, AppendFields
    <3>4. UNCHANGED <<recorded, successor, dispute, verdict, index>>
      BY <2>3 DEF AppendDeferral, ledger, settings
    <3>5. Current' = Current
      BY <3>4 DEF Current
    <3>6. PassOrders(r)
      BY <2>1, <3>2, <3>3 DEF PassOrders
    <3>7. PassOrders(r)'
      BY <3>4, <3>5, <3>6, OrdersStay
    <3>8. JournalOrders'
      BY <2>1, <3>1, <3>4 DEF JournalOrders, ByOrder, Compares
    <3> QED BY <3>7, <3>8
  <2>4. CASE AppendEdge(t)
    <3>1. PICK e \in o.edges :
            /\ successor' = [successor EXCEPT ![e[1]] = IF @ = 0 THEN e[2] ELSE @]
            /\ r.edges = o.edges \ {e} /\ e \in Directed
      BY <2>4, EdgeTaken
    <3>2. r.judgments = o.judgments /\ r.deferrals = o.deferrals
      BY <1>2, <2>4, AppendFields
    <3>3. UNCHANGED <<recorded, dispute, verdict, index, deferred>>
      BY <2>4 DEF AppendEdge, settings, settlement
    <3>4. Current' = Current \ {e[1]}
      BY <3>1, <3>3, CurrentAfterEdge
    <3>5. PassOrders(r)
      BY <2>1, <3>1, <3>2 DEF PassOrders
    <3> QED BY <3>3, <3>4, <3>5, OrdersStay
  <2>5. CASE AppendClash(t)
    <3>1. PICK q \in o.clashes :
            /\ dispute' = [dispute EXCEPT ![q] = IF @ = "none" THEN "open" ELSE @]
            /\ q \in Pairs
      BY <2>5, ClashTaken
    <3>2. r.judgments = o.judgments /\ r.deferrals = o.deferrals /\ r.edges = o.edges
      BY <1>2, <2>5, AppendFields
    <3>3. UNCHANGED <<recorded, successor, verdict, index, deferred>>
      BY <2>5 DEF AppendClash, settings, settlement
    <3>4. dispute[q] = "none"
      BY <2>0, <3>1 DEF PassIsNow, PublishingIsNow
    <3>5. Current' = Current \ {q[1], q[2]}
      BY <3>1, <3>3, <3>4, CurrentAfterClash
    <3>6. PassOrders(r)
      BY <2>1, <3>2 DEF PassOrders
    <3> QED BY <3>3, <3>5, <3>6, OrdersStay
  <2> QED BY <1>2, <2>2, <2>3, <2>4, <2>5 DEF Append
<1> QED BY <1>1, <1>2

LEMMA PassKeepsOrder ==
  ASSUME TypeOK, PassIsNow, Orders, OrderIsPartial, NEW t \in Threads, Pass(t)
  PROVE  \E o : pass'[t] = o /\ PassOrders(o)' /\ JournalOrders'
<1> PICK o : o = pass[t]
  OBVIOUS
<1> PICK r : r = pass'[t]
  OBVIOUS
<1>0. JournalOrders /\ PassOrders(o)
  BY DEF Orders
<1>1. ASSUME UNCHANGED <<recorded, successor, dispute, verdict, index, deferred>>, PassOrders(r)
      PROVE  PassOrders(r)' /\ JournalOrders'
  <2>1. Current' = Current
    BY <1>1 DEF Current
  <2> QED BY <1>0, <1>1, <2>1, OrdersStay
<1>2. CASE \E budget \in Budgets, rejudge \in BOOLEAN : Prepare(t, budget, rejudge)
  <2>1. r.phase = "prepared"
    BY <1>2 DEF Prepare, TypeOK
  <2>2. UNCHANGED <<recorded, successor, dispute, verdict, index, deferred>>
    BY <1>2 DEF Prepare, ledger, settings, settlement
  <2>3. PassOrders(r)
    BY <2>1 DEF PassOrders
  <2> QED BY <1>1, <2>2, <2>3
<1>3. CASE \E d \in Directed, w \in Verdicts : Rejudge(t, d, w)
  <2>0. PICK d \in Directed, w \in Verdicts : Rejudge(t, d, w)
    BY <1>3
  <2>1. UNCHANGED <<recorded, successor, dispute, verdict, index, deferred>>
    BY <2>0, RejudgeSees DEF Rejudge, Seen
  <2>2. o \in PreparedPasses
    BY <2>0, Phases DEF Rejudge, TypeOK, Passes
  <2>3. CASE o.settled
    <3>1. r = Recheckpointed(o)
      BY <2>0, <2>3 DEF Rejudge, TypeOK
    <3>2. r.judgments = {} /\ r.deferrals = {} /\ r.edges = {}
      BY <3>1 DEF Recheckpointed
    <3>3. PassOrders(r)
      BY <3>2 DEF PassOrders
    <3> QED BY <1>1, <2>1, <3>3
  <2>4. CASE ~o.settled
    <3>1. r = [o EXCEPT !.rejudge = FALSE]
      BY <2>0, <2>4 DEF Rejudge, TypeOK
    <3>2. r.phase = "prepared"
      BY <2>2, <3>1 DEF PreparedPasses
    <3>3. PassOrders(r)
      BY <3>2 DEF PassOrders
    <3> QED BY <1>1, <2>1, <3>3
  <2> QED BY <2>3, <2>4
<1>4. CASE Evaluate(t, Verdicts \cup {"failed"})
  <2>0. o \in PreparedPasses /\ o.phase = "prepared" /\ PreparedIsNow(o)
    BY <1>4, Phases DEF TypeOK, Passes, Evaluate, PassIsNow
  <2>1. PICK answer \in [Live(o) -> Verdicts \cup {"failed"}] :
          pass' = [pass EXCEPT ![t] = Outcome(o, answer)]
    BY <1>4 DEF Evaluate, AnswersTo
  <2>2. r = Outcome(o, answer)
    BY <2>1 DEF TypeOK
  <2>3. PassOrders(r)
    BY <2>0, <2>2, OutcomeOrders
  <2>4. UNCHANGED <<recorded, successor, dispute, verdict, index, deferred>>
    BY <1>4 DEF Evaluate, ledger, settings, settlement
  <2> QED BY <1>1, <2>3, <2>4
<1>5. CASE Append(t)
  BY <1>0, <1>5, AppendOrders
<1>6. CASE Fail(t)
  <2>1. r = Idle /\ UNCHANGED <<recorded, successor, dispute, verdict, index, deferred>>
    BY <1>6 DEF Fail, TypeOK, ledger, settings, settlement
  <2>2. PassOrders(r)
    BY <2>1 DEF PassOrders, Idle
  <2> QED BY <1>1, <2>1, <2>2
<1> QED BY <1>2, <1>3, <1>4, <1>5, <1>6 DEF Pass

LEMMA OrdersInductive ==
  ASSUME TypeOK, PassIsNow, Orders, OrderIsPartial, OneProcess, OrderIsFixed, [Next]_vars
  PROVE  Orders'
<1>1. ASSUME NEW t \in Threads, Pass(t)
      PROVE  Orders'
  <2>1. \A u \in Threads : u # t => pass'[u] = Idle
    BY <1>1, IdleBeside
  <2>2. PICK o : pass'[t] = o /\ PassOrders(o)' /\ JournalOrders'
    BY <1>1, PassKeepsOrder
  <2> QED BY <2>1, <2>2 DEF Orders, PassOrders, Idle
<1>2. ASSUME \A t \in Threads : pass'[t] = Idle, UNCHANGED <<verdict, deferred, index>>
      PROVE  Orders'
  BY <1>2 DEF Orders, JournalOrders, ByOrder, Compares, PassOrders, Idle
<1>3. CASE Crash
  <2>1. \A t \in Threads : pass'[t] = Idle
    BY <1>3 DEF Crash
  <2>2. UNCHANGED <<verdict, deferred, index>>
    BY <1>3 DEF Crash, settings, settlement
  <2> QED BY <1>2, <2>1, <2>2
<1>4. CASE Other
  <2>1. AllIdle /\ pass' = pass
    BY <1>4 DEF Other, Record, Supersede, Open, Settle, IndexSources, Configure, MayRun, OneProcess
  <2>2. UNCHANGED <<verdict, deferred, index>>
    BY <1>4 DEF Other, Record, Supersede, Open, Settle, IndexSources, Configure,
                OrderIsFixed, settings, settlement
  <2> QED BY <1>2, <2>1, <2>2 DEF AllIdle
<1>5. CASE UNCHANGED vars
  <2>1. UNCHANGED <<recorded, successor, dispute, verdict, index, deferred>> /\ pass' = pass
    BY <1>5 DEF vars
  <2>2. Current' = Current
    BY <2>1 DEF Current
  <2>3. JournalOrders'
    BY <2>1, <2>2, OrdersStay DEF Orders
  <2>4. ASSUME NEW t \in Threads PROVE PassOrders(pass[t])'
    <3> PICK o : o = pass[t]
      OBVIOUS
    <3>1. PassOrders(o)'
      BY <2>1, <2>2, OrdersStay DEF Orders
    <3> QED BY <2>1, <3>1 DEF PassOrders
  <2> QED BY <2>3, <2>4 DEF Orders
<1> QED BY <1>1, <1>3, <1>4, <1>5 DEF Next

(* When a process is alone in the journal and no index changes the order   *)
(* of revisions, a campaign publishes no supersession between revisions    *)
(* that do not compare, chooses between no such successors, and counts no  *)
(* judged pair as unresolved behind an open gate, for any number of claims *)
(* (order_pair, compare_successors, authoritative_settlements).            *)
THEOREM CampaignsRespectOrder ==
  OneProcess /\ OrderIsPartial /\ OrderIsFixed => (Spec => []OrderIsRespected)
<1> SUFFICES ASSUME OneProcess, OrderIsPartial, OrderIsFixed
             PROVE  Spec => []OrderIsRespected
  OBVIOUS
<1>1. ASSUME Init PROVE Orders
  <2>1. /\ \A d \in Directed : verdict[d] = "none" /\ d \notin deferred
        /\ \A t \in Threads : pass[t] = Idle
    BY <1>1 DEF Init
  <2> QED BY <2>1 DEF Orders, JournalOrders, PassOrders, Idle
<1>2. TypeOK /\ PassIsNow /\ Orders /\ [Next]_vars => Orders'
  BY OrdersInductive
<1>3. ASSUME TypeOK, PassIsNow, Orders
      PROVE  EdgesAreOrdered
  <2> SUFFICES ASSUME NEW t \in Threads, pass[t].phase = "publishing", NEW e \in pass[t].edges
               PROVE  /\ Order[index][e] \notin Incomparable
                      /\ \A rival \in Current \ {e[1], e[2]} :
                           verdict[<<e[1], rival>>] = "supersedes" =>
                             Order[index][<<rival, e[2]>>] \notin Incomparable
    BY DEF EdgesAreOrdered
  <2> PICK o : o = pass[t]
    OBVIOUS
  <2> PICK J : J = o.judgments
    OBVIOUS
  <2>0. o \in PublishingPasses /\ index \in Indexes
    BY <1>3, Phases DEF TypeOK, Passes
  <2>1. /\ J \in SUBSET Judgments /\ JudgesOnce(J) /\ e \in Directed
        /\ Authority(J)[e] = "supersedes"
    BY <1>3, <2>0 DEF PassIsNow, PublishingIsNow, PublishingPasses
  <2>2. Compares(e)
    <3>1. CASE \E w \in Verdicts : <<e, w>> \in J
      <4>1. PICK j \in J : j[1] = e
        BY <3>1
      <4> QED BY <1>3, <4>1 DEF Orders, PassOrders
    <3>2. CASE ~ \E w \in Verdicts : <<e, w>> \in J
      <4>1. verdict[e] = "supersedes"
        BY <2>1, <3>2 DEF Authority
      <4> QED BY <1>3, <2>1, <4>1 DEF Orders, JournalOrders
    <3> QED BY <3>1, <3>2
  <2>3. Order[index][e] \notin Incomparable
    <3>1. Slot(e) \in Directed /\ e \in {Slot(e), Reverse(Slot(e))}
      BY <2>1, SlotOf, PairTypes
    <3> QED BY <2>0, <2>2, <3>1 DEF Compares, OrderIsPartial
  <2>4. ASSUME NEW rival \in Current \ {e[1], e[2]}, verdict[<<e[1], rival>>] = "supersedes"
        PROVE  Order[index][<<rival, e[2]>>] \notin Incomparable
    <3>1. <<e[1], rival>> \in Directed
      BY <1>3, <2>1, <2>4 DEF Directed, Current, TypeOK, Claims
    <3>2. Authority(J)[<<e[1], rival>>] = "supersedes"
      BY <1>3, <2>1, <2>4, <3>1, AuthorityOfJudged
    <3> QED BY <1>3, <3>2 DEF Orders, PassOrders
  <2> QED BY <2>3, <2>4
<1>4. ASSUME TypeOK, Orders, CompleteIsSettled
      PROVE  NothingUnresolvedWhenComplete
  <2> SUFFICES ASSUME GateComplete, NEW d \in deferred,
                      Slot(d) \in PairsOf(Current) \cap Similar[policy]
               PROVE  verdict[d] # "none"
    BY DEF NothingUnresolvedWhenComplete
  <2>1. d \in Directed /\ Slot(d) \in Pairs
    BY <1>4, SlotOf DEF TypeOK
  <2>2. Judged(Slot(d))
    BY <1>4 DEF CompleteIsSettled
  <2>3. PICK x \in {Slot(d), Reverse(Slot(d))} : verdict[x] # "none"
    BY <2>2 DEF Judged
  <2>4. x \in Directed /\ Slot(x) = Slot(d)
    BY <2>1, <2>3, SlotOfPair, PairTypes
  <2>5. ByOrder(x) /\ ByOrder(d)
    BY <1>4, <2>1, <2>3, <2>4 DEF Orders, JournalOrders
  <2>6. x = d
    BY <2>4, <2>5 DEF ByOrder
  <2> QED BY <2>3, <2>6
<1>5. TypeOK /\ PassIsNow /\ Orders /\ CompleteIsSettled => OrderIsRespected
  BY <1>3, <1>4 DEF OrderIsRespected
<1>6. Spec => [](TypeOK /\ PassIsNow)
  BY PassIsNowInvariant
<1>7. Init => Orders
  BY <1>1
<1> QED BY <1>2, <1>5, <1>6, <1>7, GateIsSound, PTL DEF Spec
=============================================================================
