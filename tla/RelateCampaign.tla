--------------------------- MODULE RelateCampaign ---------------------------
(***************************************************************************)
(* The relate campaign: how texo has every pair of similar current claims  *)
(* judged once, a bounded page of pairs at a time, and publishes what the  *)
(* judgments imply only when the last page is settled.                     *)
(*                                                                         *)
(* A pass reads a view (its basis), takes up the cursor of the latest      *)
(* checkpoint of the same basis, asks the model about one page of pairs,   *)
(* and appends judgments, deferrals, supersessions, conflicts and a new    *)
(* checkpoint, one event at a time.  It may stop anywhere.  Claims are     *)
(* numbered in the order the journal recorded them.                        *)
(***************************************************************************)
EXTENDS Naturals, FiniteSets

CONSTANTS
  N,         \* claims are 1..N, recorded in this order
  Threads,   \* threads that may run a pass
  Serving,   \* TRUE: the threads of one server; FALSE: CLI processes, one at a time
  Budgets,   \* candidate_pair_budget values a pass may be given
  Policies,  \* candidate policies: embedding model, cosine floor
  Similar,   \* the pairs a policy makes candidates
  LastIndex, \* source snapshots are indexed LastIndex - 1 times
  Order,     \* temporal policy after each index: how two revisions relate
  Others     \* operations beside passes: see Kinds

Claims == 1..N
Directed == {q \in Claims \X Claims : q[1] # q[2]}
Pairs == {q \in Claims \X Claims : q[1] < q[2]}
Indexes == 1..LastIndex

Verdicts == {"supersedes", "conflicts", "unrelated"}
Relations == {"none", "same", "before", "after", "concurrent", "unknown"}
Incomparable == {"concurrent", "unknown"}
Kinds == {"record", "supersede", "open", "settle", "index", "policy", "rejudge"}

ASSUME SizeAssumption == N \in Nat /\ LastIndex \in Nat \ {0}
ASSUME BudgetAssumption == Budgets \subseteq Nat \ {0}
ASSUME SimilarAssumption == Similar \in [Policies -> SUBSET Pairs]
ASSUME OrderAssumption == Order \in [Indexes -> [Directed -> Relations]]
ASSUME OthersAssumption == Others \subseteq Kinds /\ Serving \in BOOLEAN

VARIABLES
  recorded,   \* claims 1..recorded are in the journal
  successor,  \* of a claim, by the first supersession journaled; 0 if none
  dispute,    \* of a pair: no conflict, an open one, a settled one
  verdict,    \* of an ordered pair: its first journaled judgment
  contested,  \* ordered pairs with a later judgment that disagrees
  deferred,   \* ordered pairs with a journaled deferral
  index,      \* position in Order: what the source index knows
  policy,     \* the configured candidate policy
  checkpoint, \* the latest checkpoint journaled
  pass,       \* the pass each thread has in flight
  lost        \* history: claims whose supersession an interrupted pass dropped

ledger == <<recorded, successor, dispute>>
settings == <<index, policy>>
settlement == <<verdict, contested, deferred>>
vars == <<recorded, successor, dispute, verdict, contested, deferred, index,
          policy, checkpoint, pass, lost>>

-----------------------------------------------------------------------------
(* The basis of a campaign *)

Current == {c \in 1..recorded :
              successor[c] = 0 /\ \A q \in Pairs : c \in {q[1], q[2]} => dispute[q] # "open"}

Bases == [recorded : 0..N, eligible : SUBSET Claims, index : Indexes]

Basis == [recorded |-> recorded, eligible |-> Current, index |-> index]

(* Mutation: opened conflicts do not make their claims ineligible *)
AfterSupersessions(b, edges, clashes) ==
  [b EXCEPT !.eligible = @ \ {e[1] : e \in edges}]

(* The basis a publication leaves behind, computed without reading it back *)
AfterPublication(b, edges, clashes) ==
  [b EXCEPT !.eligible = (@ \ {e[1] : e \in edges}) \ UNION {{q[1], q[2]} : q \in clashes}]

NoCheckpoint == [phase |-> "none"]

Checkpoints ==
  [phase : {"partial", "complete"}, basis : Bases, policy : Policies, cursor : Nat]

(* Mutation: a checkpoint of any basis is resumed *)
MatchesAnyBasis == checkpoint.phase # "none" /\ checkpoint.policy = policy

Matches ==
  /\ checkpoint.phase # "none"
  /\ checkpoint.basis = Basis
  /\ checkpoint.policy = policy

(* Strict outputs are refused unless this holds. *)
GateComplete == Matches /\ checkpoint.phase = "complete"

(* Mutation: a pass always starts with the first pair *)
StartAtFirst == 0

(* The slot a pass starts at *)
Start == IF Matches /\ checkpoint.phase = "partial" THEN checkpoint.cursor ELSE 0

-----------------------------------------------------------------------------
(* Candidate pages *)

PairsOf(S) == {q \in Pairs : q[1] \in S /\ q[2] \in S}
Precedes(q, r) == q[1] < r[1] \/ (q[1] = r[1] /\ q[2] < r[2])

(* The slot of a pair in the enumeration of all pairs of S *)
Ordinal(S, q) == Cardinality({r \in PairsOf(S) : Precedes(r, q)})

Least(m, n) == IF m < n THEN m ELSE n
Total(S) == Cardinality(PairsOf(S))
End(S, start, budget) == Least(start + budget, Total(S))

Reverse(q) == <<q[2], q[1]>>
Judged(q) == verdict[q] # "none" \/ verdict[Reverse(q)] # "none"

(* Pending pairs of a page, before they are oriented *)
Pending(o) ==
  {q \in PairsOf(o.basis.eligible) \cap Similar[o.policy] :
     LET n == Ordinal(o.basis.eligible, q)
     IN o.cursor <= n /\ n < End(o.basis.eligible, o.cursor, o.budget)}

(* Authority keeps the direction it was judged in; a pair not judged yet   *)
(* goes by revision order, or by journal order when revisions are silent.  *)
Oriented(q, o) ==
  IF verdict[q] # "none" THEN q
  ELSE IF verdict[Reverse(q)] # "none" THEN Reverse(q)
  ELSE IF Order[o.basis.index][q] = "after" THEN Reverse(q)
  ELSE q

(* Pairs the model is asked about *)
Live(o) == {q \in Pending(o) : ~Judged(q) /\ Order[o.basis.index][q] \notin Incomparable}

(* Pairs left without a verdict, given the pairs the model failed on *)
Unresolved(o, failed) == {q \in Pending(o) : ~Judged(q) /\ q \notin Live(o) \ failed}

(* Mutation: the next page starts behind a failed pair *)
ResumeBehind(o, failed) ==
  {n \in {End(o.basis.eligible, o.cursor, o.budget)} : n < Total(o.basis.eligible)}

(* Where the next page must start: none if this was the last one *)
Resume(o, failed) ==
  {Ordinal(o.basis.eligible, q) : q \in Unresolved(o, failed)}
    \cup {n \in {End(o.basis.eligible, o.cursor, o.budget)} : n < Total(o.basis.eligible)}

Earliest(S) == CHOOSE n \in S : \A m \in S : n <= m

-----------------------------------------------------------------------------
(* What the judgments imply *)

Successors(old, v, S) == {new \in S : new # old /\ v[<<old, new>>] = "supersedes"}

(* The successor kept after looking at the claims up to k in journal order *)
Kept(old, v, S, i) ==
  LET next[k \in 0..N] ==
        IF k = 0 THEN 0
        ELSE LET held == next[k - 1] IN
             IF k \notin Successors(old, v, S) THEN held
             ELSE IF held = 0 THEN k
             ELSE IF Order[i][<<held, k>>] = "after" THEN held ELSE k
  IN next

(* Two successors whose revisions do not compare taint the old claim. *)
Tainted(old, v, S, i) ==
  \E k \in Successors(old, v, S) :
    LET held == Kept(old, v, S, i)[k - 1]
    IN held # 0 /\ Order[i][<<held, k>>] \in Incomparable

Edges(v, b) ==
  {e \in Directed : /\ e[1] \in b.eligible
                    /\ e[2] \in Successors(e[1], v, b.eligible)
                    /\ e[2] = Kept(e[1], v, b.eligible, b.index)[N]
                    /\ ~Tainted(e[1], v, b.eligible, b.index)}

(* Conflicts between claims that stay, and that had none before *)
Clashes(v, b, known) ==
  {q \in PairsOf(b.eligible) :
     /\ "conflicts" \in {v[q], v[Reverse(q)]}
     /\ q \notin known
     /\ \A c \in {q[1], q[2]} : /\ ~Tainted(c, v, b.eligible, b.index)
                                /\ \A e \in Edges(v, b) : e[1] # c}

-----------------------------------------------------------------------------
(* Passes *)

Idle == [phase |-> "idle"]

PreparedPasses ==
  [phase : {"prepared"}, basis : Bases, policy : Policies, cursor : Nat, budget : Budgets,
   known : SUBSET Pairs, rejudge : BOOLEAN, settled : BOOLEAN]

Judgments == Directed \X Verdicts

PublishingPasses ==
  [phase : {"publishing"}, judgments : SUBSET Judgments, deferrals : SUBSET Directed,
   edges : SUBSET Directed, clashes : SUBSET Pairs, draft : Checkpoints]

AllIdle == \A t \in Threads : pass[t] = Idle

(* A CLI process holds the journal alone; server threads share it. *)
MayRun == Serving \/ AllIdle

Prepare(t, budget, rejudge) ==
  /\ pass[t] = Idle
  /\ MayRun
  /\ rejudge => "rejudge" \in Others /\ ~Serving
  /\ GateComplete => rejudge
  /\ pass' = [pass EXCEPT ![t] =
       [phase |-> "prepared", basis |-> Basis, policy |-> policy, cursor |-> Start,
        budget |-> budget, known |-> {q \in Pairs : dispute[q] # "none"},
        rejudge |-> rejudge, settled |-> GateComplete]]
  /\ UNCHANGED <<ledger, settings, settlement, checkpoint, lost>>

(* Mutation: the last judgment of a pair wins *)
OnJudgedLast(d, w) ==
  /\ verdict' = [verdict EXCEPT ![d] = w]
  /\ contested' = contested

(* The first judgment of a pair is its authority; a later one is history. *)
OnJudged(d, w) ==
  /\ verdict' = [verdict EXCEPT ![d] = IF @ = "none" THEN w ELSE @]
  /\ contested' = contested \cup (IF verdict[d] \in {"none", w} THEN {} ELSE {d})

(* Mutation: a checkpoint does not say which policy chose its candidates *)
DraftOfAnyPolicy(phase, basis, o, cursor) ==
  [phase |-> phase, basis |-> basis, cursor |-> cursor]

Draft(phase, basis, o, cursor) ==
  [phase |-> phase, basis |-> basis, policy |-> o.policy, cursor |-> cursor]

(* A completed campaign judges no page: its checkpoint is written again. *)
Recheckpointed(o) ==
  [phase |-> "publishing", judgments |-> {}, deferrals |-> {}, edges |-> {},
   clashes |-> {}, draft |-> Draft("complete", o.basis, o, 0)]

(* A judged pair is judged again on request, before the page. *)
Rejudge(t, d, w) ==
  LET o == pass[t] IN
  /\ o.phase = "prepared"
  /\ o.rejudge
  /\ verdict[d] # "none"
  /\ {d[1], d[2]} \subseteq o.basis.eligible
  /\ OnJudged(d, w)
  /\ pass' = [pass EXCEPT ![t] =
       IF o.settled THEN Recheckpointed(o) ELSE [o EXCEPT !.rejudge = FALSE]]
  /\ UNCHANGED <<ledger, settings, deferred, checkpoint, lost>>

(* Mutation: the last page alone is reduced *)
FreshAlone(judgments) ==
  [d \in Directed |->
     IF \E w \in Verdicts : <<d, w>> \in judgments
     THEN CHOOSE w \in Verdicts : <<d, w>> \in judgments
     ELSE "none"]

(* Authority as it stands, with the judgments of this page laid over it *)
Authority(judgments) ==
  [d \in Directed |->
     IF \E w \in Verdicts : <<d, w>> \in judgments
     THEN CHOOSE w \in Verdicts : <<d, w>> \in judgments
     ELSE verdict[d]]

(* What a pass appends, given the answer to each pair it asked about *)
Outcome(o, answer) ==
  LET failed == {q \in Live(o) : answer[q] = "failed"}
      judgments == {<<Oriented(q, o), answer[q]>> : q \in Live(o) \ failed}
      v == Authority(judgments)
      edges == Edges(v, o.basis)
      clashes == Clashes(v, o.basis, o.known)
  IN IF Resume(o, failed) # {}
     THEN [phase |-> "publishing", judgments |-> judgments,
           deferrals |-> {Oriented(q, o) : q \in Unresolved(o, failed)},
           edges |-> {}, clashes |-> {},
           draft |-> Draft("partial", o.basis, o, Earliest(Resume(o, failed)))]
     ELSE [phase |-> "publishing", judgments |-> judgments, deferrals |-> {},
           edges |-> edges, clashes |-> clashes,
           draft |-> Draft("complete", AfterPublication(o.basis, edges, clashes), o, 0)]

(* The worker threads answer every live pair, in any order.  Answers leaves *)
(* "failed" out when the model is well.                                    *)
AnswersTo(o, Answers) == [Live(o) -> Answers]

Evaluate(t, Answers) ==
  /\ pass[t].phase = "prepared"
  /\ ~pass[t].rejudge
  /\ \E answer \in AnswersTo(pass[t], Answers) :
       pass' = [pass EXCEPT ![t] = Outcome(pass[t], answer)]
  /\ UNCHANGED <<ledger, settings, settlement, checkpoint, lost>>

-----------------------------------------------------------------------------
(* Appends, one event at a time, in this order *)

Slot(d) == IF d[1] < d[2] THEN d ELSE Reverse(d)

AppendJudgment(t) ==
  /\ pass[t].phase = "publishing"
  /\ \E j \in pass[t].judgments :
       /\ \A k \in pass[t].judgments : ~Precedes(Slot(k[1]), Slot(j[1]))
       /\ OnJudged(j[1], j[2])
       /\ pass' = [pass EXCEPT ![t].judgments = @ \ {j}]
  /\ UNCHANGED <<ledger, settings, deferred, checkpoint, lost>>

AppendDeferral(t) ==
  /\ pass[t].phase = "publishing"
  /\ pass[t].judgments = {}
  /\ \E d \in pass[t].deferrals :
       /\ \A e \in pass[t].deferrals : ~Precedes(Slot(e), Slot(d))
       /\ deferred' = deferred \cup {d}
       /\ pass' = [pass EXCEPT ![t].deferrals = @ \ {d}]
  /\ UNCHANGED <<ledger, settings, verdict, contested, checkpoint, lost>>

(* In the order of claim ids, which is any order; the first supersession   *)
(* of a claim stands.                                                      *)
AppendEdge(t) ==
  /\ pass[t].phase = "publishing"
  /\ pass[t].judgments = {} /\ pass[t].deferrals = {}
  /\ \E e \in pass[t].edges :
       /\ successor' = [successor EXCEPT ![e[1]] = IF @ = 0 THEN e[2] ELSE @]
       /\ pass' = [pass EXCEPT ![t].edges = @ \ {e}]
  /\ UNCHANGED <<recorded, dispute, settings, settlement, checkpoint, lost>>

(* A conflict opens once. *)
AppendClash(t) ==
  /\ pass[t].phase = "publishing"
  /\ pass[t].judgments = {} /\ pass[t].deferrals = {} /\ pass[t].edges = {}
  /\ \E q \in pass[t].clashes :
       /\ dispute' = [dispute EXCEPT ![q] = IF @ = "none" THEN "open" ELSE @]
       /\ pass' = [pass EXCEPT ![t].clashes = @ \ {q}]
  /\ UNCHANGED <<recorded, successor, settings, settlement, checkpoint, lost>>

AppendCheckpoint(t) ==
  /\ pass[t].phase = "publishing"
  /\ pass[t].judgments = {} /\ pass[t].deferrals = {}
  /\ pass[t].edges = {} /\ pass[t].clashes = {}
  /\ checkpoint' = pass[t].draft
  /\ pass' = [pass EXCEPT ![t] = Idle]
  /\ UNCHANGED <<ledger, settings, settlement, lost>>

Dropped(o) == IF o.phase = "publishing" THEN {e[1] : e \in o.edges} ELSE {}

(* An embedding, a store error or a refused request ends a pass. *)
Fail(t) ==
  /\ pass[t] # Idle
  /\ pass' = [pass EXCEPT ![t] = Idle]
  /\ lost' = lost \cup Dropped(pass[t])
  /\ UNCHANGED <<ledger, settings, settlement, checkpoint>>

Crash ==
  /\ ~AllIdle
  /\ pass' = [t \in Threads |-> Idle]
  /\ lost' = lost \cup UNION {Dropped(pass[t]) : t \in Threads}
  /\ UNCHANGED <<ledger, settings, settlement, checkpoint>>

-----------------------------------------------------------------------------
(* Other operations, as far as a campaign sees them.  A session-end of the *)
(* server records and supersedes beside a pass; the rest are CLI           *)
(* operations, which find the journal locked while a pass runs.            *)

Record ==
  /\ "record" \in Others /\ MayRun
  /\ recorded < N
  /\ recorded' = recorded + 1
  /\ UNCHANGED <<successor, dispute, settings, settlement, checkpoint, pass, lost>>

Supersede(old, new) ==
  /\ "supersede" \in Others /\ MayRun
  /\ old # new /\ old <= recorded /\ new <= recorded
  /\ successor[old] = 0
  /\ successor' = [successor EXCEPT ![old] = new]
  /\ UNCHANGED <<recorded, dispute, settings, settlement, checkpoint, pass, lost>>

Open(q) ==
  /\ "open" \in Others /\ AllIdle
  /\ q[2] <= recorded
  /\ dispute[q] = "none"
  /\ dispute' = [dispute EXCEPT ![q] = "open"]
  /\ UNCHANGED <<recorded, successor, settings, settlement, checkpoint, pass, lost>>

Settle(q) ==
  /\ "settle" \in Others /\ AllIdle
  /\ dispute[q] = "open"
  /\ dispute' = [dispute EXCEPT ![q] = "settled"]
  /\ UNCHANGED <<recorded, successor, settings, settlement, checkpoint, pass, lost>>

IndexSources ==
  /\ "index" \in Others /\ AllIdle
  /\ index < LastIndex
  /\ index' = index + 1
  /\ UNCHANGED <<ledger, policy, settlement, checkpoint, pass, lost>>

Configure ==
  /\ "policy" \in Others /\ AllIdle
  /\ policy' \in Policies \ {policy}
  /\ UNCHANGED <<ledger, index, settlement, checkpoint, pass, lost>>

-----------------------------------------------------------------------------
Init ==
  /\ recorded \in 0..N
  /\ successor = [c \in Claims |-> 0]
  /\ dispute = [q \in Pairs |-> "none"]
  /\ verdict = [d \in Directed |-> "none"]
  /\ contested = {} /\ deferred = {}
  /\ index = 1
  /\ policy \in Policies
  /\ checkpoint = NoCheckpoint
  /\ pass = [t \in Threads |-> Idle]
  /\ lost = {}

Append(t) ==
  \/ AppendJudgment(t)
  \/ AppendDeferral(t)
  \/ AppendEdge(t)
  \/ AppendClash(t)
  \/ AppendCheckpoint(t)

Pass(t) ==
  \/ \E budget \in Budgets, rejudge \in BOOLEAN : Prepare(t, budget, rejudge)
  \/ \E d \in Directed, w \in Verdicts : Rejudge(t, d, w)
  \/ Evaluate(t, Verdicts \cup {"failed"})
  \/ Append(t)
  \/ Fail(t)

Other ==
  \/ Record
  \/ \E old, new \in Claims : Supersede(old, new)
  \/ \E q \in Pairs : Open(q) \/ Settle(q)
  \/ IndexSources
  \/ Configure

Next == (\E t \in Threads : Pass(t)) \/ Crash \/ Other

Spec == Init /\ [][Next]_vars

(* Passes are run again and again, the model is not always down, and not   *)
(* every append is cut off.                                                *)
LiveSpec ==
  /\ Spec
  /\ \A t \in Threads :
       /\ SF_vars(\E budget \in Budgets : Prepare(t, budget, FALSE))
       /\ SF_vars(Evaluate(t, Verdicts))
       /\ SF_vars(AppendJudgment(t)) /\ SF_vars(AppendDeferral(t))
       /\ SF_vars(AppendEdge(t) \/ AppendClash(t) \/ AppendCheckpoint(t))

-----------------------------------------------------------------------------
(* Properties *)

(* Every variable keeps the shape the journal's folds give it. *)
TypeOK ==
  /\ recorded \in 0..N
  /\ successor \in [Claims -> 0..N]
  /\ dispute \in [Pairs -> {"none", "open", "settled"}]
  /\ verdict \in [Directed -> Verdicts \cup {"none"}]
  /\ contested \subseteq Directed /\ deferred \subseteq Directed
  /\ index \in Indexes
  /\ policy \in Policies
  /\ checkpoint \in Checkpoints \cup {NoCheckpoint}
  /\ pass \in [Threads -> {Idle} \cup PreparedPasses \cup PublishingPasses]
  /\ lost \subseteq Claims

(* The gate of strict outputs opens only when every candidate pair of the  *)
(* current claims has a judgment in the journal, however the campaign was  *)
(* paged, interrupted, resumed or raced (settlement_gate; settlement.rs:15).*)
CompleteIsSettled == GateComplete => \A q \in PairsOf(Current) \cap Similar[policy] : Judged(q)

(* A completing checkpoint is of the very state the publication leaves, so *)
(* the gate opens at once and the next run has nothing to do               *)
(* (after_publication computes what from_view will read).                  *)
RecognisedWhenDone ==
  [][checkpoint' # checkpoint /\ checkpoint'.phase = "complete" => GateComplete']_vars

(* Behind an open gate no decision waits to be published: judgments taken  *)
(* on different pages all take part in the reduction of the last           *)
(* (authoritative_pairs).  Holds where revisions compare: an ambiguous     *)
(* winner is held, and one of its rivals may be superseded meanwhile.      *)
NothingLeftToDecide ==
  GateComplete => LET known == {q \in Pairs : dispute[q] # "none"}
                  IN Edges(verdict, Basis) = {} /\ Clashes(verdict, Basis, known) = {}

(* A claim judged superseded stays current behind an open gate only if a   *)
(* publication was cut off: of the chain a -> b -> c a stop after b -> c   *)
(* leaves a, whose successor is no longer current, for good; or while one  *)
(* is under way.                                                           *)
OnlyInterruptionLosesDecisions ==
  GateComplete => \A d \in Directed :
    d[1] \in Current /\ verdict[d] = "supersedes" =>
      \/ d[1] \in lost
      \/ \E t \in Threads : d[1] \in Dropped(pass[t])

(* The journaled judgment of a pair never changes, however often the pair  *)
(* is judged again (SettlementCard::on_judged).                            *)
AuthorityIsForever ==
  [][\A d \in Directed : verdict[d] # "none" => verdict'[d] = verdict[d]]_vars

(* Once its judgments are in the journal, what a pass publishes is what    *)
(* the journal's authority says (append_relate_supersessions,              *)
(* append_relate_conflicts).  Two passes at once break it, and no run      *)
(* claims it for two (README, RelateCampaign).                             *)
PublishesAuthority ==
  \A t \in Threads :
    pass[t].phase = "publishing" /\ pass[t].judgments = {} =>
      /\ \A e \in pass[t].edges : verdict[e] = "supersedes"
      /\ \A q \in pass[t].clashes : "conflicts" \in {verdict[q], verdict[Reverse(q)]}

(* No pass publishes a supersession between revisions that do not compare, *)
(* nor chooses between two successors whose revisions do not (order_pair,  *)
(* compare_successors).  Sources indexed between two pages can break it,   *)
(* and the run has one index only (README, RelateCampaign).                *)
EdgesAreOrdered ==
  \A t \in Threads : pass[t].phase = "publishing" =>
    \A e \in pass[t].edges :
      /\ Order[index][e] \notin Incomparable
      /\ \A rival \in Current \ {e[1], e[2]} :
           verdict[<<e[1], rival>>] = "supersedes" =>
             Order[index][<<rival, e[2]>>] \notin Incomparable

(* Behind an open gate no current candidate pair is still counted as       *)
(* unresolved: each deferral was followed by a judgment of the same pair   *)
(* in the same direction (authoritative_settlements).                      *)
NothingUnresolvedWhenComplete ==
  GateComplete => \A d \in deferred :
    Slot(d) \in PairsOf(Current) \cap Similar[policy] => verdict[d] # "none"

(* What a pass may publish, and what may be left when the gate opens.      *)
PublicationsAreSound ==
  /\ NothingLeftToDecide
  /\ OnlyInterruptionLosesDecisions
  /\ PublishesAuthority

(* The same where revisions do not always compare.                         *)
OrderIsRespected == EdgesAreOrdered /\ NothingUnresolvedWhenComplete

(* A campaign run again and again completes, whatever the page size, if    *)
(* revisions compare and no operation changes its basis (resolve_start,    *)
(* finish_page).                                                           *)
CampaignCompletes == <>[]GateComplete
=============================================================================
