---------------------------- MODULE ClaimLedger ----------------------------
(***************************************************************************)
(* The claim journal and the operations that write it.                     *)
(*                                                                         *)
(* Texo keeps every belief in one append-only journal.  A claim card and a *)
(* conflict card are folds of that journal; an operation reads the cards,  *)
(* decides what to append, and appends it one event at a time.  The CLI    *)
(* runs one operation per process under the store's lock; the server runs  *)
(* one thread per connection over one open store, so two session-end       *)
(* operations interleave between their read and their appends.             *)
(*                                                                         *)
(* What a model or a human decides (which claims contradict, which edge a  *)
(* relate pass publishes) is nondeterministic; what the code does with the *)
(* decision is modelled step by step.                                      *)
(***************************************************************************)
EXTENDS Naturals, Sequences

CONSTANTS
  Claims,            \* claim ids
  Bodies,            \* document bodies, identified by their content hash
  Slots,             \* threads that may hold an operation in flight
  None,              \* "no claim", "no body"
  Extract,           \* the claims the extractor finds in a body, in line order
  Trees,             \* what an ingest may discover: sequences of bodies
  Transcripts,       \* bodies a session-end may render
  Subject,           \* subject hint of a claim
  Text,              \* normalized text of a claim
  Replaces,          \* claims worded as a replacement ("moved to", "now", ...)
  Contradicts,       \* pairs of claims with some other contradiction signal
  Order,             \* temporal policy: how a revision relates to another
  SemanticsEnabled,  \* [semantics] enabled: ingest leaves supersession to relate
  ModelEnabled       \* a relate model is configured for session-end

(* A conflict is identified by its unordered pair of claims. *)
Conflicts == {{q[1], q[2]} : q \in {r \in Claims \X Claims : r[1] # r[2]}}

Resolutions == {"resolved", "ignored"}
Relations == {"none", "same", "before", "after", "concurrent", "unknown"}

ASSUME NoneAssumption == None \notin Claims /\ None \notin Bodies
ASSUME ExtractAssumption == Extract \in [Bodies -> Seq(Claims)]
ASSUME TreesAssumption == Trees \subseteq Seq(Bodies) /\ Transcripts \subseteq Bodies
ASSUME OrderAssumption == Order \in [Claims \X Claims -> Relations]
ASSUME SwitchAssumption == SemanticsEnabled \in BOOLEAN /\ ModelEnabled \in BOOLEAN

VARIABLES
  journal,       \* the events, in the order the store committed them
  claimCard,     \* fold of the journal, per claim
  conflictCard,  \* fold of the journal, per conflict
  observed,      \* body hashes the journal has a source event for
  op,            \* the operation each slot has in flight
  abandoned      \* history: bodies whose writer stopped before the last claim

vars == <<journal, claimCard, conflictCard, observed, op, abandoned>>

-----------------------------------------------------------------------------
(* Events and idempotency keys *)

SourceObserved(b) == [kind |-> "source", of |-> b, by |-> None]
ClaimRecorded(c) == [kind |-> "claim", of |-> c, by |-> None]
ClaimSuperseded(old, new) == [kind |-> "supersede", of |-> old, by |-> new]
ConflictOpened(k) == [kind |-> "open", of |-> k, by |-> None]
ConflictResolved(k, r) == [kind |-> "resolve", of |-> k, by |-> r]

Decisions ==
  {ClaimSuperseded(old, new) : old, new \in Claims}
    \cup {ConflictOpened(k) : k \in Conflicts}
    \cup {ConflictResolved(k, r) : k \in Conflicts, r \in Resolutions}

Events ==
  {SourceObserved(b) : b \in Bodies} \cup {ClaimRecorded(c) : c \in Claims}
    \cup Decisions

(* The key leaves the resolution out: a conflict is resolved once. *)
SameKey(e, f) ==
  e.kind = f.kind /\ e.of = f.of /\ (e.kind = "resolve" \/ e.by = f.by)

(* Mutation: an append that does not look its key up *)
JournaledUnkeyed(e) == FALSE

Journaled(e) == \E i \in DOMAIN journal : SameKey(journal[i], e)

-----------------------------------------------------------------------------
(* Cards *)

NoClaimCard == [phase |-> 0, by |-> None, anomalies |-> {}]
NoConflictCard == [phase |-> 0, anomalies |-> {}]

ClaimAnomalies == {"duplicate-record", "supersede-from-0", "supersede-from-2",
                   "duplicate-supersede"}
ConflictAnomalies == {"duplicate-open", "resolve-from-0", "resolve-from-2",
                      "resolve-from-3"}

ClaimCards == [phase : 0..2, by : Claims \cup {None}, anomalies : SUBSET ClaimAnomalies]
ConflictCards == [phase : 0..3, anomalies : SUBSET ConflictAnomalies]

SupersedeFrom(phase) ==
  IF phase = 1 THEN {}
  ELSE IF phase = 0 THEN {"supersede-from-0"} ELSE {"supersede-from-2"}

ResolveFrom(phase) ==
  IF phase = 1 THEN {}
  ELSE IF phase = 0 THEN {"resolve-from-0"}
  ELSE IF phase = 2 THEN {"resolve-from-2"} ELSE {"resolve-from-3"}

OnRecorded(card) ==
  [phase |-> 1, by |-> card.by,
   anomalies |-> card.anomalies \cup (IF card.phase # 0 THEN {"duplicate-record"} ELSE {})]

(* Mutation: the last supersession wins *)
OnSupersededLast(card, new) ==
  [phase |-> 2, by |-> new, anomalies |-> card.anomalies \cup SupersedeFrom(card.phase)]

OnSuperseded(card, new) ==
  LET flagged == card.anomalies \cup SupersedeFrom(card.phase)
  IN IF card.by # None
     THEN [phase |-> card.phase, by |-> card.by,
           anomalies |-> flagged \cup {"duplicate-supersede"}]
     ELSE [phase |-> 2, by |-> new, anomalies |-> flagged]

OnOpened(card) ==
  [phase |-> 1,
   anomalies |-> card.anomalies \cup (IF card.phase # 0 THEN {"duplicate-open"} ELSE {})]

(* Mutation: the resolution codes are off by one *)
OnResolvedShifted(card, r) ==
  [phase |-> IF r = "resolved" THEN 3 ELSE 4,
   anomalies |-> card.anomalies \cup ResolveFrom(card.phase)]

OnResolved(card, r) ==
  [phase |-> IF r = "resolved" THEN 2 ELSE 3,
   anomalies |-> card.anomalies \cup ResolveFrom(card.phase)]

FoldClaim(e) ==
  claimCard' =
    IF e.kind = "claim" THEN [claimCard EXCEPT ![e.of] = OnRecorded(@)]
    ELSE IF e.kind = "supersede" THEN [claimCard EXCEPT ![e.of] = OnSuperseded(@, e.by)]
    ELSE claimCard

FoldConflict(e) ==
  conflictCard' =
    IF e.kind = "open" THEN [conflictCard EXCEPT ![e.of] = OnOpened(@)]
    ELSE IF e.kind = "resolve" THEN [conflictCard EXCEPT ![e.of] = OnResolved(@, e.by)]
    ELSE conflictCard

(* A keyed append commits the event once; a repeat returns the first       *)
(* receipt and commits nothing.                                            *)
Append_(e) ==
  IF Journaled(e)
  THEN UNCHANGED <<journal, claimCard, conflictCard, observed>>
  ELSE /\ journal' = Append(journal, e)
       /\ FoldClaim(e)
       /\ FoldConflict(e)
       /\ observed' = IF e.kind = "source" THEN observed \cup {e.of} ELSE observed

-----------------------------------------------------------------------------
(* The explicit-replacement rule *)

(* Positions of the claims a plan adds, and the order the rule visits them *)
Positions(tree, plan) ==
  UNION {{<<i, k>> : k \in DOMAIN Extract[tree[i]]} : i \in plan}
ClaimAt(tree, q) == Extract[tree[q[1]]][q[2]]
Earlier(q, r) == q[1] < r[1] \/ (q[1] = r[1] /\ q[2] < r[2])

(* A claim worded as a replacement proposes to supersede every current     *)
(* claim of its subject that says something else.                          *)
Proposes(new, old) ==
  /\ new \in Replaces
  /\ Subject[new] = Subject[old]
  /\ old # new
  /\ claimCard[old].phase = 1
  /\ Text[old] # Text[new]

Held(old, new) == Order[<<old, new>>] \in {"after", "concurrent", "unknown"}

(* Only the first proposer of an old claim counts; when the temporal       *)
(* policy holds that pair, no later proposer is tried.                     *)
Inferred(tree, plan) ==
  LET At == Positions(tree, plan)
      First(old, q) ==
        /\ Proposes(ClaimAt(tree, q), old)
        /\ \A r \in At : Earlier(r, q) => ~Proposes(ClaimAt(tree, r), old)
  IN {ClaimSuperseded(x[1], ClaimAt(tree, x[2])) :
        x \in {y \in Claims \X At : /\ First(y[1], y[2])
                                    /\ ~Held(y[1], ClaimAt(tree, y[2]))}}

-----------------------------------------------------------------------------
(* Operations in flight *)

Idle == [kind |-> "idle", tree |-> <<>>, plan |-> {}, left |-> {}, body |-> None,
         lines |-> <<>>, next |-> {}, todo |-> "none"]

Operations ==
  [kind : {"idle", "cli", "session"},   \* who holds the store
   tree : Seq(Bodies),                  \* the bodies discovered
   plan : SUBSET Nat,                   \* positions in tree planned for append
   left : SUBSET Nat,                   \* planned positions not yet begun
   body : Bodies \cup {None},           \* the body being appended
   lines : Seq(Claims),                 \* its claims still to append
   next : SUBSET Decisions,             \* decisions still to append
   todo : {"none", "infer", "relate"}]  \* the decision still to be taken

Init ==
  /\ journal = <<>>
  /\ claimCard = [c \in Claims |-> NoClaimCard]
  /\ conflictCard = [k \in Conflicts |-> NoConflictCard]
  /\ observed = {}
  /\ op = [p \in Slots |-> Idle]
  /\ abandoned = {}

(* The store lock keeps a CLI operation alone; connections share a store. *)
MayRunCli == \A p \in Slots : op[p].kind = "idle"
MayServe == \A p \in Slots : op[p].kind \in {"idle", "session"}

Begin(p, o) ==
  /\ op[p].kind = "idle"
  /\ op' = [op EXCEPT ![p] = o]
  /\ UNCHANGED <<journal, claimCard, conflictCard, observed, abandoned>>

(* A body already observed, or met earlier in the same run, is not planned. *)
Fresh(tree) ==
  {i \in DOMAIN tree : tree[i] \notin observed /\ \A j \in 1..(i - 1) : tree[j] # tree[i]}

Planned(kind, tree, next, todo) ==
  [kind |-> kind, tree |-> tree, plan |-> Fresh(tree), left |-> Fresh(tree),
   body |-> None, lines |-> <<>>, next |-> next, todo |-> todo]

Deciding(next, todo) == Planned("cli", <<>>, next, todo)

Ingest(p, tree) ==
  /\ MayRunCli
  /\ Begin(p, Planned("cli", tree, {}, IF SemanticsEnabled THEN "none" ELSE "infer"))

(* A session-end infers on the view from before its own appends. *)
SessionEnd(p, b) ==
  /\ MayServe
  /\ Begin(p, Planned("session", <<b>>, Inferred(<<b>>, Fresh(<<b>>)),
                      IF ModelEnabled THEN "relate" ELSE "none"))

(* Mutation: a supersede that does not look the new claim up *)
ClaimSupersedeUnseen(p, old, new) ==
  /\ MayRunCli
  /\ old # new
  /\ claimCard[old].phase = 1
  /\ Begin(p, Deciding({ClaimSuperseded(old, new)}, "none"))

ClaimSupersede(p, old, new) ==
  /\ MayRunCli
  /\ old # new
  /\ claimCard[new].phase # 0
  /\ claimCard[old].phase = 1
  /\ Begin(p, Deciding({ClaimSuperseded(old, new)}, "none"))

(* Mutation: detection that also pairs superseded claims *)
ContradictoryEver(k) ==
  /\ \A c \in k : claimCard[c].phase # 0
  /\ \A c, d \in k : Subject[c] = Subject[d] /\ (c # d => Text[c] # Text[d])
  /\ k \in Contradicts \/ k \cap Replaces # {}

Contradictory(k) ==
  /\ \A c \in k : claimCard[c].phase = 1
  /\ \A c, d \in k : Subject[c] = Subject[d] /\ (c # d => Text[c] # Text[d])
  /\ k \in Contradicts \/ k \cap Replaces # {}

ConflictsCommit(p) ==
  /\ MayRunCli
  /\ Begin(p, Deciding({ConflictOpened(k) : k \in {j \in Conflicts :
                           Contradictory(j) /\ conflictCard[j].phase = 0}}, "none"))

ConflictResolve(p, k, r) ==
  /\ MayRunCli
  /\ conflictCard[k].phase = 1
  /\ Begin(p, Deciding({ConflictResolved(k, r)}, "none"))

RelateRun(p) ==
  /\ MayRunCli
  /\ Begin(p, Deciding({}, "relate"))

-----------------------------------------------------------------------------
(* Steps of an operation in flight *)

Change(p, o) == op' = [op EXCEPT ![p] = o]

AppendSource(p) ==
  \E i \in op[p].left :
    /\ op[p].lines = <<>>
    /\ \A j \in op[p].left : i <= j
    /\ Append_(SourceObserved(op[p].tree[i]))
    /\ Change(p, [op[p] EXCEPT !.left = @ \ {i}, !.body = op[p].tree[i],
                               !.lines = Extract[op[p].tree[i]]])
    /\ UNCHANGED abandoned

AppendClaim(p) ==
  /\ op[p].lines # <<>>
  /\ Append_(ClaimRecorded(Head(op[p].lines)))
  /\ Change(p, [op[p] EXCEPT !.lines = Tail(@)])
  /\ UNCHANGED abandoned

(* Mutation: done once every source event is appended, claims or not *)
SourcesBegun(p) == op[p].left = {}

(* Mutation: decisions do not wait for the sources *)
SourcesIgnored(p) == TRUE

SourcesDone(p) == op[p].left = {} /\ op[p].lines = <<>>

Infer(p) ==
  /\ SourcesDone(p)
  /\ op[p].todo = "infer"
  /\ Change(p, [op[p] EXCEPT !.next = Inferred(op[p].tree, op[p].plan), !.todo = "none"])
  /\ UNCHANGED <<journal, claimCard, conflictCard, observed, abandoned>>

(* Supersessions are appended before conflicts. *)
Publish(p) ==
  \E e \in op[p].next :
    /\ SourcesDone(p)
    /\ e.kind = "open" => \A f \in op[p].next : f.kind # "supersede"
    /\ Append_(e)
    /\ Change(p, [op[p] EXCEPT !.next = @ \ {e}])
    /\ UNCHANGED abandoned

(* Claims a relate pass may pair: of status Current, so in no open conflict *)
Current ==
  {c \in Claims : /\ claimCard[c].phase = 1
                  /\ \A k \in Conflicts : c \in k => conflictCard[k].phase # 1}

RecordedAt(c) == CHOOSE i \in DOMAIN journal : journal[i] = ClaimRecorded(c)

(* The judge sees a pair older first: by revision order when the policy    *)
(* knows it, by journal order when both have the same revision or none.    *)
OlderFirst(old, new) ==
  \/ Order[<<old, new>>] = "before"
  \/ Order[<<old, new>>] \in {"none", "same"} /\ RecordedAt(old) < RecordedAt(new)

Judgeable == {q \in Current \X Current : Text[q[1]] # Text[q[2]] /\ OlderFirst(q[1], q[2])}

(* A completed pass publishes at most one successor per claim, and a       *)
(* conflict only between claims it leaves current and did not see open.    *)
Judge(p) ==
  /\ SourcesDone(p)
  /\ op[p].next = {}
  /\ op[p].todo = "relate"
  /\ \E edges \in SUBSET Judgeable, clashes \in SUBSET Conflicts :
       /\ \A d, e \in edges : d[1] = e[1] => d = e
       /\ \A k \in clashes :
            /\ \E q \in Judgeable : k = {q[1], q[2]}
            /\ \A e \in edges : e[1] \notin k
            /\ conflictCard[k].phase = 0
       /\ Change(p, [op[p] EXCEPT !.todo = "none",
                       !.next = {ClaimSuperseded(e[1], e[2]) : e \in edges}
                                  \cup {ConflictOpened(k) : k \in clashes}])
  /\ UNCHANGED <<journal, claimCard, conflictCard, observed, abandoned>>

Finish(p) ==
  /\ op[p].kind # "idle"
  /\ SourcesDone(p)
  /\ op[p].next = {}
  /\ op[p].todo = "none"
  /\ Change(p, Idle)
  /\ UNCHANGED <<journal, claimCard, conflictCard, observed, abandoned>>

CutShort(S) == {op[p].body : p \in {q \in S : op[q].lines # <<>>}}

(* Any read, model call or append may fail: the operation returns there.   *)
Fail(p) ==
  /\ op[p].kind # "idle"
  /\ Change(p, Idle)
  /\ abandoned' = abandoned \cup CutShort({p})
  /\ UNCHANGED <<journal, claimCard, conflictCard, observed>>

(* The process stops: every operation in flight is lost, the journal stays. *)
Crash ==
  /\ \E p \in Slots : op[p].kind # "idle"
  /\ op' = [p \in Slots |-> Idle]
  /\ abandoned' = abandoned \cup CutShort(Slots)
  /\ UNCHANGED <<journal, claimCard, conflictCard, observed>>

Start(p) ==
  \/ \E tree \in Trees : Ingest(p, tree)
  \/ \E b \in Transcripts : SessionEnd(p, b)
  \/ \E old, new \in Claims : ClaimSupersede(p, old, new)
  \/ ConflictsCommit(p)
  \/ \E k \in Conflicts, r \in Resolutions : ConflictResolve(p, k, r)
  \/ RelateRun(p)

Step(p) ==
  \/ AppendSource(p)
  \/ AppendClaim(p)
  \/ Infer(p)
  \/ Publish(p)
  \/ Judge(p)
  \/ Finish(p)

Next ==
  \/ \E p \in Slots : Start(p) \/ Step(p) \/ Fail(p)
  \/ Crash

Spec == Init /\ [][Next]_vars

-----------------------------------------------------------------------------
(* Properties *)

WellFormed(o) ==
  /\ o.left \subseteq o.plan
  /\ o.plan \subseteq DOMAIN o.tree
  /\ o.lines # <<>> => o.body \in Bodies

TypeOK ==
  /\ journal \in Seq(Events)
  /\ claimCard \in [Claims -> ClaimCards]
  /\ conflictCard \in [Conflicts -> ConflictCards]
  /\ observed \subseteq Bodies
  /\ op \in [Slots -> Operations]
  /\ \A p \in Slots : WellFormed(op[p])
  /\ abandoned \subseteq Bodies

(* Retries, repeated ingests and racing session-ends commit an event once: *)
(* no two events of the journal share an idempotency key.                  *)
OneEventPerKey ==
  \A i, j \in DOMAIN journal : SameKey(journal[i], journal[j]) => i = j

(* However late a stale operation publishes, a claim's successor is the    *)
(* one of the first supersession the journal committed for it.             *)
FirstSupersessionWins ==
  \A i \in DOMAIN journal :
    journal[i].kind = "supersede" =>
      \E j \in 1..i : /\ journal[j] = ClaimSuperseded(journal[i].of, claimCard[journal[i].of].by)
                      /\ \A h \in 1..(j - 1) : journal[h].kind = "supersede" =>
                                                 journal[h].of # journal[i].of

(* A crash between two appends never leaves a claim superseded by, or in   *)
(* conflict with, a claim the journal does not hold.                       *)
DecisionsConcernRecordedClaims ==
  /\ \A c \in Claims : claimCard[c].by # None => claimCard[claimCard[c].by].phase # 0
  /\ \A k \in Conflicts : conflictCard[k].phase # 0 => \A c \in k : claimCard[c].phase # 0

(* A claim is recorded once, before it is superseded, and a conflict is    *)
(* opened and settled once, even when operations race on stale views.      *)
NothingIsRepeated ==
  /\ \A c \in Claims : {"duplicate-record", "supersede-from-0"} \cap claimCard[c].anomalies = {}
  /\ \A k \in Conflicts : conflictCard[k].anomalies = {}

(* Superseded and settled are final: no later operation, stale or not,     *)
(* makes the claim current again or reopens or re-settles the conflict.    *)
DecidedForever ==
  [][/\ \A c \in Claims : claimCard[c].phase = 2 =>
          claimCard'[c].phase = 2 /\ claimCard'[c].by = claimCard[c].by
     /\ \A k \in Conflicts : conflictCard[k].phase \in {2, 3} =>
          conflictCard'[k].phase = conflictCard[k].phase]_vars

(* A body the journal calls observed has all its claims, or a writer is    *)
(* still appending them, or a writer of it was cut short.                  *)
OnlyInterruptionLosesClaims ==
  \A b \in observed :
    \/ b \in abandoned
    \/ \E p \in Slots : op[p].lines # <<>> /\ op[p].body = b
    \/ \A i \in DOMAIN Extract[b] : claimCard[Extract[b][i]].phase # 0

(* A conflict opens between claims that are current at that moment, not    *)
(* only in the view its decider read.  Holds one operation at a time; two  *)
(* at once break it (relate_run; README, ClaimLedger).                     *)
ConflictsOpenBetweenCurrentClaims ==
  [][\A k \in Conflicts : conflictCard[k].phase = 0 /\ conflictCard'[k].phase = 1 =>
       \A c \in k : claimCard[c].phase = 1]_vars

(* No two claims supersede each other: of a subject something is current.  *)
NoMutualSupersession ==
  \A c \in Claims : claimCard[c].by # None => claimCard[claimCard[c].by].by # c

-----------------------------------------------------------------------------
(* What the journal promises (see ClaimTruth) *)

StatusOf(card) ==
  IF card.phase = 0 THEN "absent" ELSE IF card.phase = 1 THEN "current" ELSE "superseded"

DisputeOf(card) ==
  IF card.phase = 0 THEN "none" ELSE IF card.phase = 1 THEN "open"
  ELSE IF card.phase = 2 THEN "resolved" ELSE "ignored"

statusView == [x \in Claims |-> StatusOf(claimCard[x])]
successorView == [x \in Claims |-> claimCard[x].by]
disputeView == [k \in Conflicts |-> DisputeOf(conflictCard[k])]

Truth == INSTANCE ClaimTruth WITH
  status <- statusView, successor <- successorView, dispute <- disputeView

(* Stale views, keyed repeats, crashes and failures are invisible to a     *)
(* reader of the cards: the operations implement ClaimTruth.               *)
ImplementsClaimTruth == Truth!Spec

-----------------------------------------------------------------------------
(* The inductive invariant behind the proofs *)

InJournal(e) == \E i \in DOMAIN journal : journal[i] = e

(* The cards and the journal tell the same story. *)
CardsFoldJournal ==
  /\ \A x \in Claims :
       /\ claimCard[x].phase # 0 <=> InJournal(ClaimRecorded(x))
       /\ claimCard[x].phase = 2 <=> claimCard[x].by # None
       /\ claimCard[x].by # None <=> \E y \in Claims : InJournal(ClaimSuperseded(x, y))
  /\ \A k \in Conflicts :
       /\ conflictCard[k].phase # 0 <=> InJournal(ConflictOpened(k))
       /\ conflictCard[k].phase \in {2, 3} <=>
            \E r \in Resolutions : InJournal(ConflictResolved(k, r))

(* A claim the operation will record before it turns to its decisions *)
Awaited(o, x) ==
  \/ \E i \in DOMAIN o.lines : o.lines[i] = x
  \/ \E i \in o.left : \E n \in DOMAIN Extract[o.tree[i]] : Extract[o.tree[i]][n] = x

(* Every claim of a planned body is recorded or still awaited. *)
PlanKept(o, cards) ==
  \A i \in o.plan : \A n \in DOMAIN Extract[o.tree[i]] :
    LET x == Extract[o.tree[i]][n] IN cards[x].phase # 0 \/ Awaited(o, x)

(* A pending decision is about claims and conflicts recorded already, or   *)
(* recorded before the operation comes to append it.                       *)
DecisionGrounded(o, e, cards, disputes) ==
  /\ e.kind = "supersede" => /\ e.of # e.by
                             /\ cards[e.of].phase # 0
                             /\ cards[e.by].phase # 0 \/ Awaited(o, e.by)
  /\ e.kind = "open" => \A x \in e.of : cards[x].phase # 0
  /\ e.kind = "resolve" => disputes[e.of].phase # 0

OperationsAreGrounded ==
  \A p \in Slots :
    /\ PlanKept(op[p], claimCard)
    /\ \A e \in op[p].next : DecisionGrounded(op[p], e, claimCard, conflictCard)

IndInv ==
  /\ TypeOK
  /\ CardsFoldJournal
  /\ OperationsAreGrounded
  /\ DecisionsConcernRecordedClaims
  /\ NothingIsRepeated

=============================================================================
