------------------------------- MODULE Knowledge -------------------------------
(***************************************************************************)
(* `texo index` and `texo reconcile`: from a Git worktree to source        *)
(* snapshots, evidence, order and a code index in the journal.             *)
(*                                                                         *)
(* A command holds the journal alone, so commands do not interleave; the   *)
(* worktree, the history a clone has and the files under .texo/cache change *)
(* under it, and it may stop after any of its appends.  Every append has a *)
(* key: the second of a key returns the receipt of the first.              *)
(*                                                                         *)
(* A tree stands for what a snapshot id is derived from: the commit, the   *)
(* index and the overlay, under one choice of capture limits (Capture).    *)
(***************************************************************************)
EXTENDS Reconcile, Capture

CONSTANTS
  Parent,        \* of each commit; a root is its own parent
  ClaimOrder,    \* claims as the view lists them
  Ranked,        \* of each claim, the code it shares words with, best first
  Replaces,      \* <<new, old>>: the new claim's wording replaces the old one
  PerClaim, MaxCandidates,  \* candidate bounds
  MaxCompared,   \* earlier snapshots an index compares with
  Missing,       \* commits a shallow clone lacks
  None,
  Cuts,          \* of each commit, where an analysis budget may stop
  Builds,        \* what the command is asked for: the default build, or one with a SCIP file
  MaxCommands, MaxBatches, MaxChanges, MaxFaults  \* bounds

\* Only a regular file makes claims or defines code, and only its size or that of a
\* stand-in for one is looked at.
Files ==
  {file \in [type : FileTypes, size : Nat, says : SUBSET Claims, code : Seq(Codes)] :
     /\ file.type # "regular" => file.says = {} /\ file.code = <<>>
     /\ file.type \notin {"regular", "lfs"} => file.size = 0}

\* A commit holds entries for files, none for directories.
ASSUME FilesAssumption ==
  /\ Paths \in Seq(Range(Paths))
  /\ \A c \in Commits : \A p \in Range(Paths) :
       HeadFiles[c][p] \in Files /\ HeadFiles[c][p].type # "directory"
  /\ \A w \in Worktrees : \A p \in Range(Paths) : Checkout[w].files[p] \in Files
ASSUME TreesAssumption ==
  /\ Commits \subseteq DOMAIN Parent \ Missing
  /\ \A c \in Commits : Cuts[c] \subseteq Nat
  /\ None \notin Trees
ASSUME ClaimsAssumption ==
  /\ Claims \cap Codes = {}  \* a claim's occurrence is its place in a document
  /\ ClaimOrder \in Seq(Claims) /\ Range(ClaimOrder) = Claims
  /\ \A c \in Claims : Ranked[c] \in Seq(Codes)
  /\ Replaces \subseteq Claims \X Claims
  /\ \A p, q \in Replaces : p[2] = q[2] => p = q  \* ClaimLedger has several proposers
ASSUME LimitsAssumption == {PerClaim, MaxCandidates, MaxCompared} \subseteq Nat \ {0}
ASSUME ChoicesAssumption == Builds \subseteq {"default", "scip"}

VARIABLES
  worktree,  \* the index and files on disk
  lacking,   \* commits the clone lacks
  claims,    \* claims recorded by ingest
  journal,   \* knowledge events, in order
  artifacts, \* code index files
  pc,        \* where the running command stands
  tree,      \* the snapshot it works on
  deep,      \* its capture could walk the whole history
  queue,     \* events it has still to append
  newest,    \* the newest sequence among its receipts
  partial,   \* reconcile: the artifact or the plan has gaps
  indexes, batches, edits, faults  \* how often each happened

disk == <<worktree, lacking>>
command == <<pc, tree, deep, queue, newest, partial>>
counters == <<indexes, batches, edits, faults>>
vars == <<disk, claims, journal, artifacts, command, counters, reconcileVars>>

-----------------------------------------------------------------------------
(* Events.  An event is its kind, its key and what the key leaves out. *)

Event(kind, key, data) == [kind |-> kind, key |-> key, data |-> data]

Snapshot(t) == Event("snapshot", <<t>>, None)
Occurrence(t, of) == Event("occurrence", <<t, of>>, None)
Accepted(c, t, of) == Event("accepted", <<c, t, of>>, None)
Linked(c, t, of, method) == Event("linked", <<c, t, of>>, method)
Relation(left, right, rel) == Event("relation", <<left, right>>, rel)
Superseded(old, new) == Event("superseded", <<old, new>>, None)

\* An index id covers the snapshot, the occurrences and the analyzer; the digest
\* of the file covers the coverage too.
IndexIds == [tree : Trees, occs : SUBSET Codes, scip : BOOLEAN]
IndexRecorded(id, coverage) == Event("index", <<id>>, coverage)

Same(e, f) == e.kind = f.kind /\ e.key = f.key

Positions(e) == {i \in DOMAIN journal : Same(journal[i], e)}

Holds(e) == Positions(e) # {}

Through(frontier, kind) == {i \in 1..frontier : journal[i].kind = kind}

Frontier == Len(journal)

\* The newest snapshot, and a snapshot's newest index.
LatestTree == journal[Max(Through(Frontier, "snapshot"))].key[1]

IndexesOf(t) == {i \in Through(Frontier, "index") : journal[i].key[1].tree = t}
LatestIndex(t) == journal[Max(IndexesOf(t))]

Current == {c \in claims : \A n \in Claims : ~Holds(Superseded(c, n))}

-----------------------------------------------------------------------------
(* Order between snapshots. *)

Orders == {"before", "after", "same", "concurrent", "unknown"}

Invert(rel) == CASE rel = "before" -> "after" [] rel = "after" -> "before" [] OTHER -> rel

\* Walking up from a commit: found, not found, or a commit the clone lacks.
Above(commit, missing) ==
  LET far == 0..Cardinality(DOMAIN Parent)
      up[n \in far] == IF n = 0 THEN commit
                       ELSE LET below == up[n - 1]
                            IN IF below \in missing THEN below ELSE Parent[below]
  IN {up[n] : n \in far}

\* No commit is above one it descends from: its hash is made of its parents'.
ASSUME HistoryAssumption ==
  /\ IsFiniteSet(DOMAIN Parent) /\ Range(Parent) \subseteq DOMAIN Parent
  /\ \A c, d \in DOMAIN Parent : c \in Above(d, {}) /\ d \in Above(c, {}) => c = d

Walk(ancestor, commit, missing) ==
  IF ancestor \in Above(commit, missing) THEN "found"
  ELSE IF Above(commit, missing) \cap missing # {} THEN "unknown" ELSE "absent"

CompareCommits(left, right, missing) ==
  IF left = right THEN "same"
  ELSE CASE Walk(left, right, missing) = "found" -> "before"
         [] Walk(left, right, missing) = "unknown" -> "unknown"
         [] Walk(left, right, missing) = "absent" ->
              CASE Walk(right, left, missing) = "found" -> "after"
                [] Walk(right, left, missing) = "unknown" -> "unknown"
                [] Walk(right, left, missing) = "absent" -> "concurrent"

\* Mutation: the overlay is forgotten.
OverlayBlind(left, right, missing) == CompareCommits(left[1], right[1], missing)

\* An overlay is on no path: a dirty tree is never before another commit's.
OverlayAware(left, right, missing) ==
  LET rel == CompareCommits(left[1], right[1], missing)
      dirty == <<left \in DirtyTrees, right \in DirtyTrees>>
  IN IF rel = "same"
     THEN CASE dirty = <<FALSE, TRUE>> -> "before"
            [] dirty = <<TRUE, FALSE>> -> "after"
            [] dirty = <<TRUE, TRUE>> -> "concurrent"
            [] dirty = <<FALSE, FALSE>> -> "same"
     ELSE IF (rel = "before" /\ dirty[1]) \/ (rel = "after" /\ dirty[2]) THEN "concurrent" ELSE rel

\* The snapshots an index compares its own with: the newest recorded ones.
Compared ==
  LET snapshots == Through(Frontier, "snapshot")
  IN {i \in snapshots : Cardinality({j \in snapshots : i <= j}) <= MaxCompared}

Journaled(rel) == rel # "unknown"

PlannedRelations(t) ==
  LET compared == Compared
      planned(prior) ==
        LET rel == OverlayAware(prior, t, lacking)
        IN IF prior # t /\ Journaled(rel) THEN <<Relation(prior, t, rel)>> ELSE <<>>
  IN Joined([i \in DOMAIN journal |->
               IF i \in compared THEN planned(journal[i].key[1]) ELSE <<>>])

\* The first fact of a pair, or the inverse of the reversed pair's.
OrderThrough(frontier, left, right) ==
  LET fact(l, r) == {journal[i].data : i \in {j \in Through(frontier, "relation") :
                                                journal[j].key = <<l, r>>}}
  IN IF left = right THEN "same"
     ELSE IF fact(left, right) # {} THEN CHOOSE rel \in fact(left, right) : TRUE
     ELSE IF fact(right, left) # {} THEN Invert(CHOOSE rel \in fact(right, left) : TRUE)
     ELSE "unknown"

-----------------------------------------------------------------------------
(* Indexing. *)

Rows(t) == Only(ClaimOrder, claims \cap TextOf[t])

RowEvents(t, c) == <<Occurrence(t, c), Linked(c, t, c, "deterministic")>>

PlannedRows(t) == Joined([i \in DOMAIN Rows(t) |-> RowEvents(t, Rows(t)[i])])

\* What a capture of the worktree would be.
OnDisk == SnapshotOf(Checkout[worktree].commit, worktree)

\* texo.knowledge.index reads the view and resolves HEAD.
StartIndex ==
  /\ pc = "idle" /\ indexes + batches < MaxCommands
  /\ pc' = "capture"
  /\ tree' = OnDisk
  /\ UNCHANGED <<disk, claims, journal, artifacts, deep, queue, newest, partial, counters,
                 reconcileVars>>

\* It reads the index and the files, which may be another commit's by now, and plans.
\* Recorded or not, every event of the plan is appended again.
CaptureTree ==
  /\ pc = "capture"
  /\ indexes' = indexes + 1
  /\ pc' = "evidence"
  /\ tree' = SnapshotOf(tree[1], worktree)
  /\ queue' = <<Snapshot(tree')>> \o PlannedRows(tree') \o PlannedRelations(tree')
  /\ deep' = (lacking = {})
  /\ UNCHANGED <<disk, claims, journal, artifacts, newest, partial, batches, edits, faults,
                 reconcileVars>>

\* The journal after the events of a queue: an event it holds is not appended again.
After(events) ==
  LET held[n \in 0..Len(events)] ==
        IF n = 0 THEN journal
        ELSE LET before == held[n - 1]
             IN IF \E i \in DOMAIN before : Same(before[i], events[n]) THEN before
                ELSE Append(before, events[n])
  IN held[Len(events)]

\* The appends of a phase.  The command holds the journal alone, so only a crash
\* shows a journal with some of them: Interrupt.
AppendAll == journal' = After(queue)

\* The tree of a claim's newest deterministic link.
BoundTo(c, frontier) ==
  LET links == {i \in Through(frontier, "linked") :
                  journal[i].key[1] = c /\ journal[i].data = "deterministic"}
  IN IF links = {} THEN None ELSE journal[Max(links)].key[2]

\* Mutation: a claim without evidence is on no timeline.
EvidenceOrderThrough(frontier, old, new) ==
  LET left == BoundTo(old, frontier)
      right == BoundTo(new, frontier)
  IN IF left = None \/ right = None THEN "untimed" ELSE OrderThrough(frontier, left, right)

ClaimOrderThrough(frontier, old, new) ==
  LET left == BoundTo(old, frontier)
      right == BoundTo(new, frontier)
  IN CASE left = None /\ right = None -> "untimed"
       [] left # None /\ right # None -> OrderThrough(frontier, left, right)
       [] OTHER -> "unknown"

Allows(rel) == rel \in {"untimed", "same", "before"}

\* Replacements by claims of this capture, judged at the receipts' frontier.
Applied == {p \in Replaces :
  /\ p[1] \in Range(Rows(tree))
  /\ p[2] \in Current
  /\ Allows(ClaimOrderThrough(newest, p[2], p[1]))}

\* The evidence is appended; replacements are judged at the newest of its receipts.
AppendEvidence ==
  /\ pc = "evidence"
  /\ AppendAll
  /\ newest' = Max({n \in DOMAIN journal' : \E e \in Range(queue) : Same(journal'[n], e)})
  /\ pc' = "settle"
  /\ queue' = <<>>
  /\ UNCHANGED <<disk, claims, artifacts, tree, deep, partial, counters, reconcileVars>>

SettleReplacements ==
  /\ pc = "settle"
  /\ pc' = "replace"
  /\ queue' = SetToSeq({Superseded(p[2], p[1]) : p \in Applied})
  /\ UNCHANGED <<disk, claims, journal, artifacts, tree, deep, newest, partial, counters,
                 reconcileVars>>

AppendReplacements ==
  /\ pc = "replace"
  /\ AppendAll
  /\ pc' = "code"
  /\ queue' = <<>>
  /\ UNCHANGED <<disk, claims, artifacts, tree, deep, newest, partial, counters,
                 reconcileVars>>

-----------------------------------------------------------------------------
(* The code index. *)

Gaps == {"link", "gitlink", "lfs pointer", "too large", "conflict", "out of scope", "budget"}

FirstOf(n, s) == SubSeq(s, 1, IF Len(s) < n THEN Len(s) ELSE n)

\* What an analysis may find.  Its budget may cut it short, with or without
\* occurrences left to find.
Analyses ==
  LET seen == GapsOf[worktree]
  IN {[occs |-> Range(CodeOf[tree]), coverage |-> seen]}
       \cup {[occs |-> Range(FirstOf(n, CodeOf[tree])), coverage |-> seen \cup {"budget"}] :
             n \in Cuts[tree[1]] \cap 0..Len(CodeOf[tree])}

\* The command ends: what it held is gone.
Finish ==
  /\ pc' = "idle" /\ tree' = None /\ deep' = FALSE /\ queue' = <<>> /\ newest' = 0
  /\ partial' = FALSE
  /\ Begin(<<>>)

\* The index or a file changes while it is read, or cannot be read: nothing is
\* captured.
CaptureRefused ==
  /\ pc = "capture"
  /\ Finish
  /\ UNCHANGED <<disk, claims, journal, artifacts, counters, cache>>

\* The tree changed since it was recorded: index again.
SourceMoved ==
  /\ pc = "code" /\ OnDisk # tree
  /\ Finish
  /\ UNCHANGED <<disk, claims, journal, artifacts, counters, cache>>

HasFile(e) == e.key[1] \in DOMAIN artifacts

Loads(e) == HasFile(e) /\ artifacts[e.key[1]] = e.data

\* A default build takes the recorded index when its file is there.  A file of
\* another digest is refused; the command ends there too.
Reusable == IndexesOf(tree) # {} /\ HasFile(LatestIndex(tree))

Reuse ==
  /\ pc = "code" /\ OnDisk = tree
  /\ "default" \in Builds
  /\ Reusable
  /\ Finish
  /\ UNCHANGED <<disk, claims, journal, artifacts, counters, cache>>

\* A build with a SCIP file reuses nothing.
Build ==
  /\ pc = "code" /\ OnDisk = tree
  /\ \E build \in Builds, analysis \in Analyses :
       LET id == [tree |-> tree, occs |-> analysis.occs, scip |-> build = "scip"]
       IN /\ (build = "default" => ~Reusable)
          /\ artifacts' = [other \in DOMAIN artifacts \cup {id} |->
                             IF other = id THEN analysis.coverage ELSE artifacts[other]]
          /\ queue' = <<IndexRecorded(id, analysis.coverage)>>
  /\ pc' = "record"
  /\ UNCHANGED <<disk, claims, journal, tree, deep, newest, partial, counters, reconcileVars>>

RecordIndex ==
  /\ pc = "record"
  /\ AppendAll
  /\ Finish
  /\ UNCHANGED <<disk, claims, artifacts, counters, cache>>

-----------------------------------------------------------------------------
(* Reconciling claims with code. *)

Matching(c, occs) == Only(Ranked[c], occs)

ReconciledClaims == Only(ClaimOrder, Current)

\* Candidates, claim by claim, best first, within both bounds.
PlanCandidates(occs) ==
  LET of(c) == LET kept == FirstOf(PerClaim, Matching(c, occs))
               IN [i \in DOMAIN kept |-> <<c, kept[i]>>]
  IN Joined([i \in DOMAIN ReconciledClaims |-> of(ReconciledClaims[i])])

\* Mutation: the bound on all candidates is forgotten.
PlanTruncatedPerClaim(occs) == \E c \in Current : Len(Matching(c, occs)) > PerClaim

PlanTruncated(occs) ==
  \/ \E c \in Current : Len(Matching(c, occs)) > PerClaim
  \/ Len(PlanCandidates(occs)) > MaxCandidates

HasLink(c, t, of) == Holds(Linked(c, t, of, None))

\* The newest snapshot, its newest index and the candidates not yet linked.
StartReconcile ==
  /\ pc = "idle" /\ indexes + batches < MaxCommands /\ batches < MaxBatches
  /\ Through(Frontier, "snapshot") # {} /\ IndexesOf(LatestTree) # {}
  /\ Loads(LatestIndex(LatestTree))
  /\ LET index == LatestIndex(LatestTree)
         plan == FirstOf(MaxCandidates, PlanCandidates(index.key[1].occs))
     IN /\ Begin(Only(plan, {p \in Range(plan) : ~HasLink(p[1], LatestTree, p[2])}))
        /\ partial' = (index.data # {} \/ PlanTruncated(index.key[1].occs))
  /\ batches' = batches + 1
  /\ pc' = "model"
  /\ tree' = LatestTree
  /\ queue' = <<>>
  /\ newest' = 0
  /\ UNCHANGED <<disk, claims, journal, artifacts, deep, indexes, edits, faults, cache>>

AskModel ==
  /\ pc = "model"
  /\ BatchStep
  /\ UNCHANGED <<disk, claims, journal, artifacts, command, counters>>

\* One accepted proposal: the occurrence, then the acceptance, then the link.
AcceptedEvents(p) ==
  <<Occurrence(tree, p[2]), Accepted(p[1], tree, p[2]),
    Linked(p[1], tree, p[2], "semantic")>>

AcceptProposals ==
  /\ pc = "model" /\ Finished
  /\ pc' = "publish"
  /\ queue' = Joined([i \in DOMAIN jobs |->
                 IF outcome[i] = "accepted"
                 THEN AcceptedEvents(jobs[i]) ELSE <<>>])
  /\ UNCHANGED <<disk, claims, journal, artifacts, tree, deep, newest, partial,
                 counters, reconcileVars>>

Unresolved == \E i \in DOMAIN jobs : outcome[i] = Failed

\* What the command reports: Complete, unless something was left out.
Complete == ~(partial \/ Unresolved)

AppendAccepted ==
  /\ pc = "publish"
  /\ AppendAll
  /\ pc' = "report"
  /\ queue' = <<>>
  /\ UNCHANGED <<disk, claims, artifacts, tree, deep, newest, partial, counters,
                 reconcileVars>>

Report ==
  /\ pc = "report"
  /\ Finish
  /\ UNCHANGED <<disk, claims, journal, artifacts, counters, cache>>

-----------------------------------------------------------------------------
(* The rest of the world.  A command looks at HEAD when it starts, at the   *)
(* worktree when it captures and when it turns to the code, at the history  *)
(* when it plans and at the artifacts when it uses them, so changes at      *)
(* other moments change nothing.                                            *)

\* The claims of the files on disk.
Written(w) == UNION {Checkout[w].files[p].says : p \in Range(Paths)}

Ingest ==
  /\ pc = "idle" /\ ~(Written(worktree) \subseteq claims)
  /\ claims' = claims \cup Written(worktree)
  /\ UNCHANGED <<disk, journal, artifacts, command, counters, reconcileVars>>

Edit ==
  /\ pc \in {"idle", "capture", "code"} /\ edits + faults < MaxChanges
  /\ edits' = edits + 1
  /\ worktree' \in Worktrees \ {worktree}
  /\ UNCHANGED <<lacking, claims, journal, artifacts, command, indexes, batches, faults,
                 reconcileVars>>

FetchHistory ==
  /\ pc = "idle" /\ lacking # {}
  /\ lacking' = {}
  /\ UNCHANGED <<worktree, claims, journal, artifacts, command, counters,
                 reconcileVars>>

LoseArtifact ==
  /\ pc = "idle" /\ faults < MaxFaults /\ edits + faults < MaxChanges
  /\ faults' = faults + 1
  /\ \E id \in DOMAIN artifacts :
       artifacts' = [other \in DOMAIN artifacts \ {id} |-> artifacts[other]]
  /\ UNCHANGED <<disk, claims, journal, command, indexes, batches, edits, reconcileVars>>

\* A crash or a failed step, after any of the appends of a phase.  Before the first
\* phase it is CaptureRefused.
Interrupt ==
  /\ pc \notin {"idle", "capture"} /\ faults < MaxFaults /\ edits + faults < MaxChanges
  /\ faults' = faults + 1
  /\ \E n \in 0..Len(queue) : journal' = After(FirstOf(n, queue))
  /\ Finish
  /\ UNCHANGED <<disk, claims, artifacts, indexes, batches, edits, cache>>

Init ==
  /\ worktree \in Worktrees /\ lacking = Missing
  /\ claims = {} /\ journal = <<>>
  /\ artifacts = <<>>
  /\ pc = "idle" /\ tree = None /\ deep = FALSE /\ queue = <<>> /\ newest = 0
  /\ partial = FALSE
  /\ indexes = 0 /\ batches = 0 /\ edits = 0 /\ faults = 0
  /\ ReconcileInit

CommandStep ==
  \/ CaptureTree \/ CaptureRefused
  \/ AppendEvidence \/ SettleReplacements \/ AppendReplacements
  \/ SourceMoved \/ Reuse \/ Build \/ RecordIndex
  \/ AskModel \/ AcceptProposals \/ AppendAccepted \/ Report

Next ==
  \/ StartIndex \/ StartReconcile \/ CommandStep
  \/ Ingest \/ Edit \/ FetchHistory \/ LoseArtifact \/ Interrupt

\* The worker threads run, and each of their waits ends: that for the network and a pause
\* at its deadline, that for the resolution of a name because the system's resolver
\* answers.
Spec == Init /\ [][Next]_vars /\ WF_vars(AskModel) /\ WF_vars(AcceptProposals)

-----------------------------------------------------------------------------
(* Correctness. *)

Events ==
  {Snapshot(t) : t \in Trees}
  \cup {Occurrence(t, of) : t \in Trees, of \in Claims \cup Codes}
  \cup {Accepted(c, t, of) : c \in Claims, t \in Trees, of \in Codes}
  \cup {Linked(c, t, c, "deterministic") : c \in Claims, t \in Trees}
  \cup {Linked(c, t, of, "semantic") : c \in Claims, t \in Trees, of \in Codes}
  \cup {Relation(l, r, rel) : l, r \in Trees, rel \in Orders}
  \cup {Superseded(old, new) : old, new \in Claims}
  \cup {IndexRecorded(id, coverage) : id \in IndexIds, coverage \in SUBSET Gaps}

TypeOK ==
  /\ worktree \in Worktrees /\ lacking \in {Missing, {}}
  /\ claims \subseteq Claims
  /\ Range(journal) \cup Range(queue) \subseteq Events
  /\ Cardinality({<<e.kind, e.key>> : e \in Range(journal)}) = Len(journal)
  /\ DOMAIN artifacts \subseteq IndexIds /\ Range(artifacts) \subseteq SUBSET Gaps
  /\ pc \in {"idle", "capture", "evidence", "settle", "replace", "code", "record",
             "model", "publish", "report"}
  /\ tree \in Trees \cup {None} /\ deep \in BOOLEAN /\ partial \in BOOLEAN
  /\ newest \in 0..Frontier
  /\ ReconcileTypeOK

\* The commits a tree was made from: the base commit and what it descends from.
History == [t \in Trees |-> Above(t[1], {})]

\* All of the first tree went into the second: only a clean tree goes into a tree
\* of another commit, and its own overlay is made over the clean tree.
WentInto(t, later) ==
  t \notin DirtyTrees /\ t[1] \in History[later]
    /\ (t[1] = later[1] => later \in DirtyTrees)

\* What the journal says of two snapshots is what the whole history says, though it
\* was written from a clone that lacked commits and a worktree with an overlay
\* (overlay_aware_comparison).  A wrong order would supersede the wrong claim.
OrderIsSound ==
  \A i \in Through(Frontier, "relation") :
    LET l == journal[i].key[1]
        r == journal[i].key[2]
    IN /\ journal[i].data # "unknown"
       /\ journal[i].data = "before" <=> WentInto(l, r)
       /\ journal[i].data = "after" <=> WentInto(r, l)

\* Once the history is whole, an index orders its snapshot and each recorded one it
\* compares with, whatever an index in a shallow clone could not find before: the
\* first fact of a pair is kept, so an unknown one must not be one
\* (plan_snapshot_relations).
OrderIsFound ==
  pc = "code" /\ deep =>
    \A i \in Compared : OrderThrough(Frontier, journal[i].key[1], tree) # "unknown"

\* An event names only what is before it in the journal, also after a crash between
\* two appends: a link its occurrence and, if a model proposed it, its acceptance;
\* an occurrence its snapshot (append_knowledge_plan, append_events).
EvidenceChain ==
  \A i \in DOMAIN journal :
    LET e == journal[i]
        Before(cause) == \E j \in Positions(cause) : j < i
    IN /\ e.kind = "linked" => Before(Occurrence(e.key[2], e.key[3]))
       /\ e.kind = "linked" /\ e.data = "semantic" =>
            Before(Accepted(e.key[1], e.key[2], e.key[3]))
       /\ e.kind = "occurrence" => Before(Snapshot(e.key[1]))

\* A finished index has linked every recorded claim the tree holds, and if nothing
\* moved every one on disk in a file it does not report as a gap, though it read the
\* commit and not the disk for what status does not report; also when its snapshot was
\* recorded before: by an index that crashed, or before an ingest (knowledge_index,
\* capture).
IndexedIsWhole ==
  pc = "code" =>
    /\ Holds(Snapshot(tree))
    /\ \A c \in claims \cap TextOf[tree] : Holds(Linked(c, tree, c, "deterministic"))
    /\ OnDisk = tree => \A p \in Scoped \ Skipped[worktree] :
         \A c \in claims \cap Checkout[worktree].files[p].says :
           Holds(Linked(c, tree, c, "deterministic"))

\* What the journal and the index hold in every state.
KnowledgeInv ==
  TypeOK /\ OrderIsSound /\ OrderIsFound /\ EvidenceChain /\ IndexedIsWhole

\* A claim gives way to the newer wording only if its own tree is the tree of the
\* newer one, or all of it went in there by the whole history; clean trees of one
\* commit hold the same text.  The trees are those of the claims' links at the newest
\* receipt, where the command judges (settle_indexed_explicit_supersessions).
ReplacementsFollowGit ==
  pc = "replace" =>
    \A e \in Range(queue) :
      LET from == BoundTo(e.key[1], newest)
          into == BoundTo(e.key[2], newest)
      IN /\ from # None /\ into # None
         /\ \/ from = into \/ WentInto(from, into)
            \/ from[1] = into[1] /\ {from, into} \cap DirtyTrees = {}

\* A reconcile that reports Complete left nothing out: each current claim and each
\* code of the tree it shares words with is linked or was rejected, though the
\* analysis, the plan, the budget and the provider may each have cut it short
\* (knowledge_reconcile).
CompleteIsDecided ==
  pc = "report" /\ Complete =>
    \A c \in Current, code \in Range(CodeOf[tree]) :
      code \in Range(Ranked[c]) =>
        \/ HasLink(c, tree, code)
        \/ \E i \in DOMAIN jobs : jobs[i] = <<c, code>> /\ outcome[i] = "rejected"

\* A recorded index is the one its file holds, if the file is there: "the id must
\* track what lands on disk so the cache never serves a digest-mismatched or
\* silently truncated artifact" (code_index/artifact.rs:72-73).  No run claims it: the
\* code breaks it where a worktree may hold stray files (README, Knowledge).
ArtifactsMatchTheirRecord ==
  pc = "idle" => \A i \in Through(Frontier, "index") :
    HasFile(journal[i]) => Loads(journal[i])

\* A batch ends: every wait for the network has a deadline (DeadlineStream) but the
\* resolution of the provider's name (connect), which the system's resolver ends, and
\* every worker thread comes to its end and is joined (acquire_proposals).
BatchEnds == pc = "model" ~> pc # "model"

================================================================================
