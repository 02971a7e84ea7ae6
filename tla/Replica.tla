-------------------------------- MODULE Replica --------------------------------
(***************************************************************************)
(* One replica of a canonical journal: an exact fork, or a read model      *)
(* imported page by page from a store on the same host or from a server,   *)
(* and the evidence file that says how far it reaches.                     *)
(*                                                                         *)
(* Readers are processes that refresh the replica before they serve it     *)
(* (at MCP start, at serve, at install): they bootstrap it when there is   *)
(* no cursor and follow it otherwise, and try again, a bounded number of   *)
(* times, while another owns the replica's store.  A page of events and    *)
(* the ledger that names them are one append; the cursor is a file of its  *)
(* own, replaced after the last page.                                      *)
(*                                                                         *)
(* An event's name stands for its id, the idempotency key it was appended  *)
(* under, which is made of what it says: a journal holds an id once, but a *)
(* source put back to an older backup may come to hold an id again that it *)
(* lost, at any position.  Names are given in the order of first commits.  *)
(* Position 0 holds the store's own opening event and stands for "nothing  *)
(* read" too.                                                              *)
(***************************************************************************)
EXTENDS Naturals, Sequences, FiniteSets, SequencesExt

CONSTANTS
  Readers,
  Skipped,      \* events no replica copies: the store's own, and ledgers of replicas
  PageSize,     \* rows of one page
  MaxAttempts,  \* refreshes of one reader while the replica's store is owned
  None,
  MaxEvents,    \* bound: different events, and those the source holds at once
  MaxFaults,    \* bound: failed calls and crashes
  MaxReplaced   \* bound: times the source is replaced, 0 or 1

ASSUME PageAssumption == PageSize \in Nat \ {0}
ASSUME AttemptAssumption == MaxAttempts \in Nat \ {0}
ASSUME BoundAssumption == MaxEvents \in Nat /\ MaxFaults \in Nat /\ MaxReplaced \in 0..1
ASSUME NoneAssumption == None \notin Nat \cup Seq(1..MaxEvents)

VARIABLES
  mode,     \* "fork", "local" or "remote"; the replica's declaration
  source,   \* committed events of the source, in order
  next,     \* the name of the next event that never was before
  opened,   \* the replica's store exists
  replica,  \* source events in the replica, in order; also what its ledger names
  evidence, \* the cursor of a read model or the evidence of a fork, or None
  owner,    \* the reader whose process has the replica's store open, or None
  op,       \* of a reader: the refresh in flight
  ahead,    \* history: the source was replaced while the replica was ahead of its cursor
  before,   \* history: the source before it was replaced, or None
  faults    \* history

vars == <<mode, source, next, opened, replica, evidence, owner, op, ahead, before, faults>>

Events == 1..MaxEvents

(* high: the last source position read; anchor: the event that was there.  *)
Cursors == [high : 0..MaxEvents, anchor : Events \cup {None}]

Steps ==
  {"idle", "choose", "bootstrap", "connect", "own", "page", "answered", "finish",
   "forked", "ok"}

NoPage == [ceiling |-> 0, top |-> None, high |-> 0, anchor |-> None, more |-> FALSE, rows |-> <<>>]

(* follows: a cursor; known: how much the source held when the refresh     *)
(* began (history); after and anchor: where it has read to; ceiling and    *)
(* top: where it will stop, None before the first page.                    *)
Idle ==
  [step |-> "idle", attempt |-> 0, follows |-> FALSE, known |-> 0, after |-> 0,
   anchor |-> None, ceiling |-> None, top |-> None, page |-> NoPage]

TypeOK ==
  /\ mode \in {"fork", "local", "remote"}
  /\ source \in Seq(Events) /\ Len(source) <= MaxEvents
  /\ next \in 1..(MaxEvents + 1)
  /\ opened \in BOOLEAN
  /\ replica \in Seq(Events)
  /\ evidence \in Cursors \cup {None}
  /\ owner \in Readers \cup {None}
  /\ \A r \in Readers :
       /\ op[r].step \in Steps
       /\ op[r].attempt \in 0..MaxAttempts
       /\ op[r].follows \in BOOLEAN
       /\ op[r].after \in 0..MaxEvents
       /\ op[r].ceiling \in 0..MaxEvents \cup {None}
       /\ op[r].page.rows \in Seq(Events)
  /\ ahead \in BOOLEAN
  /\ faults \in 0..MaxFaults

Init ==
  /\ mode \in {"fork", "local", "remote"}
  /\ source = <<>>
  /\ next = 1
  /\ opened = FALSE
  /\ replica = <<>>
  /\ evidence = None
  /\ owner = None
  /\ op = [r \in Readers |-> Idle]
  /\ ahead = FALSE
  /\ before = None
  /\ faults = 0

-----------------------------------------------------------------------------
(* The source *)

At(position) == IF position \in 1..Len(source) THEN source[position] ELSE None

(* The events that are not among these, in order: a recursive function in  *)
(* the place of SelectSeq, which has no definition for the proofs to use.  *)
Without(events, these) ==
  LET kept[i \in 0..Len(events)] ==
        IF i = 0 THEN <<>>
        ELSE IF events[i] \in these THEN kept[i - 1] ELSE Append(kept[i - 1], events[i])
  IN kept[Len(events)]

Copied(events) == Without(events, Skipped)

(* What the source does not hold is committed: what never was before, or   *)
(* what was lost with a replaced source and is said again.                 *)
Commit(event) ==
  /\ Len(source) < MaxEvents
  /\ event <= next /\ event \notin ToSet(source)
  /\ source' = Append(source, event)
  /\ next' = IF event = next THEN next + 1 ELSE next
  /\ UNCHANGED <<mode, opened, replica, evidence, owner, op, ahead, before, faults>>

Busy(r) == op[r].step \notin {"idle", "ok"}

(* The replica holds more than its cursor covers, or may yet: a refresh is *)
(* under way.                                                              *)
AheadOfCursor ==
  \/ \E r \in Readers : Busy(r)
  \/ \E e \in ToSet(replica) :
       \A i \in 1..Len(source) : source[i] = e => evidence = None \/ evidence.high < i

(* An operator restores an older backup of the source over it.  A local    *)
(* import keeps the store it reads open.                                   *)
Replace(keep) ==
  /\ MaxReplaced = 1 /\ before = None
  /\ keep < Len(source)
  /\ mode = "remote" \/ \A r \in Readers : ~Busy(r)
  /\ before' = source
  /\ source' = SubSeq(source, 1, keep)
  /\ ahead' = AheadOfCursor
  /\ op' = [r \in Readers |-> [op[r] EXCEPT !.known = 0]]
  /\ UNCHANGED <<mode, next, opened, replica, evidence, owner, faults>>

HighOf(after, read, rows) == after + Len(rows)

(* Mutation: only the last event is looked for. *)
LastRepresented == IF replica = <<>> THEN {} ELSE {Last(replica)}

(* Events the ledger of the replica names. *)
Represented == ToSet(replica)

(* A page ends at the ceiling, at PageSize rows, or, once it has an event, *)
(* where the next payload would exceed the byte budget.  What the reader   *)
(* of the page says is represented is passed over.                         *)
PageOf(after, ceiling, cut, represented) ==
  LET passed == Skipped \cup represented
      full == SubSeq(source, after + 1,
                     IF after + PageSize < ceiling THEN after + PageSize ELSE ceiling)
      rows == IF cut < Len(full) /\ full[cut + 1] \notin passed
                /\ \E i \in 1..cut : full[i] \notin passed
              THEN SubSeq(full, 1, cut) ELSE full
      high == HighOf(after, full, rows)
  IN [ceiling |-> ceiling, top |-> At(ceiling), high |-> high, anchor |-> At(high),
      more |-> high < ceiling, rows |-> Without(rows, passed)]

-----------------------------------------------------------------------------
(* A refresh *)

Become(r, new) == op' = [op EXCEPT ![r] = new]
Go(r, step) == Become(r, [op[r] EXCEPT !.step = step])
Fail(r) == Become(r, Idle)
Succeeded(r) == [Idle EXCEPT !.step = "ok", !.known = op[r].known]

Refresh(r) ==
  /\ ~Busy(r)
  /\ Become(r, [Idle EXCEPT !.step = "choose", !.attempt = 1, !.known = Len(source)])
  /\ UNCHANGED <<mode, source, next, opened, replica, evidence, owner, ahead, before, faults>>

(* A cursor is followed; an exact fork is never refreshed. *)
Choose(r) ==
  /\ op[r].step = "choose"
  /\ Become(r, IF evidence = None
               THEN [op[r] EXCEPT !.step = "bootstrap"]
               ELSE IF mode = "fork" THEN Idle
               ELSE [op[r] EXCEPT !.step = "connect", !.follows = TRUE,
                                  !.after = evidence.high, !.anchor = evidence.anchor])
  /\ UNCHANGED <<mode, source, next, opened, replica, evidence, owner, ahead, before, faults>>

(* Only a fresh destination is bootstrapped. *)
Bootstrap(r) ==
  /\ op[r].step = "bootstrap"
  /\ Become(r, IF opened THEN Idle ELSE [op[r] EXCEPT !.step = "connect"])
  /\ UNCHANGED <<mode, source, next, opened, replica, evidence, owner, ahead, before, faults>>

(* Mutation: the anchor is looked at only when it is missing. *)
AnchorUnchecked(r) == op[r].after = 0 \/ At(op[r].after) # None

AnchorHolds(r) == op[r].after = 0 \/ At(op[r].after) = op[r].anchor

(* Mutation: nothing new where there is no second page. *)
UnchangedIfLast(r, page) == op[r].follows /\ ~page.more

Unchanged(r, page) ==
  /\ op[r].follows
  /\ page.rows = <<>>
  /\ ~page.more
  /\ page.high = op[r].after
  /\ page.ceiling = op[r].after

(* The source's store is opened, its anchor compared, its frontier the     *)
(* ceiling.                                                                *)
ConnectLocal(r) ==
  /\ mode = "local"
  /\ op[r].step = "connect"
  /\ Become(r, IF ~AnchorHolds(r) THEN Idle
               ELSE IF op[r].follows /\ Len(source) = op[r].after
               THEN Succeeded(r)
               ELSE [op[r] EXCEPT !.step = "own", !.ceiling = Len(source)])
  /\ UNCHANGED <<mode, source, next, opened, replica, evidence, owner, ahead, before, faults>>

(* The server refuses an anchor or a ceiling that its store does not have. *)
Serves(r, ceiling) == AnchorHolds(r) /\ ceiling <= Len(source)

(* The reader compares what an answer names with what it was told before.  *)
Consistent(r, page) ==
  /\ op[r].ceiling \in {None, page.ceiling}
  /\ op[r].ceiling = None \/ op[r].top = page.top
  /\ op[r].after <= page.high /\ page.high <= page.ceiling

(* A request names the position, its anchor and, after the first, the      *)
(* ceiling of the import, which the first answer sets.                     *)
Ask(r, cut) ==
  /\ mode = "remote"
  /\ \/ op[r].step = "connect"
     \/ op[r].step = "page" /\ op[r].ceiling # None
  /\ LET first == op[r].ceiling = None
         ceiling == IF first THEN Len(source) ELSE op[r].ceiling
         page == PageOf(op[r].after, ceiling, cut, {})
         accepted == Serves(r, ceiling) /\ Consistent(r, page)
     IN /\ Become(r, IF ~accepted THEN Idle
                     ELSE IF first /\ Unchanged(r, page) THEN Succeeded(r)
                     ELSE [op[r] EXCEPT !.step = IF first THEN "own" ELSE "answered",
                                        !.page = page])
        /\ owner' = IF ~accepted /\ owner = r THEN None ELSE owner
  /\ UNCHANGED <<mode, source, next, opened, replica, evidence, ahead, before, faults>>

(* Opening the replica's store makes its files and excludes other owners.  *)
Own(r) ==
  /\ op[r].step = "own"
  /\ owner = None
  /\ owner' = r
  /\ opened' = TRUE
  /\ Go(r, IF mode = "remote" THEN "answered" ELSE "page")
  /\ UNCHANGED <<mode, source, next, replica, evidence, ahead, before, faults>>

(* The store is owned: the whole refresh is tried again, after a pause.    *)
TryAgain(r) ==
  /\ op[r].step = "own"
  /\ owner # None
  /\ Become(r, IF op[r].attempt < MaxAttempts
               THEN [Idle EXCEPT !.step = "choose", !.attempt = op[r].attempt + 1,
                                 !.known = op[r].known]
               ELSE Idle)
  /\ UNCHANGED <<mode, source, next, opened, replica, evidence, owner, ahead, before, faults>>

(* One append: the page's new events and the ledger that names them. *)
Materialize(r, page) ==
  /\ replica' = replica \o page.rows
  /\ Become(r, [op[r] EXCEPT
       !.step = IF page.more /\ page.high # op[r].after THEN "page" ELSE "finish",
       !.after = page.high, !.anchor = page.anchor,
       !.ceiling = page.ceiling, !.top = page.top, !.page = NoPage])
  /\ UNCHANGED <<mode, source, next, opened, evidence, owner, ahead, before, faults>>

PageLocal(r, cut) ==
  /\ mode = "local" /\ op[r].step = "page"
  /\ Materialize(r, PageOf(op[r].after, op[r].ceiling, cut, Represented))

(* An answer that promises more and reads nothing is refused; events the   *)
(* ledger names are dropped from the others.                               *)
PageRemote(r) ==
  /\ op[r].step = "answered"
  /\ LET page == op[r].page
     IN IF page.more /\ page.high = op[r].after
        THEN /\ Fail(r)
             /\ owner' = None
             /\ UNCHANGED <<mode, source, next, opened, replica, evidence, ahead, before, faults>>
        ELSE Materialize(r, [page EXCEPT
               !.rows = Without(page.rows, Represented)])

CursorOf(r) == [high |-> op[r].after, anchor |-> op[r].anchor]

(* The cursor file is replaced while the store is still owned. *)
Finish(r) ==
  /\ op[r].step = "finish"
  /\ evidence' = CursorOf(r)
  /\ owner' = None
  /\ Become(r, Succeeded(r))
  /\ UNCHANGED <<mode, source, next, opened, replica, ahead, before, faults>>

(* A fork copies the source's store while it has it open. *)
Fork(r) ==
  /\ mode = "fork" /\ op[r].step = "connect"
  /\ ~opened
  /\ opened' = TRUE
  /\ replica' = source
  /\ Become(r, [op[r] EXCEPT !.step = "forked", !.after = Len(source),
                             !.anchor = At(Len(source))])
  /\ UNCHANGED <<mode, source, next, evidence, owner, ahead, before, faults>>

(* What was forked by another in the meantime is not forked over. *)
ForkRefused(r) ==
  /\ mode = "fork" /\ op[r].step = "connect"
  /\ opened
  /\ Fail(r)
  /\ UNCHANGED <<mode, source, next, opened, replica, evidence, owner, ahead, before, faults>>

RecordFork(r) ==
  /\ op[r].step = "forked"
  /\ evidence' = [high |-> op[r].after, anchor |-> op[r].anchor]
  /\ Become(r, Succeeded(r))
  /\ UNCHANGED <<mode, source, next, opened, replica, owner, ahead, before, faults>>

(* A read, a call, an append or the replacement of a file fails, or the    *)
(* process dies: nothing is undone, and its store is closed.               *)
Stop(r) ==
  /\ Busy(r)
  /\ faults < MaxFaults
  /\ faults' = faults + 1
  /\ Fail(r)
  /\ owner' = IF owner = r THEN None ELSE owner
  /\ UNCHANGED <<mode, source, next, opened, replica, evidence, ahead, before>>

(* ... the fork's copy may have been cut short. *)
ForkCutShort(r, kept) ==
  /\ mode = "fork" /\ op[r].step = "connect" /\ ~opened
  /\ faults < MaxFaults
  /\ faults' = faults + 1
  /\ opened' = TRUE
  /\ replica' = SubSeq(source, 1, kept)
  /\ Fail(r)
  /\ UNCHANGED <<mode, source, next, evidence, owner, ahead, before>>

Step(r) ==
  \/ Choose(r) \/ Bootstrap(r) \/ ConnectLocal(r) \/ Own(r) \/ TryAgain(r)
  \/ \E cut \in 1..PageSize : Ask(r, cut) \/ PageLocal(r, cut)
  \/ PageRemote(r) \/ Finish(r) \/ Fork(r) \/ ForkRefused(r) \/ RecordFork(r)

Next ==
  \/ \E event \in Events : Commit(event)
  \/ \E keep \in 0..MaxEvents : Replace(keep)
  \/ \E r \in Readers :
       \/ Refresh(r) \/ Step(r) \/ Stop(r)
       \/ \E kept \in 0..Len(source) : ForkCutShort(r, kept)

(* A refresh that has begun goes on, and readers refresh again and again:  *)
(* every MCP session starts with one.  A reader that finds the store owned *)
(* does not always.                                                        *)
Fairness == \A r \in Readers : SF_vars(Step(r) /\ ~TryAgain(r)) /\ WF_vars(Refresh(r) \/ TryAgain(r))

Spec == Init /\ [][Next]_vars /\ Fairness

-----------------------------------------------------------------------------
(* Properties *)

(* A page imported again, after a crash before the cursor was replaced,    *)
(* from a stale cursor or by two readers, adds no event twice              *)
(* (lifecycle.rs:247, materialize.rs:77).                                  *)
NothingIsCopiedTwice == IsInjective(replica)

(* The events of the source up to a position, but those never copied.      *)
ToCopy(high) == ToSet(SubSeq(source, 1, high)) \ Skipped

(* The anchors' blind spot.  After the older backup took its place, the    *)
(* source holds an event at its old position again, behind others than     *)
(* before: an anchor is a position and an id, and takes one for the other. *)
Recurred ==
  /\ before # None
  /\ \E i \in 1..Len(source) :
       /\ i <= Len(before) /\ source[i] = before[i]
       /\ SubSeq(source, 1, i) # SubSeq(before, 1, i)

(* An evidence file vouches for what is there: while the source has its    *)
(* anchor, and not by recurrence, the replica has every event to be copied *)
(* up to its position and a fork is the source up to it                    *)
(* (lifecycle.rs:178-192, 320-334).                                        *)
EvidenceIsCovered ==
  /\ evidence # None /\ evidence.high > 0
  /\ At(evidence.high) = evidence.anchor /\ ~Recurred
  => IF mode = "fork" THEN replica = SubSeq(source, 1, evidence.high)
     ELSE ToCopy(evidence.high) \subseteq ToSet(replica)

(* What holds between a replica, its evidence and its source in every      *)
(* state.                                                                  *)
ReplicaInv == TypeOK /\ NothingIsCopiedTwice /\ EvidenceIsCovered

(* A refresh that succeeds leaves the replica with everything the source   *)
(* held when it began, unless the source was replaced since, or was        *)
(* replaced before and an event recurred (lifecycle.rs:88,                 *)
(* BATPAK-SCALEOUT-COMPOSITION.md:17).                                     *)
SuccessIsFresh ==
  \A r \in Readers :
    op[r].step = "ok" /\ ~Recurred => ToCopy(op[r].known) \subseteq ToSet(replica)

IsCopyOf(events) == \E n \in 0..Len(events) : replica = Copied(SubSeq(events, 1, n))

(* A read model is a beginning of one source's history, in its order: the  *)
(* anchors keep a source that was replaced out of it, unless it was        *)
(* replaced while the replica was ahead of its cursor or an event recurred *)
(* (evidence.rs:165, replica_net.rs:297).                                  *)
OneHistoryUnlessReplacedAhead ==
  mode # "fork" /\ ~ahead /\ ~Recurred =>
    IsCopyOf(source) \/ (before # None /\ IsCopyOf(before))

================================================================================
