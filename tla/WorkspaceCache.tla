---------------------------- MODULE WorkspaceCache ----------------------------
(***************************************************************************)
(* The workspace projection cache: how every read of texo gets its view.   *)
(*                                                                         *)
(* A host checks a cache out, from the server's slot or from the sidecar   *)
(* file, and advances it over the events committed since, a page at a      *)
(* time.  When the host is dropped it saves the cache, by a temporary file *)
(* and a rename, and puts it back.  The journal grows meanwhile, reads     *)
(* fail, processes crash, and the journal may be replaced by another while *)
(* nothing runs.  Claim cards stand for the three card families, which are *)
(* folded alike.                                                           *)
(***************************************************************************)
EXTENDS Naturals, FiniteSets, Sequences

CONSTANTS
  Hosts,       \* hosts a server opens, one per request in flight
  Claims,      \* claim entities
  PageLimit,   \* entries per page
  None,        \* no cache, view, file or request
  Torn,        \* what an unfinished write leaves in a file
  MaxJournal,  \* bound: length of the journal
  MaxEpoch     \* bound: journals that replace one another

ASSUME PageAssumption == PageLimit \in Nat \ {0}
ASSUME BoundAssumption == MaxJournal \in Nat /\ MaxEpoch \in Nat

VARIABLES
  journal,  \* entries: claim and kind, the id of the event, what a replay gives
  epoch,    \* ids given since the journal was last replaced
  phase,    \* of a host: closed, open, folding, finishing, saving, leaving
  cache,    \* of a host, checked out
  fold,     \* of a host: the assembly in progress
  asked,    \* of a host: the journal's length when it asked for the view it was served
  slot,     \* the server's cache, unless a host holds it
  sidecar,  \* what the sidecar's path holds
  met       \* of a host that saves: whether another saved at the same time

store == <<journal, epoch>>
disk == <<sidecar, met>>
vars == <<journal, epoch, phase, cache, fold, asked, slot, sidecar, met>>

-----------------------------------------------------------------------------
(* Cards *)

States == [phase : 0..2, replaced : BOOLEAN, anomalous : BOOLEAN]
NoState == [phase |-> 0, replaced |-> FALSE, anomalous |-> FALSE]

OnRecorded(s) ==
  [phase |-> 1, replaced |-> s.replaced, anomalous |-> s.anomalous \/ s.phase # 0]

OnSuperseded(s) ==
  IF s.replaced
  THEN [s EXCEPT !.anomalous = TRUE]
  ELSE [phase |-> 2, replaced |-> TRUE, anomalous |-> s.anomalous \/ s.phase # 1]

Apply(kind, s) == IF kind = "recorded" THEN OnRecorded(s) ELSE OnSuperseded(s)

(* Absent cards fold like default ones. *)
NoStates == [c \in Claims |-> NoState]

Events == {"recorded", "superseded"} \X Claims
Other == <<"other">>  \* relation events, session turns, code indexes

Entries == [event : Events \cup {Other}, id : Nat, state : [Claims -> States]]

IsCard(e) == e.event # Other

FoldEvent(states, event) ==
  [states EXCEPT ![event[2]] = Apply(event[1], @)]

(* What a replay of the first n entries gives *)
Replay(n) == IF n = 0 THEN NoStates ELSE journal[n].state

(* entity_generation: the entries of an entity the store holds *)
Generation(c) ==
  Cardinality({n \in 1..Len(journal) : IsCard(journal[n]) /\ journal[n].event[2] = c})

-----------------------------------------------------------------------------
(* Caches *)

Generations == [Claims -> Nat]
NoGenerations == [c \in Claims |-> 0]

Views == [frontier : Nat, states : [Claims -> States], ahead : BOOLEAN]

ASSUME NoneAssumption == None \notin Views

(* ahead is history: the cards have folded entries beyond the frontier.    *)
Caches ==
  [states : [Claims -> States], generations : Generations, frontier : Nat, anchor : Nat,
   view : Views \cup {None}, freshness : {"fresh", "stale", "rebuilding", "invalid"},
   dirty : BOOLEAN, ahead : BOOLEAN]

Sidecars ==
  [states : [Claims -> States], generations : Generations, frontier : Nat, anchor : Nat,
   ahead : BOOLEAN]

Default ==
  [states |-> NoStates, generations |-> NoGenerations, frontier |-> 0, anchor |-> 0,
   view |-> None, freshness |-> "invalid", dirty |-> FALSE, ahead |-> FALSE]

(* rebuild_cache before it folds; dirty stays as it was *)
Cleared(c) == [Default EXCEPT !.freshness = "rebuilding", !.dirty = c.dirty]

Persisted(c) ==
  [states |-> c.states, generations |-> c.generations, frontier |-> c.frontier,
   anchor |-> c.anchor, ahead |-> c.ahead]

(* A file that is missing or does not decode gives an invalid cache. *)
Loaded ==
  IF sidecar \in {None, Torn} THEN Default
  ELSE [states |-> sidecar.states, generations |-> sidecar.generations,
        frontier |-> sidecar.frontier, anchor |-> sidecar.anchor, view |-> None,
        freshness |-> "stale", dirty |-> FALSE, ahead |-> sidecar.ahead]

(* Mutation: the anchor's sequence is compared, its event id is not *)
AnchorPresent(c) == c.frontier <= Len(journal)

AnchorMatches(c) == c.frontier <= Len(journal) /\ journal[c.frontier].id = c.anchor

-----------------------------------------------------------------------------
(* Assembly *)

Checkout(t) ==
  /\ phase[t] = "closed"
  /\ phase' = [phase EXCEPT ![t] = "open"]
  /\ cache' = [cache EXCEPT ![t] = IF slot = None THEN Loaded ELSE slot]
  /\ slot' = None
  /\ UNCHANGED <<store, fold, asked, disk>>

(* rebuild, or advance; the cards seen; entries folded; entries read *)
Assemblies == [rebuild : BOOLEAN, seen : SUBSET Claims, next : Nat, end : Nat]

Folding(rebuild, at) == [rebuild |-> rebuild, seen |-> {}, next |-> at, end |-> at]

Assemble(t) ==
  LET c == cache[t]
      rebuild == c.freshness = "invalid" \/ (c.frontier > 0 /\ ~AnchorMatches(c))
      start == IF rebuild THEN Cleared(c) ELSE c
  IN /\ phase[t] = "open"
     /\ phase' = [phase EXCEPT ![t] = "folding"]
     /\ cache' = [cache EXCEPT ![t] = start]
     /\ fold' = [fold EXCEPT ![t] = Folding(rebuild, start.frontier)]
     /\ asked' = [asked EXCEPT ![t] = Len(journal)]
     /\ UNCHANGED <<store, slot, disk>>

Least(m, n) == IF m < n THEN m ELSE n

ReadPage(t) ==
  /\ phase[t] = "folding"
  /\ fold[t].next = fold[t].end
  /\ LET end == Least(fold[t].end + PageLimit, Len(journal))
     IN /\ fold' = [fold EXCEPT ![t].end = end]
        /\ phase' = [phase EXCEPT ![t] = IF end = fold[t].end THEN "finishing" ELSE @]
  /\ UNCHANGED <<store, cache, asked, slot, disk>>

(* The cards of a cache once an entry is folded *)
Advanced(c, e) ==
  IF IsCard(e) THEN [c EXCEPT !.states = FoldEvent(@, e.event)] ELSE c

(* The frontier and its anchor move at the end of a page. *)
AtFrontier(c, n, end) ==
  IF n = end THEN [c EXCEPT !.frontier = end, !.anchor = journal[end].id] ELSE c

FoldEntry(t) ==
  LET n == fold[t].next + 1
      e == journal[n]
  IN /\ phase[t] = "folding"
     /\ fold[t].next < fold[t].end
     /\ cache' = [cache EXCEPT ![t] = AtFrontier(Advanced(@, e), n, fold[t].end)]
     /\ fold' = [fold EXCEPT ![t].next = n,
                             ![t].seen = IF IsCard(e) THEN @ \cup {e.event[2]} ELSE @]
     /\ UNCHANGED <<store, phase, asked, slot, disk>>

(* An event that cannot be read ends the assembly where it is. *)
ReadError(t) ==
  LET c == cache[t] IN
  /\ phase[t] = "folding"
  /\ fold[t].next < fold[t].end
  /\ IsCard(journal[fold[t].next + 1])
  /\ cache' = [cache EXCEPT ![t].ahead =
       @ \/ \E n \in c.frontier + 1 .. fold[t].next : IsCard(journal[n])]
  /\ phase' = [phase EXCEPT ![t] = "open"]
  /\ fold' = [fold EXCEPT ![t] = None]
  /\ asked' = [asked EXCEPT ![t] = None]
  /\ UNCHANGED <<store, slot, disk>>

Regressed(c, seen) == \E e \in seen : Generation(e) < c.generations[e]

Stamped(c, seen) ==
  [c EXCEPT !.generations = [e \in Claims |-> IF e \in seen THEN Generation(e) ELSE @[e]],
            !.dirty = TRUE, !.freshness = "stale", !.view = None]

(* Mutation: a warm view is served whatever its frontier *)
WarmAnyway(c) == c.freshness = "fresh" /\ c.view # None

Warm(c) == c.freshness = "fresh" /\ c.view # None /\ c.view.frontier = c.frontier

Built(c) ==
  [c EXCEPT !.view = [frontier |-> c.frontier, states |-> c.states, ahead |-> c.ahead],
            !.freshness = "fresh"]

Serve(t, c) ==
  /\ cache' = [cache EXCEPT ![t] = IF Warm(c) THEN c ELSE Built(c)]
  /\ phase' = [phase EXCEPT ![t] = "open"]
  /\ fold' = [fold EXCEPT ![t] = None]

Finish(t) ==
  LET c == cache[t]
      f == fold[t]
  IN /\ phase[t] = "finishing"
     /\ IF f.rebuild THEN Serve(t, Stamped(c, f.seen))
        ELSE IF f.seen = {} THEN Serve(t, [c EXCEPT !.freshness = "fresh"])
        ELSE IF Regressed(c, f.seen)
        THEN /\ cache' = [cache EXCEPT ![t] = Cleared(c)]
             /\ fold' = [fold EXCEPT ![t] = Folding(TRUE, 0)]
             /\ phase' = [phase EXCEPT ![t] = "folding"]
        ELSE Serve(t, Stamped(c, f.seen))
     /\ UNCHANGED <<store, asked, slot, disk>>

-----------------------------------------------------------------------------
(* Dropping a host *)

Drop(t) ==
  /\ phase[t] = "open"
  /\ phase' = [phase EXCEPT ![t] = IF cache[t].dirty THEN "saving" ELSE "leaving"]
  /\ asked' = [asked EXCEPT ![t] = None]
  /\ met' = [u \in Hosts |-> IF ~cache[t].dirty THEN met[u]
                            ELSE IF u = t THEN \E v \in Hosts \ {t} : phase[v] = "saving"
                            ELSE met[u] \/ phase[u] = "saving"]
  /\ UNCHANGED <<store, cache, fold, slot, sidecar>>

(* Savers write one temporary path and rename it.  Two that meet there may *)
(* each leave the other's cache, or a mixture, which does not decode.      *)
Mixtures(t) ==
  IF met[t] THEN {Torn} \cup {Persisted(cache[u]) : u \in {v \in Hosts : phase[v] = "saving"}}
  ELSE {}

Save(t) ==
  /\ phase[t] = "saving"
  /\ sidecar' \in {Persisted(cache[t])} \cup Mixtures(t)
  /\ cache' = [cache EXCEPT ![t].dirty = FALSE]
  /\ phase' = [phase EXCEPT ![t] = "leaving"]
  /\ met' = [met EXCEPT ![t] = FALSE]
  /\ UNCHANGED <<store, fold, asked, slot>>

(* A failed write or rename is a warning: the cache stays dirty. *)
SaveError(t) ==
  /\ phase[t] = "saving"
  /\ sidecar' \in {sidecar} \cup Mixtures(t)
  /\ phase' = [phase EXCEPT ![t] = "leaving"]
  /\ met' = [met EXCEPT ![t] = FALSE]
  /\ UNCHANGED <<store, cache, fold, asked, slot>>

Checkin(t) ==
  /\ phase[t] = "leaving"
  /\ phase' = [phase EXCEPT ![t] = "closed"]
  /\ slot' = cache[t]
  /\ cache' = [cache EXCEPT ![t] = None]
  /\ UNCHANGED <<store, fold, asked, disk>>

(* The server stops or crashes.  A command line process is a server of one *)
(* host that stops when it has checked its cache in.                       *)
Crash ==
  /\ phase' = [t \in Hosts |-> "closed"]
  /\ cache' = [t \in Hosts |-> None]
  /\ fold' = [t \in Hosts |-> None]
  /\ asked' = [t \in Hosts |-> None]
  /\ met' = [t \in Hosts |-> FALSE]
  /\ slot' = None
  /\ UNCHANGED <<store, sidecar>>

-----------------------------------------------------------------------------
(* The journal *)

Legal(event) ==
  LET last == Replay(Len(journal)) IN
  event # Other => ((event[1] = "recorded") <=> (last[event[2]].phase = 0))

Commit(event) ==
  /\ Len(journal) < MaxJournal
  /\ Legal(event)
  /\ LET last == Replay(Len(journal))
         state == IF event = Other THEN last ELSE FoldEvent(last, event)
     IN journal' = Append(journal, [event |-> event, id |-> epoch, state |-> state])
  /\ UNCHANGED <<epoch, phase, cache, fold, asked, slot, disk>>

(* While nothing runs the journal is cut off, restored or exchanged.  An   *)
(* event's id is told by its position and epoch.                           *)
Replace(n) ==
  /\ \A t \in Hosts : phase[t] = "closed"
  /\ slot = None
  /\ epoch < MaxEpoch
  /\ n < Len(journal)
  /\ journal' = SubSeq(journal, 1, n)
  /\ epoch' = epoch + 1
  /\ UNCHANGED <<phase, cache, fold, asked, slot, disk>>

-----------------------------------------------------------------------------
Init ==
  /\ journal = <<>>
  /\ epoch = 1
  /\ phase = [t \in Hosts |-> "closed"]
  /\ cache = [t \in Hosts |-> None]
  /\ fold = [t \in Hosts |-> None]
  /\ asked = [t \in Hosts |-> None]
  /\ slot = None
  /\ sidecar = None
  /\ met = [t \in Hosts |-> FALSE]

Host(t) ==
  \/ Checkout(t)
  \/ Assemble(t)
  \/ ReadPage(t)
  \/ FoldEntry(t)
  \/ ReadError(t)
  \/ Finish(t)
  \/ Drop(t)
  \/ Save(t)
  \/ SaveError(t)
  \/ Checkin(t)

Next ==
  \/ \E t \in Hosts : Host(t)
  \/ Crash
  \/ \E event \in Events \cup {Other} : Commit(event)
  \/ \E n \in 0..MaxJournal : Replace(n)

Spec == Init /\ [][Next]_vars

-----------------------------------------------------------------------------
(* Properties *)

(* Every variable keeps the shape the code gives it. *)
TypeOK ==
  /\ journal \in Seq(Entries)
  /\ epoch \in Nat
  /\ phase \in [Hosts -> {"closed", "open", "folding", "finishing", "saving", "leaving"}]
  /\ cache \in [Hosts -> Caches \cup {None}]
  /\ fold \in [Hosts -> Assemblies \cup {None}]
  /\ asked \in [Hosts -> Nat \cup {None}]
  /\ slot \in Caches \cup {None}
  /\ sidecar \in Sidecars \cup {None, Torn}
  /\ met \in [Hosts -> BOOLEAN]

(* The view an assembly returned *)
Served(t) == phase[t] = "open" /\ asked[t] # None

(* A view is what a replay of the journal through its frontier gives, from *)
(* whatever cache, sidecar or journal it was advanced, unless an assembly  *)
(* ended in a read error after it had folded part of a page (assemble).    *)
ServedIsReplay ==
  \A t \in Hosts : Served(t) /\ ~cache[t].view.ahead =>
    /\ cache[t].view.frontier <= Len(journal)
    /\ cache[t].view.states = Replay(cache[t].view.frontier)

(* A view holds everything committed before it was asked for, so that an   *)
(* operation reads its own writes (advance_cache, the warm view).          *)
ServedIsRecent == \A t \in Hosts : Served(t) => cache[t].view.frontier >= asked[t]

(* A sidecar whose anchor this journal has is a replay of this journal,    *)
(* whoever saved it, beside whom, and whatever was replaced since          *)
(* (anchor_matches, save_journal).                                         *)
SidecarIsReplay ==
  /\ sidecar \notin {None, Torn}
  /\ ~sidecar.ahead
  /\ sidecar.frontier = 0 \/ AnchorMatches(sidecar)
  => sidecar.states = Replay(sidecar.frontier)

(* What is served and what is saved is folded from this journal. *)
CacheInv == TypeOK /\ ServedIsReplay /\ SidecarIsReplay

(* The promise of ProjectionFreshness::Fresh: a served view matches the    *)
(* journal at its frontier, after read errors too.  No run claims it: the  *)
(* code breaks it (README, Workspace projection cache).                    *)
FreshMatchesFrontier ==
  \A t \in Hosts : Served(t) => cache[t].view.states = Replay(cache[t].view.frontier)
=============================================================================
