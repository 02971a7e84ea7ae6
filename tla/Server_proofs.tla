---------------------------- MODULE Server_proofs -----------------------------
(*****************************************************************************)
(* What the resident server promises, for any hosts, claims, page sizes,     *)
(* connections, permits and journals: in the first part of every view and    *)
(* sidecar (WorkspaceCache), in the second of its workers and streams        *)
(* (HttpServer).                                                             *)
(*****************************************************************************)
EXTENDS WorkspaceCache, HttpServer, FiniteSetTheorems, SequenceTheorems, TLAPS


-----------------------------------------------------------------------------
(* The inductive invariant *)

(* The journal's history fields fold it entry by entry. *)
JournalFolds ==
  \A n \in 1..Len(journal) :
    /\ journal[n].id <= epoch
    /\ journal[n].state = IF IsCard(journal[n]) THEN FoldEvent(Replay(n - 1), journal[n].event)
                          ELSE Replay(n - 1)

(* A cache or sidecar at rest: if its anchor is this journal's, it is a    *)
(* replay; if its anchor is cut off, no later event will have its id.      *)
Sound(c) ==
  /\ c.anchor <= epoch
  /\ c.frontier > Len(journal) => c.anchor < epoch
  /\ ~c.ahead /\ (c.frontier = 0 \/ AnchorMatches(c)) => c.states = Replay(c.frontier)

ViewSound(c) ==
  c.view # None /\ ~c.view.ahead =>
    c.view.frontier <= Len(journal) /\ c.view.states = Replay(c.view.frontier)

(* A cache being advanced is folded through f.next, its frontier is the end *)
(* of the last page it finished, and if it folded no card since, a replay   *)
(* through either is the same.                                              *)
Advancing(c, f) ==
  /\ c.frontier <= f.next
  /\ f.next <= f.end
  /\ f.end <= Len(journal)
  /\ f.next = f.end => c.frontier = f.next
  /\ c.anchor <= epoch
  /\ c.frontier > 0 => AnchorMatches(c)
  /\ ~c.ahead => c.states = Replay(f.next)
  /\ (\A n \in c.frontier + 1 .. f.next : ~IsCard(journal[n])) => Replay(f.next) = Replay(c.frontier)

HostOK(t) ==
  /\ phase[t] # "closed" => cache[t] \in Caches /\ ViewSound(cache[t])
  /\ phase[t] \in {"open", "saving", "leaving"} => Sound(cache[t])
  /\ phase[t] \in {"closed", "saving", "leaving"} => asked[t] = None
  /\ phase[t] \in {"folding", "finishing"} =>
       /\ fold[t] \in Assemblies
       /\ Advancing(cache[t], fold[t])
       /\ asked[t] \in Nat
       /\ asked[t] <= Len(journal)
  /\ phase[t] = "finishing" => fold[t].next = fold[t].end /\ asked[t] <= fold[t].end
  /\ Served(t) => cache[t].view # None /\ cache[t].view.frontier >= asked[t]

SlotOK == slot # None => Sound(slot) /\ ViewSound(slot)
SidecarOK == sidecar \notin {None, Torn} => Sound(sidecar)

IInv ==
  /\ TypeOK
  /\ JournalFolds
  /\ SlotOK
  /\ SidecarOK
  /\ \A t \in Hosts : HostOK(t)

-----------------------------------------------------------------------------
(* Shapes of what the operators return *)

LEMMA StateFolds ==
  ASSUME NEW r \in States
  PROVE  OnRecorded(r) \in States /\ OnSuperseded(r) \in States
  <1> DEFINE a == r.anomalous \/ r.phase # 0
             b == r.anomalous \/ r.phase # 1
  <1>1. a \in BOOLEAN /\ b \in BOOLEAN  BY Zenon
  <1>2. OnRecorded(r) = [phase |-> 1, replaced |-> r.replaced, anomalous |-> a]
    BY DEF OnRecorded
  <1>3. OnSuperseded(r) = IF r.replaced THEN [r EXCEPT !.anomalous = TRUE]
                          ELSE [phase |-> 2, replaced |-> TRUE, anomalous |-> b]
    BY DEF OnSuperseded
  <1> HIDE DEF a, b
  <1>4. OnRecorded(r) \in States  BY <1>1, <1>2 DEF States
  <1>5. OnSuperseded(r) \in States
    <2>1. [r EXCEPT !.anomalous = TRUE] \in States  BY DEF States
    <2>2. [phase |-> 2, replaced |-> TRUE, anomalous |-> b] \in States  BY <1>1 DEF States
    <2>3. QED  BY <1>3, <2>1, <2>2, Zenon
  <1>6. QED  BY <1>4, <1>5

LEMMA StatesFold ==
  ASSUME NEW s \in [Claims -> States], NEW event \in Events
  PROVE  FoldEvent(s, event) \in [Claims -> States]
  <1>1. event[2] \in Claims  BY DEF Events
  <1>2. s[event[2]] \in States  BY <1>1
  <1>3. Apply(event[1], s[event[2]]) \in States  BY <1>2, StateFolds DEF Apply
  <1>4. QED  BY <1>1, <1>3 DEF FoldEvent

LEMMA NoStatesShape == NoStates \in [Claims -> States]
  BY DEF NoStates, NoState, States

LEMMA CardEvents ==
  ASSUME NEW e \in Entries, IsCard(e)
  PROVE  e.event \in Events /\ e.event[2] \in Claims
  BY DEF Entries, IsCard, Events

LEMMA ReplayShape ==
  ASSUME journal \in Seq(Entries), NEW n \in 0..Len(journal)
  PROVE  Replay(n) \in [Claims -> States]
  <1>1. CASE n = 0  BY <1>1, NoStatesShape DEF Replay
  <1>2. CASE n # 0
    <2>1. journal[n] \in Entries  BY <1>2
    <2>2. QED  BY <1>2, <2>1 DEF Replay, Entries
  <1>3. QED  BY <1>1, <1>2

LEMMA GenerationShape ==
  ASSUME journal \in Seq(Entries), NEW e \in Claims
  PROVE  Generation(e) \in Nat
  <1> DEFINE N == {n \in 1..Len(journal) : IsCard(journal[n]) /\ journal[n].event[2] = e}
  <1>1. IsFiniteSet(1..Len(journal))  BY FS_Interval
  <1>2. IsFiniteSet(N)  BY <1>1, FS_Subset
  <1>3. QED  BY <1>2, FS_CardinalityType DEF Generation

LEMMA DefaultShape == Default \in Caches
  BY NoStatesShape DEF Default, Caches, Generations, NoGenerations

LEMMA ClearedShape ==
  ASSUME NEW c \in Caches
  PROVE  /\ Cleared(c) \in Caches
         /\ Cleared(c).frontier = 0
         /\ Cleared(c).anchor = 0
         /\ Cleared(c).states = NoStates
         /\ Cleared(c).view = None
         /\ Cleared(c).ahead = FALSE
  BY DefaultShape DEF Default, Caches, Cleared

LEMMA LoadedShape ==
  ASSUME sidecar \in Sidecars \cup {None, Torn}
  PROVE  Loaded \in Caches
  BY DefaultShape DEF Loaded, Sidecars, Caches

LEMMA StampedShape ==
  ASSUME journal \in Seq(Entries), NEW c \in Caches, NEW seen \in SUBSET Claims
  PROVE  /\ Stamped(c, seen) \in Caches
         /\ Stamped(c, seen).frontier = c.frontier
         /\ Stamped(c, seen).anchor = c.anchor
         /\ Stamped(c, seen).states = c.states
         /\ Stamped(c, seen).view = None
         /\ Stamped(c, seen).ahead = c.ahead
  BY GenerationShape DEF Stamped, Caches, Generations

LEMMA BuiltShape ==
  ASSUME NEW c \in Caches
  PROVE  /\ Built(c) \in Caches
         /\ Built(c).frontier = c.frontier
         /\ Built(c).anchor = c.anchor
         /\ Built(c).states = c.states
         /\ Built(c).ahead = c.ahead
         /\ Built(c).view = [frontier |-> c.frontier, states |-> c.states, ahead |-> c.ahead]
         /\ Built(c).view \in Views
  BY DEF Built, Caches, Views

LEMMA AdvancedShape ==
  ASSUME NEW c \in Caches, NEW e \in Entries
  PROVE  /\ Advanced(c, e) \in Caches
         /\ Advanced(c, e).frontier = c.frontier
         /\ Advanced(c, e).anchor = c.anchor
         /\ Advanced(c, e).view = c.view
         /\ Advanced(c, e).ahead = c.ahead
         /\ Advanced(c, e).states = IF IsCard(e) THEN FoldEvent(c.states, e.event) ELSE c.states
  <1>1. CASE IsCard(e)
    <2>1. FoldEvent(c.states, e.event) \in [Claims -> States]
      BY <1>1, CardEvents, StatesFold DEF Caches
    <2>2. QED  BY <1>1, <2>1 DEF Advanced, Caches
  <1>2. CASE ~IsCard(e)  BY <1>2 DEF Advanced, Caches
  <1>3. QED  BY <1>1, <1>2

-----------------------------------------------------------------------------
(* Every step keeps the types *)

LEMMA CheckoutTypes ==
  ASSUME IInv, NEW t \in Hosts, Checkout(t)
  PROVE  TypeOK'
  <1>1. (IF slot = None THEN Loaded ELSE slot) \in Caches
    BY LoadedShape DEF IInv, TypeOK
  <1>2. QED  BY <1>1 DEF IInv, TypeOK, Checkout, store, disk

LEMMA AssembleTypes ==
  ASSUME IInv, NEW t \in Hosts, Assemble(t)
  PROVE  TypeOK'
  <1> DEFINE c == cache[t]
             rebuild == c.freshness = "invalid" \/ (c.frontier > 0 /\ ~AnchorMatches(c))
             start == IF rebuild THEN Cleared(c) ELSE c
  <1>1. c \in Caches  BY DEF IInv, HostOK, Assemble
  <1>2. start \in Caches  BY <1>1, ClearedShape, Zenon
  <1>3. rebuild \in BOOLEAN  BY Zenon
  <1>4. start.frontier \in Nat  BY <1>2 DEF Caches
  <1>5. /\ phase' = [phase EXCEPT ![t] = "folding"]
        /\ cache' = [cache EXCEPT ![t] = start]
        /\ fold' = [fold EXCEPT ![t] = Folding(rebuild, start.frontier)]
        /\ asked' = [asked EXCEPT ![t] = Len(journal)]
        /\ UNCHANGED <<journal, epoch, slot, sidecar, met>>
    BY DEF Assemble, store, disk
  <1> HIDE DEF rebuild, start
  <1>6. Folding(rebuild, start.frontier) \in Assemblies  BY <1>3, <1>4 DEF Folding, Assemblies
  <1>7. Len(journal) \in Nat  BY DEF IInv, TypeOK
  <1>8. QED  BY <1>2, <1>5, <1>6, <1>7 DEF IInv, TypeOK

LEMMA ReadPageTypes ==
  ASSUME IInv, NEW t \in Hosts, ReadPage(t)
  PROVE  TypeOK'
  <1> DEFINE end == Least(fold[t].end + PageLimit, Len(journal))
  <1>1. fold[t] \in Assemblies  BY DEF IInv, HostOK, ReadPage
  <1>2. end \in Nat  BY <1>1, PageAssumption DEF Least, Assemblies, IInv, TypeOK
  <1>3. [fold[t] EXCEPT !.end = end] \in Assemblies  BY <1>1, <1>2 DEF Assemblies
  <1>4. /\ fold' = [fold EXCEPT ![t] = [fold[t] EXCEPT !.end = end]]
        /\ phase' = [phase EXCEPT ![t] = IF end = fold[t].end THEN "finishing" ELSE phase[t]]
        /\ UNCHANGED <<journal, epoch, cache, asked, slot, sidecar, met>>
    BY DEF ReadPage, store, disk
  <1> HIDE DEF end
  <1>5. QED  BY <1>3, <1>4 DEF IInv, TypeOK

LEMMA FoldEntryShape ==
  ASSUME IInv, NEW t \in Hosts, FoldEntry(t)
  PROVE  LET n == fold[t].next + 1
             e == journal[n]
             c == Advanced(cache[t], e)
         IN /\ fold[t] \in Assemblies
            /\ cache[t] \in Caches
            /\ n \in 1..Len(journal)
            /\ n <= fold[t].end
            /\ e \in Entries
            /\ c \in Caches
            /\ AtFrontier(c, n, fold[t].end) \in Caches
            /\ AtFrontier(c, n, fold[t].end).states = c.states
            /\ AtFrontier(c, n, fold[t].end).view = c.view
            /\ AtFrontier(c, n, fold[t].end).ahead = c.ahead
            /\ n = fold[t].end => /\ AtFrontier(c, n, fold[t].end).frontier = n
                                  /\ AtFrontier(c, n, fold[t].end).anchor = e.id
            /\ n # fold[t].end => AtFrontier(c, n, fold[t].end) = c
  <1> DEFINE n == fold[t].next + 1
             e == journal[n]
             c == Advanced(cache[t], e)
             end == fold[t].end
  <1>1. /\ fold[t] \in Assemblies
        /\ cache[t] \in Caches
        /\ fold[t].next < end
        /\ end <= Len(journal)
        /\ journal \in Seq(Entries)
    BY DEF IInv, HostOK, FoldEntry, Advancing, TypeOK
  <1>2. n \in 1..Len(journal) /\ n <= end  BY <1>1 DEF Assemblies
  <1>3. e \in Entries  BY <1>1, <1>2
  <1>4. c \in Caches  BY <1>1, <1>3, AdvancedShape
  <1>5. e.id \in Nat /\ n \in Nat  BY <1>2, <1>3 DEF Entries
  <1>6. AtFrontier(c, n, end) = IF n = end THEN [c EXCEPT !.frontier = n, !.anchor = e.id] ELSE c
    BY DEF AtFrontier
  <1> HIDE DEF c, e, n, end
  <1>7. QED  BY ZenonT(60), <1>1, <1>2, <1>3, <1>4, <1>5, <1>6 DEF Caches, c, e, n, end

LEMMA FoldEntryTypes ==
  ASSUME IInv, NEW t \in Hosts, FoldEntry(t)
  PROVE  TypeOK'
  <1> DEFINE n == fold[t].next + 1
             e == journal[n]
             c == AtFrontier(Advanced(cache[t], e), n, fold[t].end)
             seen == IF IsCard(e) THEN fold[t].seen \cup {e.event[2]} ELSE fold[t].seen
  <1>1. fold[t] \in Assemblies /\ c \in Caches /\ n \in Nat /\ e \in Entries
    BY FoldEntryShape
  <1>2. seen \in SUBSET Claims  BY <1>1, CardEvents DEF Assemblies
  <1>3. /\ cache' = [cache EXCEPT ![t] = c]
        /\ fold' = [fold EXCEPT ![t] = [fold[t] EXCEPT !.next = n, !.seen = seen]]
        /\ UNCHANGED <<journal, epoch, phase, asked, slot, sidecar, met>>
    BY DEF FoldEntry, store, disk
  <1> HIDE DEF n, c, seen
  <1>4. [fold[t] EXCEPT !.next = n, !.seen = seen] \in Assemblies
    BY <1>1, <1>2 DEF Assemblies
  <1>5. QED  BY <1>1, <1>3, <1>4 DEF IInv, TypeOK

LEMMA ReadErrorTypes ==
  ASSUME IInv, NEW t \in Hosts, ReadError(t)
  PROVE  TypeOK'
  <1> DEFINE ahead == \/ cache[t].ahead
                      \/ \E n \in cache[t].frontier + 1 .. fold[t].next : IsCard(journal[n])
  <1>1. cache[t] \in Caches  BY DEF IInv, HostOK, ReadError
  <1>2. ahead \in BOOLEAN  BY Zenon
  <1>3. /\ cache' = [cache EXCEPT ![t] = [cache[t] EXCEPT !.ahead = ahead]]
        /\ phase' = [phase EXCEPT ![t] = "open"]
        /\ fold' = [fold EXCEPT ![t] = None]
        /\ asked' = [asked EXCEPT ![t] = None]
        /\ UNCHANGED <<journal, epoch, slot, sidecar, met>>
    BY DEF ReadError, store, disk
  <1> HIDE DEF ahead
  <1>4. [cache[t] EXCEPT !.ahead = ahead] \in Caches  BY <1>1, <1>2 DEF Caches
  <1>5. QED  BY <1>3, <1>4 DEF IInv, TypeOK

(* A served cache holds the cards it was advanced to and a view of them. *)
Viewed(c, d) ==
  /\ d \in Caches
  /\ d.frontier = c.frontier
  /\ d.anchor = c.anchor
  /\ d.states = c.states
  /\ d.ahead = c.ahead
  /\ d.view # None
  /\ d.view.frontier = c.frontier
  /\ d.view \in {c.view, [frontier |-> c.frontier, states |-> c.states, ahead |-> c.ahead]}

LEMMA ServeShape ==
  ASSUME NEW c \in Caches
  PROVE  Viewed(c, IF Warm(c) THEN c ELSE Built(c))
  <1>1. CASE Warm(c)
    BY <1>1 DEF Warm, Viewed
  <1>2. CASE ~Warm(c)
    <2> DEFINE v == [frontier |-> c.frontier, states |-> c.states, ahead |-> c.ahead]
    <2>1. /\ Built(c) \in Caches
          /\ Built(c).frontier = c.frontier
          /\ Built(c).anchor = c.anchor
          /\ Built(c).states = c.states
          /\ Built(c).ahead = c.ahead
          /\ Built(c).view = v
          /\ v \in Views
      BY BuiltShape
    <2>2. v.frontier = c.frontier  OBVIOUS
    <2>3. v # None  BY <2>1, NoneAssumption
    <2> HIDE DEF v
    <2>4. Built(c).view # None /\ Built(c).view.frontier = c.frontier
      BY <2>1, <2>2, <2>3
    <2>5. Viewed(c, Built(c))  BY <2>1, <2>4 DEF Viewed, v
    <2>6. QED  BY <1>2, <2>5
  <1>3. QED  BY <1>1, <1>2

(* An assembly is served, from a cache of the cards it folded that has no   *)
(* view or still has the one before, or starts again from nothing.          *)
LEMMA FinishShape ==
  ASSUME IInv, NEW t \in Hosts, Finish(t)
  PROVE  /\ cache[t] \in Caches
         /\ fold[t] \in Assemblies
         /\ UNCHANGED <<journal, epoch, asked, slot, sidecar, met>>
         /\ \/ \E d \in Caches :
                 /\ \E c \in Caches :
                      /\ Viewed(c, d)
                      /\ c.frontier = cache[t].frontier
                      /\ c.anchor = cache[t].anchor
                      /\ c.states = cache[t].states
                      /\ c.ahead = cache[t].ahead
                      /\ c.view \in {cache[t].view, None}
                 /\ cache' = [cache EXCEPT ![t] = d]
                 /\ phase' = [phase EXCEPT ![t] = "open"]
                 /\ fold' = [fold EXCEPT ![t] = None]
            \/ /\ cache' = [cache EXCEPT ![t] = Cleared(cache[t])]
               /\ phase' = [phase EXCEPT ![t] = "folding"]
               /\ fold' = [fold EXCEPT ![t] = Folding(TRUE, 0)]
  <1> DEFINE k == cache[t]
             f == fold[t]
             Served_(c) ==
               \E d \in Caches :
                 /\ \E b \in Caches :
                      /\ Viewed(b, d)
                      /\ b.frontier = k.frontier
                      /\ b.anchor = k.anchor
                      /\ b.states = k.states
                      /\ b.ahead = k.ahead
                      /\ b.view \in {k.view, None}
                 /\ cache' = [cache EXCEPT ![t] = d]
                 /\ phase' = [phase EXCEPT ![t] = "open"]
                 /\ fold' = [fold EXCEPT ![t] = None]
  <1>1. k \in Caches /\ f \in Assemblies  BY DEF IInv, HostOK, Finish
  <1>2. UNCHANGED <<journal, epoch, asked, slot, sidecar, met>>
    BY DEF Finish, store, disk
  <1>3. ASSUME NEW c \in Caches, Serve(t, c), c.frontier = k.frontier, c.anchor = k.anchor,
               c.states = k.states, c.ahead = k.ahead, c.view \in {k.view, None}
        PROVE  Served_(c)
    <2> DEFINE d == IF Warm(c) THEN c ELSE Built(c)
    <2>1. Viewed(c, d)  BY ServeShape
    <2>2. d \in Caches  BY <2>1 DEF Viewed
    <2>3. /\ cache' = [cache EXCEPT ![t] = d]
          /\ phase' = [phase EXCEPT ![t] = "open"]
          /\ fold' = [fold EXCEPT ![t] = None]
      BY <1>3 DEF Serve
    <2> HIDE DEF d
    <2>4. QED  BY <1>3, <2>1, <2>2, <2>3
  <1>4. CASE Serve(t, Stamped(k, f.seen))
    <2>1. f.seen \in SUBSET Claims /\ journal \in Seq(Entries)
      BY <1>1 DEF Assemblies, IInv, TypeOK
    <2>2. QED  BY <1>1, <1>2, <1>3, <1>4, <2>1, StampedShape
  <1>5. CASE Serve(t, [k EXCEPT !.freshness = "fresh"])
    <2> DEFINE c == [k EXCEPT !.freshness = "fresh"]
    <2>1. /\ c \in Caches
          /\ c.frontier = k.frontier
          /\ c.anchor = k.anchor
          /\ c.states = k.states
          /\ c.ahead = k.ahead
          /\ c.view = k.view
      BY <1>1 DEF Caches
    <2>2. Serve(t, c)  BY <1>5
    <2> HIDE DEF c
    <2>3. QED  BY <1>1, <1>2, <1>3, <2>1, <2>2
  <1>6. CASE /\ cache' = [cache EXCEPT ![t] = Cleared(k)]
             /\ fold' = [fold EXCEPT ![t] = Folding(TRUE, 0)]
             /\ phase' = [phase EXCEPT ![t] = "folding"]
    BY <1>1, <1>2, <1>6
  <1>7. \/ Serve(t, Stamped(k, f.seen))
        \/ Serve(t, [k EXCEPT !.freshness = "fresh"])
        \/ /\ cache' = [cache EXCEPT ![t] = Cleared(k)]
           /\ fold' = [fold EXCEPT ![t] = Folding(TRUE, 0)]
           /\ phase' = [phase EXCEPT ![t] = "folding"]
    BY Zenon DEF Finish
  <1>8. QED  BY <1>4, <1>5, <1>6, <1>7

LEMMA FinishTypes ==
  ASSUME IInv, NEW t \in Hosts, Finish(t)
  PROVE  TypeOK'
  <1>1. Cleared(cache[t]) \in Caches  BY FinishShape, ClearedShape
  <1>2. Folding(TRUE, 0) \in Assemblies  BY DEF Folding, Assemblies
  <1>3. UNCHANGED <<journal, epoch, asked, slot, sidecar, met>>  BY FinishShape
  <1>4. CASE \E d \in Caches :
               /\ cache' = [cache EXCEPT ![t] = d]
               /\ phase' = [phase EXCEPT ![t] = "open"]
               /\ fold' = [fold EXCEPT ![t] = None]
    BY <1>3, <1>4 DEF IInv, TypeOK
  <1>5. CASE /\ cache' = [cache EXCEPT ![t] = Cleared(cache[t])]
             /\ phase' = [phase EXCEPT ![t] = "folding"]
             /\ fold' = [fold EXCEPT ![t] = Folding(TRUE, 0)]
    BY <1>1, <1>2, <1>3, <1>5 DEF IInv, TypeOK
  <1>6. QED  BY <1>4, <1>5, FinishShape

LEMMA DropTypes ==
  ASSUME IInv, NEW t \in Hosts, Drop(t)
  PROVE  TypeOK'
  <1>1. met' \in [Hosts -> BOOLEAN]
    <2> DEFINE m(u) == IF ~cache[t].dirty THEN met[u]
                       ELSE IF u = t THEN \E v \in Hosts \ {t} : phase[v] = "saving"
                       ELSE met[u] \/ phase[u] = "saving"
    <2>1. ASSUME NEW u \in Hosts  PROVE m(u) \in BOOLEAN
      <3>1. met[u] \in BOOLEAN  BY DEF IInv, TypeOK
      <3>2. (\E v \in Hosts \ {t} : phase[v] = "saving") \in BOOLEAN  BY Zenon
      <3>3. (met[u] \/ phase[u] = "saving") \in BOOLEAN  BY Zenon
      <3>4. QED  BY <3>1, <3>2, <3>3, Zenon
    <2>2. met' = [u \in Hosts |-> m(u)]  BY DEF Drop
    <2> HIDE DEF m
    <2>3. QED  BY <2>1, <2>2
  <1>2. QED  BY <1>1 DEF IInv, TypeOK, Drop, store

LEMMA PersistedShape ==
  ASSUME NEW c \in Caches
  PROVE  Persisted(c) \in Sidecars
  BY DEF Persisted, Sidecars, Caches

LEMMA MixturesShape ==
  ASSUME IInv, NEW t \in Hosts
  PROVE  Mixtures(t) \subseteq Sidecars \cup {Torn}
  <1>1. ASSUME NEW u \in Hosts, phase[u] = "saving"  PROVE Persisted(cache[u]) \in Sidecars
    BY <1>1, PersistedShape DEF IInv, HostOK
  <1>2. QED  BY <1>1 DEF Mixtures

LEMMA SaveTypes ==
  ASSUME IInv, NEW t \in Hosts, Save(t)
  PROVE  TypeOK'
  <1>1. cache[t] \in Caches  BY DEF IInv, HostOK, Save
  <1>2. [cache[t] EXCEPT !.dirty = FALSE] \in Caches  BY <1>1 DEF Caches
  <1>3. sidecar' \in Sidecars \cup {None, Torn}  BY <1>1, PersistedShape, MixturesShape DEF Save
  <1>4. QED  BY <1>2, <1>3 DEF IInv, TypeOK, Save, store

LEMMA SaveErrorTypes ==
  ASSUME IInv, NEW t \in Hosts, SaveError(t)
  PROVE  TypeOK'
  <1>1. sidecar' \in Sidecars \cup {None, Torn}
    BY MixturesShape DEF SaveError, IInv, TypeOK
  <1>2. QED  BY <1>1 DEF IInv, TypeOK, SaveError, store

LEMMA CheckinTypes ==
  ASSUME IInv, NEW t \in Hosts, Checkin(t)
  PROVE  TypeOK'
  <1>1. cache[t] \in Caches  BY DEF IInv, HostOK, Checkin
  <1>2. QED  BY <1>1 DEF IInv, TypeOK, Checkin, store, disk

LEMMA CrashTypes ==
  ASSUME IInv, Crash
  PROVE  TypeOK'
  BY DEF IInv, TypeOK, Crash, store

LEMMA CommitShape ==
  ASSUME IInv, NEW event \in Events \cup {Other}, Commit(event)
  PROVE  \E e \in Entries :
           /\ journal' = Append(journal, e)
           /\ e.id = epoch
           /\ e.state = IF IsCard(e) THEN FoldEvent(Replay(Len(journal)), e.event)
                        ELSE Replay(Len(journal))
           /\ UNCHANGED <<epoch, phase, cache, fold, asked, slot, sidecar, met>>
  <1> DEFINE before == Replay(Len(journal))
             state == IF event = Other THEN before ELSE FoldEvent(before, event)
             e == [event |-> event, id |-> epoch, state |-> state]
  <1>1. journal \in Seq(Entries) /\ epoch \in Nat  BY DEF IInv, TypeOK
  <1>2. before \in [Claims -> States]
    <2>1. Len(journal) \in 0..Len(journal)  BY <1>1
    <2>2. QED  BY <1>1, <2>1, ReplayShape
  <1>3. state \in [Claims -> States]
    <2>1. CASE event = Other  BY <1>2, <2>1
    <2>2. CASE event # Other  BY <1>2, <2>2, StatesFold
    <2>3. QED  BY <2>1, <2>2
  <1>4. /\ journal' = Append(journal, e)
        /\ UNCHANGED <<epoch, phase, cache, fold, asked, slot, sidecar, met>>
    BY DEF Commit, disk
  <1>5. e.event = event /\ e.id = epoch /\ e.state = state  OBVIOUS
  <1>6. IsCard(e) <=> event # Other  BY <1>5 DEF IsCard
  <1>7. e \in Entries  BY <1>1, <1>3 DEF Entries
  <1> HIDE DEF e
  <1>8. QED  BY <1>4, <1>5, <1>6, <1>7

LEMMA CommitTypes ==
  ASSUME IInv, NEW event \in Events \cup {Other}, Commit(event)
  PROVE  TypeOK'
  <1>1. PICK e \in Entries :
          /\ journal' = Append(journal, e)
          /\ UNCHANGED <<epoch, phase, cache, fold, asked, slot, sidecar, met>>
    BY CommitShape
  <1>2. journal' \in Seq(Entries)  BY <1>1 DEF IInv, TypeOK
  <1>3. QED  BY <1>1, <1>2 DEF IInv, TypeOK

LEMMA ReplaceTypes ==
  ASSUME IInv, NEW n \in 0..MaxJournal, Replace(n)
  PROVE  TypeOK'
  <1>1. journal \in Seq(Entries) /\ epoch \in Nat /\ n \in Nat /\ n < Len(journal)
    BY BoundAssumption DEF IInv, TypeOK, Replace
  <1>2. SubSeq(journal, 1, n) \in Seq(Entries)  BY <1>1
  <1>3. QED  BY <1>1, <1>2 DEF IInv, TypeOK, Replace, disk

-----------------------------------------------------------------------------
(* Every step keeps the invariant *)

LEMMA InitHolds == Init => IInv
  <1> SUFFICES ASSUME Init PROVE IInv  OBVIOUS
  <1>1. TypeOK  BY DEF Init, TypeOK
  <1>2. Len(journal) = 0  BY DEF Init
  <1>3. JournalFolds  BY <1>2 DEF JournalFolds
  <1>4. SlotOK /\ SidecarOK  BY DEF Init, SlotOK, SidecarOK
  <1>5. \A t \in Hosts : HostOK(t)  BY DEF Init, HostOK, Served
  <1>6. QED  BY <1>1, <1>3, <1>4, <1>5 DEF IInv

(* A host that does not step keeps its part while the journal stays. *)
LEMMA Elsewhere ==
  ASSUME NEW u \in Hosts, HostOK(u), UNCHANGED store,
         phase'[u] = phase[u], cache'[u] = cache[u], fold'[u] = fold[u], asked'[u] = asked[u]
  PROVE  HostOK(u)'
  BY DEF HostOK, ViewSound, Sound, Advancing, Served, AnchorMatches, Replay, IsCard, store

LEMMA OwnStep ==
  ASSUME IInv, NEW t \in Hosts, UNCHANGED store, TypeOK', SlotOK', SidecarOK', HostOK(t)',
         \A u \in Hosts \ {t} : /\ phase'[u] = phase[u]
                                /\ cache'[u] = cache[u]
                                /\ fold'[u] = fold[u]
                                /\ asked'[u] = asked[u]
  PROVE  IInv'
  <1>1. JournalFolds'  BY DEF IInv, JournalFolds, IsCard, Replay, store
  <1>2. \A u \in Hosts : HostOK(u)'  BY Elsewhere DEF IInv
  <1>3. QED  BY <1>1, <1>2 DEF IInv

LEMMA KeptSlot == ASSUME SlotOK, UNCHANGED <<store, slot>> PROVE SlotOK'
  BY DEF SlotOK, ViewSound, Sound, AnchorMatches, Replay, store

LEMMA KeptSidecar == ASSUME SidecarOK, UNCHANGED <<store, sidecar>> PROVE SidecarOK'
  BY DEF SidecarOK, Sound, AnchorMatches, Replay, store

(* A cache out of the slot or the sidecar is sound. *)
LEMMA CheckoutHolds ==
  ASSUME IInv, NEW t \in Hosts, Checkout(t)
  PROVE  IInv'
  <1> DEFINE c == IF slot = None THEN Loaded ELSE slot
  <1>1. TypeOK'  BY CheckoutTypes
  <1>2. c \in Caches  BY LoadedShape DEF IInv, TypeOK
  <1>3. Sound(c) /\ ViewSound(c)
    <2>1. CASE slot # None  BY <2>1 DEF IInv, SlotOK
    <2>2. CASE slot = None /\ sidecar \notin {None, Torn}
      <3>1. /\ c.frontier = sidecar.frontier
            /\ c.anchor = sidecar.anchor
            /\ c.states = sidecar.states
            /\ c.ahead = sidecar.ahead
            /\ c.view = None
        BY <2>2 DEF Loaded
      <3>2. Sound(sidecar)  BY <2>2 DEF IInv, SidecarOK
      <3> HIDE DEF c
      <3>3. QED  BY <3>1, <3>2 DEF Sound, ViewSound, AnchorMatches
    <2>3. CASE slot = None /\ sidecar \in {None, Torn}
      <3>1. /\ c.frontier = 0
            /\ c.anchor = 0
            /\ c.states = NoStates
            /\ c.view = None
        BY <2>3 DEF Loaded, Default
      <3>2. Replay(0) = NoStates  BY DEF Replay
      <3>3. epoch \in Nat /\ Len(journal) \in Nat  BY DEF IInv, TypeOK
      <3> HIDE DEF c
      <3>4. QED  BY <3>1, <3>2, <3>3 DEF Sound, ViewSound
    <2>4. QED  BY <2>1, <2>2, <2>3
  <1>4. /\ phase[t] = "closed"
        /\ phase' = [phase EXCEPT ![t] = "open"]
        /\ cache' = [cache EXCEPT ![t] = c]
        /\ slot' = None
        /\ UNCHANGED <<journal, epoch, fold, asked, sidecar, met>>
    BY DEF Checkout, store, disk
  <1>5. asked[t] = None  BY <1>4 DEF IInv, HostOK
  <1> HIDE DEF c
  <1>6. /\ phase'[t] = "open"
        /\ cache'[t] = c
        /\ asked'[t] = None
    BY <1>4, <1>5 DEF IInv, TypeOK
  <1>7. Sound(cache[t])' /\ ViewSound(cache[t])'
    BY <1>3, <1>4, <1>6 DEF Sound, ViewSound, AnchorMatches, Replay
  <1>8. HostOK(t)'  BY <1>2, <1>6, <1>7 DEF HostOK, Served
  <1>9. SlotOK' /\ SidecarOK'  BY <1>4, KeptSidecar DEF SlotOK, IInv, store
  <1>10. QED  BY <1>1, <1>4, <1>8, <1>9, OwnStep DEF IInv, TypeOK, store

(* A cache to be advanced has its anchor in the journal, or is empty. *)
LEMMA AssembleHolds ==
  ASSUME IInv, NEW t \in Hosts, Assemble(t)
  PROVE  IInv'
  <1> DEFINE c == cache[t]
             rebuild == c.freshness = "invalid" \/ (c.frontier > 0 /\ ~AnchorMatches(c))
             d == IF rebuild THEN Cleared(c) ELSE c
             f == Folding(rebuild, d.frontier)
  <1>1. TypeOK'  BY AssembleTypes
  <1>2. /\ phase[t] = "open"
        /\ phase' = [phase EXCEPT ![t] = "folding"]
        /\ cache' = [cache EXCEPT ![t] = d]
        /\ fold' = [fold EXCEPT ![t] = f]
        /\ asked' = [asked EXCEPT ![t] = Len(journal)]
        /\ UNCHANGED <<journal, epoch, slot, sidecar, met>>
    BY DEF Assemble, store, disk
  <1>3. c \in Caches /\ Sound(c) /\ ViewSound(c)  BY <1>2 DEF IInv, HostOK
  <1>4. Len(journal) \in Nat /\ epoch \in Nat  BY DEF IInv, TypeOK
  <1>5. /\ d \in Caches
        /\ ViewSound(d)
        /\ d.frontier \in 0..Len(journal)
        /\ d.anchor <= epoch
        /\ d.frontier > 0 => AnchorMatches(d)
        /\ ~d.ahead => d.states = Replay(d.frontier)
    <2>1. CASE rebuild
      <3>1. Replay(0) = NoStates  BY DEF Replay
      <3>2. /\ d \in Caches
            /\ d.frontier = 0
            /\ d.anchor = 0
            /\ d.states = NoStates
            /\ d.view = None
        BY <1>3, <2>1, ClearedShape
      <3> HIDE DEF d
      <3>3. QED  BY <1>4, <3>1, <3>2 DEF ViewSound
    <2>2. CASE ~rebuild
      <3>1. d = c  BY <2>2
      <3>2. c.frontier \in Nat  BY <1>3 DEF Caches
      <3>3. c.frontier > 0 => AnchorMatches(c)  BY <2>2
      <3>4. c.frontier = 0 \/ AnchorMatches(c)  BY <3>2, <3>3
      <3> HIDE DEF d, rebuild, c
      <3>5. QED  BY <1>3, <1>4, <3>1, <3>2, <3>3, <3>4 DEF Sound, AnchorMatches
    <2>3. QED  BY <2>1, <2>2
  <1>6. f.next = d.frontier /\ f.end = d.frontier  BY DEF Folding
  <1> HIDE DEF d, f
  <1>7. /\ phase'[t] = "folding"
        /\ cache'[t] = d
        /\ fold'[t] = f
        /\ asked'[t] = Len(journal)
    BY <1>2 DEF IInv, TypeOK
  <1>8. f \in Assemblies
    <2>1. rebuild \in BOOLEAN  BY Zenon
    <2> HIDE DEF rebuild
    <2>2. QED  BY <1>5, <2>1 DEF f, Folding, Assemblies
  <1>9. Advancing(cache[t], fold[t])'
    BY <1>2, <1>4, <1>5, <1>6, <1>7 DEF Advancing, AnchorMatches, Replay, IsCard
  <1>10. ViewSound(cache[t])'  BY <1>2, <1>5, <1>7 DEF ViewSound, Replay
  <1>11. HostOK(t)'  BY <1>2, <1>4, <1>5, <1>7, <1>8, <1>9, <1>10 DEF HostOK, Served
  <1>12. SlotOK' /\ SidecarOK'  BY <1>2, KeptSlot, KeptSidecar DEF IInv, store
  <1>13. QED  BY <1>1, <1>2, <1>11, <1>12, OwnStep DEF IInv, TypeOK, store

(* An empty page means that all that was committed is folded. *)
LEMMA ReadPageHolds ==
  ASSUME IInv, NEW t \in Hosts, ReadPage(t)
  PROVE  IInv'
  <1> DEFINE c == cache[t]
             f == fold[t]
             end == Least(f.end + PageLimit, Len(journal))
             g == [f EXCEPT !.end = end]
  <1>1. TypeOK'  BY ReadPageTypes
  <1>2. /\ phase[t] = "folding"
        /\ f.next = f.end
        /\ fold' = [fold EXCEPT ![t] = g]
        /\ phase' = [phase EXCEPT ![t] = IF end = f.end THEN "finishing" ELSE phase[t]]
        /\ UNCHANGED <<journal, epoch, cache, asked, slot, sidecar, met>>
    BY DEF ReadPage, store, disk
  <1>3. /\ c \in Caches
        /\ ViewSound(c)
        /\ f \in Assemblies
        /\ Advancing(c, f)
        /\ asked[t] \in Nat
        /\ asked[t] <= Len(journal)
    BY <1>2 DEF IInv, HostOK
  <1>4. Len(journal) \in Nat /\ f.end \in Nat /\ f.end <= Len(journal)
    BY <1>3 DEF IInv, TypeOK, Assemblies, Advancing
  <1>5. /\ end \in Nat
        /\ f.end <= end
        /\ end <= Len(journal)
        /\ end = f.end => end = Len(journal)
    BY <1>4, PageAssumption DEF Least
  <1>6. g \in Assemblies /\ g.next = f.next /\ g.end = end  BY <1>3, <1>5 DEF Assemblies
  <1> HIDE DEF end, g
  <1>7. fold'[t] = g /\ cache'[t] = c /\ asked'[t] = asked[t]  BY <1>2 DEF IInv, TypeOK
  <1>8. /\ phase'[t] \in {"folding", "finishing"}
        /\ phase'[t] = "finishing" => end = f.end
    BY <1>2 DEF IInv, TypeOK
  <1>9. Advancing(cache[t], fold[t])'
    BY <1>2, <1>3, <1>4, <1>5, <1>6, <1>7 DEF Advancing, AnchorMatches, Replay, IsCard
  <1>10. ViewSound(cache[t])'  BY <1>2, <1>3, <1>7 DEF ViewSound, Replay
  <1>11. HostOK(t)'
    BY <1>2, <1>3, <1>5, <1>6, <1>7, <1>8, <1>9, <1>10 DEF HostOK, Served
  <1>12. SlotOK' /\ SidecarOK'  BY <1>2, KeptSlot, KeptSidecar DEF IInv, store
  <1>13. QED  BY <1>1, <1>2, <1>11, <1>12, OwnStep DEF IInv, TypeOK, store

(* An entry is folded as the journal's replay folds it. *)
LEMMA FoldEntryHolds ==
  ASSUME IInv, NEW t \in Hosts, FoldEntry(t)
  PROVE  IInv'
  <1> DEFINE c == cache[t]
             f == fold[t]
             n == f.next + 1
             e == journal[n]
             b == Advanced(c, e)
             d == AtFrontier(b, n, f.end)
             seen == IF IsCard(e) THEN f.seen \cup {e.event[2]} ELSE f.seen
             g == [f EXCEPT !.next = n, !.seen = seen]
  <1>1. TypeOK'  BY FoldEntryTypes
  <1>2. /\ phase[t] = "folding"
        /\ cache' = [cache EXCEPT ![t] = d]
        /\ fold' = [fold EXCEPT ![t] = g]
        /\ UNCHANGED <<journal, epoch, phase, asked, slot, sidecar, met>>
    BY DEF FoldEntry, store, disk
  <1>3. /\ c \in Caches
        /\ ViewSound(c)
        /\ f \in Assemblies
        /\ Advancing(c, f)
        /\ asked[t] \in Nat
        /\ asked[t] <= Len(journal)
    BY <1>2 DEF IInv, HostOK
  <1>4. /\ n \in 1..Len(journal)
        /\ n <= f.end
        /\ e \in Entries
        /\ d \in Caches
        /\ d.states = b.states
        /\ d.view = b.view
        /\ d.ahead = b.ahead
        /\ n = f.end => d.frontier = n /\ d.anchor = e.id
        /\ n # f.end => d = b
    BY FoldEntryShape
  <1>5. /\ b.frontier = c.frontier
        /\ b.anchor = c.anchor
        /\ b.view = c.view
        /\ b.ahead = c.ahead
        /\ b.states = IF IsCard(e) THEN FoldEvent(c.states, e.event) ELSE c.states
    BY <1>3, <1>4, AdvancedShape
  <1>6. /\ e.id <= epoch
        /\ e.state = IF IsCard(e) THEN FoldEvent(Replay(n - 1), e.event) ELSE Replay(n - 1)
    BY <1>4 DEF IInv, JournalFolds
  <1>7. n - 1 = f.next /\ n = f.next + 1 /\ f.next \in Nat /\ f.end \in Nat
    BY <1>3 DEF Assemblies
  <1>8. Replay(n) = e.state  BY <1>4 DEF Replay
  <1>9. ~d.ahead => d.states = Replay(n)
    BY <1>3, <1>4, <1>5, <1>6, <1>7, <1>8 DEF Advancing
  <1>10. c.frontier \in Nat /\ c.frontier <= f.next  BY <1>3 DEF Caches, Advancing
  <1>11. (\A m \in c.frontier + 1 .. n : ~IsCard(journal[m])) => Replay(n) = Replay(c.frontier)
    <2> SUFFICES ASSUME \A m \in c.frontier + 1 .. n : ~IsCard(journal[m])
                 PROVE  Replay(n) = Replay(c.frontier)
      OBVIOUS
    <2>1. ~IsCard(e)  BY <1>7, <1>10
    <2>2. Replay(n) = Replay(f.next)  BY <1>6, <1>7, <1>8, <2>1
    <2>3. \A m \in c.frontier + 1 .. f.next : ~IsCard(journal[m])  BY <1>7, <1>10
    <2>4. QED  BY <1>3, <2>2, <2>3 DEF Advancing
  <1>12. g.next = n /\ g.end = f.end  BY <1>3 DEF Assemblies
  <1>13. fold'[t] = g /\ cache'[t] = d /\ asked'[t] = asked[t] /\ phase'[t] = phase[t]
    BY <1>2 DEF IInv, TypeOK
  <1>14. fold'[t] \in Assemblies
    <2>1. seen \in SUBSET Claims  BY <1>3, <1>4, CardEvents DEF Assemblies
    <2>2. n \in Nat  BY <1>7
    <2> HIDE DEF seen, n
    <2>3. [f EXCEPT !.next = n, !.seen = seen] \in Assemblies
      BY <1>3, <2>1, <2>2 DEF Assemblies
    <2>4. QED  BY <1>13, <2>3
  <1> HIDE DEF g, d, b, e, n
  <1>15. d.frontier <= n
    BY <1>4, <1>5, <1>7, <1>10
  <1>16. d.frontier > 0 => AnchorMatches(d)
    <2>1. CASE n = f.end  BY <1>4, <2>1 DEF AnchorMatches, e
    <2>2. CASE n # f.end  BY <1>3, <1>4, <1>5, <2>2 DEF AnchorMatches, Advancing
    <2>3. QED  BY <2>1, <2>2
  <1>17. d.anchor <= epoch  BY <1>3, <1>4, <1>5, <1>6 DEF Advancing
  <1>18. (\A m \in d.frontier + 1 .. n : ~IsCard(journal[m])) => Replay(n) = Replay(d.frontier)
    BY <1>4, <1>5, <1>11
  <1>19. f.end <= Len(journal)  BY <1>3 DEF Advancing
  <1>20. Advancing(d, g)
    BY <1>4, <1>9, <1>12, <1>15, <1>16, <1>17, <1>18, <1>19 DEF Advancing
  <1>21. Advancing(cache[t], fold[t])'
    BY <1>2, <1>13, <1>20 DEF Advancing, AnchorMatches, Replay, IsCard
  <1>22. ViewSound(cache[t])'  BY <1>2, <1>3, <1>4, <1>5, <1>13 DEF ViewSound, Replay
  <1>23. HostOK(t)'
    BY <1>2, <1>3, <1>4, <1>13, <1>14, <1>21, <1>22 DEF HostOK, Served
  <1>24. SlotOK' /\ SidecarOK'  BY <1>2, KeptSlot, KeptSidecar DEF IInv, store
  <1>25. QED  BY <1>1, <1>2, <1>23, <1>24, OwnStep DEF IInv, TypeOK, store

(* What a failed assembly leaves is a replay through its frontier, unless a *)
(* card was folded beyond it, which the history field records.             *)
LEMMA ReadErrorHolds ==
  ASSUME IInv, NEW t \in Hosts, ReadError(t)
  PROVE  IInv'
  <1> DEFINE c == cache[t]
             f == fold[t]
             ahead == c.ahead \/ \E n \in c.frontier + 1 .. f.next : IsCard(journal[n])
             d == [c EXCEPT !.ahead = ahead]
  <1>1. TypeOK'  BY ReadErrorTypes
  <1>2. /\ phase[t] = "folding"
        /\ cache' = [cache EXCEPT ![t] = d]
        /\ phase' = [phase EXCEPT ![t] = "open"]
        /\ fold' = [fold EXCEPT ![t] = None]
        /\ asked' = [asked EXCEPT ![t] = None]
        /\ UNCHANGED <<journal, epoch, slot, sidecar, met>>
    BY DEF ReadError, store, disk
  <1>3. /\ c \in Caches
        /\ ViewSound(c)
        /\ f \in Assemblies
        /\ Advancing(c, f)
    BY <1>2 DEF IInv, HostOK
  <1>4. ahead \in BOOLEAN  BY Zenon
  <1>5. ~ahead => ~c.ahead /\ \A n \in c.frontier + 1 .. f.next : ~IsCard(journal[n])
    OBVIOUS
  <1> HIDE DEF ahead
  <1>6. /\ d \in Caches
        /\ d.frontier = c.frontier
        /\ d.anchor = c.anchor
        /\ d.states = c.states
        /\ d.view = c.view
        /\ d.ahead = ahead
    BY <1>3, <1>4 DEF Caches
  <1>7. c.frontier \in Nat /\ Len(journal) \in Nat /\ f.next \in Nat /\ f.end \in Nat
    BY <1>3 DEF Caches, Assemblies, IInv, TypeOK
  <1>8. c.frontier <= Len(journal) /\ c.anchor <= epoch  BY <1>3, <1>7 DEF Advancing
  <1>9. ~ahead => c.states = Replay(c.frontier)  BY <1>3, <1>5 DEF Advancing
  <1> HIDE DEF d
  <1>10. /\ phase'[t] = "open"
         /\ cache'[t] = d
         /\ asked'[t] = None
    BY <1>2 DEF IInv, TypeOK
  <1>11. Sound(cache[t])'
    BY <1>2, <1>6, <1>7, <1>8, <1>9, <1>10 DEF Sound, Replay
  <1>12. ViewSound(cache[t])'  BY <1>2, <1>3, <1>6, <1>10 DEF ViewSound, Replay
  <1>13. HostOK(t)'  BY <1>6, <1>10, <1>11, <1>12 DEF HostOK, Served
  <1>14. SlotOK' /\ SidecarOK'  BY <1>2, KeptSlot, KeptSidecar DEF IInv, store
  <1>15. QED  BY <1>1, <1>2, <1>13, <1>14, OwnStep DEF IInv, TypeOK, store

(* A served view is the cache's own cards, at its own frontier, or one      *)
(* served before at the same frontier.                                     *)
LEMMA FinishHolds ==
  ASSUME IInv, NEW t \in Hosts, Finish(t)
  PROVE  IInv'
  <1> DEFINE k == cache[t]
             f == fold[t]
  <1>1. TypeOK'  BY FinishTypes
  <1>2. /\ phase[t] = "finishing"
        /\ UNCHANGED <<journal, epoch, asked, slot, sidecar, met>>
    BY FinishShape DEF Finish
  <1>3. /\ k \in Caches
        /\ ViewSound(k)
        /\ f \in Assemblies
        /\ Advancing(k, f)
        /\ asked[t] \in Nat
        /\ asked[t] <= Len(journal)
        /\ f.next = f.end
        /\ asked[t] <= f.end
    BY <1>2 DEF IInv, HostOK
  <1>4. /\ k.frontier = f.end
        /\ k.frontier <= Len(journal)
        /\ k.anchor <= epoch
        /\ ~k.ahead => k.states = Replay(k.frontier)
    BY <1>3 DEF Advancing
  <1>5. /\ Len(journal) \in Nat
        /\ k.frontier \in Nat
    BY <1>3 DEF Caches, IInv, TypeOK
  <1>6. SlotOK' /\ SidecarOK'  BY <1>2, KeptSlot, KeptSidecar DEF IInv, store
  <1>7. asked'[t] = asked[t]  BY <1>2
  <1>8. ASSUME NEW c \in Caches, NEW d \in Caches, Viewed(c, d),
               c.frontier = k.frontier, c.anchor = k.anchor, c.states = k.states,
               c.ahead = k.ahead, c.view \in {k.view, None},
               cache' = [cache EXCEPT ![t] = d],
               phase' = [phase EXCEPT ![t] = "open"],
               fold' = [fold EXCEPT ![t] = None]
        PROVE  IInv'
    <2> DEFINE v == [frontier |-> k.frontier, states |-> k.states, ahead |-> k.ahead]
    <2>1. phase'[t] = "open" /\ cache'[t] = d  BY <1>8 DEF IInv, TypeOK
    <2>2. /\ d.frontier = k.frontier
          /\ d.anchor = k.anchor
          /\ d.states = k.states
          /\ d.ahead = k.ahead
          /\ d.view # None
          /\ d.view.frontier = k.frontier
          /\ d.view \in {k.view, v}
      BY <1>8 DEF Viewed
    <2>3. Sound(cache[t])'
      BY <1>2, <1>4, <1>5, <2>1, <2>2 DEF Sound, Replay
    <2>4. ViewSound(cache[t])'
      <3>1. CASE d.view = k.view
        BY <1>2, <1>3, <2>1, <3>1 DEF ViewSound, Replay
      <3>2. CASE d.view = v
        <4>1. v.frontier = k.frontier /\ v.states = k.states /\ v.ahead = k.ahead  OBVIOUS
        <4> HIDE DEF v
        <4>2. QED  BY <1>2, <1>4, <2>1, <3>2, <4>1 DEF ViewSound, Replay
      <3>3. QED  BY <2>2, <3>1, <3>2
    <2>5. HostOK(t)'
      BY <1>3, <1>4, <1>5, <1>7, <2>1, <2>2, <2>3, <2>4 DEF HostOK, Served
    <2>6. QED  BY <1>1, <1>2, <1>6, <1>8, <2>5, OwnStep DEF IInv, TypeOK, store
  <1>9. ASSUME cache' = [cache EXCEPT ![t] = Cleared(k)],
               phase' = [phase EXCEPT ![t] = "folding"],
               fold' = [fold EXCEPT ![t] = Folding(TRUE, 0)]
        PROVE  IInv'
    <2> DEFINE d == Cleared(k)
               g == Folding(TRUE, 0)
    <2>1. /\ d \in Caches
          /\ d.frontier = 0
          /\ d.anchor = 0
          /\ d.states = NoStates
          /\ d.view = None
      BY <1>3, ClearedShape
    <2>2. g \in Assemblies /\ g.next = 0 /\ g.end = 0  BY DEF Folding, Assemblies
    <2> HIDE DEF d, g
    <2>3. phase'[t] = "folding" /\ cache'[t] = d /\ fold'[t] = g
      BY <1>9 DEF IInv, TypeOK, d, g
    <2>4. Replay(0) = NoStates  BY DEF Replay
    <2>5. epoch \in Nat  BY DEF IInv, TypeOK
    <2>6. Advancing(cache[t], fold[t])'
      BY <1>2, <1>5, <2>1, <2>2, <2>3, <2>4, <2>5 DEF Advancing, Replay
    <2>7. ViewSound(cache[t])'  BY <2>1, <2>3 DEF ViewSound
    <2>8. HostOK(t)'
      BY <1>2, <1>3, <1>7, <2>1, <2>2, <2>3, <2>6, <2>7 DEF HostOK, Served
    <2>9. QED  BY <1>1, <1>2, <1>6, <1>9, <2>8, OwnStep DEF IInv, TypeOK, store
  <1>10. QED  BY <1>8, <1>9, FinishShape

LEMMA DropHolds ==
  ASSUME IInv, NEW t \in Hosts, Drop(t)
  PROVE  IInv'
  <1>1. TypeOK'  BY DropTypes
  <1>2. /\ phase[t] = "open"
        /\ phase' = [phase EXCEPT ![t] = IF cache[t].dirty THEN "saving" ELSE "leaving"]
        /\ asked' = [asked EXCEPT ![t] = None]
        /\ UNCHANGED <<journal, epoch, cache, fold, slot, sidecar>>
    BY DEF Drop, store
  <1>3. cache[t] \in Caches /\ Sound(cache[t]) /\ ViewSound(cache[t])
    BY <1>2 DEF IInv, HostOK
  <1>4. phase'[t] \in {"saving", "leaving"} /\ asked'[t] = None
    BY <1>2 DEF IInv, TypeOK
  <1>5. Sound(cache[t])' /\ ViewSound(cache[t])'
    BY <1>2, <1>3 DEF Sound, ViewSound, AnchorMatches, Replay
  <1>6. HostOK(t)'  BY <1>2, <1>3, <1>4, <1>5 DEF HostOK, Served
  <1>7. SlotOK' /\ SidecarOK'  BY <1>2, KeptSlot, KeptSidecar DEF IInv, store
  <1>8. QED  BY <1>1, <1>2, <1>6, <1>7, OwnStep DEF IInv, TypeOK, store

(* A sidecar holds the cache of a saver, or does not decode. *)
LEMMA SavedSidecar ==
  ASSUME IInv, NEW t \in Hosts, phase[t] = "saving", UNCHANGED store,
         sidecar' \in {sidecar, Persisted(cache[t])} \cup Mixtures(t)
  PROVE  SidecarOK'
  <1>1. CASE sidecar' = sidecar  BY <1>1, KeptSidecar DEF IInv
  <1>2. CASE sidecar' = Torn  BY <1>2 DEF SidecarOK
  <1>3. ASSUME NEW u \in Hosts, phase[u] = "saving", sidecar' = Persisted(cache[u])
        PROVE  SidecarOK'
    <2> DEFINE p == Persisted(cache[u])
    <2>1. /\ p.frontier = cache[u].frontier
          /\ p.anchor = cache[u].anchor
          /\ p.states = cache[u].states
          /\ p.ahead = cache[u].ahead
      BY DEF Persisted
    <2>2. Sound(cache[u])  BY <1>3 DEF IInv, HostOK
    <2> HIDE DEF p
    <2>3. Sound(sidecar)'
      BY <1>3, <2>1, <2>2 DEF Sound, AnchorMatches, Replay, store, p
    <2>4. QED  BY <2>3 DEF SidecarOK
  <1>4. QED  BY <1>1, <1>2, <1>3 DEF Mixtures

LEMMA SaveHolds ==
  ASSUME IInv, NEW t \in Hosts, Save(t)
  PROVE  IInv'
  <1> DEFINE d == [cache[t] EXCEPT !.dirty = FALSE]
  <1>1. TypeOK'  BY SaveTypes
  <1>2. /\ phase[t] = "saving"
        /\ sidecar' \in {sidecar, Persisted(cache[t])} \cup Mixtures(t)
        /\ cache' = [cache EXCEPT ![t] = d]
        /\ phase' = [phase EXCEPT ![t] = "leaving"]
        /\ UNCHANGED <<journal, epoch, fold, asked, slot>>
    BY DEF Save, store
  <1>3. /\ cache[t] \in Caches
        /\ Sound(cache[t])
        /\ ViewSound(cache[t])
        /\ asked[t] = None
    BY <1>2 DEF IInv, HostOK
  <1>4. /\ d \in Caches
        /\ d.frontier = cache[t].frontier
        /\ d.anchor = cache[t].anchor
        /\ d.states = cache[t].states
        /\ d.view = cache[t].view
        /\ d.ahead = cache[t].ahead
    BY <1>3 DEF Caches
  <1> HIDE DEF d
  <1>5. phase'[t] = "leaving" /\ cache'[t] = d /\ asked'[t] = None
    BY <1>2, <1>3 DEF IInv, TypeOK
  <1>6. Sound(cache[t])' /\ ViewSound(cache[t])'
    BY <1>2, <1>3, <1>4, <1>5 DEF Sound, ViewSound, AnchorMatches, Replay
  <1>7. HostOK(t)'  BY <1>4, <1>5, <1>6 DEF HostOK, Served
  <1>8. SlotOK' /\ SidecarOK'  BY <1>2, KeptSlot, SavedSidecar DEF IInv, store
  <1>9. QED  BY <1>1, <1>2, <1>7, <1>8, OwnStep DEF IInv, TypeOK, store

LEMMA SaveErrorHolds ==
  ASSUME IInv, NEW t \in Hosts, SaveError(t)
  PROVE  IInv'
  <1>1. TypeOK'  BY SaveErrorTypes
  <1>2. /\ phase[t] = "saving"
        /\ sidecar' \in {sidecar, Persisted(cache[t])} \cup Mixtures(t)
        /\ phase' = [phase EXCEPT ![t] = "leaving"]
        /\ UNCHANGED <<journal, epoch, cache, fold, asked, slot>>
    BY DEF SaveError, store
  <1>3. /\ cache[t] \in Caches
        /\ Sound(cache[t])
        /\ ViewSound(cache[t])
        /\ asked[t] = None
    BY <1>2 DEF IInv, HostOK
  <1>4. phase'[t] = "leaving"  BY <1>2 DEF IInv, TypeOK
  <1>5. Sound(cache[t])' /\ ViewSound(cache[t])'
    BY <1>2, <1>3 DEF Sound, ViewSound, AnchorMatches, Replay
  <1>6. HostOK(t)'  BY <1>2, <1>3, <1>4, <1>5 DEF HostOK, Served
  <1>7. SlotOK' /\ SidecarOK'  BY <1>2, KeptSlot, SavedSidecar DEF IInv, store
  <1>8. QED  BY <1>1, <1>2, <1>6, <1>7, OwnStep DEF IInv, TypeOK, store

LEMMA CheckinHolds ==
  ASSUME IInv, NEW t \in Hosts, Checkin(t)
  PROVE  IInv'
  <1>1. TypeOK'  BY CheckinTypes
  <1>2. /\ phase[t] = "leaving"
        /\ phase' = [phase EXCEPT ![t] = "closed"]
        /\ slot' = cache[t]
        /\ cache' = [cache EXCEPT ![t] = None]
        /\ UNCHANGED <<journal, epoch, fold, asked, sidecar, met>>
    BY DEF Checkin, store, disk
  <1>3. Sound(cache[t]) /\ ViewSound(cache[t]) /\ asked[t] = None
    BY <1>2 DEF IInv, HostOK
  <1>4. phase'[t] = "closed" /\ asked'[t] = None  BY <1>2, <1>3 DEF IInv, TypeOK
  <1>5. HostOK(t)'  BY <1>4 DEF HostOK, Served
  <1>6. SlotOK'
    BY <1>2, <1>3 DEF SlotOK, Sound, ViewSound, AnchorMatches, Replay
  <1>7. SidecarOK'  BY <1>2, KeptSidecar DEF IInv, store
  <1>8. QED  BY <1>1, <1>2, <1>5, <1>6, <1>7, OwnStep DEF IInv, TypeOK, store

LEMMA CrashHolds ==
  ASSUME IInv, Crash
  PROVE  IInv'
  <1>1. TypeOK'  BY CrashTypes
  <1>2. /\ phase' = [t \in Hosts |-> "closed"]
        /\ asked' = [t \in Hosts |-> None]
        /\ slot' = None
        /\ UNCHANGED <<journal, epoch, sidecar>>
    BY DEF Crash, store
  <1>3. JournalFolds'  BY <1>2 DEF IInv, JournalFolds, IsCard, Replay
  <1>4. SlotOK' /\ SidecarOK'  BY <1>2, KeptSidecar DEF IInv, SlotOK, store
  <1>5. \A t \in Hosts : HostOK(t)'  BY <1>2 DEF HostOK, Served
  <1>6. QED  BY <1>1, <1>3, <1>4, <1>5 DEF IInv

(* The journal grows at its end: what was a replay of a prefix still is, and *)
(* the new event's id is no anchor of a cache that reaches beyond.           *)
LEMMA CommitHolds ==
  ASSUME IInv, NEW event \in Events \cup {Other}, Commit(event)
  PROVE  IInv'
  <1>1. TypeOK'  BY CommitTypes
  <1>2. PICK e \in Entries :
          /\ journal' = Append(journal, e)
          /\ e.id = epoch
          /\ e.state = IF IsCard(e) THEN FoldEvent(Replay(Len(journal)), e.event)
                       ELSE Replay(Len(journal))
          /\ UNCHANGED <<epoch, phase, cache, fold, asked, slot, sidecar, met>>
    BY CommitShape
  <1>3. journal \in Seq(Entries) /\ epoch \in Nat  BY DEF IInv, TypeOK
  <1>4. /\ Len(journal) \in Nat
        /\ Len(journal') = Len(journal) + 1
        /\ \A n \in 1..Len(journal) : journal'[n] = journal[n]
        /\ journal'[Len(journal) + 1] = e
    BY <1>2, <1>3
  <1>5. \A n \in 0..Len(journal) : Replay(n)' = Replay(n)  BY <1>4 DEF Replay
  <1>6. JournalFolds'
    <2> SUFFICES ASSUME NEW n \in 1..Len(journal) + 1
                 PROVE  /\ journal'[n].id <= epoch
                        /\ journal'[n].state =
                             IF IsCard(journal'[n])
                             THEN FoldEvent(Replay(n - 1)', journal'[n].event)
                             ELSE Replay(n - 1)'
      BY <1>2, <1>4 DEF JournalFolds, IsCard, Replay, FoldEvent
    <2>1. CASE n \in 1..Len(journal)
      <3>1. journal'[n] = journal[n] /\ Replay(n - 1)' = Replay(n - 1)
        BY <1>4, <1>5, <2>1
      <3>2. QED  BY <2>1, <3>1 DEF IInv, JournalFolds
    <2>2. CASE n = Len(journal) + 1
      <3>1. journal'[n] = e /\ n - 1 = Len(journal)  BY <1>4, <2>2
      <3>2. Replay(n - 1)' = Replay(Len(journal))  BY <1>4, <1>5, <3>1
      <3>3. QED  BY <1>2, <1>3, <3>1, <3>2
    <2>3. QED  BY SMTT(40), <1>4, <2>1, <2>2
  <1>7. ASSUME NEW c, c.frontier \in Nat, c.anchor \in Nat, Sound(c)
        PROVE  /\ c.anchor <= epoch
               /\ c.frontier > Len(journal') => c.anchor < epoch
               /\ ~c.ahead /\ (c.frontier = 0 \/ (c.frontier <= Len(journal')
                                                  /\ journal'[c.frontier].id = c.anchor))
                    => c.states = Replay(c.frontier)'
    <2>1. CASE c.frontier = 0
      BY <1>3, <1>4, <1>5, <1>7, <2>1 DEF Sound
    <2>2. CASE c.frontier \in 1..Len(journal)
      BY <1>3, <1>4, <1>5, <1>7, <2>2 DEF Sound, AnchorMatches
    <2>3. CASE c.frontier = Len(journal) + 1
      <3>1. c.anchor < epoch  BY <1>4, <1>7, <2>3 DEF Sound
      <3>2. journal'[c.frontier].id = epoch  BY <1>2, <1>4, <2>3
      <3>3. QED  BY <1>3, <1>4, <1>7, <2>3, <3>1, <3>2
    <2>4. CASE c.frontier > Len(journal) + 1
      BY <1>3, <1>4, <1>7, <2>4 DEF Sound
    <2>5. QED  BY <1>4, <1>7, <2>1, <2>2, <2>3, <2>4
  <1>8. ASSUME NEW c \in Caches, ViewSound(c)
        PROVE  c.view # None /\ ~c.view.ahead =>
                 c.view.frontier <= Len(journal') /\ c.view.states = Replay(c.view.frontier)'
    <2>1. c.view # None => c.view.frontier \in Nat  BY DEF Caches, Views
    <2>2. QED  BY <1>4, <1>5, <1>8, <2>1 DEF ViewSound
  <1>9. ASSUME NEW c \in Caches  PROVE c.frontier \in Nat /\ c.anchor \in Nat
    BY <1>9 DEF Caches
  <1>10. SlotOK'
    <2> SUFFICES ASSUME slot # None PROVE Sound(slot)' /\ ViewSound(slot)'
      BY <1>2 DEF SlotOK
    <2>1. slot \in Caches /\ Sound(slot) /\ ViewSound(slot) /\ slot' = slot /\ epoch' = epoch
      BY <1>2 DEF IInv, SlotOK, TypeOK
    <2>2. Sound(slot)'  BY <1>7, <1>9, <2>1 DEF Sound, AnchorMatches, Replay
    <2>3. ViewSound(slot)'  BY <1>8, <2>1 DEF ViewSound, Replay
    <2>4. QED  BY <2>2, <2>3
  <1>11. SidecarOK'
    <2> SUFFICES ASSUME sidecar \notin {None, Torn} PROVE Sound(sidecar)'
      BY <1>2 DEF SidecarOK
    <2>1. sidecar \in Sidecars /\ Sound(sidecar) /\ sidecar' = sidecar /\ epoch' = epoch
      BY <1>2 DEF IInv, SidecarOK, TypeOK
    <2>2. sidecar.frontier \in Nat /\ sidecar.anchor \in Nat  BY <2>1 DEF Sidecars
    <2>3. QED  BY <1>7, <2>1, <2>2 DEF Sound, AnchorMatches, Replay
  <1>12. ASSUME NEW t \in Hosts  PROVE HostOK(t)'
    <2>1. /\ phase' = phase
          /\ cache' = cache
          /\ fold' = fold
          /\ asked' = asked
          /\ epoch' = epoch
      BY <1>2
    <2>2. HostOK(t)  BY DEF IInv
    <2>3. phase[t] # "closed" => cache[t] \in Caches /\ ViewSound(cache[t])'
      BY <1>8, <2>1, <2>2 DEF HostOK, ViewSound, Replay
    <2>4. phase[t] \in {"open", "saving", "leaving"} => Sound(cache[t])'
      BY <1>7, <1>9, <2>1, <2>2 DEF HostOK, Sound, AnchorMatches, Replay
    <2>5. phase[t] \in {"folding", "finishing"} => Advancing(cache[t], fold[t])'
      <3> SUFFICES ASSUME phase[t] \in {"folding", "finishing"}
                   PROVE  Advancing(cache[t], fold[t])'
        OBVIOUS
      <3> DEFINE c == cache[t]
                 f == fold[t]
      <3>1. c \in Caches /\ f \in Assemblies /\ Advancing(c, f)  BY <2>2 DEF HostOK
      <3>2. c.frontier \in Nat /\ f.next \in Nat /\ f.end \in Nat
        BY <3>1 DEF Caches, Assemblies
      <3>3. c.frontier <= f.next /\ f.next <= f.end /\ f.end <= Len(journal)
        BY <3>1 DEF Advancing
      <3>4. /\ f.next \in 0..Len(journal)
            /\ c.frontier \in 0..Len(journal)
        BY <1>4, <3>2, <3>3
      <3>5. Replay(f.next)' = Replay(f.next) /\ Replay(c.frontier)' = Replay(c.frontier)
        <4>1. \A n \in 0..Len(journal) : (IF n = 0 THEN NoStates ELSE journal'[n].state) = Replay(n)
          BY <1>5 DEF Replay
        <4>2. QED  BY <2>1, <3>4, <4>1 DEF Replay
      <3>6. \A n \in c.frontier + 1 .. f.next : journal'[n] = journal[n]
        BY <1>4, <3>2, <3>4
      <3>7. c.frontier > 0 => journal'[c.frontier] = journal[c.frontier]
        BY <1>4, <3>4
      <3>8. QED
        BY <1>4, <2>1, <3>1, <3>2, <3>3, <3>5, <3>6, <3>7 DEF Advancing, AnchorMatches, IsCard
    <2>6. asked[t] \in Nat /\ asked[t] <= Len(journal) => asked[t] <= Len(journal')
      BY <1>4
    <2>7. QED  BY <2>1, <2>2, <2>3, <2>4, <2>5, <2>6 DEF HostOK, Served
  <1>13. QED  BY <1>1, <1>6, <1>10, <1>11, <1>12 DEF IInv

(* A replaced journal keeps a prefix, and ids are not given twice. *)
LEMMA ReplaceHolds ==
  ASSUME IInv, NEW n \in 0..MaxJournal, Replace(n)
  PROVE  IInv'
  <1>1. TypeOK'  BY ReplaceTypes
  <1>2. /\ \A t \in Hosts : phase[t] = "closed"
        /\ slot = None
        /\ n < Len(journal)
        /\ journal' = SubSeq(journal, 1, n)
        /\ epoch' = epoch + 1
        /\ UNCHANGED <<phase, cache, fold, asked, slot, sidecar, met>>
    BY DEF Replace, disk
  <1>3. /\ journal \in Seq(Entries)
        /\ epoch \in Nat
        /\ n \in Nat
        /\ Len(journal) \in Nat
    BY BoundAssumption DEF IInv, TypeOK
  <1>4. Len(journal') = n /\ \A m \in 1..n : journal'[m] = journal[m]
    BY <1>2, <1>3
  <1>5. \A m \in 0..n : Replay(m)' = Replay(m)  BY <1>3, <1>4 DEF Replay
  <1>6. JournalFolds'
    <2> SUFFICES ASSUME NEW m \in 1..n
                 PROVE  /\ journal'[m].id <= epoch'
                        /\ journal'[m].state =
                             IF IsCard(journal'[m])
                             THEN FoldEvent(Replay(m - 1)', journal'[m].event)
                             ELSE Replay(m - 1)'
      BY <1>4 DEF JournalFolds, IsCard, Replay, FoldEvent
    <2>1. m \in 1..Len(journal)  BY <1>2, <1>3
    <2>2. journal'[m] = journal[m] /\ Replay(m - 1)' = Replay(m - 1)
      BY <1>3, <1>4, <1>5
    <2>3. journal[m] \in Entries  BY <1>3, <2>1
    <2>4. journal[m].id \in Nat  BY <2>3 DEF Entries
    <2>5. journal[m].id <= epoch  BY <2>1 DEF IInv, JournalFolds
    <2>6. journal[m].state = IF IsCard(journal[m])
                             THEN FoldEvent(Replay(m - 1), journal[m].event)
                             ELSE Replay(m - 1)
      BY <2>1 DEF IInv, JournalFolds
    <2>7. QED  BY <1>2, <1>3, <2>2, <2>4, <2>5, <2>6
  <1>7. SlotOK'  BY <1>2 DEF SlotOK
  <1>8. SidecarOK'
    <2> SUFFICES ASSUME sidecar \notin {None, Torn} PROVE Sound(sidecar)'
      BY <1>2 DEF SidecarOK
    <2>1. sidecar \in Sidecars /\ Sound(sidecar) /\ sidecar' = sidecar
      BY <1>2 DEF IInv, SidecarOK, TypeOK
    <2>2. sidecar.frontier \in Nat /\ sidecar.anchor \in Nat  BY <2>1 DEF Sidecars
    <2>3. sidecar.anchor < epoch'  BY <1>2, <1>3, <2>1, <2>2 DEF Sound
    <2>4. CASE sidecar.frontier \in 0..n
      <3>1. /\ sidecar.frontier <= Len(journal)
            /\ sidecar.frontier > 0 => journal'[sidecar.frontier] = journal[sidecar.frontier]
        BY <1>2, <1>3, <1>4, <2>2, <2>4
      <3>2. \A m \in 0..n : (IF m = 0 THEN NoStates ELSE journal'[m].state) = Replay(m)
        BY <1>5 DEF Replay
      <3>3. QED
        BY <1>2, <1>3, <1>4, <2>1, <2>2, <2>3, <2>4, <3>1, <3>2 DEF Sound, AnchorMatches, Replay
    <2>5. CASE sidecar.frontier > n
      <3>1. sidecar.anchor <= epoch'  BY <1>2, <1>3, <2>2, <2>3
      <3>2. sidecar.frontier # 0 /\ ~(sidecar.frontier <= Len(journal'))
        BY <1>3, <1>4, <2>2, <2>5
      <3>3. QED  BY <2>1, <2>3, <3>1, <3>2 DEF Sound, AnchorMatches
    <2>6. QED  BY <1>3, <2>2, <2>4, <2>5
  <1>9. \A t \in Hosts : HostOK(t)'
    <2> SUFFICES ASSUME NEW t \in Hosts PROVE HostOK(t)'  OBVIOUS
    <2>1. phase'[t] = "closed" /\ asked'[t] = asked[t]  BY <1>2
    <2>2. asked[t] = None  BY <1>2 DEF IInv, HostOK
    <2>3. QED  BY <2>1, <2>2 DEF HostOK, Served
  <1>10. QED  BY <1>1, <1>6, <1>7, <1>8, <1>9 DEF IInv

LEMMA StutterHolds == ASSUME IInv, UNCHANGED vars PROVE IInv'
  <1>1. /\ TypeOK' /\ JournalFolds'
        /\ SlotOK' /\ SidecarOK'
    BY KeptSlot, KeptSidecar DEF IInv, TypeOK, JournalFolds, IsCard, Replay, vars, store
  <1>2. \A u \in Hosts : HostOK(u)'  BY Elsewhere DEF IInv, vars, store
  <1>3. QED  BY <1>1, <1>2 DEF IInv

LEMMA NextHolds == IInv /\ [Next]_vars => IInv'
  <1> SUFFICES ASSUME IInv, [Next]_vars PROVE IInv'  OBVIOUS
  <1>1. ASSUME NEW t \in Hosts, Host(t) PROVE IInv'
    <2>1. CASE Checkout(t)  BY <2>1, CheckoutHolds
    <2>2. CASE Assemble(t)  BY <2>2, AssembleHolds
    <2>3. CASE ReadPage(t)  BY <2>3, ReadPageHolds
    <2>4. CASE FoldEntry(t)  BY <2>4, FoldEntryHolds
    <2>5. CASE ReadError(t)  BY <2>5, ReadErrorHolds
    <2>6. CASE Finish(t)  BY <2>6, FinishHolds
    <2>7. CASE Drop(t)  BY <2>7, DropHolds
    <2>8. CASE Save(t)  BY <2>8, SaveHolds
    <2>9. CASE SaveError(t)  BY <2>9, SaveErrorHolds
    <2>10. CASE Checkin(t)  BY <2>10, CheckinHolds
    <2>11. QED
      BY <1>1, <2>1, <2>2, <2>3, <2>4, <2>5, <2>6, <2>7, <2>8, <2>9, <2>10 DEF Host
  <1>2. CASE Crash  BY <1>2, CrashHolds
  <1>3. ASSUME NEW event \in Events \cup {Other}, Commit(event) PROVE IInv'
    BY <1>3, CommitHolds
  <1>4. ASSUME NEW n \in 0..MaxJournal, Replace(n) PROVE IInv'
    BY <1>4, ReplaceHolds
  <1>5. CASE UNCHANGED vars  BY <1>5, StutterHolds
  <1>6. QED  BY <1>1, <1>2, <1>3, <1>4, <1>5 DEF Next

LEMMA Invariance == Spec => []IInv
  <1>1. Init => IInv  BY InitHolds
  <1>2. IInv /\ [Next]_vars => IInv'  BY NextHolds
  <1>3. QED  BY <1>1, <1>2, PTL DEF Spec

-----------------------------------------------------------------------------
(* Theorems *)

(* Whatever cache or sidecar an assembly started from (assemble), its view *)
(* is a replay of the journal, if no read error left a page half folded; a *)
(* saved sidecar is never mistaken for a prefix of a journal it was not    *)
(* folded from (anchor_matches, save_journal); and caches, sidecars and    *)
(* assemblies keep the shape of WorkspaceCache, PersistedWorkspace and the *)
(* locals of fold_after.                                                   *)
THEOREM CachesAreSound == Spec => []CacheInv
  <1>1. IInv => TypeOK  BY DEF IInv
  <1>2. IInv => ServedIsReplay
    BY DEF IInv, HostOK, ServedIsReplay, Served, ViewSound
  <1>3. IInv => SidecarIsReplay
    BY DEF IInv, SidecarOK, Sound, SidecarIsReplay
  <1>4. IInv => CacheInv  BY <1>1, <1>2, <1>3 DEF CacheInv
  <1>5. QED  BY <1>4, Invariance, PTL

(* An assembly returns what was committed before it began (advance_cache,  *)
(* rebuild_cache and the warm view).                                       *)
THEOREM ViewsAreRecent == Spec => []ServedIsRecent
  <1>1. IInv => ServedIsRecent
    BY DEF IInv, HostOK, ServedIsRecent
  <1>2. QED  BY <1>1, Invariance, PTL

-----------------------------------------------------------------------------
(* The HTTP server *)

-----------------------------------------------------------------------------
(* Arithmetic and sets *)

LEMMA LeastExists ==
  ASSUME NEW S \in SUBSET Nat, S # {}
  PROVE  \E m \in S : \A n \in S : m <= n
  <1> DEFINE R == {ss \in Nat \X Nat : ss[1] < ss[2]}
  <1>1. IsWellFoundedOn(R, Nat)  BY NatLessThanWellFounded DEF OpToRel
  <1>2. PICK m \in S : \A n \in S : ~(<<n, m>> \in R)
    <2> HIDE DEF R
    <2>1. QED  BY <1>1, WFMin
  <1>3. ASSUME NEW n \in S PROVE m <= n
    <2>1. m \in Nat /\ n \in Nat  OBVIOUS
    <2>2. ~(<<n, m>> \in R)  BY <1>2
    <2>3. ~(n < m)  BY <2>1, <2>2
    <2>4. QED  BY <2>1, <2>3
  <1>4. QED  BY <1>3

LEMMA GreatestExists ==
  ASSUME NEW h \in Nat, NEW S \in SUBSET (0..h), S # {}
  PROVE  \E m \in S : \A n \in S : n <= m
  <1> DEFINE T == {h - n : n \in S}
  <1>1. T \in SUBSET Nat /\ T # {}
    <2>1. ASSUME NEW n \in S PROVE h - n \in Nat
      <3>1. n \in 0..h  OBVIOUS
      <3>2. QED  BY <3>1
    <2>2. QED  BY <2>1
  <1>2. PICK k \in T : \A n \in T : k <= n
    <2> HIDE DEF T
    <2>1. QED  BY <1>1, LeastExists
  <1>3. PICK m \in S : k = h - m  BY <1>2
  <1>4. ASSUME NEW n \in S PROVE n <= m
    <2>1. k <= h - n  BY <1>2
    <2>2. m \in 0..h /\ n \in 0..h  OBVIOUS
    <2>3. QED  BY <1>3, <2>1, <2>2
  <1>5. QED  BY <1>4

(* The connections that are at one of some places. *)
At(f, P) == {c \in Conns : f[c] \in P}

Is(place, P) == IF place \in P THEN 1 ELSE 0

LEMMA AtIsFinite ==
  ASSUME NEW f, NEW P
  PROVE  IsFiniteSet(At(f, P)) /\ Cardinality(At(f, P)) \in Nat
  <1>1. At(f, P) \in SUBSET Conns  BY DEF At
  <1>2. QED  BY <1>1, ConnsAssumption, FS_Subset, FS_CardinalityType

LEMMA MoveCounts ==
  ASSUME NEW f, NEW g, NEW c \in Conns, NEW place, NEW P,
         g[c] = place, \A d \in Conns \ {c} : g[d] = f[d]
  PROVE  Cardinality(At(g, P)) = Cardinality(At(f, P)) + Is(place, P) - Is(f[c], P)
  <1> DEFINE Rest == At(f, P) \ {c}
  <1>1. /\ IsFiniteSet(Rest)
        /\ Cardinality(Rest) = IF c \in At(f, P) THEN Cardinality(At(f, P)) - 1 ELSE Cardinality(At(f, P))
    BY AtIsFinite, FS_RemoveElement
  <1>2. c \in At(f, P) <=> f[c] \in P  BY DEF At
  <1>3. Cardinality(Rest) = Cardinality(At(f, P)) - Is(f[c], P)
    BY <1>1, <1>2, AtIsFinite DEF Is
  <1>4. CASE place \in P
    <2>1. At(g, P) = Rest \cup {c}  BY <1>4 DEF At
    <2>2. Cardinality(At(g, P)) = Cardinality(Rest) + 1
      <3> HIDE DEF Rest
      <3>1. c \notin Rest  BY DEF Rest
      <3>2. QED  BY <1>1, <2>1, <3>1, FS_AddElement
    <2>3. QED  BY <1>3, <1>4, <2>2, AtIsFinite DEF Is
  <1>5. CASE place \notin P
    <2>1. At(g, P) = Rest  BY <1>5 DEF At
    <2>2. Is(place, P) = 0 /\ Is(f[c], P) \in {0, 1}  BY <1>5 DEF Is
    <2>3. Cardinality(At(f, P)) \in Nat  BY AtIsFinite
    <2>4. QED
      <3> HIDE DEF Rest
      <3>1. QED  BY <1>3, <2>1, <2>2, <2>3
  <1>6. QED  BY <1>4, <1>5

-----------------------------------------------------------------------------
(* One stream *)

(* A queue holds events in the order they were committed; an event past    *)
(* the last sent is waiting in it, or was never announced.                 *)
QueueOK(c) ==
  /\ \A i \in 1..Len(queue[c]) : queue[c][i] \in visible
  /\ \A i, j \in 1..Len(queue[c]) : i < j => queue[c][i] < queue[c][j]
  /\ stage[c] \notin Subscribed => queue[c] = <<>>
  /\ Streaming(c) /\ stage[c] \notin Subscribed => unheard[c] = {}

Waiting(c, e) == \E i \in 1..Len(queue[c]) : queue[c][i] = e

Announced(c) ==
  stage[c] \in Subscribed =>
    \A e \in visible : e > last[c] => e \in unheard[c] \/ Waiting(c, e)

StreamOK == \A c \in Conns : last[c] <= head /\ QueueOK(c) /\ Announced(c)

StreamInv == StreamTypeOK /\ StreamOK /\ OnlyUnheardEventsAreSkipped

LEMMA NewestIsNewest ==
  ASSUME StreamTypeOK
  PROVE  Newest \in 0..head /\ \A e \in visible : e <= Newest
  <1>1. head \in Nat /\ visible \in SUBSET (0..head)  BY HeadAssumption DEF StreamTypeOK
  <1>0. \A e \in visible : e \in Nat  BY <1>1
  <1>2. CASE visible = {}  BY <1>1, <1>2 DEF Newest
  <1>3. CASE visible # {}
    <2>1. PICK m \in visible : \A n \in visible : n <= m  BY <1>1, <1>3, GreatestExists
    <2>2. After(m) = {}  BY <1>0, <2>1 DEF After
    <2>3. Newest \in visible /\ After(Newest) = {}  BY <1>3, <2>2 DEF Newest
    <2>4. QED  BY <1>1, <2>3 DEF After
  <1>4. QED  BY <1>2, <1>3

(* The last event of a page: every event up to it is in the page.          *)
LastOf(page) == CHOOSE e \in page : page \cap After(e) = {}

LEMMA PageHasNoHoles ==
  ASSUME StreamTypeOK, NEW n \in Nat, PageAfter(n) # {}
  PROVE  /\ LastOf(PageAfter(n)) \in visible
         /\ LastOf(PageAfter(n)) > n
         /\ \A e \in visible : n < e /\ e <= LastOf(PageAfter(n)) => e \in PageAfter(n)
  <1> DEFINE page == PageAfter(n)
  <1> DEFINE m == LastOf(page)
  <1>1. head \in Nat /\ visible \in SUBSET (0..head)  BY HeadAssumption DEF StreamTypeOK
  <1>0. \A e \in visible : e \in Nat  BY <1>1
  <1>2. page \in SUBSET visible /\ page \in SUBSET (0..head) /\ \A e \in page : e > n
    BY <1>1 DEF PageAfter, After
  <1>3. PICK g \in page : \A e \in page : e <= g
    <2> HIDE DEF page
    <2>1. page # {}  BY DEF page
    <2>2. QED  BY <1>1, <1>2, <2>1, GreatestExists
  <1>4. page \cap After(g) = {}  BY <1>1, <1>2, <1>3 DEF After
  <1>5. m \in page /\ page \cap After(m) = {}
    <2> HIDE DEF page
    <2>1. QED  BY <1>3, <1>4 DEF LastOf
  <1>6. ASSUME NEW e \in visible, n < e, e <= m PROVE e \in page
    <2>1. m \in After(n) /\ Cardinality(After(n) \ After(m)) <= PageSize
      BY <1>5 DEF PageAfter
    <2>2. After(n) \in SUBSET (0..head) /\ IsFiniteSet(After(n) \ After(m))
      <3>1. After(n) \in SUBSET (0..head)  BY <1>1 DEF After
      <3>2. IsFiniteSet(0..head)  BY <1>1, FS_Interval
      <3>3. QED  BY <3>1, <3>2, FS_Subset
    <2>3. After(n) \ After(e) \in SUBSET (After(n) \ After(m))
      BY <1>0, <1>2, <1>5, <1>6 DEF After
    <2>4. /\ Cardinality(After(n) \ After(e)) <= Cardinality(After(n) \ After(m))
          /\ Cardinality(After(n) \ After(e)) \in Nat /\ Cardinality(After(n) \ After(m)) \in Nat
      BY <2>2, <2>3, FS_Subset, FS_CardinalityType
    <2>5. Cardinality(After(n) \ After(e)) <= PageSize  BY <2>1, <2>4, PageSizeAssumption
    <2>6. QED  BY <1>1, <1>6, <2>5 DEF PageAfter, After
  <1>7. QED  BY <1>2, <1>5, <1>6

Kept(c) ==
  Streaming(c) => \A e \in visible : since[c] < e /\ e <= last[c] => e \in sent[c] \cup unheard[c]

LEMMA KeptByAll == OnlyUnheardEventsAreSkipped <=> \A c \in Conns : Kept(c)
  BY DEF OnlyUnheardEventsAreSkipped, Kept

(* A step of one stream leaves the others as they are. *)
Others(c) ==
  \A d \in Conns \ {c} :
    /\ stage'[d] = stage[d]
    /\ since'[d] = since[d]
    /\ last'[d] = last[d]
    /\ queue'[d] = queue[d]
    /\ sent'[d] = sent[d]
    /\ unheard'[d] = unheard[d]

LEMMA OneStreamHolds ==
  ASSUME StreamInv, NEW c \in Conns, UNCHANGED eventStore, StreamTypeOK', Others(c),
         last'[c] <= head, QueueOK(c)', Announced(c)', Kept(c)'
  PROVE  StreamInv'
  <1>1. UNCHANGED <<head, visible>>  BY DEF eventStore
  <1>2. ASSUME NEW d \in Conns
        PROVE  last'[d] <= head' /\ QueueOK(d)' /\ Announced(d)' /\ Kept(d)'
    <2>1. CASE d = c  BY <1>1, <2>1
    <2>2. CASE d # c
      <3>1. /\ stage'[d] = stage[d] /\ since'[d] = since[d] /\ last'[d] = last[d]
            /\ queue'[d] = queue[d] /\ sent'[d] = sent[d] /\ unheard'[d] = unheard[d]
        BY <2>2 DEF Others
      <3>2. last[d] <= head /\ QueueOK(d) /\ Announced(d) /\ Kept(d)
        BY KeptByAll DEF StreamInv, StreamOK
      <3>3. QueueOK(d)'  BY <1>1, <3>1, <3>2 DEF QueueOK, Streaming
      <3>4. Announced(d)'  BY <1>1, <3>1, <3>2 DEF Announced, Waiting
      <3>5. Kept(d)'  BY <1>1, <3>1, <3>2 DEF Kept, Streaming
      <3>6. QED  BY <1>1, <3>1, <3>2, <3>3, <3>4, <3>5
    <2>3. QED  BY <2>1, <2>2
  <1>3. OnlyUnheardEventsAreSkipped'  BY <1>2 DEF OnlyUnheardEventsAreSkipped, Kept
  <1>4. QED  BY <1>2, <1>3 DEF StreamInv, StreamOK

LEMMA OpenHolds ==
  ASSUME StreamInv, NEW c \in Conns, ~Streaming(c), NEW cursor \in Cursors, Open(c, cursor)
  PROVE  StreamInv'
  <1> DEFINE start == IF Resumes(cursor) THEN cursor ELSE Newest
  <1>1. StreamTypeOK  BY DEF StreamInv
  <1>2. head \in Nat /\ head <= MaxHead  BY <1>1, HeadAssumption DEF StreamTypeOK
  <1>3. start \in 0..head
    <2>1. Newest \in 0..head  BY <1>1, NewestIsNewest
    <2>2. CASE Resumes(cursor)
      <3>1. cursor \in Nat /\ cursor <= Newest
        BY <2>2, HeadAssumption DEF Resumes, Cursors
      <3>2. QED  BY <1>2, <2>1, <2>2, <3>1
    <2>3. CASE ~Resumes(cursor)  BY <2>1, <2>3
    <2>4. QED  BY <2>2, <2>3
  <1>4. /\ stage' = [stage EXCEPT ![c] = IF Resumes(cursor) THEN "resume" ELSE "hello"]
        /\ since' = [since EXCEPT ![c] = start]
        /\ last' = [last EXCEPT ![c] = start]
        /\ unheard' = [unheard EXCEPT ![c] = {}]
        /\ UNCHANGED <<shutdown, eventStore, queue, sent>>
    BY DEF Open
  <1> HIDE DEF start
  <1>5. StreamTypeOK'
    <2>1. start \in 0..MaxHead  BY <1>2, <1>3, HeadAssumption
    <2>2. QED  BY <1>1, <1>4, <2>1 DEF StreamTypeOK, Stages, eventStore
  <1>6. Others(c)  BY <1>1, <1>4 DEF Others, StreamTypeOK
  <1>7. stage'[c] \in {"resume", "hello"} /\ since'[c] = start /\ last'[c] = start
    BY <1>1, <1>4 DEF StreamTypeOK
  <1>8. QueueOK(c)'
    <2>1. queue'[c] = <<>>
      BY <1>4 DEF StreamInv, StreamOK, QueueOK, Streaming, Subscribed
    <2>2. unheard'[c] = {}  BY <1>1, <1>4 DEF StreamTypeOK
    <2>3. QED  BY <2>1, <2>2 DEF QueueOK
  <1>9. Announced(c)'  BY <1>7 DEF Announced, Subscribed
  <1>10. Kept(c)'
    <2>1. \A e \in visible' : e \in Nat  BY <1>5 DEF StreamTypeOK
    <2>2. QED  BY <1>2, <1>3, <1>7, <2>1 DEF Kept
  <1>11. QED
    BY <1>2, <1>3, <1>4, <1>5, <1>6, <1>7, <1>8, <1>9, <1>10, OneStreamHolds DEF eventStore

LEMMA CloseHolds == ASSUME StreamInv, NEW c \in Conns, Close(c) PROVE StreamInv'
  <1>1. StreamTypeOK  BY DEF StreamInv
  <1>2. /\ stage' = [stage EXCEPT ![c] = "closed"]
        /\ queue' = [queue EXCEPT ![c] = <<>>]
        /\ UNCHANGED <<shutdown, eventStore, since, last, sent, unheard>>
    BY DEF Close
  <1>3. StreamTypeOK'  BY <1>1, <1>2, QueueAssumption DEF StreamTypeOK, Stages, eventStore
  <1>4. Others(c)  BY <1>1, <1>2 DEF Others, StreamTypeOK
  <1>5. stage'[c] = "closed" /\ queue'[c] = <<>>  BY <1>1, <1>2 DEF StreamTypeOK
  <1>6. QueueOK(c)' /\ Announced(c)' /\ Kept(c)'
    BY <1>5 DEF QueueOK, Announced, Kept, Subscribed, Streaming
  <1>7. last'[c] <= head  BY <1>2 DEF StreamInv, StreamOK
  <1>8. QED  BY <1>2, <1>3, <1>4, <1>6, <1>7, OneStreamHolds DEF eventStore

(* Steps that change only a stream's stage. *)
LEMMA StageHolds ==
  ASSUME StreamInv, NEW c \in Conns, Greet(c) \/ EndOfPages(c) \/ KeepAlive(c)
  PROVE  StreamInv'
  <1>1. StreamTypeOK  BY DEF StreamInv
  <1>2. /\ stage' = [stage EXCEPT ![c] = stage'[c]]
        /\ stage'[c] \in Stages
        /\ stage'[c] # "closed" /\ stage[c] # "closed"
        /\ stage'[c] \in Subscribed <=> stage[c] \in Subscribed
        /\ UNCHANGED <<shutdown, eventStore, since, last, queue, sent, unheard>>
    <2>1. CASE Greet(c)  BY <1>1, <2>1 DEF Greet, StreamTypeOK, Stages, Subscribed
    <2>2. CASE EndOfPages(c)  BY <1>1, <2>2 DEF EndOfPages, StreamTypeOK, Stages, Subscribed
    <2>3. CASE KeepAlive(c)  BY <1>1, <2>3 DEF KeepAlive, StreamTypeOK, Stages, Subscribed
    <2>4. QED  BY <2>1, <2>2, <2>3
  <1>3. StreamTypeOK'  BY <1>1, <1>2 DEF StreamTypeOK, eventStore
  <1>4. Others(c)  BY <1>1, <1>2 DEF Others, StreamTypeOK
  <1>5. last[c] <= head /\ QueueOK(c) /\ Announced(c) /\ Kept(c)
    BY KeptByAll DEF StreamInv, StreamOK
  <1>6. QueueOK(c)'  BY <1>2, <1>5 DEF QueueOK, eventStore, Streaming
  <1>7. Announced(c)'  BY <1>2, <1>5 DEF Announced, Waiting, eventStore
  <1>8. Kept(c)'  BY <1>2, <1>5 DEF Kept, Streaming, eventStore
  <1>9. QED  BY <1>2, <1>3, <1>4, <1>5, <1>6, <1>7, <1>8, OneStreamHolds DEF eventStore

LEMMA WritePageHolds == ASSUME StreamInv, NEW c \in Conns, WritePage(c) PROVE StreamInv'
  <1> DEFINE page == PageAfter(last[c])
  <1>1. StreamTypeOK  BY DEF StreamInv
  <1>2. /\ stage[c] \in {"replay", "catchup"}
        /\ page # {}
        /\ sent' = [sent EXCEPT ![c] = sent[c] \cup page]
        /\ last' = [last EXCEPT ![c] = LastOf(page)]
        /\ UNCHANGED <<shutdown, eventStore, stage, since, queue, unheard>>
    BY <1>1 DEF WritePage, NextPage, LastOf, StreamTypeOK
  <1>3. last[c] \in Nat /\ head \in Nat /\ visible \in SUBSET (1..head) /\ head <= MaxHead
    BY <1>1, HeadAssumption DEF StreamTypeOK
  <1>4. /\ LastOf(page) \in visible
        /\ LastOf(page) > last[c]
        /\ \A e \in visible : last[c] < e /\ e <= LastOf(page) => e \in page
    BY <1>1, <1>2, <1>3, PageHasNoHoles
  <1>5. page \in SUBSET visible  BY DEF PageAfter, After
  <1> HIDE DEF page
  <1>6. LastOf(page) \in 1..head /\ LastOf(page) \in 0..MaxHead /\ page \in SUBSET Sequences
    <2>1. visible \in SUBSET (1..MaxHead)  BY <1>3, HeadAssumption
    <2>2. LastOf(page) \in 1..MaxHead  BY <1>4, <2>1
    <2>3. QED  BY <1>3, <1>4, <1>5, <2>1, <2>2, HeadAssumption DEF Sequences
  <1>7. StreamTypeOK'  BY <1>1, <1>2, <1>6 DEF StreamTypeOK, eventStore
  <1>8. Others(c)  BY <1>1, <1>2 DEF Others, StreamTypeOK
  <1>9. /\ sent'[c] = sent[c] \cup page
        /\ last'[c] = LastOf(page)
        /\ UNCHANGED <<head, visible, stage, since, queue, unheard>>
    BY <1>1, <1>2 DEF StreamTypeOK, eventStore
  <1>10. QueueOK(c) /\ Announced(c) /\ Kept(c)  BY KeptByAll DEF StreamInv, StreamOK
  <1>11. QueueOK(c)'  BY <1>9, <1>10 DEF QueueOK, Streaming
  <1>12. \A e \in visible : e \in Nat  BY <1>3
  <1>13. Announced(c)'  BY <1>3, <1>4, <1>6, <1>9, <1>10, <1>12 DEF Announced, Waiting
  <1>14. Kept(c)'
    <2> SUFFICES ASSUME NEW e \in visible, since[c] < e, e <= LastOf(page)
                 PROVE  e \in sent[c] \cup page \cup unheard[c]
      BY <1>9 DEF Kept
    <2>1. CASE e <= last[c]  BY <2>1, <1>2, <1>10 DEF Kept, Streaming
    <2>2. CASE last[c] < e  BY <2>2, <1>4
    <2>3. QED  BY <2>1, <2>2, <1>3, <1>12
  <1>15. QED  BY <1>2, <1>6, <1>7, <1>8, <1>9, <1>11, <1>13, <1>14, OneStreamHolds DEF eventStore

LEMMA SubscribeHolds == ASSUME StreamInv, NEW c \in Conns, Subscribe(c) PROVE StreamInv'
  <1>1. StreamTypeOK  BY DEF StreamInv
  <1>2. /\ stage[c] = "subscribe"
        /\ stage' = [stage EXCEPT ![c] = "live"]
        /\ unheard' = [unheard EXCEPT ![c] = After(last[c])]
        /\ UNCHANGED <<shutdown, eventStore, since, last, queue, sent>>
    BY DEF Subscribe
  <1>3. head \in Nat /\ visible \in SUBSET (1..head) /\ head <= MaxHead /\ last[c] \in Nat
    BY <1>1, HeadAssumption DEF StreamTypeOK
  <1>4. After(last[c]) \in SUBSET Sequences
    <2>1. visible \in SUBSET (1..MaxHead)  BY <1>3, HeadAssumption
    <2>2. QED  BY <2>1 DEF After, Sequences
  <1>5. StreamTypeOK'  BY <1>1, <1>2, <1>4 DEF StreamTypeOK, Stages, eventStore
  <1>6. Others(c)  BY <1>1, <1>2 DEF Others, StreamTypeOK
  <1>7. /\ stage'[c] = "live"
        /\ unheard'[c] = After(last[c])
        /\ UNCHANGED <<head, visible, since, last, queue, sent>>
    BY <1>1, <1>2 DEF StreamTypeOK, eventStore
  <1>8. last[c] <= head /\ QueueOK(c) /\ Kept(c)  BY KeptByAll DEF StreamInv, StreamOK
  <1>9. QueueOK(c)'  BY <1>2, <1>7, <1>8 DEF QueueOK, Subscribed
  <1>10. Announced(c)'  BY <1>7 DEF Announced, After
  <1>11. Kept(c)'
    <2>1. unheard[c] = {}  BY <1>2, <1>8 DEF QueueOK, Streaming, Subscribed
    <2>2. QED  BY <1>2, <1>7, <1>8, <2>1 DEF Kept, Streaming
  <1>12. QED  BY <1>2, <1>5, <1>6, <1>7, <1>8, <1>9, <1>10, <1>11, OneStreamHolds DEF eventStore

LEMMA ReceiveHolds == ASSUME StreamInv, NEW c \in Conns, Receive(c) PROVE StreamInv'
  <1> DEFINE n == Head(queue[c])
  <1>1. StreamTypeOK  BY DEF StreamInv
  <1>2. /\ stage[c] = "live" /\ queue[c] # <<>>
        /\ queue' = [queue EXCEPT ![c] = Tail(queue[c])]
        /\ last' = [last EXCEPT ![c] = IF n > last[c] THEN n ELSE last[c]]
        /\ sent' = [sent EXCEPT ![c] = sent[c] \cup {n}]
        /\ UNCHANGED <<shutdown, eventStore, stage, since, unheard>>
    BY <1>1 DEF Receive, StreamTypeOK
  <1>0. head \in Nat /\ visible \in SUBSET (1..head)  BY <1>1, HeadAssumption DEF StreamTypeOK
  <1>3. head <= MaxHead /\ last[c] \in 0..MaxHead /\ queue[c] \in Seq(Sequences)
    BY <1>1, HeadAssumption DEF StreamTypeOK
  <1>4. /\ n \in Sequences
        /\ Tail(queue[c]) \in Seq(Sequences)
        /\ Len(Tail(queue[c])) = Len(queue[c]) - 1
        /\ \A i \in 1..Len(Tail(queue[c])) : Tail(queue[c])[i] = queue[c][i + 1]
        /\ n = queue[c][1] /\ Len(queue[c]) \in Nat \ {0}
    BY <1>2, <1>3, HeadTailProperties
  <1>5. last[c] <= head /\ QueueOK(c) /\ Announced(c) /\ Kept(c)
    BY KeptByAll DEF StreamInv, StreamOK
  <1>6. n \in visible  BY <1>4, <1>5 DEF QueueOK
  <1> HIDE DEF n
  <1>7. n \in 1..head /\ n \in 0..MaxHead /\ n \in Nat /\ last[c] \in Nat
    BY <1>0, <1>3, <1>4, <1>6, HeadAssumption DEF Sequences
  <1>8. \A d \in Conns : Len(queue'[d]) <= QueueCap
    <2> SUFFICES ASSUME NEW d \in Conns PROVE Len(queue'[d]) <= QueueCap  OBVIOUS
    <2>1. Len(queue[d]) <= QueueCap  BY <1>1 DEF StreamTypeOK
    <2>2. CASE d = c
      <3>1. queue'[d] = Tail(queue[c])  BY <1>1, <1>2, <2>2 DEF StreamTypeOK
      <3>2. QED  BY <1>4, <2>1, <2>2, <3>1, QueueAssumption
    <2>3. CASE d # c  BY <1>1, <1>2, <2>1, <2>3 DEF StreamTypeOK
    <2>4. QED  BY <2>2, <2>3
  <1>9. StreamTypeOK'  BY <1>0, <1>1, <1>2, <1>3, <1>4, <1>7, <1>8 DEF StreamTypeOK, eventStore
  <1>10. Others(c)  BY <1>1, <1>2 DEF Others, StreamTypeOK
  <1>11. /\ queue'[c] = Tail(queue[c])
         /\ last'[c] = IF n > last[c] THEN n ELSE last[c]
         /\ sent'[c] = sent[c] \cup {n}
         /\ UNCHANGED <<head, visible, stage, since, unheard>>
    BY <1>1, <1>2 DEF StreamTypeOK, eventStore
  <1>12. last'[c] <= head  BY <1>0, <1>3, <1>5, <1>7, <1>11
  <1>13. QueueOK(c)'
    <2>1. \A i \in 1..Len(queue'[c]) : queue'[c][i] = queue[c][i + 1] /\ i + 1 \in 1..Len(queue[c])
      BY <1>4, <1>11
    <2>2. \A i \in 1..Len(queue'[c]) : queue'[c][i] \in visible  BY <1>5, <2>1 DEF QueueOK
    <2>3. ASSUME NEW i \in 1..Len(queue'[c]), NEW j \in 1..Len(queue'[c]), i < j
          PROVE  queue'[c][i] < queue'[c][j]
      <3>1. i + 1 < j + 1  BY <2>3
      <3>2. queue[c][i + 1] < queue[c][j + 1]  BY <1>5, <2>1, <3>1 DEF QueueOK
      <3>3. QED  BY <2>1, <3>2
    <2>4. stage'[c] \in Subscribed /\ visible' = visible  BY <1>2, <1>11 DEF Subscribed
    <2>5. QED  BY <2>2, <2>3, <2>4 DEF QueueOK, Subscribed
  <1>14. \A e \in visible : e \in Nat  BY <1>0
  <1>15. Announced(c)'
    <2> SUFFICES ASSUME NEW e \in visible, e > last'[c], e \notin unheard[c] PROVE Waiting(c, e)'
      BY <1>11 DEF Announced
    <2>1. e > last[c] /\ e # n  BY <1>7, <1>11, <1>14
    <2>2. PICK i \in 1..Len(queue[c]) : queue[c][i] = e
      BY <1>2, <1>5, <2>1 DEF Announced, Waiting, Subscribed
    <2>3. i # 1  BY <1>4, <2>1, <2>2
    <2>4. i - 1 \in 1..Len(queue'[c]) /\ queue'[c][i - 1] = e  BY <1>4, <1>11, <2>2, <2>3
    <2>5. QED  BY <2>4 DEF Waiting
  <1>16. Kept(c)'
    <2> SUFFICES ASSUME NEW e \in visible, since[c] < e, e <= last'[c]
                 PROVE  e \in sent[c] \cup {n} \cup unheard[c]
      BY <1>11 DEF Kept
    <2>1. CASE e <= last[c]  BY <2>1, <1>2, <1>5 DEF Kept, Streaming
    <2>2. CASE last[c] < e /\ e \notin unheard[c]
      <3>1. e <= n  BY <2>2, <1>7, <1>11, <1>14
      <3>2. PICK i \in 1..Len(queue[c]) : queue[c][i] = e
        BY <1>2, <1>5, <2>2 DEF Announced, Waiting, Subscribed
      <3>3. i # 1 => n < e  BY <1>4, <1>5, <3>2 DEF QueueOK
      <3>4. i = 1  BY <3>1, <3>3, <1>7, <1>14
      <3>5. QED  BY <1>4, <3>2, <3>4
    <2>3. QED  BY <2>1, <2>2, <1>7, <1>14
  <1>17. QED
    BY <1>2, <1>9, <1>10, <1>12, <1>13, <1>15, <1>16, OneStreamHolds DEF eventStore

LEMMA ServerCommitHolds == ASSUME StreamInv, CommitEvent PROVE StreamInv'
  <1>1. StreamTypeOK  BY DEF StreamInv
  <1>2. /\ head' = head + 1
        /\ head < MaxHead
        /\ UNCHANGED <<shutdown, stage, since, last, sent>>
    BY DEF CommitEvent
  <1>3. head \in Nat /\ head' \in 0..MaxHead /\ visible \in SUBSET (1..head)
    BY <1>1, <1>2, HeadAssumption DEF StreamTypeOK
  <1>4. \A e \in visible : e \in Nat /\ e <= head  BY <1>3
  <1>5. \A c \in Conns :
          /\ last[c] <= head /\ QueueOK(c) /\ Announced(c) /\ Kept(c)
          /\ last[c] \in Nat /\ queue[c] \in Seq(Sequences) /\ Len(queue[c]) <= QueueCap
    BY <1>1, KeptByAll DEF StreamInv, StreamOK, StreamTypeOK
  <1>6. CASE UNCHANGED <<visible, queue, unheard>>
    <2>1. visible \in SUBSET (1..head')  BY <1>2, <1>3
    <2>2. StreamTypeOK'  BY <1>1, <1>2, <1>3, <1>6, <2>1 DEF StreamTypeOK
    <2>3. StreamOK'
      <3> SUFFICES ASSUME NEW c \in Conns PROVE last'[c] <= head' /\ QueueOK(c)' /\ Announced(c)'
        BY DEF StreamOK
      <3>1. last'[c] <= head'  BY <1>2, <1>3, <1>5
      <3>2. QueueOK(c)' /\ Announced(c)'
        BY <1>2, <1>5, <1>6 DEF QueueOK, Announced, Waiting, Streaming
      <3>3. QED  BY <3>1, <3>2
    <2>4. OnlyUnheardEventsAreSkipped'
      BY <1>2, <1>5, <1>6 DEF OnlyUnheardEventsAreSkipped, Kept, Streaming
    <2>5. QED  BY <2>2, <2>3, <2>4 DEF StreamInv
  <1>7. CASE /\ visible' = visible \cup {head'}
             /\ queue' = [c \in Conns |-> IF Hears(c) THEN Append(queue[c], head') ELSE queue[c]]
             /\ unheard' = [c \in Conns |->
                              IF stage[c] \in Subscribed /\ ~Hears(c)
                              THEN unheard[c] \cup {head'} ELSE unheard[c]]
    <2>1. visible' \in SUBSET (1..head') /\ head' \in Sequences
      BY <1>2, <1>3, <1>7, HeadAssumption DEF Sequences
    <2>2. ASSUME NEW c \in Conns
          PROVE  /\ queue'[c] \in Seq(Sequences)
                 /\ Len(queue'[c]) <= QueueCap
                 /\ QueueOK(c)'
                 /\ stage[c] \in Subscribed =>
                      head' \in unheard'[c] \/ \E i \in 1..Len(queue'[c]) : queue'[c][i] = head'
                 /\ \A e \in visible : Waiting(c, e) => Waiting(c, e)'
                 /\ unheard[c] \subseteq unheard'[c]
      <3>1. QueueOK(c) /\ queue[c] \in Seq(Sequences) /\ Len(queue[c]) <= QueueCap  BY <1>5
      <3>2. stage'[c] = stage[c] /\ (Streaming(c)' <=> Streaming(c))  BY <1>2 DEF Streaming
      <3>3. CASE Hears(c)
        <4>1. queue'[c] = Append(queue[c], head') /\ unheard'[c] = unheard[c]  BY <1>7, <3>3
        <4>2. /\ queue'[c] \in Seq(Sequences)
              /\ Len(queue'[c]) = Len(queue[c]) + 1
              /\ \A i \in 1..Len(queue[c]) : queue'[c][i] = queue[c][i]
              /\ queue'[c][Len(queue[c]) + 1] = head'
          BY <2>1, <3>1, <4>1, AppendProperties
        <4>3. stage[c] \in Subscribed /\ Len(queue[c]) < QueueCap /\ Len(queue[c]) \in Nat
          BY <3>1, <3>3 DEF Hears
        <4>4. \A i \in 1..Len(queue'[c]) : i \in 1..Len(queue[c]) \/ i = Len(queue[c]) + 1
          BY <4>2, <4>3
        <4>5. \A i \in 1..Len(queue[c]) : queue[c][i] \in visible /\ queue[c][i] < head'
          <5>1. \A i \in 1..Len(queue[c]) : queue[c][i] \in visible  BY <3>1 DEF QueueOK
          <5>2. \A e \in visible : e < head'  BY <1>2, <1>3, <1>4
          <5>3. QED  BY <5>1, <5>2
        <4>6. \A i \in 1..Len(queue'[c]) : queue'[c][i] \in visible'
          BY <1>7, <4>2, <4>4, <4>5
        <4>7. ASSUME NEW i \in 1..Len(queue'[c]), NEW j \in 1..Len(queue'[c]), i < j
              PROVE  queue'[c][i] < queue'[c][j]
          <5>1. i \in 1..Len(queue[c])  BY <4>2, <4>3, <4>7
          <5>2. CASE j \in 1..Len(queue[c])  BY <3>1, <4>2, <4>7, <5>1, <5>2 DEF QueueOK
          <5>3. CASE j = Len(queue[c]) + 1  BY <4>2, <4>5, <5>1, <5>3
          <5>4. QED  BY <4>4, <5>2, <5>3
        <4>8. QueueOK(c)'  BY <3>2, <4>3, <4>6, <4>7 DEF QueueOK
        <4>9. \E i \in 1..Len(queue'[c]) : queue'[c][i] = head'
          <5>1. Len(queue[c]) + 1 \in 1..Len(queue'[c])  BY <4>2, <4>3
          <5>2. QED  BY <4>2, <5>1
        <4>10. \A e \in visible : Waiting(c, e) => Waiting(c, e)'
          <5>1. \A i \in 1..Len(queue[c]) : i \in 1..Len(queue'[c])  BY <4>2, <4>3
          <5>2. QED  BY <4>2, <5>1 DEF Waiting
        <4>11. QED  BY <4>1, <4>2, <4>3, <4>8, <4>9, <4>10, QueueAssumption
      <3>4. CASE ~Hears(c)
        <4>1. queue'[c] = queue[c] /\ unheard[c] \subseteq unheard'[c]
              /\ (stage[c] \in Subscribed => head' \in unheard'[c])
              /\ (stage[c] \notin Subscribed => unheard'[c] = unheard[c])
          BY <1>7, <3>4
        <4>2. QueueOK(c)'  BY <1>7, <3>1, <3>2, <4>1 DEF QueueOK
        <4>3. QED  BY <3>1, <4>1, <4>2 DEF Waiting
      <3>5. QED  BY <3>3, <3>4
    <2>3. StreamTypeOK'
      <3>1. queue' \in [Conns -> Seq(Sequences)]  BY <1>7, <2>2
      <3>2. unheard' \in [Conns -> SUBSET Sequences]  BY <1>1, <1>7, <2>1 DEF StreamTypeOK
      <3>3. QED  BY <1>1, <1>2, <1>3, <2>1, <2>2, <3>1, <3>2 DEF StreamTypeOK
    <2>4. StreamOK'
      <3> SUFFICES ASSUME NEW c \in Conns PROVE last'[c] <= head' /\ QueueOK(c)' /\ Announced(c)'
        BY DEF StreamOK
      <3>1. last'[c] <= head'  BY <1>2, <1>3, <1>5
      <3>2. Announced(c)'
        <4> SUFFICES ASSUME stage[c] \in Subscribed, NEW e \in visible', e > last[c]
                     PROVE  e \in unheard'[c] \/ Waiting(c, e)'
          BY <1>2 DEF Announced
        <4>1. CASE e = head'  BY <2>2, <4>1 DEF Waiting
        <4>2. CASE e \in visible  BY <1>5, <2>2, <4>2 DEF Announced
        <4>3. QED  BY <1>7, <4>1, <4>2
      <3>3. QED  BY <2>2, <3>1, <3>2
    <2>5. OnlyUnheardEventsAreSkipped'
      <3> SUFFICES ASSUME NEW c \in Conns, Streaming(c), NEW e \in visible', since[c] < e, e <= last[c]
                   PROVE  e \in sent[c] \cup unheard'[c]
        BY <1>2 DEF OnlyUnheardEventsAreSkipped, Streaming
      <3>1. e # head'  BY <1>2, <1>3, <1>5
      <3>2. e \in visible  BY <1>7, <3>1
      <3>3. QED  BY <1>5, <2>2, <3>2 DEF Kept
    <2>6. QED  BY <2>3, <2>4, <2>5 DEF StreamInv
  <1>8. QED  BY <1>6, <1>7 DEF CommitEvent

LEMMA StreamUnchanged == StreamInv /\ UNCHANGED <<shutdown, streamVars>> => StreamInv'
  BY DEF StreamInv, StreamTypeOK, StreamOK, QueueOK, Announced, Waiting, Streaming,
         OnlyUnheardEventsAreSkipped, streamVars, eventStore, feed

-----------------------------------------------------------------------------
(* The server's inductive invariant *)

OnRequest == {"routing", "replying"}
OnStream == {"streaming"}
Uncounted ==
  {"parsing", "checkRequest", "waitRequest", "routing", "checkStream", "waitStream", "streaming"}

Total(k) == k["served"] + k["failed"] + k["rejected"] + k["panicked"]

(* A connection is counted as it is answered, and until then it is in the  *)
(* hands of a worker.                                                      *)
Balanced ==
  /\ turnedAway \subseteq At(at, {"done"})
  /\ loop # "failed" =>
       counted["accepted"] + faults =
         Total(counted) + Cardinality(turnedAway) + Cardinality(At(at, Uncounted))

LateOK == late = {} \/ (shutdown /\ loop # "accepting" /\ \E c \in Conns : late = {c})

ServerIInv ==
  /\ StreamInv
  /\ ServerTypeOK
  /\ PermitsConserved
  /\ Balanced
  /\ NoWorkerIsLeft
  /\ LateOK

LEMMA HoldingIsAt == Holding("request") = At(at, OnRequest) /\ Holding("stream") = At(at, OnStream)
  BY DEF Holding, At, OnRequest, OnStream

LEMMA IsBit == \A place, P : Is(place, P) \in {0, 1}
  BY DEF Is

LEMMA TurnedAwayIsFinite ==
  ASSUME ServerTypeOK
  PROVE  IsFiniteSet(turnedAway) /\ Cardinality(turnedAway) \in Nat
  <1>1. turnedAway \in SUBSET Conns  BY DEF ServerTypeOK
  <1>2. QED  BY <1>1, ConnsAssumption, FS_Subset, FS_CardinalityType

LEMMA CountHolds ==
  ASSUME counted \in [Counters -> Nat], NEW k \in Counters, Count(k)
  PROVE  /\ counted' \in [Counters -> Nat]
         /\ k = "accepted" =>
              counted'["accepted"] = counted["accepted"] + 1 /\ Total(counted') = Total(counted)
         /\ k # "accepted" =>
              counted'["accepted"] = counted["accepted"] /\ Total(counted') = Total(counted) + 1
         /\ Total(counted) \in Nat
  BY DEF Count, Counters, Total

Tallies(c, place) ==
  /\ counted' \in [Counters -> Nat]
  /\ counted'["accepted"] = counted["accepted"]
  /\ turnedAway' = turnedAway \/ (turnedAway' = turnedAway \cup {c} /\ place = "done")
  /\ Total(counted') + Cardinality(turnedAway') =
       Total(counted) + Cardinality(turnedAway) + Is(at[c], Uncounted) - Is(place, Uncounted)

(* What a worker does as it takes a connection from one place to another:  *)
(* it takes and gives back permits and counts as the places tell.          *)
Moves(c, place) ==
  /\ at' = [at EXCEPT ![c] = place]
  /\ at[c] \notin {"new", "done"}
  /\ place \in Places \ {"new"}
  /\ UNCHANGED <<loop, faults, late>>
  /\ shutdown' = shutdown
  /\ requestFree' = requestFree + Is(at[c], OnRequest) - Is(place, OnRequest)
  /\ requestFree' >= 0
  /\ sseFree' = sseFree + Is(at[c], OnStream) - Is(place, OnStream)
  /\ sseFree' >= 0
  /\ Tallies(c, place)

LEMMA MoveHolds ==
  ASSUME ServerIInv, NEW c \in Conns, NEW place \in Places, Moves(c, place), StreamInv',
         \A d \in Conns : Streaming(d)' => at'[d] = "streaming"
  PROVE  ServerIInv'
  <1>1. ServerTypeOK /\ at \in [Conns -> Places]  BY DEF ServerIInv, ServerTypeOK
  <1>2. /\ requestFree \in 0..RequestPermits /\ sseFree \in 0..SsePermits
        /\ RequestPermits \in Nat /\ SsePermits \in Nat
    BY <1>1, PermitAssumption DEF ServerTypeOK
  <1>3. \A P : Cardinality(At(at', P)) = Cardinality(At(at, P)) + Is(place, P) - Is(at[c], P)
    <2> SUFFICES ASSUME NEW P
                 PROVE  Cardinality(At(at', P)) = Cardinality(At(at, P)) + Is(place, P) - Is(at[c], P)
      OBVIOUS
    <2>1. at' = [at EXCEPT ![c] = place]  BY DEF Moves
    <2>2. at'[c] = place /\ \A d \in Conns \ {c} : at'[d] = at[d]  BY <1>1, <2>1
    <2> DEFINE g == at'
    <2>3. g[c] = place /\ \A d \in Conns \ {c} : g[d] = at[d]  BY <2>2
    <2> HIDE DEF g
    <2>4. Cardinality(At(g, P)) = Cardinality(At(at, P)) + Is(place, P) - Is(at[c], P)
      <3>1. PICK h : h = g  OBVIOUS
      <3>2. PICK f : f = at  OBVIOUS
      <3>3. h[c] = place /\ \A d \in Conns \ {c} : h[d] = f[d]  BY <2>3, <3>1, <3>2
      <3>4. Cardinality(At(h, P)) = Cardinality(At(f, P)) + Is(place, P) - Is(f[c], P)
        BY <3>3, MoveCounts
      <3>5. QED  BY <3>1, <3>2, <3>4
    <2>5. QED  BY <2>4 DEF g
  <1>4. \A P : Cardinality(At(at, P)) \in Nat /\ Cardinality(At(at', P)) \in Nat
    BY AtIsFinite
  <1>5. PermitsConserved'
    <2>1. /\ requestFree + Cardinality(At(at, OnRequest)) = RequestPermits
          /\ sseFree + Cardinality(At(at, OnStream)) = SsePermits
      BY HoldingIsAt DEF ServerIInv, PermitsConserved
    <2>2. Holding("request")' = At(at', OnRequest) /\ Holding("stream")' = At(at', OnStream)
      BY DEF Holding, At, OnRequest, OnStream
    <2>3. /\ requestFree' + Cardinality(At(at', OnRequest)) = RequestPermits
          /\ sseFree' + Cardinality(At(at', OnStream)) = SsePermits
      <3>1. ASSUME NEW free, NEW free1, NEW size \in Nat, free \in 0..size, NEW P,
                   free + Cardinality(At(at, P)) = size,
                   free1 = free + Is(at[c], P) - Is(place, P)
            PROVE  free1 + Cardinality(At(at', P)) = size
        <4>1. Cardinality(At(at', P)) = Cardinality(At(at, P)) + Is(place, P) - Is(at[c], P)
          BY <1>3
        <4>2. Is(place, P) \in {0, 1} /\ Is(at[c], P) \in {0, 1}  BY IsBit
        <4>3. Cardinality(At(at, P)) \in Nat  BY <1>4
        <4>4. QED  BY <3>1, <4>1, <4>2, <4>3
      <3>2. /\ requestFree' = requestFree + Is(at[c], OnRequest) - Is(place, OnRequest)
            /\ sseFree' = sseFree + Is(at[c], OnStream) - Is(place, OnStream)
        BY DEF Moves
      <3>3. requestFree' + Cardinality(At(at', OnRequest)) = RequestPermits
        BY <1>2, <2>1, <3>1, <3>2
      <3>4. sseFree' + Cardinality(At(at', OnStream)) = SsePermits
        BY <1>2, <2>1, <3>1, <3>2
      <3>5. QED  BY <3>3, <3>4
    <2>4. QED  BY <2>2, <2>3 DEF PermitsConserved
  <1>6. requestFree' \in 0..RequestPermits /\ sseFree' \in 0..SsePermits
    <2>1. /\ requestFree' + Cardinality(At(at', OnRequest)) = RequestPermits
          /\ sseFree' + Cardinality(At(at', OnStream)) = SsePermits
      BY <1>5 DEF PermitsConserved, Holding, At, OnRequest, OnStream
    <2>2. requestFree' \in Int /\ sseFree' \in Int  BY <1>2, IsBit DEF Moves
    <2>3. QED  BY <1>2, <1>4, <2>1, <2>2 DEF Moves
  <1>7. ServerTypeOK'
    <2>1. StreamTypeOK'  BY DEF StreamInv
    <2>2. at' \in [Conns -> Places] /\ turnedAway' \in SUBSET Conns
      BY <1>1 DEF Moves, Tallies, ServerTypeOK
    <2>3. QED  BY <1>1, <1>6, <2>1, <2>2 DEF Moves, Tallies, ServerTypeOK, Counters, LoopStates
  <1>8. Balanced'
    <2>1. turnedAway' \subseteq At(at', {"done"})
      <3>1. turnedAway \subseteq At(at, {"done"})  BY DEF ServerIInv, Balanced
      <3>2. c \notin At(at, {"done"})  BY DEF At, Moves, Tallies
      <3>3. \A d \in Conns : at'[d] = IF d = c THEN place ELSE at[d]  BY <1>1 DEF Moves
      <3>4. QED  BY <3>1, <3>2, <3>3 DEF At, Moves, Tallies
    <2>2. ASSUME loop # "failed"
          PROVE  counted'["accepted"] + faults' =
                   Total(counted') + Cardinality(turnedAway') + Cardinality(At(at', Uncounted))
      <3>1. counted["accepted"] + faults =
              Total(counted) + Cardinality(turnedAway) + Cardinality(At(at, Uncounted))
        BY <2>2 DEF ServerIInv, Balanced
      <3>2. /\ counted["accepted"] \in Nat /\ Total(counted) \in Nat
            /\ Total(counted') \in Nat
        BY <1>1 DEF ServerTypeOK, Counters, Total, Moves, Tallies
      <3>3. Cardinality(turnedAway) \in Nat /\ Cardinality(turnedAway') \in Nat
        <4>1. IsFiniteSet(turnedAway)  BY <1>1, TurnedAwayIsFinite
        <4>2. IsFiniteSet(turnedAway \cup {c})  BY <4>1, FS_AddElement
        <4>3. QED  BY <4>1, <4>2, FS_CardinalityType DEF Moves, Tallies
      <3>4. /\ counted'["accepted"] = counted["accepted"] /\ faults' = faults
            /\ Total(counted') + Cardinality(turnedAway') =
                 Total(counted) + Cardinality(turnedAway) + Is(at[c], Uncounted) - Is(place, Uncounted)
            /\ Cardinality(At(at', Uncounted)) =
                 Cardinality(At(at, Uncounted)) + Is(place, Uncounted) - Is(at[c], Uncounted)
        BY <1>3 DEF Moves, Tallies
      <3>5. faults \in Nat  BY <1>1, FaultAssumption DEF ServerTypeOK
      <3>6. QED  BY <1>4, <3>1, <3>2, <3>3, <3>4, <3>5, IsBit
    <2>3. QED  BY <2>1, <2>2 DEF Balanced, Moves
  <1>9. NoWorkerIsLeft'  BY DEF ServerIInv, NoWorkerIsLeft, Moves
  <1>10. LateOK'  BY DEF ServerIInv, LateOK, Moves
  <1>11. QED  BY <1>5, <1>7, <1>8, <1>9, <1>10 DEF ServerIInv

LEMMA NothingTallied ==
  ASSUME ServerIInv, NEW c \in Conns, NEW place, UNCHANGED <<counted, turnedAway>>,
         at[c] \in Uncounted <=> place \in Uncounted
  PROVE  Tallies(c, place)
  <1>1. ServerTypeOK  BY DEF ServerIInv
  <1>2. Total(counted) \in Nat  BY <1>1 DEF ServerTypeOK, Counters, Total
  <1>3. Cardinality(turnedAway) \in Nat  BY <1>1, TurnedAwayIsFinite
  <1>4. QED  BY <1>1, <1>2, <1>3 DEF Tallies, ServerTypeOK, Is

LEMMA OneTallied ==
  ASSUME ServerIInv, NEW c \in Conns, NEW place, NEW k \in {"served", "failed", "rejected", "panicked"},
         Count(k), turnedAway' = turnedAway, at[c] \in Uncounted, place \notin Uncounted
  PROVE  Tallies(c, place)
  <1>1. ServerTypeOK  BY DEF ServerIInv
  <1>2. /\ counted' \in [Counters -> Nat]
        /\ counted'["accepted"] = counted["accepted"]
        /\ Total(counted') = Total(counted) + 1
        /\ Total(counted) \in Nat
    BY <1>1, CountHolds DEF ServerTypeOK, Counters
  <1>3. Cardinality(turnedAway) \in Nat  BY <1>1, TurnedAwayIsFinite
  <1>4. QED  BY <1>2, <1>3 DEF Tallies, Is

LEMMA AwayTallied ==
  ASSUME ServerIInv, NEW c \in Conns, counted' = counted, turnedAway' = turnedAway \cup {c},
         at[c] \in Uncounted
  PROVE  Tallies(c, "done")
  <1>1. ServerTypeOK  BY DEF ServerIInv
  <1>2. Total(counted) \in Nat  BY <1>1 DEF ServerTypeOK, Counters, Total
  <1>3. c \notin turnedAway  BY DEF ServerIInv, Balanced, At, Uncounted
  <1>4. /\ Cardinality(turnedAway) \in Nat
        /\ Cardinality(turnedAway \cup {c}) = Cardinality(turnedAway) + 1
    BY <1>1, <1>3, TurnedAwayIsFinite, FS_AddElement
  <1>5. Is(at[c], Uncounted) = 1 /\ Is("done", Uncounted) = 0  BY DEF Is, Uncounted
  <1>6. QED  BY <1>1, <1>2, <1>4, <1>5 DEF Tallies, ServerTypeOK

(* A worker that is not streaming.                                         *)
LEMMA QuietMoveHolds ==
  ASSUME ServerIInv, NEW c \in Conns, NEW place \in Places, Moves(c, place), UNCHANGED streamVars,
         at[c] # "streaming"
  PROVE  ServerIInv'
  <1>1. StreamInv'  BY StreamUnchanged DEF ServerIInv, Moves
  <1>2. \A d \in Conns : Streaming(d)' => at'[d] = "streaming"
    BY DEF ServerIInv, ServerTypeOK, Moves, Streaming, streamVars, feed
  <1>3. QED  BY <1>1, <1>2, MoveHolds

(* What the permits have to do with a connection's place. *)
LEMMA PermitsTyped ==
  ASSUME ServerIInv
  PROVE  requestFree \in Int /\ requestFree >= 0 /\ sseFree \in Int /\ sseFree >= 0
  BY PermitAssumption DEF ServerIInv, ServerTypeOK

LEMMA ParsingHolds ==
  ASSUME ServerIInv, NEW c \in Conns, Parsed(c) \/ Rejected(c) \/ ReadFails(c)
  PROVE  ServerIInv'
  <1>1. CASE Parsed(c)
    <2>1. PICK place \in {"checkRequest", "checkStream"} : Go(c, place)  BY <1>1 DEF Parsed
    <2>2. Tallies(c, place)  BY <1>1, <2>1, NothingTallied DEF Parsed, Uncounted
    <2>3. /\ Is(place, OnRequest) = 0 /\ Is(place, OnStream) = 0
          /\ Is(at[c], OnRequest) = 0 /\ Is(at[c], OnStream) = 0
          /\ at[c] \notin {"new", "done"} /\ place \in Places \ {"new"}
          /\ UNCHANGED <<shutdown, loop, requestFree, sseFree, faults, late>>
      BY <1>1, <2>1 DEF Parsed, pools, Is, OnRequest, OnStream, Places
    <2>4. Moves(c, place)  BY <2>1, <2>2, <2>3, PermitsTyped DEF Go, Moves
    <2>5. QED  BY <1>1, <2>3, <2>4, QuietMoveHolds DEF Parsed
  <1>2. CASE Rejected(c)
    <2>1. Tallies(c, "rejecting")  BY <1>2, OneTallied DEF Rejected, Uncounted
    <2>2. Moves(c, "rejecting")
      BY <1>2, <2>1, PermitsTyped DEF Rejected, Go, Moves, Places, pools, Is, OnRequest, OnStream
    <2>3. QED  BY <1>2, <2>2, QuietMoveHolds DEF Rejected, Places
  <1>3. CASE ReadFails(c)
    <2>1. Tallies(c, "done")  BY <1>3, OneTallied DEF ReadFails, Uncounted
    <2>2. Moves(c, "done")
      BY <1>3, <2>1, PermitsTyped DEF ReadFails, Go, Moves, Places, pools, Is, OnRequest, OnStream
    <2>3. QED  BY <1>3, <2>2, QuietMoveHolds DEF ReadFails, Places
  <1>4. QED  BY <1>1, <1>2, <1>3

LEMMA WaitingHolds ==
  ASSUME ServerIInv, NEW c \in Conns, CheckPool(c) \/ WaitTimesOut(c) \/ TakeRequestPermit(c)
  PROVE  ServerIInv'
  <1>1. CASE CheckPool(c) /\ shutdown
    <2>1. Tallies(c, "done")  BY <1>1, AwayTallied DEF CheckPool, Uncounted
    <2>2. Moves(c, "done")
      BY <1>1, <2>1, PermitsTyped DEF CheckPool, Go, Moves, Places, pools, Is, OnRequest, OnStream
    <2>3. QED  BY <1>1, <2>2, QuietMoveHolds DEF CheckPool, Places
  <1>2. CASE CheckPool(c) /\ ~shutdown
    <2> DEFINE place == IF at[c] = "checkRequest" THEN "waitRequest" ELSE "waitStream"
    <2>1. Tallies(c, place)  BY <1>2, NothingTallied DEF CheckPool, Uncounted
    <2>2. Moves(c, place)
      BY <1>2, <2>1, PermitsTyped DEF CheckPool, Go, Moves, Places, pools, Is, OnRequest, OnStream
    <2>3. place \in Places  BY DEF Places
    <2>4. QED  BY <1>2, <2>2, <2>3, QuietMoveHolds DEF CheckPool
  <1>3. CASE WaitTimesOut(c)
    <2> DEFINE place == IF at[c] = "waitRequest" THEN "checkRequest" ELSE "checkStream"
    <2>1. Tallies(c, place)  BY <1>3, NothingTallied DEF WaitTimesOut, Uncounted
    <2>2. Moves(c, place)
      BY <1>3, <2>1, PermitsTyped DEF WaitTimesOut, Go, Moves, Places, pools, Is, OnRequest, OnStream
    <2>3. place \in Places  BY DEF Places
    <2>4. QED  BY <1>3, <2>2, <2>3, QuietMoveHolds DEF WaitTimesOut
  <1>4. CASE TakeRequestPermit(c)
    <2>1. Tallies(c, "routing")  BY <1>4, NothingTallied DEF TakeRequestPermit, Uncounted
    <2>2. Moves(c, "routing")
      BY <1>4, <2>1, PermitsTyped DEF TakeRequestPermit, Go, Moves, Places, Is, OnRequest, OnStream
    <2>3. QED  BY <1>4, <2>2, QuietMoveHolds DEF TakeRequestPermit, Places
  <1>5. QED  BY <1>1, <1>2, <1>3, <1>4

LEMMA ReplyingHolds ==
  ASSUME ServerIInv, NEW c \in Conns, Routed(c) \/ Replied(c) \/ RejectionReplied(c)
  PROVE  ServerIInv'
  <1>1. CASE Routed(c)
    <2>1. PICK k \in {"served", "failed"} : Count(k)  BY <1>1 DEF Routed
    <2>2. Tallies(c, "replying")  BY <1>1, <2>1, OneTallied DEF Routed, Uncounted
    <2>3. Moves(c, "replying")
      BY <1>1, <2>2, PermitsTyped DEF Routed, Go, Moves, Places, pools, Is, OnRequest, OnStream
    <2>4. QED  BY <1>1, <2>3, QuietMoveHolds DEF Routed, Places
  <1>2. CASE Replied(c)
    <2>1. Tallies(c, "done")  BY <1>2, NothingTallied DEF Replied, Uncounted
    <2>2. Moves(c, "done")
      BY <1>2, <2>1, PermitsTyped DEF Replied, Go, Moves, Places, Is, OnRequest, OnStream
    <2>3. QED  BY <1>2, <2>2, QuietMoveHolds DEF Replied, Places
  <1>3. CASE RejectionReplied(c)
    <2>1. Tallies(c, "done")  BY <1>3, NothingTallied DEF RejectionReplied, Uncounted
    <2>2. Moves(c, "done")
      BY <1>3, <2>1, PermitsTyped DEF RejectionReplied, Go, Moves, Places, pools, Is, OnRequest, OnStream
    <2>3. QED  BY <1>3, <2>2, QuietMoveHolds DEF RejectionReplied, Places
  <1>4. QED  BY <1>1, <1>2, <1>3

LEMMA StreamStepHolds ==
  ASSUME ServerIInv, NEW c \in Conns, StreamMoves(c) PROVE ServerIInv'
  <1>1. at[c] = "streaming" /\ StreamStep(c) /\ UNCHANGED serverVars  BY DEF StreamMoves
  <1>2. StreamInv  BY DEF ServerIInv
  <1>3. StreamInv'
    BY <1>1, <1>2, StageHolds, WritePageHolds, SubscribeHolds, ReceiveHolds DEF StreamStep
  <1>4. shutdown' = shutdown /\ \A d \in Conns \ {c} : stage'[d] = stage[d]
    BY <1>1, <1>2
    DEF StreamStep, Greet, WritePage, EndOfPages, Subscribe, Receive, KeepAlive, StreamInv, StreamTypeOK
  <1>5. UNCHANGED <<loop, at, requestFree, sseFree, counted, turnedAway, faults, late>>
    BY <1>1 DEF serverVars, pools
  <1>6. ServerTypeOK'
    <2>1. \A d \in Conns : Streaming(d)' => at'[d] = "streaming"
      BY <1>1, <1>4, <1>5 DEF ServerIInv, ServerTypeOK, Streaming
    <2>2. QED  BY <1>3, <1>5, <2>1 DEF ServerIInv, ServerTypeOK, StreamInv, Places, LoopStates, Counters
  <1>7. PermitsConserved'  BY <1>5 DEF ServerIInv, PermitsConserved, Holding
  <1>8. Balanced'  BY <1>5 DEF ServerIInv, Balanced, Total, At, Uncounted
  <1>9. NoWorkerIsLeft'  BY <1>1, <1>5 DEF ServerIInv, NoWorkerIsLeft
  <1>10. LateOK'  BY <1>4, <1>5 DEF ServerIInv, LateOK
  <1>11. QED  BY <1>3, <1>6, <1>7, <1>8, <1>9, <1>10 DEF ServerIInv

LEMMA StreamPermitHolds ==
  ASSUME ServerIInv, NEW c \in Conns, TakeStreamPermit(c) PROVE ServerIInv'
  <1>1. /\ at[c] = "waitStream" /\ sseFree > 0 /\ sseFree' = sseFree - 1
        /\ at' = [at EXCEPT ![c] = "streaming"]
        /\ UNCHANGED <<loop, requestFree, counted, turnedAway, faults, late>>
    BY DEF TakeStreamPermit, Go
  <1>2. PICK cursor \in Cursors : Open(c, cursor)  BY DEF TakeStreamPermit
  <1>3. ~Streaming(c)  BY <1>1 DEF ServerIInv, ServerTypeOK
  <1>4. StreamInv'  BY <1>2, <1>3, OpenHolds DEF ServerIInv
  <1>5. shutdown' = shutdown /\ \A d \in Conns \ {c} : stage'[d] = stage[d]
    BY <1>2 DEF Open, ServerIInv, StreamInv, StreamTypeOK
  <1>6. \A d \in Conns : Streaming(d)' => at'[d] = "streaming"
    BY <1>1, <1>5 DEF ServerIInv, ServerTypeOK, Streaming
  <1>7. Tallies(c, "streaming")  BY <1>1, NothingTallied DEF Uncounted
  <1>8. Moves(c, "streaming")
    BY <1>1, <1>5, <1>7, PermitsTyped DEF Moves, Places, Is, OnRequest, OnStream
  <1>9. QED  BY <1>4, <1>6, <1>8, MoveHolds DEF Places

(* A stream ends, fails or panics, or a handler panics.                    *)
LEMMA EndingHolds ==
  ASSUME ServerIInv, NEW c \in Conns, StreamFails(c) \/ StreamEnds(c) \/ Panics(c) PROVE ServerIInv'
  <1>1. /\ at[c] \in {"routing", "streaming"}
        /\ Close(c)
        /\ at' = [at EXCEPT ![c] = "done"]
        /\ requestFree' = IF at[c] = "routing" THEN requestFree + 1 ELSE requestFree
        /\ sseFree' = IF at[c] = "streaming" THEN sseFree + 1 ELSE sseFree
        /\ \E k \in {"served", "failed", "panicked"} : Count(k)
        /\ UNCHANGED <<loop, turnedAway, faults, late>>
    BY DEF StreamFails, StreamEnds, Panics, Cut, Go, GivenBackOnPanic
  <1>2. StreamInv'  BY <1>1, CloseHolds DEF ServerIInv
  <1>3. /\ shutdown' = shutdown
        /\ stage'[c] = "closed"
        /\ \A d \in Conns \ {c} : stage'[d] = stage[d]
    BY <1>1 DEF Close, ServerIInv, StreamInv, StreamTypeOK
  <1>4. \A d \in Conns : Streaming(d)' => at'[d] = "streaming"
    BY <1>1, <1>3 DEF ServerIInv, ServerTypeOK, Streaming
  <1>5. Tallies(c, "done")
    <2>1. PICK k \in {"served", "failed", "panicked"} : Count(k)  BY <1>1
    <2>2. QED  BY <1>1, <2>1, OneTallied DEF Uncounted
  <1>6. Moves(c, "done")
    BY <1>1, <1>3, <1>5, PermitsTyped DEF Moves, Places, Is, OnRequest, OnStream
  <1>7. QED  BY <1>2, <1>4, <1>6, MoveHolds DEF Places

LEMMA WorkerHolds ==
  ASSUME ServerIInv, NEW c \in Conns, Worker(c) PROVE ServerIInv'
  BY ParsingHolds, WaitingHolds, ReplyingHolds, StreamStepHolds, StreamPermitHolds, EndingHolds
  DEF Worker, Answers

-----------------------------------------------------------------------------
(* The accept loop *)

(* A step of the loop that takes no connection.                            *)
LEMMA LoopStateHolds ==
  ASSUME ServerIInv, UNCHANGED <<streamVars, at, pools, turnedAway, late>>,
         shutdown' \in {shutdown, TRUE}, loop' \in LoopStates,
         loop = "failed" => loop' = "failed",
         faults' \in 0..MaxFaults, counted' \in [Counters -> Nat],
         counted'["accepted"] + faults' - Total(counted') = counted["accepted"] + faults - Total(counted),
         loop' = "returned" => loop = "returned" \/ AllJoined,
         loop' = "accepting" => loop = "accepting" \/ ~shutdown
  PROVE  ServerIInv'
  <1>1. UNCHANGED <<head, visible, stage, since, last, queue, sent, unheard, at, requestFree, sseFree>>
    BY DEF streamVars, eventStore, feed, pools
  <1>2. shutdown' \in BOOLEAN  BY DEF ServerIInv, ServerTypeOK, StreamTypeOK
  <1>3. StreamInv'
    BY <1>1, <1>2 DEF ServerIInv, StreamInv, StreamTypeOK, StreamOK, QueueOK, Announced, Waiting,
                      Streaming, OnlyUnheardEventsAreSkipped
  <1>4. ServerTypeOK'
    BY <1>1, <1>3 DEF ServerIInv, ServerTypeOK, StreamInv, Streaming, Places, Counters
  <1>5. PermitsConserved'  BY <1>1 DEF ServerIInv, PermitsConserved, Holding
  <1>6. Balanced'
    <2>1. At(at, {"done"})' = At(at, {"done"}) /\ At(at, Uncounted)' = At(at, Uncounted)
      BY <1>1 DEF At, Uncounted
    <2>2. /\ counted["accepted"] \in Nat /\ counted'["accepted"] \in Nat
          /\ Total(counted) \in Nat /\ Total(counted') \in Nat
          /\ faults \in Nat /\ faults' \in Nat
      BY FaultAssumption DEF ServerIInv, ServerTypeOK, Counters, Total
    <2>3. Cardinality(turnedAway) \in Nat /\ Cardinality(At(at, Uncounted)) \in Nat
      BY TurnedAwayIsFinite, AtIsFinite DEF ServerIInv
    <2>4. turnedAway' \subseteq At(at, {"done"})'  BY <2>1 DEF ServerIInv, Balanced
    <2>5. ASSUME loop' # "failed"
          PROVE  counted'["accepted"] + faults' =
                   Total(counted') + Cardinality(turnedAway) + Cardinality(At(at, Uncounted))
      <3>1. counted["accepted"] + faults =
              Total(counted) + Cardinality(turnedAway) + Cardinality(At(at, Uncounted))
        BY <2>5 DEF ServerIInv, Balanced
      <3>2. QED  BY <2>2, <2>3, <3>1
    <2>6. QED  BY <2>1, <2>4, <2>5 DEF Balanced
  <1>7. NoWorkerIsLeft'
    <2>1. ASSUME loop' = "returned", NEW c \in Conns PROVE at[c] \in {"new", "done"}
      BY <2>1 DEF ServerIInv, NoWorkerIsLeft, AllJoined
    <2>2. QED  BY <1>1, <2>1 DEF ServerIInv, ServerTypeOK, NoWorkerIsLeft, Streaming
  <1>8. LateOK'  BY DEF ServerIInv, LateOK
  <1>9. QED  BY <1>3, <1>4, <1>5, <1>6, <1>7, <1>8 DEF ServerIInv

LEMMA LoopStepHolds ==
  ASSUME ServerIInv, CheckFlag \/ NothingToAccept \/ AcceptFails \/ Return PROVE ServerIInv'
  <1>1. counted \in [Counters -> Nat] /\ faults \in 0..MaxFaults /\ shutdown \in BOOLEAN
    BY DEF ServerIInv, ServerTypeOK, StreamTypeOK
  <1>2. counted["accepted"] \in Nat /\ Total(counted) \in Nat /\ faults \in Nat
    BY <1>1, FaultAssumption DEF Counters, Total
  <1>3. CASE CheckFlag
    BY <1>1, <1>2, <1>3, LoopStateHolds DEF CheckFlag, LoopStates
  <1>4. CASE NothingToAccept
    BY <1>1, <1>2, <1>4, LoopStateHolds DEF NothingToAccept, LoopStates
  <1>5. CASE AcceptFails
    <2>1. /\ loop = "accepting" /\ loop' = "checking" /\ faults < MaxFaults /\ faults' = faults + 1
          /\ Count("failed")
          /\ UNCHANGED <<shutdown, streamVars, at, pools, turnedAway, late>>
      BY <1>5 DEF AcceptFails
    <2>2. /\ counted' \in [Counters -> Nat]
          /\ counted'["accepted"] = counted["accepted"]
          /\ Total(counted') = Total(counted) + 1
      BY <1>1, <2>1, CountHolds DEF Counters
    <2>3. faults' \in 0..MaxFaults  BY <1>2, <2>1, FaultAssumption
    <2>4. QED  BY <1>2, <2>1, <2>2, <2>3, LoopStateHolds DEF LoopStates
  <1>6. CASE Return
    BY <1>1, <1>2, <1>6, LoopStateHolds DEF Return, LoopStates
  <1>7. QED  BY <1>3, <1>4, <1>5, <1>6

LEMMA SignalsHold == ASSUME ServerIInv, Shutdown \/ SecondSignal PROVE ServerIInv'
  <1>1. counted \in [Counters -> Nat] /\ faults \in 0..MaxFaults /\ shutdown \in BOOLEAN
    BY DEF ServerIInv, ServerTypeOK, StreamTypeOK
  <1>2. CASE Shutdown
    <2>1. loop \in LoopStates  BY DEF ServerIInv, ServerTypeOK
    <2>2. QED
      BY <1>1, <1>2, <2>1, LoopStateHolds DEF Shutdown, serverVars, pools
  <1>3. CASE SecondSignal
    <2>1. /\ loop \in {"checking", "accepting", "joining"} /\ loop' = "killed"
          /\ stage' = [c \in Conns |-> "closed"]
          /\ queue' = [c \in Conns |-> <<>>]
          /\ UNCHANGED <<shutdown, head, visible, since, last, sent, unheard>>
          /\ UNCHANGED <<at, requestFree, sseFree, counted, turnedAway, faults, late>>
      BY <1>3 DEF SecondSignal, eventStore, pools
    <2>2. StreamInv'
      <3>1. StreamTypeOK'
        BY <2>1, QueueAssumption DEF ServerIInv, StreamInv, StreamTypeOK, Stages
      <3>2. StreamOK'
        BY <2>1 DEF ServerIInv, StreamInv, StreamOK, QueueOK, Announced, Subscribed, Streaming
      <3>3. OnlyUnheardEventsAreSkipped'
        BY <2>1 DEF OnlyUnheardEventsAreSkipped, Streaming
      <3>4. QED  BY <3>1, <3>2, <3>3 DEF StreamInv
    <2>3. ServerTypeOK'
      BY <2>1, <2>2 DEF ServerIInv, ServerTypeOK, StreamInv, Streaming, Places, Counters, LoopStates
    <2>4. PermitsConserved'  BY <2>1 DEF ServerIInv, PermitsConserved, Holding
    <2>5. Balanced'  BY <2>1 DEF ServerIInv, Balanced, Total, At, Uncounted
    <2>6. NoWorkerIsLeft'  BY <2>1 DEF NoWorkerIsLeft
    <2>7. LateOK'  BY <2>1 DEF ServerIInv, LateOK
    <2>8. QED  BY <2>2, <2>3, <2>4, <2>5, <2>6, <2>7 DEF ServerIInv
  <1>4. QED  BY <1>2, <1>3

LEMMA CommitStepHolds == ASSUME ServerIInv, CommitEvent, UNCHANGED serverVars PROVE ServerIInv'
  <1>1. StreamInv'  BY ServerCommitHolds DEF ServerIInv
  <1>2. UNCHANGED <<loop, at, requestFree, sseFree, counted, turnedAway, faults, late, shutdown, stage>>
    BY DEF CommitEvent, serverVars, pools
  <1>3. ServerTypeOK'  BY <1>1, <1>2 DEF ServerIInv, ServerTypeOK, StreamInv, Streaming, Places, Counters, LoopStates
  <1>4. PermitsConserved'  BY <1>2 DEF ServerIInv, PermitsConserved, Holding
  <1>5. Balanced'  BY <1>2 DEF ServerIInv, Balanced, Total, At, Uncounted
  <1>6. NoWorkerIsLeft'  BY <1>2 DEF ServerIInv, NoWorkerIsLeft, Streaming
  <1>7. LateOK'  BY <1>2 DEF ServerIInv, LateOK
  <1>8. QED  BY <1>1, <1>3, <1>4, <1>5, <1>6, <1>7 DEF ServerIInv

(* A connection is taken from the listener's queue: by a worker, or to be   *)
(* dropped.                                                                 *)
LEMMA AcceptHolds ==
  ASSUME ServerIInv, NEW c \in Conns, Accept(c) \/ SpawnFails(c) PROVE ServerIInv'
  <1>1. ServerTypeOK /\ at \in [Conns -> Places] /\ counted \in [Counters -> Nat]
    BY DEF ServerIInv, ServerTypeOK
  <1>2. /\ loop = "accepting" /\ at[c] = "new"
        /\ Count("accepted")
        /\ UNCHANGED <<shutdown, streamVars, requestFree, sseFree, turnedAway, faults>>
    BY DEF Accept, SpawnFails, pools
  <1>3. UNCHANGED <<head, visible, stage, since, last, queue, sent, unheard>>
    BY <1>2 DEF streamVars, eventStore, feed
  <1>4. \/ /\ at' = [at EXCEPT ![c] = "parsing"] /\ loop' = "checking"
           /\ late' = IF shutdown THEN late \cup {c} ELSE late
        \/ /\ at' = [at EXCEPT ![c] = "done"] /\ loop' = "failed" /\ late' = late
    BY DEF Accept, SpawnFails
  <1>5. /\ at'[c] \in {"parsing", "done"}
        /\ at'[c] = "done" => loop' = "failed"
        /\ \A d \in Conns \ {c} : at'[d] = at[d]
    BY <1>1, <1>4
  <1>6. /\ counted' \in [Counters -> Nat]
        /\ counted'["accepted"] = counted["accepted"] + 1
        /\ Total(counted') = Total(counted)
        /\ Total(counted) \in Nat
    BY <1>1, <1>2, CountHolds DEF Counters
  <1>7. StreamInv'  BY <1>2, StreamUnchanged DEF ServerIInv
  <1>8. ServerTypeOK'
    <2>1. at' \in [Conns -> Places]  BY <1>1, <1>4 DEF Places
    <2>2. late' \in SUBSET Conns  BY <1>1, <1>4 DEF ServerTypeOK
    <2>3. \A d \in Conns : Streaming(d)' => at'[d] = "streaming"
      BY <1>1, <1>2, <1>3, <1>5 DEF ServerTypeOK, Streaming
    <2>4. loop' \in LoopStates  BY <1>4 DEF LoopStates
    <2>5. QED  BY <1>1, <1>2, <1>6, <1>7, <2>1, <2>2, <2>3, <2>4 DEF ServerTypeOK, StreamInv, Counters
  <1>9. PermitsConserved'
    <2>1. Holding("request")' = Holding("request") /\ Holding("stream")' = Holding("stream")
      BY <1>2, <1>5 DEF Holding
    <2>2. QED  BY <1>2, <2>1 DEF ServerIInv, PermitsConserved
  <1>10. Balanced'
    <2>1. turnedAway' \subseteq At(at', {"done"})
      BY <1>2, <1>5 DEF ServerIInv, Balanced, At
    <2>2. ASSUME loop' # "failed"
          PROVE  counted'["accepted"] + faults' =
                   Total(counted') + Cardinality(turnedAway') + Cardinality(At(at', Uncounted))
      <3> DEFINE g == at'
                 place == "parsing"
      <3>1. g[c] = place /\ \A d \in Conns \ {c} : g[d] = at[d]  BY <1>5, <2>2
      <3> HIDE DEF g, place
      <3>2. Cardinality(At(g, Uncounted)) =
              Cardinality(At(at, Uncounted)) + Is(place, Uncounted) - Is(at[c], Uncounted)
        <4>1. PICK h : h = g  OBVIOUS
        <4>2. PICK f : f = at  OBVIOUS
        <4>3. PICK P : P = Uncounted  OBVIOUS
        <4>4. PICK q : q = place  OBVIOUS
        <4>5. h[c] = q /\ \A d \in Conns \ {c} : h[d] = f[d]  BY <3>1, <4>1, <4>2, <4>4
        <4>6. Cardinality(At(h, P)) = Cardinality(At(f, P)) + Is(q, P) - Is(f[c], P)
          BY <4>5, MoveCounts
        <4>7. QED  BY <4>1, <4>2, <4>3, <4>4, <4>6
      <3>3. Is(place, Uncounted) = 1 /\ Is(at[c], Uncounted) = 0
        BY <1>2 DEF Is, Uncounted, place
      <3>4. counted["accepted"] + faults =
              Total(counted) + Cardinality(turnedAway) + Cardinality(At(at, Uncounted))
        BY <1>2 DEF ServerIInv, Balanced
      <3>5. Cardinality(turnedAway) \in Nat /\ Cardinality(At(at, Uncounted)) \in Nat
        BY <1>1, TurnedAwayIsFinite, AtIsFinite
      <3>6. counted["accepted"] \in Nat /\ faults \in Nat
        BY <1>1, FaultAssumption DEF ServerTypeOK, Counters
      <3>7. counted'["accepted"] + faults =
              Total(counted') + Cardinality(turnedAway) + Cardinality(At(g, Uncounted))
        BY <1>6, <3>2, <3>3, <3>4, <3>5, <3>6
      <3>8. QED  BY <1>2, <3>7 DEF g
    <2>3. QED  BY <2>1, <2>2 DEF Balanced
  <1>11. NoWorkerIsLeft'  BY <1>4 DEF NoWorkerIsLeft
  <1>12. LateOK'
    <2>1. late = {}  BY <1>2 DEF ServerIInv, LateOK
    <2>2. QED  BY <1>2, <1>4, <2>1 DEF LateOK
  <1>13. QED  BY <1>7, <1>8, <1>9, <1>10, <1>11, <1>12 DEF ServerIInv

-----------------------------------------------------------------------------
(* The invariant *)

LEMMA ServerInitHolds == ServerInit => ServerIInv
  <1> SUFFICES ASSUME ServerInit PROVE ServerIInv  OBVIOUS
  <1>1. StreamInv
    <2>1. StreamTypeOK
      <3>1. 0 \in 0..MaxHead  BY HeadAssumption
      <3>2. /\ shutdown \in BOOLEAN /\ head \in 0..MaxHead /\ visible \in SUBSET (1..head)
            /\ stage \in [Conns -> Stages]
            /\ since \in [Conns -> 0..MaxHead] /\ last \in [Conns -> 0..MaxHead]
        BY <3>1 DEF ServerInit, StreamInit, Stages
      <3>3. queue \in [Conns -> Seq(Sequences)]  BY DEF ServerInit, StreamInit
      <3>4. \A c \in Conns : Len(queue[c]) <= QueueCap
        BY QueueAssumption DEF ServerInit, StreamInit
      <3>5. sent \in [Conns -> SUBSET Sequences] /\ unheard \in [Conns -> SUBSET Sequences]
        BY DEF ServerInit, StreamInit
      <3>6. QED  BY <3>2, <3>3, <3>4, <3>5 DEF StreamTypeOK
    <2>2. StreamOK
      BY HeadAssumption DEF ServerInit, StreamInit, StreamOK, QueueOK, Announced, Subscribed, Streaming
    <2>3. OnlyUnheardEventsAreSkipped
      BY DEF ServerInit, StreamInit, OnlyUnheardEventsAreSkipped, Streaming
    <2>4. QED  BY <2>1, <2>2, <2>3 DEF StreamInv
  <1>2. ServerTypeOK
    BY <1>1, PermitAssumption, FaultAssumption
    DEF ServerInit, StreamInit, ServerTypeOK, StreamInv, LoopStates, Places, Counters, Streaming
  <1>3. Holding("request") = {} /\ Holding("stream") = {}  BY DEF ServerInit, Holding
  <1>4. PermitsConserved
    BY <1>3, FS_EmptySet, PermitAssumption DEF ServerInit, PermitsConserved
  <1>5. Balanced
    <2>1. At(at, Uncounted) = {}  BY DEF ServerInit, At, Uncounted
    <2>2. Total(counted) = 0 /\ counted["accepted"] = 0  BY DEF ServerInit, Total, Counters
    <2>3. QED  BY <2>1, <2>2, FS_EmptySet DEF ServerInit, Balanced
  <1>6. NoWorkerIsLeft /\ LateOK  BY DEF ServerInit, NoWorkerIsLeft, LateOK
  <1>7. QED  BY <1>1, <1>2, <1>4, <1>5, <1>6 DEF ServerIInv

LEMMA ServerStutterHolds == ASSUME ServerIInv, UNCHANGED httpVars PROVE ServerIInv'
  <1>1. UNCHANGED <<shutdown, streamVars, loop, at, requestFree, sseFree, counted, turnedAway,
                    faults, late>>
    BY DEF httpVars, serverVars, pools
  <1>2. StreamInv'  BY <1>1, StreamUnchanged DEF ServerIInv
  <1>3. UNCHANGED stage  BY <1>1 DEF streamVars, feed
  <1>4. ServerTypeOK'  BY <1>1, <1>2, <1>3 DEF ServerIInv, ServerTypeOK, StreamInv, Streaming, Places, Counters, LoopStates
  <1>5. PermitsConserved'  BY <1>1 DEF ServerIInv, PermitsConserved, Holding
  <1>6. Balanced'  BY <1>1 DEF ServerIInv, Balanced, Total, At, Uncounted
  <1>7. NoWorkerIsLeft' /\ LateOK'  BY <1>1, <1>3 DEF ServerIInv, NoWorkerIsLeft, LateOK, Streaming
  <1>8. QED  BY <1>2, <1>4, <1>5, <1>6, <1>7 DEF ServerIInv

LEMMA ServerNextHolds == ServerIInv /\ [ServerNext]_httpVars => ServerIInv'
  <1> SUFFICES ASSUME ServerIInv, [ServerNext]_httpVars PROVE ServerIInv'  OBVIOUS
  <1>1. CASE Loop  BY <1>1, LoopStepHolds, AcceptHolds DEF Loop
  <1>2. ASSUME NEW c \in Conns, Worker(c) PROVE ServerIInv'  BY <1>2, WorkerHolds
  <1>3. CASE Shutdown \/ SecondSignal  BY <1>3, SignalsHold
  <1>4. CASE CommitEvent /\ UNCHANGED serverVars  BY <1>4, CommitStepHolds
  <1>5. CASE UNCHANGED httpVars  BY <1>5, ServerStutterHolds
  <1>6. QED  BY <1>1, <1>2, <1>3, <1>4, <1>5 DEF ServerNext

LEMMA ServerInvariance == ServerSpec => []ServerIInv
  <1>1. QED  BY ServerInitHolds, ServerNextHolds, PTL DEF ServerSpec

-----------------------------------------------------------------------------
(* Theorems *)

(* Permits are conserved, connections are counted once, nobody outlives a  *)
(* listener that returned and at most one connection is late, whatever     *)
(* panics, fails and is turned away (serve_listener, PermitPool).          *)
THEOREM ServerIsSound == ServerSpec => []ServerInv
  <1>1. ServerIInv => ServerInv
    <2> SUFFICES ASSUME ServerIInv PROVE ServerInv  OBVIOUS
    <2>1. StatsAddUp
      <3> SUFFICES ASSUME loop = "returned"
                   PROVE  counted["accepted"] + faults =
                            Total(counted) + Cardinality(turnedAway)
        <4>1. Cardinality(turnedAway) \in Nat  BY TurnedAwayIsFinite DEF ServerIInv
        <4>2. QED  BY <4>1 DEF StatsAddUp, Total
      <3>1. At(at, Uncounted) = {}  BY DEF ServerIInv, NoWorkerIsLeft, At, Uncounted
      <3>2. /\ counted["accepted"] + faults =
                 Total(counted) + Cardinality(turnedAway) + Cardinality(At(at, Uncounted))
            /\ Total(counted) \in Nat
        BY DEF ServerIInv, Balanced, ServerTypeOK, Counters, Total
      <3>3. Cardinality(turnedAway) \in Nat  BY TurnedAwayIsFinite DEF ServerIInv
      <3>4. QED  BY <3>1, <3>2, <3>3, FS_EmptySet
    <2>2. AtMostOneLate
      <3>1. late = {} \/ \E c \in Conns : late = {c}  BY DEF ServerIInv, LateOK
      <3>2. CASE late = {}
        <4>1. Cardinality(late) = 0  BY <3>2, FS_EmptySet
        <4>2. QED  BY <4>1 DEF AtMostOneLate
      <3>3. ASSUME NEW c \in Conns, late = {c} PROVE AtMostOneLate
        <4>1. Cardinality({c}) = 1  BY FS_Singleton
        <4>2. QED  BY <3>3, <4>1 DEF AtMostOneLate
      <3>4. QED  BY <3>1, <3>2, <3>3
    <2>3. QED  BY <2>1, <2>2 DEF ServerIInv, ServerInv
  <1>2. QED  BY <1>1, ServerInvariance, PTL

(* Replay, catch-up and queue leave out no event a stream was told of      *)
(* (serve, sse.rs:58-104).                                                 *)
THEOREM StreamsSkipOnlyTheUnheard == ServerSpec => []OnlyUnheardEventsAreSkipped
  <1>1. ServerIInv => OnlyUnheardEventsAreSkipped  BY DEF ServerIInv, StreamInv
  <1>2. QED  BY <1>1, ServerInvariance, PTL
===============================================================================
