------------------------------- MODULE HttpServer -------------------------------
(***************************************************************************)
(* The blocking HTTP server: an accept loop, a thread per connection, two  *)
(* pools of permits, a shutdown flag.                                      *)
(*                                                                         *)
(* A worker parses its request before it takes a permit, answers under it, *)
(* and gives it back when its function returns or unwinds.  The loop stops *)
(* accepting once the flag is set and joins every worker.  What a route    *)
(* does to the journal is the subject of the other modules; a stream's     *)
(* life is EventStream's.                                                  *)
(***************************************************************************)
EXTENDS EventStream

CONSTANTS
  RequestPermits,  \* REQUEST_PERMITS
  SsePermits,      \* SSE_PERMITS
  MaxFaults        \* bound: failed accepts

ASSUME PermitAssumption == RequestPermits \in Nat \ {0} /\ SsePermits \in Nat \ {0}
ASSUME FaultAssumption == MaxFaults \in Nat

VARIABLES
  loop,        \* the accept loop
  at,          \* of a connection: where its worker is
  requestFree, \* permits in the request pool
  sseFree,     \* permits in the stream pool
  counted,     \* ServeStats
  turnedAway,  \* history: connections that left at shutdown, uncounted
  faults,      \* history: failed accepts
  late         \* history: connections accepted with the flag set

pools == <<requestFree, sseFree>>
serverVars == <<loop, at, pools, counted, turnedAway, faults, late>>
httpVars == <<shutdown, streamVars, serverVars>>

LoopStates == {"checking", "accepting", "joining", "returned", "failed", "killed"}
Places ==
  {"new", "parsing", "rejecting", "checkRequest", "waitRequest", "routing", "replying",
   "checkStream", "waitStream", "streaming", "done"}
Counters == {"accepted", "served", "failed", "rejected", "panicked"}

Holding(kind) ==
  {c \in Conns : at[c] \in (IF kind = "request" THEN {"routing", "replying"} ELSE {"streaming"})}

ServerTypeOK ==
  /\ StreamTypeOK
  /\ loop \in LoopStates
  /\ at \in [Conns -> Places]
  /\ requestFree \in 0..RequestPermits
  /\ sseFree \in 0..SsePermits
  /\ counted \in [Counters -> Nat]
  /\ turnedAway \in SUBSET Conns
  /\ faults \in 0..MaxFaults
  /\ late \in SUBSET Conns
  /\ \A c \in Conns : Streaming(c) => at[c] = "streaming"

ServerInit ==
  /\ StreamInit
  /\ shutdown = FALSE
  /\ loop = "checking"
  /\ at = [c \in Conns |-> "new"]
  /\ requestFree = RequestPermits
  /\ sseFree = SsePermits
  /\ counted = [k \in Counters |-> 0]
  /\ turnedAway = {}
  /\ faults = 0
  /\ late = {}

Alive == loop # "killed"

Count(k) == counted' = [counted EXCEPT ![k] = @ + 1]

-----------------------------------------------------------------------------
(* The accept loop *)

CheckFlag ==
  /\ loop = "checking"
  /\ loop' = IF shutdown THEN "joining" ELSE "accepting"
  /\ UNCHANGED <<shutdown, streamVars, at, pools, counted, turnedAway, faults, late>>

Accept(c) ==
  /\ loop = "accepting"
  /\ at[c] = "new"
  /\ at' = [at EXCEPT ![c] = "parsing"]
  /\ Count("accepted")
  /\ late' = IF shutdown THEN late \cup {c} ELSE late
  /\ loop' = "checking"
  /\ UNCHANGED <<shutdown, streamVars, pools, turnedAway, faults>>

(* The thread does not start: the loop returns at once, joining nobody, and *)
(* the connection is dropped.                                              *)
SpawnFails(c) ==
  /\ loop = "accepting"
  /\ at[c] = "new"
  /\ at' = [at EXCEPT ![c] = "done"]
  /\ Count("accepted")
  /\ loop' = "failed"
  /\ UNCHANGED <<shutdown, streamVars, pools, turnedAway, faults, late>>

NothingToAccept ==
  /\ loop = "accepting"
  /\ loop' = "checking"
  /\ UNCHANGED <<shutdown, streamVars, at, pools, counted, turnedAway, faults, late>>

AcceptFails ==
  /\ loop = "accepting"
  /\ faults < MaxFaults
  /\ faults' = faults + 1
  /\ Count("failed")
  /\ loop' = "checking"
  /\ UNCHANGED <<shutdown, streamVars, at, pools, turnedAway, late>>

(* Every handle is joined, those of finished workers pruned on the way. *)
AllJoined == \A c \in Conns : at[c] \in {"new", "done"}

Return ==
  /\ loop = "joining"
  /\ AllJoined
  /\ loop' = "returned"
  /\ UNCHANGED <<shutdown, streamVars, at, pools, counted, turnedAway, faults, late>>

(* A first signal, or ShutdownHandle::shutdown. *)
Shutdown ==
  /\ ~shutdown
  /\ shutdown' = TRUE
  /\ UNCHANGED <<streamVars, serverVars>>

(* A second signal gets the default action: the process ends, and with it  *)
(* every connection.                                                       *)
SecondSignal ==
  /\ shutdown
  /\ loop \in {"checking", "accepting", "joining"}
  /\ loop' = "killed"
  /\ stage' = [c \in Conns |-> "closed"]
  /\ queue' = [c \in Conns |-> <<>>]
  /\ UNCHANGED <<shutdown, eventStore, since, last, sent, unheard>>
  /\ UNCHANGED <<at, pools, counted, turnedAway, faults, late>>

-----------------------------------------------------------------------------
(* A worker *)

Go(c, place) == at' = [at EXCEPT ![c] = place]

(* GET /api/stream goes to the stream pool, any other request to its own. *)
Parsed(c) ==
  /\ at[c] = "parsing"
  /\ \E place \in {"checkRequest", "checkStream"} : Go(c, place)
  /\ UNCHANGED <<shutdown, streamVars, loop, pools, counted, turnedAway, faults, late>>

(* A malformed or oversized request is counted, then answered. *)
Rejected(c) ==
  /\ at[c] = "parsing"
  /\ Go(c, "rejecting")
  /\ Count("rejected")
  /\ UNCHANGED <<shutdown, streamVars, loop, pools, turnedAway, faults, late>>

(* The client goes away before it has sent its request. *)
ReadFails(c) ==
  /\ at[c] = "parsing"
  /\ Go(c, "done")
  /\ Count("failed")
  /\ UNCHANGED <<shutdown, streamVars, loop, pools, turnedAway, faults, late>>

(* acquire looks at the flag before each wait for a permit. *)
CheckPool(c) ==
  /\ at[c] \in {"checkRequest", "checkStream"}
  /\ IF shutdown
     THEN Go(c, "done") /\ turnedAway' = turnedAway \cup {c}
     ELSE /\ Go(c, IF at[c] = "checkRequest" THEN "waitRequest" ELSE "waitStream")
          /\ UNCHANGED turnedAway
  /\ UNCHANGED <<shutdown, streamVars, loop, pools, counted, faults, late>>

WaitTimesOut(c) ==
  /\ at[c] \in {"waitRequest", "waitStream"}
  /\ Go(c, IF at[c] = "waitRequest" THEN "checkRequest" ELSE "checkStream")
  /\ UNCHANGED <<shutdown, streamVars, loop, pools, counted, turnedAway, faults, late>>

TakeRequestPermit(c) ==
  /\ at[c] = "waitRequest"
  /\ requestFree > 0
  /\ requestFree' = requestFree - 1
  /\ Go(c, "routing")
  /\ UNCHANGED <<shutdown, streamVars, loop, sseFree, counted, turnedAway, faults, late>>

(* The answer is counted before it is written, whether or not it arrives. *)
Routed(c) ==
  /\ at[c] = "routing"
  /\ Go(c, "replying")
  /\ \E k \in {"served", "failed"} : Count(k)
  /\ UNCHANGED <<shutdown, streamVars, loop, pools, turnedAway, faults, late>>

Replied(c) ==
  /\ at[c] = "replying"
  /\ Go(c, "done")
  /\ requestFree' = requestFree + 1
  /\ UNCHANGED <<shutdown, streamVars, loop, sseFree, counted, turnedAway, faults, late>>

RejectionReplied(c) ==
  /\ at[c] = "rejecting"
  /\ Go(c, "done")
  /\ UNCHANGED <<shutdown, streamVars, loop, pools, counted, turnedAway, faults, late>>

TakeStreamPermit(c) ==
  /\ at[c] = "waitStream"
  /\ sseFree > 0
  /\ sseFree' = sseFree - 1
  /\ Go(c, "streaming")
  /\ \E cursor \in Cursors : Open(c, cursor)
  /\ UNCHANGED <<loop, requestFree, counted, turnedAway, faults, late>>

(* The stream's host does not open, or a write to the client fails. *)
StreamFails(c) ==
  /\ at[c] = "streaming"
  /\ Cut(c)
  /\ Go(c, "done")
  /\ sseFree' = sseFree + 1
  /\ Count("failed")
  /\ UNCHANGED <<loop, requestFree, turnedAway, faults, late>>

StreamEnds(c) ==
  /\ at[c] = "streaming"
  /\ SeesShutdown(c)
  /\ Close(c)
  /\ Go(c, "done")
  /\ sseFree' = sseFree + 1
  /\ Count("served")
  /\ UNCHANGED <<loop, requestFree, turnedAway, faults, late>>

StreamMoves(c) ==
  /\ at[c] = "streaming"
  /\ StreamStep(c)
  /\ UNCHANGED serverVars

(* Mutation: a permit goes back at the end of the function only. *)
KeptOnPanic(kind) == UNCHANGED pools

(* ConnectionPermit::drop, which unwinding runs too *)
GivenBackOnPanic(kind) ==
  /\ requestFree' = IF kind = "routing" THEN requestFree + 1 ELSE requestFree
  /\ sseFree' = IF kind = "streaming" THEN sseFree + 1 ELSE sseFree

(* A handler panics; the worker catches it. *)
Panics(c) ==
  /\ at[c] \in {"routing", "streaming"}
  /\ GivenBackOnPanic(at[c])
  /\ Close(c)
  /\ Go(c, "done")
  /\ Count("panicked")
  /\ UNCHANGED <<loop, turnedAway, faults, late>>

-----------------------------------------------------------------------------
Answers(c) ==
  \/ CheckPool(c)
  \/ TakeRequestPermit(c)
  \/ Routed(c)
  \/ Replied(c)
  \/ RejectionReplied(c)
  \/ TakeStreamPermit(c)
  \/ StreamEnds(c)
  \/ StreamMoves(c)

Worker(c) ==
  \/ Answers(c)
  \/ Parsed(c)
  \/ Rejected(c)
  \/ ReadFails(c)
  \/ WaitTimesOut(c)
  \/ StreamFails(c)
  \/ Panics(c)

Loop ==
  \/ CheckFlag
  \/ \E c \in Conns : Accept(c) \/ SpawnFails(c)
  \/ NothingToAccept
  \/ AcceptFails
  \/ Return

ServerNext ==
  \/ Alive /\ (Loop \/ \E c \in Conns : Worker(c))
  \/ Shutdown
  \/ SecondSignal
  \/ Alive /\ CommitEvent /\ UNCHANGED serverVars

(* The operating system runs every thread.  Clients send their request and *)
(* read their answer, or go away: no timeout on a socket forces them.      *)
Fairness ==
  /\ WF_httpVars(CheckFlag)
  /\ WF_httpVars(NothingToAccept)
  /\ WF_httpVars(Return)
  /\ \A c \in Conns :
       /\ WF_httpVars(Alive /\ Answers(c))
       /\ WF_httpVars(Alive /\ (Parsed(c) \/ Rejected(c) \/ ReadFails(c)))
       /\ WF_httpVars(Alive /\ WaitTimesOut(c) /\ shutdown)

ServerSpec == ServerInit /\ [][ServerNext]_httpVars /\ Fairness

-----------------------------------------------------------------------------
(* Properties *)

(* Permits are neither lost nor made: those in a pool and those workers    *)
(* hold add up to its size, also after panics and failed writes, so no     *)
(* more than that many requests and streams are served at once             *)
(* (server.rs:294-335).                                                    *)
PermitsConserved ==
  /\ requestFree + Cardinality(Holding("request")) = RequestPermits
  /\ sseFree + Cardinality(Holding("stream")) = SsePermits

(* When serve_listener returns its statistics, they account for every      *)
(* connection it accepted once: answered, failed, rejected or panicked;    *)
(* only those turned away at shutdown are in no counter (server.rs:206).   *)
StatsAddUp ==
  loop = "returned" =>
    counted["accepted"] + faults =
      counted["served"] + counted["failed"] + counted["rejected"] + counted["panicked"]
        + Cardinality(turnedAway)

(* No worker outlives the listener that returns without an error           *)
(* (server.rs:190).                                                        *)
NoWorkerIsLeft ==
  loop = "returned" => \A c \in Conns : at[c] \in {"new", "done"} /\ ~Streaming(c)

(* The flag closes the door: the connection the loop was about to accept   *)
(* when it was set is the only one accepted after it (server.rs:149).      *)
AtMostOneLate == Cardinality(late) <= 1

(* What holds between the listener, its workers, the two pools and the     *)
(* counters in every state.                                                *)
ServerInv ==
  ServerTypeOK /\ PermitsConserved /\ StatsAddUp /\ NoWorkerIsLeft /\ AtMostOneLate

(* A server told to stop stops, whatever its streams, its waiting requests *)
(* and its permits are doing, if clients send what they began to send      *)
(* (server.rs:149-193, 320; sse.rs:70).                                    *)
ShutdownCompletes == shutdown ~> loop \in {"returned", "failed", "killed"}
================================================================================
