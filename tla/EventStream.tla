------------------------------ MODULE EventStream ------------------------------
(***************************************************************************)
(* GET /api/stream: one connection's feed of journal events.               *)
(*                                                                         *)
(* A stream notes the workspace's newest event, greets, replays from the   *)
(* client's cursor, and only then subscribes.  From there it writes what   *)
(* the subscription delivers; when that has been silent for the keep-alive *)
(* interval it looks in the store for events after the last it wrote.      *)
(* The subscription is lossy: a full queue drops.  Time is abstracted: the *)
(* interval may end whenever the queue is empty.                           *)
(***************************************************************************)
EXTENDS Integers, Sequences, FiniteSets

CONSTANTS
  Conns,     \* connections; each carries at most one stream
  PageSize,  \* events a query of the store returns
  QueueCap,  \* notifications a subscription holds
  NoCursor,      \* no cursor
  MaxHead    \* bound: events committed to the store

ASSUME ConnsAssumption == IsFiniteSet(Conns)
ASSUME PageSizeAssumption == PageSize \in Nat \ {0}
ASSUME QueueAssumption == QueueCap \in Nat \ {0}
ASSUME HeadAssumption == MaxHead \in Nat
ASSUME CursorAssumption == NoCursor \notin Nat

VARIABLES
  shutdown,  \* the flag every worker polls
  head,      \* sequence of the newest event in the store
  visible,   \* sequences of the events in the workspace's scope
  stage,     \* of a connection's stream
  since,     \* where the stream begins: the cursor or the newest event
  last,      \* last_sequence
  queue,     \* notifications delivered and not received
  sent,      \* ids written to the client
  unheard    \* history: events no notification announced to this stream

eventStore == <<head, visible>>
feed == <<stage, since, last, queue, sent, unheard>>
streamVars == <<eventStore, feed>>

Stages == {"closed", "hello", "resume", "replay", "subscribe", "live", "catchup"}
Subscribed == {"live", "catchup"}

Sequences == 1..MaxHead

StreamTypeOK ==
  /\ shutdown \in BOOLEAN
  /\ head \in 0..MaxHead
  /\ visible \in SUBSET (1..head)
  /\ stage \in [Conns -> Stages]
  /\ since \in [Conns -> 0..MaxHead]
  /\ last \in [Conns -> 0..MaxHead]
  /\ queue \in [Conns -> Seq(Sequences)]
  /\ \A c \in Conns : Len(queue[c]) <= QueueCap
  /\ sent \in [Conns -> SUBSET Sequences]
  /\ unheard \in [Conns -> SUBSET Sequences]

StreamInit ==
  /\ head = 0
  /\ visible = {}
  /\ stage = [c \in Conns |-> "closed"]
  /\ since = [c \in Conns |-> 0]
  /\ last = [c \in Conns |-> 0]
  /\ queue = [c \in Conns |-> <<>>]
  /\ sent = [c \in Conns |-> {}]
  /\ unheard = [c \in Conns |-> {}]

-----------------------------------------------------------------------------
(* The store *)

After(n) == {e \in visible : e > n}

Newest == IF visible = {} THEN 0 ELSE CHOOSE e \in visible : After(e) = {}

(* query_entries_after: the next events, oldest first *)
PageAfter(n) == {e \in After(n) : Cardinality(After(n) \ After(e)) <= PageSize}

Hears(c) == stage[c] \in Subscribed /\ Len(queue[c]) < QueueCap

(* Another request commits an event, of this workspace or of another. *)
CommitEvent ==
  /\ head < MaxHead
  /\ head' = head + 1
  /\ \/ UNCHANGED <<visible, queue, unheard>>
     \/ /\ visible' = visible \cup {head'}
        /\ queue' = [c \in Conns |-> IF Hears(c) THEN Append(queue[c], head') ELSE queue[c]]
        /\ unheard' = [c \in Conns |->
                         IF stage[c] \in Subscribed /\ ~Hears(c)
                         THEN unheard[c] \cup {head'} ELSE unheard[c]]
  /\ UNCHANGED <<shutdown, stage, since, last, sent>>

-----------------------------------------------------------------------------
(* A stream *)

Cursors == {NoCursor} \cup 0..(MaxHead + 1)

(* A cursor ahead of the newest event is no cursor. *)
Resumes(cursor) == cursor # NoCursor /\ cursor <= Newest

Open(c, cursor) ==
  LET start == IF Resumes(cursor) THEN cursor ELSE Newest
  IN /\ stage' = [stage EXCEPT ![c] = IF Resumes(cursor) THEN "resume" ELSE "hello"]
     /\ since' = [since EXCEPT ![c] = start]
     /\ last' = [last EXCEPT ![c] = start]
     /\ unheard' = [unheard EXCEPT ![c] = {}]
     /\ UNCHANGED <<shutdown, eventStore, queue, sent>>

(* The hello signal; only a client that gave a cursor is replayed to.      *)
Greet(c) ==
  /\ stage[c] \in {"hello", "resume"}
  /\ stage' = [stage EXCEPT ![c] = IF @ = "resume" THEN "replay" ELSE "subscribe"]
  /\ UNCHANGED <<shutdown, eventStore, since, last, queue, sent, unheard>>

(* Mutation: the cursor is taken for the first event still wanted, twice. *)
PageSkipping(n) == PageAfter(n + 1)

NextPage(n) == PageAfter(n)

(* A page is written event by event; a failed write leaves a part of it    *)
(* sent (see Cut).                                                         *)
WritePage(c) ==
  LET page == NextPage(last[c])
  IN /\ stage[c] \in {"replay", "catchup"}
     /\ page # {}
     /\ sent' = [sent EXCEPT ![c] = @ \cup page]
     /\ last' = [last EXCEPT ![c] = CHOOSE e \in page : page \cap After(e) = {}]
     /\ UNCHANGED <<shutdown, eventStore, stage, since, queue, unheard>>

EndOfPages(c) ==
  /\ stage[c] \in {"replay", "catchup"}
  /\ NextPage(last[c]) = {}
  /\ stage' = [stage EXCEPT ![c] = IF @ = "replay" THEN "subscribe" ELSE "live"]
  /\ UNCHANGED <<shutdown, eventStore, since, last, queue, sent, unheard>>

(* What was committed since the last look at the store is not announced. *)
Subscribe(c) ==
  /\ stage[c] = "subscribe"
  /\ stage' = [stage EXCEPT ![c] = "live"]
  /\ unheard' = [unheard EXCEPT ![c] = After(last[c])]
  /\ UNCHANGED <<shutdown, eventStore, since, last, queue, sent>>

Receive(c) ==
  LET n == Head(queue[c])
  IN /\ stage[c] = "live"
     /\ queue[c] # <<>>
     /\ queue' = [queue EXCEPT ![c] = Tail(@)]
     /\ last' = [last EXCEPT ![c] = IF n > @ THEN n ELSE @]
     /\ sent' = [sent EXCEPT ![c] = @ \cup {n}]
     /\ UNCHANGED <<shutdown, eventStore, stage, since, unheard>>

(* Mutation: a silent stream gets its keep-alive comment and no more. *)
OnlyKeepAlive(c) ==
  /\ stage[c] = "live" /\ queue[c] = <<>>
  /\ UNCHANGED <<shutdown, eventStore, feed>>

(* The interval ends with no notification; the shutdown flag was clear.    *)
KeepAlive(c) ==
  /\ stage[c] = "live"
  /\ queue[c] = <<>>
  /\ ~shutdown
  /\ stage' = [stage EXCEPT ![c] = "catchup"]
  /\ UNCHANGED <<shutdown, eventStore, since, last, queue, sent, unheard>>

StreamStep(c) ==
  \/ Greet(c)
  \/ WritePage(c)
  \/ EndOfPages(c)
  \/ Subscribe(c)
  \/ Receive(c)
  \/ KeepAlive(c)

(* Mutation: the loop never looks at the flag. *)
NeverPolls(c) == FALSE

(* The loop polls the flag between two notifications. *)
SeesShutdown(c) == stage[c] = "live" /\ shutdown

Close(c) ==
  /\ stage' = [stage EXCEPT ![c] = "closed"]
  /\ queue' = [queue EXCEPT ![c] = <<>>]
  /\ UNCHANGED <<shutdown, eventStore, since, last, sent, unheard>>

(* A write fails: the client is gone.  What of a page was written before   *)
(* it is of no account to this stream any more.                            *)
Cut(c) == stage[c] # "closed" /\ Close(c)

-----------------------------------------------------------------------------
(* Properties *)

Streaming(c) == stage[c] # "closed"

(* A stream passes over an event only if no notification announced it: the *)
(* event was committed after the stream last looked at the store and       *)
(* before it subscribed, or found the queue full.  So every event of a     *)
(* replay, of a catch-up and of the queue reaches the client               *)
(* (sse.rs:58-104).                                                        *)
OnlyUnheardEventsAreSkipped ==
  \A c \in Conns : Streaming(c) =>
    {e \in visible : since[c] < e /\ e <= last[c]} \subseteq sent[c] \cup unheard[c]

(* The newest event reaches every stream that stays open, even when its    *)
(* notification was dropped or came before the subscription: the keep-     *)
(* alive tick looks for it (sse.rs:94).                                    *)
NewestIsSent ==
  \A c \in Conns, e \in Sequences :
    (Streaming(c) /\ e = Newest /\ since[c] < e)
      ~> (e \in sent[c] \/ ~Streaming(c) \/ e # Newest)

================================================================================
