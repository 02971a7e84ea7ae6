------------------------------ MODULE SessionLane ------------------------------
(***************************************************************************)
(* Agent sessions: the turns of one session in a lane of the journal, and  *)
(* the transcript file a session-end ingests.                              *)
(*                                                                         *)
(* There is no session state in memory.  A chat counts the lane to number  *)
(* its user turn, appends it, asks the model, counts again and appends the *)
(* answer; a turn's idempotency key is its number.  A session-end renders  *)
(* the lane to a file, which it truncates and then writes, plans a source  *)
(* from what the file holds by then, and records it.  Server threads       *)
(* interleave between all of these.  A source's claims are ClaimLedger's   *)
(* subject: here a body is observed as a whole.                            *)
(***************************************************************************)
EXTENDS Naturals, Sequences, FiniteSets

CONSTANTS
  Threads,   \* server threads serving this session
  Messages,  \* what users say, each in one chat
  NoFile,      \* no file
  MaxFaults  \* bound: failed appends, failed model calls, crashes

ASSUME FaultAssumption == MaxFaults \in Nat
ASSUME NoFileAssumption == NoFile \notin Seq(Messages)

VARIABLES
  lane,        \* turns of the session's lane, in store order
  transcript,  \* what sessions/<id>.md holds: the user lines, or NoFile
  observed,    \* bodies recorded as sources
  op,          \* of a thread: the operation in flight
  spoken,        \* messages sent by clients
  answered,    \* history: chats that returned a reply, and whether they met another
  ended,       \* history: session-ends that reported success: the turns each rendered
  faults       \* history: failures and crashes

laneVars == <<lane, transcript, observed, op, spoken, answered, ended, faults>>

Speakers == {"user", "assistant"}

(* An assistant's text is named by the message it answers. *)
Turns == [no : Nat \ {0}, speaker : Speakers, text : Messages]

Bodies == Seq(Messages)

Steps ==
  {"idle", "numbered", "asking", "replied", "numberedReply",
   "rendered", "truncated", "written", "viewed", "planned"}

(* no: the number read; turns: what was read of the lane; seen: the bodies *)
(* observed in the view; body: what was read of the file; met: another     *)
(* request of the same kind was in flight meanwhile.                       *)
Ops ==
  [step : Steps, text : Messages \cup {NoFile}, no : Nat, turns : Seq(Turns),
   seen : SUBSET Bodies, body : Bodies, met : BOOLEAN]

Idle ==
  [step |-> "idle", text |-> NoFile, no |-> 0, turns |-> <<>>, seen |-> {}, body |-> <<>>,
   met |-> FALSE]

LaneTypeOK ==
  /\ lane \in Seq(Turns)
  /\ transcript \in Bodies \cup {NoFile}
  /\ \A b \in observed : b \in Bodies
  /\ DOMAIN op = Threads
  /\ \A t \in Threads :
       /\ DOMAIN op[t] = DOMAIN Idle
       /\ op[t].step \in Steps
       /\ op[t].turns \in Seq(Turns)
       /\ op[t].body \in Bodies
       /\ op[t].no \in 0..(Len(lane) + 1)
  /\ spoken \in SUBSET Messages
  /\ answered \in SUBSET [text : Messages, met : BOOLEAN]
  /\ faults \in 0..MaxFaults

LaneInit ==
  /\ lane = <<>>
  /\ transcript = NoFile
  /\ observed = {}
  /\ op = [t \in Threads |-> Idle]
  /\ spoken = {}
  /\ answered = {}
  /\ ended = {}
  /\ faults = 0

-----------------------------------------------------------------------------
(* The lane *)

Keyed(no) == \E i \in 1..Len(lane) : lane[i].no = no

(* A number that is taken: the receipt of the turn that has it is returned *)
(* and nothing is appended.                                                *)
AppendTurn(no, speaker, text) ==
  lane' = IF Keyed(no) THEN lane
          ELSE Append(lane, [no |-> no, speaker |-> speaker, text |-> text])

(* Mutation: only the user's turns are counted. *)
NextNoOfUser ==
  1 + Cardinality({i \in 1..Len(lane) : lane[i].speaker = "user"})

NextNo == Len(lane) + 1

(* render_transcript without assistant lines *)
Rendered(turns) ==
  LET lines[i \in 0..Len(turns)] ==
        IF i = 0 THEN <<>>
        ELSE IF turns[i].speaker = "user" THEN Append(lines[i - 1], turns[i].text)
        ELSE lines[i - 1]
  IN lines[Len(turns)]

(* Mutation: the file is opened for appending. *)
AppendedTo(file, body) == file \o body

(* A write starts at the file's first byte: what another session-end wrote *)
(* beyond it since the file was opened empty stays.                        *)
WrittenOver(file, body) == body \o SubSeq(file, Len(body) + 1, Len(file))

-----------------------------------------------------------------------------
(* Requests *)

Chatting(t) == op[t].step \in {"numbered", "asking", "replied", "numberedReply"}
Ending(t) == op[t].step \in {"rendered", "truncated", "written", "viewed", "planned"}

(* Starting an operation marks those of its kind it meets. *)
Meeting(t, next, InFlight(_)) ==
  [u \in Threads |->
     IF u = t THEN [next EXCEPT !.met = \E v \in Threads \ {t} : InFlight(v)]
     ELSE IF InFlight(u) THEN [op[u] EXCEPT !.met = TRUE]
     ELSE op[u]]

Become(t, next) == op' = [op EXCEPT ![t] = next]

Chat(t, m) ==
  /\ op[t].step = "idle"
  /\ m \notin spoken
  /\ spoken' = spoken \cup {m}
  /\ op' = Meeting(t, [Idle EXCEPT !.step = "numbered", !.text = m, !.no = NextNo], Chatting)
  /\ UNCHANGED <<lane, transcript, observed, answered, ended, faults>>

AppendUserTurn(t) ==
  /\ op[t].step = "numbered"
  /\ AppendTurn(op[t].no, "user", op[t].text)
  /\ Become(t, [op[t] EXCEPT !.step = "asking"])
  /\ UNCHANGED <<transcript, observed, spoken, answered, ended, faults>>

(* The model answers from the memory view and the session's turns. *)
Ask(t) ==
  /\ op[t].step = "asking"
  /\ Become(t, [op[t] EXCEPT !.step = "replied", !.no = 0])
  /\ UNCHANGED <<lane, transcript, observed, spoken, answered, ended, faults>>

NumberReply(t) ==
  /\ op[t].step = "replied"
  /\ Become(t, [op[t] EXCEPT !.step = "numberedReply", !.no = NextNo])
  /\ UNCHANGED <<lane, transcript, observed, spoken, answered, ended, faults>>

AppendReply(t) ==
  /\ op[t].step = "numberedReply"
  /\ AppendTurn(op[t].no, "assistant", op[t].text)
  /\ answered' = answered \cup {[text |-> op[t].text, met |-> op[t].met]}
  /\ Become(t, Idle)
  /\ UNCHANGED <<transcript, observed, spoken, ended, faults>>

(* An empty lane is an unknown session. *)
SessionEnd(t) ==
  /\ op[t].step = "idle"
  /\ lane # <<>>
  /\ op' = Meeting(t, [Idle EXCEPT !.step = "rendered", !.turns = lane], Ending)
  /\ UNCHANGED <<lane, transcript, observed, spoken, answered, ended, faults>>

(* std::fs::write opens the file empty, then writes it. *)
Truncate(t) ==
  /\ op[t].step = "rendered"
  /\ transcript' = <<>>
  /\ Become(t, [op[t] EXCEPT !.step = "truncated"])
  /\ UNCHANGED <<lane, observed, spoken, answered, ended, faults>>

WriteTranscript(t) ==
  /\ op[t].step = "truncated"
  /\ transcript' = WrittenOver(transcript, Rendered(op[t].turns))
  /\ Become(t, [op[t] EXCEPT !.step = "written"])
  /\ UNCHANGED <<lane, observed, spoken, answered, ended, faults>>

View(t) ==
  /\ op[t].step = "written"
  /\ Become(t, [op[t] EXCEPT !.step = "viewed", !.seen = observed])
  /\ UNCHANGED <<lane, transcript, observed, spoken, answered, ended, faults>>

(* plan_sources reads the file back, whoever wrote it last. *)
Plan(t) ==
  /\ op[t].step = "viewed"
  /\ Become(t, [op[t] EXCEPT !.step = "planned", !.body = transcript])
  /\ UNCHANGED <<lane, transcript, observed, spoken, answered, ended, faults>>

(* Mutation: a session whose transcript was ingested once is not again. *)
RecordedOnce(t) == IF op[t].seen # {} THEN observed ELSE observed \cup {op[t].body}

(* A body the view holds is skipped; its key makes a repeat no event. *)
WithBody(t) == IF op[t].body \in op[t].seen THEN observed ELSE observed \cup {op[t].body}

Ingest(t) ==
  /\ op[t].step = "planned"
  /\ observed' = WithBody(t)
  /\ ended' = ended \cup {[body |-> Rendered(op[t].turns), met |-> op[t].met]}
  /\ Become(t, Idle)
  /\ UNCHANGED <<lane, transcript, spoken, answered, faults>>

(* An append, the model or a file operation fails; the answer is an error. *)
Fail(t) ==
  /\ op[t].step # "idle"
  /\ faults < MaxFaults
  /\ faults' = faults + 1
  /\ Become(t, Idle)
  /\ UNCHANGED <<lane, transcript, observed, spoken, answered, ended>>

(* The server stops; turns and files remain. *)
Crash ==
  /\ faults < MaxFaults
  /\ faults' = faults + 1
  /\ op' = [t \in Threads |-> Idle]
  /\ UNCHANGED <<lane, transcript, observed, spoken, answered, ended>>

ChatStep(t) == AppendUserTurn(t) \/ Ask(t) \/ NumberReply(t) \/ AppendReply(t)

EndStep(t) == Truncate(t) \/ WriteTranscript(t) \/ View(t) \/ Plan(t) \/ Ingest(t)

LaneNext ==
  \/ \E t \in Threads :
       \/ \E m \in Messages : Chat(t, m)
       \/ ChatStep(t)
       \/ SessionEnd(t)
       \/ EndStep(t)
       \/ Fail(t)
  \/ Crash

(* Threads run; a client whose session-end failed, or that said more, ends *)
(* the session again.                                                      *)
Fairness ==
  /\ \A t \in Threads : WF_laneVars(ChatStep(t) \/ EndStep(t))
  /\ WF_laneVars(/\ \A u \in Threads : ~Ending(u)
             /\ \E t \in Threads : SessionEnd(t))

LaneSpec == LaneInit /\ [][LaneNext]_laneVars /\ Fairness

-----------------------------------------------------------------------------
(* Properties *)

(* Whatever chats interleave, the n-th turn of the lane is numbered n: a   *)
(* number read from the lane's length is taken once (agent.rs:649-663,     *)
(* policy.rs:394).                                                         *)
TurnsAreNumbered == \A i \in 1..Len(lane) : lane[i].no = i

PrefixOf(s, r) == Len(s) <= Len(r) /\ \A i \in 1..Len(s) : s[i] = r[i]

(* An answered chat is in the lane, its reply right after its message,     *)
(* unless another chat of the session was in flight with it, whatever      *)
(* failed or crashed before and since (agent.rs:640, INVARIANTS.md:16).    *)
TurnsAreKeptUnlessChatsMeet ==
  \A a \in answered :
    a.met \/ \E i \in 1..(Len(lane) - 1) :
               /\ lane[i].speaker = "user" /\ lane[i].text = a.text
               /\ lane[i + 1].speaker = "assistant" /\ lane[i + 1].text = a.text

(* What is ingested is what users said, in order and from the start, up to *)
(* some turn: no session-end ingests a mixture of two transcripts or an    *)
(* assistant's words (agent.rs:149, 390).                                  *)
IngestedIsTranscript == \A b \in observed : PrefixOf(b, Rendered(lane))

(* A session-end that reports success has ingested all the turns it read,  *)
(* unless another session-end wrote the same file meanwhile                *)
(* (agent.rs:334-390).                                                     *)
EndedIsIngestedUnlessEndsMeet ==
  \A e \in ended : e.met \/ e.body \in observed

(* What holds between the lane, the transcript file and the ingested       *)
(* transcripts in every state.                                             *)
SessionInv ==
  LaneTypeOK /\ TurnsAreNumbered /\ IngestedIsTranscript /\ EndedIsIngestedUnlessEndsMeet

(* A session that is ended again and again, one call at a time, is         *)
(* ingested to its last turn, whatever failed and crashed before           *)
(* (agent.rs:11: a failed session-end may be retried).                     *)
SessionIsIngested ==
  <>[](\A t, u \in Threads : Ending(t) /\ Ending(u) => t = u)
    => <>[](lane # <<>> => Rendered(lane) \in observed)
================================================================================
