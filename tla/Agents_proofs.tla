---------------------------- MODULE Agents_proofs -----------------------------
(*****************************************************************************)
(* What agents may rely on, for any threads, messages, claims, code, orders, *)
(* page size and journals: in the first part of their sessions               *)
(* (SessionLane), in the second of what they read at a snapshot              *)
(* (SnapshotReads).                                                          *)
(*****************************************************************************)
EXTENDS SessionLane, SnapshotReads, FiniteSetTheorems, SequenceTheorems,
        WellFoundedInduction, TLAPS


-----------------------------------------------------------------------------
(* The invariant of the chats *)

Fields == {"step", "text", "no", "turns", "seen", "body", "met"}

(* A chat in flight has a message, and a number it read of the lane is one *)
(* that is taken or the next.                                              *)
LaneTyped ==
  /\ lane \in Seq(Turns)
  /\ DOMAIN op = Threads
  /\ \A t \in Threads :
       /\ DOMAIN op[t] = Fields
       /\ op[t].step \in Steps
       /\ Chatting(t) => op[t].text \in Messages
       /\ op[t].step \in {"numbered", "numberedReply"} => op[t].no \in 1..(Len(lane) + 1)

ChatsMeet ==
  \A t, u \in Threads : t # u /\ Chatting(t) /\ Chatting(u) => op[t].met

Alone(t) == Chatting(t) /\ ~op[t].met

(* A chat that met no other finds the lane as it left it: its number is    *)
(* the next, and the last turn is its own.                                 *)
LaneIsAsLeft ==
  \A t \in Threads : Alone(t) =>
    /\ op[t].step \in {"numbered", "numberedReply"} => op[t].no = Len(lane) + 1
    /\ op[t].step # "numbered" =>
         /\ Len(lane) > 0
         /\ lane[Len(lane)].speaker = "user"
         /\ lane[Len(lane)].text = op[t].text

IInv ==
  /\ LaneTyped
  /\ TurnsAreNumbered
  /\ ChatsMeet
  /\ LaneIsAsLeft
  /\ TurnsAreKeptUnlessChatsMeet

-----------------------------------------------------------------------------
(* Steps *)

(* A number that is not taken is the next one; so the lane grows by it or  *)
(* stays.                                                                  *)
LEMMA AppendTurnHolds ==
  ASSUME IInv, NEW no \in 1..(Len(lane) + 1), NEW speaker \in Speakers, NEW text \in Messages,
         AppendTurn(no, speaker, text)
  PROVE  /\ lane' \in Seq(Turns)
         /\ Len(lane') \in {Len(lane), Len(lane) + 1}
         /\ \A i \in 1..Len(lane) : lane'[i] = lane[i]
         /\ no = Len(lane) + 1 =>
              /\ Len(lane') = Len(lane) + 1
              /\ lane'[Len(lane')] = [no |-> no, speaker |-> speaker, text |-> text]
         /\ TurnsAreNumbered'
  <1>1. lane \in Seq(Turns) /\ TurnsAreNumbered  BY DEF IInv, LaneTyped
  <1>2. Len(lane) \in Nat  BY <1>1
  <1>3. [no |-> no, speaker |-> speaker, text |-> text] \in Turns  BY <1>2 DEF Turns
  <1>4. CASE Keyed(no)
    <2>1. lane' = lane  BY <1>4 DEF AppendTurn
    <2>2. no # Len(lane) + 1  BY <1>1, <1>2, <1>4 DEF Keyed, TurnsAreNumbered
    <2>3. QED  BY <1>1, <1>2, <2>1, <2>2 DEF TurnsAreNumbered
  <1>5. CASE ~Keyed(no)
    <2>1. lane' = Append(lane, [no |-> no, speaker |-> speaker, text |-> text])
      BY <1>5 DEF AppendTurn
    <2>2. no = Len(lane) + 1  BY <1>1, <1>2, <1>5 DEF Keyed, TurnsAreNumbered
    <2>3. QED  BY <1>1, <1>2, <1>3, <2>1, <2>2 DEF TurnsAreNumbered
  <1>6. QED  BY <1>4, <1>5

(* Turns once in the lane stay where they are. *)
LEMMA KeptHolds ==
  ASSUME TurnsAreKeptUnlessChatsMeet, lane \in Seq(Turns), lane' \in Seq(Turns),
         Len(lane) <= Len(lane'), \A i \in 1..Len(lane) : lane'[i] = lane[i],
         answered' = answered
  PROVE  TurnsAreKeptUnlessChatsMeet'
  <1> SUFFICES ASSUME NEW a \in answered, ~a.met
               PROVE  \E i \in 1..(Len(lane') - 1) :
                        /\ lane'[i].speaker = "user" /\ lane'[i].text = a.text
                        /\ lane'[i + 1].speaker = "assistant" /\ lane'[i + 1].text = a.text
    BY DEF TurnsAreKeptUnlessChatsMeet
  <1>1. PICK i \in 1..(Len(lane) - 1) :
          /\ lane[i].speaker = "user" /\ lane[i].text = a.text
          /\ lane[i + 1].speaker = "assistant" /\ lane[i + 1].text = a.text
    BY DEF TurnsAreKeptUnlessChatsMeet
  <1>2. Len(lane) \in Nat /\ Len(lane') \in Nat  OBVIOUS
  <1>3. i \in 1..Len(lane) /\ i + 1 \in 1..Len(lane) /\ i \in 1..(Len(lane') - 1)  BY <1>2
  <1>4. QED  BY <1>1, <1>3

LEMMA InitHolds == LaneInit => IInv
  <1> SUFFICES ASSUME LaneInit PROVE IInv  OBVIOUS
  <1>1. LaneTyped  BY DEF LaneInit, LaneTyped, Idle, Steps, Chatting, Fields, Turns
  <1>2. TurnsAreNumbered  BY DEF LaneInit, TurnsAreNumbered
  <1>3. ChatsMeet /\ LaneIsAsLeft  BY DEF LaneInit, ChatsMeet, LaneIsAsLeft, Alone, Chatting, Idle
  <1>4. TurnsAreKeptUnlessChatsMeet  BY DEF LaneInit, TurnsAreKeptUnlessChatsMeet
  <1>5. QED  BY <1>1, <1>2, <1>3, <1>4 DEF IInv

(* A step that leaves the lane alone and starts no chat. *)
LEMMA QuietHolds ==
  ASSUME IInv, UNCHANGED <<lane, answered>>, DOMAIN op' = Threads,
         \A t \in Threads :
           /\ DOMAIN op'[t] = Fields
           /\ op'[t].step \in Steps
           /\ Chatting(t)' =>
                /\ Chatting(t)
                /\ op'[t].text = op[t].text
                /\ op'[t].met = op[t].met
                /\ op'[t].step = "numbered" <=> op[t].step = "numbered"
                /\ op'[t].step = "numbered" => op'[t].no = op[t].no
                /\ op'[t].step = "numberedReply" =>
                     op'[t].no = IF op[t].step = "numberedReply" THEN op[t].no ELSE Len(lane) + 1
  PROVE  IInv'
  <1>1. LaneTyped'
    BY DEF IInv, LaneTyped, Chatting
  <1>2. TurnsAreNumbered'  BY DEF IInv, TurnsAreNumbered
  <1>3. ChatsMeet'  BY DEF IInv, ChatsMeet
  <1>4. LaneIsAsLeft'  BY DEF IInv, LaneIsAsLeft, Alone, Chatting, LaneTyped
  <1>5. TurnsAreKeptUnlessChatsMeet'  BY DEF IInv, TurnsAreKeptUnlessChatsMeet
  <1>6. QED  BY <1>1, <1>2, <1>3, <1>4, <1>5 DEF IInv

LEMMA ChatHolds == ASSUME IInv, NEW t \in Threads, NEW m \in Messages, Chat(t, m) PROVE IInv'
  <1>1. /\ op[t].step = "idle"
        /\ op' = Meeting(t, [Idle EXCEPT !.step = "numbered", !.text = m, !.no = NextNo], Chatting)
        /\ UNCHANGED <<lane, answered>>
    BY DEF Chat
  <1>2. DOMAIN op' = Threads  BY <1>1 DEF Meeting
  <1>3. /\ DOMAIN op'[t] = Fields
        /\ op'[t].step = "numbered"
        /\ op'[t].text = m
        /\ op'[t].no = Len(lane) + 1
        /\ op'[t].met = \E v \in Threads \ {t} : Chatting(v)
    BY <1>1 DEF Meeting, Idle, Fields, NextNo
  <1>4. ASSUME NEW u \in Threads \ {t}
        PROVE  /\ DOMAIN op'[u] = Fields
               /\ op'[u].step = op[u].step
               /\ op'[u].text = op[u].text
               /\ op'[u].no = op[u].no
               /\ op'[u].met = IF Chatting(u) THEN TRUE ELSE op[u].met
    <2>1. op'[u] = IF Chatting(u) THEN [op[u] EXCEPT !.met = TRUE] ELSE op[u]
      BY <1>1 DEF Meeting
    <2>2. DOMAIN op[u] = Fields  BY DEF IInv, LaneTyped
    <2>3. QED  BY <2>1, <2>2 DEF Fields
  <1>5. LaneTyped'
    <2>1. lane' = lane /\ lane \in Seq(Turns) /\ Len(lane) + 1 \in 1..(Len(lane) + 1)
      BY <1>1 DEF IInv, LaneTyped
    <2>2. ASSUME NEW u \in Threads
          PROVE  /\ DOMAIN op'[u] = Fields
                 /\ op'[u].step \in Steps
                 /\ Chatting(u)' => op'[u].text \in Messages
                 /\ op'[u].step \in {"numbered", "numberedReply"} => op'[u].no \in 1..(Len(lane) + 1)
      <3>1. CASE u = t  BY <3>1, <2>1, <1>3 DEF Steps
      <3>2. CASE u # t  BY <3>2, <1>4 DEF IInv, LaneTyped, Chatting
      <3>3. QED  BY <3>1, <3>2
    <2>3. QED  BY <1>2, <2>1, <2>2 DEF LaneTyped
  <1>6. TurnsAreNumbered'  BY <1>1 DEF IInv, TurnsAreNumbered
  <1>7. ChatsMeet'
    <2> SUFFICES ASSUME NEW u \in Threads, NEW v \in Threads, u # v, Chatting(u)', Chatting(v)'
                 PROVE  op'[u].met
      BY DEF ChatsMeet
    <2>1. CASE u = t
      <3>1. Chatting(v)  BY <2>1, <1>4 DEF Chatting
      <3>2. QED  BY <2>1, <3>1, <1>3
    <2>2. CASE u # t  BY <2>2, <1>4 DEF Chatting
    <2>3. QED  BY <2>1, <2>2
  <1>8. LaneIsAsLeft'
    <2> SUFFICES ASSUME NEW u \in Threads, Alone(u)'
                 PROVE  /\ op'[u].step \in {"numbered", "numberedReply"} => op'[u].no = Len(lane') + 1
                        /\ op'[u].step # "numbered" =>
                             /\ Len(lane') > 0
                             /\ lane'[Len(lane')].speaker = "user"
                             /\ lane'[Len(lane')].text = op'[u].text
      BY DEF LaneIsAsLeft
    <2>1. CASE u = t  BY <2>1, <1>1, <1>3
    <2>2. CASE u # t
      <3>1. ~Chatting(u) /\ ~Chatting(u)'  BY <2>2, <1>4 DEF Alone, Chatting
      <3>2. QED  BY <3>1 DEF Alone
    <2>3. QED  BY <2>1, <2>2
  <1>9. TurnsAreKeptUnlessChatsMeet'  BY <1>1 DEF IInv, TurnsAreKeptUnlessChatsMeet
  <1>10. QED  BY <1>5, <1>6, <1>7, <1>8, <1>9 DEF IInv

LEMMA AppendUserTurnHolds == ASSUME IInv, NEW t \in Threads, AppendUserTurn(t) PROVE IInv'
  <1>1. /\ op[t].step = "numbered"
        /\ AppendTurn(op[t].no, "user", op[t].text)
        /\ op' = [op EXCEPT ![t] = [op[t] EXCEPT !.step = "asking"]]
        /\ answered' = answered
    BY DEF AppendUserTurn, Become
  <1>2. Chatting(t) /\ op[t].text \in Messages /\ op[t].no \in 1..(Len(lane) + 1)
    BY <1>1 DEF IInv, LaneTyped, Chatting
  <1>3. /\ lane' \in Seq(Turns)
        /\ Len(lane') \in {Len(lane), Len(lane) + 1}
        /\ \A i \in 1..Len(lane) : lane'[i] = lane[i]
        /\ op[t].no = Len(lane) + 1 =>
             /\ Len(lane') = Len(lane) + 1
             /\ lane'[Len(lane')] = [no |-> op[t].no, speaker |-> "user", text |-> op[t].text]
        /\ TurnsAreNumbered'
    BY <1>1, <1>2, AppendTurnHolds DEF Speakers
  <1>4. DOMAIN op' = Threads /\ DOMAIN op[t] = Fields  BY <1>1 DEF IInv, LaneTyped
  <1>5. /\ DOMAIN op'[t] = Fields
        /\ op'[t].step = "asking"
        /\ op'[t].text = op[t].text
        /\ op'[t].met = op[t].met
        /\ \A u \in Threads \ {t} : op'[u] = op[u]
    BY <1>1, <1>4 DEF Fields, IInv, LaneTyped
  <1>6. lane \in Seq(Turns) /\ Len(lane) \in Nat /\ Len(lane') \in Nat
    BY <1>3 DEF IInv, LaneTyped
  <1>7. LaneTyped'
    BY <1>2, <1>3, <1>4, <1>5, <1>6 DEF IInv, LaneTyped, Chatting, Steps
  <1>8. ChatsMeet'  BY <1>2, <1>5 DEF IInv, ChatsMeet, Chatting
  <1>9. LaneIsAsLeft'
    <2> SUFFICES ASSUME NEW u \in Threads, Alone(u)'
                 PROVE  /\ op'[u].step \in {"numbered", "numberedReply"} => op'[u].no = Len(lane') + 1
                        /\ op'[u].step # "numbered" =>
                             /\ Len(lane') > 0
                             /\ lane'[Len(lane')].speaker = "user"
                             /\ lane'[Len(lane')].text = op'[u].text
      BY DEF LaneIsAsLeft
    <2>1. CASE u = t
      <3>1. Alone(t)  BY <2>1, <1>2, <1>5 DEF Alone
      <3>2. op[t].no = Len(lane) + 1  BY <3>1, <1>1 DEF IInv, LaneIsAsLeft
      <3>3. QED  BY <2>1, <3>2, <1>3, <1>5, <1>6
    <2>2. CASE u # t
      <3>1. Chatting(u) /\ op[u].met  BY <2>2, <1>2, <1>5 DEF IInv, ChatsMeet, Alone, Chatting
      <3>2. QED  BY <3>1, <2>2, <1>5 DEF Alone
    <2>3. QED  BY <2>1, <2>2
  <1>10. TurnsAreKeptUnlessChatsMeet'
    BY <1>1, <1>3, <1>6, KeptHolds DEF IInv
  <1>11. QED  BY <1>3, <1>7, <1>8, <1>9, <1>10 DEF IInv

LEMMA AppendReplyHolds == ASSUME IInv, NEW t \in Threads, AppendReply(t) PROVE IInv'
  <1>1. /\ op[t].step = "numberedReply"
        /\ AppendTurn(op[t].no, "assistant", op[t].text)
        /\ op' = [op EXCEPT ![t] = Idle]
        /\ answered' = answered \cup {[text |-> op[t].text, met |-> op[t].met]}
    BY DEF AppendReply, Become
  <1>2. Chatting(t) /\ op[t].text \in Messages /\ op[t].no \in 1..(Len(lane) + 1)
    BY <1>1 DEF IInv, LaneTyped, Chatting
  <1>3. /\ lane' \in Seq(Turns)
        /\ Len(lane') \in {Len(lane), Len(lane) + 1}
        /\ \A i \in 1..Len(lane) : lane'[i] = lane[i]
        /\ op[t].no = Len(lane) + 1 =>
             /\ Len(lane') = Len(lane) + 1
             /\ lane'[Len(lane')] = [no |-> op[t].no, speaker |-> "assistant", text |-> op[t].text]
        /\ TurnsAreNumbered'
    BY <1>1, <1>2, AppendTurnHolds DEF Speakers
  <1>4. lane \in Seq(Turns) /\ Len(lane) \in Nat /\ Len(lane') \in Nat
    BY <1>3 DEF IInv, LaneTyped
  <1>5. /\ DOMAIN op' = Threads
        /\ op'[t] = Idle
        /\ \A u \in Threads \ {t} : op'[u] = op[u]
    BY <1>1 DEF IInv, LaneTyped
  <1>6. ~Chatting(t)'  BY <1>5 DEF Chatting, Idle
  <1>7. LaneTyped'
    <2>1. DOMAIN op'[t] = Fields /\ op'[t].step = "idle"  BY <1>5 DEF Idle, Fields
    <2>2. QED  BY <1>3, <1>4, <1>5, <2>1 DEF IInv, LaneTyped, Chatting, Steps
  <1>8. ChatsMeet'  BY <1>5, <1>6 DEF IInv, ChatsMeet, Chatting
  <1>9. LaneIsAsLeft'
    <2> SUFFICES ASSUME NEW u \in Threads, Alone(u)' PROVE FALSE  BY DEF LaneIsAsLeft
    <2>1. u # t  BY <1>6 DEF Alone
    <2>2. QED  BY <2>1, <1>2, <1>5 DEF IInv, ChatsMeet, Alone, Chatting
  <1>10. TurnsAreKeptUnlessChatsMeet'
    <2> SUFFICES ASSUME NEW a \in answered', ~a.met
                 PROVE  \E i \in 1..(Len(lane') - 1) :
                          /\ lane'[i].speaker = "user" /\ lane'[i].text = a.text
                          /\ lane'[i + 1].speaker = "assistant" /\ lane'[i + 1].text = a.text
      BY DEF TurnsAreKeptUnlessChatsMeet
    <2>1. CASE a \in answered
      <3>1. PICK i \in 1..(Len(lane) - 1) :
              /\ lane[i].speaker = "user" /\ lane[i].text = a.text
              /\ lane[i + 1].speaker = "assistant" /\ lane[i + 1].text = a.text
        BY <2>1 DEF IInv, TurnsAreKeptUnlessChatsMeet
      <3>2. i \in 1..Len(lane) /\ i + 1 \in 1..Len(lane) /\ i \in 1..(Len(lane') - 1)
        BY <1>3, <1>4
      <3>3. QED  BY <1>3, <3>1, <3>2
    <2>2. CASE a = [text |-> op[t].text, met |-> op[t].met]
      <3>1. Alone(t)  BY <2>2, <1>2 DEF Alone
      <3>2. /\ op[t].no = Len(lane) + 1
            /\ Len(lane) > 0
            /\ lane[Len(lane)].speaker = "user"
            /\ lane[Len(lane)].text = a.text
        BY <3>1, <2>2, <1>1 DEF IInv, LaneIsAsLeft
      <3>3. /\ Len(lane') = Len(lane) + 1
            /\ lane'[Len(lane) + 1].speaker = "assistant"
            /\ lane'[Len(lane) + 1].text = a.text
        BY <3>2, <2>2, <1>3
      <3>4. lane'[Len(lane)] = lane[Len(lane)]  BY <3>2, <1>3, <1>4
      <3>5. Len(lane) \in 1..(Len(lane') - 1)  BY <3>2, <3>3, <1>4
      <3>6. QED  BY <3>2, <3>3, <3>4, <3>5
    <2>3. QED  BY <1>1, <2>1, <2>2
  <1>11. QED  BY <1>3, <1>7, <1>8, <1>9, <1>10 DEF IInv

(* The other steps of a chat. *)
LEMMA AskHolds == ASSUME IInv, NEW t \in Threads, Ask(t) \/ NumberReply(t) PROVE IInv'
  <1>1. DOMAIN op = Threads /\ \A u \in Threads : DOMAIN op[u] = Fields /\ op[u].step \in Steps
    BY DEF IInv, LaneTyped
  <1>2. CASE Ask(t)
    <2>1. /\ op[t].step = "asking"
          /\ op' = [op EXCEPT ![t] = [op[t] EXCEPT !.step = "replied", !.no = 0]]
          /\ UNCHANGED <<lane, answered>>
      BY <1>2 DEF Ask, Become
    <2>2. QED  BY <1>1, <2>1, QuietHolds DEF Chatting, Fields, Steps
  <1>3. CASE NumberReply(t)
    <2>1. /\ op[t].step = "replied"
          /\ op' = [op EXCEPT ![t] = [op[t] EXCEPT !.step = "numberedReply", !.no = Len(lane) + 1]]
          /\ UNCHANGED <<lane, answered>>
      BY <1>3 DEF NumberReply, Become, NextNo
    <2>2. QED  BY <1>1, <2>1, QuietHolds DEF Chatting, Fields, Steps
  <1>4. QED  BY <1>2, <1>3

(* A session-end touches no chat. *)
LEMMA EndHolds == ASSUME IInv, NEW t \in Threads, SessionEnd(t) \/ EndStep(t) PROVE IInv'
  <1>1. DOMAIN op = Threads /\ \A u \in Threads : DOMAIN op[u] = Fields /\ op[u].step \in Steps
    BY DEF IInv, LaneTyped
  <1>2. CASE SessionEnd(t)
    <2>1. /\ op' = Meeting(t, [Idle EXCEPT !.step = "rendered", !.turns = lane], Ending)
          /\ UNCHANGED <<lane, answered>>
      BY <1>2 DEF SessionEnd
    <2>2. DOMAIN op' = Threads /\ DOMAIN op'[t] = Fields /\ op'[t].step = "rendered"
      BY <2>1 DEF Meeting, Idle, Fields
    <2>3. ASSUME NEW u \in Threads \ {t}
          PROVE  DOMAIN op'[u] = Fields /\ (op'[u] = op[u] \/ (~Chatting(u) /\ op'[u].step = op[u].step))
      <3>1. op'[u] = IF Ending(u) THEN [op[u] EXCEPT !.met = TRUE] ELSE op[u]
        BY <2>1 DEF Meeting
      <3>2. QED  BY <1>1, <3>1 DEF Ending, Chatting, Fields
    <2>4. QED  BY <1>1, <2>1, <2>2, <2>3, QuietHolds DEF Chatting, Steps
  <1>3. CASE EndStep(t)
    <2>1. /\ DOMAIN op' = Threads
          /\ DOMAIN op'[t] = Fields
          /\ op'[t].step \in Steps
          /\ op'[t].step \notin {"numbered", "asking", "replied", "numberedReply"}
          /\ \A u \in Threads \ {t} : op'[u] = op[u]
          /\ UNCHANGED <<lane, answered>>
      <3>1. CASE Truncate(t)  BY <1>1, <3>1 DEF Truncate, Become, Fields, Steps
      <3>2. CASE WriteTranscript(t)  BY <1>1, <3>2 DEF WriteTranscript, Become, Fields, Steps
      <3>3. CASE View(t)  BY <1>1, <3>3 DEF View, Become, Fields, Steps
      <3>4. CASE Plan(t)  BY <1>1, <3>4 DEF Plan, Become, Fields, Steps
      <3>5. CASE Ingest(t)  BY <1>1, <3>5 DEF Ingest, Become, Idle, Fields, Steps
      <3>6. QED  BY <1>3, <3>1, <3>2, <3>3, <3>4, <3>5 DEF EndStep
    <2>2. QED  BY <1>1, <2>1, QuietHolds DEF Chatting
  <1>4. QED  BY <1>2, <1>3

(* Failures and crashes drop requests and keep the lane. *)
LEMMA FaultHolds == ASSUME IInv, (\E t \in Threads : Fail(t)) \/ Crash PROVE IInv'
  <1>1. DOMAIN op = Threads /\ \A u \in Threads : DOMAIN op[u] = Fields /\ op[u].step \in Steps
    BY DEF IInv, LaneTyped
  <1>2. DOMAIN Idle = Fields /\ Idle.step = "idle"  BY DEF Idle, Fields
  <1>3. /\ DOMAIN op' = Threads
        /\ \A u \in Threads : op'[u] \in {op[u], Idle}
        /\ UNCHANGED <<lane, answered>>
    BY <1>1 DEF Fail, Crash, Become
  <1>4. QED  BY <1>1, <1>2, <1>3, QuietHolds DEF Chatting, Steps

LEMMA StutterHolds == ASSUME IInv, UNCHANGED laneVars PROVE IInv'
  BY QuietHolds DEF laneVars, IInv, LaneTyped, Chatting

LEMMA NextHolds == IInv /\ [LaneNext]_laneVars => IInv'
  <1> SUFFICES ASSUME IInv, [LaneNext]_laneVars PROVE IInv'  OBVIOUS
  <1>1. ASSUME NEW t \in Threads, NEW m \in Messages, Chat(t, m) PROVE IInv'
    BY <1>1, ChatHolds
  <1>2. ASSUME NEW t \in Threads, ChatStep(t) PROVE IInv'
    BY <1>2, AppendUserTurnHolds, AppendReplyHolds, AskHolds DEF ChatStep
  <1>3. ASSUME NEW t \in Threads, SessionEnd(t) \/ EndStep(t) PROVE IInv'
    BY <1>3, EndHolds
  <1>4. ASSUME (\E t \in Threads : Fail(t)) \/ Crash PROVE IInv'
    BY <1>4, FaultHolds
  <1>5. CASE UNCHANGED laneVars  BY <1>5, StutterHolds
  <1>6. QED  BY <1>1, <1>2, <1>3, <1>4, <1>5 DEF LaneNext

LEMMA Invariance == LaneSpec => []IInv
  <1>1. QED  BY InitHolds, NextHolds, PTL DEF LaneSpec

-----------------------------------------------------------------------------
(* Induction over the naturals, for a set of them                          *)
Below == {p \in Nat \X Nat : p[1] < p[2]}

LEMMA BelowIsWellFounded == IsWellFoundedOn(Below, Nat)
  <1>1. Below = OpToRel(<, Nat)  BY DEF Below, OpToRel
  <1>2. QED  BY <1>1, NatLessThanWellFounded

LEMMA Induction ==
    ASSUME NEW S, 0 \in S, \A n \in Nat : n \in S => n + 1 \in S
    PROVE  Nat \subseteq S
  <1>1. PICK T : T = {n \in Nat : n \notin S}  OBVIOUS
  <1> SUFFICES ASSUME T # {} PROVE FALSE  BY <1>1
  <1>2. T \subseteq Nat  BY <1>1
  <1>3. PICK x \in T : \A y \in T : ~ (<<y, x>> \in Below)
    BY <1>2, BelowIsWellFounded, WFMin
  <1>4. x \in Nat /\ x # 0  BY <1>1, <1>3
  <1>5. x - 1 \in Nat /\ x - 1 < x /\ (x - 1) + 1 = x  BY <1>4
  <1>6. <<x - 1, x>> \in Below  BY <1>4, <1>5 DEF Below
  <1>7. x - 1 \in S  BY <1>1, <1>3, <1>5, <1>6
  <1>8. QED  BY <1>1, <1>3, <1>5, <1>7

-----------------------------------------------------------------------------
(* What is rendered of a lane                                              *)

(* What the recursive function of Rendered is.                             *)
IsRendered(f, n, s) ==
  f = [i \in 0..n |-> IF i = 0 THEN <<>>
                      ELSE IF s[i].speaker = "user" THEN Append(f[i - 1], s[i].text)
                      ELSE f[i - 1]]

LEMMA RenderedIsLonger ==
    ASSUME NEW n \in Nat, NEW s, NEW f, IsRendered(f, n, s),
           NEW g, g = [i \in 0..n + 1 |-> IF i \in 0..n THEN f[i]
                         ELSE IF s[i].speaker = "user" THEN Append(f[n], s[i].text)
                         ELSE f[n]]
    PROVE  IsRendered(g, n + 1, s)
  <1>1. \A i \in 0..n : g[i] = f[i]  OBVIOUS
  <1>2. ASSUME NEW i \in 0..n + 1
        PROVE  g[i] = IF i = 0 THEN <<>>
                      ELSE IF s[i].speaker = "user" THEN Append(g[i - 1], s[i].text)
                      ELSE g[i - 1]
    <2>1. CASE i = 0  BY <2>1 DEF IsRendered
    <2>2. CASE i \in 1..n
      <3>1. i \in 0..n /\ i - 1 \in 0..n /\ i # 0  BY <2>2
      <3>2. g[i] = f[i] /\ g[i - 1] = f[i - 1]  BY <1>1, <3>1
      <3>3. f[i] = IF s[i].speaker = "user" THEN Append(f[i - 1], s[i].text) ELSE f[i - 1]
        BY <3>1 DEF IsRendered
      <3>4. QED  BY <3>1, <3>2, <3>3
    <2>3. CASE i = n + 1
      <3>1. /\ n + 1 - 1 = n /\ n + 1 # 0 /\ n + 1 \notin 0..n
            /\ n \in 0..n /\ n + 1 \in 0..n + 1
        OBVIOUS
      <3>2. g[i] = IF s[i].speaker = "user" THEN Append(f[n], s[i].text) ELSE f[n]
        BY <2>3, <3>1
      <3>3. g[i - 1] = f[n]  BY <1>1, <2>3, <3>1
      <3>4. QED  BY <2>3, <3>1, <3>2, <3>3
    <2>4. QED  BY <2>1, <2>2, <2>3
  <1>3. g = [i \in 0..n + 1 |-> g[i]]  OBVIOUS
  <1>4. QED  BY <1>2, <1>3 DEF IsRendered

LEMMA RenderedExists ==
    ASSUME NEW s \in Seq(Turns)
    PROVE  \E f : IsRendered(f, Len(s), s)
  <1>1. PICK M : M = {n \in Nat : \E f : IsRendered(f, n, s)}  OBVIOUS
  <1>2. 0 \in M
    <2>1. IsRendered([i \in 0..0 |-> <<>>], 0, s)  BY DEF IsRendered
    <2>2. QED  BY <1>1, <2>1
  <1>3. ASSUME NEW n \in Nat, n \in M PROVE n + 1 \in M
    <2>1. PICK f : IsRendered(f, n, s)  BY <1>1, <1>3
    <2>2. PICK g : g = [i \in 0..n + 1 |-> IF i \in 0..n THEN f[i]
                          ELSE IF s[i].speaker = "user" THEN Append(f[n], s[i].text)
                          ELSE f[n]]
      OBVIOUS
    <2>3. IsRendered(g, n + 1, s)  BY <2>1, <2>2, RenderedIsLonger
    <2>4. QED  BY <1>1, <2>3
  <1>4. Nat \subseteq M  BY <1>2, <1>3, Induction
  <1>5. QED  BY <1>1, <1>4

LEMMA RenderedAs ==
    ASSUME NEW s \in Seq(Turns)
    PROVE  \E f : IsRendered(f, Len(s), s) /\ Rendered(s) = f[Len(s)]
  <1> DEFINE k == CHOOSE lines : lines = [i \in 0..Len(s) |->
                    IF i = 0 THEN <<>>
                    ELSE IF s[i].speaker = "user" THEN Append(lines[i - 1], s[i].text)
                    ELSE lines[i - 1]]
  <1>1. \E f : IsRendered(f, Len(s), s)  BY RenderedExists
  <1>2. k = [i \in 0..Len(s) |->
               IF i = 0 THEN <<>>
               ELSE IF s[i].speaker = "user" THEN Append(k[i - 1], s[i].text)
               ELSE k[i - 1]]
    BY <1>1, Zenon DEF IsRendered
  <1>3. Rendered(s) = k[Len(s)]  BY Zenon DEF Rendered
  <1> HIDE DEF k
  <1>4. QED  BY <1>2, <1>3, Zenon DEF IsRendered

LEMMA RenderedAt ==
    ASSUME NEW n \in Nat, NEW s, NEW f, IsRendered(f, n, s)
    PROVE  /\ f[0] = <<>>
           /\ \A i \in 0..n, j \in 0..n : j = i + 1 =>
                f[j] = IF s[j].speaker = "user" THEN Append(f[i], s[j].text) ELSE f[i]
  <1>1. 0 \in 0..n  OBVIOUS
  <1>2. f[0] = <<>>  BY <1>1 DEF IsRendered
  <1>3. ASSUME NEW i \in 0..n, NEW j \in 0..n, j = i + 1
        PROVE  f[j] = IF s[j].speaker = "user" THEN Append(f[i], s[j].text) ELSE f[i]
    <2>1. j # 0 /\ j - 1 = i  BY <1>3
    <2>2. f[j] = IF s[j].speaker = "user" THEN Append(f[j - 1], s[j].text) ELSE f[j - 1]
      BY <2>1 DEF IsRendered
    <2>3. QED  BY <2>1, <2>2
  <1>4. QED  BY <1>2, <1>3

(* Each step of rendering is a text of messages, which the later ones      *)
(* begin with.                                                             *)
LEMMA RenderingGrows ==
    ASSUME NEW n \in Nat, NEW s, NEW f, IsRendered(f, n, s),
           \A i \in 1..n : s[i] \in Turns
    PROVE  \A i \in 0..n : f[i] \in Seq(Messages) /\ \A j \in 0..i : PrefixOf(f[j], f[i])
  <1>1. PICK M : M = {i \in Nat : i <= n => f[i] \in Seq(Messages)
                                             /\ \A j \in 0..i : PrefixOf(f[j], f[i])}
    OBVIOUS
  <1>2. 0 \in M
    <2>1. f[0] = <<>>  BY RenderedAt
    <2>2. PrefixOf(<<>>, <<>>)  BY DEF PrefixOf
    <2>3. \A j \in 0..0 : j = 0  OBVIOUS
    <2>4. <<>> \in Seq(Messages)  OBVIOUS
    <2>5. QED  BY <1>1, <2>1, <2>2, <2>3, <2>4
  <1>3. ASSUME NEW i \in Nat, i \in M PROVE i + 1 \in M
    <2> SUFFICES ASSUME i + 1 <= n
                 PROVE  f[i + 1] \in Seq(Messages) /\ \A j \in 0..i + 1 : PrefixOf(f[j], f[i + 1])
      BY <1>1
    <2>1. PICK m : m = i + 1  OBVIOUS
    <2>2. i \in 0..n /\ m \in 0..n /\ m \in 1..n /\ i <= n  BY <2>1
    <2>3. f[i] \in Seq(Messages) /\ \A j \in 0..i : PrefixOf(f[j], f[i])
      BY <1>1, <1>3, <2>2
    <2>4. s[m].text \in Messages  BY <2>2 DEF Turns
    <2>5. f[m] = IF s[m].speaker = "user" THEN Append(f[i], s[m].text) ELSE f[i]
      BY <2>1, <2>2, RenderedAt
    <2>6. PICK a, b, x : a = f[i] /\ b = f[m] /\ x = s[m].text  OBVIOUS
    <2>7. a \in Seq(Messages) /\ x \in Messages /\ (b = Append(a, x) \/ b = a)
      BY <2>3, <2>4, <2>5, <2>6
    <2>8. b \in Seq(Messages) /\ PrefixOf(a, b) /\ PrefixOf(b, b)  BY <2>7 DEF PrefixOf
    <2>9. ASSUME NEW j \in 0..m PROVE PrefixOf(f[j], b)
      <3>1. CASE j = m  BY <2>6, <2>8, <3>1
      <3>2. CASE j \in 0..i
        <4>1. PICK c : c = f[j]  OBVIOUS
        <4>2. PrefixOf(c, a)  BY <2>3, <2>6, <3>2, <4>1
        <4>3. j \in 0..n /\ j <= i  BY <2>2, <3>2
        <4>4. \A k \in 1..Len(c) : k \in 1..Len(c)  OBVIOUS
        <4>5. PrefixOf(c, b)
          <5>1. Len(c) <= Len(a) /\ \A k \in 1..Len(c) : c[k] = a[k]  BY <4>2 DEF PrefixOf
          <5>2. QED  BY <5>1, <2>7 DEF PrefixOf
        <4>6. QED  BY <4>1, <4>5
      <3>3. QED  BY <2>1, <2>2, <3>1, <3>2
    <2>10. QED  BY <2>1, <2>6, <2>8, <2>9
  <1>4. Nat \subseteq M  BY <1>2, <1>3, Induction
  <1>5. QED  BY <1>1, <1>4

LEMMA RenderedIsText == ASSUME NEW s \in Seq(Turns) PROVE Rendered(s) \in Seq(Messages)
  <1>1. PICK f : IsRendered(f, Len(s), s) /\ Rendered(s) = f[Len(s)]  BY RenderedAs
  <1>2. Len(s) \in Nat /\ Len(s) \in 0..Len(s) /\ \A i \in 1..Len(s) : s[i] \in Turns  OBVIOUS
  <1>3. QED  BY <1>1, <1>2, RenderingGrows

(* Two renderings of the same beginning are the same so far.               *)
LEMMA RenderedAlike ==
    ASSUME NEW n \in Nat, NEW m \in Nat, n <= m, NEW s, NEW r, \A i \in 1..n : s[i] = r[i],
           NEW f, IsRendered(f, n, s), NEW g, IsRendered(g, m, r)
    PROVE  f[n] = g[n]
  <1>1. PICK M : M = {i \in Nat : i <= n => f[i] = g[i]}  OBVIOUS
  <1>2. 0 \in M  BY <1>1, RenderedAt
  <1>3. ASSUME NEW i \in Nat, i \in M PROVE i + 1 \in M
    <2> SUFFICES ASSUME i + 1 <= n PROVE f[i + 1] = g[i + 1]  BY <1>1
    <2>1. PICK j : j = i + 1  OBVIOUS
    <2>2. i \in 0..n /\ j \in 0..n /\ i \in 0..m /\ j \in 0..m /\ j \in 1..n  BY <2>1
    <2>3. f[j] = IF s[j].speaker = "user" THEN Append(f[i], s[j].text) ELSE f[i]
      BY <2>1, <2>2, RenderedAt
    <2>4. g[j] = IF r[j].speaker = "user" THEN Append(g[i], r[j].text) ELSE g[i]
      BY <2>1, <2>2, RenderedAt
    <2>5. f[i] = g[i] /\ s[j] = r[j]  BY <1>1, <1>3, <2>2
    <2>6. QED  BY <2>1, <2>3, <2>4, <2>5
  <1>4. Nat \subseteq M  BY <1>2, <1>3, Induction
  <1>5. QED  BY <1>1, <1>4

(* What was rendered of a lane is a beginning of what is rendered later.   *)
LEMMA RenderedIsPrefix ==
    ASSUME NEW s \in Seq(Turns), NEW r \in Seq(Turns), PrefixOf(s, r)
    PROVE  PrefixOf(Rendered(s), Rendered(r))
  <1>1. PICK f : IsRendered(f, Len(s), s) /\ Rendered(s) = f[Len(s)]  BY RenderedAs
  <1>2. PICK g : IsRendered(g, Len(r), r) /\ Rendered(r) = g[Len(r)]  BY RenderedAs
  <1>3. PICK n, m : n = Len(s) /\ m = Len(r)  OBVIOUS
  <1>4. n \in Nat /\ m \in Nat /\ n <= m /\ \A i \in 1..n : s[i] = r[i]
    <2>1. Len(s) \in Nat /\ Len(r) \in Nat  OBVIOUS
    <2>2. Len(s) <= Len(r) /\ \A i \in 1..Len(s) : s[i] = r[i]  BY DEF PrefixOf
    <2>3. QED  BY <1>3, <2>1, <2>2
  <1>5. f[n] = g[n]
    <2>1. IsRendered(f, n, s) /\ IsRendered(g, m, r)  BY <1>1, <1>2, <1>3
    <2>2. QED  BY <1>4, <2>1, RenderedAlike
  <1>6. m \in 0..m /\ n \in 0..m /\ \A i \in 1..m : r[i] \in Turns  BY <1>3, <1>4
  <1>7. PrefixOf(g[n], g[m])  BY <1>2, <1>3, <1>4, <1>6, RenderingGrows
  <1>8. QED  BY <1>1, <1>2, <1>3, <1>5, <1>7

-----------------------------------------------------------------------------
(* Beginnings of a text                                                    *)
LEMMA PrefixOfPrefix ==
    ASSUME NEW A, NEW a \in Seq(A), NEW b \in Seq(A), NEW c \in Seq(A),
           PrefixOf(a, b), PrefixOf(b, c)
    PROVE  PrefixOf(a, c)
  <1>1. Len(a) \in Nat /\ Len(b) \in Nat /\ Len(c) \in Nat  OBVIOUS
  <1>2. Len(a) <= Len(b) /\ Len(b) <= Len(c)  BY DEF PrefixOf
  <1>3. ASSUME NEW i \in 1..Len(a) PROVE a[i] = c[i]
    <2>1. i \in 1..Len(b)  BY <1>1, <1>2
    <2>2. QED  BY <1>3, <2>1 DEF PrefixOf
  <1>4. QED  BY <1>1, <1>2, <1>3 DEF PrefixOf

(* A beginning written over another of the same text leaves the longer.    *)
LEMMA WrittenOverIsPrefix ==
    ASSUME NEW A, NEW file \in Seq(A), NEW body \in Seq(A), NEW text \in Seq(A),
           PrefixOf(file, text), PrefixOf(body, text)
    PROVE  /\ WrittenOver(file, body) \in Seq(A)
           /\ PrefixOf(WrittenOver(file, body), text)
           /\ file = <<>> => WrittenOver(file, body) = body
  <1>1. PICK n, m, k : n = Len(file) /\ m = Len(body) /\ k = Len(text)  OBVIOUS
  <1>2. n \in Nat /\ m \in Nat /\ k \in Nat /\ n <= k /\ m <= k  BY <1>1 DEF PrefixOf
  <1>3. PICK rest : rest = SubSeq(file, m + 1, n)  OBVIOUS
  <1>4. /\ rest \in Seq(A)
        /\ Len(rest) = IF m < n THEN n - m ELSE 0
        /\ \A i \in 1..Len(rest) : rest[i] = file[m + i]
    <2>1. m + 1 \in Int /\ n \in Int /\ \A i \in m + 1..n : file[i] \in A  BY <1>1, <1>2
    <2>2. /\ rest \in Seq(A) /\ Len(rest) = IF m + 1 <= n THEN n - (m + 1) + 1 ELSE 0
          /\ \A i \in 1..n - (m + 1) + 1 : rest[i] = file[(m + 1) + i - 1]
      BY <1>3, <2>1, SubSeqProperties
    <2>3. Len(rest) = IF m < n THEN n - m ELSE 0  BY <1>2, <2>2
    <2>4. ASSUME NEW i \in 1..Len(rest) PROVE rest[i] = file[m + i]
      <3>1. i \in 1..n - (m + 1) + 1 /\ (m + 1) + i - 1 = m + i  BY <1>2, <2>3
      <3>2. rest[i] = file[(m + 1) + i - 1]  BY <2>2, <3>1
      <3>3. QED  BY <3>1, <3>2
    <2>5. QED  BY <2>2, <2>3, <2>4
  <1>5. PICK new : new = body \o rest  OBVIOUS
  <1>6. /\ new \in Seq(A) /\ Len(new) = m + Len(rest)
        /\ \A i \in 1..Len(new) : new[i] = IF i <= m THEN body[i] ELSE rest[i - m]
    <2>1. /\ new \in Seq(A) /\ Len(new) = Len(body) + Len(rest)
          /\ \A i \in 1..Len(body) + Len(rest) :
               new[i] = IF i <= Len(body) THEN body[i] ELSE rest[i - Len(body)]
      BY <1>4, <1>5, ConcatProperties
    <2>2. QED  BY <1>1, <2>1
  <1>7. ASSUME NEW i \in 1..Len(new) PROVE new[i] = text[i]
    <2>1. CASE i <= m
      <3>1. i \in 1..m  BY <1>2, <1>4, <1>6, <2>1
      <3>2. QED  BY <1>1, <1>6, <2>1, <3>1 DEF PrefixOf
    <2>2. CASE i > m
      <3>1. i - m \in 1..Len(rest) /\ m + (i - m) = i /\ i \in 1..n /\ ~ (i <= m)
        BY <1>2, <1>4, <1>6, <2>2
      <3>2. new[i] = rest[i - m]  BY <1>6, <3>1
      <3>3. rest[i - m] = file[i]  BY <1>4, <3>1
      <3>4. QED  BY <1>1, <3>1, <3>2, <3>3 DEF PrefixOf
    <2>3. QED  BY <1>2, <1>6, <2>1, <2>2
  <1>8. Len(new) <= k  BY <1>2, <1>4, <1>6
  <1>9. ASSUME file = <<>> PROVE new = body
    <2>1. n = 0  BY <1>1, <1>9
    <2>2. Len(rest) = 0  BY <1>2, <1>4, <2>1
    <2>3. rest = <<>>  BY <1>4, <2>2
    <2>4. QED  BY <1>5, <2>3
  <1>10. new = WrittenOver(file, body)  BY <1>1, <1>3, <1>5 DEF WrittenOver
  <1>11. QED  BY <1>1, <1>6, <1>7, <1>8, <1>9, <1>10 DEF PrefixOf

-----------------------------------------------------------------------------
(* The invariant of the session-ends                                       *)

(* The types that LaneTyped leaves out                                     *)
Typed ==
  /\ transcript \in Bodies \cup {NoFile}
  /\ \A b \in observed : b \in Bodies
  /\ spoken \in SUBSET Messages
  /\ answered \in SUBSET [text : Messages, met : BOOLEAN]
  /\ faults \in 0..MaxFaults
  /\ \A t \in Threads :
       /\ op[t].turns \in Seq(Turns)
       /\ op[t].body \in Bodies
       /\ op[t].no \in 0..(Len(lane) + 1)
       /\ op[t].met \in BOOLEAN

EndsMeet ==
  \A t, u \in Threads : t # u /\ Ending(t) /\ Ending(u) => op[t].met

(* Whatever is on its way into a source is a beginning of what the lane    *)
(* renders to: so is what two session-ends leave in the file, since each   *)
(* of them writes a beginning of one text.                                 *)
BodiesArePrefixes ==
  /\ transcript # NoFile => PrefixOf(transcript, Rendered(lane))
  /\ IngestedIsTranscript
  /\ \A t \in Threads :
       /\ Ending(t) => PrefixOf(op[t].turns, lane)
       /\ op[t].step \in {"truncated", "written", "viewed"} => transcript # NoFile
       /\ op[t].step = "planned" => PrefixOf(op[t].body, Rendered(lane))

(* A session-end that met no other finds the file as it left it.           *)
FileIsAsLeft ==
  \A t \in Threads : Ending(t) /\ ~op[t].met =>
    /\ op[t].step = "truncated" => transcript = <<>>
    /\ op[t].step \in {"written", "viewed"} => transcript = Rendered(op[t].turns)
    /\ op[t].step = "planned" => op[t].body = Rendered(op[t].turns)

SeenIsObserved ==
  \A t \in Threads : op[t].step \in {"viewed", "planned"} => op[t].seen \subseteq observed

EndInv ==
  Typed /\ EndsMeet /\ BodiesArePrefixes /\ FileIsAsLeft /\ SeenIsObserved
  /\ EndedIsIngestedUnlessEndsMeet

LEMMA BodyStaysPrefix ==
    ASSUME lane \in Seq(Turns), lane' \in Seq(Turns), PrefixOf(lane, lane'),
           NEW b \in Bodies, PrefixOf(b, Rendered(lane))
    PROVE  PrefixOf(b, Rendered(lane'))
  <1>1. PICK s, r : s = lane /\ r = lane'  OBVIOUS
  <1>2. s \in Seq(Turns) /\ r \in Seq(Turns) /\ PrefixOf(s, r) /\ PrefixOf(b, Rendered(s))
    BY <1>1
  <1>3. PrefixOf(Rendered(s), Rendered(r))  BY <1>2, RenderedIsPrefix
  <1>4. Rendered(s) \in Seq(Messages) /\ Rendered(r) \in Seq(Messages) /\ b \in Seq(Messages)
    BY <1>2, RenderedIsText DEF Bodies
  <1>5. PrefixOf(b, Rendered(r))  BY <1>2, <1>3, <1>4, PrefixOfPrefix
  <1>6. QED  BY <1>1, <1>5

LEMMA TurnsStayPrefix ==
    ASSUME lane \in Seq(Turns), lane' \in Seq(Turns), PrefixOf(lane, lane'),
           NEW s \in Seq(Turns), PrefixOf(s, lane)
    PROVE  PrefixOf(s, lane')
  <1>1. PICK a, b : a = lane /\ b = lane'  OBVIOUS
  <1>2. a \in Seq(Turns) /\ b \in Seq(Turns) /\ PrefixOf(s, a) /\ PrefixOf(a, b)  BY <1>1
  <1>3. PrefixOf(s, b)  BY <1>2, PrefixOfPrefix
  <1>4. QED  BY <1>1, <1>3

LEMMA LaneIsPrefix == ASSUME lane \in Seq(Turns) PROVE PrefixOf(lane, lane)
  BY DEF PrefixOf

LEMMA InitEnds == LaneInit => EndInv
  <1> SUFFICES ASSUME LaneInit PROVE EndInv  OBVIOUS
  <1>1. Typed
    <2>1. <<>> \in Seq(Turns) /\ <<>> \in Seq(Messages) /\ Len(lane) = 0  BY DEF LaneInit
    <2>2. ASSUME NEW t \in Threads
          PROVE  op[t].turns = <<>> /\ op[t].body = <<>> /\ op[t].no = 0 /\ op[t].met = FALSE
      <3>1. op[t] = Idle  BY DEF LaneInit
      <3>2. Idle.turns = <<>> /\ Idle.body = <<>> /\ Idle.no = 0 /\ Idle.met = FALSE
        BY Zenon DEF Idle
      <3>3. QED  BY <3>1, <3>2, Zenon
    <2>3. 0 \in 0..MaxFaults  BY FaultAssumption
    <2>4. ASSUME NEW t \in Threads
          PROVE  /\ op[t].turns \in Seq(Turns) /\ op[t].body \in Bodies
                 /\ op[t].no \in 0..(Len(lane) + 1)
      <3>1. 0 \in 0..(Len(lane) + 1)  BY <2>1
      <3>2. QED  BY <2>1, <2>2, <3>1, Zenon DEF Bodies
    <2>5. QED  BY <2>2, <2>3, <2>4, Zenon DEF LaneInit, Typed
  <1>2. \A t \in Threads : op[t].step = "idle"  BY DEF LaneInit, Idle
  <1>3. EndsMeet /\ FileIsAsLeft /\ SeenIsObserved
    BY <1>2 DEF EndsMeet, FileIsAsLeft, SeenIsObserved, Ending
  <1>4. BodiesArePrefixes /\ EndedIsIngestedUnlessEndsMeet
    BY <1>2 DEF LaneInit, BodiesArePrefixes, IngestedIsTranscript, EndedIsIngestedUnlessEndsMeet, Ending
  <1>5. QED  BY <1>1, <1>3, <1>4 DEF EndInv

(* A step that lets the lane grow and leaves the files and the             *)
(* session-ends alone, or drops some of these.                             *)
LEMMA QuietEnds ==
    ASSUME EndInv, LaneTyped, LaneTyped', Typed', PrefixOf(lane, lane'),
           UNCHANGED <<transcript, observed, ended>>,
           \A t \in Threads : Ending(t)' =>
             /\ op'[t].step = op[t].step /\ op'[t].turns = op[t].turns
             /\ op'[t].seen = op[t].seen /\ op'[t].body = op[t].body
             /\ op'[t].met = op[t].met
    PROVE  EndInv'
  <1>1. lane \in Seq(Turns) /\ lane' \in Seq(Turns)  BY DEF LaneTyped
  <1>2. ASSUME NEW t \in Threads, Ending(t)' PROVE Ending(t)  BY <1>2 DEF Ending
  <1>3. EndsMeet'  BY <1>2 DEF EndInv, EndsMeet
  <1>4. BodiesArePrefixes'
    <2>1. ASSUME transcript' # NoFile PROVE PrefixOf(transcript', Rendered(lane'))
      <3>1. transcript \in Bodies /\ PrefixOf(transcript, Rendered(lane))
        BY <2>1 DEF EndInv, BodiesArePrefixes, Typed
      <3>2. PICK b : b = transcript  OBVIOUS
      <3>3. PrefixOf(b, Rendered(lane'))  BY <1>1, <3>1, <3>2, BodyStaysPrefix
      <3>4. QED  BY <3>2, <3>3
    <2>2. ASSUME NEW b \in observed' PROVE PrefixOf(b, Rendered(lane'))
      <3>1. b \in Bodies /\ PrefixOf(b, Rendered(lane))
        BY DEF EndInv, BodiesArePrefixes, IngestedIsTranscript, Typed
      <3>2. QED  BY <1>1, <3>1, BodyStaysPrefix
    <2>3. ASSUME NEW t \in Threads
          PROVE  /\ Ending(t)' => PrefixOf(op'[t].turns, lane')
                 /\ op'[t].step \in {"truncated", "written", "viewed"} => transcript' # NoFile
                 /\ op'[t].step = "planned" => PrefixOf(op'[t].body, Rendered(lane'))
      <3>1. PICK s, b : s = op[t].turns /\ b = op[t].body  OBVIOUS
      <3>2. s \in Seq(Turns) /\ b \in Bodies  BY <3>1 DEF EndInv, Typed
      <3>3. ASSUME Ending(t)' PROVE PrefixOf(op'[t].turns, lane')
        <4>1. PrefixOf(s, lane) /\ op'[t].turns = s
          BY <1>2, <3>1, <3>3 DEF EndInv, BodiesArePrefixes
        <4>2. QED  BY <1>1, <3>2, <4>1, TurnsStayPrefix
      <3>4. ASSUME op'[t].step = "planned" PROVE PrefixOf(op'[t].body, Rendered(lane'))
        <4>1. PrefixOf(b, Rendered(lane)) /\ op'[t].body = b
          BY <3>1, <3>4 DEF EndInv, BodiesArePrefixes, Ending
        <4>2. QED  BY <1>1, <3>2, <4>1, BodyStaysPrefix
      <3>5. op'[t].step \in {"truncated", "written", "viewed"} => transcript' # NoFile
        BY DEF EndInv, BodiesArePrefixes, Ending
      <3>6. QED  BY <3>3, <3>4, <3>5
    <2>4. QED  BY <2>1, <2>2, <2>3 DEF BodiesArePrefixes, IngestedIsTranscript
  <1>5. FileIsAsLeft'  BY <1>2 DEF EndInv, FileIsAsLeft
  <1>6. SeenIsObserved'  BY DEF EndInv, SeenIsObserved, Ending
  <1>7. EndedIsIngestedUnlessEndsMeet'  BY DEF EndInv, EndedIsIngestedUnlessEndsMeet
  <1>8. QED  BY <1>3, <1>4, <1>5, <1>6, <1>7 DEF EndInv

-----------------------------------------------------------------------------
(* Chats, as the session-ends see them *)

(* The lane only grows, at its end.                                        *)
LEMMA LaneGrows ==
    ASSUME IInv, NEW t \in Threads, AppendUserTurn(t) \/ AppendReply(t)
    PROVE  PrefixOf(lane, lane')
  <1>1. PICK no, speaker, text : /\ AppendTurn(no, speaker, text)
                                 /\ no = op[t].no /\ text = op[t].text /\ speaker \in Speakers
    BY DEF AppendUserTurn, AppendReply, Speakers
  <1>2. no \in 1..(Len(lane) + 1) /\ text \in Messages
    BY <1>1 DEF AppendUserTurn, AppendReply, IInv, LaneTyped, Chatting
  <1>3. /\ lane' \in Seq(Turns) /\ Len(lane') \in {Len(lane), Len(lane) + 1}
        /\ \A i \in 1..Len(lane) : lane'[i] = lane[i]
    BY <1>1, <1>2, AppendTurnHolds
  <1>4. Len(lane) \in Nat /\ Len(lane') \in Nat  BY <1>3 DEF IInv, LaneTyped
  <1>5. QED  BY <1>3, <1>4 DEF PrefixOf

(* The steps of a chat.                                                    *)
LEMMA ChatEnds ==
    ASSUME IInv, IInv', EndInv, NEW t \in Threads, NEW m \in Messages, Chat(t, m)
    PROVE  EndInv'
  <1>1. /\ op[t].step = "idle" /\ spoken' = spoken \cup {m}
        /\ op' = Meeting(t, [Idle EXCEPT !.step = "numbered", !.text = m, !.no = NextNo], Chatting)
        /\ UNCHANGED <<lane, transcript, observed, answered, ended, faults>>
    BY DEF Chat
  <1>2. LaneTyped /\ LaneTyped' /\ Typed  BY DEF IInv, EndInv
  <1>3. lane \in Seq(Turns) /\ Len(lane) \in Nat  BY <1>2 DEF LaneTyped
  <1>4. /\ op'[t].step = "numbered" /\ op'[t].turns = <<>> /\ op'[t].body = <<>>
        /\ op'[t].no = Len(lane) + 1
        /\ op'[t].met = \E v \in Threads \ {t} : Chatting(v)
    BY <1>1 DEF Meeting, Idle, NextNo
  <1>5. ASSUME NEW u \in Threads \ {t}
        PROVE  /\ op'[u].step = op[u].step /\ op'[u].turns = op[u].turns
               /\ op'[u].seen = op[u].seen /\ op'[u].body = op[u].body
               /\ op'[u].no = op[u].no /\ op'[u].met \in BOOLEAN
               /\ ~ Chatting(u) => op'[u].met = op[u].met
    <2>1. op'[u] = IF Chatting(u) THEN [op[u] EXCEPT !.met = TRUE] ELSE op[u]
      BY <1>1 DEF Meeting
    <2>2. DOMAIN op[u] = Fields  BY <1>2 DEF LaneTyped
    <2>3. op[u].met \in BOOLEAN  BY <1>2 DEF Typed
    <2>4. CASE Chatting(u)
      <3>1. op'[u] = [op[u] EXCEPT !.met = TRUE]  BY <2>1, <2>4
      <3>2. op'[u].met = TRUE  BY <2>2, <3>1 DEF Fields
      <3>3. QED  BY <2>2, <2>4, <3>1, <3>2 DEF Fields
    <2>5. CASE ~ Chatting(u)  BY <2>1, <2>3, <2>5
    <2>6. QED  BY <2>4, <2>5
  <1>6. Typed'
    <2>1. ASSUME NEW u \in Threads
          PROVE  /\ op'[u].turns \in Seq(Turns) /\ op'[u].body \in Bodies
                 /\ op'[u].no \in 0..(Len(lane) + 1) /\ op'[u].met \in BOOLEAN
      <3>1. CASE u = t
        <4>1. <<>> \in Seq(Turns) /\ <<>> \in Seq(Messages)  OBVIOUS
        <4>2. Len(lane) + 1 \in 0..(Len(lane) + 1)  BY <1>3
        <4>3. QED  BY <1>4, <3>1, <4>1, <4>2, Zenon DEF Bodies
      <3>2. CASE u # t  BY <1>2, <1>5, <3>2 DEF Typed
      <3>3. QED  BY <3>1, <3>2
    <2>2. QED  BY <1>1, <1>2, <2>1 DEF Typed
  <1>7. PrefixOf(lane, lane')  BY <1>1, <1>3, LaneIsPrefix
  <1>8. ASSUME NEW u \in Threads, Ending(u)'
        PROVE  /\ op'[u].step = op[u].step /\ op'[u].turns = op[u].turns
               /\ op'[u].seen = op[u].seen /\ op'[u].body = op[u].body
               /\ op'[u].met = op[u].met
    <2>1. u # t  BY <1>4, <1>8 DEF Ending
    <2>2. ~ Chatting(u)  BY <1>5, <1>8, <2>1 DEF Ending, Chatting
    <2>3. QED  BY <1>5, <2>1, <2>2
  <1>9. QED  BY <1>1, <1>2, <1>6, <1>7, <1>8, QuietEnds

(* Steps that leave the other requests alone and stop no request but       *)
(* their own, which is none of a session-end afterwards.                   *)
LEMMA AwayEnds ==
    ASSUME IInv, IInv', EndInv, PrefixOf(lane, lane'),
           UNCHANGED <<transcript, observed, ended>>,
           spoken' = spoken, faults' \in 0..MaxFaults,
           answered' \in SUBSET [text : Messages, met : BOOLEAN],
           \A u \in Threads :
             \/ op'[u] = op[u]
             \/ /\ ~ Ending(u)'
                /\ op'[u].turns \in {op[u].turns, <<>>} /\ op'[u].body \in {op[u].body, <<>>}
                /\ op'[u].no \in 0..(Len(lane') + 1) /\ op'[u].met \in BOOLEAN
    PROVE  EndInv'
  <1>1. LaneTyped /\ LaneTyped' /\ Typed  BY DEF IInv, EndInv
  <1>2. /\ lane \in Seq(Turns) /\ lane' \in Seq(Turns)
        /\ Len(lane) \in Nat /\ Len(lane') \in Nat /\ Len(lane) <= Len(lane')
    BY <1>1 DEF LaneTyped, PrefixOf
  <1>3. ASSUME NEW u \in Threads
        PROVE  /\ op'[u].turns \in Seq(Turns) /\ op'[u].body \in Bodies
               /\ op'[u].no \in 0..(Len(lane') + 1) /\ op'[u].met \in BOOLEAN
    <2>1. /\ op[u].turns \in Seq(Turns) /\ op[u].body \in Bodies
          /\ op[u].no \in 0..(Len(lane) + 1) /\ op[u].met \in BOOLEAN
      BY <1>1 DEF Typed
    <2>2. op[u].no \in 0..(Len(lane') + 1)  BY <1>2, <2>1
    <2>3. <<>> \in Seq(Turns) /\ <<>> \in Seq(Messages)  OBVIOUS
    <2>4. CASE op'[u] = op[u]  BY <2>1, <2>2, <2>4, Zenon
    <2>5. CASE op'[u] # op[u]
      <3>1. /\ op'[u].turns \in {op[u].turns, <<>>} /\ op'[u].body \in {op[u].body, <<>>}
            /\ op'[u].no \in 0..(Len(lane') + 1) /\ op'[u].met \in BOOLEAN
        BY <2>5, Zenon
      <3>2. QED  BY <2>1, <2>3, <3>1, Zenon DEF Bodies
    <2>6. QED  BY <2>4, <2>5
  <1>4. Typed'  BY <1>1, <1>3 DEF Typed
  <1>5. \A u \in Threads : Ending(u)' => op'[u] = op[u]  OBVIOUS
  <1>6. QED  BY <1>1, <1>4, <1>5, QuietEnds

LEMMA IdleIs ==
    /\ DOMAIN Idle = Fields
    /\ Idle.step = "idle" /\ Idle.turns = <<>> /\ Idle.body = <<>> /\ Idle.no = 0
    /\ Idle.met = FALSE
  BY Zenon DEF Idle, Fields

LEMMA ChatStepEnds ==
    ASSUME IInv, IInv', EndInv, NEW t \in Threads, ChatStep(t)
    PROVE  EndInv'
  <1>1. LaneTyped /\ Typed  BY DEF IInv, EndInv
  <1>2. lane \in Seq(Turns) /\ Len(lane) \in Nat /\ DOMAIN op = Threads /\ DOMAIN op[t] = Fields
    BY <1>1 DEF LaneTyped
  <1>3. op[t].no \in 0..(Len(lane) + 1) /\ op[t].met \in BOOLEAN /\ faults \in 0..MaxFaults
        /\ answered \in SUBSET [text : Messages, met : BOOLEAN]
    BY <1>1 DEF Typed
  <1>4. CASE AppendUserTurn(t)
    <2>1. /\ op' = [op EXCEPT ![t] = [op[t] EXCEPT !.step = "asking"]]
          /\ UNCHANGED <<transcript, observed, spoken, answered, ended, faults>>
      BY <1>4 DEF AppendUserTurn, Become
    <2>2. PrefixOf(lane, lane')  BY <1>4, LaneGrows
    <2>3. lane' \in Seq(Turns) /\ Len(lane') \in Nat  BY DEF IInv, LaneTyped
    <2>4. op[t].no \in 0..(Len(lane') + 1)  BY <1>2, <1>3, <2>2, <2>3 DEF PrefixOf
    <2>5. /\ op'[t].step = "asking" /\ op'[t].turns = op[t].turns /\ op'[t].body = op[t].body
          /\ op'[t].no = op[t].no /\ op'[t].met = op[t].met
          /\ \A u \in Threads \ {t} : op'[u] = op[u]
      BY <1>2, <2>1 DEF Fields
    <2>6. ~ Ending(t)'  BY <2>5 DEF Ending
    <2>7. QED  BY <1>3, <2>1, <2>2, <2>4, <2>5, <2>6, AwayEnds
  <1>5. CASE Ask(t)
    <2>1. /\ op' = [op EXCEPT ![t] = [op[t] EXCEPT !.step = "replied", !.no = 0]]
          /\ UNCHANGED <<lane, transcript, observed, spoken, answered, ended, faults>>
      BY <1>5 DEF Ask, Become
    <2>2. PrefixOf(lane, lane')  BY <1>2, <2>1, LaneIsPrefix
    <2>3. 0 \in 0..(Len(lane') + 1)  BY <1>2, <2>1
    <2>5. /\ op'[t].step = "replied" /\ op'[t].turns = op[t].turns /\ op'[t].body = op[t].body
          /\ op'[t].no = 0 /\ op'[t].met = op[t].met
          /\ \A u \in Threads \ {t} : op'[u] = op[u]
      BY <1>2, <2>1 DEF Fields
    <2>6. ~ Ending(t)'  BY <2>5 DEF Ending
    <2>7. QED  BY <1>3, <2>1, <2>2, <2>3, <2>5, <2>6, AwayEnds
  <1>6. CASE NumberReply(t)
    <2>1. /\ op' = [op EXCEPT ![t] = [op[t] EXCEPT !.step = "numberedReply", !.no = Len(lane) + 1]]
          /\ UNCHANGED <<lane, transcript, observed, spoken, answered, ended, faults>>
      BY <1>6 DEF NumberReply, Become, NextNo
    <2>2. PrefixOf(lane, lane')  BY <1>2, <2>1, LaneIsPrefix
    <2>3. Len(lane) + 1 \in 0..(Len(lane') + 1)  BY <1>2, <2>1
    <2>5. /\ op'[t].step = "numberedReply" /\ op'[t].turns = op[t].turns
          /\ op'[t].body = op[t].body /\ op'[t].no = Len(lane) + 1 /\ op'[t].met = op[t].met
          /\ \A u \in Threads \ {t} : op'[u] = op[u]
      BY <1>2, <2>1 DEF Fields
    <2>6. ~ Ending(t)'  BY <2>5 DEF Ending
    <2>7. QED  BY <1>3, <2>1, <2>2, <2>3, <2>5, <2>6, AwayEnds
  <1>7. CASE AppendReply(t)
    <2>1. /\ op[t].step = "numberedReply" /\ op' = [op EXCEPT ![t] = Idle]
          /\ answered' = answered \cup {[text |-> op[t].text, met |-> op[t].met]}
          /\ UNCHANGED <<transcript, observed, spoken, ended, faults>>
      BY <1>7 DEF AppendReply, Become
    <2>2. PrefixOf(lane, lane')  BY <1>7, LaneGrows
    <2>3. lane' \in Seq(Turns) /\ Len(lane') \in Nat  BY DEF IInv, LaneTyped
    <2>4. 0 \in 0..(Len(lane') + 1)  BY <2>3
    <2>5. op'[t] = Idle /\ \A u \in Threads \ {t} : op'[u] = op[u]  BY <1>2, <2>1
    <2>6. ~ Ending(t)'  BY <2>5, IdleIs DEF Ending
    <2>7. op[t].text \in Messages  BY <1>1, <2>1 DEF LaneTyped, Chatting
    <2>8. answered' \in SUBSET [text : Messages, met : BOOLEAN]  BY <1>3, <2>1, <2>7
    <2>9. /\ op'[t].turns = <<>> /\ op'[t].body = <<>>
          /\ op'[t].no \in 0..(Len(lane') + 1) /\ op'[t].met \in BOOLEAN
      BY <2>4, <2>5, IdleIs, Zenon
    <2>10. QED  BY <1>3, <2>1, <2>2, <2>5, <2>6, <2>8, <2>9, AwayEnds
  <1>8. QED  BY <1>4, <1>5, <1>6, <1>7 DEF ChatStep

LEMMA FaultEnds ==
    ASSUME IInv, IInv', EndInv, (\E t \in Threads : Fail(t)) \/ Crash \/ UNCHANGED laneVars
    PROVE  EndInv'
  <1>1. LaneTyped /\ Typed  BY DEF IInv, EndInv
  <1>2. lane \in Seq(Turns) /\ Len(lane) \in Nat /\ DOMAIN op = Threads
        /\ \A u \in Threads : DOMAIN op[u] = Fields
    BY <1>1 DEF LaneTyped
  <1>3. /\ UNCHANGED <<lane, transcript, observed, spoken, answered, ended>>
        /\ faults' \in 0..MaxFaults
        /\ \A u \in Threads : op'[u] \in {op[u], Idle}
    <2>1. faults \in 0..MaxFaults /\ MaxFaults \in Nat  BY <1>1, FaultAssumption DEF Typed
    <2>2. CASE \E t \in Threads : Fail(t)  BY <1>2, <2>1, <2>2 DEF Fail, Become
    <2>3. CASE Crash  BY <1>2, <2>1, <2>3 DEF Crash
    <2>4. CASE UNCHANGED laneVars  BY <2>1, <2>4 DEF laneVars
    <2>5. QED  BY <2>2, <2>3, <2>4
  <1>4. PrefixOf(lane, lane')  BY <1>2, <1>3, LaneIsPrefix
  <1>5. 0 \in 0..(Len(lane') + 1)  BY <1>2, <1>3
  <1>6. answered \in SUBSET [text : Messages, met : BOOLEAN]  BY <1>1 DEF Typed
  <1>7. ASSUME NEW u \in Threads, op'[u] # op[u]
        PROVE  /\ ~ Ending(u)'
               /\ op'[u].turns = <<>> /\ op'[u].body = <<>>
               /\ op'[u].no \in 0..(Len(lane') + 1) /\ op'[u].met \in BOOLEAN
    <2>1. op'[u] = Idle  BY <1>3, <1>7
    <2>2. ~ Ending(u)'  BY <2>1, IdleIs DEF Ending
    <2>3. QED  BY <1>5, <2>1, <2>2, IdleIs, Zenon
  <1>8. QED  BY <1>3, <1>4, <1>6, <1>7, AwayEnds

(* A session-end that starts marks those it meets.                         *)
LEMMA SessionEndEnds ==
    ASSUME IInv, IInv', EndInv, NEW t \in Threads, SessionEnd(t)
    PROVE  EndInv'
  <1>1. /\ op[t].step = "idle"
        /\ op' = Meeting(t, [Idle EXCEPT !.step = "rendered", !.turns = lane], Ending)
        /\ UNCHANGED <<lane, transcript, observed, spoken, answered, ended, faults>>
    BY DEF SessionEnd
  <1>2. LaneTyped /\ LaneTyped' /\ Typed  BY DEF IInv, EndInv
  <1>3. lane \in Seq(Turns) /\ Len(lane) \in Nat  BY <1>2 DEF LaneTyped
  <1>4. /\ op'[t].step = "rendered" /\ op'[t].turns = lane /\ op'[t].body = <<>>
        /\ op'[t].no = 0
        /\ op'[t].met = \E v \in Threads \ {t} : Ending(v)
    BY <1>1 DEF Meeting, Idle
  <1>5. ASSUME NEW u \in Threads \ {t}
        PROVE  /\ op'[u].step = op[u].step /\ op'[u].turns = op[u].turns
               /\ op'[u].seen = op[u].seen /\ op'[u].body = op[u].body
               /\ op'[u].no = op[u].no /\ op'[u].met \in BOOLEAN
               /\ Ending(u) => op'[u].met
    <2>1. op'[u] = IF Ending(u) THEN [op[u] EXCEPT !.met = TRUE] ELSE op[u]
      BY <1>1 DEF Meeting
    <2>2. DOMAIN op[u] = Fields  BY <1>2 DEF LaneTyped
    <2>3. op[u].met \in BOOLEAN  BY <1>2 DEF Typed
    <2>4. CASE Ending(u)
      <3>1. op'[u] = [op[u] EXCEPT !.met = TRUE]  BY <2>1, <2>4
      <3>2. op'[u].met = TRUE  BY <2>2, <3>1 DEF Fields
      <3>3. QED  BY <2>2, <2>4, <3>1, <3>2 DEF Fields
    <2>5. CASE ~ Ending(u)  BY <2>1, <2>3, <2>5
    <2>6. QED  BY <2>4, <2>5
  <1>6. Typed'
    <2>1. ASSUME NEW u \in Threads
          PROVE  /\ op'[u].turns \in Seq(Turns) /\ op'[u].body \in Bodies
                 /\ op'[u].no \in 0..(Len(lane) + 1) /\ op'[u].met \in BOOLEAN
      <3>1. CASE u = t
        <4>1. <<>> \in Seq(Messages)  OBVIOUS
        <4>2. 0 \in 0..(Len(lane) + 1)  BY <1>3
        <4>3. QED  BY <1>3, <1>4, <3>1, <4>1, <4>2, Zenon DEF Bodies
      <3>2. CASE u # t  BY <1>2, <1>5, <3>2 DEF Typed
      <3>3. QED  BY <3>1, <3>2
    <2>2. QED  BY <1>1, <1>2, <2>1 DEF Typed
  <1>7. EndsMeet'
    <2> SUFFICES ASSUME NEW u \in Threads, NEW v \in Threads, u # v, Ending(u)', Ending(v)'
                 PROVE  op'[u].met
      BY DEF EndsMeet
    <2>1. CASE u = t
      <3>1. Ending(v)  BY <2>1, <1>5 DEF Ending
      <3>2. QED  BY <2>1, <3>1, <1>4
    <2>2. CASE u # t  BY <2>2, <1>5 DEF Ending
    <2>3. QED  BY <2>1, <2>2
  <1>8. BodiesArePrefixes'
    <2>1. ASSUME NEW u \in Threads
          PROVE  /\ Ending(u)' => PrefixOf(op'[u].turns, lane)
                 /\ op'[u].step \in {"truncated", "written", "viewed"} => transcript # NoFile
                 /\ op'[u].step = "planned" => PrefixOf(op'[u].body, Rendered(lane))
      <3>1. CASE u = t
        <4>1. PrefixOf(lane, lane)  BY <1>3, LaneIsPrefix
        <4>2. QED  BY <1>4, <3>1, <4>1
      <3>2. CASE u # t  BY <1>5, <3>2 DEF EndInv, BodiesArePrefixes, Ending
      <3>3. QED  BY <3>1, <3>2
    <2>2. QED  BY <1>1, <2>1 DEF EndInv, BodiesArePrefixes, IngestedIsTranscript
  <1>9. FileIsAsLeft'
    <2> SUFFICES ASSUME NEW u \in Threads, Ending(u)', ~ op'[u].met
                 PROVE  op'[u].step = "rendered"
      BY DEF FileIsAsLeft
    <2>1. CASE u = t  BY <1>4, <2>1
    <2>2. CASE u # t  BY <1>5, <2>2 DEF Ending
    <2>3. QED  BY <2>1, <2>2
  <1>10. SeenIsObserved'
    <2> SUFFICES ASSUME NEW u \in Threads, op'[u].step \in {"viewed", "planned"}
                 PROVE  op'[u].seen \subseteq observed
      BY <1>1 DEF SeenIsObserved
    <2>1. u # t  BY <1>4
    <2>2. QED  BY <1>5, <2>1 DEF EndInv, SeenIsObserved
  <1>11. EndedIsIngestedUnlessEndsMeet'  BY <1>1 DEF EndInv, EndedIsIngestedUnlessEndsMeet
  <1>12. QED  BY <1>6, <1>7, <1>8, <1>9, <1>10, <1>11 DEF EndInv

-----------------------------------------------------------------------------
(* Steps of a session-end *)

(* A step of one session-end: of the others that are in flight, none is    *)
(* one that met no other.                                                  *)
LEMMA OneEnds ==
    ASSUME EndInv, LaneTyped, NEW t \in Threads, Ending(t),
           UNCHANGED <<lane, spoken, answered, faults>>,
           \A u \in Threads \ {t} : op'[u] = op[u],
           op'[t].turns \in Seq(Turns), op'[t].body \in Bodies,
           op'[t].no \in 0..(Len(lane) + 1), op'[t].met \in BOOLEAN,
           Ending(t)' => op'[t].met = op[t].met /\ op'[t].turns = op[t].turns,
           transcript' = transcript
             \/ (transcript' \in Bodies /\ transcript' # NoFile
                   /\ PrefixOf(transcript', Rendered(lane))),
           observed \subseteq observed',
           \A b \in observed' : b \in observed \/ (b \in Bodies /\ PrefixOf(b, Rendered(lane))),
           op'[t].step \in {"truncated", "written", "viewed"} => transcript' # NoFile,
           op'[t].step = "planned" => PrefixOf(op'[t].body, Rendered(lane)),
           Ending(t)' /\ ~ op'[t].met =>
             /\ op'[t].step = "truncated" => transcript' = <<>>
             /\ op'[t].step \in {"written", "viewed"} => transcript' = Rendered(op'[t].turns)
             /\ op'[t].step = "planned" => op'[t].body = Rendered(op'[t].turns),
           op'[t].step \in {"viewed", "planned"} => op'[t].seen \subseteq observed',
           \A e \in ended' : e \in ended \/ e.met \/ e.body \in observed'
    PROVE  EndInv'
  <1>1. Typed  BY DEF EndInv
  <1>2. Typed'
    <2>1. ASSUME NEW u \in Threads
          PROVE  /\ op'[u].turns \in Seq(Turns) /\ op'[u].body \in Bodies
                 /\ op'[u].no \in 0..(Len(lane) + 1) /\ op'[u].met \in BOOLEAN
      BY <1>1 DEF Typed
    <2>2. transcript' \in Bodies \cup {NoFile}  BY <1>1 DEF Typed
    <2>3. \A b \in observed' : b \in Bodies  BY <1>1 DEF Typed
    <2>4. QED  BY <1>1, <2>1, <2>2, <2>3 DEF Typed
  <1>3. EndsMeet'
    <2> SUFFICES ASSUME NEW u \in Threads, NEW v \in Threads, u # v, Ending(u)', Ending(v)'
                 PROVE  op'[u].met
      BY DEF EndsMeet
    <2>1. Ending(u) /\ Ending(v)  BY DEF Ending
    <2>2. op[u].met  BY <2>1 DEF EndInv, EndsMeet
    <2>3. QED  BY <2>2
  <1>4. BodiesArePrefixes'
    <2>1. ASSUME NEW u \in Threads
          PROVE  /\ Ending(u)' => PrefixOf(op'[u].turns, lane)
                 /\ op'[u].step \in {"truncated", "written", "viewed"} => transcript' # NoFile
                 /\ op'[u].step = "planned" => PrefixOf(op'[u].body, Rendered(lane))
      <3>1. CASE u = t  BY <3>1 DEF EndInv, BodiesArePrefixes
      <3>2. CASE u # t
        <4>1. op'[u] = op[u]  BY <3>2
        <4>2. Ending(u)' => Ending(u)  BY <4>1 DEF Ending
        <4>3. transcript # NoFile => transcript' # NoFile  OBVIOUS
        <4>4. QED  BY <4>1, <4>2, <4>3 DEF EndInv, BodiesArePrefixes
      <3>3. QED  BY <3>1, <3>2
    <2>2. transcript' # NoFile => PrefixOf(transcript', Rendered(lane))
      BY DEF EndInv, BodiesArePrefixes
    <2>3. \A b \in observed' : PrefixOf(b, Rendered(lane))
      BY DEF EndInv, BodiesArePrefixes, IngestedIsTranscript
    <2>4. QED  BY <2>1, <2>2, <2>3 DEF BodiesArePrefixes, IngestedIsTranscript
  <1>5. FileIsAsLeft'
    <2> SUFFICES ASSUME NEW u \in Threads, Ending(u)', ~ op'[u].met
                 PROVE  /\ op'[u].step = "truncated" => transcript' = <<>>
                        /\ op'[u].step \in {"written", "viewed"} => transcript' = Rendered(op'[u].turns)
                        /\ op'[u].step = "planned" => op'[u].body = Rendered(op'[u].turns)
      BY DEF FileIsAsLeft
    <2>1. CASE u = t  BY <2>1
    <2>2. CASE u # t
      <3>1. op'[u] = op[u] /\ Ending(u)  BY <2>2 DEF Ending
      <3>2. op[u].met  BY <2>2, <3>1 DEF EndInv, EndsMeet
      <3>3. QED  BY <3>1, <3>2
    <2>3. QED  BY <2>1, <2>2
  <1>6. SeenIsObserved'
    <2> SUFFICES ASSUME NEW u \in Threads, op'[u].step \in {"viewed", "planned"}
                 PROVE  op'[u].seen \subseteq observed'
      BY DEF SeenIsObserved
    <2>1. CASE u = t  BY <2>1
    <2>2. CASE u # t
      <3>1. op'[u] = op[u]  BY <2>2
      <3>2. op[u].seen \subseteq observed  BY <3>1 DEF EndInv, SeenIsObserved
      <3>3. QED  BY <3>1, <3>2
    <2>3. QED  BY <2>1, <2>2
  <1>7. EndedIsIngestedUnlessEndsMeet'  BY DEF EndInv, EndedIsIngestedUnlessEndsMeet
  <1>8. QED  BY <1>2, <1>3, <1>4, <1>5, <1>6, <1>7 DEF EndInv

(* What a step of a session-end starts from.                               *)
LEMMA EndIs ==
    ASSUME IInv, EndInv, NEW t \in Threads, Ending(t)
    PROVE  /\ DOMAIN op = Threads /\ DOMAIN op[t] = Fields
           /\ lane \in Seq(Turns) /\ op[t].turns \in Seq(Turns) /\ op[t].body \in Bodies
           /\ op[t].no \in 0..(Len(lane) + 1) /\ 0 \in 0..(Len(lane) + 1) /\ op[t].met \in BOOLEAN
           /\ Rendered(op[t].turns) \in Bodies /\ Rendered(lane) \in Bodies
           /\ PrefixOf(Rendered(op[t].turns), Rendered(lane))
  <1>1. LaneTyped /\ Typed  BY DEF IInv, EndInv
  <1>2. /\ DOMAIN op = Threads /\ DOMAIN op[t] = Fields
        /\ lane \in Seq(Turns) /\ op[t].turns \in Seq(Turns) /\ op[t].body \in Bodies
        /\ op[t].no \in 0..(Len(lane) + 1) /\ op[t].met \in BOOLEAN
    BY <1>1 DEF LaneTyped, Typed
  <1>3. 0 \in 0..(Len(lane) + 1)  BY <1>2
  <1>4. PrefixOf(op[t].turns, lane)  BY DEF EndInv, BodiesArePrefixes
  <1>5. Rendered(op[t].turns) \in Bodies /\ Rendered(lane) \in Bodies
    BY <1>2, RenderedIsText DEF Bodies
  <1>6. PrefixOf(Rendered(op[t].turns), Rendered(lane))  BY <1>2, <1>4, RenderedIsPrefix
  <1>7. QED  BY <1>2, <1>3, <1>5, <1>6

LEMMA NoneIsNoBody == ASSUME NEW b \in Bodies PROVE b # NoFile
  BY NoFileAssumption DEF Bodies

LEMMA TruncateEnds ==
    ASSUME IInv, EndInv, NEW t \in Threads, Truncate(t) PROVE EndInv'
  <1>1. /\ op[t].step = "rendered" /\ transcript' = <<>>
        /\ op' = [op EXCEPT ![t] = [op[t] EXCEPT !.step = "truncated"]]
        /\ UNCHANGED <<lane, observed, spoken, answered, ended, faults>>
    BY DEF Truncate, Become
  <1>2. Ending(t) /\ LaneTyped  BY <1>1 DEF Ending, IInv
  <1>3. /\ DOMAIN op = Threads /\ DOMAIN op[t] = Fields
        /\ op[t].turns \in Seq(Turns) /\ op[t].body \in Bodies
        /\ op[t].no \in 0..(Len(lane) + 1) /\ op[t].met \in BOOLEAN
        /\ Rendered(lane) \in Bodies
    BY <1>2, EndIs
  <1>4. /\ op'[t].step = "truncated" /\ op'[t].turns = op[t].turns /\ op'[t].body = op[t].body
        /\ op'[t].no = op[t].no /\ op'[t].met = op[t].met
        /\ \A u \in Threads \ {t} : op'[u] = op[u]
    BY <1>1, <1>3 DEF Fields
  <1>5. <<>> \in Bodies /\ PrefixOf(<<>>, Rendered(lane))
    BY <1>3 DEF Bodies, PrefixOf
  <1>6. transcript' \in Bodies /\ transcript' # NoFile /\ PrefixOf(transcript', Rendered(lane))
    BY <1>1, <1>5, NoneIsNoBody
  <1>7. QED  BY <1>1, <1>2, <1>3, <1>4, <1>6, OneEnds

LEMMA WriteEnds ==
    ASSUME IInv, EndInv, NEW t \in Threads, WriteTranscript(t) PROVE EndInv'
  <1>1. /\ op[t].step = "truncated"
        /\ transcript' = WrittenOver(transcript, Rendered(op[t].turns))
        /\ op' = [op EXCEPT ![t] = [op[t] EXCEPT !.step = "written"]]
        /\ UNCHANGED <<lane, observed, spoken, answered, ended, faults>>
    BY DEF WriteTranscript, Become
  <1>2. Ending(t) /\ LaneTyped  BY <1>1 DEF Ending, IInv
  <1>3. /\ DOMAIN op = Threads /\ DOMAIN op[t] = Fields
        /\ op[t].turns \in Seq(Turns) /\ op[t].body \in Bodies
        /\ op[t].no \in 0..(Len(lane) + 1) /\ op[t].met \in BOOLEAN
    BY <1>2, EndIs
  <1>4. /\ op'[t].step = "written" /\ op'[t].turns = op[t].turns /\ op'[t].body = op[t].body
        /\ op'[t].no = op[t].no /\ op'[t].met = op[t].met
        /\ \A u \in Threads \ {t} : op'[u] = op[u]
    BY <1>1, <1>3 DEF Fields
  <1>5. PICK file, body, text : file = transcript /\ body = Rendered(op[t].turns) /\ text = Rendered(lane)
    OBVIOUS
  <1>6. body \in Bodies /\ text \in Bodies /\ PrefixOf(body, text)  BY <1>2, <1>5, EndIs
  <1>7. file \in Bodies /\ PrefixOf(file, text)
    BY <1>1, <1>5 DEF EndInv, BodiesArePrefixes, Typed
  <1>8. /\ WrittenOver(file, body) \in Bodies /\ PrefixOf(WrittenOver(file, body), text)
        /\ file = <<>> => WrittenOver(file, body) = body
    BY <1>6, <1>7, WrittenOverIsPrefix DEF Bodies
  <1>9. transcript' = WrittenOver(file, body)  BY <1>1, <1>5
  <1>10. transcript' \in Bodies /\ transcript' # NoFile /\ PrefixOf(transcript', Rendered(lane))
    BY <1>5, <1>8, <1>9, NoneIsNoBody
  <1>11. ASSUME ~ op[t].met PROVE transcript' = Rendered(op[t].turns)
    <2>1. file = <<>>  BY <1>1, <1>2, <1>5, <1>11 DEF EndInv, FileIsAsLeft
    <2>2. QED  BY <1>5, <1>8, <1>9, <2>1
  <1>12. QED  BY <1>1, <1>2, <1>3, <1>4, <1>10, <1>11, OneEnds

LEMMA ViewEnds ==
    ASSUME IInv, EndInv, NEW t \in Threads, View(t) PROVE EndInv'
  <1>1. /\ op[t].step = "written"
        /\ op' = [op EXCEPT ![t] = [op[t] EXCEPT !.step = "viewed", !.seen = observed]]
        /\ UNCHANGED <<lane, transcript, observed, spoken, answered, ended, faults>>
    BY DEF View, Become
  <1>2. Ending(t) /\ LaneTyped  BY <1>1 DEF Ending, IInv
  <1>3. /\ DOMAIN op = Threads /\ DOMAIN op[t] = Fields
        /\ op[t].turns \in Seq(Turns) /\ op[t].body \in Bodies
        /\ op[t].no \in 0..(Len(lane) + 1) /\ op[t].met \in BOOLEAN
    BY <1>2, EndIs
  <1>4. /\ op'[t].step = "viewed" /\ op'[t].turns = op[t].turns /\ op'[t].body = op[t].body
        /\ op'[t].no = op[t].no /\ op'[t].met = op[t].met /\ op'[t].seen = observed
        /\ \A u \in Threads \ {t} : op'[u] = op[u]
    BY <1>1, <1>3 DEF Fields
  <1>5. transcript # NoFile  BY <1>1 DEF EndInv, BodiesArePrefixes
  <1>6. ~ op[t].met => transcript = Rendered(op[t].turns)  BY <1>1, <1>2 DEF EndInv, FileIsAsLeft
  <1>7. QED  BY <1>1, <1>2, <1>3, <1>4, <1>5, <1>6, OneEnds

LEMMA PlanEnds ==
    ASSUME IInv, EndInv, NEW t \in Threads, Plan(t) PROVE EndInv'
  <1>1. /\ op[t].step = "viewed"
        /\ op' = [op EXCEPT ![t] = [op[t] EXCEPT !.step = "planned", !.body = transcript]]
        /\ UNCHANGED <<lane, transcript, observed, spoken, answered, ended, faults>>
    BY DEF Plan, Become
  <1>2. Ending(t) /\ LaneTyped  BY <1>1 DEF Ending, IInv
  <1>3. /\ DOMAIN op = Threads /\ DOMAIN op[t] = Fields
        /\ op[t].turns \in Seq(Turns)
        /\ op[t].no \in 0..(Len(lane) + 1) /\ op[t].met \in BOOLEAN
    BY <1>2, EndIs
  <1>4. /\ op'[t].step = "planned" /\ op'[t].turns = op[t].turns /\ op'[t].body = transcript
        /\ op'[t].no = op[t].no /\ op'[t].met = op[t].met /\ op'[t].seen = op[t].seen
        /\ \A u \in Threads \ {t} : op'[u] = op[u]
    BY <1>1, <1>3 DEF Fields
  <1>5. transcript \in Bodies /\ PrefixOf(transcript, Rendered(lane))
    BY <1>1 DEF EndInv, BodiesArePrefixes, Typed
  <1>6. ~ op[t].met => transcript = Rendered(op[t].turns)  BY <1>1, <1>2 DEF EndInv, FileIsAsLeft
  <1>7. op[t].seen \subseteq observed  BY <1>1 DEF EndInv, SeenIsObserved
  <1>8. QED  BY <1>1, <1>2, <1>3, <1>4, <1>5, <1>6, <1>7, OneEnds

LEMMA IngestEnds ==
    ASSUME IInv, EndInv, NEW t \in Threads, Ingest(t) PROVE EndInv'
  <1>1. /\ op[t].step = "planned" /\ observed' = WithBody(t)
        /\ ended' = ended \cup {[body |-> Rendered(op[t].turns), met |-> op[t].met]}
        /\ op' = [op EXCEPT ![t] = Idle]
        /\ UNCHANGED <<lane, transcript, spoken, answered, faults>>
    BY DEF Ingest, Become
  <1>2. Ending(t) /\ LaneTyped  BY <1>1 DEF Ending, IInv
  <1>3. DOMAIN op = Threads /\ op[t].body \in Bodies /\ 0 \in 0..(Len(lane) + 1)
    BY <1>2, EndIs
  <1>4. op'[t] = Idle /\ \A u \in Threads \ {t} : op'[u] = op[u]  BY <1>1, <1>3
  <1>5. /\ op'[t].step = "idle" /\ op'[t].turns \in Seq(Turns) /\ op'[t].body \in Bodies
        /\ op'[t].no \in 0..(Len(lane) + 1) /\ op'[t].met \in BOOLEAN
    <2>1. <<>> \in Seq(Turns) /\ <<>> \in Seq(Messages)  OBVIOUS
    <2>2. QED  BY <1>3, <1>4, <2>1, IdleIs, Zenon DEF Bodies
  <1>6. ~ Ending(t)'  BY <1>5 DEF Ending
  <1>7. op[t].seen \subseteq observed /\ PrefixOf(op[t].body, Rendered(lane))
    BY <1>1 DEF EndInv, SeenIsObserved, BodiesArePrefixes
  <1>8. /\ observed \subseteq observed' /\ op[t].body \in observed'
        /\ \A b \in observed' : b \in observed \/ b = op[t].body
    BY <1>1, <1>7 DEF WithBody
  <1>9. ASSUME NEW e \in ended', e \notin ended PROVE e.met \/ e.body \in observed'
    <2>1. e = [body |-> Rendered(op[t].turns), met |-> op[t].met]  BY <1>1, <1>9
    <2>2. e.body = Rendered(op[t].turns) /\ e.met = op[t].met  BY <2>1
    <2>3. CASE ~ op[t].met
      <3>1. op[t].body = Rendered(op[t].turns)  BY <1>1, <1>2, <2>3 DEF EndInv, FileIsAsLeft
      <3>2. QED  BY <1>8, <2>2, <3>1
    <2>4. QED  BY <2>2, <2>3
  <1>10. QED  BY <1>1, <1>2, <1>3, <1>4, <1>5, <1>6, <1>7, <1>8, <1>9, OneEnds

LEMMA NextEnds == IInv /\ EndInv /\ [LaneNext]_laneVars => EndInv'
  <1> SUFFICES ASSUME IInv, EndInv, [LaneNext]_laneVars PROVE EndInv'  OBVIOUS
  <1>1. IInv'  BY NextHolds
  <1>2. ASSUME NEW t \in Threads, NEW m \in Messages, Chat(t, m) PROVE EndInv'
    BY <1>1, <1>2, ChatEnds
  <1>3. ASSUME NEW t \in Threads, ChatStep(t) PROVE EndInv'  BY <1>1, <1>3, ChatStepEnds
  <1>4. ASSUME NEW t \in Threads, SessionEnd(t) PROVE EndInv'  BY <1>1, <1>4, SessionEndEnds
  <1>5. ASSUME NEW t \in Threads, EndStep(t) PROVE EndInv'
    BY <1>5, TruncateEnds, WriteEnds, ViewEnds, PlanEnds, IngestEnds DEF EndStep
  <1>6. CASE (\E t \in Threads : Fail(t)) \/ Crash \/ UNCHANGED laneVars  BY <1>1, <1>6, FaultEnds
  <1>7. QED  BY <1>2, <1>3, <1>4, <1>5, <1>6 DEF LaneNext

-----------------------------------------------------------------------------
(* Theorems *)

(* Whatever chats interleave, fail and crash, the n-th turn of the lane is *)
(* numbered n: AppendTurn's key (agent.rs:649-663, policy.rs:394).         *)
THEOREM LaneIsNumbered == LaneSpec => []TurnsAreNumbered
  <1>1. IInv => TurnsAreNumbered  BY DEF IInv
  <1>2. QED  BY <1>1, Invariance, PTL

(* A chat that met no other chat of its session and was answered is in the *)
(* lane with its reply behind it (agent_chat, agent.rs:640).               *)
THEOREM AnsweredChatsAreKept == LaneSpec => []TurnsAreKeptUnlessChatsMeet
  <1>1. IInv => TurnsAreKeptUnlessChatsMeet  BY DEF IInv
  <1>2. QED  BY <1>1, Invariance, PTL

(* The lane is numbered, what is ingested of a session is a beginning of   *)
(* what its users said, and a session-end that met no other and reports    *)
(* success has ingested all it rendered, whatever chats, other             *)
(* session-ends, failures and crashes there are (agent.rs:149, 334-390).   *)
THEOREM SessionsAreSound == LaneSpec => []SessionInv
  <1>1. IInv /\ EndInv => SessionInv
    <2> SUFFICES ASSUME IInv, EndInv PROVE SessionInv  OBVIOUS
    <2>1. DOMAIN Idle = Fields  BY IdleIs
    <2>2. LaneTypeOK  BY <2>1 DEF LaneTypeOK, IInv, LaneTyped, EndInv, Typed
    <2>3. QED  BY <2>2 DEF SessionInv, IInv, EndInv, BodiesArePrefixes
  <1>2. IInv /\ EndInv /\ [LaneNext]_laneVars => (IInv /\ EndInv)'  BY NextHolds, NextEnds
  <1>3. LaneInit => IInv /\ EndInv  BY InitHolds, InitEnds
  <1>4. QED  BY <1>1, <1>2, <1>3, PTL DEF LaneSpec

-----------------------------------------------------------------------------
(* Reading at a snapshot *)

-----------------------------------------------------------------------------
(* Numbers *)

LEMMA NumberInduction ==
    ASSUME NEW S, 0 \in S, \A n \in Nat : n \in S => n + 1 \in S
    PROVE  Nat \subseteq S
  <1>1. PICK T : T = {n \in Nat : n \notin S}  OBVIOUS
  <1> SUFFICES ASSUME T # {} PROVE FALSE  BY <1>1
  <1>2. IsWellFoundedOn(OpToRel(<, Nat), Nat)  BY NatLessThanWellFounded
  <1>3. PICK x \in T : \A y \in T : ~ (<<y, x>> \in OpToRel(<, Nat))
    BY <1>1, <1>2, WFMin
  <1>4. x \in Nat /\ x # 0  BY <1>1, <1>3
  <1>5. x - 1 \in Nat /\ x - 1 < x /\ (x - 1) + 1 = x  BY <1>4
  <1>6. <<x - 1, x>> \in OpToRel(<, Nat)  BY <1>4, <1>5 DEF OpToRel
  <1>7. x - 1 \in S  BY <1>1, <1>3, <1>5, <1>6
  <1>8. QED  BY <1>1, <1>3, <1>5, <1>7

(* A set of positions up to n has a greatest, if it is not empty.          *)
LEMMA LatestPosition ==
    ASSUME NEW n \in Nat, NEW S \in SUBSET (1..n), S # {}
    PROVE  Max(S) \in S
  <1>1. PICK M : M = {k \in Nat : \A T \in SUBSET (1..k) :
                        T # {} => \E x \in T : \A y \in T : x >= y}
    OBVIOUS
  <1>2. 0 \in M
    <2>1. 1..0 = {}  OBVIOUS
    <2>2. QED  BY <1>1, <2>1
  <1>3. ASSUME NEW k \in Nat, k \in M PROVE k + 1 \in M
    <2>1. ASSUME NEW T \in SUBSET (1..k + 1), T # {}
          PROVE  \E x \in T : \A y \in T : x >= y
      <3>1. CASE k + 1 \in T
        <4>1. \A y \in T : k + 1 >= y  OBVIOUS
        <4>2. QED  BY <3>1, <4>1
      <3>2. CASE k + 1 \notin T
        <4>1. T \in SUBSET (1..k)  BY <3>2
        <4>2. QED  BY <1>1, <1>3, <2>1, <4>1
      <3>3. QED  BY <3>1, <3>2
    <2>2. k + 1 \in Nat  OBVIOUS
    <2>3. QED  BY <1>1, <2>1, <2>2
  <1>4. n \in M  BY <1>2, <1>3, NumberInduction
  <1>5. \E x \in S : \A y \in S : x >= y  BY <1>1, <1>4
  <1>6. QED  BY <1>5 DEF Max

-----------------------------------------------------------------------------
(* Journals                                                                *)

(* What there is in a journal j, as the operators of the module say of the *)
(* journal there is.                                                       *)
Upto(j, f) == SubSeq(j, 1, IF f < Len(j) THEN f ELSE Len(j))
EventAt(j, f) == IF f = 0 THEN None ELSE j[f]
Holds(j, t) == t.frontier <= Len(j) /\ EventAt(j, t.frontier) = t.anchor
HasSource(j, t) == LatestSource(Upto(j, t.frontier)) = t.source
PresentOf(j) ==
  [frontier |-> Len(j), anchor |-> EventAt(j, Len(j)), source |-> LatestSource(Upto(j, Len(j)))]

LEMMA AsItIs ==
  /\ \A f : Past(f) = Upto(journal, f)
  /\ \A t : AnchorHolds(t) <=> Holds(journal, t)
  /\ \A t : Readable(t) <=> HasSource(journal, t) /\ Holds(journal, t)
  /\ TokenAt(Frontier) = PresentOf(journal)
  <1>1. \A f : Past(f) = Upto(journal, f)  BY DEF Past, Upto, Frontier
  <1>2. \A f : AnchorAt(f) = EventAt(journal, f)  BY DEF AnchorAt, EventAt
  <1>3. \A t : AnchorHolds(t) <=> Holds(journal, t)
    BY <1>2 DEF AnchorHolds, Holds, Frontier
  <1>4. \A t : SourceHolds(t) <=> HasSource(journal, t)
    BY <1>1 DEF SourceHolds, HasSource
  <1>5. TokenAt(Frontier) = PresentOf(journal)
    BY <1>1, <1>2 DEF TokenAt, PresentOf, Frontier
  <1>6. QED  BY <1>1, <1>3, <1>4, <1>5 DEF Readable

(* A beginning of a journal                                                *)
LEMMA UptoIs ==
    ASSUME NEW j \in Seq(Events), NEW f \in Nat
    PROVE  /\ Upto(j, f) \in Seq(Events)
           /\ f <= Len(j) => Len(Upto(j, f)) = f /\ \A n \in 1..f : Upto(j, f)[n] = j[n]
  <1>1. PICK n : n = IF f < Len(j) THEN f ELSE Len(j)  OBVIOUS
  <1>2. n \in 0..Len(j) /\ (f <= Len(j) => n = f)  BY <1>1
  <1>3. PICK p : p = SubSeq(j, 1, n)  OBVIOUS
  <1>4. p \in Seq(Events) /\ Len(p) = n /\ \A k \in 1..n : p[k] = j[k]  BY <1>2, <1>3
  <1>5. Upto(j, f) = p  BY <1>1, <1>3 DEF Upto
  <1>6. QED  BY <1>2, <1>4, <1>5

LEMMA UptoAll ==
    ASSUME NEW j \in Seq(Events) PROVE Upto(j, Len(j)) = j
  <1>1. PICK f \in Nat : f = Len(j)  OBVIOUS
  <1>2. f <= Len(j)  BY <1>1
  <1>3. PICK p : p = Upto(j, f) /\ p \in Seq(Events) /\ Len(p) = f /\ \A n \in 1..f : p[n] = j[n]
    BY <1>2, UptoIs
  <1>4. Len(p) = Len(j) /\ \A n \in 1..Len(p) : p[n] = j[n]  BY <1>1, <1>3
  <1>5. p = j  BY <1>3, <1>4, SeqEqual
  <1>6. QED  BY <1>1, <1>3, <1>5

(* Journals that agree up to a position have there what the other has.     *)
LEMMA UptoAlike ==
    ASSUME NEW j \in Seq(Events), NEW k \in Seq(Events), NEW f \in Nat,
           f <= Len(j), f <= Len(k), \A n \in 1..f : k[n] = j[n]
    PROVE  Upto(k, f) = Upto(j, f) /\ EventAt(k, f) = EventAt(j, f)
  <1>1. PICK p, q : p = Upto(j, f) /\ q = Upto(k, f)  OBVIOUS
  <1>2. p \in Seq(Events) /\ Len(p) = f /\ \A n \in 1..f : p[n] = j[n]  BY <1>1, UptoIs
  <1>3. q \in Seq(Events) /\ Len(q) = f /\ \A n \in 1..f : q[n] = k[n]  BY <1>1, UptoIs
  <1>4. \A n \in 1..Len(p) : p[n] = q[n]  BY <1>2, <1>3
  <1>5. p = q  BY <1>2, <1>3, <1>4, SeqEqual
  <1>6. EventAt(k, f) = EventAt(j, f)
    <2>1. CASE f = 0  BY <2>1 DEF EventAt
    <2>2. CASE f # 0
      <3>1. f \in 1..f  BY <2>2
      <3>2. QED  BY <2>2, <3>1 DEF EventAt
    <2>3. QED  BY <2>1, <2>2
  <1>7. QED  BY <1>1, <1>5, <1>6

Stays(j, k, f) == Upto(k, f) = Upto(j, f) /\ EventAt(k, f) = EventAt(j, f)

LEMMA Grown ==
    ASSUME NEW j \in Seq(Events), NEW e \in Events, NEW k, k = Append(j, e)
    PROVE  /\ k \in Seq(Events) /\ Len(k) = Len(j) + 1 /\ k[Len(k)] = e
           /\ \A f \in Nat : f <= Len(j) => Stays(j, k, f)
  <1>1. /\ k \in Seq(Events) /\ Len(k) = Len(j) + 1 /\ k[Len(k)] = e /\ Len(j) \in Nat
        /\ \A n \in 1..Len(j) : k[n] = j[n]
    OBVIOUS
  <1>2. ASSUME NEW f \in Nat, f <= Len(j) PROVE Stays(j, k, f)
    <2>1. f <= Len(k) /\ \A n \in 1..f : k[n] = j[n]  BY <1>1, <1>2
    <2>2. QED  BY <1>1, <1>2, <2>1, UptoAlike DEF Stays
  <1>3. QED  BY <1>1, <1>2

LEMMA CutShort ==
    ASSUME NEW j \in Seq(Events), NEW n \in Nat, n < Len(j), NEW k, k = SubSeq(j, 1, n)
    PROVE  /\ k \in Seq(Events) /\ Len(k) = n
           /\ \A f \in Nat : f <= n => Stays(j, k, f)
  <1>1. k \in Seq(Events) /\ Len(k) = n /\ \A i \in 1..n : k[i] = j[i]  OBVIOUS
  <1>2. ASSUME NEW f \in Nat, f <= n PROVE Stays(j, k, f)
    <2>1. f <= Len(k) /\ f <= Len(j) /\ \A i \in 1..f : k[i] = j[i]  BY <1>1, <1>2
    <2>2. QED  BY <1>1, <2>1, UptoAlike DEF Stays
  <1>3. QED  BY <1>1, <1>2

(* A token whose frontier a step leaves as it was is as it was.            *)
LEMMA TokenStays ==
    ASSUME NEW j, NEW k, NEW t, t.frontier <= Len(j), t.frontier <= Len(k),
           Stays(j, k, t.frontier)
    PROVE  (Holds(k, t) <=> Holds(j, t)) /\ (HasSource(k, t) <=> HasSource(j, t))
  BY DEF Stays, Holds, HasSource

-----------------------------------------------------------------------------
(* Types *)

JournalTyped == journal \in Seq(Events) /\ Frontier <= MaxJournal

LEMMA SourceTypes ==
    ASSUME NEW past \in Seq(Events)
    PROVE  LatestSource(past) \in Sources \cup {None}
  <1>1. PICK S : S = SourcesIn(past)  OBVIOUS
  <1>2. CASE S = {}  BY <1>1, <1>2 DEF LatestSource
  <1>3. CASE S # {}
    <2>1. S \in SUBSET (1..Len(past)) /\ Len(past) \in Nat  BY <1>1 DEF SourcesIn
    <2>2. PICK n : n = Max(S)  OBVIOUS
    <2>3. n \in S  BY <1>3, <2>1, <2>2, LatestPosition
    <2>4. n \in 1..Len(past) /\ past[n][1] = "source"  BY <1>1, <2>3 DEF SourcesIn
    <2>5. PICK e \in Events : e = past[n]  BY <2>4
    <2>6. e[2] \in Sources  BY <2>4, <2>5 DEF Events
    <2>7. LatestSource(past) = e[2]  BY <1>1, <1>3, <2>2, <2>5 DEF LatestSource
    <2>8. QED  BY <2>6, <2>7
  <1>4. QED  BY <1>2, <1>3

(* The token of the present is of a snapshot that is there.                *)
LEMMA PresentIsThere ==
    ASSUME NEW j \in Seq(Events), Len(j) <= MaxJournal, NEW t, t = PresentOf(j)
    PROVE  /\ t \in Tokens /\ t # None /\ t.frontier = Len(j)
           /\ Holds(j, t) /\ HasSource(j, t)
  <1>1. Len(j) \in 0..MaxJournal  BY BoundsAssumption
  <1>2. EventAt(j, Len(j)) \in Events \cup {None}
    <2>1. CASE Len(j) = 0  BY <2>1 DEF EventAt
    <2>2. CASE Len(j) # 0
      <3>1. Len(j) \in 1..Len(j)  BY <2>2
      <3>2. j[Len(j)] \in Events  BY <3>1
      <3>3. QED  BY <2>2, <3>2 DEF EventAt
    <2>3. QED  BY <2>1, <2>2
  <1>3. LatestSource(Upto(j, Len(j))) \in Sources \cup {None}
    <2>1. Len(j) \in Nat  OBVIOUS
    <2>2. Upto(j, Len(j)) \in Seq(Events)  BY <2>1, UptoIs
    <2>3. QED  BY <2>2, SourceTypes
  <1>4. /\ t.frontier = Len(j) /\ t.anchor = EventAt(j, Len(j))
        /\ t.source = LatestSource(Upto(j, Len(j)))
    BY DEF PresentOf
  <1>5. t \in Tokens  BY <1>1, <1>2, <1>3 DEF PresentOf, Tokens
  <1>6. t # None  BY <1>5, NoneAssumption
  <1>7. t.frontier <= Len(j)  BY <1>4
  <1>8. QED  BY <1>4, <1>5, <1>6, <1>7 DEF Holds, HasSource

(* What the recursive function of Listed is.                               *)
IsListed(g, n, order, found) ==
  g = [i \in 0..n |-> IF i = 0 THEN <<>>
                      ELSE IF order[i] \in found THEN Append(g[i - 1], order[i]) ELSE g[i - 1]]

LEMMA ListedIsLonger ==
    ASSUME NEW n \in Nat, NEW order, NEW found, NEW f, IsListed(f, n, order, found),
           NEW g, g = [i \in 0..n + 1 |-> IF i \in 0..n THEN f[i]
                         ELSE IF order[i] \in found THEN Append(f[n], order[i]) ELSE f[n]]
    PROVE  IsListed(g, n + 1, order, found)
  <1>1. \A i \in 0..n : g[i] = f[i]  OBVIOUS
  <1>2. ASSUME NEW i \in 0..n + 1
        PROVE  g[i] = IF i = 0 THEN <<>>
                      ELSE IF order[i] \in found THEN Append(g[i - 1], order[i]) ELSE g[i - 1]
    <2>1. CASE i = 0  BY <2>1 DEF IsListed
    <2>2. CASE i \in 1..n
      <3>1. i \in 0..n /\ i - 1 \in 0..n /\ i # 0  BY <2>2
      <3>2. g[i] = f[i] /\ g[i - 1] = f[i - 1]  BY <1>1, <3>1
      <3>3. f[i] = IF order[i] \in found THEN Append(f[i - 1], order[i]) ELSE f[i - 1]
        BY <3>1 DEF IsListed
      <3>4. QED  BY <3>1, <3>2, <3>3
    <2>3. CASE i = n + 1
      <3>1. /\ n + 1 - 1 = n /\ n + 1 # 0 /\ n + 1 \notin 0..n
            /\ n \in 0..n /\ n + 1 \in 0..n + 1
        OBVIOUS
      <3>2. g[i] = IF order[i] \in found THEN Append(f[n], order[i]) ELSE f[n]
        BY <2>3, <3>1
      <3>3. g[i - 1] = f[n]  BY <1>1, <2>3, <3>1
      <3>4. QED  BY <2>3, <3>1, <3>2, <3>3
    <2>4. QED  BY <2>1, <2>2, <2>3
  <1>3. g = [i \in 0..n + 1 |-> g[i]]  OBVIOUS
  <1>4. QED  BY <1>2, <1>3 DEF IsListed

LEMMA ListedExists ==
    ASSUME NEW S, NEW order \in Seq(S), NEW found
    PROVE  \E f : IsListed(f, Len(order), order, found) /\ f[Len(order)] \in Seq(S)
  <1>1. PICK M : M = {n \in Nat : n <= Len(order) =>
                        \E f : IsListed(f, n, order, found) /\ f[n] \in Seq(S)}
    OBVIOUS
  <1>2. 0 \in M
    <2>1. PICK f : f = [i \in 0..0 |-> <<>>]  OBVIOUS
    <2>2. IsListed(f, 0, order, found)  BY <2>1 DEF IsListed
    <2>3. f[0] \in Seq(S)  BY <2>1
    <2>4. QED  BY <1>1, <2>2, <2>3
  <1>3. ASSUME NEW n \in Nat, n \in M PROVE n + 1 \in M
    <2> SUFFICES ASSUME n + 1 <= Len(order)
                 PROVE  \E f : IsListed(f, n + 1, order, found) /\ f[n + 1] \in Seq(S)
      BY <1>1
    <2>1. PICK f : IsListed(f, n, order, found) /\ f[n] \in Seq(S)
      <3>1. n <= Len(order)  OBVIOUS
      <3>2. QED  BY <1>1, <1>3, <3>1
    <2>2. PICK g : g = [i \in 0..n + 1 |-> IF i \in 0..n THEN f[i]
                          ELSE IF order[i] \in found THEN Append(f[n], order[i]) ELSE f[n]]
      OBVIOUS
    <2>3. IsListed(g, n + 1, order, found)  BY <2>1, <2>2, ListedIsLonger
    <2>4. g[n + 1] = IF order[n + 1] \in found THEN Append(f[n], order[n + 1]) ELSE f[n]
      <3>1. n + 1 \in 0..n + 1 /\ n + 1 \notin 0..n  OBVIOUS
      <3>2. QED  BY <2>2, <3>1
    <2>5. order[n + 1] \in S  OBVIOUS
    <2>6. g[n + 1] \in Seq(S)  BY <2>1, <2>4, <2>5
    <2>7. QED  BY <2>3, <2>6
  <1>4. Nat \subseteq M  BY <1>2, <1>3, NumberInduction
  <1>5. QED  BY <1>1, <1>4

LEMMA ListedTypes ==
    ASSUME NEW S, NEW order \in Seq(S), NEW found
    PROVE  Listed(order, found) \in Seq(S)
  <1> DEFINE k == CHOOSE rows : rows = [n \in 0..Len(order) |->
                    IF n = 0 THEN <<>>
                    ELSE IF order[n] \in found THEN Append(rows[n - 1], order[n]) ELSE rows[n - 1]]
  <1>1. \E f : IsListed(f, Len(order), order, found)  BY ListedExists
  <1>2. k = [n \in 0..Len(order) |->
               IF n = 0 THEN <<>>
               ELSE IF order[n] \in found THEN Append(k[n - 1], order[n]) ELSE k[n - 1]]
    BY <1>1, Zenon DEF IsListed
  <1>3. Listed(order, found) = k[Len(order)]  BY Zenon DEF Listed
  <1> HIDE DEF k
  <1>4. PICK M : M = {n \in Nat : n <= Len(order) => k[n] \in Seq(S)}  OBVIOUS
  <1>5. 0 \in M
    <2>1. k[0] = <<>>  BY <1>2
    <2>2. k[0] \in Seq(S)  BY <2>1
    <2>3. QED  BY <1>4, <2>2
  <1>6. ASSUME NEW n \in Nat, n \in M PROVE n + 1 \in M
    <2> SUFFICES ASSUME n + 1 <= Len(order) PROVE k[n + 1] \in Seq(S)  BY <1>4
    <2>1. k[n] \in Seq(S)  BY <1>4, <1>6
    <2>2. k[n + 1] = IF order[n + 1] \in found THEN Append(k[n], order[n + 1]) ELSE k[n]
      <3>1. n + 1 \in 0..Len(order) /\ n + 1 # 0 /\ (n + 1) - 1 = n  OBVIOUS
      <3>2. QED  BY <1>2, <3>1
    <2>3. order[n + 1] \in S  OBVIOUS
    <2>4. QED  BY <2>1, <2>2, <2>3
  <1>7. Nat \subseteq M  BY <1>5, <1>6, NumberInduction
  <1>8. QED  BY <1>3, <1>4, <1>7

LEMMA RowsTypes ==
    ASSUME NEW kind \in Kinds, NEW filter, NEW past, NEW coded
    PROVE  RowsOf(kind, filter, past, coded) \in Seq(Claims \cup Codes)
  <1>1. Order(kind) \in Seq(Claims \cup Codes)
    BY OrderAssumption, SeqMonotonic DEF Order
  <1>2. QED  BY <1>1, ListedTypes DEF RowsOf

StoreInv == JournalTyped /\ replaced \in 0..MaxReplaced

-----------------------------------------------------------------------------
(* The inductive invariant, of values that the journal and the agent's     *)
(* variables may have                                                      *)

(* The calls: a running call reads at a snapshot that is there; the held   *)
(* one is there unless the journal was cut, and it is the present one if   *)
(* nothing happened since.                                                 *)
CallFine(j, h, c, s, sn) ==
  /\ c # None => c \in Tokens /\ Holds(j, c)
  /\ h # None => h \in Tokens
  /\ h = None => c = None /\ s = None
  /\ h # None /\ sn \in {"same", "grown"} => Holds(j, h) /\ HasSource(j, h)
  /\ h # None /\ sn = "same" => h = PresentOf(j) /\ c \in {None, h}
  /\ sn \in {"same", "grown", "cut", "recurred"}

(* A journal that has the held token's event, not by recurrence, begins    *)
(* with the one the token was minted of.                                   *)
OriginFine(j, h, o, sn) ==
  /\ o \in Seq(Events)
  /\ h # None /\ sn # "recurred" /\ Holds(j, h) => Upto(j, h.frontier) = o

Searches ==
  [kind : Kinds, filter : Filters, rows : Seq(Claims \cup Codes),
   coded : (SUBSET BOOLEAN) \ {{}}, pinned : BOOLEAN, cursor : Cursors \cup {None}]

(* The rows given so far are a beginning of what the search would give on  *)
(* one page, up to where the cursor goes on.                               *)
Begins(rows, cursor, whole) ==
  /\ Len(rows) <= Len(whole)
  /\ rows = SubSeq(whole, 1, Len(rows))
  /\ cursor = None => Len(rows) = Len(whole)
  /\ cursor # None => cursor.offset = Len(rows)

PagesFit(s, o, sn) ==
  sn # "recurred" =>
    \A coded \in BOOLEAN : s.coded = {coded} /\ (s.kind = "knowledge" \/ s.pinned) =>
      Begins(s.rows, s.cursor, RowsOf(s.kind, s.filter, o, coded))

SearchFine(h, s, o, sn) ==
  s # None =>
    /\ s \in Searches
    /\ s.cursor # None => s.cursor.identity = Identity(s.kind, s.filter, h)
    /\ PagesFit(s, o, sn)

Agree(sd, o, sn) ==
  /\ sd \subseteq Words
  /\ sn # "recurred" =>
       \A now \in sd :
         /\ now.status = ViewOf(o)[now.claim]
         /\ now.status = "current" /\ now.answer # None => now.answer = ExplainedAs(now.claim, o)

Due(re, sn) ==
  /\ re \in {"ok", "missing", "cursor refused", "refused"}
  /\ re = "refused" => sn \in {"cut", "recurred"}
  /\ re = "cursor refused" => sn # "same"

AgentFine(j, c, h, s, re, sd, o, sn) ==
  /\ CallFine(j, h, c, s, sn)
  /\ OriginFine(j, h, o, sn)
  /\ SearchFine(h, s, o, sn)
  /\ Agree(sd, o, sn)
  /\ Due(re, sn)

ReadsInv ==
  /\ StoreInv
  /\ artifact \in [Sources -> BOOLEAN]
  /\ AgentFine(journal, call, held, search, reply, said, origin, since)

-----------------------------------------------------------------------------
(* What happens elsewhere *)

(* Time passes for an agent that takes no step: what was said and searched *)
(* for stays right.                                                        *)
LEMMA Later ==
    ASSUME NEW j, NEW c, NEW h, NEW s, NEW re, NEW sd, NEW o, NEW sn,
           AgentFine(j, c, h, s, re, sd, o, sn),
           NEW k, NEW later \in {"same", "grown", "cut", "recurred"},
           CallFine(k, h, c, s, later), OriginFine(k, h, o, later),
           sn = "recurred" => later = "recurred", sn = "cut" => later \in {"cut", "recurred"},
           later = "same" => sn = "same"
    PROVE  AgentFine(k, c, h, s, re, sd, o, later)
  <1>1. SearchFine(h, s, o, later)  BY DEF AgentFine, SearchFine, PagesFit
  <1>2. Agree(sd, o, later)  BY DEF AgentFine, Agree
  <1>3. Due(re, later)  BY DEF AgentFine, Due
  <1>4. QED  BY <1>1, <1>2, <1>3 DEF AgentFine

LEMMA AppendStep ==
    ASSUME ReadsInv, NEW event \in Events, Append_(event)
    PROVE  ReadsInv'
  <1>1. PICK j, c, h, s, o, sn : /\ j = journal /\ c = call /\ h = held /\ s = search
                                 /\ o = origin /\ sn = since
    OBVIOUS
  <1>2. PICK re, sd : re = reply /\ sd = said  OBVIOUS
  <1>3. PICK k, later : k = journal' /\ later = since'  OBVIOUS
  <1>4. /\ AgentFine(j, c, h, s, re, sd, o, sn) /\ j \in Seq(Events) /\ Len(j) <= MaxJournal
        /\ CallFine(j, h, c, s, sn) /\ OriginFine(j, h, o, sn)
    BY <1>1, <1>2 DEF ReadsInv, StoreInv, JournalTyped, Frontier, AgentFine
  <1>5. /\ k = Append(j, event) /\ Len(j) < MaxJournal
        /\ later = IF h = None THEN sn
                   ELSE IF Len(j) + 1 = h.frontier /\ event = h.anchor /\ k # o THEN "recurred"
                   ELSE IF sn = "same" THEN "grown" ELSE sn
    BY <1>1, <1>3 DEF Append_, Recurs, Frontier
  <1>6. /\ k \in Seq(Events) /\ Len(k) = Len(j) + 1 /\ k[Len(k)] = event
        /\ \A f \in Nat : f <= Len(j) => Stays(j, k, f)
    BY <1>4, <1>5, Grown
  <1>7. sn \in {"same", "grown", "cut", "recurred"} /\ later \in {"same", "grown", "cut", "recurred"}
    BY <1>4, <1>5 DEF CallFine
  <1>8. ASSUME NEW t \in Tokens, t.frontier <= Len(j)
        PROVE  /\ Holds(k, t) <=> Holds(j, t)
               /\ HasSource(k, t) <=> HasSource(j, t)
               /\ Upto(k, t.frontier) = Upto(j, t.frontier)
    <2>1. t.frontier \in Nat /\ Len(j) \in Nat  BY <1>4, BoundsAssumption DEF Tokens
    <2>2. t.frontier <= Len(k) /\ Stays(j, k, t.frontier)  BY <1>6, <1>8, <2>1
    <2>3. QED  BY <1>8, <2>2, TokenStays DEF Stays
  <1>9. CallFine(k, h, c, s, later)
    <2>1. c # None => c \in Tokens /\ Holds(k, c)  BY <1>4, <1>8 DEF CallFine, Holds
    <2>2. ASSUME h # None, later \in {"same", "grown"} PROVE Holds(k, h) /\ HasSource(k, h)
      <3>1. sn \in {"same", "grown"}  BY <1>5, <1>7, <2>2
      <3>2. h \in Tokens /\ Holds(j, h) /\ HasSource(j, h)  BY <1>4, <2>2, <3>1 DEF CallFine
      <3>3. QED  BY <1>8, <3>2 DEF Holds
    <2>3. ~ (h # None /\ later = "same")  BY <1>5
    <2>4. QED  BY <1>4, <1>7, <2>1, <2>2, <2>3 DEF CallFine
  <1>10. OriginFine(k, h, o, later)
    <2> SUFFICES ASSUME h # None, later # "recurred", Holds(k, h)
                 PROVE  Upto(k, h.frontier) = o
      BY <1>4 DEF OriginFine
    <2>1. h \in Tokens /\ h.frontier \in Nat /\ Len(j) \in Nat
      BY <1>4, BoundsAssumption DEF CallFine, Tokens
    <2>2. CASE h.frontier <= Len(j)
      <3>1. sn # "recurred"  BY <1>5
      <3>2. Holds(j, h) /\ Upto(k, h.frontier) = Upto(j, h.frontier)  BY <1>8, <2>1, <2>2
      <3>3. QED  BY <1>4, <3>1, <3>2 DEF OriginFine
    <2>3. CASE ~ (h.frontier <= Len(j))
      <3>1. h.frontier = Len(k) /\ h.frontier # 0 /\ Len(j) + 1 = h.frontier
        BY <1>6, <2>1, <2>3 DEF Holds
      <3>2. h.anchor = event  BY <1>6, <3>1 DEF Holds, EventAt
      <3>3. k = o  BY <1>5, <3>1, <3>2
      <3>4. QED  BY <1>6, <3>1, <3>3, UptoAll
    <2>4. QED  BY <2>2, <2>3
  <1>11. AgentFine(k, c, h, s, re, sd, o, later)
    <2>1. /\ sn = "recurred" => later = "recurred"
          /\ sn = "cut" => later \in {"cut", "recurred"}
          /\ later = "same" => sn = "same"
      BY <1>5, <1>7
    <2>2. QED  BY <1>4, <1>7, <1>9, <1>10, <2>1, Later
  <1>12. StoreInv'
    <2>1. Len(k) <= MaxJournal  BY <1>4, <1>5, <1>6, BoundsAssumption
    <2>2. replaced' = replaced  BY DEF Append_
    <2>3. QED  BY <1>3, <1>6, <2>1, <2>2 DEF ReadsInv, StoreInv, JournalTyped, Frontier
  <1>13. artifact' \in [Sources -> BOOLEAN]
    <2>1. artifact \in [Sources -> BOOLEAN]  BY DEF ReadsInv
    <2>2. CASE event[1] = "index"
      <3>1. artifact' = [artifact EXCEPT ![event[2]] = TRUE]  BY <2>2 DEF Append_
      <3>2. QED  BY <2>1, <3>1
    <2>3. CASE event[1] # "index"
      BY <2>1, <2>3 DEF Append_
    <2>4. QED  BY <2>2, <2>3
  <1>14. /\ c = call' /\ h = held' /\ s = search' /\ re = reply' /\ sd = said' /\ o = origin'
    BY <1>1, <1>2 DEF Append_, agent
  <1>15. QED  BY <1>3, <1>11, <1>12, <1>13, <1>14 DEF ReadsInv

LEMMA ReplaceStep ==
    ASSUME ReadsInv, NEW n \in 0..MaxJournal, Replace(n)
    PROVE  ReadsInv'
  <1>1. PICK j, c, h, s, o, sn : /\ j = journal /\ c = call /\ h = held /\ s = search
                                 /\ o = origin /\ sn = since
    OBVIOUS
  <1>2. PICK re, sd : re = reply /\ sd = said  OBVIOUS
  <1>3. PICK k, later : k = journal' /\ later = since'  OBVIOUS
  <1>4. /\ AgentFine(j, c, h, s, re, sd, o, sn) /\ j \in Seq(Events) /\ Len(j) <= MaxJournal
        /\ CallFine(j, h, c, s, sn) /\ OriginFine(j, h, o, sn)
    BY <1>1, <1>2 DEF ReadsInv, StoreInv, JournalTyped, Frontier, AgentFine
  <1>5. /\ n \in Nat /\ k = SubSeq(j, 1, n) /\ n < Len(j) /\ c = None
        /\ later = IF h # None /\ sn # "recurred" THEN "cut" ELSE sn
    BY <1>1, <1>3, BoundsAssumption DEF Replace, Frontier
  <1>6. k \in Seq(Events) /\ Len(k) = n /\ \A f \in Nat : f <= n => Stays(j, k, f)
    BY <1>4, <1>5, CutShort
  <1>7. sn \in {"same", "grown", "cut", "recurred"} /\ later \in {"same", "grown", "cut", "recurred"}
    BY <1>4, <1>5 DEF CallFine
  <1>8. CallFine(k, h, c, s, later)
    <2>1. ~ (h # None /\ later \in {"same", "grown"})  BY <1>5
    <2>2. QED  BY <1>4, <1>5, <1>7, <2>1 DEF CallFine
  <1>9. OriginFine(k, h, o, later)
    <2> SUFFICES ASSUME h # None, later # "recurred", Holds(k, h)
                 PROVE  Upto(k, h.frontier) = o
      BY <1>4 DEF OriginFine
    <2>1. h \in Tokens /\ h.frontier \in Nat  BY <1>4, BoundsAssumption DEF CallFine, Tokens
    <2>2. h.frontier <= n /\ h.frontier <= Len(j) /\ h.frontier <= Len(k)
      BY <1>4, <1>5, <1>6, <2>1 DEF Holds
    <2>3. Stays(j, k, h.frontier)  BY <1>6, <2>1, <2>2
    <2>4. Holds(j, h)  BY <2>2, <2>3, TokenStays
    <2>5. sn # "recurred"  BY <1>5
    <2>6. QED  BY <1>4, <2>3, <2>4, <2>5 DEF OriginFine, Stays
  <1>10. AgentFine(k, c, h, s, re, sd, o, later)
    <2>1. /\ sn = "recurred" => later = "recurred"
          /\ sn = "cut" => later \in {"cut", "recurred"}
          /\ later = "same" => sn = "same"
      BY <1>5, <1>7
    <2>2. QED  BY <1>4, <1>7, <1>8, <1>9, <2>1, Later
  <1>11. StoreInv'
    <2>1. Len(k) <= MaxJournal  BY <1>4, <1>5, <1>6, BoundsAssumption
    <2>2. replaced' \in 0..MaxReplaced
      BY BoundsAssumption DEF Replace, ReadsInv, StoreInv
    <2>3. QED  BY <1>3, <1>6, <2>1, <2>2 DEF StoreInv, JournalTyped, Frontier
  <1>12. /\ c = call' /\ h = held' /\ s = search' /\ re = reply' /\ sd = said' /\ o = origin'
         /\ artifact' = artifact
    BY <1>1, <1>2 DEF Replace, agent
  <1>13. QED  BY <1>3, <1>10, <1>11, <1>12 DEF ReadsInv

LEMMA ArtifactStep ==
    ASSUME ReadsInv, NEW x \in Sources, LoseArtifact(x) \/ Rebuild(x)
    PROVE  ReadsInv'
  <1>1. artifact' \in [Sources -> BOOLEAN]  BY DEF ReadsInv, LoseArtifact, Rebuild
  <1>2. UNCHANGED <<journal, replaced, since>> /\ UNCHANGED agent
    BY DEF LoseArtifact, Rebuild
  <1>3. QED  BY <1>1, <1>2 DEF ReadsInv, StoreInv, JournalTyped, Frontier, agent

LEMMA StutterStep ==
    ASSUME ReadsInv, UNCHANGED vars
    PROVE  ReadsInv'
  BY DEF vars, store, agent, ReadsInv, StoreInv, JournalTyped, Frontier

-----------------------------------------------------------------------------
(* The agent's own steps *)

(* The agent's steps leave the journal alone: it is enough that the new    *)
(* values fit the journal as it is.                                        *)
LEMMA AgentStep ==
    ASSUME ReadsInv, UNCHANGED store,
           AgentFine(journal, call', held', search', reply', said', origin', since')
    PROVE  ReadsInv'
  BY DEF store, ReadsInv, StoreInv, JournalTyped, Frontier

LEMMA BeginStep ==
    ASSUME ReadsInv, Begin
    PROVE  ReadsInv'
  <1>1. PICK j, t : j = journal /\ t = PresentOf(j)  OBVIOUS
  <1>2. j \in Seq(Events) /\ Len(j) <= MaxJournal
    BY <1>1 DEF ReadsInv, StoreInv, JournalTyped, Frontier
  <1>3. t \in Tokens /\ t # None /\ t.frontier = Len(j) /\ Holds(j, t) /\ HasSource(j, t)
    BY <1>1, <1>2, PresentIsThere
  <1>4. /\ held' = t /\ call' = t /\ search' = None /\ reply' = "ok" /\ said' = {}
        /\ origin' = j /\ since' = "same" /\ UNCHANGED store
    BY <1>1, AsItIs DEF Begin, ReadsInv, AgentFine, CallFine
  <1>5. CallFine(j, t, t, None, "same")  BY <1>1, <1>3 DEF CallFine
  <1>6. OriginFine(j, t, j, "same")  BY <1>2, <1>3, UptoAll DEF OriginFine
  <1>7. SearchFine(t, None, j, "same") /\ Agree({}, j, "same") /\ Due("ok", "same")
    BY DEF SearchFine, Agree, Due
  <1>8. AgentFine(j, t, t, None, "ok", {}, j, "same")  BY <1>5, <1>6, <1>7 DEF AgentFine
  <1>9. QED  BY <1>1, <1>4, <1>8, AgentStep

LEMMA PinStep ==
    ASSUME ReadsInv, Pin
    PROVE  ReadsInv'
  <1>1. PICK j, h, s, o, sn :
           j = journal /\ h = held /\ s = search /\ o = origin /\ sn = since
    OBVIOUS
  <1>2. PICK c, re : c = call' /\ re = reply'  OBVIOUS
  <1>3. AgentFine(j, call, h, s, reply, said, o, sn)  BY <1>1 DEF ReadsInv
  <1>4. /\ h # None
        /\ \/ HasSource(j, h) /\ Holds(j, h) /\ c = h /\ re = "ok"
           \/ ~ (HasSource(j, h) /\ Holds(j, h)) /\ c = None /\ re = "refused"
    BY <1>1, <1>2, AsItIs DEF Pin
  <1>5. CallFine(j, h, call, s, sn)  BY <1>3 DEF AgentFine
  <1>6. CallFine(j, h, c, s, sn)  BY <1>4, <1>5 DEF CallFine
  <1>7. Due(re, sn)  BY <1>4, <1>5 DEF CallFine, Due
  <1>8. Agree({}, o, sn)  BY DEF Agree
  <1>9. AgentFine(j, c, h, s, re, {}, o, sn)
    BY <1>3, <1>6, <1>7, <1>8 DEF AgentFine
  <1>10. /\ c = call' /\ h = held' /\ s = search' /\ re = reply' /\ {} = said'
         /\ o = origin' /\ sn = since' /\ UNCHANGED store
    BY <1>1, <1>2 DEF Pin
  <1>11. QED  BY <1>1, <1>9, <1>10, AgentStep

LEMMA UnpinnedStep ==
    ASSUME ReadsInv, Unpinned
    PROVE  ReadsInv'
  <1>1. PICK j, h, s, o, sn :
           j = journal /\ h = held /\ s = search /\ o = origin /\ sn = since
    OBVIOUS
  <1>2. PICK t : t = PresentOf(j)  OBVIOUS
  <1>3. AgentFine(j, call, h, s, reply, said, o, sn)  BY <1>1 DEF ReadsInv
  <1>4. j \in Seq(Events) /\ Len(j) <= MaxJournal
    BY <1>1 DEF ReadsInv, StoreInv, JournalTyped, Frontier
  <1>5. t \in Tokens /\ t # None /\ Holds(j, t)  BY <1>2, <1>4, PresentIsThere
  <1>6. CallFine(j, h, call, s, sn)  BY <1>3 DEF AgentFine
  <1>7. h # None  BY <1>1, <1>6 DEF Unpinned, CallFine
  <1>8. CallFine(j, h, t, s, sn)  BY <1>2, <1>5, <1>6, <1>7 DEF CallFine
  <1>9. Due("ok", sn) /\ Agree({}, o, sn)  BY DEF Due, Agree
  <1>10. AgentFine(j, t, h, s, "ok", {}, o, sn)
    BY <1>3, <1>8, <1>9 DEF AgentFine
  <1>11. /\ t = call' /\ h = held' /\ s = search' /\ "ok" = reply' /\ {} = said'
         /\ o = origin' /\ sn = since' /\ UNCHANGED store
    BY <1>1, <1>2, AsItIs DEF Unpinned
  <1>12. QED  BY <1>1, <1>10, <1>11, AgentStep

LEMMA NoAgent ==
    ASSUME NEW j PROVE AgentFine(j, None, None, None, "ok", {}, <<>>, "same")
  <1>1. CallFine(j, None, None, None, "same")  BY DEF CallFine
  <1>2. <<>> \in Seq(Events)  OBVIOUS
  <1>3. QED  BY <1>1, <1>2 DEF AgentFine, OriginFine, SearchFine, Agree, Due

LEMMA ForgetStep ==
    ASSUME ReadsInv, Forget
    PROVE  ReadsInv'
  <1>1. /\ None = call' /\ None = held' /\ None = search' /\ "ok" = reply' /\ {} = said'
        /\ <<>> = origin' /\ "same" = since' /\ UNCHANGED store
    BY DEF Forget
  <1>2. QED  BY <1>1, NoAgent, AgentStep


-----------------------------------------------------------------------------
(* Reading *)

Answers == {None, "stale", "contradicted", "supported", "unverified"}

(* Words of a snapshot: of a claim that holds there, with no answer or the *)
(* one that an explanation gives.                                          *)
WordsOf(past) ==
  {w \in Words : \E x \in Claims, a \in Answers :
     /\ w = Says(x, past, a)
     /\ a # None /\ ViewOf(past)[x] = "current" => a = ExplainedAs(x, past)}

LEMMA WordsAgree ==
    ASSUME NEW past, NEW W \in SUBSET WordsOf(past), NEW o, NEW sn,
           sn # "recurred" => past = o
    PROVE  Agree(W, o, sn)
  <1>1. ASSUME NEW now \in W, sn # "recurred"
        PROVE  /\ now.status = ViewOf(o)[now.claim]
               /\ now.status = "current" /\ now.answer # None => now.answer = ExplainedAs(now.claim, o)
    <2>1. PICK x \in Claims, a \in Answers :
             /\ now = Says(x, past, a)
             /\ a # None /\ ViewOf(past)[x] = "current" => a = ExplainedAs(x, past)
      BY DEF WordsOf
    <2>2. now.claim = x /\ now.status = ViewOf(past)[x] /\ now.answer = a
      BY <2>1 DEF Says
    <2>3. past = o  BY <1>1
    <2>4. QED  BY <2>1, <2>2, <2>3
  <1>2. W \subseteq Words  BY DEF WordsOf
  <1>3. QED  BY <1>1, <1>2 DEF Agree

LEMMA SaysTypes ==
    ASSUME NEW x \in Claims, NEW past, NEW a \in Answers
    PROVE  Says(x, past, a) \in Words
  <1>1. PICK status : status = ViewOf(past)[x]  OBVIOUS
  <1>2. status \in {"absent", "current", "superseded"}  BY <1>1 DEF ViewOf
  <1>3. QED  BY <1>1, <1>2 DEF Says, Words, Answers

LEMMA WordOf ==
    ASSUME NEW x \in Claims, NEW past, NEW a \in Answers,
           a # None /\ ViewOf(past)[x] = "current" => a = ExplainedAs(x, past)
    PROVE  Says(x, past, a) \in WordsOf(past)
  <1>1. Says(x, past, a) \in Words  BY SaysTypes
  <1>2. QED  BY <1>1 DEF WordsOf

(* What a running call replays, when it reads at the held token, is the    *)
(* journal the token was minted of.                                        *)
LEMMA PastIsOrigin ==
    ASSUME ReadsInv, call # None, call = held, since # "recurred"
    PROVE  Past(call.frontier) = origin
  <1>1. PICK j, h : j = journal /\ h = held  OBVIOUS
  <1>2. CallFine(j, h, call, search, since) /\ OriginFine(j, h, origin, since)
    BY <1>1 DEF ReadsInv, AgentFine
  <1>3. h # None /\ Holds(j, h)  BY <1>1, <1>2 DEF CallFine
  <1>4. Upto(j, h.frontier) = origin  BY <1>2, <1>3 DEF OriginFine
  <1>5. QED  BY <1>1, <1>4, AsItIs

(* A read says what it reads, of the held snapshot or of none, and ends    *)
(* the call.                                                               *)
LEMMA ReadStep ==
    ASSUME ReadsInv, call # None, call' = None, UNCHANGED <<store, held, origin, since>>,
           NEW s, s = search', SearchFine(held, s, origin, since),
           NEW re \in {"ok", "missing"}, re = reply',
           NEW W, W \in SUBSET WordsOf(Past(call.frontier)),
           said' = IF call = held THEN W ELSE {}
    PROVE  ReadsInv'
  <1>1. PICK j, h, o, sn, sd : j = journal /\ h = held /\ o = origin /\ sn = since /\ sd = said'
    OBVIOUS
  <1>2. AgentFine(j, call, h, search, reply, said, o, sn)
    BY <1>1 DEF ReadsInv
  <1>3. CallFine(j, h, call, search, sn) /\ OriginFine(j, h, o, sn)  BY <1>2 DEF AgentFine
  <1>4. h # None  BY <1>3 DEF CallFine
  <1>5. CallFine(j, h, None, s, sn)  BY <1>3, <1>4 DEF CallFine
  <1>6. Agree(sd, o, sn)
    <2>1. CASE call = h
      <3>1. sd = W  BY <1>1, <2>1
      <3>2. PICK past : past = Past(call.frontier)  OBVIOUS
      <3>3. sn # "recurred" => past = o  BY <1>1, <2>1, <3>2, PastIsOrigin
      <3>4. sd \in SUBSET WordsOf(past)  BY <3>1, <3>2
      <3>5. QED  BY <3>3, <3>4, WordsAgree
    <2>2. CASE call # h
      <3>1. sd = {}  BY <1>1, <2>2
      <3>2. QED  BY <3>1 DEF Agree
    <2>3. QED  BY <2>1, <2>2
  <1>7. Due(re, sn)  BY DEF Due
  <1>8. SearchFine(h, s, o, sn)  BY <1>1
  <1>9. AgentFine(j, None, h, s, re, sd, o, sn)
    BY <1>3, <1>5, <1>6, <1>7, <1>8 DEF AgentFine
  <1>10. h = held' /\ o = origin' /\ sn = since'  BY <1>1
  <1>11. UNCHANGED store  OBVIOUS
  <1>12. QED  BY <1>1, <1>9, <1>10, <1>11, AgentStep

LEMMA AnswerStep ==
    ASSUME ReadsInv, NEW x \in Claims, Explain(x) \/ Triangulate(x)
    PROVE  ReadsInv'
  <1>1. PICK past, s, re : past = Past(call.frontier) /\ s = search' /\ re = reply'  OBVIOUS
  <1>2. PICK a \in Answers :
           /\ Answer(x, a)
           /\ ViewOf(past)[x] = "current" => a = ExplainedAs(x, past)
    <2>1. ExplainedAs(x, past) \in Answers  BY DEF ExplainedAs, Answers
    <2>2. TriangulatedAs(x, past) \in Answers  BY DEF TriangulatedAs, Answers
    <2>3. ViewOf(past)[x] = "current" => TriangulatedAs(x, past) = ExplainedAs(x, past)
      BY DEF TriangulatedAs, ExplainedAs
    <2>4. QED  BY <1>1, <2>1, <2>2, <2>3 DEF Explain, Triangulate
  <1>3. PICK W : /\ W \in SUBSET WordsOf(past) /\ re \in {"ok", "missing"}
                 /\ said' = IF call = held THEN W ELSE {}
    <2>1. Says(x, past, a) \in WordsOf(past)  BY <1>2, WordOf
    <2>2. None \in Answers  BY DEF Answers
    <2>3. Says(x, past, None) \in WordsOf(past)  BY <2>2, WordOf
    <2>4. QED  BY <1>1, <1>2, <2>1, <2>3 DEF Answer, Say
  <1>4. /\ call # None /\ call' = None /\ UNCHANGED <<store, held, origin, since>>
        /\ s = search
    BY <1>1, <1>2 DEF Answer
  <1>5. SearchFine(held, s, origin, since)  BY <1>4 DEF ReadsInv, AgentFine
  <1>6. W \in SUBSET WordsOf(Past(call.frontier))  BY <1>1, <1>3
  <1>7. QED  BY <1>1, <1>3, <1>4, <1>5, <1>6, ReadStep

LEMMA ReadContextStep ==
    ASSUME ReadsInv, ReadContext
    PROVE  ReadsInv'
  <1>1. PICK past, s, W : /\ past = Past(call.frontier) /\ s = search
                          /\ W = {Says(x, past, None) : x \in Claims}
    OBVIOUS
  <1>2. ASSUME NEW x \in Claims PROVE Says(x, past, None) \in WordsOf(past)
    <2>1. None \in Answers  BY DEF Answers
    <2>2. QED  BY <2>1, WordOf
  <1>3. W \in SUBSET WordsOf(Past(call.frontier))  BY <1>1, <1>2
  <1>4. /\ call # None /\ call' = None /\ UNCHANGED <<store, held, origin, since>>
        /\ s = search' /\ "ok" = reply'
        /\ said' = IF call = held THEN W ELSE {}
    BY <1>1 DEF ReadContext, Say
  <1>5. SearchFine(held, s, origin, since)  BY <1>1 DEF ReadsInv, AgentFine
  <1>6. QED  BY <1>3, <1>4, <1>5, ReadStep

-----------------------------------------------------------------------------
(* Searching *)

LEMMA RowsAre ==
    ASSUME NEW kind, NEW filter, NEW token
    PROVE  /\ Rows(kind, filter, token)
                = RowsOf(kind, filter, Past(token.frontier), Coded(kind, filter, token))
           /\ artifact \in [Sources -> BOOLEAN] /\ token \in Tokens =>
                Coded(kind, filter, token) \in BOOLEAN
  <1>1. Rows(kind, filter, token)
          = RowsOf(kind, filter, Past(token.frontier), Coded(kind, filter, token))
    BY Zenon DEF Rows
  <1>2. QED  BY <1>1 DEF Coded, CodeSearched, CodeLoaded

(* A page ends where its cursor goes on.                                   *)
GoesOn(rows, offset, page, cursor) ==
  offset <= Len(rows) =>
    \E e \in Nat :
      /\ offset <= e /\ e <= Len(rows) /\ Len(page) = e - offset
      /\ page = SubSeq(rows, offset + 1, e)
      /\ cursor = None => e = Len(rows)
      /\ cursor # None => cursor.offset = e

LEMMA OnePage ==
    ASSUME NEW S, NEW rows \in Seq(S), NEW offset \in Nat,
           NEW kind, NEW filter \in Filters, call \in Tokens,
           NEW page, page = PageFrom(rows, offset),
           NEW cursor, cursor = CursorAfter(kind, filter, offset, rows)
    PROVE  /\ page \in Seq(S)
           /\ cursor \in Cursors \cup {None}
           /\ cursor # None => cursor.identity = Identity(kind, filter, call)
           /\ GoesOn(rows, offset, page, cursor)
  <1>1. PICK e : e = IF offset + PageSize < Len(rows) THEN offset + PageSize ELSE Len(rows)
    OBVIOUS
  <1>2. /\ e \in Nat /\ e <= Len(rows) /\ Len(rows) \in Nat
        /\ offset <= Len(rows) => offset <= e
    BY <1>1, PageAssumption
  <1>3. page = SubSeq(rows, offset + 1, e)  BY <1>1 DEF PageFrom
  <1>4. PageFrom(rows, offset) = page  OBVIOUS
  <1>5. /\ page \in Seq(S)
        /\ Len(page) = IF offset + 1 <= e THEN e - offset ELSE 0
    BY <1>2, <1>3
  <1>6. PICK id : id = Identity(kind, filter, call)  OBVIOUS
  <1>7. id \in {None} \cup (Filters \X Tokens)  BY <1>6 DEF Identity
  <1>8. PICK on : on = [identity |-> id, offset |-> offset + PageSize]  OBVIOUS
  <1>9. on \in Cursors /\ on.identity = id /\ on.offset = offset + PageSize
    BY <1>7, <1>8, PageAssumption DEF Cursors
  <1>10. on # None  BY <1>9, CursorAssumption
  <1>11. cursor = IF offset + Len(page) < Len(rows) THEN on ELSE None
    BY <1>4, <1>6, <1>8 DEF CursorAfter
  <1>12. ASSUME offset <= Len(rows)
         PROVE  /\ offset <= e /\ e <= Len(rows) /\ Len(page) = e - offset
                /\ e = IF offset + Len(page) < Len(rows) THEN offset + PageSize ELSE Len(rows)
    BY <1>1, <1>2, <1>5, <1>12, PageAssumption
  <1>13. GoesOn(rows, offset, page, cursor)
    BY <1>2, <1>3, <1>9, <1>10, <1>11, <1>12 DEF GoesOn
  <1>14. QED  BY <1>4, <1>5, <1>6, <1>9, <1>10, <1>11, <1>13

LEMMA WordsOnPage ==
    ASSUME NEW page
    PROVE  SaidOn(page) \in SUBSET WordsOf(Past(call.frontier))
  <1>1. PICK past : past = Past(call.frontier)  OBVIOUS
  <1>2. ASSUME NEW x \in Claims PROVE Says(x, past, None) \in WordsOf(past)
    <2>1. None \in Answers  BY DEF Answers
    <2>2. QED  BY <2>1, WordOf
  <1>3. QED  BY <1>1, <1>2 DEF SaidOn

LEMMA NewSearchStep ==
    ASSUME ReadsInv, NEW kind \in Kinds, NEW filter \in Filters, NewSearch(kind, filter)
    PROVE  ReadsInv'
  <1>1. PICK h, o, sn, rows, page, b, cursor :
           /\ h = held /\ o = origin /\ sn = since
           /\ rows = Rows(kind, filter, call) /\ page = PageFrom(rows, 0)
           /\ b = Coded(kind, filter, call) /\ cursor = CursorAfter(kind, filter, 0, rows)
    OBVIOUS
  <1>2. PICK s : s = [kind |-> kind, filter |-> filter, rows |-> page,
                      coded |-> {b}, pinned |-> TRUE, cursor |-> cursor]
    OBVIOUS
  <1>3. /\ call = h /\ call # None /\ s = search' /\ call' = None /\ reply' = "ok"
        /\ UNCHANGED <<store, held, origin, since>>
        /\ said' = IF call = held THEN SaidOn(page) ELSE {}
    BY <1>1, <1>2 DEF NewSearch, Say
  <1>4. call \in Tokens /\ artifact \in [Sources -> BOOLEAN]
    BY <1>3 DEF ReadsInv, AgentFine, CallFine
  <1>5. PICK past : past = Past(call.frontier)  OBVIOUS
  <1>6. rows = RowsOf(kind, filter, past, b) /\ b \in BOOLEAN
    BY <1>1, <1>4, <1>5, RowsAre
  <1>7. rows \in Seq(Claims \cup Codes)  BY <1>6, RowsTypes
  <1>8. /\ page \in Seq(Claims \cup Codes) /\ cursor \in Cursors \cup {None}
        /\ cursor # None => cursor.identity = Identity(kind, filter, call)
        /\ Begins(page, cursor, rows)
    <2>1. PICK at \in Nat : at = 0  OBVIOUS
    <2>2. page = PageFrom(rows, at) /\ cursor = CursorAfter(kind, filter, at, rows)
      BY <1>1, <2>1
    <2>3. /\ page \in Seq(Claims \cup Codes) /\ cursor \in Cursors \cup {None}
          /\ cursor # None => cursor.identity = Identity(kind, filter, call)
          /\ GoesOn(rows, at, page, cursor)
      BY <1>4, <1>7, <2>2, OnePage
    <2>4. Len(rows) \in Nat  BY <1>7
    <2>5. PICK e \in Nat :
             /\ e <= Len(rows) /\ Len(page) = e /\ page = SubSeq(rows, 1, e)
             /\ cursor = None => e = Len(rows)
             /\ cursor # None => cursor.offset = e
      BY <2>1, <2>3, <2>4 DEF GoesOn
    <2>6. Begins(page, cursor, rows)  BY <2>5 DEF Begins
    <2>7. QED  BY <2>3, <2>6
  <1>9. s \in Searches
    BY <1>2, <1>6, <1>8 DEF Searches
  <1>10. PagesFit(s, o, sn)
    <2>1. ASSUME sn # "recurred", NEW coded \in BOOLEAN, s.coded = {coded}
          PROVE  Begins(s.rows, s.cursor, RowsOf(s.kind, s.filter, o, coded))
      <3>1. past = o  BY <1>1, <1>3, <1>5, <2>1, PastIsOrigin
      <3>2. coded = b  BY <1>2, <2>1
      <3>3. s.kind = kind /\ s.filter = filter /\ s.rows = page /\ s.cursor = cursor  BY <1>2
      <3>4. QED  BY <1>6, <1>8, <3>1, <3>2, <3>3
    <2>2. QED  BY <2>1 DEF PagesFit
  <1>11. SearchFine(h, s, o, sn)
    <2>1. s.cursor # None => s.cursor.identity = Identity(s.kind, s.filter, h)
      BY <1>2, <1>3, <1>8
    <2>2. QED  BY <1>9, <1>10, <2>1 DEF SearchFine
  <1>12. SearchFine(held, s, origin, since)  BY <1>1, <1>11
  <1>13. SaidOn(page) \in SUBSET WordsOf(Past(call.frontier))  BY WordsOnPage
  <1>14. QED  BY <1>3, <1>12, <1>13, ReadStep

LEMMA NextPageStep ==
    ASSUME ReadsInv, NextPage
    PROVE  ReadsInv'
  <1>1. PICK h, s, o, sn : h = held /\ s = search /\ o = origin /\ sn = since  OBVIOUS
  <1>2. PICK rows, page, b, cursor :
           /\ rows = Rows(s.kind, s.filter, call)
           /\ page = PageFrom(rows, s.cursor.offset)
           /\ b = Coded(s.kind, s.filter, call)
           /\ cursor = CursorAfter(s.kind, s.filter, s.cursor.offset, rows)
    OBVIOUS
  <1>3. PICK next : next = [s EXCEPT !.rows = @ \o page, !.coded = @ \cup {b},
                              !.pinned = @ /\ call = h, !.cursor = cursor]
    OBVIOUS
  <1>4. /\ call # None /\ s # None /\ s.cursor # None
        /\ s.cursor.identity = Identity(s.kind, s.filter, call)
        /\ next = search' /\ call' = None /\ reply' = "ok"
        /\ UNCHANGED <<store, held, origin, since>>
        /\ said' = IF call = held THEN SaidOn(page) ELSE {}
    BY <1>1, <1>2, <1>3 DEF NextPage, Say
  <1>5. /\ call \in Tokens /\ artifact \in [Sources -> BOOLEAN]
        /\ SearchFine(h, s, o, sn)
    BY <1>1, <1>4 DEF ReadsInv, AgentFine, CallFine
  <1>6. /\ s \in Searches /\ s.cursor.identity = Identity(s.kind, s.filter, h)
        /\ PagesFit(s, o, sn)
    BY <1>4, <1>5 DEF SearchFine
  <1>7. /\ s.kind \in Kinds /\ s.filter \in Filters /\ s.pinned \in BOOLEAN
        /\ s.rows \in Seq(Claims \cup Codes)
        /\ s.coded \in (SUBSET BOOLEAN) \ {{}} /\ s.cursor.offset \in Nat
    BY <1>4, <1>6 DEF Searches, Cursors
  <1>8. PICK at \in Nat : at = s.cursor.offset  BY <1>7
  <1>9. PICK past : past = Past(call.frontier)  OBVIOUS
  <1>10. rows = RowsOf(s.kind, s.filter, past, b) /\ b \in BOOLEAN
    BY <1>2, <1>5, <1>9, RowsAre
  <1>11. rows \in Seq(Claims \cup Codes)  BY <1>7, <1>10, RowsTypes
  <1>12. /\ page \in Seq(Claims \cup Codes) /\ cursor \in Cursors \cup {None}
         /\ cursor # None => cursor.identity = Identity(s.kind, s.filter, call)
         /\ GoesOn(rows, at, page, cursor)
    <2>1. PICK kind : kind = s.kind  OBVIOUS
    <2>2. PICK filter \in Filters : filter = s.filter  BY <1>7
    <2>3. page = PageFrom(rows, at) /\ cursor = CursorAfter(kind, filter, at, rows)
      BY <1>2, <1>8, <2>1, <2>2
    <2>4. /\ page \in Seq(Claims \cup Codes) /\ cursor \in Cursors \cup {None}
          /\ cursor # None => cursor.identity = Identity(kind, filter, call)
          /\ GoesOn(rows, at, page, cursor)
      BY <1>5, <1>11, <2>3, OnePage
    <2>5. QED  BY <2>1, <2>2, <2>4
  <1>13. /\ next.kind = s.kind /\ next.filter = s.filter
         /\ next.rows = s.rows \o page /\ next.coded = s.coded \cup {b}
         /\ next.pinned = (s.pinned /\ call = h) /\ next.cursor = cursor
    BY <1>3, <1>6 DEF Searches
  <1>14. next \in Searches
    <2>1. s.rows \o page \in Seq(Claims \cup Codes)  BY <1>7, <1>12
    <2>2. s.coded \cup {b} \in (SUBSET BOOLEAN) \ {{}}  BY <1>7, <1>10
    <2>3. PICK more, codes, pins :
             more = s.rows \o page /\ codes = s.coded \cup {b} /\ pins = (s.pinned /\ call = h)
      OBVIOUS
    <2>4. pins \in BOOLEAN  BY <1>7, <2>3
    <2>5. next = [s EXCEPT !.rows = more, !.coded = codes, !.pinned = pins, !.cursor = cursor]
      BY <1>3, <2>3
    <2>6. QED  BY <1>6, <1>12, <2>1, <2>2, <2>3, <2>4, <2>5 DEF Searches
  <1>15. s.kind = "knowledge" => call = h
    BY <1>4, <1>6 DEF Identity
  <1>16. Identity(s.kind, s.filter, call) = Identity(s.kind, s.filter, h)
    BY <1>4, <1>6
  <1>17. ASSUME sn # "recurred", NEW coded \in BOOLEAN, next.coded = {coded},
                next.kind = "knowledge" \/ next.pinned
         PROVE  Begins(next.rows, next.cursor, RowsOf(next.kind, next.filter, o, coded))
    <2>1. s.coded = {coded} /\ b = coded  BY <1>7, <1>13, <1>17
    <2>2. call = h /\ (s.kind = "knowledge" \/ s.pinned)  BY <1>7, <1>13, <1>15, <1>17
    <2>3. past = o  BY <1>1, <1>4, <1>9, <1>17, <2>2, PastIsOrigin
    <2>4. rows = RowsOf(s.kind, s.filter, o, coded)  BY <1>10, <2>1, <2>3
    <2>5. Begins(s.rows, s.cursor, rows)  BY <1>6, <1>17, <2>1, <2>2, <2>4 DEF PagesFit
    <2>6. at = Len(s.rows) /\ at <= Len(rows) /\ s.rows = SubSeq(rows, 1, at)
      BY <1>4, <1>8, <2>5 DEF Begins
    <2>7. PICK e \in Nat :
             /\ at <= e /\ e <= Len(rows) /\ Len(page) = e - at
             /\ page = SubSeq(rows, at + 1, e)
             /\ cursor = None => e = Len(rows)
             /\ cursor # None => cursor.offset = e
      BY <1>12, <2>6 DEF GoesOn
    <2>8. s.rows \o page = SubSeq(rows, 1, e)
      <3>1. /\ 1 \in 1..Len(rows) + 1 /\ at \in (1 - 1)..Len(rows) /\ e \in at..Len(rows)
        BY <1>11, <2>6, <2>7
      <3>2. SubSeq(rows, 1, at) \o SubSeq(rows, at + 1, e) = SubSeq(rows, 1, e)
        BY <1>11, <3>1, ConcatAdjacentSubSeq
      <3>3. PICK a : a = s.rows  OBVIOUS
      <3>4. a = SubSeq(rows, 1, at) /\ page = SubSeq(rows, at + 1, e)  BY <2>6, <2>7, <3>3
      <3>5. a \o page = SubSeq(rows, 1, e)  BY <3>2, <3>4, Zenon
      <3>6. QED  BY <3>3, <3>5, Zenon
    <2>9. Len(s.rows \o page) = e
      <3>1. Len(s.rows \o page) = Len(s.rows) + Len(page)  BY <1>7, <1>12
      <3>2. Len(page) = e - at /\ at = Len(s.rows)  BY <2>6, <2>7
      <3>3. QED  BY <3>1, <3>2
    <2>10. Begins(next.rows, cursor, rows)
      BY <1>13, <2>7, <2>8, <2>9 DEF Begins
    <2>11. QED  BY <1>13, <2>4, <2>10
  <1>18. PagesFit(next, o, sn)  BY <1>17 DEF PagesFit
  <1>19. SearchFine(held, next, origin, since)
    <2>1. next.cursor # None => next.cursor.identity = Identity(next.kind, next.filter, h)
      BY <1>12, <1>13, <1>16
    <2>2. QED  BY <1>1, <1>14, <1>18, <2>1 DEF SearchFine
  <1>20. SaidOn(page) \in SUBSET WordsOf(Past(call.frontier))  BY WordsOnPage
  <1>21. QED  BY <1>4, <1>19, <1>20, ReadStep

LEMMA CursorRefusedStep ==
    ASSUME ReadsInv, CursorRefused
    PROVE  ReadsInv'
  <1>1. PICK j, h, s, sd, o, sn :
           j = journal /\ h = held /\ s = search /\ sd = said /\ o = origin /\ sn = since
    OBVIOUS
  <1>2. AgentFine(j, call, h, s, reply, sd, o, sn)  BY <1>1 DEF ReadsInv
  <1>3. /\ call # None /\ s # None /\ s.cursor # None
        /\ s.cursor.identity # Identity(s.kind, s.filter, call)
    BY <1>1 DEF CursorRefused
  <1>4. CallFine(j, h, call, s, sn) /\ SearchFine(h, s, o, sn)  BY <1>2 DEF AgentFine
  <1>5. h # None  BY <1>3, <1>4 DEF CallFine
  <1>6. s.cursor.identity = Identity(s.kind, s.filter, h)  BY <1>3, <1>4 DEF SearchFine
  <1>7. sn # "same"
    <2>1. call # h  BY <1>3, <1>6
    <2>2. QED  BY <1>3, <1>4, <1>5, <2>1 DEF CallFine
  <1>8. CallFine(j, h, None, s, sn)  BY <1>4, <1>5 DEF CallFine
  <1>9. Due("cursor refused", sn)  BY <1>7 DEF Due
  <1>10. AgentFine(j, None, h, s, "cursor refused", sd, o, sn)
    BY <1>2, <1>8, <1>9 DEF AgentFine
  <1>11. /\ None = call' /\ h = held' /\ s = search' /\ "cursor refused" = reply' /\ sd = said'
         /\ o = origin' /\ sn = since' /\ UNCHANGED store
    BY <1>1 DEF CursorRefused
  <1>12. QED  BY <1>1, <1>10, <1>11, AgentStep

-----------------------------------------------------------------------------
(* All steps *)

LEMMA ReadsInit ==
    ASSUME Init
    PROVE  ReadsInv
  <1>1. journal \in Seq(Events) /\ Len(journal) <= MaxJournal /\ replaced \in 0..MaxReplaced
    BY FirstAssumption, BoundsAssumption DEF Init
  <1>2. artifact \in [Sources -> BOOLEAN]  BY DEF Init
  <1>3. /\ None = call /\ None = held /\ None = search /\ "ok" = reply /\ {} = said
        /\ <<>> = origin /\ "same" = since
    BY DEF Init
  <1>4. AgentFine(journal, call, held, search, reply, said, origin, since)
    BY <1>3, NoAgent
  <1>5. QED  BY <1>1, <1>2, <1>4 DEF ReadsInv, StoreInv, JournalTyped, Frontier

LEMMA ReadsNext ==
    ASSUME ReadsInv, [Next]_vars
    PROVE  ReadsInv'
  <1>1. CASE Begin \/ Pin \/ Unpinned \/ Forget
    BY <1>1, BeginStep, PinStep, UnpinnedStep, ForgetStep
  <1>2. CASE \E c \in Claims : Explain(c) \/ Triangulate(c)
    <2>1. PICK x \in Claims : Explain(x) \/ Triangulate(x)  BY <1>2
    <2>2. QED  BY <2>1, AnswerStep
  <1>3. CASE ReadContext \/ NextPage \/ CursorRefused
    BY <1>3, ReadContextStep, NextPageStep, CursorRefusedStep
  <1>4. CASE \E kind \in Kinds, filter \in Filters : NewSearch(kind, filter)
    <2>1. PICK kind \in Kinds, filter \in Filters : NewSearch(kind, filter)  BY <1>4
    <2>2. QED  BY <2>1, NewSearchStep
  <1>5. CASE \E event \in Events : Append_(event)
    <2>1. PICK event \in Events : Append_(event)  BY <1>5
    <2>2. QED  BY <2>1, AppendStep
  <1>6. CASE \E s \in Sources : LoseArtifact(s) \/ Rebuild(s)
    <2>1. PICK x \in Sources : LoseArtifact(x) \/ Rebuild(x)  BY <1>6
    <2>2. QED  BY <2>1, ArtifactStep
  <1>7. CASE \E n \in 0..MaxJournal : Replace(n)
    <2>1. PICK n \in 0..MaxJournal : Replace(n)  BY <1>7
    <2>2. QED  BY <2>1, ReplaceStep
  <1>8. CASE UNCHANGED vars  BY <1>8, StutterStep
  <1>9. QED
    <2>1. Read \/ ~Read  OBVIOUS
    <2>2. Read => \/ \E c \in Claims : Explain(c) \/ Triangulate(c)
                  \/ ReadContext \/ NextPage \/ CursorRefused
                  \/ \E kind \in Kinds, filter \in Filters : NewSearch(kind, filter)
      BY Zenon DEF Read
    <2>3. Read => ReadsInv'  BY <1>2, <1>3, <1>4, <2>2, Zenon
    <2>4. ~Read => ReadsInv'  BY <1>1, <1>5, <1>6, <1>7, <1>8, Zenon DEF Next
    <2>5. QED  BY <2>1, <2>3, <2>4

LEMMA ReadsAreSoundThen ==
    ASSUME ReadsInv
    PROVE  ReadsAreSound
  <1>1. /\ StoreInv /\ artifact \in [Sources -> BOOLEAN]
        /\ CallFine(journal, held, call, search, since)
        /\ OriginFine(journal, held, origin, since)
        /\ SearchFine(held, search, origin, since)
        /\ Agree(said, origin, since) /\ Due(reply, since)
    BY DEF ReadsInv, AgentFine
  <1>2. TypeOK
    <2>1. journal \in Seq(Events) /\ replaced \in 0..MaxReplaced
      BY <1>1 DEF StoreInv, JournalTyped
    <2>2. /\ call \in Tokens \cup {None} /\ held \in Tokens \cup {None}
          /\ since \in {"same", "grown", "cut", "recurred"} /\ origin \in Seq(Events)
      BY <1>1 DEF CallFine, OriginFine
    <2>3. search # None =>
            /\ search.kind \in Kinds /\ search.filter \in Filters
            /\ search.rows \in Seq(Claims \cup Codes)
            /\ search.coded \subseteq BOOLEAN /\ search.pinned \in BOOLEAN
      BY <1>1 DEF SearchFine, Searches
    <2>4. reply \in {"ok", "missing", "cursor refused", "refused"} /\ said \subseteq Words
      BY <1>1 DEF Agree, Due
    <2>5. QED  BY <1>1, <2>1, <2>2, <2>3, <2>4 DEF TypeOK
  <1>3. ReadsAgree  BY <1>1 DEF Agree, ReadsAgree
  <1>4. RefusalsAreDue  BY <1>1 DEF Due, RefusalsAreDue
  <1>5. PagesAddUp
    <2> SUFFICES ASSUME search # None, search.cursor = None,
                        search.kind = "knowledge" \/ search.pinned, since # "recurred",
                        NEW coded \in BOOLEAN, search.coded = {coded}
                 PROVE  search.rows = RowsOf(search.kind, search.filter, origin, coded)
      BY DEF PagesAddUp
    <2>1. search \in Searches /\ PagesFit(search, origin, since)  BY <1>1 DEF SearchFine
    <2>2. PICK whole : whole = RowsOf(search.kind, search.filter, origin, coded)  OBVIOUS
    <2>3. Begins(search.rows, search.cursor, whole)  BY <2>1, <2>2 DEF PagesFit
    <2>4. search.rows = SubSeq(whole, 1, Len(whole))  BY <2>3 DEF Begins
    <2>5. search.kind \in Kinds  BY <2>1 DEF Searches
    <2>6. whole \in Seq(Claims \cup Codes)  BY <2>2, <2>5, RowsTypes
    <2>7. SubSeq(whole, 1, Len(whole)) = whole  BY <2>6
    <2>8. QED  BY <2>2, <2>4, <2>7
  <1>6. QED  BY <1>2, <1>3, <1>4, <1>5 DEF ReadsAreSound

(* An agent may rely on what it reads in several calls at one snapshot,    *)
(* unless the journal was replaced and the token's event recurred in it:   *)
(* what reads say of a claim is what there was to say when the token was   *)
(* minted, and the pages of a search add up to the whole.  Refusals have a *)
(* reason always (assemble_snapshot_view, claims_search,                   *)
(* search_knowledge_from_view).                                            *)
THEOREM AgentsReadOneSnapshot == Spec => []ReadsAreSound
  <1>1. Init => ReadsInv  BY ReadsInit
  <1>2. ReadsInv /\ [Next]_vars => ReadsInv'  BY ReadsNext
  <1>3. ReadsInv => ReadsAreSound  BY ReadsAreSoundThen
  <1>4. QED  BY <1>1, <1>2, <1>3, PTL DEF Spec
===============================================================================
