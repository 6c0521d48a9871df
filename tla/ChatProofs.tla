------------------------------ MODULE ChatProofs ------------------------------
(***************************************************************************)
(* Proofs about the chat client, for any rooms, any period of the alarm    *)
(* and any number of messages under way.                                   *)
(***************************************************************************)
EXTENDS ChatClient, TLAPS

\* A command that will be answered has not been handled yet.
Owed == \E i \in 1..Len(pending) : pending[i].name \in Answered

\* What AlwaysOwed needs one step earlier: a message that poll saw is there or
\* has been read in place of an answer that is still to come.
Debt ==
  ~closed =>
    /\ pc = "input" /\ revents => connected /\ down # << >>
    /\ pc = "inline" => connected /\ (down # << >> \/ Owed)
    /\ pc = "inline" /\ revents => Len(down) >= 2 \/ (down # << >> /\ Owed)
    /\ pc = "message" /\ revents /\ connected => down # << >> \/ Owed
    /\ pc = "async" => connected /\ (down # << >> \/ Owed)

\* A command during which nothing else was under way: it is the only one, or
\* its answer is the only message.
Alone ==
  /\ pc = "inline" => connected /\ waiting.name \in {"connect", "join", "list"}
  /\ pc # "inline" /\ Running => waiting.name = "none"
  /\ pc = "inline" /\ ~crossed =>
       \/ pending = <<waiting>> /\ down = << >>
       \/ pending = << >> /\ Len(down) = 1 /\ down[1].to = waiting

\* Where the two rooms can differ: a \join is the last of the commands under way,
\* and from its answer on the server is ahead of the client.
Leaving(p) == \E i \in 1..Len(p) : p[i].name = "leave"

JoinAnswered(d) == \E j \in 1..Len(d) : d[j].to.name = "join"

Rooms ==
  /\ \A i \in 1..Len(pending) : pending[i].name = "join" =>
       pc = "inline" /\ pending[i] = waiting /\ i = Len(pending)
  /\ \A i, j \in 1..Len(pending) :
       pending[i].name = "leave" /\ pending[j].name = "leave" => i = j
  /\ \A j \in 1..Len(down) : down[j].to.name = "join" =>
       /\ pc = "inline" /\ waiting.name = "join" /\ pending = << >>
       /\ \A k \in 1..Len(down) : down[k].to.name = "join" => k = j
       /\ IF down[j].kind = "ok" THEN itsRoom = waiting.room ELSE itsRoom = room
  /\ JoinAnswered(down) \/ room = IF Leaving(pending) THEN NoRoom ELSE itsRoom

RoomInv ==
  /\ ~connected => itsRoom = NoRoom
  /\ connected /\ ~mixed /\ Running => Rooms

\* The alarm and the quiet seconds add up to a period, unless a keep-alive is due
\* in this turn of the loop.
Connecting == pc = "inline" /\ waiting.name = "connect"

Sum ==
  connected =>
    /\ Running /\ ~Connecting => timer > 0
    /\ Connecting => quiet = 0
    /\ ~void => quiet <= Period
    /\ ~void /\ Running /\ ~Connecting =>
         \/ quiet + timer <= Period
         \/ sendFlag /\ ticked /\ (pc = "inline" => down # << >>)

\* A command's wait begins with a whole period.
Whole ==
  /\ pc = "inline" /\ waiting.name # "connect" => quiet + timer >= Period
  /\ WholePeriod

-----------------------------------------------------------------------------
(* Types. *)

LEMMA CommandTypes ==
  /\ NoCommand \in Command
  /\ \A name \in {"connect", "nick", "leave", "list", "text"} : Plain(name) \in Command
  /\ \A r \in Room : [name |-> "join", room |-> r] \in Command
  BY DEF NoCommand, Plain, Command

LEMMA Numbers ==
  /\ 0 \in 0..Period /\ Period \in 0..Period /\ 0 \in Nat
  /\ \A t \in 0..Period : t # 0 => t - 1 \in 0..Period
  /\ \A q \in Nat : q + 1 \in Nat
  BY ChatAssumption

LEMMA TypeInit == Init => TypeOK
<1> SUFFICES ASSUME Init PROVE TypeOK
  OBVIOUS
<1>1. pending \in Seq(Command) /\ down \in Seq(Message)
  BY DEF Init
<1> QED BY <1>1, CommandTypes, Numbers, Zenon DEF Init, TypeOK

LEMMA RestartTypes ==
  ASSUME RestartAlarm
  PROVE  sendFlag' \in BOOLEAN /\ timer' \in 0..Period
  BY Numbers, Zenon DEF RestartAlarm

LEMMA SendTypes ==
  ASSUME TypeOK, NEW cmd \in Command, Sends(cmd)
  PROVE  pending' \in Seq(Command) /\ quiet' \in Nat
<1>1. pending \in Seq(Command)
  BY DEF TypeOK
<1> QED BY <1>1 DEF Sends

LEMMA SendingTypes ==
  ASSUME TypeOK, NEW cmd \in Command
  PROVE  /\ SendAndWait(cmd) => TypeOK'
         /\ SendOnly(cmd) /\ room' \in {room, NoRoom} => TypeOK'
<1>1. ASSUME SendAndWait(cmd) PROVE TypeOK'
  BY <1>1, RestartTypes, SendTypes, Zenon DEF SendAndWait, TypeOK
<1>2. ASSUME SendOnly(cmd), room' \in {room, NoRoom} PROVE TypeOK'
  BY <1>2, RestartTypes, SendTypes, Zenon DEF SendOnly, historyVars, TypeOK
<1> QED BY <1>1, <1>2

LEMMA TypeNext == TypeOK /\ [Next]_vars => TypeOK'
<1> SUFFICES ASSUME TypeOK, [Next]_vars PROVE TypeOK'
  OBVIOUS
<1> USE CommandTypes, Numbers DEF TypeOK
<1>1. CASE UNCHANGED vars
  BY <1>1 DEF vars, loopVars, alarmVars, serverVars, historyVars
<1>2. CASE Poll
  BY <1>2 DEF Poll, alarmVars, serverVars, historyVars
<1>3. CASE NoInput
  BY <1>3 DEF NoInput, alarmVars, serverVars, historyVars
<1>4. CASE StartReading
  BY <1>4 DEF StartReading, alarmVars, serverVars, historyVars
<1>5. CASE ReadMessage
  BY <1>5 DEF ReadMessage, alarmVars, historyVars
<1>6. CASE KeepAlive
  BY <1>6, Zenon DEF KeepAlive, serverVars, historyVars
<1>7. CASE ReadAnswer
  <2>1. Head(down) \in Message /\ Tail(down) \in Seq(Message) /\ waiting.room \in Room \cup {NoRoom}
    BY <1>7 DEF ReadAnswer, Command
  <2>2. sendFlag' \in BOOLEAN /\ timer' \in 0..Period
    BY <1>7, RestartTypes, Zenon DEF ReadAnswer
  <2>3. connected
    BY <1>7 DEF ReadAnswer
  <2> QED BY <1>7, <2>1, <2>2, <2>3, Zenon DEF ReadAnswer
<1>8. CASE StreamEnds
  BY <1>8 DEF StreamEnds, alarmVars, serverVars, historyVars
<1>9. CASE \E r \in Room : Join(r)
  BY <1>9, SendingTypes, Zenon DEF Join
<1>10. CASE List
  BY <1>10, SendingTypes, Zenon DEF List
<1>11. CASE Nick \/ Talk
  BY <1>11, SendingTypes, Zenon DEF Nick, Talk
<1>12. CASE SendNothing
  BY <1>12, RestartTypes, Zenon DEF SendNothing, serverVars, historyVars
<1>13. CASE LeaveRoom
  BY <1>13, SendingTypes, Zenon DEF LeaveRoom
<1>14. CASE Disconnect
  <2>1. pending' \in Seq(Command) /\ down' \in Seq(Message)
    BY <1>14 DEF Disconnect, Forget
  <2> QED BY <1>14, <2>1, Zenon DEF Disconnect, Forget
<1>15. CASE Quit
  <2>1. pending' \in Seq(Command) /\ down' \in Seq(Message)
    BY <1>15 DEF Quit, Forget
  <2> QED BY <1>15, <2>1, Zenon DEF Quit, Forget
<1>16. CASE Connect
  BY <1>16 DEF Connect, historyVars
<1>17. CASE ConnectFails
  BY <1>17, RestartTypes, Zenon DEF ConnectFails, serverVars, historyVars
<1>18. CASE SendFails
  BY <1>18 DEF SendFails, alarmVars, serverVars, historyVars
<1>19. CASE Tick
  <2>1. timer' \in 0..Period /\ sendFlag' \in BOOLEAN
    BY <1>19, Zenon DEF Tick, SecondPasses
  <2>2. /\ pc' \in {pc, "garbled"} /\ (pc' = "spinning" => pc = "spinning")
        /\ ticked' \in BOOLEAN
        /\ UNCHANGED <<waiting, revents, connected, room, void, pending, down, itsRoom,
                       closed, crossed, mixed>>
    BY <1>19 DEF Tick, serverVars, historyVars
  <2>3. quiet' \in Nat
    BY <1>19, SMT DEF Tick
  <2> QED BY <2>1, <2>2, <2>3, Zenon
<1>20. CASE Handle
  <2>1. Head(pending) \in Command /\ Tail(pending) \in Seq(Command)
    BY <1>20 DEF Handle
  <2>2. \A kind \in {"name", "ok", "error", "list"} : Reply(kind) => down' \in Seq(Message)
    BY <2>1 DEF Reply, Message
  <2>3. down' \in Seq(Message)
    BY <1>20, <2>2 DEF Handle
  <2>4. itsRoom' \in Room \cup {NoRoom}
    BY <1>20, <2>1 DEF Handle, Command
  <2>5. closed' \in BOOLEAN /\ connected
    BY <1>20 DEF Handle
  <2> QED BY <1>20, <2>1, <2>3, <2>4, <2>5 DEF Handle, loopVars, alarmVars, historyVars
<1>21. CASE Push
  <2>1. [kind |-> "talk", to |-> NoCommand] \in Message
    BY DEF Message
  <2> QED BY <1>21, <2>1 DEF Push, loopVars, alarmVars
<1>22. CASE ServerCloses
  BY <1>22 DEF ServerCloses, loopVars, alarmVars, historyVars
<1> QED
  BY <1>1, <1>2, <1>3, <1>4, <1>5, <1>6, <1>7, <1>8, <1>9, <1>10, <1>11, <1>12, <1>13,
     <1>14, <1>15, <1>16, <1>17, <1>18, <1>19, <1>20, <1>21, <1>22 DEF Next, Loop, User

\* Every variable keeps its type, and without a connection nothing is left of the
\* last one (the resets of \disconnect and \leave in main).
THEOREM Types == Spec => []TypeOK
  BY TypeInit, TypeNext, PTL DEF Spec

-----------------------------------------------------------------------------
(* Reads that block. *)

LEMMA DebtNext ==
  ASSUME TypeOK, Debt, [Next]_vars
  PROVE  Debt'
<1> USE DEF Debt, Owed, TypeOK
<1>1. CASE UNCHANGED vars
  BY <1>1 DEF vars, loopVars, alarmVars, serverVars, historyVars
<1>2. CASE Poll
  BY <1>2 DEF Poll, alarmVars, serverVars, historyVars
<1>3. CASE NoInput
  BY <1>3 DEF NoInput, alarmVars, serverVars, historyVars
<1>4. CASE StartReading
  BY <1>4 DEF StartReading, alarmVars, serverVars, historyVars
<1>5. CASE ReadMessage \/ KeepAlive
  BY <1>5 DEF ReadMessage, KeepAlive
<1>6. CASE ReadAnswer
  BY <1>6 DEF ReadAnswer
<1>7. CASE StreamEnds \/ SendFails
  BY <1>7 DEF StreamEnds, SendFails
<1>8. ASSUME NEW cmd \in Command, cmd.name \in Answered, SendAndWait(cmd) PROVE Debt'
  <2>1. pending' = Append(pending, cmd) /\ pc' = "inline" /\ down' = down /\ connected'
    BY <1>8 DEF SendAndWait, Sends
  <2>2. Owed'
    BY <2>1, <1>8
  <2> QED BY <1>8, <2>1, <2>2 DEF SendAndWait
<1>9. CASE (\E r \in Room : Join(r)) \/ List
  BY <1>9, <1>8, CommandTypes DEF Join, List, Plain, Answered
<1>10. ASSUME NEW cmd \in Command, SendOnly(cmd) PROVE Debt'
  <2>1. pending' = Append(pending, cmd) /\ pc' = "message"
    BY <1>10 DEF SendOnly, Sends
  <2>2. Owed => Owed'
    BY <2>1
  <2> QED BY <1>10, <2>1, <2>2 DEF SendOnly
<1>11. CASE Nick \/ Talk \/ LeaveRoom
  BY <1>11, <1>10, CommandTypes DEF Nick, Talk, LeaveRoom
<1>12. CASE SendNothing \/ ConnectFails
  BY <1>12 DEF SendNothing, ConnectFails, serverVars
<1>13. CASE Disconnect \/ Quit
  BY <1>13 DEF Disconnect, Quit, Forget
<1>14. CASE Connect
  <2>1. pending' = <<Plain("connect")>> /\ pc' = "inline" /\ connected' /\ closed' = closed
        /\ revents' = revents /\ down' = down
    BY <1>14 DEF Connect
  <2>2. Owed'
    BY <2>1 DEF Plain, Answered
  <2> QED BY <1>14, <2>1, <2>2 DEF Connect
<1>15. CASE Tick
  BY <1>15 DEF Tick, serverVars
<1>16. CASE Handle
  <2>1. /\ pending # << >> /\ pending' = Tail(pending)
        /\ UNCHANGED <<pc, revents, connected>>
    BY <1>16 DEF Handle, loopVars
  <2>2. CASE down' = down
    <3>1. closed' \/ Head(pending).name \notin Answered
      BY <1>16, <2>2 DEF Handle, Reply, Answered
    <3>2. CASE closed'
      BY <3>2
    <3>3. CASE Head(pending).name \notin Answered
      <4>1. ASSUME Owed PROVE Owed'
        <5>1. PICK i \in 1..Len(pending) : pending[i].name \in Answered
          BY <4>1
        <5>2. i # 1
          BY <2>1, <3>3, <5>1
        <5>3. i - 1 \in 1..Len(pending') /\ pending'[i - 1] = pending[i]
          BY <2>1, <5>2
        <5> QED BY <5>1, <5>3
      <4> QED BY <2>1, <2>2, <4>1, <1>16 DEF Handle
    <3> QED BY <3>1, <3>2, <3>3
  <2>3. CASE down' # down
    <3>1. PICK m : down' = Append(down, m)
      BY <1>16, <2>3 DEF Handle, Reply
    <3>2. Len(down') = Len(down) + 1 /\ down' # << >>
      BY <3>1
    <3> QED BY <2>1, <3>2, <1>16 DEF Handle
  <2> QED BY <2>2, <2>3
<1>17. CASE Push \/ ServerCloses
  BY <1>17 DEF Push, ServerCloses, loopVars
<1> QED
  BY <1>1, <1>2, <1>3, <1>4, <1>5, <1>6, <1>7, <1>9, <1>11, <1>12, <1>13, <1>14, <1>15,
     <1>16, <1>17 DEF Next, Loop, User

\* A recv that blocks always has a message to come, also when the loop reads on the
\* strength of a poll whose message a command has read since (line 516).
THEOREM ReadsAreOwed == Spec => []AlwaysOwed
<1>1. Init => Debt
  BY DEF Init, Debt
<1>2. TypeOK /\ Debt /\ [Next]_vars => Debt'
  BY DebtNext
<1>3. TypeOK /\ Debt => AlwaysOwed
  BY DEF Debt, AlwaysOwed, Owed, Blocked, Reading, TypeOK
<1> QED BY <1>1, <1>2, <1>3, Types, PTL DEF Spec

-----------------------------------------------------------------------------
(* Answers. *)

LEMMA AloneNext ==
  ASSUME TypeOK, Alone, OwnAnswer, [Next]_vars
  PROVE  Alone' /\ OwnAnswer'
<1> USE DEF Alone, OwnAnswer, Running, TypeOK
<1>1. CASE UNCHANGED vars
  BY <1>1 DEF vars, loopVars, alarmVars, serverVars, historyVars
<1>2. CASE Poll \/ NoInput \/ StartReading \/ ReadMessage \/ KeepAlive
  BY <1>2 DEF Poll, NoInput, StartReading, ReadMessage, KeepAlive, historyVars
<1>3. CASE ReadAnswer
  BY <1>3 DEF ReadAnswer, NoCommand
<1>4. CASE StreamEnds \/ SendFails
  BY <1>4 DEF StreamEnds, SendFails, historyVars
<1>5. ASSUME NEW cmd \in Command, cmd.name \in {"join", "list"}, SendAndWait(cmd)
      PROVE  Alone' /\ OwnAnswer'
  <2>1. /\ pending' = Append(pending, cmd) /\ pc' = "inline" /\ waiting' = cmd
        /\ down' = down /\ mixed' = mixed /\ connected'
        /\ crossed' = (crossed \/ Len(pending) + Len(down) > 0)
    BY <1>5 DEF SendAndWait, Sends, UnderWay
  <2>2. CASE crossed'
    BY <2>1, <2>2, <1>5
  <2>3. CASE ~crossed'
    <3>1. Len(pending) = 0 /\ Len(down) = 0
      BY <2>1, <2>3
    <3>2. pending = << >> /\ down = << >>
      BY <3>1
    <3>3. pending' = <<cmd>>
      BY <2>1, <3>2
    <3> QED BY <2>1, <2>3, <3>2, <3>3, <1>5
  <2> QED BY <2>2, <2>3
<1>6. CASE (\E r \in Room : Join(r)) \/ List
  BY <1>6, <1>5, CommandTypes DEF Join, List, Plain
<1>7. CASE Nick \/ Talk \/ LeaveRoom
  BY <1>7 DEF Nick, Talk, LeaveRoom, SendOnly, historyVars
<1>8. CASE SendNothing \/ ConnectFails
  BY <1>8 DEF SendNothing, ConnectFails, historyVars
<1>9. CASE Disconnect \/ Quit
  BY <1>9 DEF Disconnect, Quit, Forget
<1>10. CASE Connect
  BY <1>10 DEF Connect, Plain, historyVars
<1>11. CASE Tick
  BY <1>11 DEF Tick, serverVars, historyVars
<1>12. CASE Handle
  <2>1. pending' = Tail(pending) /\ UNCHANGED <<pc, waiting, connected, crossed, mixed>>
    BY <1>12 DEF Handle, loopVars, historyVars
  <2>2. CASE pc = "inline" /\ ~crossed
    <3>1. pending = <<waiting>> /\ down = << >> /\ Head(pending) = waiting
      BY <2>2, <1>12 DEF Handle
    <3>2. \E kind \in {"name", "ok", "error", "list"} : Reply(kind)
      BY <3>1, <2>2, <1>12 DEF Handle
    <3> QED BY <2>1, <2>2, <3>1, <3>2 DEF Reply
  <2> QED BY <2>1, <2>2
<1>13. CASE Push \/ ServerCloses
  BY <1>13 DEF Push, ServerCloses, loopVars, historyVars
<1> QED
  BY <1>1, <1>2, <1>3, <1>4, <1>6, <1>7, <1>8, <1>9, <1>10, <1>11, <1>12, <1>13
     DEF Next, Loop, User

LEMMA AloneHolds == Spec => [](Alone /\ OwnAnswer)
<1>1. Init => Alone /\ OwnAnswer
  BY DEF Init, Alone, OwnAnswer, NoCommand
<1>2. TypeOK /\ Alone /\ OwnAnswer /\ [Next]_vars => Alone' /\ OwnAnswer'
  BY AloneNext
<1> QED BY <1>1, <1>2, Types, PTL DEF Spec

\* An answer goes to a command that did not ask for it only if something else was
\* under way (lines 187, 254 and 299 read whatever comes next).
THEOREM AnswersMatch == Spec => []OwnAnswer
  BY AloneHolds, PTL

-----------------------------------------------------------------------------
(* The alarm. *)

LEMMA SumNext ==
  ASSUME TypeOK, Alone, Sum, [Next]_vars
  PROVE  Sum'
<1> USE ChatAssumption DEF Sum, Running, Connecting, TypeOK
<1>1. CASE UNCHANGED vars
  BY <1>1 DEF vars, loopVars, alarmVars, serverVars, historyVars
<1>2. CASE Poll \/ NoInput \/ StartReading \/ ReadMessage
  BY <1>2 DEF Poll, NoInput, StartReading, ReadMessage, alarmVars
<1>3. CASE KeepAlive
  BY <1>3 DEF KeepAlive
<1>4. CASE ReadAnswer
  <2>1. UNCHANGED <<connected, quiet, void, ticked>> /\ pc' \in {"message", "garbled"}
    BY <1>4 DEF ReadAnswer
  <2>2. CASE waiting.name = "connect"
    BY <2>1, <2>2, <1>4 DEF ReadAnswer, RestartAlarm
  <2>3. CASE waiting.name # "connect"
    BY <2>1, <2>3, <1>4 DEF ReadAnswer
  <2> QED BY <2>2, <2>3
<1>5. CASE StreamEnds \/ SendFails
  BY <1>5 DEF StreamEnds, SendFails, alarmVars, Reading
<1>6. ASSUME NEW cmd \in Command, SendAndWait(cmd) \/ SendOnly(cmd), cmd.name # "connect"
      PROVE  Sum'
  <2>1. quiet' = 0 /\ timer' = Period /\ connected' = connected /\ void' = void
    BY <1>6 DEF SendAndWait, SendOnly, RestartAlarm, Sends
  <2>2. (pc' = "inline" /\ waiting' = cmd) \/ pc' = "message"
    BY <1>6 DEF SendAndWait, SendOnly
  <2> QED BY <2>1, <2>2, <1>6
<1>7. CASE (\E r \in Room : Join(r)) \/ List \/ Nick \/ Talk \/ LeaveRoom
  BY <1>7, <1>6, CommandTypes DEF Join, List, Nick, Talk, LeaveRoom, Plain
<1>8. CASE SendNothing \/ ConnectFails
  <2>1. timer' = Period /\ pc' = "message" /\ connected' = connected
    BY <1>8 DEF SendNothing, ConnectFails, RestartAlarm
  <2>2. quiet' = quiet /\ (connected => void')
    BY <1>8 DEF SendNothing, ConnectFails
  <2> QED BY <2>1, <2>2
<1>9. CASE Disconnect \/ Quit
  BY <1>9 DEF Disconnect, Quit, Forget
<1>10. CASE Connect
  BY <1>10 DEF Connect, Plain
<1>11. CASE Tick
  <2>1. UNCHANGED <<waiting, connected, void, down>> /\ ticked' = TRUE
    BY <1>11 DEF Tick, serverVars
  <2>2. CASE ~connected
    BY <2>1, <2>2
  <2>3. CASE connected /\ Connecting
    BY <2>1, <2>3, <1>11 DEF Tick
  <2>4. CASE connected /\ ~Connecting
    <3>1. Running /\ timer > 0 /\ timer \in Nat /\ timer <= Period
      BY <2>4, <1>11 DEF Tick
    <3>2. timer' > 0
      BY <3>1, <1>11 DEF Tick, SecondPasses
    <3>3. CASE void
      BY <2>1, <2>4, <3>2, <3>3, <1>11 DEF Tick
    <3>4. CASE ~void /\ pc = "async"
      BY <2>1, <2>4, <3>1, <3>2, <3>4, <1>11 DEF Tick, SecondPasses
    <3>5. CASE ~void /\ pc # "async"
      <4>1. quiet + timer <= Period
        BY <2>4, <3>1, <3>5, <1>11 DEF Tick, Waits, Reading
      <4>2. quiet' = quiet + 1
        BY <4>1, <2>4, <3>1, <3>5, <1>11 DEF Tick, Alone
      <4>3. CASE timer = 1
        BY <2>1, <3>1, <3>2, <4>1, <4>2, <4>3, <1>11 DEF Tick, SecondPasses, Waits, Reading
      <4>4. CASE timer # 1
        BY <2>1, <3>1, <3>2, <4>1, <4>2, <4>4, <1>11 DEF Tick, SecondPasses
      <4> QED BY <4>3, <4>4
    <3> QED BY <3>3, <3>4, <3>5
  <2> QED BY <2>2, <2>3, <2>4
<1>12. CASE Handle \/ ServerCloses
  <2>1. UNCHANGED <<pc, waiting, ticked, connected, alarmVars>>
    BY <1>12 DEF Handle, ServerCloses, loopVars
  <2>2. down' = down \/ \E m : down' = Append(down, m)
    BY <1>12 DEF Handle, ServerCloses, Reply
  <2>3. down # << >> => down' # << >>
    BY <2>2
  <2> QED BY <2>1, <2>3 DEF alarmVars
<1>13. CASE Push
  <2>1. down' # << >>
    BY <1>13 DEF Push
  <2> QED BY <1>13, <2>1 DEF Push, loopVars, alarmVars
<1> QED
  BY <1>1, <1>2, <1>3, <1>4, <1>5, <1>7, <1>8, <1>9, <1>10, <1>11, <1>12, <1>13
     DEF Next, Loop, User

LEMMA Alarm == Spec => []Sum
<1>1. Init => Sum
  BY DEF Init, Sum
<1>2. TypeOK /\ Alone /\ Sum /\ [Next]_vars => Sum'
  BY SumNext
<1> QED BY <1>1, <1>2, Types, AloneHolds, PTL DEF Spec

\* The alarm that keeps a connection alive is set at the beginning of every turn of
\* the loop (alarmHandler and the commands set it again).
THEOREM AlarmStaysArmed == Spec => []AlarmArmed
<1>1. Sum => AlarmArmed
  BY DEF Sum, AlarmArmed, Running, Connecting
<1> QED BY <1>1, Alarm, PTL

\* The client sends something in every period (lines 572-594), unless it puts the
\* alarm off for text nobody hears (line 491).
THEOREM ClientIsHeard == Spec => []NeverSilent
<1>1. Sum => NeverSilent
  BY DEF Sum, NeverSilent
<1> QED BY <1>1, Alarm, PTL

LEMMA WholeNext ==
  ASSUME TypeOK, Alone, Whole, [Next]_vars
  PROVE  Whole'
<1> USE ChatAssumption DEF Whole, WholePeriod, TypeOK
<1>1. CASE UNCHANGED vars
  BY <1>1 DEF vars, loopVars, alarmVars
<1>2. CASE Poll \/ NoInput \/ StartReading \/ ReadMessage \/ KeepAlive
  BY <1>2 DEF Poll, NoInput, StartReading, ReadMessage, KeepAlive
<1>3. CASE ReadAnswer
  BY <1>3 DEF ReadAnswer, NoCommand
<1>4. CASE StreamEnds \/ SendFails
  BY <1>4 DEF StreamEnds, SendFails
<1>5. CASE (\E r \in Room : Join(r)) \/ List
  <2>1. pc' = "inline" /\ quiet' = 0 /\ timer' = Period
    BY <1>5 DEF Join, List, SendAndWait, RestartAlarm, Sends
  <2> QED BY <2>1
<1>6. CASE Nick \/ Talk \/ LeaveRoom \/ SendNothing \/ ConnectFails \/ Disconnect \/ Quit
  BY <1>6 DEF Nick, Talk, LeaveRoom, SendOnly, SendNothing, ConnectFails, Disconnect, Quit
<1>7. CASE Connect
  BY <1>7 DEF Connect, Plain
<1>8. CASE Tick
  <2>1. waiting' = waiting /\ connected' = connected
    BY <1>8 DEF Tick
  <2>2. CASE pc = "inline" /\ waiting.name # "connect"
    <3>1. connected
      BY <2>2 DEF Alone
    <3> QED BY <2>1, <2>2, <3>1, <1>8 DEF Tick, SecondPasses
  <2>3. CASE pc # "inline"
    BY <2>1, <2>3, <1>8 DEF Tick, Alone
  <2>4. CASE pc = "inline" /\ waiting.name = "connect"
    BY <2>1, <2>4, <1>8 DEF Tick
  <2> QED BY <2>2, <2>3, <2>4
<1>9. CASE Handle \/ ServerCloses
  BY <1>9 DEF Handle, ServerCloses, loopVars, alarmVars
<1>10. CASE Push
  BY <1>10 DEF Push, loopVars, alarmVars
<1> QED
  BY <1>1, <1>2, <1>3, <1>4, <1>5, <1>6, <1>7, <1>8, <1>9, <1>10 DEF Next, Loop, User

\* An alarm breaks off a command's recv (line 43) only a whole period after the
\* command, which sets the alarm anew before it sends (lines 446 and 469).
THEOREM WaitsAreWhole == Spec => []WholePeriod
<1>1. Init => Whole
  BY DEF Init, Whole, WholePeriod
<1>2. TypeOK /\ Alone /\ Whole /\ [Next]_vars => Whole'
  BY WholeNext
<1>3. Whole => WholePeriod
  BY DEF Whole
<1> QED BY <1>1, <1>2, <1>3, Types, AloneHolds, PTL DEF Spec

-----------------------------------------------------------------------------
(* The room. *)

LEMMA RoomsNext ==
  ASSUME TypeOK, Alone, RoomInv, [Next]_vars
  PROVE  RoomInv'
<1> USE DEF RoomInv, Running, TypeOK
<1>1. CASE UNCHANGED vars
  BY <1>1 DEF vars, loopVars, serverVars, historyVars, Rooms, JoinAnswered, Leaving
<1>2. CASE Poll \/ NoInput \/ StartReading \/ KeepAlive \/ SendNothing \/ ConnectFails
  BY <1>2 DEF Poll, NoInput, StartReading, KeepAlive, SendNothing, ConnectFails,
              serverVars, historyVars, Rooms, JoinAnswered, Leaving
<1>3. CASE ReadMessage
  <2>1. down' = Tail(down) /\ pc' = "alive" /\ pc = "async" /\ down # << >>
        /\ UNCHANGED <<connected, mixed, room, pending, itsRoom>>
    BY <1>3 DEF ReadMessage, historyVars
  <2>2. SUFFICES ASSUME connected, ~mixed PROVE Rooms'
    BY <2>1
  <2>3. Rooms
    BY <2>1, <2>2
  <2>4. /\ \A k \in 1..Len(down) : down[k].to.name # "join"
        /\ \A i \in 1..Len(pending) : pending[i].name # "join"
    BY <2>1, <2>3 DEF Rooms
  <2>5. \A k \in 1..Len(down') : down'[k] = down[k + 1] /\ k + 1 \in 1..Len(down)
    BY <2>1
  <2>6. \A k \in 1..Len(down') : down'[k].to.name # "join"
    BY <2>4, <2>5
  <2> QED BY <2>1, <2>3, <2>4, <2>6 DEF Rooms, JoinAnswered, Leaving
<1>4. CASE ReadAnswer
  <2> DEFINE m == Head(down)
  <2>1. /\ pc = "inline" /\ down # << >> /\ down' = Tail(down) /\ m = down[1]
        /\ mixed' = (mixed \/ m.to # waiting)
        /\ room' = IF Joins(waiting, m) THEN waiting.room ELSE room
        /\ pc' \in {"message", "garbled"}
        /\ UNCHANGED <<connected, pending, itsRoom>>
    BY <1>4 DEF ReadAnswer
  <2>2. SUFFICES ASSUME connected, ~mixed' PROVE Rooms'
    BY <2>1
  <2>3. Rooms /\ m.to = waiting
    BY <2>1, <2>2
  <2>4. CASE waiting.name = "join"
    <3>1. pending = << >>
      BY <2>1, <2>3, <2>4 DEF Rooms
    <3>2. \A k \in 1..Len(down) : down[k].to.name = "join" => k = 1
      BY <2>1, <2>3, <2>4 DEF Rooms
    <3>3. room' = itsRoom
      BY <2>1, <2>3, <2>4 DEF Rooms, Joins
    <3>4. \A k \in 1..Len(down') : down'[k] = down[k + 1] /\ k + 1 \in 1..Len(down)
      BY <2>1
    <3>5. \A k \in 1..Len(down') : down'[k].to.name # "join"
      BY <3>2, <3>4
    <3> QED BY <2>1, <3>1, <3>3, <3>5 DEF Rooms, Leaving
  <2>5. CASE waiting.name # "join"
    <3>1. room' = room
      BY <2>1, <2>5 DEF Joins
    <3>2. ~JoinAnswered(down) /\ \A i \in 1..Len(pending) : pending[i].name # "join"
      BY <2>3, <2>5 DEF Rooms, JoinAnswered
    <3>3. \A k \in 1..Len(down') : down'[k] = down[k + 1] /\ k + 1 \in 1..Len(down)
      BY <2>1
    <3>4. \A k \in 1..Len(down') : down'[k].to.name # "join"
      BY <3>2, <3>3 DEF JoinAnswered
    <3> QED BY <2>1, <2>3, <3>1, <3>2, <3>4 DEF Rooms, Leaving
  <2> QED BY <2>4, <2>5
<1>5. CASE StreamEnds \/ SendFails
  BY <1>5 DEF StreamEnds, SendFails, serverVars
<1>6. CASE \E r \in Room : Join(r)
  <2>1. PICK cmd \in Command : cmd.name = "join" /\ SendAndWait(cmd)
    BY <1>6, CommandTypes DEF Join
  <2>2. /\ pc = "input" /\ pc' = "inline" /\ waiting' = cmd
        /\ pending' = Append(pending, cmd)
        /\ UNCHANGED <<connected, room, down, itsRoom, mixed>>
    BY <2>1 DEF SendAndWait, Sends
  <2> QED BY <2>1, <2>2 DEF Rooms, JoinAnswered, Leaving
<1>7. CASE List
  <2>1. PICK cmd \in Command : cmd.name = "list" /\ SendAndWait(cmd)
    BY <1>7, CommandTypes DEF List, Plain
  <2>2. /\ pc = "input" /\ pc' = "inline" /\ waiting' = cmd
        /\ pending' = Append(pending, cmd)
        /\ UNCHANGED <<connected, room, down, itsRoom, mixed>>
    BY <2>1 DEF SendAndWait, Sends
  <2> QED BY <2>1, <2>2 DEF Rooms, JoinAnswered, Leaving
<1>8. CASE Nick \/ Talk
  <2>1. PICK cmd \in Command : cmd.name \in {"nick", "text"} /\ SendOnly(cmd)
    BY <1>8, CommandTypes DEF Nick, Talk, Plain
  <2>2. /\ pc = "input" /\ pc' = "message"
        /\ pending' = Append(pending, cmd)
        /\ UNCHANGED <<connected, room, down, itsRoom, mixed>>
    BY <2>1, <1>8 DEF Nick, Talk, SendOnly, Sends, historyVars
  <2> QED BY <2>1, <2>2 DEF Rooms, JoinAnswered, Leaving
<1>9. CASE LeaveRoom
  <2>1. PICK cmd \in Command : cmd.name = "leave" /\ SendOnly(cmd)
    BY <1>9, CommandTypes DEF LeaveRoom, Plain
  <2>2. /\ pc = "input" /\ pc' = "message" /\ room # NoRoom /\ room' = NoRoom
        /\ pending' = Append(pending, cmd)
        /\ UNCHANGED <<connected, down, itsRoom, mixed>>
    BY <2>1, <1>9 DEF LeaveRoom, SendOnly, Sends, historyVars
  <2>3. Leaving(pending')
    BY <2>1, <2>2 DEF Leaving
  <2> QED BY <2>1, <2>2, <2>3 DEF Rooms, JoinAnswered, Leaving
<1>10. CASE Disconnect \/ Quit
  BY <1>10 DEF Disconnect, Quit, Forget
<1>11. CASE Connect
  BY <1>11 DEF Connect, historyVars, Plain, Rooms, JoinAnswered, Leaving
<1>12. CASE Tick
  BY <1>12 DEF Tick, serverVars, historyVars, Rooms, JoinAnswered, Leaving
<1>13. CASE Handle
  <2> DEFINE cmd == Head(pending)
  <2>1. /\ connected /\ pending # << >> /\ pending' = Tail(pending) /\ cmd = pending[1]
        /\ UNCHANGED <<pc, waiting, connected, room, mixed>>
    BY <1>13 DEF Handle, loopVars, historyVars
  <2>2. SUFFICES ASSUME ~mixed, Running PROVE Rooms'
    BY <2>1
  <2>3. Rooms /\ ~JoinAnswered(down)
    BY <2>1, <2>2 DEF Rooms, JoinAnswered
  <2>4. \A i \in 1..Len(pending') : pending'[i] = pending[i + 1] /\ i + 1 \in 1..Len(pending)
    BY <2>1
  <2>5. CASE cmd.name = "join"
    <3>1. Len(pending) = 1 /\ cmd = waiting /\ pc = "inline" /\ ~Leaving(pending)
      <4>1. 1 \in 1..Len(pending)
        BY <2>1
      <4>2. 1 = Len(pending) /\ pending[1] = waiting /\ pc = "inline"
        BY <2>1, <2>3, <2>5, <4>1 DEF Rooms
      <4>3. \A i \in 1..Len(pending) : i = 1
        BY <4>2
      <4> QED BY <2>1, <2>5, <4>2, <4>3 DEF Leaving
    <3>2. pending' = << >>
      BY <2>1, <3>1
    <3>3. room = itsRoom
      BY <2>3, <3>1 DEF Rooms
    <3>4. PICK kind \in {"ok", "error"} :
            /\ down' = Append(down, [kind |-> kind, to |-> cmd])
            /\ itsRoom' = IF kind = "ok" THEN cmd.room ELSE itsRoom
      BY <2>5, <1>13 DEF Handle, Reply
    <3>5. /\ Len(down') = Len(down) + 1
          /\ down'[Len(down) + 1] = [kind |-> kind, to |-> cmd]
          /\ \A j \in 1..Len(down) : down'[j] = down[j]
      BY <3>4
    <3>6. \A j \in 1..Len(down') : down'[j].to.name = "join" => j = Len(down) + 1
      BY <2>3, <3>5 DEF JoinAnswered
    <3>7. Len(down) + 1 \in 1..Len(down') /\ down'[Len(down) + 1].to.name = "join"
      BY <2>5, <3>5
    <3>8. JoinAnswered(down')
      BY <3>7 DEF JoinAnswered
    <3>9. \A j \in 1..Len(down') : down'[j].to.name = "join" =>
            /\ \A k \in 1..Len(down') : down'[k].to.name = "join" => k = j
            /\ IF down'[j].kind = "ok" THEN itsRoom' = waiting.room ELSE itsRoom' = room
      BY <3>1, <3>3, <3>4, <3>5, <3>6
    <3>10. 1..Len(pending') = {}
      BY <3>2
    <3>11. /\ pc' = "inline" /\ waiting'.name = "join"
           /\ waiting'.room = waiting.room /\ room' = room
      BY <2>1, <2>5, <3>1
    <3> QED BY <3>2, <3>8, <3>9, <3>10, <3>11, Zenon DEF Rooms
  <2>6. CASE cmd.name # "join"
    <3>1. down' = down \/ \E kind : down' = Append(down, [kind |-> kind, to |-> cmd])
      BY <1>13 DEF Handle, Reply
    <3>2. \A j \in 1..Len(down') : down'[j].to.name # "join"
      <4>1. CASE down' = down
        BY <2>3, <4>1 DEF JoinAnswered
      <4>2. ASSUME NEW kind, down' = Append(down, [kind |-> kind, to |-> cmd])
            PROVE  \A j \in 1..Len(down') : down'[j].to.name # "join"
        <5>1. \A j \in 1..Len(down') :
                IF j = Len(down) + 1 THEN down'[j] = [kind |-> kind, to |-> cmd]
                ELSE j \in 1..Len(down) /\ down'[j] = down[j]
          BY <4>2
        <5> QED BY <2>3, <2>6, <5>1 DEF JoinAnswered
      <4> QED BY <3>1, <4>1, <4>2
    <3>3. CASE cmd.name = "leave"
      <4>1. itsRoom' = NoRoom
        BY <3>3, <1>13 DEF Handle
      <4>2. Leaving(pending) /\ ~Leaving(pending')
        BY <2>1, <2>3, <2>4, <3>3 DEF Rooms, Leaving
      <4> QED BY <2>1, <2>3, <2>4, <3>2, <4>1, <4>2 DEF Rooms, JoinAnswered
    <3>4. CASE cmd.name # "leave"
      <4>1. itsRoom' = itsRoom
        BY <2>6, <3>4, <1>13 DEF Handle
      <4>2. Leaving(pending) <=> Leaving(pending')
        <5>1. \A i \in 1..Len(pending) : i # 1 =>
                i - 1 \in 1..Len(pending') /\ pending'[i - 1] = pending[i]
          BY <2>1
        <5>2. ASSUME NEW i \in 1..Len(pending), pending[i].name = "leave"
              PROVE  i - 1 \in 1..Len(pending') /\ pending'[i - 1].name = "leave"
          <6>1. i # 1
            BY <2>1, <3>4, <5>2
          <6> QED BY <5>1, <5>2, <6>1
        <5>3. ASSUME NEW i \in 1..Len(pending'), pending'[i].name = "leave"
              PROVE  i + 1 \in 1..Len(pending) /\ pending[i + 1].name = "leave"
          BY <2>4, <5>3
        <5> QED BY <5>2, <5>3, Zenon DEF Leaving
      <4> QED BY <2>1, <2>3, <2>4, <3>2, <4>1, <4>2 DEF Rooms, JoinAnswered
    <3> QED BY <3>3, <3>4
  <2> QED BY <2>5, <2>6
<1>14. CASE Push
  <2>1. /\ down' = Append(down, [kind |-> "talk", to |-> NoCommand])
        /\ UNCHANGED <<pc, waiting, connected, room, mixed, pending, itsRoom>>
    BY <1>14 DEF Push, loopVars
  <2>2. /\ Len(down') = Len(down) + 1 /\ down'[Len(down) + 1].to.name = "none"
        /\ \A j \in 1..Len(down) : down'[j] = down[j]
    BY <2>1 DEF NoCommand
  <2> QED BY <2>1, <2>2 DEF Rooms, JoinAnswered, Leaving
<1>15. CASE ServerCloses
  BY <1>15 DEF ServerCloses, loopVars, historyVars, Rooms, JoinAnswered, Leaving
<1> QED
  BY <1>1, <1>2, <1>3, <1>4, <1>5, <1>6, <1>7, <1>8, <1>9, <1>10, <1>11, <1>12, <1>13,
     <1>14, <1>15 DEF Next, Loop, User

\* The client's idea of its room is the server's whatever is under way (\join sets it
\* when its answer comes, \leave before the server has heard of it), as long as no
\* command took another's answer.
THEOREM RoomsAgree == Spec => []RoomAgrees
<1>1. Init => RoomInv
  BY DEF Init, RoomInv
<1>2. TypeOK /\ Alone /\ RoomInv /\ [Next]_vars => RoomInv'
  BY RoomsNext
<1>3. RoomInv => RoomAgrees
  <2> SUFFICES ASSUME RoomInv, connected, ~mixed, Running, pc # "inline"
               PROVE  room = IF Leaving(pending) THEN NoRoom ELSE itsRoom
    BY DEF RoomAgrees, Leaving
  <2> QED BY DEF RoomInv, Rooms, JoinAnswered
<1> QED BY <1>1, <1>2, <1>3, Types, AloneHolds, PTL DEF Spec
=============================================================================
