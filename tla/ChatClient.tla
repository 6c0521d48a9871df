------------------------------ MODULE ChatClient ------------------------------
(***************************************************************************)
(* The chat client of assignment3 (rclient.c) and, as far as the client    *)
(* can tell, the server it talks to, which is not in the repository.  The  *)
(* client is one loop: poll, one command of the user's, one message of the *)
(* server's, one keep-alive if the alarm has asked for it.  \connect,      *)
(* \join and \list wait for the next message and take it for their answer; *)
(* the answers to \nick and \leave are left to the loop.                   *)
(***************************************************************************)
EXTENDS Integers, Sequences

CONSTANTS
  Room,      \* the names of rooms
  NoRoom,
  Period,    \* 6 in the code: seconds of an alarm
  MaxQueue   \* bound on the commands and messages under way

ASSUME ChatAssumption == NoRoom \notin Room /\ Period \in Nat \ {0} /\ MaxQueue \in Nat

VARIABLES
  pc,         \* where the client's loop is
  waiting,    \* the command whose answer it waits for
  revents,    \* whether poll found the socket readable
  connected,
  room,       \* the room the client believes to be in (NoRoom: inARoom = 0)
  sendFlag,   \* a keep-alive is due
  timer,      \* seconds until the alarm, 0 when it is off
  quiet,      \* seconds the client could have sent something and did not
  ticked,     \* a second has begun in this turn of the loop
  pending,    \* commands the server has not handled, in order
  down,       \* messages the client has not read, in order
  itsRoom,    \* the room the server has the client in
  closed,     \* the server has closed the connection
  crossed,    \* history: an answer was awaited while others were under way
  mixed,      \* history: a message was taken for the answer to another command
  void        \* history: the alarm was put off by a command that sends nothing

alarmVars == <<sendFlag, timer, quiet, void>>
serverVars == <<pending, down, itsRoom, closed>>
historyVars == <<crossed, mixed>>
loopVars == <<pc, waiting, revents, ticked>>
vars == <<loopVars, connected, room, alarmVars, serverVars, historyVars>>

NoCommand == [name |-> "none", room |-> NoRoom]
Plain(name) == [name |-> name, room |-> NoRoom]
Command == [name : {"none", "connect", "nick", "join", "leave", "list", "text"},
            room : Room \cup {NoRoom}]

\* The commands every server has to answer.
Answered == {"connect", "nick", "join", "leave", "list"}

\* A message: what it is and the command it answers.  "ok" is an answer of
\* length 1, an empty list too; "error" is one with a text and "talk" is what
\* other users say.
Message == [kind : {"name", "ok", "error", "list", "talk"}, to : Command]

UnderWay == Len(pending) + Len(down)

Init ==
  /\ pc = "top" /\ waiting = NoCommand /\ revents = FALSE /\ ticked = FALSE
  /\ connected = FALSE /\ room = NoRoom
  /\ sendFlag = FALSE /\ timer = Period /\ quiet = 0 /\ void = FALSE
  /\ pending = << >> /\ down = << >> /\ itsRoom = NoRoom /\ closed = FALSE
  /\ crossed = FALSE /\ mixed = FALSE

-----------------------------------------------------------------------------
(* The loop. *)

\* In read_n_bytes; in "spinning" it repeats a recv that returns 0.
Reading == pc \in {"inline", "async"}
Blocked == Reading \/ pc = "spinning"

\* poll with a timeout of 0.
Poll ==
  /\ pc = "top"
  /\ pc' = "input"
  /\ revents' = (connected /\ (down # << >> \/ closed))
  /\ UNCHANGED <<waiting, ticked, connected, room, alarmVars, serverVars, historyVars>>

\* No line from the user, or one that changes nothing.
NoInput ==
  /\ pc = "input"
  /\ pc' = "message"
  /\ UNCHANGED <<waiting, revents, ticked, connected, room, alarmVars, serverVars,
                 historyVars>>

\* Mutant: reads whether or not there is something to read.
StartReading_Always ==
  /\ pc = "message"
  /\ pc' = IF connected THEN "async" ELSE "alive"
  /\ UNCHANGED <<waiting, revents, ticked, connected, room, alarmVars, serverVars,
                 historyVars>>

\* The loop reads a message if poll saw one, be it that a command has read it.
StartReading ==
  /\ pc = "message"
  /\ pc' = IF connected /\ revents THEN "async" ELSE "alive"
  /\ UNCHANGED <<waiting, revents, ticked, connected, room, alarmVars, serverVars,
                 historyVars>>

\* What others say is printed, answers of any kind are thrown away.
ReadMessage ==
  /\ pc = "async" /\ down # << >>
  /\ down' = Tail(down)
  /\ pc' = "alive"
  /\ UNCHANGED <<waiting, revents, ticked, connected, room, alarmVars, pending,
                 itsRoom, closed, historyVars>>

\* Mutant: only after poll has found something.
KeepAlive_WithMessage ==
  /\ pc = "alive"
  /\ pc' = "top" /\ ticked' = FALSE
  /\ IF sendFlag /\ connected /\ revents
     THEN sendFlag' = FALSE /\ quiet' = 0 ELSE UNCHANGED <<sendFlag, quiet>>
  /\ UNCHANGED <<waiting, revents, connected, room, timer, void, serverVars, historyVars>>

\* The end of a turn.  A keep-alive changes nothing at the server and has no answer.
KeepAlive ==
  /\ pc = "alive"
  /\ pc' = "top" /\ ticked' = FALSE
  /\ IF sendFlag /\ connected
     THEN sendFlag' = FALSE /\ quiet' = 0 ELSE UNCHANGED <<sendFlag, quiet>>
  /\ UNCHANGED <<waiting, revents, connected, room, timer, void, serverVars, historyVars>>

-----------------------------------------------------------------------------
(* The user's commands. *)

\* sendFlag = 0; alarm(6): the old alarm may go off in between.
RestartAlarm ==
  /\ sendFlag' \in IF timer = 1 THEN BOOLEAN ELSE {FALSE}
  /\ timer' = Period

\* What a command sends.
Sends(cmd) ==
  /\ UnderWay < MaxQueue
  /\ pending' = Append(pending, cmd)
  /\ quiet' = 0

\* Mutant: leaves the alarm as it is.
SendAndWait_OldAlarm(cmd) ==
  /\ pc = "input" /\ connected
  /\ UNCHANGED <<sendFlag, timer>> /\ Sends(cmd)
  /\ pc' = "inline" /\ waiting' = cmd
  /\ crossed' = (crossed \/ UnderWay > 0)
  /\ UNCHANGED <<revents, ticked, connected, room, down, itsRoom, closed, mixed, void>>

\* A command that waits for the next message.
SendAndWait(cmd) ==
  /\ pc = "input" /\ connected
  /\ RestartAlarm /\ Sends(cmd)
  /\ pc' = "inline" /\ waiting' = cmd
  /\ crossed' = (crossed \/ UnderWay > 0)
  /\ UNCHANGED <<revents, ticked, connected, room, down, itsRoom, closed, mixed, void>>

Join(r) == SendAndWait([name |-> "join", room |-> r])
List == SendAndWait(Plain("list"))

\* Mutant: the answer to a message is awaited.
SendOnly_Waits(cmd) ==
  /\ pc = "input" /\ connected
  /\ RestartAlarm /\ Sends(cmd)
  /\ pc' = "inline" /\ waiting' = cmd
  /\ UNCHANGED <<revents, ticked, connected, down, itsRoom, closed, void, historyVars>>

SendOnly(cmd) ==
  /\ pc = "input" /\ connected
  /\ RestartAlarm /\ Sends(cmd)
  /\ pc' = "message"
  /\ UNCHANGED <<waiting, revents, ticked, connected, down, itsRoom, closed, void,
                 historyVars>>

\* \nick, \msg, and text in a room.
Nick == SendOnly(Plain("nick")) /\ UNCHANGED room
Talk == SendOnly(Plain("text")) /\ UNCHANGED room

\* Text outside a room, or a name that is too long: nothing is sent.
SendNothing ==
  /\ pc = "input" /\ connected
  /\ RestartAlarm
  /\ void' = TRUE
  /\ pc' = "message"
  /\ UNCHANGED <<waiting, revents, ticked, connected, room, quiet, serverVars, historyVars>>

\* \leave in a room.
LeaveRoom == room # NoRoom /\ SendOnly(Plain("leave")) /\ room' = NoRoom

\* Mutant: what is left of the old connection's messages stays.
Forget_Messages ==
  /\ connected' = FALSE /\ room' = NoRoom
  /\ pending' = << >> /\ UNCHANGED down /\ itsRoom' = NoRoom /\ closed' = FALSE
  /\ crossed' = FALSE /\ mixed' = FALSE /\ void' = FALSE
  /\ quiet' = 0 /\ timer' = 0

\* The client forgets its socket before it closes it, so the connection stays
\* open until the process ends; nothing reads from it any more.
Forget ==
  /\ connected' = FALSE /\ room' = NoRoom
  /\ pending' = << >> /\ down' = << >> /\ itsRoom' = NoRoom /\ closed' = FALSE
  /\ crossed' = FALSE /\ mixed' = FALSE /\ void' = FALSE
  /\ quiet' = 0 /\ timer' = 0

\* \disconnect, and \leave outside a room, where the alarm may go off before
\* it is stopped.
Disconnect ==
  /\ pc = "input" /\ connected
  /\ Forget
  /\ sendFlag' \in IF room = NoRoom /\ timer = 1 THEN BOOLEAN ELSE {FALSE}
  /\ pc' = "message"
  /\ UNCHANGED <<waiting, revents, ticked>>

\* \quit.
Quit ==
  /\ pc = "input"
  /\ Forget
  /\ pc' = "ended"
  /\ UNCHANGED <<waiting, revents, ticked, sendFlag>>

\* \connect to a server: a new connection, and the greeting goes out.
Connect ==
  /\ pc = "input" /\ ~connected
  /\ connected' = TRUE
  /\ pending' = <<Plain("connect")>> /\ quiet' = 0
  /\ pc' = "inline" /\ waiting' = Plain("connect")
  /\ UNCHANGED <<revents, ticked, room, sendFlag, timer, void, down, itsRoom, closed,
                 historyVars>>

\* \connect to nobody: the alarm is set all the same.
ConnectFails ==
  /\ pc = "input" /\ ~connected
  /\ RestartAlarm
  /\ pc' = "message"
  /\ UNCHANGED <<waiting, revents, ticked, connected, room, quiet, void, serverVars,
                 historyVars>>

-----------------------------------------------------------------------------
(* The answer a command waits for. *)

\* startConnection and sendJoin read one whole message of any kind.  A list is
\* read by the lengths of its parts: of an "ok" there are none, but anything
\* else is cut at the wrong places.
Garbles(cmd, m) == cmd.name = "list" /\ m.kind \notin {"list", "ok"}

\* Mutant: every answer is a success.
Joins_Anyhow(cmd, m) == cmd.name = "join"

\* sendJoin takes a message of length 1 for success.
Joins(cmd, m) == cmd.name = "join" /\ m.kind = "ok"

ReadAnswer ==
  LET m == Head(down)
  IN  /\ pc = "inline" /\ down # << >>
      /\ down' = Tail(down)
      /\ mixed' = (mixed \/ m.to # waiting)
      /\ room' = IF Joins(waiting, m) THEN waiting.room ELSE room
      /\ pc' = IF Garbles(waiting, m) THEN "garbled" ELSE "message"
      /\ IF waiting.name = "connect" THEN RestartAlarm ELSE UNCHANGED <<sendFlag, timer>>
      /\ waiting' = NoCommand
      /\ UNCHANGED <<revents, ticked, connected, quiet, void, pending, itsRoom, closed,
                     crossed>>

\* The stream has ended: recv returns 0 and read_n_bytes repeats it for ever, or
\* after an error its callers go on with what was in their variables.
StreamEnds ==
  /\ Reading /\ closed /\ down = << >>
  /\ pc' \in {"spinning", "broken"}
  /\ UNCHANGED <<waiting, revents, ticked, connected, room, alarmVars, serverVars,
                 historyVars>>

\* A send on a connection that has been closed ends the process.
SendFails ==
  /\ closed /\ connected /\ (pc = "input" \/ (pc = "alive" /\ sendFlag))
  /\ pc' = "broken"
  /\ UNCHANGED <<waiting, revents, ticked, connected, room, alarmVars, serverVars,
                 historyVars>>

-----------------------------------------------------------------------------
(* The alarm. *)

Running == pc \notin {"ended", "garbled", "broken", "spinning"}

\* A second of the alarm, at the last of which alarmHandler runs.
SecondPasses(t) ==
  IF t = 1 THEN sendFlag' = TRUE /\ timer' = Period
  ELSE timer' = (IF t = 0 THEN 0 ELSE t - 1) /\ UNCHANGED sendFlag

\* A turn of the loop sees at most one second begin, unless it waits for the
\* server.  The Makefile's -std=c99 makes signal the one of System V, which does
\* not restart system calls: an alarm breaks off a recv that waits, and what
\* follows is read from the wrong place.  Seconds of a \connect and of the
\* loop's own reads are not counted as quiet.
Waits == Reading /\ down = << >>

Tick ==
  /\ Running
  /\ Waits \/ ~ticked
  /\ ticked' = TRUE
  /\ SecondPasses(timer)
  /\ pc' = IF Waits /\ timer = 1 THEN "garbled" ELSE pc
  /\ quiet' = IF connected /\ waiting.name # "connect" /\ pc # "async"
                 /\ quiet <= Period
              THEN quiet + 1 ELSE quiet
  /\ UNCHANGED <<waiting, revents, connected, room, void, serverVars, historyVars>>

-----------------------------------------------------------------------------
(* The server. *)

Reply(kind) ==
  down' = Append(down, [kind |-> kind, to |-> Head(pending)])

\* It handles the commands in order and answers all but text, to which there is
\* an answer only when it fails.
Handle ==
  LET cmd == Head(pending)
  IN  /\ connected /\ ~closed /\ pending # << >>
      /\ pending' = Tail(pending)
      /\ \/ /\ cmd.name = "connect" /\ Reply("name")
            /\ UNCHANGED <<itsRoom, closed>>
         \/ /\ cmd.name = "list" /\ (Reply("list") \/ Reply("ok"))
            /\ UNCHANGED <<itsRoom, closed>>
         \/ /\ cmd.name = "nick" /\ (Reply("ok") \/ Reply("error"))
            /\ UNCHANGED <<itsRoom, closed>>
         \/ /\ cmd.name = "text" /\ (UNCHANGED down \/ Reply("error"))
            /\ UNCHANGED <<itsRoom, closed>>
         \/ /\ cmd.name = "join"
            /\ \/ Reply("ok") /\ itsRoom' = cmd.room
               \/ Reply("error") /\ UNCHANGED itsRoom
            /\ UNCHANGED closed
         \/ /\ cmd.name = "leave" /\ itsRoom # NoRoom
            /\ Reply("ok") /\ itsRoom' = NoRoom
            /\ UNCHANGED closed
         \/ /\ cmd.name = "leave" /\ itsRoom = NoRoom
            /\ closed' = TRUE
            /\ UNCHANGED <<down, itsRoom>>
  /\ UNCHANGED <<loopVars, connected, room, alarmVars, historyVars>>

\* It passes on what others say, once it has greeted the client.
Push ==
  /\ connected /\ ~closed /\ \A i \in 1..Len(pending) : pending[i].name # "connect"
  /\ UnderWay < MaxQueue
  /\ down' = Append(down, [kind |-> "talk", to |-> NoCommand])
  /\ crossed' = (crossed \/ pc = "inline")
  /\ UNCHANGED <<loopVars, connected, room, alarmVars, pending, itsRoom, closed, mixed>>

\* It goes down or has had enough of the client.
ServerCloses ==
  /\ connected /\ ~closed
  /\ closed' = TRUE
  /\ UNCHANGED <<loopVars, connected, room, alarmVars, pending, down, itsRoom, historyVars>>

-----------------------------------------------------------------------------
Loop ==
  Poll \/ NoInput \/ StartReading \/ ReadMessage \/ KeepAlive \/ ReadAnswer \/ StreamEnds

User ==
  \/ \E r \in Room : Join(r)
  \/ List \/ Nick \/ Talk \/ SendNothing \/ LeaveRoom \/ Disconnect \/ Quit
  \/ Connect \/ ConnectFails

Next == Loop \/ User \/ SendFails \/ Tick \/ Handle \/ Push \/ ServerCloses

Spec == Init /\ [][Next]_vars

\* The loop goes on when it can and the server handles what it is sent.
FairSpec == Spec /\ WF_vars(Loop) /\ WF_vars(Handle)

-----------------------------------------------------------------------------
\* Types; without a connection nothing is left of the last one.
TypeOK ==
  /\ pc \in {"top", "input", "inline", "message", "async", "alive", "ended",
            "garbled", "broken", "spinning"}
  /\ waiting \in Command /\ room \in Room \cup {NoRoom} /\ itsRoom \in Room \cup {NoRoom}
  /\ revents \in BOOLEAN /\ ticked \in BOOLEAN /\ connected \in BOOLEAN
  /\ sendFlag \in BOOLEAN /\ timer \in 0..Period /\ quiet \in Nat /\ void \in BOOLEAN
  /\ pending \in Seq(Command) /\ down \in Seq(Message)
  /\ closed \in BOOLEAN /\ crossed \in BOOLEAN /\ mixed \in BOOLEAN
  /\ ~connected => pending = << >> /\ down = << >> /\ room = NoRoom /\ ~closed
  /\ pc = "spinning" => closed

\* A read that blocks is never in vain: a message is there or the server owes
\* one, also when a command has read the message that poll saw.
AlwaysOwed ==
  Blocked /\ ~closed =>
    down # << >> \/ \E i \in 1..Len(pending) : pending[i].name \in Answered

\* A command gets its own answer, unless others were under way when it was
\* sent or the server pushed a message in between.
OwnAnswer == mixed => crossed

\* As long as every command got its own answer, the client's idea of the room it
\* is in is the server's, but for a \leave that is on its way.
RoomAgrees ==
  connected /\ ~mixed /\ Running /\ pc # "inline" =>
    room = IF \E i \in 1..Len(pending) : pending[i].name = "leave"
           THEN NoRoom ELSE itsRoom

\* The alarm is never off while there is a connection.
AlarmArmed == connected /\ pc = "top" => timer > 0

\* From the \connect on the client sends something at least once in a period,
\* unless it puts the alarm off for text nobody hears.
NeverSilent == connected /\ ~void => quiet <= Period

\* The alarm breaks off the wait for an answer to \join or \list only after a
\* whole period without one.
WholePeriod ==
  pc = "garbled" /\ waiting.name \in {"join", "list"} => quiet >= Period

\* Every read comes to an end, whatever answers were left to the loop, unless the
\* server has closed the connection and nothing is left of its stream: then it
\* may go on for ever, as read_n_bytes (rclient.c:42-49) repeats a recv of 0.
ReadsEnd == Blocked ~> ~Blocked \/ (closed /\ down = << >>)
=============================================================================
