----------------------------- MODULE RouterAlarm -----------------------------
(***************************************************************************)
(* The clockwork of the router of assignment2: alarm_handler counts        *)
(* seconds and raises send_flag when the routing table is to be sent and   *)
(* es_flag when the next event set is due; the main loop of walk_el looks  *)
(* at the flags once per turn and clears them.  The handler may run        *)
(* between any two steps of the loop, also between the look and the clear. *)
(***************************************************************************)
EXTENDS Integers, Sequences

CONSTANTS
  Timings,  \* the pairs of update_time and time_between the user may choose
  NSets,    \* the number of event sets in the configuration
  MaxTurn,  \* how many seconds may begin while a turn of the main loop lasts
  MaxTime   \* bound on the clock

ASSUME AlarmAssumption ==
  /\ Timings \subseteq (Nat \ {0}) \X (Nat \ {0})
  /\ NSets \in Nat \ {0} /\ MaxTurn \in Nat /\ MaxTime \in Nat

VARIABLES
  now,            \* seconds since the start
  due,            \* when the alarm is set to go off
  short_time, lt, \* update_time and time_between
  long_time,      \* lt times one more than the sets released so far
  alarm_counter,  \* alarms that were only for sending
  es_flag_flag,   \* the next alarm releases a set
  es_flag,        \* a set is due
  send_flag,      \* the routing table is to be sent
  pc,             \* where the main loop is
  turn,           \* when its current turn began
  dispatched,     \* how many event sets it has dispatched
  released        \* history: when es_flag was raised

timing == <<short_time, lt>>
handlerVars == <<due, long_time, alarm_counter, es_flag_flag, released>>
mainVars == <<pc, turn, dispatched>>
vars == <<now, timing, handlerVars, es_flag, send_flag, mainVars>>

Init ==
  /\ now = 0 /\ due = 0
  /\ \E t \in Timings : short_time = t[1] /\ lt = t[2]
  /\ long_time = lt
  /\ alarm_counter = 0
  /\ es_flag_flag = FALSE /\ es_flag = FALSE /\ send_flag = TRUE
  /\ pc = "start" /\ turn = 0 /\ dispatched = 0
  /\ released = << >>

-----------------------------------------------------------------------------
(* The handler. *)

times == long_time \div short_time
remainder == long_time % short_time

\* Both ways in which es_flag is raised.
ReleaseSet ==
  /\ es_flag' = TRUE
  /\ long_time' = long_time + lt
  /\ released' = Append(released, now)

\* The second of two alarms that end a period together.
AfterRemainder ==
  /\ es_flag_flag
  /\ ReleaseSet
  /\ es_flag_flag' = FALSE
  /\ due' = now + short_time - remainder
  /\ UNCHANGED <<alarm_counter, send_flag>>

PeriodEnds ==
  /\ ~es_flag_flag /\ alarm_counter = times /\ remainder = 0
  /\ ReleaseSet
  /\ send_flag' = TRUE
  /\ due' = now + short_time
  /\ UNCHANGED <<alarm_counter, es_flag_flag>>

PeriodEndsSoon ==
  /\ ~es_flag_flag /\ alarm_counter = times /\ remainder # 0
  /\ es_flag_flag' = TRUE
  /\ due' = now + remainder
  /\ UNCHANGED <<long_time, alarm_counter, es_flag, send_flag, released>>

SendingDue ==
  /\ ~es_flag_flag /\ alarm_counter # times
  /\ alarm_counter' = alarm_counter + 1
  /\ es_flag' = FALSE
  /\ send_flag' = TRUE
  /\ due' = now + short_time
  /\ UNCHANGED <<long_time, es_flag_flag, released>>

alarm_handler == AfterRemainder \/ PeriodEnds \/ PeriodEndsSoon \/ SendingDue

Alarm ==
  /\ pc # "start" /\ now = due
  /\ alarm_handler
  /\ UNCHANGED <<now, timing, mainVars>>

-----------------------------------------------------------------------------
(* The main loop. *)

\* walk_el calls the handler itself to start the clockwork, then dispatches
\* the first set.
Begin ==
  /\ pc = "start"
  /\ alarm_handler
  /\ pc' = "poll" /\ turn' = now /\ dispatched' = 1
  /\ UNCHANGED <<now, timing>>

\* One datagram is read from each socket that has one (module Router); then
\* the loop looks at send_flag.
Poll ==
  /\ pc = "poll"
  /\ pc' = IF send_flag THEN "sending" ELSE "check"
  /\ UNCHANGED <<now, timing, handlerVars, es_flag, send_flag, turn, dispatched>>

\* Mutant: the flag is left up.
Sent_KeepsFlag ==
  /\ pc = "sending"
  /\ pc' = "check"
  /\ UNCHANGED <<now, timing, handlerVars, es_flag, send_flag, turn, dispatched>>

\* The table goes out on the links and the flag is cleared (a router without
\* links never clears it; that case is left out).
Sent ==
  /\ pc = "sending"
  /\ send_flag' = FALSE
  /\ pc' = "check"
  /\ UNCHANGED <<now, timing, handlerVars, es_flag, turn, dispatched>>

\* The loop looks at es_flag; without it, or without another set, it turns.
Check ==
  /\ pc = "check"
  /\ \/ /\ es_flag /\ dispatched < NSets
        /\ pc' = "take" /\ UNCHANGED turn
     \/ /\ ~es_flag \/ dispatched = NSets
        /\ pc' = "poll" /\ turn' = now
  /\ UNCHANGED <<now, timing, handlerVars, es_flag, send_flag, dispatched>>

\* Mutant: the flag is left up for the next turn.
Take_KeepsFlag ==
  /\ pc = "take"
  /\ dispatched' = dispatched + 1
  /\ pc' = "poll" /\ turn' = now
  /\ UNCHANGED <<now, timing, handlerVars, es_flag, send_flag>>

\* es_flag is cleared, the loop is left and the next set is dispatched.
Take ==
  /\ pc = "take"
  /\ es_flag' = FALSE
  /\ dispatched' = dispatched + 1
  /\ pc' = "poll" /\ turn' = now
  /\ UNCHANGED <<now, timing, handlerVars, send_flag>>

\* A second begins: not before the alarm that is due has been delivered, and
\* only so many in one turn of the loop.
Tick ==
  /\ pc # "start" /\ now < MaxTime
  /\ now < due /\ now < turn + MaxTurn
  /\ now' = now + 1
  /\ UNCHANGED <<timing, handlerVars, es_flag, send_flag, mainVars>>

Next == Begin \/ Alarm \/ Poll \/ Sent \/ Check \/ Take \/ Tick

Spec == Init /\ [][Next]_vars

-----------------------------------------------------------------------------
\* Types; the alarm is set for a time to come.
TypeOK ==
  /\ now \in 0..MaxTime
  /\ due \in now..(MaxTime + short_time) /\ (es_flag_flag => due < now + short_time)
  /\ <<short_time, lt>> \in Timings
  /\ long_time = (Len(released) + 1) * lt
  /\ alarm_counter \in 0..times
  /\ es_flag_flag \in BOOLEAN /\ es_flag \in BOOLEAN /\ send_flag \in BOOLEAN
  /\ pc \in {"start", "poll", "sending", "check", "take"}
  /\ turn \in 0..now
  /\ dispatched \in 0..NSets
  /\ released \in Seq(0..MaxTime)

\* "dispatch and print a event SET every 2 sec" (es.c:171): from one release to
\* the next it is time_between.  The code does not keep this.
SetEveryPeriod ==
  \A k \in 1..Len(released) - 1 : released[k + 1] - released[k] = lt

\* What it does instead: every release costs an update time more, since the alarm
\* that releases a set is not counted in alarm_counter (es.c:150-156); and no
\* more than that, whether or not the period is a multiple of the update time.
ReleasedLate ==
  \A k \in 1..Len(released) : released[k] = k * lt + (k - 1) * short_time

\* The time from the k-th release to the next alarm, which clears es_flag.
GapAfter(k) == short_time - ((k * lt) % short_time)

\* When a turn of the loop is always shorter than that gap no release is lost:
\* every one has led to a dispatch or still will.
NoSetLost ==
  (\A k \in 1..NSets : MaxTurn < GapAfter(k)) /\ pc # "start" /\ dispatched < NSets =>
    dispatched + (IF es_flag THEN 1 ELSE 0) = Len(released) + 1

\* When two turns are shorter than the update time, every request to send the
\* table is taken up before the next one is made.
SendingKeepsPace ==
  [][2 * MaxTurn < short_time /\ pc # "start" /\ (SendingDue \/ PeriodEnds)
       => ~send_flag \/ pc = "sending"]_vars
=============================================================================
