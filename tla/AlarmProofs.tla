----------------------------- MODULE AlarmProofs -----------------------------
(***************************************************************************)
(* Proofs about the router's clockwork, for any update_time and any        *)
(* time_between: types, the times at which event sets are released, and    *)
(* that no release and no request to send is lost while turns are short.   *)
(***************************************************************************)
EXTENDS RouterAlarm, TLAPS

-----------------------------------------------------------------------------
(* Division. *)

LEMMA Division ==
  ASSUME NEW a \in Nat, NEW b \in Nat \ {0}
  PROVE  /\ a \div b \in Nat /\ a % b \in 0..(b - 1)
         /\ a = b * (a \div b) + (a % b)
<1>1. a \div b \in Int /\ a \div b >= 0
  OBVIOUS
<1>2. a % b \in 0..(b - 1)
  OBVIOUS
<1>3. a = b * (a \div b) + (a % b)
  OBVIOUS
<1> QED BY <1>1, <1>2, <1>3

LEMMA Times ==
  ASSUME NEW b \in Nat, NEW x \in Nat, NEW y \in Nat, x <= y
  PROVE  b * x <= b * y
<1>1. PICK z \in Nat : y = x + z
  <2>1. y - x \in Nat /\ y = x + (y - x)
    OBVIOUS
  <2> QED BY <2>1
<1>2. b * y = b * x + b * z /\ b * x \in Nat /\ b * z \in Nat
  BY <1>1
<1> QED BY <1>2

LEMMA DivisionMonotone ==
  ASSUME NEW a \in Nat, NEW c \in Nat, NEW b \in Nat \ {0}
  PROVE  a \div b <= (a + c) \div b
<1> DEFINE p == a \div b  q == (a + c) \div b
<1>1. p \in Nat /\ b * p <= a
  BY Division
<1>2. q \in Nat /\ a + c < b * q + b
  <2>1. a + c \in Nat /\ b \in Nat
    OBVIOUS
  <2>2. q \in Nat /\ (a + c) % b \in 0..(b - 1) /\ a + c = b * q + ((a + c) % b)
    BY <2>1, Division
  <2>3. b * q \in Nat
    BY <2>1, <2>2
  <2> HIDE DEF q
  <2> QED BY <2>1, <2>2, <2>3
<1> SUFFICES ASSUME q + 1 <= p PROVE FALSE
  BY <1>1, <1>2
<1> HIDE DEF p, q
<1>3. b * (q + 1) <= b * p
  BY <1>1, <1>2, Times
<1>4. b * (q + 1) = b * q + b /\ b * q \in Nat /\ b * p \in Nat
  BY <1>1, <1>2
<1> QED BY <1>1, <1>2, <1>3, <1>4

-----------------------------------------------------------------------------
(* The inductive invariant: besides the types, when the alarm is due. *)

Running == pc = "take" => dispatched < NSets
Started == pc = "start" => dispatched = 0 /\ now = due

DueInStep ==
  /\ ~es_flag_flag => due = (alarm_counter + Len(released)) * short_time
  /\ es_flag_flag => /\ alarm_counter = times
                     /\ due = long_time + Len(released) * short_time

IInv == TypeOK /\ Running /\ Started /\ DueInStep /\ ReleasedLate

\* The period in terms of the update time, in every state.
LEMMA Period ==
  ASSUME TypeOK
  PROVE  /\ short_time \in Nat \ {0} /\ lt \in Nat \ {0} /\ long_time \in Nat
         /\ times \in Nat /\ remainder \in 0..(short_time - 1)
         /\ long_time = short_time * times + remainder
         /\ Len(released) \in Nat /\ alarm_counter \in Nat /\ alarm_counter <= times
         /\ now \in Nat /\ due \in Nat /\ now <= due
<1>1. short_time \in Nat \ {0} /\ lt \in Nat \ {0}
  BY AlarmAssumption DEF TypeOK, AlarmAssumption
<1>2. Len(released) \in Nat /\ long_time = (Len(released) + 1) * lt
  BY DEF TypeOK
<1>3. long_time \in Nat
  BY <1>1, <1>2
<1>4. /\ times \in Nat /\ remainder \in 0..(short_time - 1)
      /\ long_time = short_time * times + remainder
  BY <1>1, <1>3, Division DEF times, remainder
<1>5. alarm_counter \in Nat /\ alarm_counter <= times
  BY <1>4 DEF TypeOK
<1>6. now \in Nat /\ due \in Nat /\ now <= due
  BY <1>1, AlarmAssumption DEF TypeOK, AlarmAssumption
<1> QED BY <1>1, <1>2, <1>3, <1>4, <1>5, <1>6

LEMMA Initially == Init => IInv
<1> SUFFICES ASSUME Init PROVE IInv
  OBVIOUS
<1>1. PICK t \in Timings : short_time = t[1] /\ lt = t[2]
  BY DEF Init
<1>2. /\ short_time \in Nat \ {0} /\ lt \in Nat \ {0}
      /\ <<short_time, lt>> \in Timings
  BY <1>1, AlarmAssumption DEF AlarmAssumption
<1>3. long_time = lt /\ released = << >> /\ Len(released) = 0
  BY DEF Init
<1>4. times \in Nat
  BY <1>2, <1>3, Division DEF times
<1>5. TypeOK
  <2>1. now \in 0..MaxTime /\ due \in now..(MaxTime + short_time)
    BY <1>2, AlarmAssumption DEF Init, AlarmAssumption
  <2>2. long_time = (Len(released) + 1) * lt
    BY <1>2, <1>3
  <2>3. alarm_counter \in 0..times /\ turn \in 0..now /\ dispatched \in 0..NSets
    BY <1>4, AlarmAssumption DEF Init, AlarmAssumption
  <2>4. released \in Seq(0..MaxTime)
    BY <1>3
  <2> QED BY <1>2, <2>1, <2>2, <2>3, <2>4 DEF Init, TypeOK
<1> QED BY <1>2, <1>3, <1>5 DEF Init, IInv, Running, Started, DueInStep, ReleasedLate

\* What a release does to the history: it comes at its time if now is that.
LEMMA Release ==
  ASSUME IInv, ReleaseSet, UNCHANGED <<short_time, lt>>, now \in 0..MaxTime,
         now = long_time + Len(released) * short_time
  PROVE  /\ ReleasedLate'
         /\ Len(released') = Len(released) + 1 /\ released' \in Seq(0..MaxTime)
         /\ long_time' = (Len(released') + 1) * lt
         /\ times' \in Nat /\ times <= times'
<1>1. TypeOK /\ ReleasedLate
  BY DEF IInv
<1>2. /\ released \in Seq(0..MaxTime) /\ released' = Append(released, now)
      /\ long_time' = long_time + lt
  BY <1>1 DEF TypeOK, ReleaseSet
<1>3. /\ Len(released') = Len(released) + 1 /\ released' \in Seq(0..MaxTime)
      /\ released'[Len(released) + 1] = now
      /\ \A k \in 1..Len(released) : released'[k] = released[k]
  BY <1>2
<1>4. long_time = (Len(released) + 1) * lt
  BY <1>1 DEF TypeOK
<1>5. long_time' = (Len(released') + 1) * lt
  <2>1. lt \in Nat /\ Len(released) \in Nat
    BY <1>1, Period
  <2>2. (Len(released) + 1) * lt + lt = (Len(released) + 2) * lt
    BY <2>1
  <2> QED BY <1>2, <1>3, <1>4, <2>1, <2>2
<1>6. ASSUME NEW k \in 1..Len(released')
      PROVE  released'[k] = k * lt + (k - 1) * short_time
  <2>1. CASE k \in 1..Len(released)
    BY <1>1, <1>3, <2>1 DEF ReleasedLate
  <2>2. CASE k = Len(released) + 1
    <3>1. released'[k] = (Len(released) + 1) * lt + Len(released) * short_time
      BY <1>3, <1>4, <2>2
    <3>2. k - 1 = Len(released)
      BY <1>1, <2>2, Period
    <3> QED BY <2>2, <3>1, <3>2
  <2>3. Len(released) \in Nat
    BY <1>2
  <2> QED BY <1>3, <2>1, <2>2, <2>3
<1>7. times' \in Nat /\ times <= times'
  <2>1. long_time \in Nat /\ lt \in Nat /\ short_time \in Nat \ {0}
    BY <1>1, Period
  <2>2. times' = (long_time + lt) \div short_time
    BY <1>2 DEF times
  <2>3. long_time + lt \in Nat
    BY <2>1
  <2>4. times' \in Nat
    BY <2>1, <2>2, <2>3, Division
  <2>5. times <= times'
    BY <2>1, <2>2, DivisionMonotone DEF times
  <2> QED BY <2>4, <2>5
<1> QED BY <1>3, <1>5, <1>6, <1>7 DEF ReleasedLate

-----------------------------------------------------------------------------
(* The handler, called when the alarm goes off or by Begin. *)

\* The part of the invariant that the handler's variables are in.
HandlerTypeOK ==
  /\ due > now /\ due <= now + short_time
  /\ es_flag_flag => due < now + short_time
  /\ long_time = (Len(released) + 1) * lt
  /\ alarm_counter \in 0..times
  /\ es_flag_flag \in BOOLEAN /\ es_flag \in BOOLEAN /\ send_flag \in BOOLEAN
  /\ released \in Seq(0..MaxTime)

HandlerOK == HandlerTypeOK /\ DueInStep /\ ReleasedLate

LEMMA HandlerStep ==
  ASSUME IInv, now = due, alarm_handler, UNCHANGED <<now, short_time, lt>>
  PROVE  HandlerOK'
<1> DEFINE r == Len(released)  T == short_time
<1>1. TypeOK /\ DueInStep /\ ReleasedLate
  BY DEF IInv
<1>2. /\ T \in Nat \ {0} /\ lt \in Nat \ {0} /\ long_time \in Nat
      /\ times \in Nat /\ remainder \in 0..(T - 1)
      /\ long_time = T * times + remainder
      /\ r \in Nat /\ alarm_counter \in Nat /\ alarm_counter <= times
      /\ now \in 0..MaxTime
  BY <1>1, Period DEF TypeOK
<1>3. /\ es_flag_flag \in BOOLEAN /\ es_flag \in BOOLEAN /\ send_flag \in BOOLEAN
      /\ released \in Seq(0..MaxTime) /\ long_time = (r + 1) * lt
  BY <1>1 DEF TypeOK
<1>4. /\ ~es_flag_flag => now = (alarm_counter + r) * T
      /\ es_flag_flag => alarm_counter = times /\ now = long_time + r * T
  BY <1>1 DEF DueInStep
<1>5. CASE AfterRemainder
  <2>1. /\ es_flag_flag /\ ReleaseSet /\ ~es_flag_flag' /\ es_flag_flag' \in BOOLEAN
        /\ due' = now + T - remainder
        /\ UNCHANGED <<alarm_counter, send_flag>> /\ es_flag' = TRUE
    BY <1>5 DEF AfterRemainder, ReleaseSet
  <2>2. /\ ReleasedLate' /\ Len(released') = r + 1 /\ released' \in Seq(0..MaxTime)
        /\ long_time' = (Len(released') + 1) * lt
        /\ times' \in Nat /\ times <= times'
    BY <1>2, <1>4, <2>1, Release
  <2>3. due' = (alarm_counter' + Len(released')) * T
    <3>1. T * times + r * T + T = (times + (r + 1)) * T
      BY <1>2
    <3>2. r * T \in Nat /\ T * times \in Nat
      BY <1>2
    <3> QED BY <1>2, <1>4, <2>1, <2>2, <3>1, <3>2
  <2>4. due' > now /\ due' <= now + T
    BY <1>2, <2>1
  <2>5. HandlerTypeOK'
    <3>1. alarm_counter' \in 0..times'
      BY <1>2, <1>3, <2>1, <2>2, <2>3, <2>4
    <3> QED BY <1>2, <1>3, <2>1, <2>2, <2>3, <2>4, <3>1 DEF HandlerTypeOK
  <2>6. DueInStep'
    BY <1>2, <1>3, <2>1, <2>2, <2>3, <2>4 DEF DueInStep
  <2> QED BY <2>2, <2>5, <2>6 DEF HandlerOK
<1>6. CASE PeriodEnds
  <2>1. /\ ~es_flag_flag /\ ReleaseSet /\ send_flag' = TRUE /\ es_flag' = TRUE
        /\ UNCHANGED <<alarm_counter, es_flag_flag>>
        /\ alarm_counter = times /\ remainder = 0 /\ due' = now + T
    BY <1>6 DEF PeriodEnds, ReleaseSet
  <2>2. now = long_time + r * T
    BY <1>2, <1>4, <2>1
  <2>3. /\ ReleasedLate' /\ Len(released') = r + 1 /\ released' \in Seq(0..MaxTime)
        /\ long_time' = (Len(released') + 1) * lt
        /\ times' \in Nat /\ times <= times'
    BY <1>2, <2>1, <2>2, Release
  <2>4. due' = (alarm_counter' + Len(released')) * T
    <3>1. (times + r) * T + T = (times + (r + 1)) * T
      BY <1>2
    <3> QED BY <1>4, <2>1, <2>3, <3>1
  <2>5. due' > now /\ due' <= now + T
    BY <1>2, <2>1
  <2>6. HandlerTypeOK'
    <3>1. alarm_counter' \in 0..times'
      BY <1>2, <1>3, <2>1, <2>3, <2>4, <2>5
    <3> QED BY <1>2, <1>3, <2>1, <2>3, <2>4, <2>5, <3>1 DEF HandlerTypeOK
  <2>7. DueInStep'
    BY <1>2, <1>3, <2>1, <2>3, <2>4, <2>5 DEF DueInStep
  <2> QED BY <2>3, <2>6, <2>7 DEF HandlerOK
<1>7. CASE PeriodEndsSoon
  <2>1. /\ ~es_flag_flag /\ es_flag_flag' = TRUE
        /\ UNCHANGED <<long_time, alarm_counter, es_flag, send_flag, released>>
        /\ alarm_counter = times /\ remainder # 0 /\ due' = now + remainder
    BY <1>7 DEF PeriodEndsSoon
  <2>2. times' = times
    BY <2>1 DEF times
  <2>3. due' = long_time + r * T
    <3>1. (times + r) * T = T * times + r * T /\ T * times \in Nat /\ r * T \in Nat
      BY <1>2
    <3> QED BY <1>2, <1>4, <2>1, <3>1
  <2>4. due' > now /\ due' < now + T
    BY <1>2, <2>1
  <2>5. ReleasedLate'
    BY <1>1, <2>1 DEF ReleasedLate
  <2>6. HandlerTypeOK'
    <3>1. alarm_counter' \in 0..times'
      BY <1>2, <1>3, <2>1, <2>2, <2>3, <2>4
    <3> QED BY <1>2, <1>3, <2>1, <2>2, <2>3, <2>4, <3>1 DEF HandlerTypeOK
  <2>7. DueInStep'
    BY <1>2, <1>3, <2>1, <2>2, <2>3, <2>4 DEF DueInStep
  <2> QED BY <2>5, <2>6, <2>7 DEF HandlerOK
<1>8. CASE SendingDue
  <2>1. /\ ~es_flag_flag /\ alarm_counter # times /\ alarm_counter' = alarm_counter + 1
        /\ es_flag' = FALSE /\ send_flag' = TRUE /\ due' = now + T
        /\ UNCHANGED <<long_time, es_flag_flag, released>>
    BY <1>8 DEF SendingDue
  <2>2. times' = times
    BY <2>1 DEF times
  <2>3. due' = (alarm_counter' + r) * T
    <3>1. (alarm_counter + r) * T + T = (alarm_counter + 1 + r) * T
      BY <1>2
    <3> QED BY <1>4, <2>1, <3>1
  <2>4. due' > now /\ due' <= now + T
    BY <1>2, <2>1
  <2>5. ReleasedLate'
    BY <1>1, <2>1 DEF ReleasedLate
  <2>6. HandlerTypeOK'
    <3>1. alarm_counter' \in 0..times'
      BY <1>2, <1>3, <2>1, <2>2, <2>3, <2>4
    <3> QED BY <1>2, <1>3, <2>1, <2>2, <2>3, <2>4, <3>1 DEF HandlerTypeOK
  <2>7. DueInStep'
    BY <1>2, <1>3, <2>1, <2>2, <2>3, <2>4 DEF DueInStep
  <2> QED BY <2>5, <2>6, <2>7 DEF HandlerOK
<1> QED BY <1>5, <1>6, <1>7, <1>8 DEF alarm_handler

\* The handler followed by steps of the main loop that leave its variables alone.
LEMMA AfterHandler ==
  ASSUME IInv, HandlerOK', UNCHANGED <<now, short_time, lt>>,
         pc' \in {"poll", "sending", "check", "take"}, turn' \in 0..now',
         dispatched' \in 0..NSets, pc' = "take" => dispatched' < NSets
  PROVE  IInv'
<1>1. TypeOK
  BY DEF IInv
<1>2. /\ now \in 0..MaxTime /\ now \in Nat /\ short_time \in Nat \ {0}
      /\ <<short_time, lt>> \in Timings
  BY <1>1, Period DEF TypeOK
<1>3. due' \in now'..(MaxTime + short_time')
  <2>1. due' \in Nat
    <3>1. DueInStep' /\ alarm_counter' \in 0..times' /\ released' \in Seq(0..MaxTime)
          /\ es_flag_flag' \in BOOLEAN /\ long_time' = (Len(released') + 1) * lt
      BY DEF HandlerOK, HandlerTypeOK
    <3>2. Len(released') \in Nat /\ alarm_counter' \in Int
      BY <3>1
    <3>3. lt \in Nat
      BY <1>1, Period
    <3>4. long_time' \in Int /\ (alarm_counter' + Len(released')) * short_time' \in Int
          /\ Len(released') * short_time' \in Int
      BY <1>2, <3>1, <3>2, <3>3
    <3>5. due' \in Int
      BY <3>1, <3>4 DEF DueInStep
    <3> QED BY <1>2, <3>5 DEF HandlerOK, HandlerTypeOK
  <2> QED BY <1>2, <2>1, AlarmAssumption DEF HandlerOK, HandlerTypeOK, AlarmAssumption
<1>4. TypeOK'
  BY <1>2, <1>3 DEF TypeOK, HandlerOK, HandlerTypeOK
<1> QED BY <1>4 DEF HandlerOK, IInv, Running, Started

LEMMA Inductive == IInv /\ [Next]_vars => IInv'
<1> SUFFICES ASSUME IInv, [Next]_vars PROVE IInv'
  OBVIOUS
<1>1. TypeOK /\ Running /\ Started /\ DueInStep /\ ReleasedLate
  BY DEF IInv
<1>2. CASE Begin
  <2>1. now = due /\ alarm_handler /\ UNCHANGED <<now, short_time, lt>>
    BY <1>1, <1>2 DEF Begin, Started, timing
  <2>2. 1 \in 0..NSets /\ now \in 0..now
    BY <1>1, Period, AlarmAssumption DEF AlarmAssumption
  <2> QED BY <1>2, <2>1, <2>2, HandlerStep, AfterHandler DEF Begin
<1>3. CASE Alarm
  <2>1. /\ now = due /\ alarm_handler /\ UNCHANGED <<now, short_time, lt>>
        /\ UNCHANGED <<pc, turn, dispatched>> /\ pc # "start"
    BY <1>3 DEF Alarm, timing, mainVars
  <2>2. /\ pc \in {"poll", "sending", "check", "take"} /\ turn \in 0..now
        /\ dispatched \in 0..NSets /\ (pc = "take" => dispatched < NSets)
    BY <1>1, <2>1 DEF TypeOK, Running
  <2> QED BY <2>1, <2>2, HandlerStep, AfterHandler
<1>4. ASSUME UNCHANGED <<timing, handlerVars>>, TypeOK', Running', pc' # "start"
      PROVE  IInv'
  BY <1>1, <1>4 DEF IInv, Started, DueInStep, ReleasedLate, timing, handlerVars, times
<1>5. CASE Poll
  BY <1>1, <1>4, <1>5 DEF Poll, TypeOK, Running, timing, handlerVars, times
<1>6. CASE Sent
  BY <1>1, <1>4, <1>6 DEF Sent, TypeOK, Running, timing, handlerVars, times
<1>7. CASE Check
  <2>1. now \in 0..now /\ dispatched \in 0..NSets /\ NSets \in Nat
    BY <1>1, Period, AlarmAssumption DEF TypeOK, AlarmAssumption
  <2>2. CASE es_flag /\ dispatched < NSets
    BY <1>1, <1>4, <1>7, <2>2 DEF Check, TypeOK, Running, timing, handlerVars, times
  <2>3. CASE ~(es_flag /\ dispatched < NSets)
    BY <1>1, <1>4, <1>7, <2>1, <2>3
       DEF Check, TypeOK, Running, timing, handlerVars, times
  <2> QED BY <2>2, <2>3
<1>8. CASE Take
  <2>1. now \in 0..now /\ dispatched + 1 \in 0..NSets
    BY <1>1, <1>8, Period, AlarmAssumption DEF Take, TypeOK, Running, AlarmAssumption
  <2> QED BY <1>1, <1>4, <1>8, <2>1
          DEF Take, TypeOK, Running, timing, handlerVars, times
<1>9. CASE Tick
  <2>1. /\ now \in Nat /\ due \in Nat /\ now < due /\ now < MaxTime /\ now' = now + 1
        /\ short_time \in Nat /\ MaxTime \in Nat /\ turn \in 0..now
        /\ due <= MaxTime + short_time
    BY <1>1, <1>9, Period, AlarmAssumption DEF Tick, TypeOK, AlarmAssumption
  <2>2. /\ now' \in 0..MaxTime /\ due \in now'..(MaxTime + short_time)
        /\ turn \in 0..now' /\ (due < now + short_time => due < now' + short_time)
    BY <2>1
  <2> QED BY <1>1, <1>4, <1>9, <2>2
          DEF Tick, TypeOK, Running, timing, handlerVars, mainVars, times
<1>10. CASE UNCHANGED vars
  BY <1>1, <1>10 DEF vars, IInv, TypeOK, Running, Started, DueInStep, ReleasedLate,
                     timing, handlerVars, mainVars, times
<1> QED BY <1>2, <1>3, <1>5, <1>6, <1>7, <1>8, <1>9, <1>10 DEF Next

\* Types hold for every update_time and time_between.
THEOREM TypeCorrect == Spec => []TypeOK
<1>1. IInv => TypeOK
  BY DEF IInv
<1> QED BY Initially, Inductive, <1>1, PTL DEF Spec

\* The k-th set comes after k periods and k - 1 update times, whatever the two
\* times are, and not after k periods, as es.c:171 has it.
THEOREM ReleasesComeLate == Spec => []ReleasedLate
<1>1. IInv => ReleasedLate
  BY DEF IInv
<1> QED BY Initially, Inductive, <1>1, PTL DEF Spec

-----------------------------------------------------------------------------
(* The loop keeps pace with the handler: a flag that is up will be looked at *)
(* before the alarm that could take it down, or raise it again, goes off.    *)

ShortTurns == \A k \in 1..NSets : MaxTurn < GapAfter(k)

Fresh == pc = "start" => /\ released = << >> /\ alarm_counter = 0
                         /\ ~es_flag_flag /\ ~es_flag

TurnBounded == pc # "start" => now <= turn + MaxTurn

\* As long as there are sets left to dispatch.
SetPending ==
  ShortTurns /\ pc # "start" /\ dispatched < NSets =>
    /\ IF es_flag THEN dispatched = Len(released) /\ due > turn + MaxTurn
                  ELSE dispatched = Len(released) + 1
    /\ pc = "take" => es_flag

\* The earliest time at which the table is requested again.
NextRequest == IF es_flag_flag THEN due + (short_time - remainder) ELSE due

SendPending ==
  2 * MaxTurn < short_time /\ pc # "start" /\ send_flag =>
    /\ pc = "poll" => turn + MaxTurn < NextRequest
    /\ pc \in {"check", "take"} => turn + 2 * MaxTurn < NextRequest

PaceInv == Fresh /\ TurnBounded /\ SetPending /\ SendPending

LEMMA PaceInitially == Init => PaceInv
BY DEF Init, PaceInv, Fresh, TurnBounded, SetPending, SendPending

\* The alarm goes off only when the flags that it touches have been looked at.
LEMMA AlarmInTime ==
  ASSUME IInv, PaceInv, pc # "start", now = due
  PROVE  /\ ShortTurns /\ dispatched < NSets => ~es_flag /\ dispatched = Len(released) + 1
         /\ 2 * MaxTurn < short_time /\ ~es_flag_flag => ~send_flag \/ pc = "sending"
<1>1. /\ now \in Nat /\ due \in Nat /\ turn \in Nat /\ MaxTurn \in Nat
      /\ pc \in {"start", "poll", "sending", "check", "take"}
  BY Period, AlarmAssumption DEF IInv, TypeOK, AlarmAssumption
<1>2. now <= turn + MaxTurn
  BY DEF PaceInv, TurnBounded
<1>3. ShortTurns /\ dispatched < NSets => ~es_flag /\ dispatched = Len(released) + 1
  BY <1>1, <1>2 DEF PaceInv, SetPending
<1>4. 2 * MaxTurn < short_time /\ ~es_flag_flag => ~send_flag \/ pc = "sending"
  BY <1>1, <1>2 DEF PaceInv, SendPending, NextRequest
<1> QED BY <1>3, <1>4

\* A release by the handler, in a turn that began at t and with d sets
\* dispatched: the next alarm is later than the end of the turn.
LEMMA HandlerKeepsPace ==
  ASSUME IInv, now = due, alarm_handler, UNCHANGED <<now, short_time, lt>>,
         NEW t \in Nat, t <= now, NEW d \in Nat \ {0},
         ~es_flag /\ d = Len(released) + 1
  PROVE  /\ d <= NSets /\ ShortTurns =>
              IF es_flag' THEN d = Len(released') /\ due' > t + MaxTurn
                          ELSE d = Len(released') + 1
<1> DEFINE r == Len(released)
           T == short_time
<1>1. /\ T \in Nat \ {0} /\ lt \in Nat \ {0} /\ remainder \in 0..(T - 1) /\ r \in Nat
      /\ now \in Nat /\ MaxTurn \in Nat /\ long_time = (r + 1) * lt /\ released \in Seq(0..MaxTime)
  BY Period, AlarmAssumption DEF IInv, TypeOK, AlarmAssumption
<1>2. d <= NSets /\ ShortTurns => MaxTurn < T - remainder
  <2>1. d <= NSets /\ ShortTurns => MaxTurn < GapAfter(d)
    BY AlarmAssumption DEF ShortTurns, AlarmAssumption
  <2>2. GapAfter(d) = T - remainder
    BY <1>1 DEF GapAfter, remainder
  <2> QED BY <2>1, <2>2
<1>3. CASE AfterRemainder \/ PeriodEnds
  <2>1. es_flag' = TRUE /\ Len(released') = r + 1 /\ due' = now + (T - remainder)
    <3>1. es_flag' = TRUE /\ released' = Append(released, now)
      BY <1>3 DEF AfterRemainder, PeriodEnds, ReleaseSet
    <3>2. due' = now + (T - remainder)
      BY <1>1, <1>3 DEF AfterRemainder, PeriodEnds
    <3> QED BY <1>1, <3>1, <3>2
  <2> HIDE DEF T
  <2> QED BY <1>1, <1>2, <2>1
<1>4. CASE PeriodEndsSoon \/ SendingDue
  <2>1. ~es_flag' /\ released' = released
    BY <1>4 DEF PeriodEndsSoon, SendingDue
  <2> QED BY <2>1
<1> QED BY <1>3, <1>4 DEF alarm_handler

\* After the handler has run, the table is not requested again before a whole
\* update time has passed since it was last requested.
LEMMA HandlerRequests ==
  ASSUME IInv, now = due, alarm_handler, UNCHANGED <<now, short_time, lt>>
  PROVE  /\ NextRequest' \in Nat
         /\ ~es_flag_flag => NextRequest' = now + short_time
         /\ es_flag_flag => NextRequest' = NextRequest /\ UNCHANGED send_flag
<1>1. /\ short_time \in Nat \ {0} /\ remainder \in 0..(short_time - 1) /\ now \in Nat
      /\ es_flag_flag \in BOOLEAN
  BY Period DEF IInv, TypeOK
<1>2. CASE AfterRemainder
  <2>1. /\ es_flag_flag /\ ~es_flag_flag' /\ due' = now + short_time - remainder
        /\ UNCHANGED send_flag
    BY <1>2 DEF AfterRemainder
  <2>2. NextRequest' = due' /\ NextRequest = due + (short_time - remainder)
    BY <2>1 DEF NextRequest
  <2> QED BY <1>1, <2>1, <2>2
<1>3. CASE PeriodEnds \/ SendingDue
  <2>1. ~es_flag_flag /\ ~es_flag_flag' /\ due' = now + short_time
    BY <1>3 DEF PeriodEnds, SendingDue
  <2>2. NextRequest' = due'
    BY <2>1 DEF NextRequest
  <2> QED BY <1>1, <2>1, <2>2
<1>4. CASE PeriodEndsSoon
  <2>1. ~es_flag_flag /\ es_flag_flag' /\ due' = now + remainder /\ UNCHANGED long_time
    BY <1>4 DEF PeriodEndsSoon
  <2>2. remainder' = remainder
    BY <2>1 DEF remainder
  <2>3. NextRequest' = due' + (short_time' - remainder')
    BY <2>1 DEF NextRequest
  <2> QED BY <1>1, <2>1, <2>2, <2>3
<1> QED BY <1>2, <1>3, <1>4 DEF alarm_handler

LEMMA PaceBegin == IInv /\ PaceInv /\ Begin => PaceInv'
<1> SUFFICES ASSUME IInv, PaceInv, Begin PROVE PaceInv'
  OBVIOUS
<1>1. /\ pc = "start" /\ alarm_handler /\ pc' = "poll" /\ turn' = now /\ dispatched' = 1
      /\ UNCHANGED <<now, short_time, lt>>
  BY DEF Begin, timing
<1>2. /\ released = << >> /\ alarm_counter = 0 /\ ~es_flag_flag /\ ~es_flag /\ now = due
  BY <1>1 DEF PaceInv, Fresh, IInv, Started
<1>3. now \in Nat /\ MaxTurn \in Nat /\ short_time \in Nat \ {0} /\ NSets \in Nat \ {0}
  BY Period, AlarmAssumption DEF IInv, AlarmAssumption
<1>4. Len(released) = 0
  BY <1>2
<1>5. SetPending'
  <2>1. 1 = Len(released) + 1 /\ 1 \in Nat \ {0} /\ 1 <= NSets
    BY <1>3, <1>4
  <2>2. ShortTurns' <=> ShortTurns
    BY <1>1 DEF ShortTurns, GapAfter
  <2>3. ShortTurns =>
          IF es_flag' THEN 1 = Len(released') /\ due' > now + MaxTurn
                      ELSE 1 = Len(released') + 1
    BY <1>1, <1>2, <1>3, <2>1, HandlerKeepsPace
  <2> QED BY <1>1, <2>2, <2>3 DEF SetPending
<1>6. SendPending'
  <2>1. NextRequest' = now + short_time
    BY <1>1, <1>2, HandlerRequests
  <2> QED BY <1>1, <1>3, <2>1 DEF SendPending
<1> QED BY <1>1, <1>3, <1>5, <1>6 DEF PaceInv, Fresh, TurnBounded

LEMMA PaceAlarm == IInv /\ PaceInv /\ Alarm => PaceInv'
<1> SUFFICES ASSUME IInv, PaceInv, Alarm PROVE PaceInv'
  OBVIOUS
<1>1. /\ pc # "start" /\ now = due /\ alarm_handler
      /\ UNCHANGED <<now, short_time, lt, pc, turn, dispatched>>
  BY DEF Alarm, timing, mainVars
<1>2. /\ now \in Nat /\ turn \in Nat /\ turn <= now /\ MaxTurn \in Nat
      /\ short_time \in Nat \ {0} /\ dispatched \in Nat /\ NSets \in Nat
      /\ send_flag \in BOOLEAN
  BY Period, AlarmAssumption DEF IInv, TypeOK, AlarmAssumption
<1>3. SetPending'
  <2> SUFFICES ASSUME ShortTurns, dispatched < NSets
               PROVE  /\ IF es_flag' THEN dispatched = Len(released') /\ due' > turn + MaxTurn
                                     ELSE dispatched = Len(released') + 1
                      /\ pc = "take" => es_flag'
    BY <1>1 DEF SetPending, ShortTurns, GapAfter
  <2>1. ~es_flag /\ dispatched = Len(released) + 1
    BY <1>1, AlarmInTime
  <2>2. pc # "take"
    BY <1>1, <2>1 DEF PaceInv, SetPending
  <2>3. dispatched \in Nat \ {0} /\ dispatched <= NSets
    BY <1>2, <2>1, Period DEF IInv
  <2> QED BY <1>1, <1>2, <2>1, <2>2, <2>3, HandlerKeepsPace
<1>4. SendPending'
  <2> SUFFICES ASSUME 2 * MaxTurn < short_time, send_flag'
               PROVE  /\ pc = "poll" => turn + MaxTurn < NextRequest'
                      /\ pc \in {"check", "take"} => turn + 2 * MaxTurn < NextRequest'
    BY <1>1 DEF SendPending
  <2>1. CASE ~es_flag_flag
    <3>1. NextRequest' = now + short_time
      BY <1>1, <2>1, HandlerRequests
    <3> QED BY <1>2, <3>1
  <2>2. CASE es_flag_flag
    <3>1. NextRequest' = NextRequest /\ send_flag
      BY <1>1, <2>2, HandlerRequests
    <3> QED BY <1>1, <3>1 DEF PaceInv, SendPending
  <2> QED BY <2>1, <2>2
<1> QED BY <1>1, <1>3, <1>4 DEF PaceInv, Fresh, TurnBounded

LEMMA PaceInductive == IInv /\ PaceInv /\ [Next]_vars => PaceInv'
<1> SUFFICES ASSUME IInv, PaceInv, [Next]_vars PROVE PaceInv'
  OBVIOUS
<1>0. Fresh /\ TurnBounded /\ SetPending /\ SendPending
  BY DEF PaceInv
<1>1. /\ now \in Nat /\ turn \in Nat /\ turn <= now /\ MaxTurn \in Nat /\ due \in Nat
      /\ short_time \in Nat \ {0} /\ dispatched \in Nat /\ NSets \in Nat
      /\ remainder \in 0..(short_time - 1) /\ Len(released) \in Nat
      /\ send_flag \in BOOLEAN /\ es_flag \in BOOLEAN /\ es_flag_flag \in BOOLEAN
  BY Period, AlarmAssumption DEF IInv, TypeOK, AlarmAssumption
<1>2. NextRequest \in Nat
  BY <1>1 DEF NextRequest
<1>3. CASE Begin \/ Alarm
  BY <1>3, PaceBegin, PaceAlarm
<1>4. ASSUME pc # "start", UNCHANGED <<timing, handlerVars>>
      PROVE  /\ ShortTurns' = ShortTurns /\ NextRequest' = NextRequest
             /\ UNCHANGED <<short_time, lt, due, long_time, alarm_counter, es_flag_flag, released>>
  BY <1>4 DEF timing, handlerVars, ShortTurns, GapAfter, NextRequest, remainder
<1>5. CASE Poll
  <2>1. /\ pc = "poll" /\ pc' = (IF send_flag THEN "sending" ELSE "check")
        /\ UNCHANGED <<now, timing, handlerVars, es_flag, send_flag, turn, dispatched>>
    BY <1>5 DEF Poll
  <2>2. Fresh' /\ TurnBounded' /\ SendPending'
    BY <1>0, <2>1 DEF Fresh, TurnBounded, SendPending
  <2>3. SetPending'
    BY <1>0, <1>4, <2>1 DEF SetPending
  <2> QED BY <2>2, <2>3 DEF PaceInv
<1>6. CASE Sent
  <2>1. /\ pc = "sending" /\ pc' = "check" /\ send_flag' = FALSE
        /\ UNCHANGED <<now, timing, handlerVars, es_flag, turn, dispatched>>
    BY <1>6 DEF Sent
  <2>2. Fresh' /\ TurnBounded' /\ SendPending'
    BY <1>0, <2>1 DEF Fresh, TurnBounded, SendPending
  <2>3. SetPending'
    BY <1>0, <1>4, <2>1 DEF SetPending
  <2> QED BY <2>2, <2>3 DEF PaceInv
<1>7. CASE Check
  <2>1. /\ pc = "check"
        /\ \/ es_flag /\ dispatched < NSets /\ pc' = "take" /\ turn' = turn
           \/ (~es_flag \/ dispatched = NSets) /\ pc' = "poll" /\ turn' = now
        /\ UNCHANGED <<now, timing, handlerVars, es_flag, send_flag, dispatched>>
    BY <1>7 DEF Check
  <2>2. Fresh' /\ TurnBounded'
    BY <1>0, <1>1, <2>1 DEF Fresh, TurnBounded
  <2>3. SetPending'
    <3>1. /\ ShortTurns' = ShortTurns /\ pc # "start"
          /\ UNCHANGED <<due, released>>
      BY <1>4, <2>1
    <3> SUFFICES ASSUME ShortTurns, dispatched' < NSets
                 PROVE  /\ IF es_flag' THEN dispatched' = Len(released) /\ due > turn' + MaxTurn
                                       ELSE dispatched' = Len(released) + 1
                        /\ pc' = "take" => es_flag'
      BY <3>1 DEF SetPending
    <3>2. dispatched < NSets
      BY <1>1, <2>1
    <3>3. /\ IF es_flag THEN dispatched = Len(released) /\ due > turn + MaxTurn
                       ELSE dispatched = Len(released) + 1
          /\ pc = "take" => es_flag
      BY <1>0, <3>1, <3>2 DEF SetPending
    <3> QED BY <1>1, <2>1, <3>2, <3>3
  <2>4. SendPending'
    BY <1>0, <1>1, <1>2, <1>4, <2>1 DEF SendPending, TurnBounded
  <2> QED BY <2>2, <2>3, <2>4 DEF PaceInv
<1>8. CASE Take
  <2>1. /\ pc = "take" /\ pc' = "poll" /\ turn' = now /\ es_flag' = FALSE
        /\ dispatched' = dispatched + 1
        /\ UNCHANGED <<now, timing, handlerVars, send_flag>>
    BY <1>8 DEF Take
  <2>2. Fresh' /\ TurnBounded'
    BY <1>0, <1>1, <2>1 DEF Fresh, TurnBounded
  <2>3. SetPending'
    <3>1. /\ ShortTurns' = ShortTurns /\ pc # "start"
          /\ UNCHANGED <<due, released>>
      BY <1>4, <2>1
    <3> SUFFICES ASSUME ShortTurns, dispatched' < NSets
                 PROVE  /\ IF es_flag' THEN dispatched' = Len(released) /\ due > turn' + MaxTurn
                                       ELSE dispatched' = Len(released) + 1
                        /\ pc' = "take" => es_flag'
      BY <3>1 DEF SetPending
    <3>2. dispatched < NSets
      BY <1>1, <2>1
    <3>3. /\ IF es_flag THEN dispatched = Len(released) /\ due > turn + MaxTurn
                       ELSE dispatched = Len(released) + 1
          /\ pc = "take" => es_flag
      BY <1>0, <3>1, <3>2 DEF SetPending
    <3> QED BY <1>1, <2>1, <3>2, <3>3
  <2>4. SendPending'
    BY <1>0, <1>1, <1>2, <1>4, <2>1 DEF SendPending, TurnBounded
  <2> QED BY <2>2, <2>3, <2>4 DEF PaceInv
<1>9. CASE Tick
  <2>1. /\ pc # "start" /\ now < turn + MaxTurn /\ now' = now + 1
        /\ UNCHANGED <<timing, handlerVars, es_flag, send_flag, pc, turn, dispatched>>
    BY <1>9 DEF Tick, mainVars
  <2>2. Fresh' /\ TurnBounded'
    BY <1>0, <1>1, <2>1 DEF Fresh, TurnBounded
  <2>3. SetPending' /\ SendPending'
    BY <1>0, <1>4, <2>1 DEF SetPending, SendPending
  <2> QED BY <2>2, <2>3 DEF PaceInv
<1>10. CASE UNCHANGED vars
  BY <1>0, <1>10
  DEF vars, timing, handlerVars, mainVars, PaceInv, Fresh, TurnBounded, SetPending,
      SendPending, ShortTurns, GapAfter, NextRequest, remainder
<1> QED BY <1>3, <1>5, <1>6, <1>7, <1>8, <1>9, <1>10 DEF Next

\* When a turn of the loop is always shorter than the time from a release to
\* the next alarm, no release is lost, whatever the two times are: es_flag has
\* been looked at and cleared (es.c:383, 552) before the handler, which clears
\* it as well, runs again (es.c:140-170).
THEOREM SetsAreNotLost == Spec => []NoSetLost
<1>1. IInv /\ PaceInv => NoSetLost
  <2> SUFFICES ASSUME IInv, PaceInv, ShortTurns, pc # "start", dispatched < NSets
               PROVE  dispatched + (IF es_flag THEN 1 ELSE 0) = Len(released) + 1
    BY DEF NoSetLost, ShortTurns
  <2>1. dispatched \in Nat /\ Len(released) \in Nat
    BY Period DEF IInv, TypeOK
  <2>2. IF es_flag THEN dispatched = Len(released) ELSE dispatched = Len(released) + 1
    BY DEF PaceInv, SetPending
  <2> QED BY <2>1, <2>2
<1> QED BY Initially, Inductive, PaceInitially, PaceInductive, <1>1, PTL DEF Spec

\* When two turns are shorter than the update time, the loop has taken up every
\* request to send the table before the handler makes the next one.
THEOREM SendingKeepsUp == Spec => SendingKeepsPace
<1> DEFINE InTime ==
      2 * MaxTurn < short_time /\ pc # "start" /\ (SendingDue \/ PeriodEnds)
        => ~send_flag \/ pc = "sending"
<1>1. IInv /\ PaceInv /\ [Next]_vars => [InTime]_vars
  <2> SUFFICES ASSUME IInv, PaceInv, Next, 2 * MaxTurn < short_time, pc # "start",
                      SendingDue \/ PeriodEnds
               PROVE  ~send_flag \/ pc = "sending"
    OBVIOUS
  <2>1. ~es_flag_flag
    BY DEF SendingDue, PeriodEnds
  <2>2. now = due
    <3>1. handlerVars' # handlerVars
      BY Period DEF IInv, SendingDue, PeriodEnds, ReleaseSet, handlerVars
    <3>2. CASE Begin
      BY <3>2 DEF Begin
    <3>3. CASE Alarm
      BY <3>3 DEF Alarm
    <3>4. CASE Poll \/ Sent \/ Check \/ Take \/ Tick
      BY <3>1, <3>4 DEF Poll, Sent, Check, Take, Tick
    <3> QED BY <3>2, <3>3, <3>4 DEF Next
  <2> QED BY <2>1, <2>2, AlarmInTime
<1>2. SendingKeepsPace <=> [][InTime]_vars
  BY DEF SendingKeepsPace
<1> HIDE DEF InTime
<1> QED BY <1>1, <1>2, Initially, Inductive, PaceInitially, PaceInductive, PTL DEF Spec
=============================================================================
