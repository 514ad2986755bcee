------------------------ MODULE ResponseTimer_proofs ------------------------
(***************************************************************************)
(* The response deadline, proved for every clock: whatever microsecond a   *)
(* wait begins in and however the clock advances.                          *)
(***************************************************************************)
EXTENDS ResponseTimer, ChatClient_proofs, TLAPS

\* The client with its timer takes only steps of ChatClient.
LEMMA TimedStepIsStep == [RNext]_rvars => [Next]_vars
<1> SUFFICES ASSUME [RNext]_rvars PROVE [Next]_vars
  OBVIOUS
<1>1. CASE Proceed
  BY <1>1 DEF Proceed, Next, ClientStep
<1>2. CASE FindPrevious \/ SetDeadline \/ CallSelect
  BY <1>2 DEF FindPrevious, SetDeadline, CallSelect, Next, ClientStep
<1>3. CASE TimerGoesOff \/ SelectRefuses
  BY <1>3 DEF TimerGoesOff, SelectRefuses, Next, Environment
<1>4. CASE ServerMessage \/ OtherWakeUp \/ KeyboardLine \/ SendInterrupted
  BY <1>4 DEF ServerMessage, OtherWakeUp, KeyboardLine, SendInterrupted, Next, Environment
<1>5. CASE \E d \in Steps : PassTime(d)
  BY <1>5 DEF PassTime
<1>6. CASE UNCHANGED rvars
  BY <1>6 DEF rvars
<1> QED
  BY <1>1, <1>2, <1>3, <1>4, <1>5, <1>6 DEF RNext, RThread

THEOREM TimedKeepsIInv == RSpec => []IInv
<1>1. RInit => Init
  BY DEF RInit
<1>2. RSpec => Spec
  BY <1>1, TimedStepIsStep, PTL DEF RSpec, Spec
<1> QED
  BY <1>2, Inductive, PTL

----------------------------------------------------------------------------
(* The arithmetic of the clock.                                            *)

\* A time of day as gettimeofday() gives it.
TimesOfDay == {t \in Timevals : InRange(t)}

\* What calculate_remaining_time() stores is what is left of five seconds, in a
\* form select() takes or, when nothing is left, refuses.
LEMMA RemainingIsRest ==
    ASSUME NEW now \in TimesOfDay, NEW start \in TimesOfDay
    PROVE  /\ Remaining(now, start) \in TimesOfDay
           /\ Micros(Remaining(now, start)) = Micros(start) + 5000000 - Micros(now)
<1> DEFINE e == Elapsed(now, start)
<1>1. /\ e = [sec |-> e.sec, usec |-> e.usec] /\ e.sec \in Int /\ e.usec \in Int
      /\ 0 <= e.usec /\ e.usec < 1000000
      /\ e.sec * 1000000 + e.usec = Micros(now) - Micros(start)
  BY DEF TimesOfDay, InRange, Timevals, Elapsed, Micros
<1> HIDE DEF e
<1>2. Remaining(now, start) =
        IF 1000000 - e.usec = 1000000
        THEN [sec |-> 4 - e.sec + 1, usec |-> 0]
        ELSE [sec |-> 4 - e.sec, usec |-> 1000000 - e.usec]
  BY DEF Remaining, e
<1>3. ASSUME NEW m \in Int, NEW u \in Int, 0 <= u, u < 1000000,
             Remaining(now, start) = [sec |-> m, usec |-> u],
             m * 1000000 + u = 5000000 - (e.sec * 1000000 + e.usec)
      PROVE  /\ Remaining(now, start) \in TimesOfDay
             /\ Micros(Remaining(now, start)) = Micros(start) + 5000000 - Micros(now)
  <2>1. Remaining(now, start) \in TimesOfDay
    BY <1>3 DEF TimesOfDay, InRange, Timevals
  <2>2. Micros(Remaining(now, start)) = m * 1000000 + u
    BY <1>3 DEF Micros
  <2>3. Micros(start) \in Int /\ Micros(now) \in Int
    BY DEF TimesOfDay, Timevals, Micros
  <2>4. Micros(Remaining(now, start)) = 5000000 - (Micros(now) - Micros(start))
    BY <1>1, <1>3, <2>2
  <2> QED
    BY <2>1, <2>3, <2>4
<1>4. CASE e.usec = 0
  <2>1. Remaining(now, start) = [sec |-> 5 - e.sec, usec |-> 0]
    BY <1>1, <1>2, <1>4
  <2>2. (5 - e.sec) * 1000000 + 0 = 5000000 - (e.sec * 1000000 + e.usec)
    BY <1>1, <1>4
  <2> QED
    BY <1>1, <1>3, <2>1, <2>2
<1>5. CASE e.usec # 0
  <2>1. Remaining(now, start) = [sec |-> 4 - e.sec, usec |-> 1000000 - e.usec]
    BY <1>1, <1>2, <1>5
  <2>2. /\ (4 - e.sec) * 1000000 + (1000000 - e.usec)
             = 5000000 - (e.sec * 1000000 + e.usec)
        /\ 0 <= 1000000 - e.usec /\ 1000000 - e.usec < 1000000
    BY <1>1, <1>5
  <2> QED
    BY <1>1, <1>3, <2>1, <2>2
<1> QED
  BY <1>4, <1>5

LEMMA LaterIsLater ==
    ASSUME NEW t \in TimesOfDay, NEW d \in Nat, d <= 1000000
    PROVE  Later(t, d) \in TimesOfDay /\ Micros(Later(t, d)) = Micros(t) + d
  BY DEF TimesOfDay, InRange, Timevals, Later, Micros

\* The sign of a time is that of its seconds.
LEMMA NegativeBySeconds ==
    ASSUME NEW t \in TimesOfDay
    PROVE  t.sec < 0 <=> Micros(t) < 0
  BY DEF TimesOfDay, InRange, Timevals, Micros

----------------------------------------------------------------------------

TimerInv == RTypeOK /\ DeadlineStands /\ RefusedWhenLate

\* A step that neither comes to select() nor touches the timer.
LEMMA TimerKept ==
    ASSUME TimerInv, TypeOK', UNCHANGED timer, unrelated' \in 0 .. MaxUnrelated,
           pc' = "select" => pc = "select" /\ processing' = processing
    PROVE  TimerInv'
  BY DEF TimerInv, RTypeOK, DeadlineStands, RefusedWhenLate, Refused, timer

LEMMA CountedInRange ==
    ASSUME RTypeOK, NEW t, Counted(t)
    PROVE  unrelated' \in 0 .. MaxUnrelated
  BY ClockAssumption DEF RTypeOK, Counted

LEMMA TimerStep == TimerInv /\ TypeOK' /\ [RNext]_rvars => TimerInv'
<1> SUFFICES ASSUME TimerInv, TypeOK', [RNext]_rvars PROVE TimerInv'
  OBVIOUS
<1>0. /\ unrelated \in 0 .. MaxUnrelated /\ 0 \in 0 .. MaxUnrelated
      /\ clock \in TimesOfDay /\ start_time \in TimesOfDay
      /\ Micros(clock) \in Int /\ Micros(start_time) \in Int /\ wake \in Int
  BY ClockAssumption DEF TimerInv, RTypeOK, TimesOfDay, InRange, Timevals, Micros
<1>1. CASE Proceed
  <2>1. pc' # "select"
    BY <1>1 DEF Proceed, LoopCall, LoopInterrupted, LoopExit, ReactSend, ReactQuietly, SendOk,
       SendFailed
  <2> QED
    BY <1>0, <1>1, <2>1, TimerKept DEF Proceed
<1>2. CASE FindPrevious
  <2>1. pc' # "select" /\ unrelated' \in 0 .. MaxUnrelated
    BY <1>2, CountedInRange DEF FindPrevious, AwaitFound, TimerInv
  <2> QED
    BY <1>2, <2>1, TimerKept DEF FindPrevious
<1>3. CASE SetDeadline
  <2>1. pc' = "poll" /\ unrelated' = unrelated
    BY <1>3 DEF SetDeadline, AwaitNothing
  <2>2. clock' \in TimesOfDay /\ clock' = start_time'
    BY <1>3, ClockAssumption DEF SetDeadline, TimesOfDay, InRange, Timevals
  <2>3. remaining_time' \in Timevals /\ wake' \in Int
    BY <1>3 DEF SetDeadline, Zero, Timevals
  <2> QED
    BY <1>0, <2>1, <2>2, <2>3
       DEF TimerInv, RTypeOK, InRange, DeadlineStands, RefusedWhenLate, TimesOfDay
<1>4. CASE CallSelect
  <2>1. /\ pc' = "select" /\ unrelated' = unrelated /\ processing' = processing
        /\ clock' = clock /\ start_time' = start_time
    BY <1>4 DEF CallSelect, EnterSelect
  <2>2. CASE ~processing
    BY <1>0, <1>4, <2>1, <2>2
       DEF CallSelect, TimerInv, RTypeOK, DeadlineStands, RefusedWhenLate
  <2>3. CASE processing
    <3>1. /\ remaining_time' = Remaining(clock, start_time)
          /\ wake' = Micros(clock) + Micros(remaining_time')
      BY <1>4, <2>3 DEF CallSelect
    <3>2. /\ remaining_time' \in TimesOfDay
          /\ Micros(remaining_time') = Micros(start_time) + 5000000 - Micros(clock)
      BY <1>0, <3>1, RemainingIsRest
    <3>3. wake' = Micros(start_time) + 5000000
      BY <1>0, <3>1, <3>2
    <3>4. remaining_time'.sec < 0 <=> Micros(clock) > Micros(start_time) + 5000000
      BY <1>0, <3>2, NegativeBySeconds
    <3>5. RTypeOK'
      BY <1>0, <2>1, <3>2, <3>3 DEF TimerInv, RTypeOK, TimesOfDay, InRange
    <3>6. DeadlineStands'
      BY <2>1, <3>3 DEF DeadlineStands
    <3>7. RefusedWhenLate'
      BY <2>1, <2>3, <3>2, <3>4 DEF RefusedWhenLate, Refused, TimesOfDay, InRange
    <3> QED
      BY <3>5, <3>6, <3>7 DEF TimerInv
  <2> QED
    BY <2>2, <2>3
<1>5. CASE ServerMessage
  <2>1. pc' # "select" /\ unrelated' \in 0 .. MaxUnrelated
    BY <1>5, CountedInRange DEF ServerMessage, SelectServer, TimerInv
  <2> QED
    BY <1>5, <2>1, TimerKept DEF ServerMessage
<1>6. CASE \/ TimerGoesOff \/ SelectRefuses \/ OtherWakeUp \/ KeyboardLine \/ SendInterrupted
  <2>1. pc' = "select" => pc = "select" /\ processing' = processing
    BY <1>6 DEF TimerGoesOff, SelectRefuses, OtherWakeUp, KeyboardLine, SendInterrupted,
       SelectTimeout, SelectFails, SelectKeyboard, SignalInSelect, SignalElsewhere, UserLine,
       SendFailed
  <2>2. UNCHANGED timer /\ unrelated' = unrelated
    BY <1>6 DEF TimerGoesOff, SelectRefuses, OtherWakeUp, KeyboardLine, SendInterrupted
  <2> QED
    BY <1>0, <2>1, <2>2, TimerKept
<1>7. ASSUME NEW d \in Steps, PassTime(d) PROVE TimerInv'
  <2>1. clock' \in TimesOfDay /\ Micros(clock') = Micros(clock) + d /\ d \in Nat
    BY <1>0, <1>7, LaterIsLater, ClockAssumption DEF PassTime
  <2>2. /\ UNCHANGED <<start_time, remaining_time, wake, unrelated, pc, processing>>
        /\ pc = "select" => ~Refused /\ Micros(clock) + d <= wake
    BY <1>7 DEF PassTime, Blocked, vars
  <2>3. RTypeOK'
    BY <2>1, <2>2 DEF TimerInv, RTypeOK, TimesOfDay, InRange
  <2>4. DeadlineStands'
    BY <2>2 DEF TimerInv, DeadlineStands
  <2>5. RefusedWhenLate'
    BY <1>0, <2>1, <2>2 DEF TimerInv, DeadlineStands, RefusedWhenLate, Refused
  <2> QED
    BY <2>3, <2>4, <2>5 DEF TimerInv
<1>8. CASE UNCHANGED rvars
  BY <1>0, <1>8, TimerKept DEF rvars, vars
<1> QED
  BY <1>1, <1>2, <1>3, <1>4, <1>5, <1>6, <1>7, <1>8 DEF RNext, RThread

LEMMA TimerInvHolds == RSpec => []TimerInv
<1>1. RInit => TimerInv
  <2> SUFFICES ASSUME RInit PROVE TimerInv
    OBVIOUS
  <2>1. TypeOK /\ pc = "loop"
    BY InitIInv DEF RInit, Init, IInv
  <2>2. Zero \in Timevals /\ Zero.usec = 0 /\ 0 \in 0 .. MaxUnrelated
    BY ClockAssumption DEF Zero, Timevals
  <2> QED
    BY <2>1, <2>2 DEF RInit, TimerInv, RTypeOK, InRange, DeadlineStands, RefusedWhenLate
<1>2. IInv => TypeOK
  BY DEF IInv
<1> QED
  BY <1>1, <1>2, TimerStep, TimedKeepsIInv, PTL DEF RSpec

\* Type correctness of the clock and of what await() computes from it.
THEOREM TimerTypeCorrect == RSpec => []RTypeOK
  BY TimerInvHolds, PTL DEF TimerInv

\* However often select() is called again, the deadline stays where it was set.
THEOREM DeadlineKept == RSpec => []DeadlineStands
  BY TimerInvHolds, PTL DEF TimerInv

\* select() gets a valid time until the deadline, and refuses it afterwards.
THEOREM LateIsRefused == RSpec => []RefusedWhenLate
  BY TimerInvHolds, PTL DEF TimerInv
=============================================================================
