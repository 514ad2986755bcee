--------------------------- MODULE ResponseTimer ---------------------------
(***************************************************************************)
(* ChatClient with the clock: the deadline that await() sets when a reply  *)
(* is due (prompt.c:20-39 and 65-101), in the seconds and microseconds of  *)
(* gettimeofday(), and what select() makes of the time it is given.        *)
(*                                                                         *)
(* The clock is only read while a deadline is set; seconds are counted     *)
(* from the one in which that was.                                         *)
(***************************************************************************)
EXTENDS ChatClient, Integers

CONSTANTS
    Phases,       \* microseconds of the clock when a deadline is set
    Steps,        \* by how many microseconds the clock is seen to advance
    MaxElapsed,   \* bound: microseconds from the start to the last reading
    MaxUnrelated  \* bound: messages besides PING that arrive while a reply is due

ASSUME ClockAssumption ==
    /\ Phases # {} /\ Phases \subseteq Nat /\ \A u \in Phases : u < 1000000
    /\ Steps \subseteq Nat \ {0} /\ \A d \in Steps : d <= 1000000
    /\ MaxElapsed \in Nat
    /\ MaxUnrelated \in Nat

VARIABLES
    clock,           \* the time of day
    start_time,      \* await(): when the deadline was set
    remaining_time,  \* await(): the time given to select()
    wake,            \* when select() gives up, in microseconds
    unrelated        \* how many other messages the request in flight has seen

timer == <<clock, start_time, remaining_time, wake>>
rvars == <<vars, timer, unrelated>>

Timevals == [sec : Int, usec : Int]
Zero     == [sec |-> 0, usec |-> 0]

\* Microseconds are in the range gettimeofday() leaves and select() takes them in.
InRange(t) == t.usec >= 0 /\ t.usec < 1000000

\* A time as a number of microseconds.
Micros(t) == t.sec * 1000000 + t.usec

RTypeOK ==
    /\ TypeOK
    /\ clock \in Timevals /\ InRange(clock)
    /\ start_time \in Timevals /\ InRange(start_time)
    /\ remaining_time \in Timevals
    /\ wake \in Int
    /\ unrelated \in 0 .. MaxUnrelated

RInit ==
    /\ Init
    /\ clock = Zero /\ start_time = Zero /\ remaining_time = Zero
    /\ wake = 0
    /\ unrelated = 0

----------------------------------------------------------------------------
(* calculate_remaining_time().                                             *)

Elapsed(now, start) ==
    LET sec  == now.sec - start.sec
        usec == now.usec - start.usec
    IN  IF usec < 0
        THEN [sec |-> sec - 1, usec |-> usec + 1000000]
        ELSE [sec |-> sec, usec |-> usec]

\* Faulty variant: a full second of microseconds stays where it is.
RemainingUncarried(now, start) ==
    LET e == Elapsed(now, start)
    IN  [sec |-> 4 - e.sec, usec |-> 1000000 - e.usec]

Remaining(now, start) ==
    LET e    == Elapsed(now, start)
        sec  == 4 - e.sec
        usec == 1000000 - e.usec
    IN  IF usec = 1000000
        THEN [sec |-> sec + 1, usec |-> 0]
        ELSE [sec |-> sec, usec |-> usec]

----------------------------------------------------------------------------
(* await().                                                                *)

\* Another message while a reply is due.
Counted(t) ==
    /\ unrelated' = IF processing /\ t \in {"MSG", "LOCAL"} THEN unrelated + 1 ELSE unrelated
    /\ unrelated' <= MaxUnrelated

FindPrevious ==
    /\ \E t \in RecvTypes : AwaitFound(t) /\ Counted(t)
    /\ UNCHANGED timer

SetDeadline ==
    /\ \E t \in {"CONFIRM", "PING"}, partial \in BOOLEAN : AwaitNothing(t, partial)
    /\ \E u \in (IF processing THEN Phases ELSE {0}) : start_time' = [sec |-> 0, usec |-> u]
    /\ clock' = start_time'
    /\ remaining_time' = Zero /\ wake' = 0
    /\ UNCHANGED unrelated

\* Faulty variant: the time left is not computed anew.
CallSelectAgain ==
    /\ EnterSelect
    /\ remaining_time' = IF processing THEN [sec |-> 5, usec |-> 0] ELSE remaining_time
    /\ wake' = IF processing THEN Micros(clock) + Micros(remaining_time') ELSE wake
    /\ UNCHANGED <<clock, start_time, unrelated>>

CallSelect ==
    /\ EnterSelect
    /\ remaining_time' = IF processing THEN Remaining(clock, start_time) ELSE remaining_time
    /\ wake' = IF processing THEN Micros(clock) + Micros(remaining_time') ELSE wake
    /\ UNCHANGED <<clock, start_time, unrelated>>

\* A negative time is refused with EINVAL.
Refused == processing /\ remaining_time.sec < 0
Blocked == pc = "select" /\ ~Refused

ServerMessage ==
    /\ Blocked
    /\ \E t \in RecvTypes : SelectServer(t) /\ Counted(t)
    /\ UNCHANGED timer

TimerGoesOff ==
    /\ Blocked
    /\ Micros(clock) >= wake
    /\ SelectTimeout
    /\ UNCHANGED <<timer, unrelated>>

SelectRefuses ==
    /\ Refused
    /\ SelectFails
    /\ UNCHANGED <<timer, unrelated>>

\* The other ways out of select(), and SIGINT.
OtherWakeUp ==
    /\ \/ Blocked /\ (SelectKeyboard \/ SelectFails \/ SignalInSelect)
       \/ SignalElsewhere
    /\ UNCHANGED <<timer, unrelated>>

KeyboardLine ==
    /\ \E t \in UserTypes, eof \in BOOLEAN : UserLine(t, eof)
    /\ UNCHANGED <<timer, unrelated>>

----------------------------------------------------------------------------

\* The loop of fsm() and the state functions.
Proceed ==
    /\ \/ LoopCall \/ LoopInterrupted \/ LoopExit
       \/ ReactSend \/ ReactQuietly
       \/ SendOk \/ SendFailed(FALSE)
    /\ unrelated' = IF processing' THEN unrelated ELSE 0
    /\ UNCHANGED timer

SendInterrupted ==
    /\ SendFailed(TRUE)
    /\ UNCHANGED <<timer, unrelated>>

Later(t, d) ==
    IF t.usec + d >= 1000000
    THEN [sec |-> t.sec + 1, usec |-> t.usec + d - 1000000]
    ELSE [sec |-> t.sec, usec |-> t.usec + d]

\* Time passes while the thread is blocked in select(), which returns when the
\* time is up, and while it is on its way there.
PassTime(d) ==
    /\ processing
    /\ \/ pc = "poll"
       \/ Blocked /\ Micros(clock) + d <= wake
    /\ clock' = Later(clock, d)
    /\ Micros(clock') - Micros(start_time) <= MaxElapsed
    /\ UNCHANGED <<vars, start_time, remaining_time, wake, unrelated>>

RThread ==
    Proceed \/ FindPrevious \/ SetDeadline \/ CallSelect \/ TimerGoesOff \/ SelectRefuses

RNext ==
    \/ RThread
    \/ ServerMessage \/ OtherWakeUp \/ KeyboardLine \/ SendInterrupted
    \/ \E d \in Steps : PassTime(d)
    \/ pc = "exit" /\ UNCHANGED rvars

RSpec == RInit /\ [][RNext]_rvars

\* The thread is scheduled and time does not stand still, however often a PING
\* or a SIGINT makes await() call select() again.
RFairSpec == RSpec /\ WF_rvars(RThread) /\ SF_rvars(\E d \in Steps : PassTime(d))

----------------------------------------------------------------------------
(* Properties.                                                             *)

\* Within one call of await() the deadline stands: however often a PING or a
\* SIGINT makes it compute the time left and call select() again, and wherever
\* in a second it began, it gives up five seconds after it began.
DeadlineStands ==
    pc = "select" /\ processing => wake = Micros(start_time) + 5000000

\* select() is given a time it can take, microseconds in range, as long as the
\* deadline has not passed, and refuses the time it is given once it has.
RefusedWhenLate ==
    pc = "select" /\ processing =>
        /\ InRange(remaining_time)
        /\ Refused <=> Micros(clock) > Micros(start_time) + 5000000

\* A request is answered, refused, timed out, or the client is gone, even if
\* PINGs and SIGINTs never end.
RequestResolved == processing ~> (~processing \/ pc = "exit")
=============================================================================
