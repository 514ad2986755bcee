------------------------------ MODULE Program ------------------------------
(***************************************************************************)
(* main() of main.c: the SIGINT handler is installed, process_args() reads *)
(* the command line, get_comm() opens the connection, and fsm() runs the   *)
(* client of Terminal.  The handler may run from the beginning; what the   *)
(* user types before fsm() reads it lies in the terminal, so the keyboard  *)
(* of the model starts with fsm().                                         *)
(***************************************************************************)
EXTENDS Terminal, Args

VARIABLES
    stage,  \* where main() is: "process_args", "get_comm", "fsm" or "exit"
    status  \* what it returned, 0 before that

pvars == <<ivars, avars, stage, status>>

PTypeOK ==
    /\ ITypeOK
    /\ ATypeOK
    /\ stage \in {"process_args", "get_comm", "fsm", "exit"}
    /\ status \in {0, 1}

PInit ==
    /\ IInit
    /\ AInit
    /\ stage = "process_args" /\ status = 0

----------------------------------------------------------------------------

ProcessArgs ==
    /\ stage = "process_args"
    /\ ANext
    /\ CASE outcome' = "parsing"  -> UNCHANGED <<stage, status>>
         [] outcome' = "accepted" -> UNCHANGED <<stage, status>>
         [] outcome' = "past"     -> stage' = "get_comm" /\ UNCHANGED status
         [] outcome' = "help"     -> stage' = "exit" /\ status' = 0
         [] OTHER                 -> stage' = "exit" /\ status' = 1
    /\ UNCHANGED ivars

\* The setup of tcp or udp finds the server and opens a socket.
GetComm ==
    /\ stage = "get_comm"
    /\ stage' = "fsm"
    /\ UNCHANGED <<ivars, avars, status>>

GetCommFails ==
    /\ stage = "get_comm"
    /\ stage' = "exit" /\ status' = 1
    /\ UNCHANGED <<ivars, avars>>

\* interrupt_handle() before fsm().
EarlySignal ==
    /\ stage \in {"process_args", "get_comm"}
    /\ SignalElsewhere
    /\ UNCHANGED <<client, input, heard, avars, stage, status>>

\* fsm().  Only tcp_check_previous() leaves a partial message.
Thread ==
    /\ stage = "fsm"
    /\ IThread
    /\ incomplete' => parameters.tcp
    /\ UNCHANGED <<avars, stage, status>>

ResponseTimeout ==
    /\ stage = "fsm"
    /\ Timer
    /\ UNCHANGED <<avars, stage, status>>

World ==
    /\ stage = "fsm"
    /\ IWorld
    /\ UNCHANGED <<avars, stage, status>>

\* Faulty variant: what fsm() returned is dropped.
ReturnSuccess ==
    /\ stage = "fsm" /\ pc = "exit"
    /\ stage' = "exit" /\ status' = 0
    /\ UNCHANGED <<ivars, avars>>

\* main() returns what fsm() returns.
Return ==
    /\ stage = "fsm" /\ pc = "exit"
    /\ stage' = "exit" /\ status' = res
    /\ UNCHANGED <<ivars, avars>>

Over == stage = "exit" /\ UNCHANGED pvars

----------------------------------------------------------------------------

Main == ProcessArgs \/ GetComm \/ GetCommFails \/ Thread \/ Return

PNext == Main \/ ResponseTimeout \/ EarlySignal \/ World \/ Over

PSpec == PInit /\ [][PNext]_pvars

\* As in Terminal: the thread is scheduled, and the response deadline stands.
PFairSpec == PSpec /\ WF_pvars(Main) /\ SF_pvars(ResponseTimeout)

----------------------------------------------------------------------------
(* Properties.                                                             *)

\* The message being sent against the parsers of the transport that -t chose,
\* those of a client of this kind at the other end.  Those of TCP take it whatever
\* was typed, whichever commands were refused in between, and whatever text an ERR
\* left behind.  Those of UDP take it exactly while the display name is made of
\* letters, digits, - and _; /auth and /rename let any printable one pass.
SentParses ==
    pc = "send" =>
        IF parameters.tcp THEN AcceptedOverTcp(sending)
        ELSE AcceptedOverUdp(sending) <=> client.display_name.class = "alnum"

\* The exit status tells the caller what happened, from the command line on: 0
\* exactly after help or a BYE.
StatusTellsAll ==
    stage = "exit" => (status = 0 <=> outcome = "help" \/ ending = "bye")

\* The end of the input raises the interrupt flag (input.c:123) only when every
\* line has been parsed, those included that stdio had read ahead.
EndComesLast == [][EndOfFile => parsed = typed]_pvars

\* A client fed from a file or a pipe comes to an end after it, or it waits for
\* ever for the rest of a TCP message that the server has begun (prompt.c:80): a
\* message that is incomplete for a while does not excuse it.
EndOfInput == closed ~> (stage = "exit" \/ [](incomplete /\ pc \in {"poll", "select"}))
=============================================================================
