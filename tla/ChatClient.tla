----------------------------- MODULE ChatClient -----------------------------
(***************************************************************************)
(* The protocol-independent client: main.c, the loop of fsm() in fsm.c and *)
(* await() in prompt.c, over the interface comm_t.  What the interface     *)
(* answers is left open here (any message type from recv_msg and           *)
(* check_previous_msg, success or failure from send_msg); UdpClient gives  *)
(* the answers of comm_udp.c, TcpClient those of comm_tcp.c.               *)
(*                                                                         *)
(* The client is one thread.  The only thing that runs between two of its  *)
(* instructions is the SIGINT handler, so a step of the model ends where   *)
(* the thread blocks or where it reads what the handler writes:            *)
(*   loop    the head of the while loop of fsm()                           *)
(*   await   await() entered, nothing looked at yet                        *)
(*   poll    select() about to be called                                   *)
(*   select  blocked in select()                                           *)
(*   input   inside parse_user_input(), until getline() has a whole line   *)
(*   react   await() has returned `prompt` to the state function           *)
(*   send    inside comm->send_msg(sending)                                *)
(*   exit    clean_up_comm() done, main() returned res                     *)
(***************************************************************************)
EXTENDS Fsm, Naturals

VARIABLES
    state,       \* fsm.c: the state function to call next
    processing,  \* comm->processing: a request waits for its reply
    interrupt,   \* main.c: the flag that SIGINT and end of input raise
    pc,          \* where the thread is, see above
    prompt,      \* the prompt_t await() builds
    incomplete,  \* await(): incomplete_tcp_message
    sending,     \* the message inside send_msg, or NoMsg
    res,         \* what the last state function returned
    admitted,    \* history: a REPLY was taken in state_auth
    ending,      \* history: how the conversation ended, "none", "bye" or "err"
    unanswered   \* history: a request was begun, and no reply taken since

vars == <<state, processing, interrupt, pc, prompt, incomplete, sending, res,
          admitted, ending, unanswered>>
history == <<admitted, ending, unanswered>>

Points == {"loop", "await", "poll", "select", "input", "react", "send", "exit"}

TypeOK ==
    /\ state \in States
    /\ processing \in BOOLEAN
    /\ interrupt \in BOOLEAN
    /\ pc \in Points
    /\ prompt \in Prompts
    /\ incomplete \in BOOLEAN
    /\ sending \in SentTypes \cup {NoMsg}
    /\ res \in {0, 1}
    /\ admitted \in BOOLEAN
    /\ ending \in {"none", "bye", "err"}
    /\ unanswered \in BOOLEAN

Init ==
    /\ state = "state_start"
    /\ processing = FALSE
    /\ interrupt = FALSE
    /\ pc = "loop"
    /\ prompt = Blank
    /\ incomplete = FALSE
    /\ sending = NoMsg
    /\ res = 0
    /\ admitted = FALSE
    /\ ending = "none"
    /\ unanswered = FALSE

----------------------------------------------------------------------------
(* fsm(): the loop around the state functions.                             *)

Running == state # "NULL" /\ res = 0

MayLeave == interrupt /\ ~processing

LoopCall ==
    /\ pc = "loop"
    /\ Running
    /\ ~MayLeave
    /\ pc' = "await"
    /\ UNCHANGED <<state, processing, interrupt, prompt, incomplete, sending, res, history>>

\* state_interupt() is called in the same iteration and goes straight to SEND(BYE).
LoopInterrupted ==
    /\ pc = "loop"
    /\ Running
    /\ MayLeave
    /\ state' = "state_interupt"
    /\ sending' = "BYE"
    /\ pc' = "send"
    /\ UNCHANGED <<processing, interrupt, prompt, incomplete, res, history>>

LoopExit ==
    /\ pc = "loop"
    /\ ~Running
    /\ pc' = "exit"
    /\ UNCHANGED <<state, processing, interrupt, prompt, incomplete, sending, res, history>>

----------------------------------------------------------------------------
(* await().                                                                *)

\* check_previous_msg found a message, of type t.
AwaitFound(t) ==
    /\ pc = "await"
    /\ t # "PING"
    /\ prompt' = [input_type |-> "SERVER", type |-> t]
    /\ pc' = "react"
    /\ UNCHANGED <<state, processing, interrupt, incomplete, sending, res, history>>

\* It found nothing (t is CONFIRM, the blank prompt) or a PING: on to select().
AwaitNothing(t, partial) ==
    /\ pc = "await"
    /\ t \in {"CONFIRM", "PING"}
    /\ prompt' = [input_type |-> "SERVER", type |-> t]
    /\ incomplete' = partial
    /\ pc' = "poll"
    /\ UNCHANGED <<state, processing, interrupt, sending, res, history>>

EnterSelect ==
    /\ pc = "poll"
    /\ pc' = "select"
    /\ UNCHANGED <<state, processing, interrupt, prompt, incomplete, sending, res, history>>

\* The socket is readable and recv_msg returned t; a PING is absorbed.
SelectServer(t) ==
    /\ pc = "select"
    /\ prompt' = [input_type |-> "SERVER", type |-> t]
    /\ pc' = IF t = "PING" THEN "poll" ELSE "react"
    /\ UNCHANGED <<state, processing, interrupt, incomplete, sending, res, history>>

\* Faulty variant: standard input is watched while a reply is due.
SelectKeyboardAlways ==
    /\ pc = "select"
    /\ ~incomplete
    /\ prompt' = [prompt EXCEPT !.input_type = "USER"]
    /\ pc' = "input"
    /\ UNCHANGED <<state, processing, interrupt, incomplete, sending, res, history>>

\* Standard input is watched only when no reply is due and no TCP message is
\* half received.
SelectKeyboard ==
    /\ pc = "select"
    /\ ~processing /\ ~incomplete
    /\ prompt' = [prompt EXCEPT !.input_type = "USER"]
    /\ pc' = "input"
    /\ UNCHANGED <<state, processing, interrupt, incomplete, sending, res, history>>

\* parse_user_input() returns t; at end of file it raises the interrupt flag
\* itself.
UserLine(t, eof) ==
    /\ pc = "input"
    /\ eof => t = "LOCAL"
    /\ prompt' = [prompt EXCEPT !.type = t]
    /\ interrupt' = (interrupt \/ eof)
    /\ pc' = "react"
    /\ UNCHANGED <<state, processing, incomplete, sending, res, history>>

\* Faulty variant: the timeout is reported as nothing of interest.
SelectTimeoutIgnored ==
    /\ pc = "select"
    /\ processing
    /\ prompt' = [prompt EXCEPT !.type = "LOCAL"]
    /\ pc' = "react"
    /\ UNCHANGED <<state, processing, interrupt, incomplete, sending, res, history>>

SelectTimeout ==
    /\ pc = "select"
    /\ processing
    /\ prompt' = [prompt EXCEPT !.type = "ERROR"]
    /\ pc' = "react"
    /\ UNCHANGED <<state, processing, interrupt, incomplete, sending, res, history>>

\* select() fails for another reason than a signal: the prompt is returned as it is.
SelectFails ==
    /\ pc = "select"
    /\ pc' = "react"
    /\ UNCHANGED <<state, processing, interrupt, prompt, incomplete, sending, res, history>>

----------------------------------------------------------------------------
(* The state functions, after await() returned.                            *)

ReactSend ==
    /\ pc = "react"
    /\ Outgoing(state, prompt) # NoMsg
    /\ sending' = Outgoing(state, prompt)
    /\ processing' = (processing \/ Outgoing(state, prompt) \in Requests)
    /\ unanswered' = (unanswered \/ Outgoing(state, prompt) \in Requests)
    /\ pc' = "send"
    /\ UNCHANGED <<state, interrupt, prompt, incomplete, res, admitted, ending>>

\* Faulty variant: only a positive reply ends the request.
StillWaitingAfterNreply == processing /\ ~(Answers(state, prompt) /\ prompt.type = "REPLY")

\* comm->processing is reset by the reply to the request.
StillWaiting == processing /\ ~Answers(state, prompt)

ReactQuietly ==
    /\ pc = "react"
    /\ Outgoing(state, prompt) = NoMsg
    /\ state' = StateAfter(state, prompt)
    /\ processing' = StillWaiting
    /\ res' = IF Fails(state, prompt) THEN 1 ELSE 0
    /\ pc' = "loop"
    /\ admitted' = (admitted \/ (state = "state_auth" /\ prompt.type = "REPLY"))
    /\ ending' = CASE ~FromUser(state, prompt) /\ prompt.type = "BYE" -> "bye"
                   [] ~FromUser(state, prompt) /\ prompt.type = "ERR" -> "err"
                   [] OTHER -> ending
    /\ unanswered' = (unanswered /\ prompt.type \notin {"REPLY", "NREPLY"})
    /\ UNCHANGED <<interrupt, prompt, incomplete, sending>>

SendOk ==
    /\ pc = "send"
    /\ state' = StateAfterSend(state, sending)
    /\ res' = IF sending = "ERR" THEN 1 ELSE 0
    /\ ending' = CASE sending = "BYE" -> "bye" [] sending = "ERR" -> "err" [] OTHER -> ending
    /\ sending' = NoMsg
    /\ pc' = "loop"
    /\ UNCHANGED <<processing, interrupt, prompt, incomplete, admitted, unanswered>>

\* Faulty variant: SEND without its return.
SendFailedIgnored(signalled) ==
    /\ pc = "send"
    /\ state' = StateAfterSend(state, sending)
    /\ res' = IF sending = "ERR" THEN 1 ELSE 0
    /\ sending' = NoMsg
    /\ interrupt' = (interrupt \/ signalled)
    /\ pc' = "loop"
    /\ UNCHANGED <<processing, prompt, incomplete, history>>

\* SEND's error branch; signalled: send_msg failed because SIGINT cut it short.
SendFailed(signalled) ==
    /\ pc = "send"
    /\ res' = 1
    /\ sending' = NoMsg
    /\ interrupt' = (interrupt \/ signalled)
    /\ pc' = "loop"
    /\ UNCHANGED <<state, processing, prompt, incomplete, history>>

----------------------------------------------------------------------------
(* interrupt_handle(): SIGINT.                                             *)

\* Blocked in select(): EINTR.  While a reply is due the loop only continues.
SignalInSelect ==
    /\ pc = "select"
    /\ interrupt' = TRUE
    /\ IF processing
       THEN pc' = "poll" /\ UNCHANGED prompt
       ELSE pc' = "react" /\ prompt' = [prompt EXCEPT !.type = "LOCAL"]
    /\ UNCHANGED <<state, processing, incomplete, sending, res, history>>

\* Anywhere else the handler only sets the flag; a read() inside getline() is
\* restarted, signal() having installed the handler with SA_RESTART.
SignalElsewhere ==
    /\ pc \notin {"select", "exit"}
    /\ interrupt' = TRUE
    /\ UNCHANGED <<state, processing, pc, prompt, incomplete, sending, res, history>>

Exited == pc = "exit" /\ UNCHANGED vars

----------------------------------------------------------------------------

\* What the thread does by itself, and what it does when send_msg returns.
ClientStep ==
    \/ LoopCall \/ LoopInterrupted \/ LoopExit
    \/ \E t \in RecvTypes : AwaitFound(t)
    \/ \E t \in {"CONFIRM", "PING"}, partial \in BOOLEAN : AwaitNothing(t, partial)
    \/ EnterSelect
    \/ ReactSend \/ ReactQuietly
    \/ SendOk \/ SendFailed(FALSE)

Environment ==
    \/ \E t \in RecvTypes : SelectServer(t)
    \/ SelectKeyboard
    \/ \E t \in UserTypes, eof \in BOOLEAN : UserLine(t, eof)
    \/ SelectTimeout
    \/ SelectFails
    \/ SignalInSelect \/ SignalElsewhere \/ SendFailed(TRUE)

Next == ClientStep \/ Environment \/ Exited

Spec == Init /\ [][Next]_vars

\* The thread is scheduled, send_msg returns, and a line the user has begun is
\* ended; nothing is promised about the server, new input or the timer.
FairSpec ==
    /\ Spec
    /\ WF_vars(ClientStep)
    /\ WF_vars(\E t \in UserTypes, eof \in BOOLEAN : UserLine(t, eof))

----------------------------------------------------------------------------
(* Properties.                                                             *)

\* comm->processing, on which await() decides whether to watch the keyboard and
\* whether to arm the response timer, agrees with the state machine: it is set
\* all through state_join, and never outside the two states that wait for a
\* reply (where it would lock the user out, then time out on nothing).
WaitingMatchesState ==
    (Running /\ pc # "send") =>
        /\ state = "state_join" => processing
        /\ processing => state \in {"state_auth", "state_join"}

\* From the moment a request is begun until its reply has been taken, the client
\* begins no other message than an ERR: no BYE for a SIGINT or an end of input
\* that comes meanwhile (fsm.c:173), no line of the user's and no second request
\* (prompt.c:80).  The reply counts as taken when a state function acts on it,
\* whatever that function does to `processing`.
OneRequestAtATime ==
    [][unanswered /\ sending' # sending => sending' \in {NoMsg, "ERR"}]_vars

\* Nothing reaches a channel before the server accepted the credentials: MSG
\* and JOIN are sent only after a REPLY was taken in state_auth.
AdmittedFirst == sending \in {"MSG", "JOIN"} => admitted

\* Once an ERR or a BYE has gone in either direction the client only leaves: it
\* neither sends nor waits again, even with an interrupt pending.
EndIsFinal == ending # "none" => pc \in {"loop", "exit"} /\ ~Running

\* The exit status tells how the conversation ended: 0 exactly when a BYE was
\* received or got through, as the EXIT CODE lines of test/test_cases expect.
ExitStatus == pc = "exit" => (res = 0 <=> ending = "bye")

\* After SIGINT a client that waits for no reply goes on to say BYE or exits
\* (main.c:21, "the program should terminate gracefully").
InterruptIsNoticed ==
    (interrupt /\ ~processing) ~> (sending = "BYE" \/ processing \/ pc = "exit")
=============================================================================
