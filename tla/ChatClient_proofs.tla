-------------------------- MODULE ChatClient_proofs --------------------------
(***************************************************************************)
(* The safety properties of ChatClient, proved of Spec.  The module has no *)
(* constants: what the proofs add to TLC's run is that the invariants hold *)
(* of every backend that behaves as ChatClient lets one behave, which      *)
(* UdpClient_proofs uses.                                                  *)
(***************************************************************************)
EXTENDS ChatClient, TLAPS

(***************************************************************************)
(* The properties speak of some of the places the thread can be in; these  *)
(* conjuncts say what holds at the others.                                 *)
(***************************************************************************)

\* Between two turns of the loop the client may have to stop; inside one it runs.
RunsInside ==
    /\ pc \notin {"loop", "exit"} => Running
    /\ pc = "exit" => ~Running

\* A message is being sent exactly in "send", from the state that sends it.
SendsFromState ==
    /\ pc = "send" <=> sending # NoMsg
    /\ sending = "AUTH" => state \in {"state_start", "state_auth"} /\ processing
    /\ sending = "JOIN" => state = "state_open" /\ processing
    /\ sending = "MSG"  => state = "state_open" /\ ~processing
    /\ sending = "BYE"  => state = "state_interupt" /\ interrupt /\ ~processing
    /\ state = "state_interupt" => pc = "send" \/ res = 1

\* The states behind the authentication are reached only with a REPLY.
OpenIsAdmitted == state \in {"state_open", "state_join"} => admitted

\* The NULL state is the one a BYE leads to.
NullAfterBye == (state = "NULL" <=> ending = "bye") /\ (state = "NULL" => res = 0)

\* Until select() reports the keyboard the prompt is not the user's, and it never
\* is while a reply is due.
AwaitsServer ==
    /\ pc \in {"poll", "select"} => prompt.input_type = "SERVER"
    /\ pc = "input" => ~processing
    /\ pc = "react" /\ processing => prompt.input_type = "SERVER"

\* `processing` is what the history of requests and replies says it should be.
FlagIsTrue == unanswered = processing

IInv ==
    /\ TypeOK
    /\ RunsInside
    /\ SendsFromState
    /\ WaitingMatchesState
    /\ OpenIsAdmitted
    /\ EndIsFinal
    /\ NullAfterBye
    /\ AwaitsServer
    /\ FlagIsTrue

USE DEF history

\* What a state function sends is not BYE, and each message has its states.
LEMMA OutgoingStates ==
    ASSUME NEW s \in States, NEW p \in Prompts, Outgoing(s, p) # NoMsg
    PROVE  /\ Outgoing(s, p) \in {"AUTH", "JOIN", "MSG", "ERR"}
           /\ Outgoing(s, p) = "AUTH" => s \in {"state_start", "state_auth"}
           /\ Outgoing(s, p) \in {"JOIN", "MSG"} => s = "state_open"
  BY DEF States, Prompting, Prompts, RecvTypes, UserTypes, Outgoing, FromUser, Commands, NoMsg

\* A quiet return leaves the state, opens the channel, or ends with BYE.
LEMMA QuietStates ==
    ASSUME NEW s \in States, NEW p \in Prompts
    PROVE  /\ StateAfter(s, p) \in {s, "state_open", "NULL"}
           /\ StateAfter(s, p) = "NULL" /\ s # "NULL" => ~FromUser(s, p) /\ p.type = "BYE"
           /\ ~FromUser(s, p) /\ p.type = "BYE" => StateAfter(s, p) = "NULL" /\ ~Fails(s, p)
           /\ ~FromUser(s, p) /\ p.type = "ERR" => Fails(s, p)
           /\ StateAfter(s, p) = "state_open" /\ s # "state_open" =>
                Answers(s, p) /\ (s = "state_join" \/ p.type = "REPLY")
           /\ Answers(s, p) => s \in {"state_auth", "state_join"}
           /\ Answers(s, p) /\ s = "state_join" => StateAfter(s, p) = "state_open"
  BY DEF States, Prompting, Prompts, RecvTypes, UserTypes, StateAfter, FromUser, Answers, Fails

THEOREM InitIInv == Init => IInv
<1> SUFFICES ASSUME Init PROVE IInv
  OBVIOUS
<1>1. TypeOK
  BY DEF Init, TypeOK, States, Prompting, Points, Prompts, Blank, NoMsg
<1>2. RunsInside /\ OpenIsAdmitted /\ EndIsFinal /\ NullAfterBye
  BY DEF Init, RunsInside, Running, OpenIsAdmitted, EndIsFinal, NullAfterBye
<1>3. SendsFromState
  BY DEF Init, SendsFromState, NoMsg
<1>4. WaitingMatchesState /\ AwaitsServer /\ FlagIsTrue
  BY DEF Init, WaitingMatchesState, AwaitsServer, FlagIsTrue
<1> QED
  BY <1>1, <1>2, <1>3, <1>4 DEF IInv

\* Every step of the client and of its environment preserves IInv.
THEOREM NextIInv == IInv /\ [Next]_vars => IInv'
<1> SUFFICES ASSUME IInv, [Next]_vars PROVE IInv'
  OBVIOUS
<1> USE DEF IInv, TypeOK, RunsInside, Running, SendsFromState, WaitingMatchesState,
            OpenIsAdmitted, EndIsFinal, NullAfterBye, AwaitsServer, FlagIsTrue, Points,
            NoMsg, SentTypes
<1>1. CASE LoopCall
  BY <1>1 DEF LoopCall, MayLeave
<1>2. CASE LoopInterrupted
  BY <1>2 DEF LoopInterrupted, MayLeave, States
<1>3. CASE LoopExit
  BY <1>3 DEF LoopExit
<1>4. ASSUME NEW t \in RecvTypes, AwaitFound(t) PROVE IInv'
  BY <1>4 DEF AwaitFound, Prompts
<1>5. ASSUME NEW t \in {"CONFIRM", "PING"}, NEW partial \in BOOLEAN, AwaitNothing(t, partial)
      PROVE IInv'
  BY <1>5 DEF AwaitNothing, Prompts, RecvTypes
<1>6. CASE EnterSelect
  BY <1>6 DEF EnterSelect
<1>7. CASE ReactSend
  <2>1. Outgoing(state, prompt) # NoMsg /\ state \in States /\ prompt \in Prompts
    BY <1>7 DEF ReactSend
  <2>2. /\ Outgoing(state, prompt) \in {"AUTH", "JOIN", "MSG", "ERR"}
        /\ Outgoing(state, prompt) = "AUTH" => state \in {"state_start", "state_auth"}
        /\ Outgoing(state, prompt) \in {"JOIN", "MSG"} => state = "state_open"
    BY <2>1, OutgoingStates
  <2> QED
    BY <1>7, <2>2 DEF ReactSend, Requests
<1>8. CASE ReactQuietly
  <2>1. state \in States /\ prompt \in Prompts
    OBVIOUS
  <2>2. pc = "react" /\ Running /\ ending = "none"
    BY <1>8 DEF ReactQuietly
  <2> DEFINE server == ~FromUser(state, prompt)
  <2>3. /\ pc' = "loop" /\ sending' = sending /\ interrupt' = interrupt /\ prompt' = prompt
        /\ state' = StateAfter(state, prompt)
        /\ processing' = (processing /\ ~Answers(state, prompt))
        /\ res' = IF Fails(state, prompt) THEN 1 ELSE 0
        /\ admitted' = (admitted \/ (state = "state_auth" /\ prompt.type = "REPLY"))
        /\ incomplete' = incomplete
        /\ unanswered' = (unanswered /\ prompt.type \notin {"REPLY", "NREPLY"})
    BY <1>8 DEF ReactQuietly, StillWaiting
  <2>4. ending' = IF server /\ prompt.type = "BYE" THEN "bye"
                  ELSE IF server /\ prompt.type = "ERR" THEN "err" ELSE ending
    BY <1>8 DEF ReactQuietly
  <2>5. TypeOK'
    BY <2>1, <2>2, <2>3, <2>4, QuietStates DEF States, Prompting
  <2>6. RunsInside' /\ SendsFromState'
    BY <2>1, <2>2, <2>3, QuietStates
  <2>7. WaitingMatchesState' /\ OpenIsAdmitted'
    BY <2>1, <2>2, <2>3, QuietStates DEF States, Prompting, Answers
  <2>8. EndIsFinal' /\ NullAfterBye'
    BY <2>1, <2>2, <2>3, <2>4, QuietStates
  <2>9. FlagIsTrue' /\ AwaitsServer'
    <3>1. processing => (Answers(state, prompt) <=> prompt.type \in {"REPLY", "NREPLY"})
      BY <2>2 DEF Answers, FromUser
    <3> QED
      BY <2>3, <3>1
  <2> QED
    BY <2>5, <2>6, <2>7, <2>8, <2>9
<1>9. CASE SendOk
  BY <1>9 DEF SendOk, StateAfterSend, States, Prompting
<1>10. ASSUME NEW signalled \in BOOLEAN, SendFailed(signalled) PROVE IInv'
  BY <1>10 DEF SendFailed
<1>11. ASSUME NEW t \in RecvTypes, SelectServer(t) PROVE IInv'
  BY <1>11 DEF SelectServer, Prompts
<1>12. ASSUME NEW t \in UserTypes, NEW eof \in BOOLEAN, UserLine(t, eof) PROVE IInv'
  BY <1>12 DEF UserLine, Prompts
<1>13. CASE SelectTimeout
  BY <1>13 DEF SelectTimeout, Prompts, RecvTypes
<1>14. CASE SelectFails
  BY <1>14 DEF SelectFails
<1>15. CASE SignalInSelect
  BY <1>15 DEF SignalInSelect, Prompts, RecvTypes
<1>16. CASE SignalElsewhere
  BY <1>16 DEF SignalElsewhere
<1>17. CASE UNCHANGED vars
  BY <1>17 DEF vars
<1>18. CASE SelectKeyboard
  BY <1>18 DEF SelectKeyboard, Prompts
<1> QED
  BY <1>1, <1>2, <1>3, <1>4, <1>5, <1>6, <1>7, <1>8, <1>9, <1>10, <1>11, <1>12, <1>13,
     <1>14, <1>15, <1>16, <1>17, <1>18 DEF Next, ClientStep, Environment, Exited

----------------------------------------------------------------------------

THEOREM Inductive == Spec => []IInv
  BY InitIInv, NextIInv, PTL DEF Spec

\* The variables keep their types.
THEOREM TypeCorrect == Spec => []TypeOK
<1>1. IInv => TypeOK
  BY DEF IInv
<1> QED
  BY <1>1, Inductive, PTL

\* The flag that decides on timer and keyboard agrees with the state machine.
THEOREM Waiting == Spec => []WaitingMatchesState
<1>1. IInv => WaitingMatchesState
  BY DEF IInv
<1> QED
  BY <1>1, Inductive, PTL

\* Between a request and the reply to it only an ERR is begun: a step that begins
\* something else is LoopInterrupted, which looks at `processing`, or ReactSend with
\* what the user typed, and then the prompt is the user's.
THEOREM NothingButErrors == Spec => OneRequestAtATime
<1> DEFINE A == unanswered /\ sending' # sending => sending' \in {NoMsg, "ERR"}
<1>1. IInv /\ [Next]_vars => [A]_vars
  <2> SUFFICES ASSUME IInv, Next, unanswered, sending' # sending
               PROVE  sending' \in {NoMsg, "ERR"}
    OBVIOUS
  <2>1. processing /\ TypeOK /\ AwaitsServer /\ WaitingMatchesState /\ RunsInside
    BY DEF IInv, FlagIsTrue
  <2>2. CASE ReactSend
    <3>1. /\ Running /\ pc = "react" /\ prompt.input_type = "SERVER"
          /\ sending' = Outgoing(state, prompt)
      BY <2>1, <2>2 DEF ReactSend, AwaitsServer, RunsInside
    <3> QED
      BY <3>1 DEF Outgoing, FromUser
  <2>3. CASE LoopInterrupted
    BY <2>1, <2>3 DEF LoopInterrupted, MayLeave
  <2>4. CASE ~ReactSend /\ ~LoopInterrupted
    BY <2>4 DEF Next, ClientStep, Environment, Exited, LoopCall, LoopExit, AwaitFound,
       AwaitNothing, EnterSelect, ReactQuietly, SendOk, SendFailed, SelectServer,
       SelectKeyboard, UserLine, SelectTimeout, SelectFails, SignalInSelect,
       SignalElsewhere, vars
  <2> QED
    BY <2>2, <2>3, <2>4
<1> HIDE DEF A
<1>2. Spec => [][A]_vars
  BY <1>1, Inductive, PTL DEF Spec
<1> QED
  BY <1>2 DEF OneRequestAtATime, A

\* MSG and JOIN need an accepted AUTH.
THEOREM Admission == Spec => []AdmittedFirst
<1>1. IInv => AdmittedFirst
  BY DEF IInv, SendsFromState, OpenIsAdmitted, AdmittedFirst
<1> QED
  BY <1>1, Inductive, PTL

\* After ERR or BYE the client only leaves.
THEOREM Ending == Spec => []EndIsFinal
<1>1. IInv => EndIsFinal
  BY DEF IInv
<1> QED
  BY <1>1, Inductive, PTL

\* Exit status 0 means BYE.
THEOREM Exiting == Spec => []ExitStatus
<1>1. IInv => ExitStatus
  BY DEF IInv, TypeOK, RunsInside, Running, NullAfterBye, ExitStatus
<1> QED
  BY <1>1, Inductive, PTL
=============================================================================
