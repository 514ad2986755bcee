-------------------------------- MODULE Fsm --------------------------------
(***************************************************************************)
(* The protocol state machine of src/fsm.c as a table: what each state     *)
(* function does with the prompt that await() returned to it.  A state     *)
(* function sends at most one message per call and assigns the global      *)
(* function pointer `state` after that message went out; both are pure     *)
(* functions of the state and the prompt, and ChatClient builds its        *)
(* actions from them.                                                      *)
(***************************************************************************)

\* The state functions fsm.c points `state` at, and the NULL pointer.
Prompting == {"state_start", "state_auth", "state_open", "state_join"}
States    == Prompting \cup {"state_interupt", "NULL"}

\* msg_type_t as the interface of comm_t uses it.  NREPLY, ERROR and LOCAL
\* are never on the wire: they are results of parsing.
RecvTypes == {"REPLY", "NREPLY", "MSG", "ERR", "BYE", "PING", "ERROR", "LOCAL"}
UserTypes == {"AUTH", "JOIN", "MSG", "ERROR", "LOCAL"}
SentTypes == {"AUTH", "JOIN", "MSG", "ERR", "BYE"}
Requests  == {"AUTH", "JOIN"}
NoMsg     == "NOMSG"

\* prompt_t.  CONFIRM is the value 0 of msg_type_t, which await() starts from.
Prompts ==
    [input_type : {"USER", "SERVER"}, type : RecvTypes \cup UserTypes \cup {"CONFIRM"}]
Blank == [input_type |-> "SERVER", type |-> "CONFIRM"]

----------------------------------------------------------------------------

\* state_join never looks at input_type.
FromUser(s, p) == p.input_type = "USER" /\ s # "state_join"

\* Faulty variant: messages are accepted before the server's reply.
CommandsTooEarly(s) ==
    CASE s = "state_start"                   -> {"AUTH"}
      [] s \in {"state_auth", "state_open"}  -> {"AUTH", "MSG", "JOIN"}
      [] OTHER                               -> {}

\* What a user may send from each state.
Commands(s) ==
    CASE s \in {"state_start", "state_auth"} -> {"AUTH"}
      [] s = "state_open"                    -> {"MSG", "JOIN"}
      [] OTHER                               -> {}

\* What a state takes from the server besides ERR and BYE.
Expected(s) ==
    CASE s = "state_start" -> {}
      [] s = "state_auth"  -> {"REPLY", "NREPLY"}
      [] s = "state_open"  -> {"MSG"}
      [] OTHER             -> {"REPLY", "NREPLY", "MSG"}

\* Faulty variant: whatever the user typed is sent.
OutgoingUnchecked(s, p) ==
    IF FromUser(s, p)
    THEN p.type
    ELSE IF p.type \in Expected(s) \cup {"ERR", "BYE", "LOCAL"} THEN NoMsg ELSE "ERR"

\* The message the state function hands to SEND, if any: the user's command,
\* or an ERR for anything unexpected, which includes the ERROR of a failed
\* receive and of the response timeout.
Outgoing(s, p) ==
    IF FromUser(s, p)
    THEN IF p.type \in Commands(s) THEN p.type ELSE NoMsg
    ELSE IF p.type \in Expected(s) \cup {"ERR", "BYE", "LOCAL"} THEN NoMsg ELSE "ERR"

\* Faulty variant: an ERR from the server is not an error.
FailsOnUserErrors(s, p) == FromUser(s, p) /\ p.type = "ERROR"

\* The state function returns EXIT_FAILURE without sending anything.
Fails(s, p) ==
    IF FromUser(s, p) THEN p.type = "ERROR" ELSE p.type = "ERR"

\* The prompt answers the request in flight.
Answers(s, p) ==
    /\ ~FromUser(s, p)
    /\ s \in {"state_auth", "state_join"}
    /\ p.type \in {"REPLY", "NREPLY"}

\* `state` when the function returns without having sent.
StateAfter(s, p) ==
    CASE ~FromUser(s, p) /\ p.type = "BYE"                          -> "NULL"
      [] Answers(s, p) /\ (p.type = "REPLY" \/ s = "state_join")    -> "state_open"
      [] OTHER                                                      -> s

\* `state` after SEND(m) succeeded in state s.
StateAfterSend(s, m) ==
    CASE m = "AUTH" -> "state_auth"
      [] m = "JOIN" -> "state_join"
      [] m = "BYE"  -> "NULL"
      [] OTHER      -> s
=============================================================================
