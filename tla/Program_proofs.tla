--------------------------- MODULE Program_proofs ---------------------------
(***************************************************************************)
(* The whole program: it behaves as ChatClient and its command line as     *)
(* Args, so that what is proved of these holds of it, and on top of that   *)
(* its types, SentParses and StatusTellsAll; then that it implements       *)
(* MsgStream on standard input.                                            *)
(***************************************************************************)
EXTENDS Program, ChatClient_proofs, Args_proofs, SequenceTheorems

----------------------------------------------------------------------------
(* Steps of the parts.                                                     *)

\* What happens at the terminal is a step of ChatClient.
LEMMA TerminalIsStep == IThread \/ IWorld \/ Timer => [Next]_vars
<1>1. ASSUME NEW line, Take(line), Parsed(line).type \in UserTypes PROVE Next
  BY <1>1 DEF Take, Next, Environment
<1>2. \A line : Parsed(line).type \in UserTypes
  BY DEF Parsed, ParseAuth, ParseJoin, ParseRename, ParseMessage, Invalid, Result, UserTypes
<1>3. TakeLine \/ TakeLastLine => Next
  BY <1>1, <1>2 DEF TakeLine, TakeLastLine
<1>4. EndOfFile \/ ReadError => Next
  BY DEF EndOfFile, ReadError, Next, Environment, UserTypes
<1>5. KeyboardReadable \/ StartToSend \/ Timer => Next
  BY DEF KeyboardReadable, StartToSend, Timer, Next, Environment, ClientStep
<1>6. Other \/ Hear \/ Interruption => Next
  BY DEF Other, Hear, Interruption, Next, Environment, ClientStep
<1>7. ReadChunk \/ (\E line \in Lines : TypeLine(line)) \/ EndLine \/ Close => UNCHANGED vars
  BY DEF ReadChunk, TypeLine, EndLine, Close
<1>8. QED
  BY <1>3, <1>4, <1>5, <1>6, <1>7 DEF IThread, IWorld

LEMMA ProgramIsStep == [PNext]_pvars => [Next]_vars /\ [ANext]_avars
<1> SUFFICES ASSUME [PNext]_pvars PROVE [Next]_vars /\ [ANext]_avars
  OBVIOUS
<1>1. CASE ProcessArgs
  BY <1>1 DEF ProcessArgs, ivars
<1>2. CASE GetComm \/ GetCommFails \/ Return
  BY <1>2 DEF GetComm, GetCommFails, Return, ivars
<1>3. CASE Thread \/ World \/ ResponseTimeout
  BY <1>3, TerminalIsStep DEF Thread, World, ResponseTimeout
<1>4. CASE EarlySignal
  BY <1>4 DEF EarlySignal, Next, Environment
<1>5. CASE Over \/ UNCHANGED pvars
  BY <1>5 DEF Over, pvars, ivars
<1>6. QED
  BY <1>1, <1>2, <1>3, <1>4, <1>5 DEF PNext, Main

\* The program behaves as ChatClient and as Args.
THEOREM ProgramIsClient == PSpec => Spec /\ ASpec
<1>1. PInit => Init /\ AInit
  BY DEF PInit, IInit
<1>2. QED
  BY <1>1, ProgramIsStep, PTL DEF PSpec, Spec, ASpec

\* What the options mean to the program is what they say.
THEOREM ProgramChecksArguments == PSpec => [](AcceptsExactly /\ ValuesAreGiven)
BY ProgramIsClient, ArgumentsChecked, ParametersAreGiven, PTL

----------------------------------------------------------------------------
(* The fields of `client`.                                                 *)

\* The name fits wherever the thread is; the rest fits from the moment a command
\* is taken to the end of its sending.
FieldsFit ==
    /\ client \in ClientType
    /\ is_valid_printable(client.display_name, MAX_NAME_SIZE)
    /\ pc = "react" /\ prompt.input_type = "USER" =>
         /\ RequestWordsFit(prompt.type)
         /\ prompt.type = "MSG" => is_valid_msg_content(client.msg_content, MAX_MSG_SIZE)
    /\ pc = "send" =>
         /\ RequestWordsFit(sending)
         /\ sending \in {"MSG", "ERR"} => is_valid_msg_content(client.msg_content, MAX_MSG_SIZE)

LEMMA CopyFits ==
    ASSUME NEW s \in Strings, NEW max \in Nat
    PROVE  Copy(s, max) \in Field(max) /\ (s.len <= max => Copy(s, max) = s)
BY DEF Copy, Field, Strings

\* A command is taken only with words that fit, a message cut to its limit.
LEMMA ParsedFits ==
    ASSUME FieldsFit, NEW line \in LineType
    PROVE  LET r == Parsed(line) IN
             /\ r.type \in {"AUTH", "JOIN", "MSG", "LOCAL"}
             /\ r.client \in ClientType
             /\ is_valid_printable(r.client.display_name, MAX_NAME_SIZE)
             /\ r.type = "AUTH" =>
                  /\ is_valid_alphanum_underscore(r.client.username, MAX_NAME_SIZE)
                  /\ is_valid_alphanum_underscore(r.client.secret, MAX_SECRET_SIZE)
             /\ r.type = "JOIN" => is_valid_alphanum_underscore(r.client.channel_ID, MAX_NAME_SIZE)
             /\ r.type = "MSG" => is_valid_msg_content(r.client.msg_content, MAX_MSG_SIZE)
<1> DEFINE r == Parsed(line)
<1>1. /\ line.args \in Seq(Words) /\ line.text \in Strings
      /\ client \in ClientType /\ is_valid_printable(client.display_name, MAX_NAME_SIZE)
  BY DEF LineType, FieldsFit
<1>2. ASSUME NEW i \in 1 .. Len(line.args) PROVE line.args[i] \in Strings
  <2>1. line.args[i] \in Words
    BY <1>1
  <2>2. QED
    BY <2>1 DEF Words, Strings
<1>3. MAX_NAME_SIZE \in Nat /\ MAX_SECRET_SIZE \in Nat /\ MAX_MSG_SIZE \in Nat
  BY DEF MAX_NAME_SIZE, MAX_SECRET_SIZE, MAX_MSG_SIZE
<1>4. CASE r = Invalid
  BY <1>1, <1>4 DEF Invalid, Result
<1>5. CASE line.cmd = "/auth" /\ r # Invalid
  <2> DEFINE a == line.args
  <2>1. /\ Len(a) = 3
        /\ is_valid_alphanum_underscore(a[1], MAX_NAME_SIZE)
        /\ is_valid_alphanum_underscore(a[2], MAX_SECRET_SIZE)
        /\ is_valid_printable(a[3], MAX_NAME_SIZE)
        /\ r = Result("AUTH", [client EXCEPT !.username = Copy(a[1], MAX_NAME_SIZE),
                                             !.secret = Copy(a[2], MAX_SECRET_SIZE),
                                             !.display_name = Copy(a[3], MAX_NAME_SIZE)])
    BY <1>5 DEF Parsed, ParseAuth, MAX_NAME_SIZE
  <2>2. a[1] \in Strings /\ a[2] \in Strings /\ a[3] \in Strings
    BY <1>2, <2>1
  <2>3. /\ Copy(a[1], MAX_NAME_SIZE) = a[1] /\ a[1] \in Field(MAX_NAME_SIZE)
        /\ Copy(a[2], MAX_SECRET_SIZE) = a[2] /\ a[2] \in Field(MAX_SECRET_SIZE)
        /\ Copy(a[3], MAX_NAME_SIZE) = a[3] /\ a[3] \in Field(MAX_NAME_SIZE)
    <3>1. /\ a[1].len <= MAX_NAME_SIZE /\ a[2].len <= MAX_SECRET_SIZE
          /\ a[3].len <= MAX_NAME_SIZE
      BY <2>1, Zenon DEF is_valid_alphanum_underscore, is_valid_printable
    <3>2. \A s \in Strings, max \in Nat :
            s.len <= max => Copy(s, max) = s /\ s \in Field(max)
      BY CopyFits DEF Field
    <3>3. QED
      BY <1>3, <2>2, <3>1, <3>2, Zenon
  <2> HIDE DEF a, r
  <2>4. /\ r.type = "AUTH" /\ r.client.username = a[1] /\ r.client.secret = a[2]
        /\ r.client.display_name = a[3]
    BY <1>1, <2>1, <2>3 DEF Result, ClientType
  <2>5. r.client \in ClientType
    BY <1>1, <2>1, <2>3 DEF Result, ClientType
  <2>6. QED
    BY <2>1, <2>4, <2>5 DEF r
<1>6. CASE line.cmd = "/join" /\ r # Invalid
  <2> DEFINE w == line.args[1]
  <2>1. /\ is_valid_alphanum_underscore(w, MAX_NAME_SIZE) /\ w \in Strings
        /\ r = Result("JOIN", [client EXCEPT !.channel_ID = Copy(w, MAX_NAME_SIZE)])
    BY <1>2, <1>6 DEF Parsed, ParseJoin
  <2>2. Copy(w, MAX_NAME_SIZE) = w /\ w \in Field(MAX_NAME_SIZE)
    BY <1>3, <2>1, CopyFits DEF is_valid_alphanum_underscore, Field
  <2> HIDE DEF w
  <2>3. QED
    BY <1>1, <2>1, <2>2 DEF Result, ClientType
<1>7. CASE line.cmd = "/rename" /\ r # Invalid
  <2> DEFINE w == line.args[1]
  <2>1. /\ is_valid_printable(w, MAX_NAME_SIZE) /\ w \in Strings
        /\ r = Result("LOCAL", [client EXCEPT !.display_name = Copy(w, MAX_NAME_SIZE)])
    BY <1>2, <1>7 DEF Parsed, ParseRename
  <2>2. Copy(w, MAX_NAME_SIZE) = w /\ w \in Field(MAX_NAME_SIZE)
    BY <1>3, <2>1, CopyFits DEF is_valid_printable, Field
  <2> HIDE DEF w
  <2>3. QED
    BY <1>1, <2>1, <2>2 DEF Result, ClientType
<1>8. CASE line.cmd = "none" /\ r # Invalid
  <2> DEFINE c == Copy(line.text, MAX_MSG_SIZE)
  <2>1. /\ is_valid_msg_content(line.text, BUFFER_SIZE)
        /\ r = Result("MSG", [client EXCEPT !.msg_content = c])
    BY <1>8 DEF Parsed, ParseMessage
  <2>2. c \in Field(MAX_MSG_SIZE)
    BY <1>1, <1>3, CopyFits
  <2>3. is_valid_msg_content(c, MAX_MSG_SIZE)
    BY <1>1, <2>1 DEF is_valid_msg_content, Copy, Strings, MAX_MSG_SIZE
  <2> HIDE DEF c
  <2>4. QED
    BY <1>1, <2>1, <2>2, <2>3 DEF Result, ClientType
<1>9. QED
  BY <1>4, <1>5, <1>6, <1>7, <1>8 DEF Parsed

\* A state function sends a command only because the user has just given it.
LEMMA SentIsPrompted ==
    ASSUME NEW s, NEW p, Outgoing(s, p) # NoMsg
    PROVE  \/ Outgoing(s, p) = "ERR"
           \/ p.input_type = "USER" /\ p.type = Outgoing(s, p)
BY DEF Outgoing, FromUser

LEMMA FieldsInit == PInit => FieldsFit
<1> SUFFICES ASSUME PInit PROVE FieldsFit
  OBVIOUS
<1>1. client \in ClientType /\ is_valid_printable(client.display_name, MAX_NAME_SIZE)
  BY DEF PInit, IInit, ClientType, Field, Strings, Classes, Empty, is_valid_printable,
         MAX_NAME_SIZE, MAX_SECRET_SIZE, MAX_MSG_SIZE
<1>2. pc = "loop"
  BY DEF PInit, IInit, Init
<1>3. QED
  BY <1>1, <1>2 DEF FieldsFit

\* Steps that write no field only have to keep what is being sent.
LEMMA FieldsKept ==
    ASSUME FieldsFit, UNCHANGED client,
           pc' = "send" => \/ pc = "send" /\ sending' = sending
                           \/ sending' = "BYE",
           pc' = "react" /\ prompt'.input_type = "USER" =>
               \/ pc = "react" /\ prompt' = prompt
               \/ prompt'.type \notin {"AUTH", "JOIN", "MSG"}
    PROVE  FieldsFit'
BY DEF FieldsFit, RequestWordsFit

LEMMA FirstLineIsLine ==
    ASSUME stdio \in Seq(Lines \cup {EOL}), stdio # <<>>
    PROVE  FirstLine(stdio) \in Lines /\ FirstLine(stdio) \in LineType
<1>1. Head(stdio) \in Lines \cup {EOL}
  OBVIOUS
<1>2. QED
  BY <1>1, LinesAssumption DEF FirstLine

LEMMA TakeKeepsFields ==
    ASSUME FieldsFit, stdio \in Seq(Lines \cup {EOL}), stdio # <<>>, Take(FirstLine(stdio)),
           prompt \in Prompts
    PROVE  FieldsFit'
<1> DEFINE r == Parsed(FirstLine(stdio))
<1>1. /\ r.type \in {"AUTH", "JOIN", "MSG", "LOCAL"}
      /\ r.client \in ClientType
      /\ is_valid_printable(r.client.display_name, MAX_NAME_SIZE)
      /\ r.type = "AUTH" =>
           /\ is_valid_alphanum_underscore(r.client.username, MAX_NAME_SIZE)
           /\ is_valid_alphanum_underscore(r.client.secret, MAX_SECRET_SIZE)
      /\ r.type = "JOIN" => is_valid_alphanum_underscore(r.client.channel_ID, MAX_NAME_SIZE)
      /\ r.type = "MSG" => is_valid_msg_content(r.client.msg_content, MAX_MSG_SIZE)
  BY FirstLineIsLine, ParsedFits
<1> HIDE DEF r
<1>2. client' = r.client /\ pc' = "react" /\ prompt'.type = r.type
  BY DEF Take, UserLine, r, Prompts
<1>3. QED
  BY <1>1, <1>2 DEF FieldsFit, RequestWordsFit

LEMMA SendKeepsFields ==
    ASSUME FieldsFit, StartToSend, prompt \in Prompts
    PROVE  FieldsFit'
<1>1. /\ pc = "react" /\ pc' = "send" /\ Outgoing(state, prompt) # NoMsg
      /\ sending' = Outgoing(state, prompt) /\ client' = ErrorText(client)
  BY DEF StartToSend, ReactSend
<1>2. CASE sending' = "ERR"
  <2>1. client' = [client EXCEPT !.msg_content = ErrText]
    BY <1>1, <1>2 DEF ErrorText
  <2>2. ErrText \in Field(MAX_MSG_SIZE) /\ is_valid_msg_content(ErrText, MAX_MSG_SIZE)
    BY DEF ErrText, Field, Strings, Classes, MAX_MSG_SIZE, is_valid_msg_content
  <2>3. /\ client' \in ClientType /\ client'.display_name = client.display_name
        /\ client'.msg_content = ErrText
    BY <2>1, <2>2 DEF FieldsFit, ClientType
  <2>4. QED
    BY <1>1, <1>2, <2>2, <2>3 DEF FieldsFit, RequestWordsFit
<1>3. CASE sending' # "ERR"
  <2>1. client' = client /\ prompt.input_type = "USER" /\ prompt.type = sending'
    BY <1>1, <1>3, SentIsPrompted DEF ErrorText
  <2>2. QED
    BY <1>1, <1>3, <2>1 DEF FieldsFit, RequestWordsFit
<1>4. QED
  BY <1>2, <1>3

LEMMA FieldsStep == FieldsFit /\ ITypeOK /\ AwaitsServer /\ [PNext]_pvars => FieldsFit'
<1> SUFFICES ASSUME FieldsFit, ITypeOK, AwaitsServer, [PNext]_pvars PROVE FieldsFit'
  OBVIOUS
<1>1. prompt \in Prompts /\ stdio \in Seq(Lines \cup {EOL})
  BY DEF ITypeOK, TypeOK
<1>2. CASE StartToSend
  BY <1>1, <1>2, SendKeepsFields
<1>3. CASE TakeLine \/ TakeLastLine
  BY <1>1, <1>3, TakeKeepsFields DEF TakeLine, TakeLastLine
<1>4. CASE EndOfFile \/ ReadError
  BY <1>1, <1>4, FieldsKept DEF EndOfFile, ReadError, UserLine, Prompts
<1>5. CASE KeyboardReadable \/ Timer
  <2>1. UNCHANGED client /\ pc' # "send" /\ (pc' = "react" => prompt'.type = "ERROR")
    BY <1>1, <1>5 DEF KeyboardReadable, Timer, SelectKeyboard, SelectTimeout, Prompts
  <2>2. QED
    BY <2>1, FieldsKept
<1>6. CASE Other
  <2>1. UNCHANGED client /\ pc' # "react" /\ (pc' = "send" => sending' = "BYE")
    BY <1>6
    DEF Other, LoopCall, LoopInterrupted, LoopExit, AwaitNothing, EnterSelect, ReactQuietly,
        SendOk, SendFailed
  <2>2. QED
    BY <2>1, FieldsKept
<1>7. CASE Hear
  <2>1. UNCHANGED client /\ pc' # "send" /\ prompt'.input_type = "SERVER"
    BY <1>7 DEF Hear, AwaitFound, SelectServer
  <2>2. QED
    BY <2>1, FieldsKept
<1>8. CASE Interruption
  <2>1. CASE SelectFails
    BY <1>8, <2>1, FieldsKept DEF Interruption, SelectFails, AwaitsServer
  <2>2. CASE SignalInSelect
    BY <1>1, <1>8, <2>2, FieldsKept DEF Interruption, SignalInSelect, Prompts
  <2>3. CASE SignalElsewhere \/ SendFailed(TRUE)
    BY <1>8, <2>3, FieldsKept DEF Interruption, SignalElsewhere, SendFailed
  <2>4. QED
    BY <1>8, <2>1, <2>2, <2>3 DEF Interruption
<1>9. CASE ReadChunk \/ (\E line \in Lines : TypeLine(line)) \/ EndLine \/ Close
  <2>1. UNCHANGED <<vars, client>>
    BY <1>9 DEF ReadChunk, TypeLine, EndLine, Close
  <2>2. QED
    BY <2>1, FieldsKept DEF vars
<1>10. CASE EarlySignal
  BY <1>10, FieldsKept DEF EarlySignal, SignalElsewhere
<1>11. CASE ProcessArgs \/ GetComm \/ GetCommFails \/ Return \/ Over \/ UNCHANGED pvars
  <2>1. UNCHANGED <<vars, client>>
    BY <1>11 DEF ProcessArgs, GetComm, GetCommFails, Return, Over, pvars, ivars
  <2>2. QED
    BY <2>1, FieldsKept DEF vars
<1>12. CASE Thread \/ World \/ ResponseTimeout
  BY <1>2, <1>3, <1>4, <1>5, <1>6, <1>7, <1>8, <1>9, <1>12
  DEF Thread, World, ResponseTimeout, IThread, IWorld
<1>13. QED
  BY <1>10, <1>11, <1>12 DEF PNext, Main

----------------------------------------------------------------------------
(* Types.                                                                  *)

Symbols == Lines \cup {EOL}

InputOK ==
    /\ kernel \in Seq(Symbols) /\ stdio \in Seq(Symbols)
    /\ closed \in BOOLEAN
    /\ heard \in 0 .. MaxHeard
    /\ typed \in Seq(Lines) /\ Len(typed) <= MaxTyped
    /\ parsed \in Seq(Lines)

LEMMA InputInit == PInit => InputOK
<1> SUFFICES ASSUME PInit PROVE InputOK
  OBVIOUS
<1>1. kernel \in Seq(Symbols) /\ stdio \in Seq(Symbols) /\ parsed \in Seq(Lines)
  BY DEF PInit, IInit
<1>2. typed \in Seq(Lines) /\ Len(typed) = 0
  BY DEF PInit, IInit
<1>3. Len(typed) <= MaxTyped /\ heard \in 0 .. MaxHeard
  BY <1>2, LimitsAssumption DEF PInit, IInit
<1>4. closed \in BOOLEAN
  BY DEF PInit, IInit
<1>5. QED
  BY <1>1, <1>2, <1>3, <1>4 DEF InputOK

LEMMA InputStep == InputOK /\ [PNext]_pvars => InputOK'
<1> SUFFICES ASSUME InputOK, [PNext]_pvars PROVE InputOK'
  OBVIOUS
<1>1. CASE ReadChunk
  <2>1. PICK n \in 1 .. Len(kernel) :
            /\ stdio' = stdio \o SubSeq(kernel, 1, n)
            /\ kernel' = SubSeq(kernel, n + 1, Len(kernel))
    BY <1>1 DEF ReadChunk
  <2>2. SubSeq(kernel, 1, n) \in Seq(Symbols) /\ kernel' \in Seq(Symbols)
    BY <2>1, SubSeqProperties DEF InputOK
  <2>3. stdio' \in Seq(Symbols)
    BY <2>1, <2>2, ConcatProperties DEF InputOK
  <2>4. QED
    BY <1>1, <2>2, <2>3 DEF InputOK, ReadChunk
<1>2. CASE TakeLine
  <2>1. PICK i \in 1 .. Len(stdio) : stdio' = SubSeq(stdio, i + 1, Len(stdio))
    BY <1>2 DEF TakeLine
  <2>2. stdio' \in Seq(Symbols)
    BY <2>1, SubSeqProperties DEF InputOK
  <2>3. FirstLine(stdio) \in Lines
    BY <1>2, FirstLineIsLine DEF TakeLine, InputOK, Symbols
  <2>4. QED
    BY <1>2, <2>2, <2>3 DEF InputOK, TakeLine, Take, stdin
<1>3. CASE TakeLastLine
  <2>1. FirstLine(stdio) \in Lines
    BY <1>3, FirstLineIsLine DEF TakeLastLine, InputOK, Symbols
  <2>2. stdio' \in Seq(Symbols)
    BY <1>3 DEF TakeLastLine
  <2>3. QED
    BY <1>3, <2>1, <2>2 DEF InputOK, TakeLastLine, Take, stdin
<1>4. CASE EndOfFile \/ ReadError \/ KeyboardReadable \/ Timer \/ Other \/ Interruption \/ StartToSend
  <2>1. UNCHANGED <<input, heard>>
    BY <1>4
    DEF EndOfFile, ReadError, KeyboardReadable, Timer, Other, Interruption, StartToSend
  <2>2. QED
    BY <2>1 DEF InputOK, input
<1>5. CASE Hear
  BY <1>5, LimitsAssumption DEF Hear, InputOK, input
<1>6. ASSUME NEW line \in Lines, TypeLine(line) PROVE InputOK'
  <2>1. kernel' \in {Append(kernel, EOL), Append(kernel, line), kernel \o <<line, EOL>>}
    BY <1>6 DEF TypeLine
  <2>2. <<line, EOL>> \in Seq(Symbols) /\ line \in Symbols /\ EOL \in Symbols
    BY DEF Symbols
  <2>3. kernel' \in Seq(Symbols)
    <3>1. /\ kernel \in Seq(Symbols) /\ Append(kernel, EOL) \in Seq(Symbols)
          /\ Append(kernel, line) \in Seq(Symbols)
      BY <2>2 DEF InputOK
    <3>2. kernel \o <<line, EOL>> \in Seq(Symbols)
      BY <2>2, <3>1, ConcatProperties
    <3>3. QED
      BY <2>1, <3>1, <3>2
  <2>4. typed' \in Seq(Lines) /\ Len(typed') <= MaxTyped
    <3>1. typed' = Append(typed, line) /\ Len(typed) < MaxTyped /\ typed \in Seq(Lines)
      BY <1>6 DEF TypeLine, InputOK
    <3>2. Len(typed') = Len(typed) + 1 /\ Len(typed) \in Nat
      BY <3>1
    <3>3. QED
      BY <3>1, <3>2, LimitsAssumption
  <2>5. QED
    BY <1>6, <2>3, <2>4 DEF InputOK, TypeLine
<1>7. CASE EndLine
  BY <1>7 DEF EndLine, InputOK, Symbols
<1>8. CASE Close
  BY <1>8 DEF Close, InputOK
<1>9. CASE ProcessArgs \/ GetComm \/ GetCommFails \/ Return \/ Over \/ EarlySignal \/ UNCHANGED pvars
  <2>1. UNCHANGED <<input, heard>>
    BY <1>9 DEF ProcessArgs, GetComm, GetCommFails, Return, Over, EarlySignal, pvars, ivars
  <2>2. QED
    BY <2>1 DEF InputOK, input
<1>10. CASE Thread \/ World \/ ResponseTimeout
  BY <1>1, <1>2, <1>3, <1>4, <1>5, <1>6, <1>7, <1>8, <1>10
  DEF Thread, World, ResponseTimeout, IThread, IWorld
<1>11. QED
  BY <1>9, <1>10 DEF PNext, Main

----------------------------------------------------------------------------
(* main().                                                                 *)

\* How far main() has come, what it knows of its arguments, and its status.
StageOK ==
    /\ stage \in {"process_args", "get_comm", "fsm", "exit"}
    /\ status \in {0, 1}
    /\ stage = "process_args" => outcome \in {"parsing", "accepted"}
    /\ stage \in {"get_comm", "fsm"} => outcome = "past"
    /\ stage \in {"process_args", "get_comm"} => pc = "loop" /\ ending = "none"
    /\ stage = "exit" => (status = 0 <=> outcome = "help" \/ ending = "bye")

LEMMA StageInit == PInit => StageOK
BY DEF PInit, IInit, Init, AInit, StageOK

\* An outcome other than these four is not reached.
LEMMA OutcomeStep ==
    ASSUME ANext, outcome \in {"parsing", "accepted"}
    PROVE  outcome' \in {"parsing", "accepted", "help", "refused", "past"}
BY DEF ANext, RefuseOption, TakeOption, LookAt, OptionsEnd, Leave

LEMMA StageStep == StageOK /\ IInv /\ [PNext]_pvars => StageOK'
<1> SUFFICES ASSUME StageOK, IInv, [PNext]_pvars PROVE StageOK'
  OBVIOUS
<1> USE DEF StageOK
<1>1. CASE ProcessArgs
  <2>1. outcome' \in {"parsing", "accepted", "help", "refused", "past"}
    BY <1>1, OutcomeStep DEF ProcessArgs
  <2>2. UNCHANGED vars
    BY <1>1 DEF ProcessArgs, ivars
  <2>3. QED
    BY <1>1, <2>1, <2>2 DEF ProcessArgs, vars
<1>2. CASE GetComm \/ GetCommFails
  BY <1>2 DEF GetComm, GetCommFails, ivars, avars, vars
<1>3. CASE Return
  <2>1. pc = "exit" /\ stage = "fsm" /\ (res = 0 <=> ending = "bye") /\ res \in {0, 1}
    BY <1>3 DEF Return, IInv, TypeOK, RunsInside, Running, NullAfterBye
  <2>2. QED
    BY <1>3, <2>1 DEF Return, ivars, avars, vars
<1>4. CASE EarlySignal
  BY <1>4 DEF EarlySignal, SignalElsewhere, history, avars
<1>5. CASE Thread \/ World \/ ResponseTimeout
  <2>1. stage = "fsm" /\ UNCHANGED <<stage, status, outcome>>
    BY <1>5 DEF Thread, World, ResponseTimeout, avars
  <2>2. QED
    BY <2>1
<1>6. CASE Over \/ UNCHANGED pvars
  BY <1>6 DEF Over, pvars, ivars, avars, vars
<1>7. QED
  BY <1>1, <1>2, <1>3, <1>4, <1>5, <1>6 DEF PNext, Main

----------------------------------------------------------------------------
(* The program.                                                            *)

PInv == IInv /\ AInv /\ FieldsFit /\ InputOK /\ StageOK

LEMMA PInvTypes == PInv => PTypeOK
BY DEF PInv, IInv, AInv, FieldsFit, InputOK, StageOK, PTypeOK, ITypeOK, Symbols

LEMMA PInvInit == PInit => PInv
<1>1. PInit => Init /\ AInit
  BY DEF PInit, IInit
<1>2. QED
  BY <1>1, InitIInv, InitA, FieldsInit, InputInit, StageInit DEF PInv

LEMMA PInvStep == PInv /\ [PNext]_pvars => PInv'
<1> SUFFICES ASSUME PInv, [PNext]_pvars PROVE PInv'
  OBVIOUS
<1>1. [Next]_vars /\ [ANext]_avars
  BY ProgramIsStep
<1>2. TypeOK /\ ITypeOK /\ AwaitsServer
  BY PInvTypes DEF PTypeOK, ITypeOK, PInv, IInv
<1>3. IInv' /\ AInv'
  BY <1>1, NextIInv, StepA DEF PInv
<1>4. FieldsFit' /\ InputOK' /\ StageOK'
  BY <1>2, FieldsStep, InputStep, StageStep DEF PInv
<1>5. QED
  BY <1>3, <1>4 DEF PInv

LEMMA PInvHolds == PSpec => []PInv
BY PInvInit, PInvStep, PTL DEF PSpec

\* The variables of the program keep their types; no field of `client` outgrows
\* its array (common.h:63-71).
THEOREM ProgramTypeCorrect == PSpec => []PTypeOK
BY PInvHolds, PInvTypes, PTL

\* Over TCP what is sent passes the checks of its receiver, whatever was typed.
\* Over UDP it passes them exactly while the display name is made of letters,
\* digits, - and _: for any other name that /auth and /rename accept, the theorem
\* says that the receiver refuses the message (udp_msg.c:94).
THEOREM SentIsWellFormed == PSpec => []SentParses
<1>1. PInv => SentParses
  <2>1. SUFFICES ASSUME PInv, pc = "send"
                 PROVE  IF parameters.tcp THEN AcceptedOverTcp(sending)
                        ELSE AcceptedOverUdp(sending) <=> client.display_name.class = "alnum"
    BY DEF SentParses
  <2>2. /\ RequestWordsFit(sending)
        /\ is_valid_printable(client.display_name, MAX_NAME_SIZE)
        /\ sending \in {"MSG", "ERR"} => is_valid_msg_content(client.msg_content, MAX_MSG_SIZE)
    BY <2>1 DEF PInv, FieldsFit
  <2>3. is_valid_alphanum_underscore(client.display_name, MAX_NAME_SIZE)
          <=> client.display_name.class = "alnum"
    BY <2>2 DEF is_valid_printable, is_valid_alphanum_underscore
  <2>4. QED
    BY <2>2, <2>3 DEF AcceptedOverTcp, AcceptedOverUdp
<1>2. QED
  BY PInvHolds, <1>1, PTL

\* The exit status of the whole program (main.c:40-49).
THEOREM StatusIsTrue == PSpec => []StatusTellsAll
<1>1. PInv => StatusTellsAll
  BY DEF PInv, StageOK, StatusTellsAll
<1>2. QED
  BY PInvHolds, <1>1, PTL
----------------------------------------------------------------------------
(* Every line once, in the order typed: MsgStream.                         *)

\* What was typed and not yet taken, wherever it has come to.
Pending == stdio \o kernel

\* Does a line begin at symbol i of s?
Starts(s, i) == i = 1 \/ s[i - 1] = EOL

\* Symbol i of s belongs to the L[i]-th of the lines, `done` of which are gone:
\* the number goes up behind each EOL, and a line's first symbol tells the line.
Numbered(s, lines, done, L) ==
    /\ s = << >> => Len(lines) = done
    /\ s # << >> => L[1] = done + 1 /\ L[Len(s)] = Len(lines)
    /\ \A i \in 1 .. Len(s) - 1 : L[i + 1] = IF s[i] = EOL THEN L[i] + 1 ELSE L[i]
    /\ \A i \in 1 .. Len(s) :
         /\ s[i] # EOL => Starts(s, i)
         /\ Starts(s, i) => lines[L[i]] = IF s[i] = EOL THEN BlankLine ELSE s[i]

Holds(s, lines, done) ==
    \E L \in [1 .. Len(s) -> 1 .. Len(lines)] : Numbered(s, lines, done, L)

\* The lines typed and not parsed are exactly those in the stream.
LinesInv == Holds(Pending, typed, Len(parsed))

LEMMA EOLIsNoLine == EOL \notin Lines
  BY LinesAssumption DEF EOL, LineType, CommandWords

\* A line, with its line feed or without it, behind a stream that ends a line.
LEMMA LineTyped ==
    ASSUME NEW s \in Seq(Symbols), NEW lines \in Seq(Lines), NEW done \in Nat,
           Holds(s, lines, done), s = << >> \/ s[Len(s)] = EOL,
           NEW line \in Lines, NEW new \in Seq(Symbols),
           IF line = BlankLine THEN new = <<EOL>> ELSE new \in {<<line>>, <<line, EOL>>}
    PROVE  Holds(s \o new, Append(lines, line), done)
<1> DEFINE n == Len(s)
           k == Len(lines)
           w == Len(new)
           r == s \o new
           more == Append(lines, line)
<1>1. PICK L \in [1 .. n -> 1 .. k] : Numbered(s, lines, done, L)
  BY DEF Holds
<1>2. /\ n \in Nat /\ k \in Nat
      /\ Len(more) = k + 1 /\ more[k + 1] = line /\ \A i \in 1 .. k : more[i] = lines[i]
  BY AppendProperties, LenProperties
<1>3. /\ w \in Nat /\ (w = 1 \/ w = 2)
      /\ new[1] = (IF line = BlankLine THEN EOL ELSE line)
      /\ w = 2 => new[2] = EOL /\ new[1] # EOL
  <2>1. CASE new = <<EOL>> /\ line = BlankLine
    BY <2>1
  <2>2. CASE new = <<line>> /\ line # BlankLine
    BY <2>2
  <2>3. CASE new = <<line, EOL>> /\ line # BlankLine
    BY <2>3, EOLIsNoLine
  <2> QED
    BY <2>1, <2>2, <2>3
<1>4. /\ Len(r) = n + w
      /\ \A i \in 1 .. n : r[i] = s[i]
      /\ \A i \in n + 1 .. n + w : r[i] = new[i - n]
  BY <1>2, <1>3, ConcatProperties
<1>5. /\ r[n + 1] = new[1]
      /\ w = 2 => r[n + 2] = new[2]
  <2>1. /\ n + 1 \in n + 1 .. n + w /\ (n + 1) - n = 1
        /\ w = 2 => n + 2 \in n + 1 .. n + w /\ (n + 2) - n = 2
    BY <1>2, <1>3
  <2> QED
    BY <1>4, <2>1
<1>6. r # << >>
  BY <1>2, <1>3, <1>4, EmptySeq
<1> DEFINE M == [i \in 1 .. n + w |-> IF i <= n THEN L[i] ELSE k + 1]
<1> HIDE DEF n, w, k, r, more
<1>7. M \in [1 .. Len(r) -> 1 .. Len(more)]
  BY <1>1, <1>2, <1>3, <1>4
<1>8. /\ n = 0 => k = done
      /\ n > 0 => L[1] = done + 1 /\ L[n] = k /\ s[n] = EOL
      /\ \A i \in 1 .. n - 1 : L[i + 1] = IF s[i] = EOL THEN L[i] + 1 ELSE L[i]
      /\ \A i \in 1 .. n : L[i] \in 1 .. k
      /\ \A i \in 1 .. n :
           /\ s[i] # EOL => Starts(s, i)
           /\ Starts(s, i) => lines[L[i]] = IF s[i] = EOL THEN BlankLine ELSE s[i]
  <2>1. (s = << >> <=> n = 0) /\ (s # << >> <=> n > 0)
    BY EmptySeq, LenProperties DEF n
  <2> QED
    BY <1>1, <2>1 DEF Numbered, n, k
<1>9. M[1] = done + 1 /\ M[n + w] = k + 1
  <2>1. n + w \in 1 .. n + w /\ ~(n + w <= n) /\ 1 \in 1 .. n + w
    BY <1>2, <1>3
  <2>2. M[1] = IF 1 <= n THEN L[1] ELSE k + 1
    BY <2>1
  <2> QED
    BY <1>2, <1>8, <2>1, <2>2
<1>10. ASSUME NEW i \in 1 .. n + w - 1
       PROVE  M[i + 1] = IF r[i] = EOL THEN M[i] + 1 ELSE M[i]
  <2>1. /\ i \in 1 .. n + w /\ i + 1 \in 1 .. n + w
        /\ M[i] = (IF i <= n THEN L[i] ELSE k + 1)
        /\ M[i + 1] = (IF i + 1 <= n THEN L[i + 1] ELSE k + 1)
    BY <1>2, <1>3
  <2>2. CASE i + 1 <= n
    <3>1. i \in 1 .. n - 1 /\ i \in 1 .. n
      BY <1>2, <2>2
    <3>2. r[i] = s[i] /\ M[i] = L[i] /\ M[i + 1] = L[i + 1]
      BY <1>2, <1>4, <2>1, <2>2, <3>1
    <3> QED
      BY <1>8, <3>1, <3>2
  <2>3. CASE i = n
    BY <1>2, <1>4, <1>8, <2>1, <2>3
  <2>4. CASE i = n + 1
    <3>1. w = 2
      BY <1>2, <1>3, <2>4
    <3> QED
      BY <1>2, <1>3, <1>5, <2>1, <2>4, <3>1
  <2> QED
    BY <1>2, <1>3, <2>2, <2>3, <2>4
<1>11. ASSUME NEW i \in 1 .. n + w
       PROVE  /\ r[i] # EOL => Starts(r, i)
              /\ Starts(r, i) => more[M[i]] = IF r[i] = EOL THEN BlankLine ELSE r[i]
  <2>1. M[i] = (IF i <= n THEN L[i] ELSE k + 1)
    OBVIOUS
  <2>2. CASE i \in 1 .. n
    <3>1. r[i] = s[i] /\ (Starts(r, i) <=> Starts(s, i))
      <4>1. r[i] = s[i] /\ (i # 1 => r[i - 1] = s[i - 1])
        <5>1. i # 1 => i - 1 \in 1 .. n
          BY <1>2, <2>2
        <5> QED
          BY <1>4, <2>2, <5>1
      <4> QED
        BY <4>1 DEF Starts
    <3>2. more[M[i]] = lines[L[i]]
      BY <1>2, <1>8, <2>1, <2>2
    <3> QED
      BY <1>8, <2>2, <3>1, <3>2
  <2>3. CASE i = n + 1
    <3>1. Starts(r, i)
      BY <1>2, <1>4, <1>8, <2>3 DEF Starts
    <3>2. more[M[i]] = line
      BY <1>2, <2>1, <2>3
    <3> QED
      BY <1>3, <1>5, <2>3, <3>1, <3>2, EOLIsNoLine
  <2>4. CASE i = n + 2
    <3>1. w = 2 /\ (n + 2) - 1 = n + 1
      BY <1>2, <1>3, <2>4
    <3>2. r[i] = EOL /\ ~Starts(r, i)
      BY <1>2, <1>3, <1>5, <2>4, <3>1 DEF Starts
    <3> QED
      BY <3>2
  <2> QED
    BY <1>2, <1>3, <2>2, <2>3, <2>4
<1>12. Numbered(r, more, done, M)
  <2> HIDE DEF M
  <2>1. M[Len(r)] = Len(more)
    BY <1>2, <1>4, <1>9
  <2>2. \A i \in 1 .. Len(r) - 1 : M[i + 1] = IF r[i] = EOL THEN M[i] + 1 ELSE M[i]
    BY <1>2, <1>3, <1>4, <1>10
  <2>3. \A i \in 1 .. Len(r) :
          /\ r[i] # EOL => Starts(r, i)
          /\ Starts(r, i) => more[M[i]] = IF r[i] = EOL THEN BlankLine ELSE r[i]
    BY <1>4, <1>11
  <2> QED
    BY <1>6, <1>9, <2>1, <2>2, <2>3 DEF Numbered
<1> QED
  BY <1>7, <1>12 DEF Holds, r, more

\* The line feed of a line begun earlier.
LEMMA LineEnded ==
    ASSUME NEW s \in Seq(Symbols), NEW lines \in Seq(Lines), NEW done \in Nat,
           Holds(s, lines, done), s # << >>, s[Len(s)] # EOL
    PROVE  Holds(Append(s, EOL), lines, done)
<1> DEFINE n == Len(s)
           k == Len(lines)
           r == Append(s, EOL)
<1>1. PICK L \in [1 .. n -> 1 .. k] : Numbered(s, lines, done, L)
  BY DEF Holds
<1>2. n \in Nat /\ n > 0 /\ k \in Nat
  BY EmptySeq, LenProperties
<1>3. /\ r \in Seq(Symbols) /\ Len(r) = n + 1 /\ r[n + 1] = EOL
      /\ \A i \in 1 .. n : r[i] = s[i]
  BY AppendProperties DEF Symbols
<1>4. r # << >>
  <2> HIDE DEF r, n
  <2> QED
    BY <1>2, <1>3, EmptySeq
<1> DEFINE M == [i \in 1 .. n + 1 |-> IF i <= n THEN L[i] ELSE k]
<1>5. /\ L[1] = done + 1 /\ L[n] = k /\ s[n] # EOL
      /\ \A i \in 1 .. n - 1 : L[i + 1] = IF s[i] = EOL THEN L[i] + 1 ELSE L[i]
      /\ \A i \in 1 .. n : L[i] \in 1 .. k
      /\ \A i \in 1 .. n :
           /\ s[i] # EOL => Starts(s, i)
           /\ Starts(s, i) => lines[L[i]] = IF s[i] = EOL THEN BlankLine ELSE s[i]
  BY <1>1 DEF Numbered
<1> HIDE DEF n, k, r
<1>6. /\ \A i \in 1 .. n : M[i] = L[i]
      /\ M[n + 1] = k
  BY <1>2
<1>7. M \in [1 .. n + 1 -> 1 .. k]
  <2>1. k \in 1 .. k
    BY <1>2, <1>5
  <2> QED
    BY <1>5, <2>1
<1> HIDE DEF M
<1>8. ASSUME NEW i \in 1 .. n PROVE M[i + 1] = IF r[i] = EOL THEN M[i] + 1 ELSE M[i]
  <2>1. CASE i = n
    BY <1>2, <1>3, <1>5, <1>6, <2>1
  <2>2. CASE i # n
    <3>1. i \in 1 .. n - 1 /\ i + 1 \in 1 .. n
      BY <1>2, <2>2
    <3>2. r[i] = s[i] /\ M[i] = L[i] /\ M[i + 1] = L[i + 1]
      BY <1>3, <1>6, <3>1
    <3> QED
      BY <1>5, <3>1, <3>2
  <2> QED
    BY <2>1, <2>2
<1>9. ASSUME NEW i \in 1 .. n + 1
      PROVE  /\ r[i] # EOL => Starts(r, i)
             /\ Starts(r, i) => lines[M[i]] = IF r[i] = EOL THEN BlankLine ELSE r[i]
  <2>1. CASE i \in 1 .. n
    <3>1. r[i] = s[i] /\ M[i] = L[i] /\ (Starts(r, i) <=> Starts(s, i))
      BY <1>2, <1>3, <1>6, <2>1 DEF Starts
    <3> QED
      BY <1>5, <2>1, <3>1
  <2>2. CASE i = n + 1
    <3>1. r[i] = EOL /\ r[n] = s[n] /\ i - 1 = n /\ i # 1
      BY <1>2, <1>3, <2>2
    <3> QED
      BY <1>5, <3>1 DEF Starts
  <2> QED
    BY <1>2, <2>1, <2>2
<1>10. Numbered(r, lines, done, M)
  <2>1. M[1] = done + 1 /\ M[Len(r)] = Len(lines)
    BY <1>2, <1>3, <1>5, <1>6 DEF k
  <2>2. \A i \in 1 .. Len(r) - 1 : M[i + 1] = IF r[i] = EOL THEN M[i] + 1 ELSE M[i]
    BY <1>2, <1>3, <1>8
  <2>3. \A i \in 1 .. Len(r) :
          /\ r[i] # EOL => Starts(r, i)
          /\ Starts(r, i) => lines[M[i]] = IF r[i] = EOL THEN BlankLine ELSE r[i]
    BY <1>3, <1>9
  <2> QED
    BY <1>4, <2>1, <2>2, <2>3 DEF Numbered
<1> QED
  BY <1>3, <1>7, <1>10 DEF Holds, r, k

\* The first line feed is the first or the second symbol.
LEMMA FirstEnd ==
    ASSUME NEW s \in Seq(Symbols), NEW lines, NEW done, Holds(s, lines, done),
           NEW e \in 1 .. Len(s), \A j \in 1 .. e - 1 : s[j] # EOL
    PROVE  e \in {1, 2}
<1>1. \A i \in 1 .. Len(s) : s[i] # EOL => Starts(s, i)
  BY DEF Holds, Numbered
<1>2. SUFFICES ASSUME e > 2 PROVE FALSE
  OBVIOUS
<1>3. 2 \in 1 .. Len(s) /\ 1 \in 1 .. e - 1 /\ 2 \in 1 .. e - 1 /\ 2 - 1 = 1
  BY <1>2, LenProperties
<1> QED
  BY <1>1, <1>3 DEF Starts

\* What getline() returns is the next line, and the rest of the stream holds the
\* lines after it.  The line takes the first e symbols, the last of which is a
\* line feed unless the stream ends with them.
LEMMA LineTaken ==
    ASSUME NEW s \in Seq(Symbols), NEW lines \in Seq(Lines), NEW done \in Nat,
           Holds(s, lines, done), s # << >>,
           NEW e \in {1, 2}, e <= Len(s), e = 2 => s[1] # EOL,
           s[e] = EOL \/ e = Len(s)
    PROVE  /\ done < Len(lines)
           /\ FirstLine(s) = lines[done + 1]
           /\ Holds(SubSeq(s, e + 1, Len(s)), lines, done + 1)
<1> DEFINE n == Len(s)
           k == Len(lines)
           r == SubSeq(s, e + 1, n)
<1>1. PICK L \in [1 .. n -> 1 .. k] : Numbered(s, lines, done, L)
  BY DEF Holds
<1>2. n \in Nat /\ n > 0 /\ k \in Nat /\ e \in 1 .. n
  BY EmptySeq, LenProperties
<1>3. /\ r \in Seq(Symbols) /\ Len(r) = n - e
      /\ \A i \in 1 .. n - e : r[i] = s[i + e]
  <2>1. \A i \in e + 1 .. n : s[i] \in Symbols
    BY <1>2
  <2>2. /\ r \in Seq(Symbols)
        /\ Len(r) = IF e + 1 <= n THEN n - (e + 1) + 1 ELSE 0
        /\ \A i \in 1 .. n - (e + 1) + 1 : r[i] = s[(e + 1) + i - 1]
    BY <1>2, <2>1, SubSeqProperties
  <2>3. \A i \in 1 .. n - e : i \in 1 .. n - (e + 1) + 1 /\ (e + 1) + i - 1 = i + e
    BY <1>2
  <2>4. (IF e + 1 <= n THEN n - (e + 1) + 1 ELSE 0) = n - e
    BY <1>2
  <2> HIDE DEF r, n
  <2> QED
    BY <2>2, <2>3, <2>4
<1>4. (r = << >> <=> n - e = 0) /\ Head(s) = s[1]
  <2>1. Head(s) = s[1]
    BY HeadTailProperties
  <2>2. r = << >> <=> Len(r) = 0
    BY <1>3, EmptySeq
  <2> HIDE DEF r, n
  <2> QED
    BY <1>2, <1>3, <2>1, <2>2
<1>5. /\ L[1] = done + 1 /\ L[n] = k
      /\ \A i \in 1 .. n - 1 : L[i + 1] = IF s[i] = EOL THEN L[i] + 1 ELSE L[i]
      /\ \A i \in 1 .. n : L[i] \in 1 .. k
      /\ \A i \in 1 .. n :
           /\ s[i] # EOL => Starts(s, i)
           /\ Starts(s, i) => lines[L[i]] = IF s[i] = EOL THEN BlankLine ELSE s[i]
  BY <1>1 DEF Numbered
<1> HIDE DEF n, k, r
<1>6. done < k /\ FirstLine(s) = lines[done + 1]
  <2>1. 1 \in 1 .. n /\ Starts(s, 1)
    BY <1>2 DEF Starts
  <2> QED
    BY <1>2, <1>4, <1>5, <2>1 DEF FirstLine
<1>7. L[e] = done + 1
  BY <1>2, <1>5
<1> DEFINE M == [i \in 1 .. n - e |-> L[i + e]]
<1>8. /\ M \in [1 .. n - e -> 1 .. k]
      /\ \A i \in 1 .. n - e : M[i] = L[i + e] /\ i + e \in 1 .. n
  BY <1>2, <1>5
<1> HIDE DEF M
<1>9. n - e = 0 => k = done + 1
  BY <1>2, <1>5, <1>7
<1>10. ASSUME n - e # 0 PROVE M[1] = done + 2 /\ M[n - e] = k /\ s[e] = EOL
  <2>1. e \in 1 .. n - 1 /\ 1 \in 1 .. n - e /\ n - e \in 1 .. n - e /\ (n - e) + e = n
        /\ 1 + e = e + 1
    BY <1>2, <1>10
  <2>2. s[e] = EOL
    BY <1>2, <1>10 DEF n
  <2>3. M[1] = L[e + 1] /\ M[n - e] = L[n]
    BY <1>8, <2>1
  <2>4. L[e + 1] = L[e] + 1
    BY <1>5, <2>1, <2>2
  <2>5. L[e + 1] = done + 2
    BY <1>2, <1>7, <2>4
  <2> QED
    BY <1>5, <2>2, <2>3, <2>5
<1>11. ASSUME NEW i \in 1 .. n - e - 1
       PROVE  M[i + 1] = IF r[i] = EOL THEN M[i] + 1 ELSE M[i]
  <2>1. /\ i \in 1 .. n - e /\ i + 1 \in 1 .. n - e /\ i + e \in 1 .. n - 1
        /\ (i + 1) + e = (i + e) + 1
    BY <1>2
  <2>2. r[i] = s[i + e] /\ M[i] = L[i + e] /\ M[i + 1] = L[(i + e) + 1]
    BY <1>3, <1>8, <2>1
  <2> QED
    BY <1>5, <2>1, <2>2
<1>12. ASSUME NEW i \in 1 .. n - e
       PROVE  /\ r[i] # EOL => Starts(r, i)
              /\ Starts(r, i) => lines[M[i]] = IF r[i] = EOL THEN BlankLine ELSE r[i]
  <2>1. r[i] = s[i + e] /\ M[i] = L[i + e] /\ i + e \in 1 .. n
    BY <1>3, <1>8
  <2>2. Starts(r, i) <=> Starts(s, i + e)
    <3>1. CASE i = 1
      <4>1. s[e] = EOL /\ (i + e) - 1 = e
        BY <1>2, <1>10, <3>1
      <4> QED
        BY <3>1, <4>1 DEF Starts
    <3>2. CASE i # 1
      <4>1. i - 1 \in 1 .. n - e /\ (i + e) - 1 = (i - 1) + e /\ i + e # 1
        BY <1>2, <3>2
      <4> QED
        BY <1>3, <3>2, <4>1 DEF Starts
    <3> QED
      BY <3>1, <3>2
  <2> QED
    BY <1>5, <2>1, <2>2
<1>13. Numbered(r, lines, done + 1, M)
  <2>1. r = << >> => Len(lines) = done + 1
    BY <1>4, <1>9 DEF k
  <2>2. r # << >> => M[1] = (done + 1) + 1 /\ M[Len(r)] = Len(lines)
    BY <1>3, <1>4, <1>10 DEF k
  <2>3. \A i \in 1 .. Len(r) - 1 : M[i + 1] = IF r[i] = EOL THEN M[i] + 1 ELSE M[i]
    BY <1>2, <1>3, <1>11
  <2>4. \A i \in 1 .. Len(r) :
          /\ r[i] # EOL => Starts(r, i)
          /\ Starts(r, i) => lines[M[i]] = IF r[i] = EOL THEN BlankLine ELSE r[i]
    BY <1>3, <1>12
  <2> QED
    BY <2>1, <2>2, <2>3, <2>4 DEF Numbered
<1> QED
  BY <1>3, <1>6, <1>8, <1>13 DEF Holds, r, k, n

\* What getline() has read and not returned comes first.
LEMMA PendingIsBoth ==
    ASSUME InputOK
    PROVE  /\ Pending \in Seq(Symbols) /\ Len(Pending) = Len(stdio) + Len(kernel)
           /\ Len(stdio) \in Nat /\ Len(kernel) \in Nat
           /\ \A i \in 1 .. Len(stdio) : Pending[i] = stdio[i]
           /\ stdio # << >> => Pending # << >> /\ FirstLine(Pending) = FirstLine(stdio)
<1>1. stdio \in Seq(Symbols) /\ kernel \in Seq(Symbols)
  BY DEF InputOK
<1>2. /\ Pending \in Seq(Symbols) /\ Len(Pending) = Len(stdio) + Len(kernel)
      /\ Len(stdio) \in Nat /\ Len(kernel) \in Nat
  BY <1>1, ConcatProperties, LenProperties DEF Pending
<1>3. \A i \in 1 .. Len(stdio) : Pending[i] = stdio[i]
  BY <1>1, <1>2, ConcatProperties DEF Pending
<1>4. ASSUME stdio # << >> PROVE Pending # << >> /\ FirstLine(Pending) = FirstLine(stdio)
  <2>1. Len(stdio) > 0 /\ 1 \in 1 .. Len(stdio)
    BY <1>1, <1>2, <1>4, EmptySeq
  <2>2. Len(Pending) # 0
    BY <1>2, <2>1
  <2>3. Pending # << >>
    BY <1>2, <2>2, EmptySeq
  <2>4. Head(Pending) = Pending[1] /\ Head(stdio) = stdio[1]
    BY <1>1, <1>2, <1>4, <2>3, HeadTailProperties
  <2> QED
    BY <1>3, <2>1, <2>3, <2>4 DEF FirstLine
<1> QED
  BY <1>2, <1>3, <1>4

\* What is left of the stream when the first e symbols of stdio are gone.
LEMMA PendingAfter ==
    ASSUME InputOK, NEW e \in 1 .. Len(stdio)
    PROVE  SubSeq(stdio, e + 1, Len(stdio)) \o kernel = SubSeq(Pending, e + 1, Len(Pending))
<1> DEFINE a == SubSeq(stdio, 1, e)
           b == SubSeq(stdio, e + 1, Len(stdio))
<1>1. stdio \in Seq(Symbols) /\ kernel \in Seq(Symbols) /\ Len(stdio) \in Nat
  BY LenProperties DEF InputOK
<1>2. stdio = a \o b
  <2>1. a \o b = SubSeq(stdio, 1, Len(stdio))
    BY <1>1, ConcatAdjacentSubSeq
  <2> QED
    BY <1>1, <2>1, SubSeqFull
<1>3. a \in Seq(Symbols) /\ b \in Seq(Symbols) /\ Len(a) = e /\ Len(b) \in Nat
  BY <1>1, SubSeqProperties, LenProperties
<1> DEFINE c == b \o kernel
<1>4. Pending = a \o c /\ c \in Seq(Symbols)
  <2> HIDE DEF a, b
  <2>1. (a \o b) \o kernel = a \o (b \o kernel)
    <3>1. \A s, t, u \in Seq(Symbols) : (s \o t) \o u = s \o (t \o u)
      BY ConcatAssociative
    <3> QED
      BY <1>1, <1>3, <3>1, Zenon
  <2>2. b \o kernel \in Seq(Symbols)
    BY <1>1, <1>3, ConcatProperties
  <2> QED
    BY <1>2, <2>1, <2>2 DEF Pending
<1>5. Len(c) \in Nat /\ Len(Pending) = e + Len(c)
  BY <1>3, <1>4, ConcatProperties, LenProperties
<1> HIDE DEF a, b, c
<1>6. SubSeq(a \o c, e + 1, e + Len(c)) = SubSeq(c, 1, Len(c))
  <2>1. /\ e \in Nat /\ e + 1 \in Len(a) + 1 .. (Len(a) + Len(c)) + 1
        /\ e + Len(c) \in e + 1 .. Len(a) + Len(c) \/ Len(c) = 0
    BY <1>3, <1>5
  <2> QED
    BY <1>3, <1>4, <1>5, <2>1, SubSeqOfConcat2, SMTT(40)
<1> QED
  BY <1>4, <1>5, <1>6, SubSeqFull DEF c, b

\* Reading ahead moves symbols from the kernel to stdio and no more.
LEMMA ChunkIsPending == InputOK /\ ReadChunk => UNCHANGED <<Pending, typed, parsed>>
<1> SUFFICES ASSUME InputOK, ReadChunk PROVE UNCHANGED <<Pending, typed, parsed>>
  OBVIOUS
<1>1. PICK n \in 1 .. Len(kernel) :
         /\ stdio' = stdio \o SubSeq(kernel, 1, n)
         /\ kernel' = SubSeq(kernel, n + 1, Len(kernel))
  BY DEF ReadChunk
<1>2. stdio \in Seq(Symbols) /\ kernel \in Seq(Symbols) /\ Len(kernel) \in Nat
  BY LenProperties DEF InputOK
<1> DEFINE a == SubSeq(kernel, 1, n)
           b == SubSeq(kernel, n + 1, Len(kernel))
<1>3. a \o b = kernel
  <2>1. a \o b = SubSeq(kernel, 1, Len(kernel))
    BY <1>2, ConcatAdjacentSubSeq
  <2> QED
    BY <1>2, <2>1, SubSeqFull
<1>4. a \in Seq(Symbols) /\ b \in Seq(Symbols)
  BY <1>2, SubSeqProperties
<1> HIDE DEF a, b
<1>5. (stdio \o a) \o b = stdio \o (a \o b)
  <2>1. \A s, t, u \in Seq(Symbols) : (s \o t) \o u = s \o (t \o u)
    BY ConcatAssociative, SMTT(40)
  <2> QED
    BY <1>2, <1>4, <2>1, Zenon
<1> QED
  BY <1>1, <1>3, <1>5 DEF Pending, ReadChunk, a, b

\* What the user types comes last.
LEMMA TypingExtends ==
    ASSUME InputOK, LinesInv, NEW line \in Lines, TypeLine(line)
    PROVE  LinesInv'
<1>1. PICK new \in {<<EOL>>, <<line>>, <<line, EOL>>} :
         /\ IF line = BlankLine THEN new = <<EOL>> ELSE new \in {<<line>>, <<line, EOL>>}
         /\ kernel' = kernel \o new
  <2>1. kernel \in Seq(Symbols) /\ line \in Symbols /\ EOL \in Symbols
    BY DEF InputOK, Symbols
  <2>2. Append(kernel, EOL) = kernel \o <<EOL>> /\ Append(kernel, line) = kernel \o <<line>>
    BY <2>1, AppendIsConcat
  <2> QED
    BY <2>2 DEF TypeLine
<1>2. new \in Seq(Symbols)
  <2>1. EOL \in Symbols /\ line \in Symbols
    BY DEF Symbols
  <2>2. <<EOL>> \in Seq(Symbols) /\ <<line>> \in Seq(Symbols) /\ <<line, EOL>> \in Seq(Symbols)
    BY <2>1
  <2> QED
    BY <2>2
<1>3. stdio \in Seq(Symbols) /\ kernel \in Seq(Symbols) /\ Pending \in Seq(Symbols)
      /\ typed \in Seq(Lines) /\ Len(parsed) \in Nat
  BY PendingIsBoth, LenProperties DEF InputOK
<1>4. Pending' = Pending \o new
  <2>1. (stdio \o kernel) \o new = stdio \o (kernel \o new)
    BY <1>2, <1>3, ConcatAssociative, SMTT(40)
  <2> QED
    BY <1>1, <2>1 DEF Pending, TypeLine
<1>5. Pending = << >> \/ Pending[Len(Pending)] = EOL
  BY DEF TypeLine, Begun, Pending
<1>6. typed' = Append(typed, line) /\ parsed' = parsed
  BY DEF TypeLine
<1> HIDE DEF Pending
<1>7. Holds(Pending \o new, Append(typed, line), Len(parsed))
  BY <1>1, <1>2, <1>3, <1>5, LineTyped DEF LinesInv
<1> QED
  BY <1>4, <1>6, <1>7 DEF LinesInv

LEMMA EndingExtends == InputOK /\ LinesInv /\ EndLine => LinesInv'
<1> SUFFICES ASSUME InputOK, LinesInv, EndLine PROVE LinesInv'
  OBVIOUS
<1>1. /\ stdio \in Seq(Symbols) /\ kernel \in Seq(Symbols) /\ Pending \in Seq(Symbols)
      /\ typed \in Seq(Lines) /\ Len(parsed) \in Nat /\ EOL \in Symbols
  BY PendingIsBoth, LenProperties DEF InputOK, Symbols
<1>2. Pending' = Append(Pending, EOL)
  <2>1. kernel' = kernel \o <<EOL>> /\ <<EOL>> \in Seq(Symbols)
    BY <1>1, AppendIsConcat DEF EndLine
  <2>2. (stdio \o kernel) \o <<EOL>> = stdio \o (kernel \o <<EOL>>)
    BY <1>1, <2>1, ConcatAssociative
  <2>3. Append(Pending, EOL) = Pending \o <<EOL>>
    BY <1>1, AppendIsConcat
  <2> QED
    BY <2>1, <2>2, <2>3 DEF Pending, EndLine
<1>3. Pending # << >> /\ Pending[Len(Pending)] # EOL
  BY DEF EndLine, Begun, Pending
<1>4. typed' = typed /\ parsed' = parsed
  BY DEF EndLine
<1> QED
  BY <1>1, <1>2, <1>3, <1>4, LineEnded DEF LinesInv

\* parse_user_input() with a whole line, or with the last one.
LEMMA TakingIsNext ==
    ASSUME InputOK, LinesInv, TakeLine \/ TakeLastLine
    PROVE  LinesInv' /\ Input!Take
<1>1. /\ stdio # << >> /\ parsed' = Append(parsed, FirstLine(stdio)) /\ parsed \in Seq(Lines)
      /\ typed' = typed /\ kernel' = kernel
  BY DEF TakeLine, TakeLastLine, Take, stdin, InputOK
<1>2. /\ Pending \in Seq(Symbols) /\ Len(Pending) = Len(stdio) + Len(kernel)
      /\ Len(stdio) \in Nat /\ Len(kernel) \in Nat
      /\ \A i \in 1 .. Len(stdio) : Pending[i] = stdio[i]
      /\ Pending # << >> /\ FirstLine(Pending) = FirstLine(stdio)
  BY <1>1, PendingIsBoth
<1>3. PICK e \in 1 .. Len(stdio) :
         /\ \A j \in 1 .. e - 1 : stdio[j] # EOL
         /\ stdio[e] = EOL \/ e = Len(Pending)
         /\ stdio' = SubSeq(stdio, e + 1, Len(stdio))
  <2>1. CASE TakeLine
    BY <2>1 DEF TakeLine
  <2>2. CASE TakeLastLine
    <3>1. /\ kernel = << >> /\ stdio' = << >>
          /\ \A j \in 1 .. Len(stdio) : stdio[j] # EOL
      BY <2>2 DEF TakeLastLine, AtEnd, HasLine
    <3>2. Len(stdio) \in 1 .. Len(stdio) /\ Len(Pending) = Len(stdio)
      <4>1. stdio \in Seq(Symbols) /\ Len(kernel) = 0
        BY <3>1 DEF InputOK
      <4>2. Len(stdio) # 0
        BY <1>1, <4>1, EmptySeq
      <4> QED
        BY <1>2, <4>1, <4>2
    <3>3. SubSeq(stdio, Len(stdio) + 1, Len(stdio)) = << >>
      BY <1>2, SubSeqEmpty
    <3> QED
      BY <3>1, <3>2, <3>3
  <2> QED
    BY <2>1, <2>2
<1>4. /\ e \in 1 .. Len(Pending) /\ \A j \in 1 .. e - 1 : Pending[j] # EOL
      /\ Pending[e] = EOL \/ e = Len(Pending)
  BY <1>2, <1>3
<1>5. typed \in Seq(Lines) /\ Len(parsed) \in Nat
  BY LenProperties DEF InputOK
<1>6. e \in {1, 2} /\ e <= Len(Pending) /\ (e = 2 => Pending[1] # EOL)
  <2>1. e \in {1, 2}
    BY <1>2, <1>4, FirstEnd DEF LinesInv
  <2> QED
    BY <1>2, <1>4, <2>1
<1>7. Pending' = SubSeq(Pending, e + 1, Len(Pending))
  BY <1>1, <1>3, PendingAfter DEF Pending
<1> HIDE DEF Pending
<1>8. /\ Len(parsed) < Len(typed)
      /\ FirstLine(Pending) = typed[Len(parsed) + 1]
      /\ Holds(SubSeq(Pending, e + 1, Len(Pending)), typed, Len(parsed) + 1)
  BY <1>2, <1>4, <1>5, <1>6, LineTaken DEF LinesInv
<1>9. FirstLine(stdio) \in Lines
  BY <1>1, FirstLineIsLine DEF InputOK, Symbols
<1>10. Len(parsed') = Len(parsed) + 1
  BY <1>1, <1>9, AppendProperties
<1>11. LinesInv'
  BY <1>1, <1>7, <1>8, <1>10 DEF LinesInv
<1>12. Input!Take
  BY <1>1, <1>2, <1>8 DEF Input!Take
<1> QED
  BY <1>11, <1>12

LEMMA LinesStep ==
    ASSUME InputOK, LinesInv, [PNext]_pvars
    PROVE  LinesInv' /\ [Input!Next]_<<typed, parsed>>
<1>1. CASE UNCHANGED <<Pending, typed, parsed>>
  BY <1>1 DEF LinesInv
<1>2. CASE ReadChunk
  BY <1>1, <1>2, ChunkIsPending
<1>3. CASE TakeLine \/ TakeLastLine
  BY <1>3, TakingIsNext DEF Input!Next
<1>4. ASSUME NEW line \in Lines, TypeLine(line)
      PROVE  LinesInv' /\ [Input!Next]_<<typed, parsed>>
  <2>1. Input!Write(line)
    BY <1>4 DEF TypeLine, Input!Write
  <2> QED
    BY <1>4, <2>1, TypingExtends DEF Input!Next
<1>5. CASE EndLine
  <2>1. UNCHANGED <<typed, parsed>>
    BY <1>5 DEF EndLine
  <2> QED
    BY <1>5, <2>1, EndingExtends
<1>6. CASE Close
  BY <1>1, <1>6 DEF Close, Pending
<1>7. CASE \/ StartToSend \/ Other \/ KeyboardReadable \/ EndOfFile \/ Hear \/ Interruption
           \/ ReadError \/ Timer
  <2>1. UNCHANGED input
    BY <1>7 DEF StartToSend, Other, KeyboardReadable, EndOfFile, Hear, Interruption, ReadError,
       Timer
  <2> QED
    BY <1>1, <2>1 DEF input, Pending
<1>8. CASE ProcessArgs \/ GetComm \/ GetCommFails \/ Return \/ Over \/ EarlySignal \/ UNCHANGED pvars
  <2>1. UNCHANGED input
    BY <1>8 DEF ProcessArgs, GetComm, GetCommFails, Return, Over, EarlySignal, pvars, ivars
  <2> QED
    BY <1>1, <2>1 DEF input, Pending
<1>9. CASE Thread \/ World \/ ResponseTimeout
  BY <1>2, <1>3, <1>4, <1>5, <1>6, <1>7, <1>9
  DEF Thread, World, ResponseTimeout, IThread, IWorld
<1> QED
  BY <1>8, <1>9 DEF PNext, Main

LEMMA LinesInit == PInit => LinesInv /\ Input!Init
<1> SUFFICES ASSUME PInit PROVE LinesInv /\ Input!Init
  OBVIOUS
<1>1. /\ stdio = << >> /\ kernel = << >> /\ typed = << >> /\ parsed = << >>
  BY DEF PInit, IInit
<1>2. Pending = << >>
  BY <1>1 DEF Pending
<1> DEFINE L == [i \in 1 .. Len(Pending) |-> 1]
<1>3. L \in [1 .. Len(Pending) -> 1 .. Len(typed)] /\ Numbered(Pending, typed, Len(parsed), L)
  BY <1>1, <1>2 DEF Numbered
<1> QED
  BY <1>1, <1>3 DEF LinesInv, Holds, Input!Init

LEMMA LinesInvHolds == PSpec => []LinesInv
<1>1. PInv => InputOK
  BY DEF PInv
<1> QED
  BY <1>1, PInvHolds, LinesInit, LinesStep, PTL DEF PSpec

\* However the terminal and getline() cut the input, and whatever else the
\* program does meanwhile, the lines are parsed one by one in the order typed:
\* none twice, none left out, no two joined, also the last one without its line
\* feed and a line typed in two parts (input.c, parse_user_input()).
THEOREM LinesAreTakenInOrder == PSpec => LinesInOrder
<1>1. PInv => InputOK
  BY DEF PInv
<1> QED
  BY <1>1, PInvHolds, LinesInit, LinesStep, PTL DEF PSpec, LinesInOrder, Input!Spec

\* What was parsed is the beginning of what was typed.
ParsedInOrder == Len(parsed) <= Len(typed) /\ \A i \in 1 .. Len(parsed) : parsed[i] = typed[i]

LEMMA ParsedStep ==
    InputOK /\ ParsedInOrder /\ [Input!Next]_<<typed, parsed>> => ParsedInOrder'
<1> SUFFICES ASSUME InputOK, ParsedInOrder, [Input!Next]_<<typed, parsed>>
             PROVE  ParsedInOrder'
  OBVIOUS
<1>1. /\ typed \in Seq(Lines) /\ Len(typed) \in Nat
      /\ parsed \in Seq(Lines) /\ Len(parsed) \in Nat
  BY LenProperties DEF InputOK
<1>2. CASE Input!Take
  <2> DEFINE line == typed[Len(parsed) + 1]
  <2>1. Len(parsed) < Len(typed) /\ parsed' = Append(parsed, line) /\ typed' = typed
    BY <1>2 DEF Input!Take
  <2>2. line \in Lines
    BY <1>1, <2>1
  <2>3. /\ Len(parsed') = Len(parsed) + 1 /\ parsed'[Len(parsed) + 1] = line
        /\ \A i \in 1 .. Len(parsed) : parsed'[i] = parsed[i]
    BY <1>1, <2>1, <2>2, AppendProperties
  <2> QED
    BY <1>1, <2>1, <2>3 DEF ParsedInOrder
<1>3. ASSUME NEW line \in Lines, Input!Write(line) PROVE ParsedInOrder'
  <2>1. /\ Len(typed') = Len(typed) + 1 /\ parsed' = parsed
        /\ \A i \in 1 .. Len(typed) : typed'[i] = typed[i]
    BY <1>1, <1>3, AppendProperties DEF Input!Write
  <2> QED
    BY <1>1, <2>1 DEF ParsedInOrder
<1>4. CASE UNCHANGED <<typed, parsed>>
  BY <1>4 DEF ParsedInOrder
<1> QED
  BY <1>2, <1>3, <1>4 DEF Input!Next

\* feof(stdin) raises the interrupt flag (input.c:123) only when every line
\* typed has been parsed: the client does not leave with a command unread that
\* stdio had read ahead.
THEOREM NoLineIsLeft == PSpec => EndComesLast
<1>1. PInv => InputOK
  BY DEF PInv
<1>2. Input!Init => ParsedInOrder
  BY DEF Input!Init, ParsedInOrder
<1>3. InputOK /\ LinesInv /\ ParsedInOrder /\ EndOfFile => parsed = typed
  <2> SUFFICES ASSUME InputOK, LinesInv, ParsedInOrder, EndOfFile PROVE parsed = typed
    OBVIOUS
  <2>1. Pending = << >>
    <3>1. stdio = << >> /\ kernel = << >>
      BY DEF EndOfFile, AtEnd
    <3> QED
      BY <3>1 DEF Pending
  <2>2. Len(typed) = Len(parsed)
    BY <2>1 DEF LinesInv, Holds, Numbered
  <2>3. typed \in Seq(Lines) /\ parsed \in Seq(Lines)
    BY DEF InputOK
  <2> QED
    BY <2>2, <2>3, SeqEqual DEF ParsedInOrder
<1>4. PInit => Input!Init
  BY LinesInit
<1>5. InputOK /\ LinesInv /\ [PNext]_pvars => [Input!Next]_<<typed, parsed>>
  BY LinesStep
<1> QED
  BY <1>1, <1>2, <1>3, <1>4, <1>5, ParsedStep, LinesInvHolds, PInvHolds, PTL DEF PSpec, EndComesLast
=============================================================================
