------------------------------ MODULE Terminal ------------------------------
(***************************************************************************)
(* ChatClient with its standard input: input.c, the fields of `client`     *)
(* that it and the state functions write, and the messages that            *)
(* tcp_build_msg() and udp_build_msg() make of them.                       *)
(*                                                                         *)
(* A string is what the checks of common.c see of it: its length, and      *)
(* whether it is made of letters, digits, - and _ ("alnum"), of other      *)
(* printable characters too ("printable"), also of spaces and line feeds   *)
(* ("text"), or of anything ("other").  Standard input is a sequence of    *)
(* symbols: EOL is a line feed, and a line is all the text before it,      *)
(* which may have been typed some time before the line feed.               *)
(***************************************************************************)
EXTENDS ChatClient, Integers, Sequences

CONSTANTS
    Lines,      \* what the user types
    MaxTyped,   \* bound: lines typed
    MaxHeard    \* bound: messages from the server

VARIABLES
    client,  \* the fields of `client` that hold strings
    kernel,  \* standard input: what was typed and not read
    stdio,   \* what getline() has read and not returned
    closed,  \* standard input is at its end
    heard,   \* how many messages the server has sent
    typed,   \* history: the lines typed
    parsed   \* history: the lines parse_user_input() has taken

stdin == <<kernel, closed, typed>>
input == <<kernel, stdio, closed, typed, parsed>>
ivars == <<vars, client, input, heard>>

MAX_NAME_SIZE   == 20
MAX_SECRET_SIZE == 128
MAX_MSG_SIZE    == 60000
BUFFER_SIZE     == 65535

Classes  == {"alnum", "printable", "text", "other"}
Strings  == [class : Classes, len : Nat]
Words    == [class : Classes \ {"text"}, len : Nat \ {0}]
Empty    == [class |-> "alnum", len |-> 0]
CommandWords == {"/auth", "/join", "/rename", "/help", "/other", "none"}

\* A line: its first word if that begins with a slash, the words after it, and
\* the line as a whole.
LineType  == [cmd : CommandWords, args : Seq(Words), text : Strings]
BlankLine == [cmd |-> "none", args |-> <<>>, text |-> Empty]
EOL       == [cmd |-> "EOL", args |-> <<>>, text |-> Empty]

ASSUME LinesAssumption == Lines \subseteq LineType /\ BlankLine \in Lines
ASSUME LimitsAssumption == MaxTyped \in Nat /\ MaxHeard \in Nat

\* client_t: what fits in an array for `max` characters.
Field(max) == {s \in Strings : s.len <= max}
ClientType ==
    [username : Field(MAX_NAME_SIZE), secret : Field(MAX_SECRET_SIZE),
     display_name : Field(MAX_NAME_SIZE), channel_ID : Field(MAX_NAME_SIZE),
     msg_content : Field(MAX_MSG_SIZE)]

ITypeOK ==
    /\ TypeOK
    /\ client \in ClientType
    /\ kernel \in Seq(Lines \cup {EOL}) /\ stdio \in Seq(Lines \cup {EOL})
    /\ closed \in BOOLEAN
    /\ heard \in 0 .. MaxHeard
    /\ typed \in Seq(Lines) /\ Len(typed) <= MaxTyped
    /\ parsed \in Seq(Lines)

\* fsm() names the user before its loop starts.
IInit ==
    /\ Init
    /\ client = [username |-> Empty, secret |-> Empty,
                 display_name |-> [class |-> "alnum", len |-> 7],
                 channel_ID |-> Empty, msg_content |-> Empty]
    /\ kernel = <<>> /\ stdio = <<>> /\ closed = FALSE
    /\ heard = 0
    /\ typed = <<>> /\ parsed = <<>>

----------------------------------------------------------------------------
(* common.c.                                                               *)

is_valid_alphanum_underscore(s, max) == s.class = "alnum" /\ s.len >= 1 /\ s.len <= max

is_valid_printable(s, max) ==
    s.class \in {"alnum", "printable"} /\ s.len >= 1 /\ s.len <= max

is_valid_msg_content(s, max) == s.class # "other" /\ s.len >= 1 /\ s.len <= max

\* Faulty variant: the whole string, whatever the size of the array.
CopyAll(s, max) == s

\* copy() into an array for `max` characters.
Copy(s, max) == [s EXCEPT !.len = IF s.len > max THEN max ELSE s.len]

----------------------------------------------------------------------------
(* parse_user_input(): what it returns and what it leaves in `client`.     *)

Result(type, c) == [type |-> type, client |-> c]
Invalid == Result("LOCAL", client)

ParseAuth(args) ==
    IF /\ Len(args) = 3
       /\ is_valid_alphanum_underscore(args[1], MAX_NAME_SIZE)
       /\ is_valid_alphanum_underscore(args[2], MAX_SECRET_SIZE)
       /\ is_valid_printable(args[3], 20)
    THEN Result("AUTH", [client EXCEPT !.username = Copy(args[1], MAX_NAME_SIZE),
                                       !.secret = Copy(args[2], MAX_SECRET_SIZE),
                                       !.display_name = Copy(args[3], MAX_NAME_SIZE)])
    ELSE Invalid

ParseJoin(args) ==
    IF Len(args) = 1 /\ is_valid_alphanum_underscore(args[1], MAX_NAME_SIZE)
    THEN Result("JOIN", [client EXCEPT !.channel_ID = Copy(args[1], MAX_NAME_SIZE)])
    ELSE Invalid

ParseRename(args) ==
    IF Len(args) = 1 /\ is_valid_printable(args[1], MAX_NAME_SIZE)
    THEN Result("LOCAL", [client EXCEPT !.display_name = Copy(args[1], MAX_NAME_SIZE)])
    ELSE Invalid

\* A message may fill the buffer; what is too long for the protocol is cut off.
ParseMessage(text) ==
    IF is_valid_msg_content(text, BUFFER_SIZE)
    THEN Result("MSG", [client EXCEPT !.msg_content = Copy(text, MAX_MSG_SIZE)])
    ELSE Invalid

\* parse_help() and an unknown command change nothing.
Parsed(line) ==
    CASE line.cmd = "/auth"   -> ParseAuth(line.args)
      [] line.cmd = "/join"   -> ParseJoin(line.args)
      [] line.cmd = "/rename" -> ParseRename(line.args)
      [] line.cmd = "none"    -> ParseMessage(line.text)
      [] OTHER                -> Invalid

----------------------------------------------------------------------------
(* getline().                                                              *)

HasLine(s)   == \E i \in 1 .. Len(s) : s[i] = EOL
FirstLine(s) == IF Head(s) = EOL THEN BlankLine ELSE Head(s)

\* It reads as much as there is, which may be more than a line, or a part of one.
ReadChunk ==
    /\ pc = "input"
    /\ ~HasLine(stdio)
    /\ \E n \in 1 .. Len(kernel) :
         /\ stdio' = stdio \o SubSeq(kernel, 1, n)
         /\ kernel' = SubSeq(kernel, n + 1, Len(kernel))
    /\ UNCHANGED <<vars, client, closed, heard, typed, parsed>>

\* parse_user_input() with a line.
Take(line) ==
    /\ UserLine(Parsed(line).type, FALSE)
    /\ client' = Parsed(line).client
    /\ parsed' = Append(parsed, line)
    /\ UNCHANGED <<stdin, heard>>

\* Faulty variant: what was read beyond the line is lost with its buffer.
TakeLineOnly ==
    /\ HasLine(stdio)
    /\ Take(FirstLine(stdio))
    /\ stdio' = <<>>

TakeLine ==
    /\ stdio # <<>>
    /\ Take(FirstLine(stdio))
    /\ \E i \in 1 .. Len(stdio) :
         /\ stdio[i] = EOL /\ \A j \in 1 .. i - 1 : stdio[j] # EOL
         /\ stdio' = SubSeq(stdio, i + 1, Len(stdio))

AtEnd == closed /\ kernel = <<>>

\* The last line may lack its line feed.
TakeLastLine ==
    /\ AtEnd /\ ~HasLine(stdio) /\ stdio # <<>>
    /\ Take(FirstLine(stdio))
    /\ stdio' = <<>>

\* Faulty variant: the end of the input is taken for a line of no interest.
EndOfFileIgnored ==
    /\ AtEnd /\ stdio = <<>>
    /\ UserLine("LOCAL", FALSE)
    /\ UNCHANGED <<client, input, heard>>

EndOfFile ==
    /\ AtEnd /\ stdio = <<>>
    /\ UserLine("LOCAL", TRUE)
    /\ UNCHANGED <<client, input, heard>>

ReadError ==
    /\ ~HasLine(stdio)
    /\ UserLine("ERROR", FALSE)
    /\ UNCHANGED <<client, input, heard>>

----------------------------------------------------------------------------
(* The rest of the client, with what it writes into `client`.              *)

\* select() reports standard input when there is something in it or it is at
\* its end.  It knows nothing of what getline() has read ahead.
KeyboardReadable ==
    /\ kernel # <<>> \/ closed
    /\ SelectKeyboard
    /\ UNCHANGED <<client, input, heard>>

\* The text of an ERR, "Invalid message received" or "Server is not responding".
ErrText == [class |-> "text", len |-> 24]

\* Faulty variant: the ERR goes out with the last message's text.
ErrorTextKept(c) == c

ErrorText(c) ==
    IF Outgoing(state, prompt) = "ERR" THEN [c EXCEPT !.msg_content = ErrText] ELSE c

StartToSend ==
    /\ ReactSend
    /\ client' = ErrorText(client)
    /\ UNCHANGED <<input, heard>>

Other ==
    /\ \/ LoopCall \/ LoopInterrupted \/ LoopExit
       \/ \E t \in {"CONFIRM", "PING"}, partial \in BOOLEAN : AwaitNothing(t, partial)
       \/ EnterSelect \/ ReactQuietly
       \/ SendOk \/ SendFailed(FALSE)
    /\ UNCHANGED <<client, input, heard>>

Hear ==
    /\ heard < MaxHeard
    /\ heard' = heard + 1
    /\ \E t \in RecvTypes : AwaitFound(t) \/ SelectServer(t)
    /\ UNCHANGED <<client, input>>

Timer ==
    /\ SelectTimeout
    /\ UNCHANGED <<client, input, heard>>

Interruption ==
    /\ SelectFails \/ SignalInSelect \/ SignalElsewhere \/ SendFailed(TRUE)
    /\ UNCHANGED <<client, input, heard>>

----------------------------------------------------------------------------
(* The user.                                                               *)

\* A line has been begun and not ended.
Begun == LET s == stdio \o kernel IN s # <<>> /\ s[Len(s)] # EOL

\* The user, or the program at the other end of a pipe, writes a line or the
\* beginning of one.
TypeLine(line) ==
    /\ ~closed /\ ~Begun
    /\ Len(typed) < MaxTyped
    /\ typed' = Append(typed, line)
    /\ IF line = BlankLine
       THEN kernel' = Append(kernel, EOL)
       ELSE kernel' \in {Append(kernel, line), kernel \o <<line, EOL>>}
    /\ UNCHANGED <<vars, client, stdio, closed, heard, parsed>>

EndLine ==
    /\ ~closed /\ Begun
    /\ kernel' = Append(kernel, EOL)
    /\ UNCHANGED <<vars, client, stdio, closed, heard, typed, parsed>>

Close ==
    /\ ~closed
    /\ closed' = TRUE
    /\ UNCHANGED <<vars, client, kernel, stdio, heard, typed, parsed>>

----------------------------------------------------------------------------

IThread ==
    StartToSend \/ Other \/ KeyboardReadable \/ ReadChunk \/ TakeLine \/ TakeLastLine \/ EndOfFile

IWorld ==
    \/ Hear \/ Interruption \/ ReadError
    \/ (\E line \in Lines : TypeLine(line)) \/ EndLine \/ Close

----------------------------------------------------------------------------
(* Properties.                                                             *)

\* However the input is cut into reads, by getline() reading ahead or by a line
\* that comes in two parts, each line is parsed once and in the order typed.
Input == INSTANCE MsgStream WITH Messages <- Lines, written <- typed, taken <- parsed
LinesInOrder == Input!Spec

\* What the two parser tables accept of a MSG, an ERR and a BYE; the words of an
\* AUTH and of a JOIN, which only a server parses, keep to their own limits.
RequestWordsFit(m) ==
    /\ m = "AUTH" => /\ is_valid_alphanum_underscore(client.username, MAX_NAME_SIZE)
                     /\ is_valid_alphanum_underscore(client.secret, MAX_SECRET_SIZE)
    /\ m = "JOIN" => is_valid_alphanum_underscore(client.channel_ID, MAX_NAME_SIZE)

AcceptedOverTcp(m) ==
    /\ RequestWordsFit(m)
    /\ is_valid_printable(client.display_name, MAX_NAME_SIZE)
    /\ m \in {"MSG", "ERR"} => is_valid_msg_content(client.msg_content, MAX_MSG_SIZE)

AcceptedOverUdp(m) ==
    /\ RequestWordsFit(m)
    /\ is_valid_alphanum_underscore(client.display_name, MAX_NAME_SIZE)
    /\ m \in {"MSG", "ERR"} => is_valid_msg_content(client.msg_content, MAX_MSG_SIZE)
=============================================================================
