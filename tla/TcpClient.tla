----------------------------- MODULE TcpClient -----------------------------
(***************************************************************************)
(* The client over TCP: ChatClient with the answers of comm_tcp.c, the     *)
(* reassembly buffer of buffer.c and a server at the other end of a byte   *)
(* stream.                                                                 *)
(*                                                                         *)
(* A symbol stands for a run of bytes that no property tells apart: the    *)
(* keyword and text of a message are one symbol, "CR", "LF" and "NUL" are  *)
(* those bytes, and "JUNK" is text no parser accepts.                      *)
(***************************************************************************)
EXTENDS ChatClient, Integers, Sequences

CONSTANTS
    BUFFER_SIZE,  \* common.h:41, in symbols
    Bodies,       \* what the server may write before a CR LF
    MaxWritten,   \* bound: messages the server writes
    Faults        \* may send() and select() fail?

ZERO_BYTE == 1  \* common.h

Kinds   == {"REPLY", "NREPLY", "MSG", "ERR", "BYE", "AUTH", "JOIN"}
Symbols == Kinds \cup {"CR", "LF", "NUL", "JUNK"}
CRLF    == <<"CR", "LF">>

\* Where a CR LF begins in s.
Ends(s) == {i \in 1 .. Len(s) - 1 : s[i] = "CR" /\ s[i + 1] = "LF"}

ASSUME SizeAssumption   == BUFFER_SIZE \in Nat /\ BUFFER_SIZE > 1
ASSUME BodiesAssumption == Bodies \subseteq Seq(Symbols) /\ \A b \in Bodies : Ends(b \o CRLF) = {Len(b) + 1}
ASSUME BoundAssumption  == MaxWritten \in Nat /\ Faults \in BOOLEAN

VARIABLES
    buf,         \* the msg_len bytes of msg_buffer.msg
    size,        \* msg_buffer.size
    extent,      \* how far into the block copy() has written, its NUL included
    wire,        \* what the server has written and recv() has not returned
    connection,  \* "open", "fin" after an orderly close, "reset" after a reset
    crashed,     \* the process has died of a memory fault
    written,     \* history: the messages the server has written
    taken        \* history: the messages handed to tcp_process_msg(), in order

block  == <<size, extent>>
stream == <<wire, connection, written>>
tvars  == <<vars, buf, block, stream, crashed, taken>>

Messages == {b \o CRLF : b \in Bodies}

\* Type invariant.  What buffer_append() keeps lies inside the block, and the
\* NUL that copy() puts behind it (buffer.c:54) at most one byte outside: the
\* room check of line 45 does not count that byte.
TTypeOK ==
    /\ TypeOK
    /\ buf \in Seq(Symbols) /\ Len(buf) <= size
    /\ size \in Nat
    /\ extent \in Nat /\ extent <= size + ZERO_BYTE
    /\ wire \in Seq(Symbols)
    /\ connection \in {"open", "fin", "reset"}
    /\ crashed \in BOOLEAN
    /\ written \in Seq(Messages) /\ Len(written) <= MaxWritten
    /\ taken \in Seq(Seq(Symbols))

TInit ==
    /\ Init
    /\ buf = <<>> /\ size = 0 /\ extent = 0
    /\ wire = <<>> /\ connection = "open"
    /\ crashed = FALSE
    /\ written = <<>> /\ taken = <<>>

----------------------------------------------------------------------------
(* The buffer.                                                             *)

Complete(s) == Ends(s) # {}

\* crlf() finds the first one.
MsgEnd(s) == 1 + CHOOSE i \in Ends(s) : \A j \in Ends(s) : i <= j

\* Faulty variant: what follows the message is dropped with it.
NothingLeft(s) == <<>>

\* buffer_get_msg() returns FirstMsg and leaves Rest.
FirstMsg(s) == SubSeq(s, 1, MsgEnd(s))
Rest(s)     == SubSeq(s, MsgEnd(s) + 1, Len(s))

\* copy() is strncpy(): after a NUL it writes only NULs.
Copied(s) ==
    [i \in 1 .. Len(s) |-> IF \E j \in 1 .. i : s[j] = "NUL" THEN "NUL" ELSE s[i]]

\* Faulty variant: the room check leaves out what is about to be added.
GrownLate(n) == IF Len(buf) > size THEN size + BUFFER_SIZE ELSE size

\* buffer_append() of n bytes.
Grown(n) == IF Len(buf) + n > size THEN size + BUFFER_SIZE ELSE size

\* Where its copy() ends, with the NUL.
Extent(n) == Len(buf) + n + ZERO_BYTE

\* Faulty variant: a message only clients send is not unexpected.
ParseTcpEcho(m) ==
    IF Head(m) \in Kinds /\ \A i \in 2 .. Len(m) - 2 : m[i] = "LF" /\ Head(m) # "BYE"
    THEN Head(m)
    ELSE "ERROR"

\* tcp_process_msg(): the template whose keyword fits, and its parser, which
\* takes line feeds but no other control byte in the text.  parse_bye(), which
\* has only a name to check, takes no line feed either.
ParseTcp(m) ==
    IF /\ Head(m) \in Kinds \ {"AUTH", "JOIN"}
       /\ \A i \in 2 .. Len(m) - 2 : m[i] = "LF" /\ Head(m) # "BYE"
    THEN Head(m)
    ELSE "ERROR"

----------------------------------------------------------------------------
(* The loop, await() and the state functions.                              *)

TcpProceed ==
    /\ LoopCall \/ LoopInterrupted \/ LoopExit \/ EnterSelect \/ ReactSend \/ ReactQuietly
    /\ UNCHANGED <<buf, block, stream, crashed, taken>>

\* Faulty variant: only recv() makes tcp_process_msg() run.
HasPreviousNever == FALSE

HasPrevious == Complete(buf)

\* tcp_check_previous().
TcpPreviousMessage ==
    /\ HasPrevious
    /\ AwaitFound(ParseTcp(FirstMsg(buf)))
    /\ taken' = Append(taken, FirstMsg(buf))
    /\ buf' = Rest(buf)
    /\ UNCHANGED <<block, stream, crashed>>

TcpNoPreviousMessage ==
    /\ ~HasPrevious
    /\ AwaitNothing("CONFIRM", buf # <<>>)
    /\ UNCHANGED <<buf, block, stream, crashed, taken>>

----------------------------------------------------------------------------
(* tcp_recv_msg().                                                         *)

\* recv() returns the next n bytes; all is what the buffer then holds.
Recv(n, all) ==
    /\ n \in 1 .. Len(wire) /\ n < BUFFER_SIZE
    /\ all = buf \o Copied(SubSeq(wire, 1, n))
    /\ wire' = SubSeq(wire, n + 1, Len(wire))
    /\ size' = Grown(n) /\ extent' = Extent(n)
    /\ UNCHANGED <<connection, written, crashed>>

RecvMessage(n, all) ==
    /\ Recv(n, all)
    /\ Complete(all)
    /\ SelectServer(ParseTcp(FirstMsg(all)))
    /\ taken' = Append(taken, FirstMsg(all))
    /\ buf' = Rest(all)

RecvPartial(n, all) ==
    /\ Recv(n, all)
    /\ ~Complete(all)
    /\ SelectServer("LOCAL")
    /\ buf' = all
    /\ UNCHANGED taken

\* Faulty variant: 0 bytes are taken for a part of a message.
RecvEndIgnored ==
    /\ wire = <<>> /\ connection = "fin"
    /\ SelectServer("LOCAL")
    /\ UNCHANGED <<buf, block, stream, crashed, taken>>

RecvEnd ==
    /\ wire = <<>> /\ connection = "fin"
    /\ SelectServer("ERROR")
    /\ UNCHANGED <<buf, block, stream, crashed, taken>>

\* The NUL goes past the end of the block.  It may hit nothing (then the step is
\* one of the two above) or what the allocator keeps there, or no memory at all.
RecvOverruns ==
    /\ pc = "select"
    /\ \E n \in 1 .. Len(wire) :
         /\ n < BUFFER_SIZE /\ Extent(n) > Grown(n)
         /\ size' = Grown(n) /\ extent' = Extent(n)
    /\ crashed' = TRUE
    /\ UNCHANGED <<vars, buf, stream, taken>>

\* recv() returns -1, which b_rcv > 0 lets pass for a length: buffer_append()
\* calls copy() with size 0, whose strncpy() of size - 1 bytes, converted to
\* size_t, fills memory with zeros until the process dies of it.
RecvFails ==
    /\ pc = "select"
    /\ wire = <<>> /\ connection = "reset"
    /\ crashed' = TRUE
    /\ UNCHANGED <<vars, buf, block, stream, taken>>

TcpReceive ==
    \/ \E n \in 1 .. Len(wire) :
         LET all == buf \o Copied(SubSeq(wire, 1, n)) IN RecvMessage(n, all) \/ RecvPartial(n, all)
    \/ RecvOverruns
    \/ RecvEnd
    \/ RecvFails

----------------------------------------------------------------------------
(* tcp_send_msg(), the user, the timer and SIGINT.                         *)

TcpSendOk ==
    /\ SendOk
    /\ UNCHANGED <<buf, block, stream, crashed, taken>>

\* After a reset send() fails; a signal may cut it short while it blocks.
TcpSendFails ==
    /\ \/ (Faults \/ connection = "reset") /\ SendFailed(FALSE)
       \/ Faults /\ SendFailed(TRUE)
    /\ UNCHANGED <<buf, block, stream, crashed, taken>>

TcpKeyboardReady ==
    /\ SelectKeyboard
    /\ UNCHANGED <<buf, block, stream, crashed, taken>>

TcpUserLine ==
    /\ \E t \in UserTypes, eof \in BOOLEAN : UserLine(t, eof)
    /\ UNCHANGED <<buf, block, stream, crashed, taken>>

TcpResponseTimeout ==
    /\ SelectTimeout
    /\ UNCHANGED <<buf, block, stream, crashed, taken>>

TcpSelectError ==
    /\ Faults
    /\ SelectFails
    /\ UNCHANGED <<buf, block, stream, crashed, taken>>

TcpSignal ==
    /\ SignalInSelect \/ SignalElsewhere
    /\ UNCHANGED <<buf, block, stream, crashed, taken>>

----------------------------------------------------------------------------
(* The server.                                                             *)

ServerWrites(b) ==
    /\ connection = "open"
    /\ Len(written) < MaxWritten
    /\ wire' = wire \o b \o CRLF
    /\ written' = Append(written, b \o CRLF)
    /\ UNCHANGED <<vars, buf, block, connection, crashed, taken>>

\* An orderly close, perhaps in the middle of a message.
ServerCloses ==
    /\ connection = "open"
    /\ \/ UNCHANGED wire
       \/ \E b \in Bodies : \E n \in 1 .. Len(b) + 1 : wire' = wire \o SubSeq(b \o CRLF, 1, n)
    /\ connection' = "fin"
    /\ UNCHANGED <<vars, buf, block, written, crashed, taken>>

\* What has not arrived when the connection is reset never does.
ServerResets ==
    /\ connection # "reset"
    /\ \E n \in 0 .. Len(wire) : wire' = SubSeq(wire, 1, n)
    /\ connection' = "reset"
    /\ UNCHANGED <<vars, buf, block, written, crashed, taken>>

----------------------------------------------------------------------------

\* What the thread does by itself, and send() returning.
TcpThread ==
    TcpProceed \/ TcpPreviousMessage \/ TcpNoPreviousMessage \/ TcpSendOk \/ TcpSendFails

TNext ==
    \/ ~crashed /\ (TcpThread \/ TcpReceive)
    \/ ~crashed /\ (TcpKeyboardReady \/ TcpUserLine \/ TcpResponseTimeout)
    \/ ~crashed /\ (TcpSelectError \/ TcpSignal)
    \/ \E b \in Bodies : ServerWrites(b)
    \/ ServerCloses \/ ServerResets
    \/ (crashed \/ pc = "exit") /\ UNCHANGED tvars

TSpec == TInit /\ [][TNext]_tvars

\* The thread is scheduled and send() returns.  A terminal in its usual mode
\* makes whole lines readable, so getline() returns once called.  await() looks
\* at the socket before the keyboard, so a readable socket is served in the end.
TFairSpec ==
    /\ TSpec
    /\ WF_tvars(~crashed /\ TcpThread)
    /\ WF_tvars(~crashed /\ TcpUserLine)
    /\ SF_tvars(~crashed /\ TcpReceive)

----------------------------------------------------------------------------
(* Properties.                                                             *)

\* await() blocks only when the buffer holds no complete message, however many
\* of them arrived in one segment (prompt.c:48).
NothingCompleteLeft == pc \in {"poll", "select"} => ~Complete(buf)

\* Segmentation does not show: README.md:75.
Stream == INSTANCE MsgStream
ImplementsMsgStream == Stream!Spec

\* recv() returns 0 and the client gives up (comm_tcp.c:119) only when every
\* message that the server finished has been processed.
HangUpComesLast == [][RecvEnd => taken = written]_tvars

\* The state machine sees over TCP what ChatClient says a backend may answer.
ImplementsChatClient == Spec

\* A message that got through is processed before the client waits for ever,
\* unless the process dies in buffer_append().
EverythingTaken ==
    \A n \in 1 .. MaxWritten :
        Len(written) >= n ~> (Len(taken) >= n \/ pc = "exit" \/ connection = "reset" \/ crashed)

\* The client does not outlive its connection.
HangUpIsNoticed == connection # "open" ~> (pc = "exit" \/ crashed)

\* tcp_recv_msg() returns, with ERROR on failure (comm_tcp.c:100).
RecvReturns == ~crashed
=============================================================================
