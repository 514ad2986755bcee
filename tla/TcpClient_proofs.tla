-------------------------- MODULE TcpClient_proofs --------------------------
(***************************************************************************)
(* What holds of the client over TCP for every buffer size, every set of   *)
(* messages and every way of cutting the stream.  The last part shows that *)
(* the way of cutting does not matter: TcpClient implements MsgStream.     *)
(***************************************************************************)
EXTENDS TcpClient, ChatClient_proofs, SequenceTheorems, WellFoundedInduction

(***************************************************************************)
(* TcpClient implements ChatClient.                                        *)
(***************************************************************************)

LEMMA ParseTcpType == \A m : ParseTcp(m) \in RecvTypes \ {"PING", "LOCAL"}
  BY DEF ParseTcp, RecvTypes, Kinds

LEMMA TcpReceiveIsStep == TcpReceive => [Next]_vars
<1>1. ASSUME NEW n, NEW all, RecvMessage(n, all) PROVE [Next]_vars
  BY <1>1, ParseTcpType DEF RecvMessage, Next, Environment
<1>2. ASSUME NEW n, NEW all, RecvPartial(n, all) PROVE [Next]_vars
  BY <1>2 DEF RecvPartial, Next, Environment, RecvTypes
<1>3. CASE RecvEnd
  BY <1>3 DEF RecvEnd, Next, Environment, RecvTypes
<1>4. CASE RecvOverruns \/ RecvFails
  BY <1>4 DEF RecvOverruns, RecvFails
<1> QED
  BY <1>1, <1>2, <1>3, <1>4 DEF TcpReceive

LEMMA TcpThreadIsStep == TcpThread => [Next]_vars
<1>1. CASE TcpProceed
  BY <1>1 DEF TcpProceed, Next, ClientStep
<1>2. CASE TcpPreviousMessage
  BY <1>2, ParseTcpType DEF TcpPreviousMessage, Next, ClientStep
<1>3. CASE TcpNoPreviousMessage
  BY <1>3 DEF TcpNoPreviousMessage, Next, ClientStep
<1>4. CASE TcpSendOk \/ TcpSendFails
  BY <1>4 DEF TcpSendOk, TcpSendFails, Next, ClientStep, Environment
<1> QED
  BY <1>1, <1>2, <1>3, <1>4 DEF TcpThread

LEMMA TcpStepIsStep == [TNext]_tvars => [Next]_vars
<1> SUFFICES ASSUME [TNext]_tvars PROVE [Next]_vars
  OBVIOUS
<1>1. CASE TcpThread \/ TcpReceive
  BY <1>1, TcpThreadIsStep, TcpReceiveIsStep
<1>2. CASE TcpKeyboardReady \/ TcpUserLine
  BY <1>2 DEF TcpKeyboardReady, TcpUserLine, Next, Environment
<1>3. CASE TcpResponseTimeout \/ TcpSelectError \/ TcpSignal
  BY <1>3 DEF TcpResponseTimeout, TcpSelectError, TcpSignal, Next, Environment
<1>4. CASE (\E b \in Bodies : ServerWrites(b)) \/ ServerCloses \/ ServerResets
  BY <1>4 DEF ServerWrites, ServerCloses, ServerResets
<1>5. CASE UNCHANGED tvars
  BY <1>5 DEF tvars
<1> QED
  BY <1>1, <1>2, <1>3, <1>4, <1>5 DEF TNext

\* However the stream is cut and wherever it ends, the client over TCP is a
\* ChatClient, and so has the properties proved of it.
THEOREM TcpImplementsChatClient == TSpec => ImplementsChatClient
<1>1. TInit => Init
  BY DEF TInit
<1> QED
  BY <1>1, TcpStepIsStep, PTL DEF TSpec, Spec, ImplementsChatClient

COROLLARY TcpKeepsIInv == TSpec => []IInv
  BY TcpImplementsChatClient, Inductive, PTL DEF ImplementsChatClient

----------------------------------------------------------------------------
(* The buffer.                                                             *)

\* A non-empty set of naturals has a smallest element.
LEMMA SmallestOf ==
    ASSUME NEW T \in SUBSET Nat, T # {}
    PROVE  \E i \in T : \A j \in T : i <= j
<1> DEFINE Less == {ss \in Nat \X Nat : ss[1] < ss[2]}
<1>1. IsWellFoundedOn(Less, Nat)
  BY NatLessThanWellFounded DEF OpToRel
<1> HIDE DEF Less
<1>2. PICK i \in T : \A j \in T : ~ (<<j, i>> \in Less)
  BY <1>1, WFMin
<1>3. ASSUME NEW a \in Nat, NEW b \in Nat, a < b PROVE <<a, b>> \in Less
  BY <1>3 DEF Less
<1>4. ASSUME NEW j \in T PROVE i <= j
  <2>1. ~(j < i)
    BY <1>2, <1>3
  <2> QED
    BY <2>1
<1> QED
  BY <1>4

\* A complete message has an end, and it lies inside the buffer.
LEMMA MsgEndInside ==
    ASSUME NEW s \in Seq(Symbols), Complete(s)
    PROVE  MsgEnd(s) \in 2 .. Len(s)
<1> DEFINE First == CHOOSE i \in Ends(s) : \A j \in Ends(s) : i <= j
<1>1. Ends(s) \in SUBSET Nat /\ Ends(s) \subseteq 1 .. Len(s) - 1 /\ Ends(s) # {}
  BY DEF Ends, Complete
<1>2. First \in Ends(s)
  BY <1>1, SmallestOf
<1> HIDE DEF First
<1>3. First \in 1 .. Len(s) - 1 /\ Len(s) \in Nat
  BY <1>1, <1>2
<1>4. 1 + First \in 2 .. Len(s)
  BY <1>3
<1> QED
  BY <1>4 DEF First, MsgEnd

\* Taking a message out leaves less than there was.
LEMMA ExtractTypes ==
    ASSUME NEW s \in Seq(Symbols), Complete(s)
    PROVE  /\ FirstMsg(s) \in Seq(Symbols)
           /\ Rest(s) \in Seq(Symbols)
           /\ Len(Rest(s)) <= Len(s)
<1>1. MsgEnd(s) \in 2 .. Len(s) /\ Len(s) \in Nat
  BY MsgEndInside
<1>2. FirstMsg(s) \in Seq(Symbols)
  BY <1>1, SubSeqProperties DEF FirstMsg
<1>3. Rest(s) \in Seq(Symbols) /\ Len(Rest(s)) <= Len(s)
  BY <1>1, SubSeqProperties DEF Rest
<1> QED
  BY <1>2, <1>3

\* buffer_append() makes room for the data, and for the NUL but in one case: when
\* they fill the block it has to the last byte.
LEMMA RoomMade ==
    ASSUME TTypeOK, NEW n \in Nat, n < BUFFER_SIZE
    PROVE  /\ Grown(n) \in Nat /\ Extent(n) \in Nat
           /\ Len(buf) + n <= Grown(n)
           /\ Extent(n) <= Grown(n) + ZERO_BYTE
           /\ Extent(n) > Grown(n) <=> Len(buf) + n = size
<1>1. size \in Nat /\ Len(buf) \in Nat /\ Len(buf) <= size
  BY LenProperties DEF TTypeOK
<1> QED
  BY <1>1, SizeAssumption DEF Grown, Extent, ZERO_BYTE

\* What recv() returned fits into what buffer_append() allocates.
LEMMA AppendTypes ==
    ASSUME TTypeOK, NEW n, NEW all, Recv(n, all)
    PROVE  /\ all \in Seq(Symbols)
           /\ size' \in Nat /\ Len(all) <= size'
           /\ extent' \in Nat /\ extent' <= size' + ZERO_BYTE
           /\ wire' \in Seq(Symbols)
<1> DEFINE got == SubSeq(wire, 1, n)
<1>1. n \in 1 .. Len(wire) /\ n < BUFFER_SIZE /\ wire \in Seq(Symbols) /\ Len(wire) \in Nat
  BY DEF TTypeOK, Recv
<1>2. got \in Seq(Symbols) /\ Len(got) = n
  BY <1>1, SubSeqProperties
<1> HIDE DEF got
<1>3. Copied(got) \in Seq(Symbols) /\ Len(Copied(got)) = n
  BY <1>1, <1>2 DEF Copied, Symbols
<1>4. all = buf \o Copied(got)
  BY DEF Recv, got
<1>5. all \in Seq(Symbols) /\ Len(all) = Len(buf) + n
  BY <1>3, <1>4, ConcatProperties DEF TTypeOK
<1>6. /\ size' \in Nat /\ Len(all) <= size'
      /\ extent' \in Nat /\ extent' <= size' + ZERO_BYTE
  <2>1. size' = Grown(n) /\ extent' = Extent(n)
    BY DEF Recv
  <2>2. n \in Nat /\ n < BUFFER_SIZE
    BY <1>1
  <2> QED
    BY <1>5, <2>1, <2>2, RoomMade
<1>7. wire' \in Seq(Symbols)
  BY <1>1, SubSeqProperties DEF Recv
<1> QED
  BY <1>5, <1>6, <1>7

TcpInv == TTypeOK /\ NothingCompleteLeft

LEMMA TcpReceiveKeeps ==
    ASSUME TcpInv, TypeOK', TcpReceive
    PROVE  TcpInv'
<1> USE DEF TcpInv
<1>1. ASSUME NEW n, NEW all, RecvMessage(n, all) PROVE TcpInv'
  <2>1. /\ all \in Seq(Symbols) /\ size' \in Nat /\ Len(all) <= size' /\ wire' \in Seq(Symbols)
        /\ extent' \in Nat /\ extent' <= size' + ZERO_BYTE
    BY <1>1, AppendTypes DEF RecvMessage
  <2>2. /\ FirstMsg(all) \in Seq(Symbols) /\ Rest(all) \in Seq(Symbols)
        /\ Len(Rest(all)) <= Len(all) /\ Len(all) \in Nat /\ Len(Rest(all)) \in Nat
    BY <1>1, <2>1, ExtractTypes DEF RecvMessage
  <2>3. TTypeOK'
    BY <1>1, <2>1, <2>2 DEF RecvMessage, Recv, TTypeOK
  <2>4. pc' = "react"
    BY <1>1, ParseTcpType DEF RecvMessage, SelectServer
  <2> QED
    BY <2>3, <2>4 DEF NothingCompleteLeft
<1>2. ASSUME NEW n, NEW all, RecvPartial(n, all) PROVE TcpInv'
  <2>1. /\ all \in Seq(Symbols) /\ size' \in Nat /\ Len(all) <= size' /\ wire' \in Seq(Symbols)
        /\ extent' \in Nat /\ extent' <= size' + ZERO_BYTE
    BY <1>2, AppendTypes DEF RecvPartial
  <2>2. TTypeOK'
    BY <1>2, <2>1 DEF RecvPartial, Recv, TTypeOK
  <2>3. pc' = "react"
    BY <1>2 DEF RecvPartial, SelectServer
  <2> QED
    BY <2>2, <2>3 DEF NothingCompleteLeft
<1>3. CASE RecvEnd
  BY <1>3 DEF RecvEnd, SelectServer, TTypeOK, NothingCompleteLeft, block, stream
<1>4. CASE RecvFails
  BY <1>4 DEF RecvFails, TTypeOK, NothingCompleteLeft, block, stream, vars
<1>5. CASE RecvOverruns
  <2>1. PICK n \in 1 .. Len(wire) :
               n < BUFFER_SIZE /\ size' = Grown(n) /\ extent' = Extent(n)
    BY <1>5 DEF RecvOverruns
  <2>2. n \in Nat /\ Len(buf) \in Nat
    BY LenProperties DEF TTypeOK
  <2>3. /\ size' \in Nat /\ Len(buf) <= size'
        /\ extent' \in Nat /\ extent' <= size' + ZERO_BYTE
    <3>1. /\ Grown(n) \in Nat /\ Extent(n) \in Nat
          /\ Len(buf) + n <= Grown(n) /\ Extent(n) <= Grown(n) + ZERO_BYTE
      BY <2>1, <2>2, RoomMade
    <3> QED
      BY <2>1, <2>2, <3>1
  <2> QED
    BY <1>5, <2>3 DEF RecvOverruns, TTypeOK, NothingCompleteLeft, stream, vars
<1> QED
  BY <1>1, <1>2, <1>3, <1>4, <1>5 DEF TcpReceive

LEMMA TcpThreadKeeps ==
    ASSUME TcpInv, TypeOK', TcpThread
    PROVE  TcpInv'
<1> USE DEF TcpInv
<1>1. CASE TcpProceed
  <2>1. TTypeOK'
    BY <1>1 DEF TcpProceed, TTypeOK, block, stream
  <2>2. pc' \in {"poll", "select"} => pc = "poll"
    BY <1>1 DEF TcpProceed, LoopCall, LoopInterrupted, LoopExit, EnterSelect, ReactSend, ReactQuietly
  <2> QED
    BY <1>1, <2>1, <2>2 DEF TcpProceed, NothingCompleteLeft
<1>2. CASE TcpPreviousMessage
  <2>1. /\ FirstMsg(buf) \in Seq(Symbols) /\ Rest(buf) \in Seq(Symbols)
        /\ Len(Rest(buf)) <= Len(buf) /\ Len(buf) \in Nat /\ Len(Rest(buf)) \in Nat
    BY <1>2, ExtractTypes DEF TcpPreviousMessage, HasPrevious, TTypeOK
  <2>2. TTypeOK'
    BY <1>2, <2>1 DEF TcpPreviousMessage, TTypeOK, block, stream
  <2>3. pc' = "react"
    BY <1>2 DEF TcpPreviousMessage, AwaitFound
  <2> QED
    BY <2>2, <2>3 DEF NothingCompleteLeft
<1>3. CASE TcpNoPreviousMessage
  BY <1>3 DEF TcpNoPreviousMessage, HasPrevious, TTypeOK, NothingCompleteLeft, block, stream
<1>4. CASE TcpSendOk \/ TcpSendFails
  BY <1>4 DEF TcpSendOk, TcpSendFails, SendOk, SendFailed, TTypeOK, NothingCompleteLeft, block, stream
<1> QED
  BY <1>1, <1>2, <1>3, <1>4 DEF TcpThread

LEMMA ServerKeeps ==
    ASSUME TcpInv, TypeOK',
           (\E b \in Bodies : ServerWrites(b)) \/ ServerCloses \/ ServerResets
    PROVE  TcpInv'
<1> USE DEF TcpInv
<1>0. CRLF \in Seq(Symbols) /\ wire \in Seq(Symbols) /\ Bodies \subseteq Seq(Symbols)
  BY BodiesAssumption DEF CRLF, Symbols, TTypeOK
<1>1. ASSUME NEW b \in Bodies, ServerWrites(b) PROVE TcpInv'
  <2>1. b \o CRLF \in Messages /\ wire' \in Seq(Symbols)
    BY <1>0, <1>1, ConcatProperties DEF ServerWrites, Messages
  <2>2. written' \in Seq(Messages) /\ Len(written') <= MaxWritten
    BY <1>1, <2>1, BoundAssumption DEF ServerWrites, TTypeOK
  <2> QED
    BY <1>1, <2>1, <2>2 DEF ServerWrites, TTypeOK, NothingCompleteLeft, block, vars
<1>2. CASE ServerCloses
  <2>1. wire' \in Seq(Symbols)
    <3>1. ASSUME NEW b \in Bodies, NEW n \in 1 .. Len(b) + 1, wire' = wire \o SubSeq(b \o CRLF, 1, n)
          PROVE  wire' \in Seq(Symbols)
      <4>1. b \o CRLF \in Seq(Symbols) /\ Len(b \o CRLF) = Len(b) + 2
        BY <1>0, ConcatProperties DEF CRLF
      <4>2. SubSeq(b \o CRLF, 1, n) \in Seq(Symbols)
        BY <1>0, <4>1, SubSeqProperties
      <4> QED
        BY <1>0, <3>1, <4>2, ConcatProperties
    <3> QED
      BY <1>0, <1>2, <3>1 DEF ServerCloses
  <2> QED
    BY <1>2, <2>1 DEF ServerCloses, TTypeOK, NothingCompleteLeft, block, vars
<1>3. CASE ServerResets
  <2>1. wire' \in Seq(Symbols)
    BY <1>0, <1>3, SubSeqProperties DEF ServerResets
  <2> QED
    BY <1>3, <2>1 DEF ServerResets, TTypeOK, NothingCompleteLeft, block, vars
<1> QED
  BY <1>1, <1>2, <1>3

LEMMA TcpStepKeeps == TcpInv /\ TypeOK' /\ [TNext]_tvars => TcpInv'
<1> SUFFICES ASSUME TcpInv, TypeOK', [TNext]_tvars PROVE TcpInv'
  OBVIOUS
<1>1. CASE TcpThread \/ TcpReceive
  BY <1>1, TcpThreadKeeps, TcpReceiveKeeps
<1>2. CASE \/ TcpKeyboardReady \/ TcpUserLine \/ TcpResponseTimeout \/ TcpSelectError
           \/ TcpSignal
  <2>1. pc' \in {"poll", "select"} => pc \in {"poll", "select"}
    BY <1>2 DEF TcpKeyboardReady, TcpUserLine, TcpResponseTimeout, TcpSelectError, TcpSignal,
       SelectKeyboard, UserLine, SelectTimeout, SelectFails, SignalInSelect, SignalElsewhere
  <2> QED
    BY <1>2, <2>1 DEF TcpInv, TcpKeyboardReady, TcpUserLine, TcpResponseTimeout,
       TcpSelectError, TcpSignal,
       TTypeOK, NothingCompleteLeft, block, stream
<1>3. CASE (\E b \in Bodies : ServerWrites(b)) \/ ServerCloses \/ ServerResets
  BY <1>3, ServerKeeps
<1>4. CASE UNCHANGED tvars
  BY <1>4 DEF TcpInv, tvars, block, stream, TTypeOK, NothingCompleteLeft, vars
<1> QED
  BY <1>1, <1>2, <1>3, <1>4 DEF TNext

LEMMA TcpInvHolds == TSpec => []TcpInv
<1>1. TInit => TcpInv
  <2> SUFFICES ASSUME TInit PROVE TcpInv
    OBVIOUS
  <2>1. TypeOK
    BY InitIInv DEF TInit, IInv
  <2>2. /\ buf = <<>> /\ size = 0 /\ extent = 0 /\ wire = <<>> /\ connection = "open"
        /\ crashed = FALSE /\ written = <<>> /\ taken = <<>>
    BY DEF TInit
  <2>3. TTypeOK
    <3>1. /\ Len(written) <= MaxWritten /\ Len(buf) <= size /\ size \in Nat
          /\ extent \in Nat /\ extent <= size + ZERO_BYTE
      BY <2>2, BoundAssumption DEF ZERO_BYTE
    <3>2. /\ buf \in Seq(Symbols) /\ wire \in Seq(Symbols)
          /\ written \in Seq(Messages) /\ taken \in Seq(Seq(Symbols))
      BY <2>2
    <3>3. connection \in {"open", "fin", "reset"} /\ crashed \in BOOLEAN
      BY <2>2
    <3> QED
      BY <2>1, <3>1, <3>2, <3>3 DEF TTypeOK
  <2>4. pc = "loop"
    BY DEF TInit, Init
  <2> QED
    BY <2>3, <2>4 DEF TcpInv, NothingCompleteLeft
<1>2. IInv => TypeOK
  BY DEF IInv
<1> QED
  BY <1>1, <1>2, TcpStepKeeps, TcpKeepsIInv, PTL DEF TSpec

\* Type correctness.  What is in the buffer lies inside the block allocated for
\* it; of what copy() writes (buffer.c:54) at most the NUL lies outside, and no
\* further than the first byte behind the block.
THEOREM TcpTypeCorrect == TSpec => []TTypeOK
  BY TcpInvHolds, PTL DEF TcpInv

\* The room check of buffer.c:45 fails in this case and in no other: of all that
\* recv() may return, the NUL of copy() goes past the block exactly when the data
\* fills it to the last byte.
THEOREM NulOutsideWhenFull ==
    TSpec => [](\A n \in 1 .. BUFFER_SIZE - 1 :
                    Extent(n) > Grown(n) <=> Len(buf) + n = size)
<1>1. TTypeOK => \A n \in 1 .. BUFFER_SIZE - 1 :
                     Extent(n) > Grown(n) <=> Len(buf) + n = size
  <2> SUFFICES ASSUME TTypeOK, NEW n \in 1 .. BUFFER_SIZE - 1
               PROVE  Extent(n) > Grown(n) <=> Len(buf) + n = size
    OBVIOUS
  <2>1. n \in Nat /\ n < BUFFER_SIZE
    BY SizeAssumption
  <2> QED
    BY <2>1, RoomMade
<1> QED
  BY <1>1, TcpTypeCorrect, PTL

\* The client never blocks in select() with a complete message in its buffer.
THEOREM NoneLeftWaiting == TSpec => []NothingCompleteLeft
  BY TcpInvHolds, PTL DEF TcpInv
----------------------------------------------------------------------------
(* Every message once, whole and in the order written: MsgStream.          *)

\* The text of a message has no NUL, which is all that copy() changes.
Text == Symbols \ {"NUL"}
PlainBodies == Bodies \subseteq Seq(Text)

\* What has been written and not handed on, wherever it has come to.
Pending == buf \o wire

\* Message k of msgs lies in s behind symbol P[k], as far as s reaches; the first
\* `done` messages are gone.
Laid(s, msgs, done, P) ==
    /\ P[done + 1] = 0
    /\ \A k, l \in done + 1 .. Len(msgs) + 1 : k <= l => P[k] <= P[l]
    /\ \A k \in done + 1 .. Len(msgs) :
         /\ P[k + 1] = P[k] + Len(msgs[k])
         /\ \A j \in 1 .. Len(msgs[k]) : P[k] + j <= Len(s) => s[P[k] + j] = msgs[k][j]

\* Behind the messages there is at most the beginning of another one.
Tailed(s, base) ==
    \/ Len(s) <= base
    \/ \E m \in Messages : /\ Len(s) < base + Len(m)
                           /\ \A j \in 1 .. Len(s) - base : s[base + j] = m[j]

Holds(s, msgs, done, how) ==
    \E P \in [done + 1 .. Len(msgs) + 1 -> Nat] :
        /\ Laid(s, msgs, done, P)
        /\ Tailed(s, P[Len(msgs) + 1])
        /\ how = "open" => Len(s) = P[Len(msgs) + 1]
        /\ how = "fin" => Len(s) >= P[Len(msgs) + 1]

\* While the connection is open the stream holds the messages that were written
\* and nothing else; after a close there may be the beginning of another one, and
\* a reset may cut the stream anywhere.
StreamInv ==
    /\ wire \in Seq(Text)
    /\ Len(taken) <= Len(written)
    /\ Holds(Pending, written, Len(taken), connection)

\* A message has one CR LF, at its end.
LEMMA MessageShape ==
    ASSUME NEW m \in Messages
    PROVE  /\ m \in Seq(Symbols) /\ Len(m) \in Nat /\ Len(m) >= 2
           /\ Ends(m) = {Len(m) - 1}
<1>1. PICK b \in Bodies : m = b \o CRLF
  BY DEF Messages
<1>2. b \in Seq(Symbols) /\ CRLF \in Seq(Symbols) /\ Len(CRLF) = 2 /\ Ends(m) = {Len(b) + 1}
  BY <1>1, BodiesAssumption DEF CRLF, Symbols
<1>3. m \in Seq(Symbols) /\ Len(m) = Len(b) + 2 /\ Len(b) \in Nat
  <2>1. /\ b \o CRLF \in Seq(Symbols) /\ Len(b \o CRLF) = Len(b) + Len(CRLF)
        /\ Len(b) \in Nat
    BY <1>2, ConcatProperties, LenProperties
  <2> QED
    BY <1>1, <1>2, <2>1
<1>4. Len(b) + 1 = Len(m) - 1 /\ Len(m) >= 2 /\ Len(m) \in Nat
  BY <1>3
<1> QED
  BY <1>2, <1>3, <1>4

\* Without a NUL copy() copies.
LEMMA CopiedPlain ==
    ASSUME NEW s \in Seq(Text)
    PROVE  Copied(s) = s
<1>1. Len(s) \in Nat /\ \A i \in 1 .. Len(s) : s[i] # "NUL"
  BY LenProperties DEF Text
<1>2. ASSUME NEW i \in 1 .. Len(s) PROVE ~\E j \in 1 .. i : s[j] = "NUL"
  <2>1. \A j \in 1 .. i : j \in 1 .. Len(s)
    BY <1>1
  <2> QED
    BY <1>1, <2>1
<1>3. Copied(s) = [i \in 1 .. Len(s) |-> s[i]]
  BY <1>2 DEF Copied
<1> QED
  BY <1>3

\* What begins like message m and contains a CR LF begins with all of m, and
\* buffer_get_msg() takes out exactly m.
LEMMA FirstIsMessage ==
    ASSUME NEW m \in Messages, NEW s \in Seq(Symbols),
           \A j \in 1 .. Len(m) : j <= Len(s) => s[j] = m[j],
           Complete(s)
    PROVE  Len(m) <= Len(s) /\ MsgEnd(s) = Len(m) /\ FirstMsg(s) = m
<1>1. /\ m \in Seq(Symbols) /\ Len(m) \in Nat /\ Len(m) >= 2
      /\ Ends(m) = {Len(m) - 1} /\ Len(s) \in Nat
  BY MessageShape, LenProperties
<1>2. ASSUME NEW i \in Ends(s), i < Len(m) PROVE i = Len(m) - 1
  <2>1. i \in 1 .. Len(s) - 1 /\ s[i] = "CR" /\ s[i + 1] = "LF"
    BY DEF Ends
  <2>2. i \in 1 .. Len(m) /\ i + 1 \in 1 .. Len(m) /\ i <= Len(s) /\ i + 1 <= Len(s)
        /\ i \in 1 .. Len(m) - 1
    BY <1>1, <1>2, <2>1
  <2>3. m[i] = "CR" /\ m[i + 1] = "LF"
    BY <2>1, <2>2
  <2>4. i \in Ends(m)
    BY <2>2, <2>3 DEF Ends
  <2> QED
    BY <1>1, <2>4
<1>3. Len(m) <= Len(s)
  <2>1. SUFFICES ASSUME Len(s) < Len(m) PROVE FALSE
    BY <1>1
  <2>2. PICK i \in Ends(s) : TRUE
    BY DEF Complete
  <2>3. i \in 1 .. Len(s) - 1
    BY DEF Ends
  <2>4. i < Len(m) - 1 /\ i < Len(m)
    BY <1>1, <2>1, <2>3
  <2> QED
    BY <1>1, <1>2, <2>3, <2>4
<1>4. Len(m) - 1 \in Ends(s)
  <2>1. Len(m) - 1 \in 1 .. Len(m) - 1 /\ m[Len(m) - 1] = "CR" /\ m[(Len(m) - 1) + 1] = "LF"
    BY <1>1 DEF Ends
  <2>2. /\ Len(m) - 1 \in 1 .. Len(m) /\ (Len(m) - 1) + 1 \in 1 .. Len(m)
        /\ Len(m) - 1 <= Len(s) /\ (Len(m) - 1) + 1 <= Len(s)
        /\ Len(m) - 1 \in 1 .. Len(s) - 1
    BY <1>1, <1>3
  <2>3. s[Len(m) - 1] = "CR" /\ s[(Len(m) - 1) + 1] = "LF"
    BY <2>1, <2>2
  <2> QED
    BY <2>2, <2>3 DEF Ends
<1>5. MsgEnd(s) = Len(m)
  <2> DEFINE First == CHOOSE i \in Ends(s) : \A j \in Ends(s) : i <= j
  <2>1. \A j \in Ends(s) : j \in 1 .. Len(s) - 1
    BY DEF Ends
  <2>2. \A j \in Ends(s) : Len(m) - 1 <= j
    BY <1>1, <1>2, <2>1
  <2>3. First \in Ends(s) /\ \A j \in Ends(s) : First <= j
    BY <1>4, <2>2
  <2> HIDE DEF First
  <2>4. First = Len(m) - 1
    BY <1>1, <1>4, <2>1, <2>2, <2>3
  <2>5. 1 + First = Len(m)
    BY <1>1, <2>4
  <2> QED
    BY <2>5 DEF First, MsgEnd
<1>6. FirstMsg(s) = m
  <2>1. \A i \in 1 .. Len(m) : s[i] \in Symbols
    BY <1>1, <1>3
  <2>2. /\ SubSeq(s, 1, Len(m)) \in Seq(Symbols)
        /\ Len(SubSeq(s, 1, Len(m))) = Len(m)
        /\ \A i \in 1 .. Len(m) : SubSeq(s, 1, Len(m))[i] = s[i]
    BY <1>1, <1>3, <2>1, SubSeqProperties
  <2>3. \A i \in 1 .. Len(m) : SubSeq(s, 1, Len(m))[i] = m[i]
    BY <1>1, <1>3, <2>2
  <2>4. SubSeq(s, 1, Len(m)) = m
    BY <1>1, <2>2, <2>3, SeqEqual
  <2> QED
    BY <1>5, <2>4 DEF FirstMsg
<1> QED
  BY <1>3, <1>5, <1>6

\* A symbol of a part that lies within the first n.
LEMMA Within ==
    ASSUME NEW a \in Nat, NEW b \in Nat, NEW n \in Nat, a + b <= n, NEW j \in 1 .. b
    PROVE  a + j \in 1 .. n /\ a + j <= n
  OBVIOUS

\* A message written behind a stream that is whole.
LEMMA MessageWritten ==
    ASSUME NEW s \in Seq(Symbols), NEW msgs \in Seq(Messages), NEW done \in 0 .. Len(msgs),
           Holds(s, msgs, done, "open"), NEW m \in Messages
    PROVE  Holds(s \o m, Append(msgs, m), done, "open")
<1> DEFINE n == Len(s)
           c == Len(msgs)
           w == Len(m)
           r == s \o m
           more == Append(msgs, m)
<1>1. PICK P \in [done + 1 .. c + 1 -> Nat] : Laid(s, msgs, done, P) /\ n = P[c + 1]
  BY DEF Holds
<1>0. \A k \in done + 1 .. c + 1 : P[k] \in Nat
  OBVIOUS
<1>2. m \in Seq(Symbols) /\ w \in Nat /\ n \in Nat /\ c \in Nat /\ done \in Nat /\ done <= c
  BY MessageShape, LenProperties
<1>3. /\ Len(r) = n + w
      /\ \A i \in 1 .. n : r[i] = s[i]
      /\ \A i \in 1 .. w : r[n + i] = m[i]
  <2>1. /\ Len(r) = n + w
        /\ \A i \in 1 .. n + w : r[i] = IF i <= n THEN s[i] ELSE m[i - n]
    BY <1>2, ConcatProperties
  <2>2. \A i \in 1 .. w : n + i \in 1 .. n + w /\ ~(n + i <= n) /\ (n + i) - n = i
    BY <1>2
  <2>3. \A i \in 1 .. n : i \in 1 .. n + w /\ i <= n
    BY <1>2
  <2> HIDE DEF n, w, r
  <2> QED
    BY <2>1, <2>2, <2>3
<1>4. /\ Len(more) = c + 1 /\ more[c + 1] = m /\ \A k \in 1 .. c : more[k] = msgs[k]
  BY <1>2, AppendProperties
<1>5. /\ P[done + 1] = 0
      /\ \A k, l \in done + 1 .. c + 1 : k <= l => P[k] <= P[l]
      /\ \A k \in done + 1 .. c :
           /\ P[k + 1] = P[k] + Len(msgs[k])
           /\ \A j \in 1 .. Len(msgs[k]) : P[k] + j <= n => s[P[k] + j] = msgs[k][j]
  BY <1>1 DEF Laid
<1>6. \A k \in 1 .. c : Len(msgs[k]) \in Nat
  BY MessageShape
<1> DEFINE Q == [k \in done + 1 .. c + 2 |-> IF k <= c + 1 THEN P[k] ELSE n + w]
<1> HIDE DEF n, c, w, r, more
<1>7. /\ Q \in [done + 1 .. c + 2 -> Nat]
      /\ \A k \in done + 1 .. c + 1 : Q[k] = P[k] /\ Q[k] \in Nat
      /\ Q[c + 2] = n + w /\ Q[c + 1] = n
  <2>1. n + w \in Nat
    BY <1>2
  <2>2. \A k \in done + 1 .. c + 1 : k \in done + 1 .. c + 2 /\ k <= c + 1
    BY <1>2
  <2>3. \A k \in done + 1 .. c + 2 : k \in done + 1 .. c + 1 \/ ~(k <= c + 1)
    BY <1>2
  <2>4. c + 1 \in done + 1 .. c + 1 /\ c + 2 \in done + 1 .. c + 2 /\ ~(c + 2 <= c + 1)
    BY <1>2
  <2>5. n = P[c + 1]
    BY <1>1
  <2> QED
    BY <2>1, <2>2, <2>3, <2>4, <2>5, <1>0
<1> HIDE DEF Q
<1>8. ASSUME NEW k \in done + 1 .. c + 2, NEW l \in done + 1 .. c + 2, k <= l
      PROVE  Q[k] <= Q[l]
  <2>1. CASE l <= c + 1
    <3>1. k \in done + 1 .. c + 1 /\ l \in done + 1 .. c + 1
      BY <1>2, <1>8, <2>1
    <3> QED
      BY <1>5, <1>7, <1>8, <3>1
  <2>2. CASE l = c + 2 /\ k <= c + 1
    <3>1. k \in done + 1 .. c + 1 /\ c + 1 \in done + 1 .. c + 1
      BY <1>2, <2>2
    <3>2. Q[k] <= Q[c + 1]
      BY <1>5, <1>7, <3>1
    <3> QED
      BY <1>2, <1>7, <2>2, <3>1, <3>2
  <2>3. CASE l = c + 2 /\ k = c + 2
    BY <1>2, <1>7, <2>3
  <2> QED
    BY <1>2, <2>1, <2>2, <2>3
<1>9. ASSUME NEW k \in done + 1 .. c + 1
      PROVE  /\ Q[k + 1] = Q[k] + Len(more[k])
             /\ \A j \in 1 .. Len(more[k]) : Q[k] + j <= n + w => r[Q[k] + j] = more[k][j]
  <2>1. CASE k = c + 1
    <3>1. more[k] = m /\ Q[k] = n /\ Q[k + 1] = n + w
      BY <1>2, <1>4, <1>7, <2>1
    <3> QED
      BY <1>3, <3>1 DEF w
  <2>2. CASE k # c + 1
    <3>1. k \in done + 1 .. c /\ k \in 1 .. c /\ k + 1 \in done + 1 .. c + 1
      BY <1>2, <2>2
    <3>2. more[k] = msgs[k] /\ Q[k] = P[k] /\ Q[k + 1] = P[k + 1] /\ Len(msgs[k]) \in Nat
          /\ Q[k] \in Nat /\ Q[k + 1] <= n
      <4>1. c + 1 \in done + 1 .. c + 1 /\ k + 1 <= c + 1
        BY <1>2, <3>1
      <4>2. P[k + 1] <= P[c + 1]
        BY <1>5, <3>1, <4>1
      <4> QED
        BY <1>4, <1>6, <1>7, <3>1, <4>1, <4>2
    <3>3. Q[k + 1] = Q[k] + Len(more[k])
      BY <1>5, <3>1, <3>2
    <3>4. ASSUME NEW j \in 1 .. Len(more[k]) PROVE r[Q[k] + j] = more[k][j]
      <4>1. Q[k] + j \in 1 .. n /\ Q[k] + j <= n
        <5>1. j \in 1 .. Len(msgs[k]) /\ Q[k] + Len(msgs[k]) <= n
          BY <3>2, <3>3
        <5> QED
          BY <1>2, <3>2, <5>1, Within
      <4>2. s[P[k] + j] = msgs[k][j]
        BY <1>5, <3>1, <3>2, <4>1
      <4> QED
        BY <1>3, <3>2, <4>1, <4>2
    <3> QED
      BY <3>3, <3>4
  <2> QED
    BY <2>1, <2>2
<1>10. Q[done + 1] = 0 /\ Q[(c + 1) + 1] = n + w
  BY <1>2, <1>5, <1>7
<1>11. Laid(r, more, done, Q)
  <2>1. (c + 1) + 1 = c + 2
    BY <1>2
  <2> QED
    BY <1>3, <1>4, <1>8, <1>9, <1>10, <2>1 DEF Laid
<1>12. Tailed(r, Q[Len(more) + 1]) /\ Len(r) = Q[Len(more) + 1]
  BY <1>2, <1>3, <1>4, <1>10 DEF Tailed
<1>13. Q \in [done + 1 .. Len(more) + 1 -> Nat]
  <2>1. (c + 1) + 1 = c + 2
    BY <1>2
  <2> QED
    BY <1>4, <1>7, <2>1
<1> QED
  BY <1>11, <1>12, <1>13 DEF Holds, r, more

\* Extending a whole stream disturbs none of its messages.
LEMMA LaidExtends ==
    ASSUME NEW s \in Seq(Symbols), NEW t \in Seq(Symbols), NEW msgs \in Seq(Messages),
           NEW done \in 0 .. Len(msgs), NEW P \in [done + 1 .. Len(msgs) + 1 -> Nat],
           Laid(s, msgs, done, P), Len(s) = P[Len(msgs) + 1]
    PROVE  Laid(s \o t, msgs, done, P)
<1> DEFINE n == Len(s)
           c == Len(msgs)
           r == s \o t
<1>1. n \in Nat /\ c \in Nat /\ done \in Nat /\ done <= c
  BY LenProperties
<1>2. \A i \in 1 .. n : r[i] = s[i]
  BY <1>1, ConcatProperties, LenProperties
<1>3. /\ P[done + 1] = 0
      /\ \A k, l \in done + 1 .. c + 1 : k <= l => P[k] <= P[l]
      /\ \A k \in done + 1 .. c :
           /\ P[k + 1] = P[k] + Len(msgs[k])
           /\ \A j \in 1 .. Len(msgs[k]) : P[k] + j <= n => s[P[k] + j] = msgs[k][j]
  BY DEF Laid
<1>4. \A k \in 1 .. c : Len(msgs[k]) \in Nat
  BY MessageShape
<1>5. n = P[c + 1]
  OBVIOUS
<1>6. \A k \in done + 1 .. c + 1 : P[k] \in Nat
  OBVIOUS
<1> HIDE DEF n, c, r
<1>7. ASSUME NEW k \in done + 1 .. c, NEW j \in 1 .. Len(msgs[k])
      PROVE  r[P[k] + j] = msgs[k][j]
  <2>1. /\ k \in 1 .. c /\ k \in done + 1 .. c + 1 /\ k + 1 \in done + 1 .. c + 1
        /\ c + 1 \in done + 1 .. c + 1 /\ k + 1 <= c + 1
    BY <1>1
  <2>2. P[k + 1] <= n /\ P[k + 1] = P[k] + Len(msgs[k]) /\ P[k] \in Nat
        /\ Len(msgs[k]) \in Nat
    BY <1>3, <1>4, <1>5, <1>6, <2>1
  <2>3. P[k] + j \in 1 .. n /\ P[k] + j <= n
    <3>1. P[k] + Len(msgs[k]) <= n
      BY <2>2
    <3> QED
      BY <1>1, <2>2, <3>1, Within
  <2> QED
    BY <1>2, <1>3, <2>3
<1> QED
  BY <1>3, <1>7 DEF Laid, c, r

\* The beginning of a message behind a stream that is whole.
LEMMA TailWritten ==
    ASSUME NEW s \in Seq(Symbols), NEW msgs \in Seq(Messages), NEW done \in 0 .. Len(msgs),
           Holds(s, msgs, done, "open"), NEW m \in Messages, NEW n \in 0 .. Len(m) - 1
    PROVE  Holds(s \o SubSeq(m, 1, n), msgs, done, "fin")
<1> DEFINE c == Len(msgs)
           t == SubSeq(m, 1, n)
           r == s \o t
<1>1. PICK P \in [done + 1 .. c + 1 -> Nat] : Laid(s, msgs, done, P) /\ Len(s) = P[c + 1]
  BY DEF Holds
<1>2. m \in Seq(Symbols) /\ Len(m) \in Nat /\ Len(s) \in Nat /\ n < Len(m) /\ n \in Nat
  BY MessageShape, LenProperties
<1>3. t \in Seq(Symbols) /\ Len(t) = n /\ \A i \in 1 .. n : t[i] = m[i]
  BY <1>2, SubSeqProperties
<1> HIDE DEF t
<1>4. /\ Len(r) = Len(s) + n
      /\ \A i \in 1 .. n : r[Len(s) + i] = m[i]
  <2>1. /\ Len(r) = Len(s) + n
        /\ \A i \in 1 .. Len(s) + n : r[i] = IF i <= Len(s) THEN s[i] ELSE t[i - Len(s)]
    BY <1>3, ConcatProperties
  <2>2. \A i \in 1 .. n : /\ Len(s) + i \in 1 .. Len(s) + n
                          /\ ~(Len(s) + i <= Len(s)) /\ (Len(s) + i) - Len(s) = i
    BY <1>2
  <2> HIDE DEF r
  <2> QED
    BY <1>3, <2>1, <2>2
<1>5. Laid(r, msgs, done, P)
  BY <1>1, <1>3, LaidExtends
<1> HIDE DEF r
<1>6. Tailed(r, Len(s))
  <2>1. Len(r) < Len(s) + Len(m) /\ Len(r) - Len(s) = n
    BY <1>2, <1>4
  <2>2. \A i \in 1 .. Len(r) - Len(s) : r[Len(s) + i] = m[i]
    BY <1>4, <2>1
  <2> QED
    BY <2>1, <2>2 DEF Tailed
<1> QED
  <2>1. Tailed(r, P[c + 1]) /\ Len(r) >= P[c + 1]
    BY <1>1, <1>2, <1>4, <1>6
  <2> QED
    BY <1>5, <2>1 DEF Holds, r, t

\* A stream cut short.
LEMMA StreamCut ==
    ASSUME NEW s \in Seq(Symbols), NEW msgs \in Seq(Messages), NEW done \in 0 .. Len(msgs),
           NEW how, Holds(s, msgs, done, how),
           NEW r \in Seq(Symbols), Len(r) <= Len(s), \A i \in 1 .. Len(r) : r[i] = s[i]
    PROVE  Holds(r, msgs, done, "reset")
<1> DEFINE c == Len(msgs)
<1>1. PICK P \in [done + 1 .. c + 1 -> Nat] : Laid(s, msgs, done, P) /\ Tailed(s, P[c + 1])
  BY DEF Holds
<1>2. Len(s) \in Nat /\ Len(r) \in Nat /\ c \in Nat /\ done \in Nat /\ done <= c
  BY LenProperties
<1>3. /\ P[done + 1] = 0
      /\ \A k, l \in done + 1 .. c + 1 : k <= l => P[k] <= P[l]
      /\ \A k \in done + 1 .. c :
           /\ P[k + 1] = P[k] + Len(msgs[k])
           /\ \A j \in 1 .. Len(msgs[k]) : P[k] + j <= Len(s) => s[P[k] + j] = msgs[k][j]
  BY <1>1 DEF Laid
<1>4. ASSUME NEW k \in done + 1 .. c, NEW j \in 1 .. Len(msgs[k]), P[k] + j <= Len(r)
      PROVE  r[P[k] + j] = msgs[k][j]
  <2>1. P[k] \in Nat /\ Len(msgs[k]) \in Nat
    <3>1. k \in 1 .. c /\ k \in done + 1 .. c + 1
      BY <1>2
    <3> QED
      BY <3>1, MessageShape
  <2>2. P[k] + j \in 1 .. Len(r) /\ P[k] + j <= Len(s)
    BY <1>2, <1>4, <2>1
  <2> QED
    BY <1>3, <2>2
<1>5. Laid(r, msgs, done, P)
  BY <1>3, <1>4 DEF Laid
<1>6. Tailed(r, P[c + 1])
  <2>1. P[c + 1] \in Nat
    <3>1. c + 1 \in done + 1 .. c + 1
      BY <1>2
    <3> QED
      BY <3>1
  <2>2. CASE Len(s) <= P[c + 1]
    BY <1>2, <2>1, <2>2 DEF Tailed
  <2>3. CASE Len(r) <= P[c + 1]
    BY <2>3 DEF Tailed
  <2>4. CASE ~(Len(s) <= P[c + 1]) /\ ~(Len(r) <= P[c + 1])
    <3>1. PICK m \in Messages :
             /\ Len(s) < P[c + 1] + Len(m)
             /\ \A j \in 1 .. Len(s) - P[c + 1] : s[P[c + 1] + j] = m[j]
      BY <1>1, <2>4 DEF Tailed
    <3>2. Len(m) \in Nat
      BY MessageShape
    <3>3. Len(r) < P[c + 1] + Len(m)
      BY <1>2, <2>1, <3>1, <3>2
    <3>4. ASSUME NEW j \in 1 .. Len(r) - P[c + 1] PROVE r[P[c + 1] + j] = m[j]
      <4>1. j \in 1 .. Len(s) - P[c + 1] /\ P[c + 1] + j \in 1 .. Len(r)
        BY <1>2, <2>1
      <4> QED
        BY <3>1, <4>1
    <3> QED
      BY <3>3, <3>4 DEF Tailed
  <2> QED
    BY <2>2, <2>3, <2>4
<1> QED
  BY <1>1, <1>5, <1>6 DEF Holds

\* r is the beginning of s.
Begins(r, s) == Len(r) <= Len(s) /\ \A i \in 1 .. Len(r) : r[i] = s[i]

\* buffer_get_msg() finds message m in s.
Finds(s, m) == Len(m) <= Len(s) /\ MsgEnd(s) = Len(m) /\ FirstMsg(s) = m

\* The first CR LF of what has come of a stream ends its first message.
LEMMA NextMessage ==
    ASSUME NEW s \in Seq(Symbols), NEW msgs \in Seq(Messages), NEW done \in 0 .. Len(msgs),
           NEW how \in {"open", "fin", "reset"}, NEW all \in Seq(Symbols)
    PROVE  Holds(s, msgs, done, how) /\ Begins(all, s) /\ Complete(all)
           => done < Len(msgs) /\ Finds(all, msgs[done + 1])
<1> SUFFICES ASSUME Holds(s, msgs, done, how), Complete(all),
                    Len(all) <= Len(s), \A i \in 1 .. Len(all) : all[i] = s[i]
             PROVE  /\ done < Len(msgs)
                    /\ Len(msgs[done + 1]) <= Len(all)
                    /\ MsgEnd(all) = Len(msgs[done + 1])
                    /\ FirstMsg(all) = msgs[done + 1]
  BY DEF Begins, Finds
<1> DEFINE c == Len(msgs)
<1>1. PICK P \in [done + 1 .. c + 1 -> Nat] : Laid(s, msgs, done, P) /\ Tailed(s, P[c + 1])
  BY DEF Holds
<1>2. Len(s) \in Nat /\ Len(all) \in Nat /\ c \in Nat /\ done \in Nat /\ done <= c
  BY LenProperties
<1>3. done < c
  <2>1. SUFFICES ASSUME done = c PROVE FALSE
    BY <1>2
  <2>2. P[c + 1] = 0
    BY <1>1, <2>1 DEF Laid
  <2>3. Len(all) > 0
    <3>1. PICK i \in Ends(all) : TRUE
      BY DEF Complete
    <3>2. i \in 1 .. Len(all) - 1
      BY DEF Ends
    <3> QED
      BY <1>2, <3>2
  <2>4. PICK m \in Messages :
           Len(s) < 0 + Len(m) /\ \A j \in 1 .. Len(s) - 0 : s[0 + j] = m[j]
    <3>1. ~(Len(s) <= P[c + 1])
      BY <1>2, <2>2, <2>3
    <3> QED
      BY <1>1, <2>2, <3>1 DEF Tailed
  <2>5. Len(m) \in Nat
    BY MessageShape
  <2>6. ASSUME NEW j \in 1 .. Len(m), j <= Len(all) PROVE all[j] = m[j]
    <3>1. j \in 1 .. Len(all) /\ j \in 1 .. Len(s) - 0 /\ 0 + j = j
      BY <1>2, <2>5, <2>6
    <3> QED
      BY <2>4, <3>1
  <2>7. Len(m) <= Len(all)
    BY <2>6, FirstIsMessage
  <2> QED
    BY <1>2, <2>4, <2>5, <2>7
<1> DEFINE m == msgs[done + 1]
<1>4. m \in Messages /\ done + 1 \in done + 1 .. c
  BY <1>2, <1>3
<1>5. Len(m) \in Nat
  BY <1>4, MessageShape
<1>6. ASSUME NEW j \in 1 .. Len(m), j <= Len(all) PROVE all[j] = m[j]
  <2>1. P[done + 1] + j <= Len(s) => s[P[done + 1] + j] = m[j]
    BY <1>1, <1>4 DEF Laid
  <2>2. P[done + 1] = 0
    BY <1>1 DEF Laid
  <2>3. P[done + 1] + j = j /\ j \in 1 .. Len(all) /\ j <= Len(s)
    BY <1>2, <1>5, <1>6, <2>2
  <2> QED
    BY <2>1, <2>3
<1> HIDE DEF m
<1>7. Len(m) <= Len(all) /\ MsgEnd(all) = Len(m) /\ FirstMsg(all) = m
  BY <1>4, <1>6, FirstIsMessage
<1> QED
  BY <1>3, <1>7 DEF m

\* Positions in a stream and in what is left of it.
\* An operator, lest the provers rewrite with its equations.
Shifts(q, qq, w, l) == qq + w = (q + w) + l => qq = q + l

LEMMA ShiftedEnd == \A q, qq, w, l \in Nat : Shifts(q, qq, w, l)
  BY DEF Shifts

LEMMA ShiftedWithin ==
    \A q, w, r, j \in Nat :
        1 <= j /\ q + j <= r
        => q + j \in 1 .. r /\ (q + j) + w = (q + w) + j /\ (q + w) + j <= r + w
  OBVIOUS

LEMMA ShiftedTail ==
    \A q, w, r \in Nat : \A j \in 1 .. r - q :
        /\ j \in 1 .. (r + w) - (q + w) /\ q + j \in 1 .. r
        /\ (q + j) + w = (q + w) + j
  OBVIOUS

\* A stream without its first message.
LEMMA MessageGone ==
    ASSUME NEW s \in Seq(Symbols), NEW msgs \in Seq(Messages), NEW done \in 0 .. Len(msgs),
           NEW how \in {"open", "fin", "reset"}, NEW w \in Nat
    PROVE  Holds(s, msgs, done, how) /\ done < Len(msgs) /\ w = Len(msgs[done + 1])
           /\ w <= Len(s) => Holds(SubSeq(s, w + 1, Len(s)), msgs, done + 1, how)
<1>h. SUFFICES ASSUME Holds(s, msgs, done, how), done < Len(msgs), w = Len(msgs[done + 1]),
                      w <= Len(s)
               PROVE  Holds(SubSeq(s, w + 1, Len(s)), msgs, done + 1, how)
  OBVIOUS
<1> DEFINE c == Len(msgs)
           n == Len(s)
           r == SubSeq(s, w + 1, Len(s))
<1>1. PICK P \in [done + 1 .. c + 1 -> Nat] :
         /\ Laid(s, msgs, done, P)
         /\ Tailed(s, P[c + 1])
         /\ how = "open" => n = P[c + 1]
         /\ how = "fin" => n >= P[c + 1]
  BY <1>h DEF Holds
<1>2. \A k \in done + 1 .. c + 1 : P[k] \in Nat
  OBVIOUS
<1>0. /\ Len(r) = n - w
      /\ \A i \in 1 .. n - w : r[i] = s[i + w]
  <2>1. n \in Nat /\ w <= n /\ \A i \in w + 1 .. n : s[i] \in Symbols
    BY <1>h, LenProperties
  <2>2. /\ Len(r) = IF w + 1 <= n THEN n - (w + 1) + 1 ELSE 0
        /\ \A i \in 1 .. n - (w + 1) + 1 : r[i] = s[(w + 1) + i - 1]
    <3>1. w + 1 \in Int /\ n \in Int
      BY <2>1
    <3> QED
      BY <2>1, <3>1, SubSeqProperties, SMTT(40)
  <2>3. \A i \in 1 .. n - w : i \in 1 .. n - (w + 1) + 1 /\ (w + 1) + i - 1 = i + w
    BY <2>1
  <2>4. (IF w + 1 <= n THEN n - (w + 1) + 1 ELSE 0) = n - w
    BY <2>1
  <2> HIDE DEF r, n
  <2> QED
    BY <2>2, <2>3, <2>4
<1>3. n \in Nat /\ c \in Nat /\ done \in Nat /\ done < c /\ w <= n
      /\ Len(r) = n - w /\ Len(r) \in Nat
  <2>1. n \in Nat /\ c \in Nat /\ done \in Nat
    BY LenProperties
  <2>2. n - w \in Nat
    BY <1>h, <2>1
  <2> HIDE DEF n, c, r
  <2> QED
    BY <1>0, <1>h, <2>1, <2>2 DEF n, c
<1>4. /\ P[done + 1] = 0
      /\ \A k, l \in done + 1 .. c + 1 : k <= l => P[k] <= P[l]
      /\ \A k \in done + 1 .. c :
           /\ P[k + 1] = P[k] + Len(msgs[k])
           /\ \A j \in 1 .. Len(msgs[k]) : P[k] + j <= n => s[P[k] + j] = msgs[k][j]
  BY <1>1 DEF Laid
<1>5. \A k \in 1 .. c : Len(msgs[k]) \in Nat
  BY MessageShape
<1> DEFINE Q == [k \in done + 2 .. c + 1 |-> P[k] - w]
<1> HIDE DEF c, n, r
<1>6. \A k \in done + 2 .. c + 1 : k \in done + 1 .. c + 1 /\ done + 2 <= k
  BY <1>3
<1>7. P[done + 2] = w
  <2>1. done + 1 \in done + 1 .. c /\ (done + 1) + 1 = done + 2
    BY <1>3
  <2>2. P[(done + 1) + 1] = P[done + 1] + Len(msgs[done + 1])
    BY <1>4, <2>1
  <2> QED
    BY <1>4, <1>h, <2>1, <2>2
<1>8. ASSUME NEW k \in done + 2 .. c + 1
      PROVE  Q[k] = P[k] - w /\ Q[k] \in Nat /\ P[k] = Q[k] + w /\ P[k] \in Nat
  <2>1. done + 2 \in done + 1 .. c + 1 /\ k \in done + 1 .. c + 1 /\ done + 2 <= k
    BY <1>3
  <2>2. w <= P[k] /\ P[k] \in Nat
    BY <1>2, <1>4, <1>7, <2>1
  <2> QED
    BY <2>2
<1>9. Q \in [done + 2 .. c + 1 -> Nat]
  BY <1>8
<1> HIDE DEF Q
<1>10. Q[done + 2] = 0
  <2>1. done + 2 \in done + 2 .. c + 1
    BY <1>3
  <2> QED
    BY <1>7, <1>8, <2>1
<1>11. ASSUME NEW k \in done + 2 .. c + 1, NEW l \in done + 2 .. c + 1, k <= l
       PROVE  Q[k] <= Q[l]
  <2>1. P[k] <= P[l]
    BY <1>4, <1>6, <1>11
  <2>2. Q[k] = P[k] - w /\ Q[l] = P[l] - w /\ P[k] \in Nat /\ P[l] \in Nat
    BY <1>8
  <2> QED
    BY <2>1, <2>2
<1>12. ASSUME NEW k \in done + 2 .. c
       PROVE  /\ Q[k + 1] = Q[k] + Len(msgs[k])
              /\ \A j \in 1 .. Len(msgs[k]) : Q[k] + j <= Len(r) => r[Q[k] + j] = msgs[k][j]
  <2>1. /\ k \in done + 2 .. c + 1 /\ k + 1 \in done + 2 .. c + 1 /\ k \in done + 1 .. c
        /\ k \in 1 .. c
    BY <1>3
  <2>2. /\ Q[k] = P[k] - w /\ P[k] = Q[k] + w /\ Q[k] \in Nat
        /\ Q[k + 1] = P[k + 1] - w /\ P[k] \in Nat /\ Len(msgs[k]) \in Nat
        /\ P[k + 1] \in Nat /\ Q[k + 1] \in Nat
    BY <1>5, <1>8, <2>1
  <2>3. Q[k + 1] = Q[k] + Len(msgs[k])
    <3>1. P[k + 1] = P[k] + Len(msgs[k])
      BY <1>4, <2>1
    <3>2. /\ P[k] \in Nat /\ Q[k] \in Nat /\ P[k] = Q[k] + w /\ P[k + 1] \in Nat
          /\ Q[k + 1] \in Nat /\ P[k + 1] = Q[k + 1] + w /\ Len(msgs[k]) \in Nat
      BY <1>8, <2>1, <2>2
    <3>3. Q[k + 1] + w = (Q[k] + w) + Len(msgs[k])
      BY <3>1, <3>2, Zenon
    <3> QED
      <4>1. /\ Q[k] \in Nat /\ Q[k + 1] \in Nat /\ w \in Nat /\ Len(msgs[k]) \in Nat
        BY <3>2
      <4>2. Shifts(Q[k], Q[k + 1], w, Len(msgs[k]))
        BY <4>1, ShiftedEnd, Zenon
      <4> QED
        BY <3>3, <4>2, Zenon DEF Shifts
  <2>4. ASSUME NEW j \in 1 .. Len(msgs[k]), Q[k] + j <= Len(r)
        PROVE  r[Q[k] + j] = msgs[k][j]
    <3>1. Q[k] + j \in 1 .. Len(r) /\ (Q[k] + j) + w = P[k] + j /\ P[k] + j <= n
      <4>1. j \in Nat /\ 1 <= j /\ n = Len(r) + w
        BY <1>3, <2>2
      <4>2. /\ Q[k] + j \in 1 .. Len(r) /\ (Q[k] + j) + w = (Q[k] + w) + j
            /\ (Q[k] + w) + j <= Len(r) + w
        BY <1>3, <2>2, <2>4, <4>1, ShiftedWithin, ZenonT(40)
      <4> QED
        BY <2>2, <4>1, <4>2, Zenon
    <3> QED
      BY <1>0, <1>3, <1>4, <2>1, <3>1
  <2> QED
    BY <2>3, <2>4
<1>13. Laid(r, msgs, done + 1, Q)
  <2>1. (done + 1) + 1 = done + 2
    BY <1>3
  <2> QED
    BY <1>10, <1>11, <1>12, <2>1 DEF Laid, c
<1>14. /\ Q[c + 1] = P[c + 1] - w /\ P[c + 1] = Q[c + 1] + w
       /\ P[c + 1] \in Nat /\ Q[c + 1] \in Nat
  <2>1. c + 1 \in done + 2 .. c + 1
    BY <1>3
  <2> QED
    BY <1>8, <2>1
<1>15. Tailed(r, Q[c + 1])
  <2>1. CASE n <= P[c + 1]
    BY <1>3, <1>14, <2>1 DEF Tailed
  <2>2. CASE ~(n <= P[c + 1])
    <3>1. PICK m \in Messages :
             /\ n < P[c + 1] + Len(m)
             /\ \A j \in 1 .. n - P[c + 1] : s[P[c + 1] + j] = m[j]
      BY <1>1, <2>2 DEF Tailed, n
    <3>2. Len(m) \in Nat
      BY MessageShape
    <3>3. Len(r) < Q[c + 1] + Len(m) /\ Len(r) - Q[c + 1] = n - P[c + 1]
      <4>1. n < P[c + 1] + Len(m)
        BY <3>1
      <4> QED
        BY <1>3, <1>14, <3>2, <4>1, SMTT(40)
    <3>4. ASSUME NEW j \in 1 .. Len(r) - Q[c + 1] PROVE r[Q[c + 1] + j] = m[j]
      <4>1. /\ j \in 1 .. n - P[c + 1] /\ Q[c + 1] + j \in 1 .. Len(r)
            /\ (Q[c + 1] + j) + w = P[c + 1] + j
        <5>1. n = Len(r) + w
          BY <1>3
        <5>2. /\ j \in 1 .. (Len(r) + w) - (Q[c + 1] + w) /\ Q[c + 1] + j \in 1 .. Len(r)
              /\ (Q[c + 1] + j) + w = (Q[c + 1] + w) + j
          <6>1. Q[c + 1] \in Nat /\ w \in Nat /\ Len(r) \in Nat
            BY <1>3, <1>14
          <6>2. \A i \in 1 .. Len(r) - Q[c + 1] :
                  /\ i \in 1 .. (Len(r) + w) - (Q[c + 1] + w) /\ Q[c + 1] + i \in 1 .. Len(r)
                  /\ (Q[c + 1] + i) + w = (Q[c + 1] + w) + i
            BY <6>1, ShiftedTail, ZenonT(30)
          <6> QED
            BY <6>2, Zenon
        <5> QED
          BY <1>14, <5>1, <5>2, Zenon
      <4> QED
        BY <1>0, <1>3, <3>1, <4>1
    <3> QED
      BY <3>3, <3>4 DEF Tailed
  <2> QED
    BY <2>1, <2>2
<1>16. (how = "open" => Len(r) = Q[c + 1]) /\ (how = "fin" => Len(r) >= Q[c + 1])
  BY <1>1, <1>3, <1>14, SMTT(40)
<1>17. Q \in [(done + 1) + 1 .. c + 1 -> Nat]
  <2>1. (done + 1) + 1 = done + 2
    BY <1>3
  <2> QED
    BY <1>9, <2>1
<1> QED
  BY <1>13, <1>15, <1>16, <1>17 DEF Holds, c, r

LEMMA Regrouped == \A x, y, z \in Seq(Symbols) : (x \o y) \o z = x \o (y \o z)
  BY ConcatAssociative

\* Taking out the first message takes it from the front of what is pending.
LEMMA RestIsPending ==
    ASSUME NEW all \in Seq(Symbols), NEW t \in Seq(Symbols), NEW e \in 1 .. Len(all)
    PROVE  SubSeq(all, e + 1, Len(all)) \o t = SubSeq(all \o t, e + 1, Len(all \o t))
<1> DEFINE a == SubSeq(all, 1, e)
           b == SubSeq(all, e + 1, Len(all))
           d == b \o t
<1>1. Len(all) \in Nat /\ e \in Nat
  BY LenProperties
<1>2. all = a \o b
  <2>1. a \o b = SubSeq(all, 1, Len(all))
    BY <1>1, ConcatAdjacentSubSeq
  <2> QED
    BY <2>1, SubSeqFull
<1>3. a \in Seq(Symbols) /\ b \in Seq(Symbols) /\ Len(a) = e
  BY <1>1, SubSeqProperties
<1>4. all \o t = a \o d /\ d \in Seq(Symbols)
  <2> HIDE DEF a, b
  <2>1. (a \o b) \o t = a \o (b \o t)
    BY <1>3, Regrouped, Zenon
  <2>2. b \o t \in Seq(Symbols)
    BY <1>3, ConcatProperties
  <2> QED
    BY <1>2, <2>1, <2>2
<1>5. Len(d) \in Nat /\ Len(all \o t) = e + Len(d)
  BY <1>3, <1>4, ConcatProperties, LenProperties
<1> HIDE DEF a, b, d
<1>6. SubSeq(a \o d, e + 1, e + Len(d)) = SubSeq(d, 1, Len(d))
  <2>1. CASE Len(d) = 0
    <3>1. e + Len(d) < e + 1 /\ Len(d) < 1
      BY <1>1, <2>1
    <3> QED
      BY <1>1, <1>5, <3>1, SubSeqEmpty
  <2>2. CASE Len(d) # 0
    <3>1. /\ e + 1 \in Len(a) + 1 .. Len(a) + Len(d)
          /\ e + Len(d) \in Len(a) + 1 .. Len(a) + Len(d)
          /\ (e + 1) - Len(a) = 1 /\ (e + Len(d)) - Len(a) = Len(d)
      BY <1>1, <1>3, <1>5, <2>2
    <3> QED
      BY <1>3, <1>4, <3>1, SubSeqOfConcat2
  <2> QED
    BY <2>1, <2>2
<1> QED
  BY <1>4, <1>5, <1>6, SubSeqFull DEF d, b

\* Receiving a segment moves it from the wire to the buffer.
LEMMA SegmentIsPending ==
    ASSUME TTypeOK, wire \in Seq(Text), NEW n, NEW all, Recv(n, all)
    PROVE  /\ all \in Seq(Symbols)
           /\ wire' \in Seq(Text)
           /\ Pending = all \o wire'
<1> DEFINE got == SubSeq(wire, 1, n)
           left == SubSeq(wire, n + 1, Len(wire))
<1>1. n \in 1 .. Len(wire) /\ Len(wire) \in Nat /\ buf \in Seq(Symbols)
  BY LenProperties DEF Recv, TTypeOK
<1>2. got \in Seq(Text) /\ left \in Seq(Text)
  BY <1>1, SubSeqProperties
<1>3. wire = got \o left
  <2>1. got \o left = SubSeq(wire, 1, Len(wire))
    BY <1>1, ConcatAdjacentSubSeq
  <2> QED
    BY <2>1, SubSeqFull
<1>4. all = buf \o got /\ wire' = left
  BY <1>2, CopiedPlain DEF Recv
<1> HIDE DEF got, left
<1>5. got \in Seq(Symbols) /\ left \in Seq(Symbols)
  BY <1>2 DEF Text
<1>6. buf \o (got \o left) = (buf \o got) \o left
  BY <1>1, <1>5, Regrouped, Zenon
<1>7. all \in Seq(Symbols)
  BY <1>1, <1>4, <1>5, ConcatProperties
<1> QED
  BY <1>2, <1>3, <1>4, <1>6, <1>7 DEF Pending

LEMMA PendingType ==
    ASSUME TTypeOK
    PROVE  /\ Pending \in Seq(Symbols) /\ Len(Pending) \in Nat
           /\ written \in Seq(Messages) /\ Len(written) \in Nat
           /\ Len(taken) \in Nat /\ connection \in {"open", "fin", "reset"}
  BY ConcatProperties, LenProperties DEF TTypeOK, Pending

\* buffer_get_msg() on `all`, with `left` still to come.
LEMMA OneTaken ==
    ASSUME NEW all \in Seq(Symbols)
    PROVE  /\ TTypeOK /\ StreamInv /\ Complete(all)
           /\ wire' \in Seq(Text) /\ Pending = all \o wire' /\ buf' = Rest(all)
           /\ taken' = Append(taken, FirstMsg(all))
           /\ written' = written /\ connection' = connection
           => StreamInv' /\ Stream!Take
<1>h. SUFFICES ASSUME TTypeOK, StreamInv, Complete(all),
                      wire' \in Seq(Text), Pending = all \o wire', buf' = Rest(all),
                      taken' = Append(taken, FirstMsg(all)),
                      written' = written, connection' = connection
               PROVE  StreamInv' /\ Stream!Take
  OBVIOUS
<1> DEFINE m == written[Len(taken) + 1]
<1>1. /\ Pending \in Seq(Symbols) /\ Len(Pending) \in Nat
      /\ written \in Seq(Messages) /\ Len(written) \in Nat
      /\ Len(taken) \in Nat /\ connection \in {"open", "fin", "reset"}
  BY <1>h, PendingType
<1>2. Len(taken) \in 0 .. Len(written) /\ Holds(Pending, written, Len(taken), connection)
  BY <1>h, <1>1 DEF StreamInv
<1>3. wire' \in Seq(Symbols) /\ Len(all) \in Nat /\ Len(wire') \in Nat
  BY <1>h, LenProperties DEF Text
<1>4. Len(all) <= Len(Pending) /\ \A i \in 1 .. Len(all) : all[i] = Pending[i]
  <2>1. /\ Len(all \o wire') = Len(all) + Len(wire')
        /\ \A i \in 1 .. Len(all) + Len(wire') :
              (all \o wire')[i] = IF i <= Len(all) THEN all[i] ELSE wire'[i - Len(all)]
    BY <1>3, ConcatProperties
  <2>2. \A i \in 1 .. Len(all) : i \in 1 .. Len(all) + Len(wire') /\ i <= Len(all)
    BY <1>3
  <2>3. Len(all) <= Len(all) + Len(wire')
    BY <1>3
  <2> QED
    BY <1>h, <2>1, <2>2, <2>3
<1>5. Begins(all, Pending) /\ Complete(all)
  BY <1>h, <1>4 DEF Begins
<1>6. Len(taken) < Len(written) /\ Finds(all, m)
  BY <1>1, <1>2, <1>5, NextMessage, Zenon
<1>7. m \in Messages /\ Len(m) \in 1 .. Len(all) /\ Len(m) \in Nat
  <2>1. m \in Messages
    BY <1>1, <1>6
  <2>2. Len(m) \in Nat /\ Len(m) >= 2
    BY <2>1, MessageShape
  <2> QED
    BY <1>3, <1>6, <2>1, <2>2 DEF Finds
<1>8. Pending' = SubSeq(Pending, Len(m) + 1, Len(Pending))
  <2>1. Rest(all) \o wire' = SubSeq(Pending, Len(m) + 1, Len(Pending))
    <3>1. SubSeq(all, Len(m) + 1, Len(all)) \o wire'
             = SubSeq(all \o wire', Len(m) + 1, Len(all \o wire'))
      BY <1>3, <1>7, RestIsPending
    <3>2. MsgEnd(all) = Len(m)
      BY <1>6 DEF Finds
    <3> QED
      BY <1>h, <3>1, <3>2, Zenon DEF Rest
  <2> QED
    BY <1>h, <2>1 DEF Pending
<1>9. Holds(Pending', written, Len(taken) + 1, connection)
  <2> HIDE DEF m
  <2>1. Len(m) <= Len(Pending)
    BY <1>1, <1>3, <1>4, <1>7
  <2>2. Len(m) = Len(written[Len(taken) + 1])
    BY DEF m
  <2> QED
    BY <1>1, <1>2, <1>6, <1>7, <1>8, <2>1, <2>2, MessageGone
<1>10. Len(taken') = Len(taken) + 1
  <2>1. taken \in Seq(Seq(Symbols)) /\ FirstMsg(all) \in Seq(Symbols)
    BY <1>h, ExtractTypes DEF TTypeOK
  <2> QED
    BY <1>h, <2>1, AppendProperties
<1>11. StreamInv'
  <2>1. Len(taken') <= Len(written')
    BY <1>h, <1>1, <1>6, <1>10
  <2> QED
    BY <1>h, <1>9, <1>10, <2>1 DEF StreamInv
<1>12. Stream!Take
  BY <1>h, <1>6 DEF Stream!Take, Finds
<1> QED
  BY <1>11, <1>12

\* A stream that is whole has all the messages.
LEMMA WholeHasAll ==
    ASSUME NEW s, NEW msgs \in Seq(Messages), NEW done \in 0 .. Len(msgs)
    PROVE  Holds(s, msgs, done, "open") => Holds(s, msgs, done, "fin")
<1>h. SUFFICES ASSUME Holds(s, msgs, done, "open") PROVE Holds(s, msgs, done, "fin")
  OBVIOUS
<1> DEFINE c == Len(msgs)
<1>1. PICK P \in [done + 1 .. c + 1 -> Nat] :
         Laid(s, msgs, done, P) /\ Tailed(s, P[c + 1]) /\ Len(s) = P[c + 1]
  BY <1>h DEF Holds
<1>2. P[c + 1] \in Nat
  <2>1. c + 1 \in done + 1 .. c + 1
    BY LenProperties
  <2> QED
    BY <2>1
<1>3. Len(s) >= P[c + 1]
  BY <1>1, <1>2
<1> QED
  BY <1>1, <1>3 DEF Holds

\* What the server writes when it writes a message.
LEMMA PlainMessage ==
    ASSUME PlainBodies, NEW b \in Bodies
    PROVE  /\ b \in Seq(Text) /\ CRLF \in Seq(Text) /\ b \o CRLF \in Seq(Text)
           /\ Len(b \o CRLF) = Len(b) + 2 /\ Len(b) \in Nat /\ b \o CRLF \in Messages
<1>1. b \in Seq(Text) /\ CRLF \in Seq(Text) /\ Len(CRLF) = 2
  BY DEF PlainBodies, CRLF, Text, Symbols
<1>2. b \o CRLF \in Seq(Text) /\ Len(b \o CRLF) = Len(b) + Len(CRLF)
  BY <1>1, ConcatProperties
<1> QED
  BY <1>1, <1>2, LenProperties DEF Messages

LEMMA TextRegrouped == \A x \in Seq(Symbols), y, z \in Seq(Text) :
    /\ y \in Seq(Symbols) /\ z \in Seq(Symbols) /\ y \o z \in Seq(Text)
    /\ (x \o y) \o z = x \o (y \o z)
<1>1. \A y \in Seq(Text) : y \in Seq(Symbols)
  BY DEF Text
<1>2. \A y, z \in Seq(Text) : y \o z \in Seq(Text)
  BY ConcatProperties
<1> QED
  BY <1>1, <1>2, Regrouped, Zenon

\* write() of a whole message adds it to what is pending.
LEMMA WriteAdds ==
    ASSUME PlainBodies, NEW b \in Bodies
    PROVE  TTypeOK /\ StreamInv /\ ServerWrites(b) => StreamInv' /\ Stream!Write(b \o CRLF)
<1>h. SUFFICES ASSUME TTypeOK, StreamInv, ServerWrites(b)
               PROVE  StreamInv' /\ Stream!Write(b \o CRLF)
  OBVIOUS
<1> DEFINE m == b \o CRLF
<1>1. b \in Seq(Text) /\ CRLF \in Seq(Text) /\ m \in Seq(Text) /\ m \in Messages
  BY PlainMessage
<1>2. /\ wire' = (wire \o b) \o CRLF \/ wire' = wire \o (b \o CRLF)
      /\ written' = Append(written, m) /\ connection = "open" /\ connection' = "open"
      /\ buf' = buf /\ taken' = taken
  BY <1>h DEF ServerWrites
<1>3. /\ Pending \in Seq(Symbols) /\ written \in Seq(Messages) /\ Len(written) \in Nat
      /\ Len(taken) \in Nat
  BY <1>h, PendingType
<1>4. /\ wire \in Seq(Text) /\ wire \in Seq(Symbols) /\ buf \in Seq(Symbols)
      /\ Len(taken) \in 0 .. Len(written)
      /\ Holds(Pending, written, Len(taken), "open")
  <2>1. wire \in Seq(Text) /\ wire \in Seq(Symbols) /\ buf \in Seq(Symbols)
    BY <1>h DEF StreamInv, TTypeOK
  <2>2. Len(taken) \in 0 .. Len(written)
    BY <1>h, <1>3 DEF StreamInv
  <2>3. Holds(Pending, written, Len(taken), connection)
    BY <1>h DEF StreamInv
  <2> QED
    BY <1>2, <2>1, <2>2, <2>3
<1>5. wire' = wire \o m /\ wire' \in Seq(Text)
  <2>1. (wire \o b) \o CRLF = wire \o (b \o CRLF) /\ wire \o m \in Seq(Text)
    BY <1>1, <1>4, TextRegrouped, Zenon
  <2> QED
    BY <1>2, <2>1
<1>6. Pending' = Pending \o m
  <2>1. (buf \o wire) \o m = buf \o (wire \o m)
    BY <1>1, <1>4, TextRegrouped, Zenon
  <2> QED
    BY <1>2, <1>5, <2>1 DEF Pending
<1> HIDE DEF m
<1>7. Holds(Pending', written', Len(taken'), "open")
  BY <1>1, <1>2, <1>3, <1>4, <1>6, MessageWritten
<1>8. Len(taken') <= Len(written')
  <2>1. Len(written') = Len(written) + 1
    BY <1>1, <1>2, <1>3, AppendProperties
  <2> QED
    BY <1>2, <1>3, <1>4, <2>1
<1>9. StreamInv'
  BY <1>2, <1>5, <1>7, <1>8 DEF StreamInv
<1> QED
  BY <1>2, <1>9 DEF Stream!Write, m

\* A close adds nothing, or the beginning of a message.
LEMMA CloseLeaves ==
    ASSUME PlainBodies
    PROVE  TTypeOK /\ StreamInv /\ ServerCloses => StreamInv' /\ UNCHANGED <<written, taken>>
<1>h. SUFFICES ASSUME TTypeOK, StreamInv, ServerCloses
               PROVE  StreamInv' /\ UNCHANGED <<written, taken>>
  OBVIOUS
<1>2. /\ connection = "open" /\ connection' = "fin"
      /\ buf' = buf /\ taken' = taken /\ written' = written
  BY <1>h DEF ServerCloses
<1>3. /\ Pending \in Seq(Symbols) /\ written \in Seq(Messages) /\ Len(written) \in Nat
      /\ Len(taken) \in Nat
  BY <1>h, PendingType
<1>4. /\ wire \in Seq(Text) /\ buf \in Seq(Symbols)
      /\ Len(taken) \in 0 .. Len(written) /\ Len(taken) <= Len(written)
      /\ Holds(Pending, written, Len(taken), "open")
  <2>1. wire \in Seq(Text) /\ buf \in Seq(Symbols)
    BY <1>h DEF StreamInv, TTypeOK
  <2>2. Len(taken) \in 0 .. Len(written) /\ Len(taken) <= Len(written)
    BY <1>h, <1>3 DEF StreamInv
  <2>3. Holds(Pending, written, Len(taken), connection)
    BY <1>h DEF StreamInv
  <2> QED
    BY <1>2, <2>1, <2>2, <2>3
<1>5. wire' \in Seq(Text) /\ Holds(Pending', written, Len(taken), "fin")
  <2>1. CASE wire' = wire
    <3>1. Pending' = Pending
      BY <1>2, <2>1 DEF Pending
    <3> QED
      BY <1>3, <1>4, <2>1, <3>1, WholeHasAll
  <2>2. ASSUME NEW b \in Bodies, NEW n \in 1 .. Len(b) + 1,
               wire' = wire \o SubSeq(b \o CRLF, 1, n)
        PROVE  wire' \in Seq(Text) /\ Holds(Pending', written, Len(taken), "fin")
    <3> DEFINE m == b \o CRLF
               t == SubSeq(m, 1, n)
    <3>1. m \in Seq(Text) /\ m \in Messages /\ Len(m) = Len(b) + 2 /\ Len(b) \in Nat
      BY PlainMessage
    <3> HIDE DEF m
    <3>2. n \in 0 .. Len(m) - 1 /\ n \in 1 .. Len(m)
      BY <3>1
    <3>3. t \in Seq(Text)
      BY <3>1, <3>2, SubSeqProperties
    <3>4. wire \o t \in Seq(Text) /\ (buf \o wire) \o t = buf \o (wire \o t)
      <4> HIDE DEF t
      <4> QED
        BY <1>4, <3>3, TextRegrouped, Zenon
    <3>5. wire' = wire \o t
      BY <2>2 DEF m
    <3>6. Pending' = Pending \o t
      <4> HIDE DEF t
      <4> QED
        BY <1>2, <3>4, <3>5 DEF Pending
    <3>7. Holds(Pending \o SubSeq(m, 1, n), written, Len(taken), "fin")
      BY <1>3, <1>4, <3>1, <3>2, TailWritten
    <3> QED
      BY <3>4, <3>5, <3>6, <3>7
  <2> QED
    BY <1>h, <2>1, <2>2 DEF ServerCloses
<1> QED
  BY <1>2, <1>4, <1>5 DEF StreamInv

\* A reset takes away what is not received yet, from some point on.
LEMMA ResetCuts ==
    TTypeOK /\ StreamInv /\ ServerResets => StreamInv' /\ UNCHANGED <<written, taken>>
<1>h. SUFFICES ASSUME TTypeOK, StreamInv, ServerResets
               PROVE  StreamInv' /\ UNCHANGED <<written, taken>>
  OBVIOUS
<1>1. PICK n \in 0 .. Len(wire) : wire' = SubSeq(wire, 1, n)
  BY <1>h DEF ServerResets
<1>2. /\ connection' = "reset" /\ buf' = buf /\ taken' = taken /\ written' = written
  BY <1>h DEF ServerResets
<1>3. /\ Pending \in Seq(Symbols) /\ written \in Seq(Messages) /\ Len(written) \in Nat
      /\ Len(taken) \in Nat /\ connection \in {"open", "fin", "reset"}
  BY <1>h, PendingType
<1>4. wire \in Seq(Text) /\ wire \in Seq(Symbols) /\ buf \in Seq(Symbols)
      /\ Len(wire) \in Nat /\ Len(buf) \in Nat
  BY <1>h, LenProperties DEF StreamInv, TTypeOK
<1>5. Len(taken) \in 0 .. Len(written) /\ Len(taken) <= Len(written)
      /\ Holds(Pending, written, Len(taken), connection)
  BY <1>h, <1>3 DEF StreamInv
<1>6. /\ wire' \in Seq(Text) /\ wire' \in Seq(Symbols) /\ Len(wire') = n
      /\ \A i \in 1 .. n : wire'[i] = wire[i]
  <2> DEFINE t == SubSeq(wire, 1, n)
  <2>1. t \in Seq(Text) /\ Len(t) = n /\ \A i \in 1 .. n : t[i] = wire[i]
    BY <1>4, SubSeqProperties
  <2> HIDE DEF t
  <2>2. t \in Seq(Symbols)
    BY <2>1 DEF Text
  <2> QED
    BY <1>1, <2>1, <2>2 DEF t
<1>7. /\ Pending' \in Seq(Symbols) /\ Len(Pending') <= Len(Pending)
      /\ \A i \in 1 .. Len(Pending') : Pending'[i] = Pending[i]
  <2> DEFINE p == buf \o wire
             r == buf \o wire'
  <2>1. /\ Len(p) = Len(buf) + Len(wire)
        /\ \A i \in 1 .. Len(buf) + Len(wire) :
             p[i] = IF i <= Len(buf) THEN buf[i] ELSE wire[i - Len(buf)]
    BY <1>4, ConcatProperties
  <2>2. /\ r \in Seq(Symbols) /\ Len(r) = Len(buf) + n
        /\ \A i \in 1 .. Len(buf) + n :
             r[i] = IF i <= Len(buf) THEN buf[i] ELSE wire'[i - Len(buf)]
    BY <1>4, <1>6, ConcatProperties
  <2> HIDE DEF p, r
  <2>3. ASSUME NEW i \in 1 .. Len(buf) + n PROVE r[i] = p[i]
    <3>1. i \in 1 .. Len(buf) + Len(wire) /\ (~(i <= Len(buf)) => i - Len(buf) \in 1 .. n)
      BY <1>4
    <3> QED
      BY <1>6, <2>1, <2>2, <3>1
  <2>4. Len(r) <= Len(p)
    BY <1>4, <2>1, <2>2
  <2>5. Pending' = r /\ Pending = p
    BY <1>2 DEF Pending, p, r
  <2> QED
    BY <2>2, <2>3, <2>4, <2>5
<1>8. Holds(Pending', written, Len(taken), "reset")
  BY <1>3, <1>5, <1>7, StreamCut
<1> QED
  BY <1>2, <1>5, <1>6, <1>8 DEF StreamInv

\* Every other step leaves the stream, the buffer and what was taken alone.
LEMMA StreamKept ==
    UNCHANGED <<buf, stream, taken>> /\ StreamInv => StreamInv' /\ UNCHANGED <<written, taken>>
<1> SUFFICES ASSUME UNCHANGED <<buf, stream, taken>>, StreamInv
             PROVE  StreamInv' /\ UNCHANGED <<written, taken>>
  OBVIOUS
<1>1. UNCHANGED <<buf, wire, connection, written, taken>>
  BY DEF stream
<1>2. Pending' = Pending
  BY <1>1 DEF Pending
<1> QED
  BY <1>1, <1>2 DEF StreamInv

\* Every step keeps StreamInv and is a step of MsgStream.
LEMMA StreamStep ==
    ASSUME PlainBodies
    PROVE  TTypeOK /\ StreamInv /\ [TNext]_tvars
           => StreamInv' /\ [Stream!Next]_<<written, taken>>
<1>h. SUFFICES ASSUME TTypeOK, StreamInv, [TNext]_tvars
               PROVE  StreamInv' /\ [Stream!Next]_<<written, taken>>
  OBVIOUS
<1>1. CASE UNCHANGED <<buf, stream, taken>>
  BY <1>h, <1>1, StreamKept
<1>2. CASE TcpPreviousMessage
  <2>1. /\ Complete(buf) /\ taken' = Append(taken, FirstMsg(buf)) /\ buf' = Rest(buf)
        /\ wire' = wire /\ written' = written /\ connection' = connection
    BY <1>2 DEF TcpPreviousMessage, HasPrevious, stream
  <2>2. buf \in Seq(Symbols) /\ wire' \in Seq(Text) /\ Pending = buf \o wire'
    BY <1>h, <2>1 DEF TTypeOK, StreamInv, Pending
  <2>3. StreamInv' /\ Stream!Take
    BY <1>h, <2>1, <2>2, OneTaken
  <2> QED
    BY <2>3 DEF Stream!Next
<1>3. ASSUME NEW n, NEW all, RecvMessage(n, all)
      PROVE  StreamInv' /\ [Stream!Next]_<<written, taken>>
  <2>1. /\ Recv(n, all) /\ Complete(all) /\ taken' = Append(taken, FirstMsg(all))
        /\ buf' = Rest(all) /\ written' = written /\ connection' = connection
    BY <1>3 DEF RecvMessage, Recv
  <2>2. all \in Seq(Symbols) /\ wire' \in Seq(Text) /\ Pending = all \o wire'
    BY <1>h, <2>1, SegmentIsPending DEF StreamInv
  <2>3. StreamInv' /\ Stream!Take
    BY <1>h, <2>1, <2>2, OneTaken
  <2> QED
    BY <2>3 DEF Stream!Next
<1>4. ASSUME NEW n, NEW all, RecvPartial(n, all)
      PROVE  StreamInv' /\ [Stream!Next]_<<written, taken>>
  <2>1. /\ Recv(n, all) /\ buf' = all
        /\ written' = written /\ connection' = connection /\ taken' = taken
    BY <1>4 DEF RecvPartial, Recv
  <2>2. wire' \in Seq(Text) /\ Pending = all \o wire'
    BY <1>h, <2>1, SegmentIsPending DEF StreamInv
  <2>3. Pending' = Pending
    BY <2>1, <2>2 DEF Pending
  <2> QED
    BY <1>h, <2>1, <2>2, <2>3 DEF StreamInv
<1>5. ASSUME NEW b \in Bodies, ServerWrites(b)
      PROVE  StreamInv' /\ [Stream!Next]_<<written, taken>>
  <2>1. StreamInv' /\ Stream!Write(b \o CRLF)
    BY <1>h, <1>5, WriteAdds
  <2>2. b \o CRLF \in Messages
    BY DEF Messages
  <2> QED
    BY <2>1, <2>2 DEF Stream!Next
<1>6. CASE ServerCloses
  BY <1>h, <1>6, CloseLeaves
<1>7. CASE ServerResets
  BY <1>h, <1>7, ResetCuts
<1>8. CASE TcpThread /\ ~TcpPreviousMessage
  BY <1>1, <1>8 DEF TcpThread, TcpProceed, TcpNoPreviousMessage, TcpSendOk, TcpSendFails
<1>9. CASE RecvEnd \/ RecvOverruns \/ RecvFails
  BY <1>1, <1>9 DEF RecvEnd, RecvOverruns, RecvFails
<1>10. CASE TcpKeyboardReady \/ TcpUserLine \/ TcpResponseTimeout \/ TcpSelectError \/ TcpSignal
  BY <1>1, <1>10 DEF TcpKeyboardReady, TcpUserLine, TcpResponseTimeout, TcpSelectError, TcpSignal
<1>11. CASE UNCHANGED tvars
  BY <1>1, <1>11 DEF tvars
<1>12. CASE TcpReceive
  BY <1>3, <1>4, <1>9, <1>12 DEF TcpReceive
<1> QED
  BY <1>h, <1>2, <1>5, <1>6, <1>7, <1>8, <1>10, <1>11, <1>12 DEF TNext

LEMMA StreamStarts == TInit => StreamInv /\ Stream!Init
<1>h. SUFFICES ASSUME TInit PROVE StreamInv /\ Stream!Init
  OBVIOUS
<1>1. buf = <<>> /\ wire = <<>> /\ written = <<>> /\ taken = <<>>
  BY <1>h DEF TInit
<1>2. << >> \in Seq(Text) /\ << >> \in Seq(Symbols) /\ Len(<< >>) = 0
  OBVIOUS
<1>3. Pending = << >>
  BY <1>1, <1>2, ConcatEmptySeq DEF Pending
<1>4. Holds(<< >>, << >>, 0, connection)
  <2> DEFINE P == [k \in 1 .. 1 |-> 0]
  <2>1. P[1] = 0 /\ P \in [1 .. 1 -> Nat]
    OBVIOUS
  <2> HIDE DEF P
  <2>2. Laid(<< >>, << >>, 0, P)
    BY <1>2, <2>1 DEF Laid
  <2>3. Tailed(<< >>, P[1])
    BY <1>2, <2>1 DEF Tailed
  <2>4. 0 + 1 = 1
    OBVIOUS
  <2> QED
    BY <1>2, <2>1, <2>2, <2>3, <2>4 DEF Holds
<1>5. StreamInv
  <2>1. Len(taken) = 0 /\ Len(taken) <= Len(written) /\ wire \in Seq(Text)
    BY <1>1, <1>2
  <2> QED
    BY <1>1, <1>3, <1>4, <2>1 DEF StreamInv
<1> QED
  BY <1>1, <1>5 DEF Stream!Init

LEMMA StreamInvHolds == ASSUME PlainBodies PROVE TSpec => []StreamInv
<1>1. TInit => StreamInv
  BY StreamStarts
<1>2. TTypeOK /\ StreamInv /\ [TNext]_tvars => StreamInv'
  BY StreamStep
<1> QED
  BY <1>1, <1>2, TcpTypeCorrect, PTL DEF TSpec

\* README.md:74-75: however recv() cuts the stream into segments, tcp_process_msg()
\* gets the messages of the server whole, each once and in the order written,
\* also when the connection is closed or reset in the middle of one.  The texts
\* must be free of NUL: behind one, copy() erases what follows (buffer.c:54).
THEOREM SegmentationHidden ==
    ASSUME PlainBodies
    PROVE  TSpec => ImplementsMsgStream
<1>1. TInit => Stream!Init
  BY StreamStarts
<1>2. TTypeOK /\ StreamInv /\ [TNext]_tvars => [Stream!Next]_<<written, taken>>
  BY StreamStep
<1> QED
  BY <1>1, <1>2, TcpTypeCorrect, StreamInvHolds, PTL
  DEF TSpec, ImplementsMsgStream, Stream!Spec

\* What was processed is the beginning of what was written.
TakenInOrder == Len(taken) <= Len(written) /\ \A i \in 1 .. Len(taken) : taken[i] = written[i]

LEMMA TakenStep ==
    TTypeOK /\ TakenInOrder /\ [Stream!Next]_<<written, taken>> => TakenInOrder'
<1> SUFFICES ASSUME TTypeOK, TakenInOrder, [Stream!Next]_<<written, taken>>
             PROVE  TakenInOrder'
  OBVIOUS
<1>1. /\ written \in Seq(Messages) /\ Len(written) \in Nat
      /\ taken \in Seq(Seq(Symbols)) /\ Len(taken) \in Nat
  BY LenProperties DEF TTypeOK
<1>2. CASE Stream!Take
  <2> DEFINE m == written[Len(taken) + 1]
  <2>1. /\ Len(taken) < Len(written) /\ taken' = Append(taken, m) /\ written' = written
    BY <1>2 DEF Stream!Take
  <2>2. m \in Seq(Symbols)
    BY <1>1, <2>1, MessageShape
  <2>3. /\ Len(taken') = Len(taken) + 1 /\ taken'[Len(taken) + 1] = m
        /\ \A i \in 1 .. Len(taken) : taken'[i] = taken[i]
    BY <1>1, <2>1, <2>2, AppendProperties
  <2> QED
    BY <1>1, <2>1, <2>3 DEF TakenInOrder
<1>3. ASSUME NEW m \in Messages, Stream!Write(m) PROVE TakenInOrder'
  <2>1. /\ Len(written') = Len(written) + 1 /\ taken' = taken
        /\ \A i \in 1 .. Len(written) : written'[i] = written[i]
    BY <1>1, <1>3, AppendProperties DEF Stream!Write
  <2> QED
    BY <1>1, <2>1 DEF TakenInOrder
<1>4. CASE UNCHANGED <<written, taken>>
  BY <1>4 DEF TakenInOrder
<1> QED
  BY <1>2, <1>3, <1>4 DEF Stream!Next

\* What has reached tcp_process_msg() is the beginning of what the server wrote,
\* message for message; the rest lies in the buffer and on the way, complete as
\* long as the connection is open.
THEOREM NothingIsLost ==
    ASSUME PlainBodies
    PROVE  TSpec => [](TakenInOrder /\ StreamInv)
<1>1. TInit => Stream!Init
  BY StreamStarts
<1>2. Stream!Init => TakenInOrder
  BY DEF Stream!Init, TakenInOrder
<1>3. TTypeOK /\ StreamInv /\ [TNext]_tvars => [Stream!Next]_<<written, taken>>
  BY StreamStep
<1> QED
  BY <1>1, <1>2, <1>3, TakenStep, TcpTypeCorrect, StreamInvHolds, PTL DEF TSpec

\* A stream that was closed is not at its end as long as a message is due.
LEMMA DueIsComplete ==
    ASSUME NEW s \in Seq(Symbols), NEW msgs \in Seq(Messages), NEW done \in 0 .. Len(msgs)
    PROVE  Holds(s, msgs, done, "fin") /\ done < Len(msgs) => Complete(s)
<1>h. SUFFICES ASSUME Holds(s, msgs, done, "fin"), done < Len(msgs) PROVE Complete(s)
  OBVIOUS
<1> DEFINE c == Len(msgs)
           m == msgs[done + 1]
           e == Len(m) - 1
<1>1. PICK P \in [done + 1 .. c + 1 -> Nat] : Laid(s, msgs, done, P) /\ Len(s) >= P[c + 1]
  BY <1>h DEF Holds
<1>2. /\ Len(s) \in Nat /\ c \in Nat /\ done \in Nat /\ done < c
  BY <1>h, LenProperties
<1>3. m \in Messages /\ Len(m) \in Nat /\ Len(m) >= 2 /\ Ends(m) = {Len(m) - 1}
  <2>1. m \in Messages
    BY <1>2
  <2> QED
    BY <2>1, MessageShape
<1>4. Len(m) <= Len(s)
  <2>1. /\ done + 1 \in done + 1 .. c /\ (done + 1) + 1 \in done + 1 .. c + 1
        /\ c + 1 \in done + 1 .. c + 1 /\ (done + 1) + 1 <= c + 1
    BY <1>2
  <2>2. P[done + 1] = 0 /\ P[(done + 1) + 1] = P[done + 1] + Len(m)
    BY <1>1, <2>1 DEF Laid
  <2>3. P[(done + 1) + 1] <= P[c + 1]
    BY <1>1, <2>1 DEF Laid
  <2>4. P[(done + 1) + 1] \in Nat /\ P[c + 1] \in Nat
    BY <2>1
  <2>5. P[(done + 1) + 1] = Len(m)
    BY <1>3, <2>2
  <2> QED
    BY <1>1, <1>2, <1>3, <2>3, <2>4, <2>5
<1>5. ASSUME NEW j \in 1 .. Len(m) PROVE s[j] = m[j]
  <2>1. done + 1 \in done + 1 .. c /\ P[done + 1] = 0 /\ 0 + j = j /\ j <= Len(s)
    BY <1>1, <1>2, <1>3, <1>4 DEF Laid
  <2>2. P[done + 1] + j <= Len(s) => s[P[done + 1] + j] = m[j]
    BY <1>1, <2>1 DEF Laid
  <2> QED
    BY <2>1, <2>2
<1>6. e \in 1 .. Len(m) - 1 /\ m[e] = "CR" /\ m[e + 1] = "LF"
  BY <1>3 DEF Ends
<1>7. e \in 1 .. Len(m) /\ e + 1 \in 1 .. Len(m) /\ e \in 1 .. Len(s) - 1
  BY <1>2, <1>3, <1>4
<1>8. s[e] = "CR" /\ s[e + 1] = "LF"
  BY <1>5, <1>6, <1>7
<1> QED
  BY <1>7, <1>8 DEF Complete, Ends

\* When recv() returns 0 (comm_tcp.c:105) every message that the server finished
\* has been processed: none lies complete in the buffer while await() is blocked
\* in select(), and none is cut short by an orderly close.
THEOREM HangUpIsLast ==
    ASSUME PlainBodies
    PROVE  TSpec => HangUpComesLast
<1>1. TcpInv /\ StreamInv /\ TakenInOrder /\ RecvEnd => taken = written
  <2> SUFFICES ASSUME TcpInv, StreamInv, TakenInOrder, RecvEnd PROVE taken = written
    OBVIOUS
  <2>1. wire = << >> /\ connection = "fin" /\ pc = "select"
    BY DEF RecvEnd, SelectServer
  <2>2. /\ written \in Seq(Messages) /\ taken \in Seq(Seq(Symbols)) /\ buf \in Seq(Symbols)
        /\ Len(written) \in Nat /\ Len(taken) \in Nat /\ Len(taken) <= Len(written)
    BY LenProperties DEF TcpInv, TTypeOK, TakenInOrder
  <2>3. Pending = buf
    BY <2>1, <2>2, ConcatEmptySeq DEF Pending
  <2>4. Holds(buf, written, Len(taken), "fin")
    BY <2>1, <2>3 DEF StreamInv
  <2>5. ~Complete(buf)
    BY <2>1 DEF TcpInv, NothingCompleteLeft
  <2>6. Len(taken) = Len(written)
    <3>1. Len(taken) \in 0 .. Len(written)
      BY <2>2
    <3>2. ~(Len(taken) < Len(written))
      BY <2>2, <2>4, <2>5, <3>1, DueIsComplete
    <3> QED
      BY <2>2, <3>2
  <2>7. \A i \in 1 .. Len(taken) : taken[i] = written[i]
    BY DEF TakenInOrder
  <2> QED
    <3>1. \A i \in 1 .. Len(written) : written[i] \in Seq(Symbols)
      BY <2>2, MessageShape
    <3>2. written \in Seq(Seq(Symbols))
      BY <2>2, <3>1
    <3> QED
      BY <2>2, <2>6, <2>7, <3>2, SeqEqual
<1>2. TSpec => [](TakenInOrder /\ StreamInv)
  BY NothingIsLost
<1> QED
  BY <1>1, <1>2, TcpInvHolds, PTL DEF TSpec, HangUpComesLast
=============================================================================
