-------------------------- MODULE UdpClient_proofs --------------------------
(***************************************************************************)
(* What holds of the client over UDP for every number of retransmissions,  *)
(* every queue size, every server and any number of duplicates.            *)
(***************************************************************************)
EXTENDS UdpClient, ChatClient_proofs, SequenceTheorems

(***************************************************************************)
(* UdpClient implements ChatClient: each of its steps is a step of         *)
(* ChatClient or leaves the variables of ChatClient alone.                 *)
(***************************************************************************)

LEMMA ParseType == \A d : Parse(d) \in RecvTypes
  BY DEF Parse, RecvTypes

LEMMA ReceiveIsStep == ASSUME NEW d, ReceivesOf(d) PROVE [Next]_vars
<1>1. CASE ReceiveUndersized(d) \/ ReceiveUnknown(d) \/ ReceiveUnconfirmed(d)
  BY <1>1 DEF ReceiveUndersized, ReceiveUnknown, ReceiveUnconfirmed, Next, Environment, RecvTypes
<1>2. CASE ReceiveSeen(d)
  BY <1>2 DEF ReceiveSeen, Next, Environment, RecvTypes
<1>3. CASE ReceiveNew(d)
  BY <1>3, ParseType DEF ReceiveNew, Next, Environment
<1>4. CASE Confirmed(d)
  BY <1>4 DEF Confirmed, Next, ClientStep
<1>5. CASE StrayOverflows(d) \/ StrayUnconfirmed(d) \/ EmptyFails(d)
  BY <1>5 DEF StrayOverflows, StrayUnconfirmed, EmptyFails, Next, ClientStep
<1>6. CASE StraySeen(d) \/ StrayStored(d) \/ EmptyRetried(d)
  BY <1>6 DEF StraySeen, StrayStored, EmptyRetried
<1> QED
  BY <1>1, <1>2, <1>3, <1>4, <1>5, <1>6 DEF ReceivesOf

LEMMA ThreadIsStep == Thread => [Next]_vars
<1>1. CASE Proceed
  BY <1>1 DEF Proceed, Next, ClientStep
<1>2. CASE PreviousMessage
  BY <1>2, ParseType DEF PreviousMessage, Next, ClientStep
<1>3. CASE NoPreviousMessage
  BY <1>3 DEF NoPreviousMessage, Next, ClientStep
<1>4. CASE StartSending
  BY <1>4 DEF StartSending, Next, ClientStep
<1>5. CASE GiveUp
  BY <1>5 DEF GiveUp, Next, ClientStep
<1>6. CASE Transmit \/ ConfirmTimeout
  BY <1>6 DEF Transmit, ConfirmTimeout
<1> QED
  BY <1>1, <1>2, <1>3, <1>4, <1>5, <1>6 DEF Thread

LEMMA StepIsStep == [UNext]_uvars => [Next]_vars
<1> SUFFICES ASSUME [UNext]_uvars PROVE [Next]_vars
  OBVIOUS
<1>1. CASE Thread
  BY <1>1, ThreadIsStep
<1>2. CASE \E d \in toClient : ReceivesOf(d)
  BY <1>2, ReceiveIsStep
<1>3. CASE TransmitFails \/ ConfirmInterrupted
  BY <1>3 DEF TransmitFails, ConfirmInterrupted, Next, ClientStep, Environment
<1>4. CASE KeyboardReady \/ UserInput
  BY <1>4 DEF KeyboardReady, UserInput, Next, Environment
<1>5. CASE ResponseTimeout \/ SelectError \/ Signal
  BY <1>5 DEF ResponseTimeout, SelectError, Signal, Next, Environment
<1>6. CASE \E m \in toServer : ServerReceives(m)
  BY <1>6 DEF ServerReceives
<1>7. CASE \E k \in SrvKinds : ServerSends(k)
  BY <1>7 DEF ServerSends
<1>8. CASE UNCHANGED uvars
  BY <1>8 DEF uvars
<1> QED
  BY <1>1, <1>2, <1>3, <1>4, <1>5, <1>6, <1>7, <1>8 DEF UNext, Outside

\* Whatever the network and the server do, the client over UDP is a ChatClient,
\* and so has the properties proved of it.
THEOREM UdpImplementsChatClient == USpec => ImplementsChatClient
<1>1. UInit => Init
  BY DEF UInit
<1> QED
  BY <1>1, StepIsStep, PTL DEF USpec, Spec, ImplementsChatClient

COROLLARY UdpKeepsIInv == USpec => []IInv
  BY UdpImplementsChatClient, Inductive, PTL DEF ImplementsChatClient

----------------------------------------------------------------------------
(* Type correctness, together with the count of attempts it depends on.    *)

\* While a CONFIRM is awaited the loop of udp_send_msg() is not over, and the
\* copies sent are those of the turns made so far.
AttemptsInv ==
    /\ EveryAttemptSends
    /\ waiting => pc = "send" /\ resend /\ attempt <= Retransmissions

\* Ids wrap within their range.
LEMMA ModInRange == ASSUME NEW n \in Nat PROVE n % IdMod \in Ids
  BY IdModAssumption DEF Ids

\* Taking a datagram from the network keeps the types of what is in flight.
LEMMA DeliverTypes ==
    ASSUME UTypeOK, NEW d, Deliver(d)
    PROVE  /\ d \in Datagrams
           /\ toServer' \subseteq [type : SentTypes, id : Ids]
           /\ toClient' \subseteq Datagrams
           /\ dups' \in 0 .. MaxDups
  BY BoundsAssumption DEF UTypeOK, Deliver

LEMMA ConfirmTypes ==
    ASSUME UTypeOK, NEW d \in Datagrams, Confirm(d)
    PROVE  confirmed' \subseteq Datagrams
  BY DEF UTypeOK, Confirm

LEMMA IdleTypes ==
    ASSUME Idle
    PROVE  /\ waiting' \in BOOLEAN /\ ~waiting' /\ resend' \in BOOLEAN
           /\ attempt' \in 0 .. Retransmissions + 1
           /\ copies' \in 0 .. Retransmissions + 1
<1>1. 0 \in 0 .. Retransmissions + 1
  BY OptionsAssumption
<1> QED
  BY <1>1 DEF Idle

\* Receiving a datagram, in select() or in udp_send_msg().
LEMMA ReceiveTypes ==
    ASSUME UTypeOK, AttemptsInv, TypeOK', NEW d, ReceivesOf(d)
    PROVE  UTypeOK' /\ AttemptsInv'
<1>0. /\ d \in Datagrams
      /\ toServer' \subseteq [type : SentTypes, id : Ids]
      /\ toClient' \subseteq Datagrams
      /\ dups' \in 0 .. MaxDups
  BY DeliverTypes DEF ReceivesOf, ReceiveUndersized, ReceiveUnknown, ReceiveSeen, ReceiveNew,
     ReceiveUnconfirmed, Confirmed, Stray, StraySeen, StrayStored, StrayOverflows,
     StrayUnconfirmed, EmptyRetried, EmptyFails
<1>1. confirmed' \subseteq Datagrams
  <2>1. Confirm(d) \/ confirmed' = confirmed
    BY DEF ReceivesOf, ReceiveUndersized, ReceiveUnknown, ReceiveSeen, ReceiveNew,
       ReceiveUnconfirmed, Confirmed, StraySeen, StrayStored, StrayOverflows,
       StrayUnconfirmed, EmptyRetried, EmptyFails
  <2> QED
    BY <1>0, <2>1, ConfirmTypes DEF UTypeOK
<1>2. d.id \in Ids
  BY <1>0 DEF Datagrams
<1>3. ASSUME NEW t, SelectServer(t), UNCHANGED sender PROVE AttemptsInv'
  BY <1>3 DEF SelectServer, sender, AttemptsInv, EveryAttemptSends
<1> USE DEF UTypeOK
<1>4. CASE ReceiveUndersized(d) \/ ReceiveUnknown(d) \/ ReceiveSeen(d) \/ ReceiveUnconfirmed(d)
  <2>1. AttemptsInv'
    BY <1>3, <1>4 DEF ReceiveUndersized, ReceiveUnknown, ReceiveSeen, ReceiveUnconfirmed
  <2> QED
    BY <1>0, <1>1, <1>4, <2>1 DEF ReceiveUndersized, ReceiveUnknown, ReceiveSeen,
       ReceiveUnconfirmed, sender, inbox, server
<1>5. CASE ReceiveNew(d)
  <2>1. AttemptsInv'
    BY <1>3, <1>5 DEF ReceiveNew
  <2> QED
    BY <1>0, <1>1, <1>2, <1>5, <2>1 DEF ReceiveNew, Remember, sender, server
<1>6. CASE Confirmed(d)
  <2>1. msg_id' \in Ids
    BY <1>6, ModInRange DEF Confirmed, Ids
  <2>2. AttemptsInv'
    BY <1>6 DEF Confirmed, SendOk, Idle, AttemptsInv, EveryAttemptSends
  <2> QED
    BY <1>0, <1>1, <1>6, <2>1, <2>2, IdleTypes DEF Confirmed, inbox, server
<1>7. ASSUME SameTurn, UNCHANGED vars, waiting PROVE AttemptsInv'
  BY <1>7 DEF SameTurn, vars, AttemptsInv, EveryAttemptSends
<1>8. CASE StraySeen(d)
  <2>1. AttemptsInv'
    BY <1>7, <1>8 DEF StraySeen, Stray
  <2> QED
    BY <1>0, <1>1, <1>8, <2>1 DEF StraySeen, SameTurn, inbox, server
<1>9. CASE StrayStored(d)
  <2>1. AttemptsInv'
    BY <1>7, <1>9 DEF StrayStored, Stray
  <2>2. queue' \in Seq(Datagrams) /\ Len(queue') <= MaxQueue
    BY <1>0, <1>9, QueueAssumption, LenProperties, AppendProperties DEF StrayStored, PutAside
  <2> QED
    BY <1>0, <1>1, <1>2, <1>9, <2>1, <2>2 DEF StrayStored, Remember, SameTurn, server
<1>10. CASE StrayOverflows(d) \/ StrayUnconfirmed(d) \/ EmptyFails(d)
  <2>1. Idle /\ SendFailed(FALSE) /\ UNCHANGED <<msg_id, inbox, server, typed>>
    BY <1>10 DEF StrayOverflows, StrayUnconfirmed, EmptyFails
  <2>2. AttemptsInv'
    BY <2>1 DEF SendFailed, Idle, AttemptsInv, EveryAttemptSends
  <2> QED
    BY <1>0, <1>1, <2>1, <2>2, IdleTypes DEF inbox, server
<1>11. CASE EmptyRetried(d)
  <2>1. attempt' \in 0 .. Retransmissions + 1
    BY <1>11, OptionsAssumption DEF EmptyRetried, NextTurn, AttemptsInv
  <2>2. AttemptsInv'
    BY <1>11 DEF EmptyRetried, NextTurn, AttemptsInv, EveryAttemptSends, vars
  <2> QED
    BY <1>0, <1>1, <1>11, <2>1, <2>2 DEF EmptyRetried, NextTurn, inbox, server
<1> QED
  BY <1>4, <1>5, <1>6, <1>8, <1>9, <1>10, <1>11 DEF ReceivesOf

\* What the client does by itself.
LEMMA ThreadTypes ==
    ASSUME UTypeOK, AttemptsInv, IInv, TypeOK', Thread
    PROVE  UTypeOK' /\ AttemptsInv'
<1> USE DEF UTypeOK
<1>1. CASE Proceed
  <2>1. AttemptsInv'
    BY <1>1 DEF Proceed, LoopCall, LoopExit, EnterSelect, ReactQuietly, sender, AttemptsInv,
       EveryAttemptSends
  <2> QED
    BY <1>1, <2>1 DEF Proceed, sender, inbox, server, flight
<1>2. CASE PreviousMessage
  <2>1. AttemptsInv'
    BY <1>2 DEF PreviousMessage, AwaitNothing, AwaitFound, sender, AttemptsInv, EveryAttemptSends
  <2>2. queue' \in Seq(Datagrams) /\ Len(queue') <= MaxQueue /\ handled' \in Seq(Datagrams)
    BY <1>2, QueueAssumption, LenProperties, HeadTailProperties, AppendProperties
       DEF PreviousMessage
  <2> QED
    BY <1>2, <2>1, <2>2 DEF PreviousMessage, sender, server, flight
<1>3. CASE NoPreviousMessage
  <2>1. AttemptsInv'
    BY <1>3 DEF NoPreviousMessage, AwaitNothing, sender, AttemptsInv, EveryAttemptSends
  <2> QED
    BY <1>3, <2>1 DEF NoPreviousMessage, sender, inbox, server, flight
<1>4. CASE StartSending
  <2>1. AttemptsInv'
    BY <1>4 DEF StartSending, AttemptsInv, EveryAttemptSends
  <2>2. Idle
    BY <1>4 DEF StartSending, Idle
  <2> QED
    BY <1>4, <2>1, <2>2, IdleTypes DEF StartSending, inbox, server, flight
<1>5. CASE Transmit
  <2>1. toServer' \subseteq [type : SentTypes, id : Ids]
    BY <1>5 DEF Transmit, Current, IInv, SendsFromState, TypeOK
  <2>2. AttemptsInv' /\ copies' \in 0 .. Retransmissions + 1
    BY <1>5, OptionsAssumption DEF Transmit, TurnsLeft, vars, AttemptsInv, EveryAttemptSends
  <2> QED
    BY <1>5, <2>1, <2>2 DEF Transmit, inbox, server
<1>6. CASE GiveUp
  <2>1. AttemptsInv'
    BY <1>6 DEF GiveUp, SendFailed, Idle, AttemptsInv, EveryAttemptSends
  <2> QED
    BY <1>6, <2>1, IdleTypes DEF GiveUp, inbox, server, flight
<1>7. CASE ConfirmTimeout
  <2>1. AttemptsInv' /\ attempt' \in 0 .. Retransmissions + 1
    BY <1>7, OptionsAssumption
       DEF ConfirmTimeout, NextTurn, AttemptsInv, EveryAttemptSends, vars
  <2> QED
    BY <1>7, <2>1 DEF ConfirmTimeout, NextTurn, inbox, server, flight
<1> QED
  BY <1>1, <1>2, <1>3, <1>4, <1>5, <1>6, <1>7 DEF Thread

\* The user, the timers, SIGINT and the server.
LEMMA NextTypes ==
    ASSUME UTypeOK, AttemptsInv, IInv, TypeOK', [UNext]_uvars
    PROVE  UTypeOK' /\ AttemptsInv'
<1> USE DEF UTypeOK
<1>1. CASE Thread
  BY <1>1, ThreadTypes
<1>2. CASE \E d \in toClient : ReceivesOf(d)
  BY <1>2, ReceiveTypes
<1>3. CASE TransmitFails \/ ConfirmInterrupted
  <2>1. AttemptsInv'
    BY <1>3 DEF TransmitFails, ConfirmInterrupted, SendFailed, Idle, AttemptsInv,
       EveryAttemptSends
  <2> QED
    BY <1>3, <2>1, IdleTypes DEF TransmitFails, ConfirmInterrupted, inbox, server, flight
<1>4. CASE UserInput
  <2>1. AttemptsInv'
    BY <1>4 DEF UserInput, UserLine, sender, AttemptsInv, EveryAttemptSends
  <2>2. typed' \in 0 .. MaxTyped
    BY <1>4, BoundsAssumption DEF UserInput
  <2> QED
    BY <1>4, <2>1, <2>2 DEF UserInput, sender, inbox, server, flight
<1>5. CASE KeyboardReady \/ ResponseTimeout \/ SelectError \/ Signal
  <2>1. AttemptsInv'
    BY <1>5 DEF KeyboardReady, ResponseTimeout, SelectError, Signal, SelectKeyboard,
       SelectTimeout, SelectFails, SignalInSelect, SignalElsewhere, sender, AttemptsInv,
       EveryAttemptSends
  <2> QED
    BY <1>5, <2>1 DEF KeyboardReady, ResponseTimeout, SelectError, Signal, sender, inbox,
       server, flight
<1>6. ASSUME NEW m \in toServer, ServerReceives(m) PROVE UTypeOK' /\ AttemptsInv'
  <2>1. AttemptsInv'
    BY <1>6 DEF ServerReceives, sender, vars, AttemptsInv, EveryAttemptSends
  <2>2. /\ m.id \in Ids /\ 0 \in Ids
        /\ toServer' \subseteq toServer
        /\ dups' \in 0 .. MaxDups
    BY <1>6, BoundsAssumption, IdModAssumption DEF ServerReceives, Ids
  <2>3. toClient' \subseteq Datagrams
    BY <1>6, <2>2 DEF ServerReceives, Datagrams
  <2> QED
    BY <1>6, <2>1, <2>2, <2>3 DEF ServerReceives, sender, inbox
<1>7. ASSUME NEW k \in SrvKinds, ServerSends(k) PROVE UTypeOK' /\ AttemptsInv'
  <2>1. AttemptsInv'
    BY <1>7 DEF ServerSends, sender, vars, AttemptsInv, EveryAttemptSends
  <2>2. (SrvFirst + srvSent) % IdMod \in Ids /\ 0 \in Ids
    <3>1. SrvFirst + srvSent \in Nat
      BY ServerAssumption, IdModAssumption, BoundsAssumption
    <3>2. 0 \in Ids
      BY IdModAssumption DEF Ids
    <3> QED
      BY <3>1, <3>2, ModInRange
  <2>3. toClient' \subseteq Datagrams
    BY <1>7, <2>2, ServerAssumption DEF ServerSends, Datagrams
  <2>4. srvSent' \in 0 .. MaxSrv
    BY <1>7, BoundsAssumption DEF ServerSends
  <2> QED
    BY <1>7, <2>1, <2>3, <2>4 DEF ServerSends, sender, inbox
<1>8. CASE UNCHANGED uvars
  BY <1>8 DEF uvars, vars, sender, inbox, server, flight, AttemptsInv, EveryAttemptSends
<1> QED
  BY <1>1, <1>2, <1>3, <1>4, <1>5, <1>6, <1>7, <1>8 DEF UNext, Outside

LEMMA InitTypes == UInit => UTypeOK /\ AttemptsInv
<1> SUFFICES ASSUME UInit PROVE UTypeOK /\ AttemptsInv
  OBVIOUS
<1>1. TypeOK
  BY InitIInv DEF UInit, IInv
<1>2. AttemptsInv
  BY DEF UInit, Init, AttemptsInv, EveryAttemptSends
<1> QED
  <2>1. 0 \in Ids /\ 0 \in 0 .. Retransmissions + 1 /\ 0 \in 0 .. MaxDups
        /\ 0 \in 0 .. MaxSrv /\ 0 \in 0 .. MaxTyped
    BY IdModAssumption, OptionsAssumption, BoundsAssumption DEF Ids
  <2>2. << >> \in Seq(Datagrams) /\ Len(<< >>) = 0
    BY EmptySeq
  <2>3. Len(queue) <= MaxQueue
    BY <2>2, QueueAssumption DEF UInit
  <2> QED
    BY <1>1, <1>2, <2>1, <2>2, <2>3 DEF UInit, UTypeOK

THEOREM UdpTypeCorrect == USpec => [](UTypeOK /\ AttemptsInv)
<1>1. IInv => TypeOK
  BY DEF IInv
<1> QED
  BY <1>1, InitTypes, NextTypes, UdpKeepsIInv, PTL DEF USpec

\* Every turn of udp_send_msg() that times out has sent a copy, and giving up
\* means Retransmissions + 1 copies: no stray datagram costs an attempt.
THEOREM AttemptsCounted == USpec => []EveryAttemptSends
<1>1. AttemptsInv => EveryAttemptSends
  BY DEF AttemptsInv
<1> QED
  BY <1>1, UdpTypeCorrect, PTL

----------------------------------------------------------------------------
(* Every id is parsed at most once.                                        *)

UniqueIds(s) == \A i, j \in 1 .. Len(s) : i # j => s[i].id # s[j].id
IdsIn(s, I) == \A i \in 1 .. Len(s) : s[i].id \in I
NoCommonId(s, t) == \A i \in 1 .. Len(s), j \in 1 .. Len(t) : s[i].id # t[j].id

\* AtMostOnce for the two halves of Received, and why a new datagram cannot
\* break it: the list of ids knows all of them.
OnceInv ==
    /\ UniqueIds(handled) /\ UniqueIds(queue) /\ NoCommonId(handled, queue)
    /\ IdsIn(handled, seen) /\ IdsIn(queue, seen)

LEMMA AppendUnique ==
    ASSUME NEW S, NEW s \in Seq(S), NEW d \in S, NEW I, UniqueIds(s), IdsIn(s, I), d.id \notin I
    PROVE  UniqueIds(Append(s, d)) /\ IdsIn(Append(s, d), I \cup {d.id})
<1> DEFINE t == Append(s, d)
<1>1. /\ Len(t) = Len(s) + 1 /\ Len(s) \in Nat
      /\ \A i \in 1 .. Len(s) : t[i] = s[i]
      /\ t[Len(s) + 1] = d
  BY AppendProperties, LenProperties
<1>2. \A i \in 1 .. Len(t) : i \in 1 .. Len(s) \/ i = Len(s) + 1
  BY <1>1
<1> HIDE DEF t
<1>3. UniqueIds(t)
  BY <1>1, <1>2 DEF UniqueIds, IdsIn
<1>4. IdsIn(t, I \cup {d.id})
  BY <1>1, <1>2 DEF IdsIn
<1> QED
  BY <1>3, <1>4 DEF t

\* A new id at the end of one half is not in the other.
LEMMA AppendNoCommonId ==
    ASSUME NEW S, NEW s \in Seq(S), NEW t \in Seq(S), NEW d \in S,
           NoCommonId(s, t), NEW I, IdsIn(s, I), IdsIn(t, I), d.id \notin I
    PROVE  NoCommonId(Append(s, d), t) /\ NoCommonId(s, Append(t, d))
<1>1. ASSUME NEW u \in Seq(S)
      PROVE  /\ Len(Append(u, d)) = Len(u) + 1 /\ Len(u) \in Nat
             /\ \A i \in 1 .. Len(u) : Append(u, d)[i] = u[i]
             /\ Append(u, d)[Len(u) + 1] = d
             /\ \A i \in 1 .. Len(u) + 1 : i \in 1 .. Len(u) \/ i = Len(u) + 1
  <2>1. Len(u) \in Nat
    BY <1>1, LenProperties
  <2> QED
    BY <1>1, <2>1, AppendProperties
<1>2. \A i \in 1 .. Len(s) : s[i].id # d.id
  BY DEF IdsIn
<1>3. \A j \in 1 .. Len(t) : t[j].id # d.id
  BY DEF IdsIn
<1>4. NoCommonId(Append(s, d), t)
  <2> SUFFICES ASSUME NEW i \in 1 .. Len(Append(s, d)), NEW j \in 1 .. Len(t)
               PROVE  Append(s, d)[i].id # t[j].id
    BY DEF NoCommonId
  <2>1. CASE i \in 1 .. Len(s)
    BY <1>1, <2>1 DEF NoCommonId
  <2>2. CASE i = Len(s) + 1
    BY <1>1, <1>3, <2>2
  <2> QED
    BY <1>1, <2>1, <2>2
<1>5. NoCommonId(s, Append(t, d))
  <2> SUFFICES ASSUME NEW i \in 1 .. Len(s), NEW j \in 1 .. Len(Append(t, d))
               PROVE  s[i].id # Append(t, d)[j].id
    BY DEF NoCommonId
  <2>1. CASE j \in 1 .. Len(t)
    BY <1>1, <2>1 DEF NoCommonId
  <2>2. CASE j = Len(t) + 1
    BY <1>1, <1>2, <2>2
  <2> QED
    BY <1>1, <2>1, <2>2
<1> QED
  BY <1>4, <1>5

\* Moving the head of the queue to the handled datagrams loses nothing.
LEMMA PopKeepsUnique ==
    ASSUME NEW S, NEW h \in Seq(S), NEW q \in Seq(S), q # << >>, NEW I,
           UniqueIds(h), UniqueIds(q), NoCommonId(h, q), IdsIn(h, I), IdsIn(q, I)
    PROVE  /\ UniqueIds(Append(h, Head(q))) /\ UniqueIds(Tail(q))
           /\ NoCommonId(Append(h, Head(q)), Tail(q))
           /\ IdsIn(Append(h, Head(q)), I) /\ IdsIn(Tail(q), I)
<1> DEFINE g == Append(h, Head(q))
           r == Tail(q)
<1>1. /\ Head(q) \in S /\ Head(q) = q[1] /\ Len(q) \in Nat \ {0}
      /\ Len(r) = Len(q) - 1
      /\ \A i \in 1 .. Len(r) : r[i] = q[i + 1]
  BY HeadTailProperties, EmptySeq
<1>2. /\ Len(g) = Len(h) + 1 /\ Len(h) \in Nat
      /\ \A i \in 1 .. Len(h) : g[i] = h[i]
      /\ g[Len(h) + 1] = q[1]
  BY <1>1, AppendProperties, LenProperties
<1>3. \A i \in 1 .. Len(g) : i \in 1 .. Len(h) \/ i = Len(h) + 1
  BY <1>2
<1>4. /\ 1 \in 1 .. Len(q)
      /\ \A i \in 1 .. Len(r) : i + 1 \in 1 .. Len(q) /\ i + 1 # 1
      /\ \A i, j \in 1 .. Len(r) : i # j => i + 1 # j + 1
  BY <1>1
<1> HIDE DEF g, r
<1>5. UniqueIds(g) /\ IdsIn(g, I)
  <2>1. q[1].id \in I /\ \A i \in 1 .. Len(h) : h[i].id \in I /\ h[i].id # q[1].id
    BY <1>4 DEF IdsIn, NoCommonId
  <2>2. IdsIn(g, I)
    BY <1>2, <1>3, <2>1 DEF IdsIn
  <2>3. UniqueIds(g)
    BY <1>2, <1>3, <2>1 DEF UniqueIds
  <2> QED
    BY <2>2, <2>3
<1>6. UniqueIds(r) /\ IdsIn(r, I)
  <2>1. IdsIn(r, I)
    BY <1>1, <1>4 DEF IdsIn
  <2>2. ASSUME NEW i \in 1 .. Len(r), NEW j \in 1 .. Len(r), i # j
        PROVE  r[i].id # r[j].id
    BY <1>1, <1>4, <2>2 DEF UniqueIds
  <2> QED
    BY <2>1, <2>2 DEF UniqueIds
<1>7. NoCommonId(g, r)
  BY <1>1, <1>2, <1>3, <1>4, SMTT(40) DEF UniqueIds, NoCommonId
<1> QED
  BY <1>5, <1>6, <1>7 DEF g, r

LEMMA OnceStep ==
    ASSUME UTypeOK, OnceInv, [UNext]_uvars
    PROVE  OnceInv'
<1>1. CASE UNCHANGED inbox
  BY <1>1 DEF inbox, OnceInv, UniqueIds, IdsIn, NoCommonId
<1>2. CASE PreviousMessage
  <2>1. /\ queue # << >> /\ queue' = Tail(queue) /\ seen' = seen
        /\ handled' = Append(handled, Head(queue))
    BY <1>2 DEF PreviousMessage
  <2>2. queue \in Seq(Datagrams) /\ handled \in Seq(Datagrams)
    BY DEF UTypeOK
  <2> QED
    BY <2>1, <2>2, PopKeepsUnique DEF OnceInv
<1>3. ASSUME NEW d \in toClient, ReceiveNew(d) PROVE OnceInv'
  <2>1. /\ queue' = queue /\ seen' = seen \cup {d.id} /\ d.id \notin seen
        /\ handled' = Append(handled, d)
    BY <1>3 DEF ReceiveNew, Remember
  <2>2. queue \in Seq(Datagrams) /\ handled \in Seq(Datagrams) /\ d \in Datagrams
    BY DEF UTypeOK
  <2>3. UniqueIds(handled') /\ IdsIn(handled', seen') /\ NoCommonId(handled', queue)
    BY <2>1, <2>2, AppendUnique, AppendNoCommonId DEF OnceInv
  <2> QED
    BY <2>1, <2>3 DEF OnceInv, IdsIn
<1>4. ASSUME NEW d \in toClient, StrayStored(d) PROVE OnceInv'
  <2>1. /\ handled' = handled /\ seen' = seen \cup {d.id} /\ d.id \notin seen
        /\ queue' = Append(queue, d)
    BY <1>4 DEF StrayStored, Remember, PutAside
  <2>2. queue \in Seq(Datagrams) /\ handled \in Seq(Datagrams) /\ d \in Datagrams
    BY DEF UTypeOK
  <2>3. UniqueIds(queue') /\ IdsIn(queue', seen') /\ NoCommonId(handled, queue')
    BY <2>1, <2>2, AppendUnique, AppendNoCommonId DEF OnceInv
  <2> QED
    BY <2>1, <2>3 DEF OnceInv, IdsIn
<1>5. ASSUME NEW d \in toClient, ReceivesOf(d), ~ReceiveNew(d), ~StrayStored(d)
      PROVE  UNCHANGED inbox
  BY <1>5 DEF ReceivesOf, ReceiveUndersized, ReceiveUnknown, ReceiveSeen, ReceiveUnconfirmed,
     Confirmed, StraySeen, StrayOverflows, StrayUnconfirmed, EmptyRetried, EmptyFails
<1>6. CASE Thread /\ ~PreviousMessage
  <2>1. UNCHANGED inbox
    BY <1>6 DEF Thread, Proceed, NoPreviousMessage, StartSending, Transmit, GiveUp,
       ConfirmTimeout
  <2> QED
    BY <1>1, <2>1
<1>7. CASE ~Thread /\ ~\E d \in toClient : ReceivesOf(d)
  <2>1. UNCHANGED inbox
    BY <1>7 DEF UNext, Outside, TransmitFails, ConfirmInterrupted, KeyboardReady, UserInput,
       ResponseTimeout, SelectError, Signal, ServerReceives, ServerSends, uvars
  <2> QED
    BY <1>1, <2>1
<1> QED
  BY <1>1, <1>2, <1>3, <1>4, <1>5, <1>6, <1>7

LEMMA OnceMeansAtMostOnce == UTypeOK /\ OnceInv => AtMostOnce
<1> SUFFICES ASSUME UTypeOK, OnceInv,
                    NEW i \in 1 .. Len(Received), NEW j \in 1 .. Len(Received), i # j
             PROVE  Received[i].id # Received[j].id
  BY DEF AtMostOnce
<1> DEFINE m == Len(handled)
           n == Len(queue)
<1>1. /\ m \in Nat /\ n \in Nat /\ Len(Received) = m + n
      /\ \A k \in 1 .. m + n :
            Received[k] = IF k <= m THEN handled[k] ELSE queue[k - m]
  BY ConcatProperties, LenProperties DEF UTypeOK, Received
<1> HIDE DEF m, n
<1>2. \A k \in 1 .. m + n : k \in 1 .. m \/ (~(k <= m) /\ k - m \in 1 .. n)
  BY <1>1
<1>3. CASE i <= m /\ j <= m
  BY <1>1, <1>2, <1>3 DEF OnceInv, UniqueIds, m
<1>4. CASE i <= m /\ ~(j <= m)
  BY <1>1, <1>2, <1>4 DEF OnceInv, NoCommonId, m, n
<1>5. CASE ~(i <= m) /\ j <= m
  BY <1>1, <1>2, <1>5 DEF OnceInv, NoCommonId, m, n
<1>6. CASE ~(i <= m) /\ ~(j <= m)
  <2>1. i - m # j - m
    BY <1>1
  <2> QED
    BY <1>1, <1>2, <1>6, <2>1, SMTT(40) DEF OnceInv, UniqueIds, n
<1> QED
  BY <1>3, <1>4, <1>5, <1>6

LEMMA OnceInit == UInit => OnceInv
  BY EmptySeq DEF UInit, OnceInv, UniqueIds, IdsIn, NoCommonId

\* However the network duplicates and reorders, no id is parsed twice.
THEOREM ParsedAtMostOnce == USpec => []AtMostOnce
<1>1. USpec => []OnceInv
  BY OnceInit, OnceStep, UdpTypeCorrect, PTL DEF USpec
<1> QED
  BY <1>1, OnceMeansAtMostOnce, UdpTypeCorrect, PTL

----------------------------------------------------------------------------
(* Ids are used up only by messages the server has.                        *)

\* A CONFIRM in flight was sent by a server that has the message.
ReceivedInv ==
    /\ SentIsReceived
    /\ \A d \in toClient : d.type = "CONFIRM" => d.id \in srvGot

LEMMA ReceivedStep ==
    ASSUME UTypeOK, ReceivedInv, [UNext]_uvars
    PROVE  ReceivedInv'
<1>1. CASE UNCHANGED <<msg_id, server>> /\ toClient' \subseteq toClient
  BY <1>1 DEF server, ReceivedInv, SentIsReceived
<1>2. ASSUME NEW d \in toClient, Confirmed(d) PROVE ReceivedInv'
  <2>1. /\ d.id = msg_id /\ d.id \in srvGot /\ msg_id \in Nat
        /\ msg_id' = (msg_id + 1) % IdMod /\ srvGot' = srvGot /\ toClient' \subseteq toClient
    BY <1>2 DEF Confirmed, Awaited, Deliver, server, ReceivedInv, UTypeOK, Ids
  <2>2. msg_id' = msg_id + 1 \/ msg_id' = 0
    <3>1. msg_id + 1 < IdMod \/ msg_id + 1 = IdMod
      BY IdModAssumption DEF UTypeOK, Ids
    <3> QED
      BY <2>1, <3>1, IdModAssumption
  <2>3. \A k \in Ids : k < msg_id' => k < msg_id \/ k = msg_id
    BY <2>1, <2>2 DEF Ids
  <2> QED
    BY <2>1, <2>3 DEF ReceivedInv, SentIsReceived
<1>3. ASSUME NEW d \in toClient, ReceivesOf(d), ~Confirmed(d)
      PROVE  UNCHANGED <<msg_id, server>> /\ toClient' \subseteq toClient
  BY <1>3 DEF ReceivesOf, ReceiveUndersized, ReceiveUnknown, ReceiveSeen, ReceiveNew,
     ReceiveUnconfirmed, Stray, StraySeen, StrayStored, StrayOverflows, StrayUnconfirmed,
     EmptyRetried, EmptyFails, Deliver
<1>4. ASSUME NEW m \in toServer, ServerReceives(m) PROVE ReceivedInv'
  BY <1>4 DEF ServerReceives, ReceivedInv, SentIsReceived
<1>5. ASSUME NEW k \in SrvKinds, ServerSends(k) PROVE ReceivedInv'
  <2>1. k # "CONFIRM"
    BY ServerAssumption DEF ServerKinds
  <2> QED
    BY <1>5, <2>1 DEF ServerSends, ReceivedInv, SentIsReceived
<1>6. CASE Thread
  BY <1>1, <1>6 DEF Thread, Proceed, PreviousMessage, NoPreviousMessage, StartSending, Transmit,
     GiveUp, ConfirmTimeout, flight
<1>7. CASE \/ TransmitFails \/ ConfirmInterrupted \/ KeyboardReady \/ UserInput
           \/ ResponseTimeout \/ SelectError \/ Signal \/ UNCHANGED uvars
  BY <1>1, <1>7 DEF TransmitFails, ConfirmInterrupted, KeyboardReady, UserInput,
     ResponseTimeout, SelectError, Signal, uvars, flight
<1> QED
  BY <1>1, <1>2, <1>3, <1>4, <1>5, <1>6, <1>7 DEF UNext, Outside, uvars

\* The client goes on to the next id only when the server has the message of
\* this one, also after msg_id has wrapped.
THEOREM ConfirmedIsReceived == USpec => []SentIsReceived
<1>1. UInit => ReceivedInv
  BY DEF UInit, ReceivedInv, SentIsReceived, Ids
<1>2. USpec => []ReceivedInv
  BY <1>1, ReceivedStep, UdpTypeCorrect, PTL DEF USpec
<1>3. ReceivedInv => SentIsReceived
  BY DEF ReceivedInv
<1> QED
  BY <1>2, <1>3, PTL

----------------------------------------------------------------------------
(* What is confirmed is kept.                                              *)

\* What udp_process_msg() takes, and confirms, when it is new.
Taking(d) == d.type \notin Undersized \cup Confirmations \cup {"UNKNOWN"}

\* No message on its way to the client has the id of a different datagram that
\* the client has taken in: neither of another message of the server nor, by a
\* late CONFIRM, of a message of the client's own.
IdsTellApart ==
    \A d \in toClient, i \in 1 .. Len(Received) :
        Taking(d) /\ d.id = Received[i].id => d = Received[i]

Elements(s) == {s[i] : i \in 1 .. Len(s)}
Taken == Elements(handled) \cup Elements(queue)

\* ConfirmedIsKept, and that every id in the list is that of a datagram taken in.
KeptInv ==
    /\ \A n \in seen : \E e \in Taken : e.id = n
    /\ \A d \in confirmed : d.type \notin Confirmations
    /\ Running => \A d \in confirmed : ~Taking(d) \/ d \in Taken

LEMMA AppendElements ==
    ASSUME NEW S, NEW s \in Seq(S), NEW d \in S
    PROVE  Elements(Append(s, d)) = Elements(s) \cup {d}
<1> DEFINE t == Append(s, d)
<1>1. /\ Len(t) = Len(s) + 1 /\ Len(s) \in Nat
      /\ \A i \in 1 .. Len(s) : t[i] = s[i]
      /\ t[Len(s) + 1] = d
  BY AppendProperties, LenProperties
<1>2. /\ \A i \in 1 .. Len(t) : i \in 1 .. Len(s) \/ i = Len(s) + 1
      /\ Len(s) + 1 \in 1 .. Len(t) /\ \A i \in 1 .. Len(s) : i \in 1 .. Len(t)
  BY <1>1
<1> HIDE DEF t
<1>3. Elements(t) = Elements(s) \cup {d}
  BY <1>1, <1>2 DEF Elements
<1> QED
  BY <1>3 DEF t

LEMMA PopElements ==
    ASSUME NEW S, NEW q \in Seq(S), q # << >>
    PROVE  Elements(q) = Elements(Tail(q)) \cup {Head(q)}
<1> DEFINE r == Tail(q)
<1>1. /\ Head(q) = q[1] /\ Len(q) \in Nat \ {0} /\ Len(r) = Len(q) - 1
      /\ \A i \in 1 .. Len(r) : r[i] = q[i + 1]
  BY HeadTailProperties, EmptySeq
<1>2. /\ 1 \in 1 .. Len(q) /\ \A i \in 1 .. Len(r) : i + 1 \in 1 .. Len(q)
      /\ \A i \in 1 .. Len(q) : i = 1 \/ (i - 1 \in 1 .. Len(r) /\ (i - 1) + 1 = i)
  BY <1>1
<1> HIDE DEF r
<1>3. \A i \in 1 .. Len(q) : q[i] = q[1] \/ \E j \in 1 .. Len(r) : q[i] = r[j]
  BY <1>1, <1>2
<1>4. Elements(q) = Elements(r) \cup {Head(q)}
  BY <1>1, <1>2, <1>3 DEF Elements
<1> QED
  BY <1>4 DEF r

\* The two halves of Received hold what Received holds.
LEMMA TakenIsReceived ==
    ASSUME UTypeOK, NEW e
    PROVE  e \in Taken <=> \E i \in 1 .. Len(Received) : Received[i] = e
<1> DEFINE m == Len(handled)
           n == Len(queue)
<1>1. /\ m \in Nat /\ n \in Nat /\ Len(Received) = m + n
      /\ \A k \in 1 .. m + n :
            Received[k] = IF k <= m THEN handled[k] ELSE queue[k - m]
  BY ConcatProperties, LenProperties DEF UTypeOK, Received
<1> HIDE DEF m, n
<1>2. ASSUME NEW i \in 1 .. Len(Received), Received[i] = e PROVE e \in Taken
  <2>1. i \in 1 .. m + n
    BY <1>1
  <2>2. (i \in 1 .. m /\ i <= m) \/ (~(i <= m) /\ i - m \in 1 .. n)
    BY <1>1, <2>1
  <2>3. CASE i \in 1 .. m /\ i <= m
    <3>1. handled[i] = e
      BY <1>1, <1>2, <2>1, <2>3
    <3> QED
      BY <2>3, <3>1 DEF Taken, Elements, m
  <2>4. CASE ~(i <= m) /\ i - m \in 1 .. n
    <3>1. queue[i - m] = e
      BY <1>1, <1>2, <2>1, <2>4
    <3> QED
      BY <2>4, <3>1 DEF Taken, Elements, n
  <2> QED
    BY <2>2, <2>3, <2>4
<1>3. ASSUME NEW i \in 1 .. m, handled[i] = e
      PROVE  \E k \in 1 .. Len(Received) : Received[k] = e
  <2>1. i \in 1 .. m + n /\ i <= m
    BY <1>1
  <2> QED
    BY <1>1, <1>3, <2>1
<1>4. ASSUME NEW i \in 1 .. n, queue[i] = e
      PROVE  \E k \in 1 .. Len(Received) : Received[k] = e
  <2>1. i + m \in 1 .. m + n /\ ~(i + m <= m) /\ (i + m) - m = i
    BY <1>1
  <2> QED
    BY <1>1, <1>4, <2>1
<1> QED
  BY <1>2, <1>3, <1>4 DEF Taken, Elements, m, n

\* A client that has to stop does not start again.
LEMMA StoppedForGood == IInv /\ [Next]_vars /\ Running' => Running
<1> SUFFICES ASSUME IInv, [Next]_vars, Running' PROVE Running
  OBVIOUS
<1>1. CASE pc \notin {"loop", "exit"}
  BY <1>1 DEF IInv, RunsInside
<1>2. CASE pc \in {"loop", "exit"}
  <2>1. CASE LoopInterrupted
    BY <2>1 DEF LoopInterrupted
  <2>2. CASE UNCHANGED <<state, res>>
    BY <2>2 DEF Running
  <2>3. LoopInterrupted \/ UNCHANGED <<state, res>>
    BY <1>2 DEF Next, ClientStep, Environment, Exited, vars, LoopCall, LoopExit, AwaitFound,
       AwaitNothing, EnterSelect, ReactSend, ReactQuietly, SendOk, SendFailed, SelectServer,
       SelectKeyboard, UserLine, SelectTimeout, SelectFails, SignalInSelect, SignalElsewhere
  <2> QED
    BY <2>1, <2>2, <2>3
<1> QED
  BY <1>1, <1>2

\* Taking in a new datagram.
LEMMA NewIsKept ==
    ASSUME KeptInv, NEW d, Running, Taken' = Taken \cup {d}, seen' = seen \cup {d.id}, Confirm(d)
    PROVE  KeptInv'
  BY DEF KeptInv, Confirm

\* One whose id is in the list.
LEMMA SeenIsKept ==
    ASSUME UTypeOK, KeptInv, IdsTellApart, NEW d \in toClient, d.id \in seen, Running,
           UNCHANGED inbox, Confirm(d)
    PROVE  KeptInv'
<1>1. Taking(d) => d \in Taken
  <2> SUFFICES ASSUME Taking(d) PROVE d \in Taken
    OBVIOUS
  <2>1. PICK e \in Taken : e.id = d.id
    BY DEF KeptInv
  <2>2. PICK i \in 1 .. Len(Received) : Received[i] = e
    BY <2>1, TakenIsReceived
  <2> QED
    BY <2>1, <2>2 DEF IdsTellApart
<1> QED
  BY <1>1 DEF KeptInv, Confirm, inbox, Taken

LEMMA KeptStep ==
    ASSUME UTypeOK, IInv, KeptInv, IdsTellApart, [UNext]_uvars
    PROVE  KeptInv'
<1>1. Running' => Running
  BY StepIsStep, StoppedForGood
<1>2. CASE UNCHANGED <<inbox, confirmed>>
  BY <1>1, <1>2 DEF inbox, KeptInv, Taken
<1>3. queue \in Seq(Datagrams) /\ handled \in Seq(Datagrams) /\ toClient \subseteq Datagrams
  BY DEF UTypeOK
<1>4. CASE PreviousMessage
  <2>1. /\ queue # << >> /\ queue' = Tail(queue) /\ seen' = seen /\ confirmed' = confirmed
        /\ handled' = Append(handled, Head(queue)) /\ Head(queue) \in Datagrams
    BY <1>3, <1>4, HeadTailProperties DEF PreviousMessage
  <2>2. Taken' = Taken
    BY <1>3, <2>1, AppendElements, PopElements DEF Taken
  <2> QED
    BY <1>1, <2>1, <2>2 DEF KeptInv
<1>5. ASSUME NEW d \in toClient, ReceivesOf(d) PROVE KeptInv'
  <2>1. Running
    BY <1>5 DEF IInv, RunsInside, ReceivesOf, ReceiveUndersized, ReceiveUnknown, ReceiveSeen,
       ReceiveNew, ReceiveUnconfirmed, Confirmed, StraySeen, StrayStored, StrayOverflows,
       StrayUnconfirmed, EmptyRetried, EmptyFails, SelectServer, SendOk, SendFailed
  <2>2. CASE ReceiveNew(d)
    <3>1. /\ queue' = queue /\ seen' = seen \cup {d.id} /\ Confirm(d)
          /\ handled' = Append(handled, d)
      BY <2>2 DEF ReceiveNew, Remember
    <3>2. Taken' = Taken \cup {d}
      BY <1>3, <3>1, AppendElements DEF Taken
    <3> QED
      BY <2>1, <3>1, <3>2, NewIsKept
  <2>3. CASE StrayStored(d)
    <3>1. /\ handled' = handled /\ seen' = seen \cup {d.id} /\ Confirm(d)
          /\ queue' = Append(queue, d)
      BY <2>3 DEF StrayStored, Remember, PutAside
    <3>2. Taken' = Taken \cup {d}
      BY <1>3, <3>1, AppendElements DEF Taken
    <3> QED
      BY <2>1, <3>1, <3>2, NewIsKept
  <2>4. CASE ReceiveSeen(d) \/ StraySeen(d)
    <3>1. d.id \in seen /\ Confirm(d) /\ UNCHANGED inbox
      BY <2>4 DEF ReceiveSeen, StraySeen
    <3> QED
      BY <2>1, <3>1, SeenIsKept
  <2>5. CASE ReceiveUnknown(d)
    <3>1. d.type = "UNKNOWN" /\ Confirm(d) /\ UNCHANGED inbox
      BY <2>5 DEF ReceiveUnknown
    <3> QED
      BY <2>1, <3>1 DEF Confirm, KeptInv, Taking, inbox, Taken
  <2>6. CASE StrayOverflows(d)
    <3>1. ~Running' /\ Confirm(d) /\ UNCHANGED inbox
      BY <2>6 DEF StrayOverflows, SendFailed, Running
    <3> QED
      BY <3>1 DEF Confirm, KeptInv, inbox, Taken
  <2>7. CASE \/ ReceiveUndersized(d) \/ ReceiveUnconfirmed(d) \/ Confirmed(d)
             \/ StrayUnconfirmed(d) \/ EmptyRetried(d) \/ EmptyFails(d)
    <3>1. UNCHANGED <<inbox, confirmed>>
      BY <2>7 DEF ReceiveUndersized, ReceiveUnconfirmed, Confirmed, StrayUnconfirmed,
         EmptyRetried, EmptyFails
    <3> QED
      BY <1>2, <3>1
  <2> QED
    BY <1>5, <2>2, <2>3, <2>4, <2>5, <2>6, <2>7 DEF ReceivesOf
<1>6. CASE Thread /\ ~PreviousMessage
  <2>1. UNCHANGED <<inbox, confirmed>>
    BY <1>6 DEF Thread, Proceed, NoPreviousMessage, StartSending, Transmit, GiveUp,
       ConfirmTimeout
  <2> QED
    BY <1>2, <2>1
<1>7. CASE ~Thread /\ ~\E d \in toClient : ReceivesOf(d)
  <2>1. UNCHANGED <<inbox, confirmed>>
    BY <1>7 DEF UNext, Outside, TransmitFails, ConfirmInterrupted, KeyboardReady, UserInput,
       ResponseTimeout, SelectError, Signal, ServerReceives, ServerSends, uvars
  <2> QED
    BY <1>2, <2>1
<1> QED
  BY <1>4, <1>5, <1>6, <1>7

LEMMA KeptMeansKept == UTypeOK /\ KeptInv /\ Running => ConfirmedIsKept
<1> SUFFICES ASSUME UTypeOK, KeptInv, Running, NEW d \in confirmed
             PROVE  \/ d.type \in Undersized \cup {"UNKNOWN"}
                    \/ \E i \in 1 .. Len(Received) : Received[i] = d
  BY DEF ConfirmedIsKept
<1> QED
  BY TakenIsReceived DEF KeptInv, Taking

\* As long as ids tell datagrams apart, a message that the client has confirmed
\* is one it has parsed or put aside, whatever the network repeats and however
\* full the queue is.
THEOREM ConfirmedStaysKept == USpec /\ []IdsTellApart => []ConfirmedIsKept
<1>1. UInit => KeptInv
  BY DEF UInit, KeptInv
<1>2. ~Running => ConfirmedIsKept
  BY DEF ConfirmedIsKept
<1>3. IInv /\ UTypeOK /\ KeptInv => ConfirmedIsKept
  BY <1>2, KeptMeansKept
<1>4. USpec => []IInv
  BY UdpKeepsIInv
<1> QED
  BY <1>1, <1>3, <1>4, KeptStep, UdpTypeCorrect, PTL DEF USpec
----------------------------------------------------------------------------
(* Messages are processed in the order they were taken in: Inbox.          *)

\* QueueDrainedFirst with what makes it inductive.  A PING put aside is what
\* breaks it: await() absorbs one and goes to select() past what follows it.
LEMMA DrainedStep ==
    ASSUME UTypeOK, "PING" \notin SrvKinds, QueueDrainedFirst, [UNext]_uvars
    PROVE  QueueDrainedFirst'
<1>1. CASE UNCHANGED queue /\ (pc' \in {"poll", "select"} => pc \in {"poll", "select"})
  BY <1>1 DEF QueueDrainedFirst
<1>2. CASE PreviousMessage
  <2>1. Head(queue) \in Datagrams
    BY <1>2, HeadTailProperties DEF PreviousMessage, UTypeOK
  <2>2. Parse(Head(queue)) # "PING"
    BY <2>1 DEF Parse, Datagrams
  <2>3. pc' = "react"
    BY <1>2, <2>2 DEF PreviousMessage, AwaitFound
  <2> QED
    BY <2>3 DEF QueueDrainedFirst
<1>3. CASE NoPreviousMessage
  BY <1>3 DEF NoPreviousMessage, inbox, QueueDrainedFirst
<1>4. CASE Thread /\ ~PreviousMessage /\ ~NoPreviousMessage
  <2>1. UNCHANGED queue
    BY <1>4 DEF Thread, Proceed, StartSending, Transmit, GiveUp, ConfirmTimeout, inbox
  <2>2. pc' \in {"poll", "select"} => pc \in {"poll", "select"}
    BY <1>4 DEF Thread, Proceed, LoopCall, LoopExit, EnterSelect, ReactQuietly, StartSending,
       ReactSend, LoopInterrupted, Transmit, GiveUp, SendFailed, ConfirmTimeout, vars
  <2> QED
    BY <1>1, <2>1, <2>2
<1>5. ASSUME NEW d \in toClient, ReceivesOf(d) PROVE QueueDrainedFirst'
  <2>1. CASE StrayStored(d)
    BY <2>1 DEF StrayStored, vars, QueueDrainedFirst
  <2>2. CASE ~StrayStored(d)
    <3>1. UNCHANGED queue
      BY <1>5, <2>2 DEF ReceivesOf, ReceiveUndersized, ReceiveUnknown, ReceiveSeen, ReceiveNew,
         ReceiveUnconfirmed, Confirmed, StraySeen, StrayOverflows, StrayUnconfirmed,
         EmptyRetried, EmptyFails, inbox
    <3>2. pc' \in {"poll", "select"} => pc \in {"poll", "select"}
      BY <1>5, <2>2 DEF ReceivesOf, ReceiveUndersized, ReceiveUnknown, ReceiveSeen, ReceiveNew,
         ReceiveUnconfirmed, Confirmed, StraySeen, StrayOverflows, StrayUnconfirmed,
         EmptyRetried, EmptyFails, SelectServer, SendOk, SendFailed, vars
    <3> QED
      BY <1>1, <3>1, <3>2
  <2> QED
    BY <2>1, <2>2
<1>6. CASE ~Thread /\ ~\E d \in toClient : ReceivesOf(d)
  <2>1. UNCHANGED queue
    BY <1>6 DEF UNext, Outside, TransmitFails, ConfirmInterrupted, KeyboardReady, UserInput,
       ResponseTimeout, SelectError, Signal, ServerReceives, ServerSends, uvars, inbox
  <2>2. pc' \in {"poll", "select"} => pc \in {"poll", "select"}
    BY <1>6 DEF UNext, Outside, TransmitFails, ConfirmInterrupted, SendFailed, KeyboardReady,
       SelectKeyboard, UserInput, UserLine, ResponseTimeout, SelectTimeout, SelectError,
       SelectFails, Signal, SignalInSelect, SignalElsewhere, ServerReceives, ServerSends, uvars,
       vars
  <2> QED
    BY <1>1, <2>1, <2>2
<1> QED
  BY <1>2, <1>3, <1>4, <1>5, <1>6

\* A client whose server sends no PING goes to select() only when every message
\* put aside during a confirmation wait has been processed (prompt.c:48).
THEOREM QueueIsDrained ==
    ASSUME "PING" \notin SrvKinds PROVE USpec => []QueueDrainedFirst
<1>1. UInit => QueueDrainedFirst
  BY DEF UInit, Init, QueueDrainedFirst
<1> QED
  BY <1>1, DrainedStep, UdpTypeCorrect, PTL DEF USpec

\* The datagrams taken in, as one sequence with a reading position.
LEMMA ReceivedIsBoth ==
    ASSUME UTypeOK
    PROVE  /\ Received \in Seq(Datagrams)
           /\ Len(handled) \in Nat /\ Len(queue) \in Nat
           /\ Len(Received) = Len(handled) + Len(queue)
  BY ConcatProperties, LenProperties DEF UTypeOK, Received

\* A datagram whose id is not in the list is Fresh.
LEMMA UnseenIsFresh ==
    ASSUME UTypeOK, OnceInv, NEW d, d.id \notin seen
    PROVE  Promise!Fresh(d)
<1> DEFINE m == Len(handled)
           n == Len(queue)
<1>1. /\ m \in Nat /\ n \in Nat /\ Len(Received) = m + n
      /\ \A k \in 1 .. m + n :
            Received[k] = IF k <= m THEN handled[k] ELSE queue[k - m]
  BY ConcatProperties, LenProperties DEF UTypeOK, Received
<1> SUFFICES ASSUME NEW i \in 1 .. Len(Received) PROVE Received[i].id # d.id
  BY DEF Promise!Fresh
<1>2. i \in 1 .. m \/ (~(i <= m) /\ i - m \in 1 .. n)
  BY <1>1
<1>3. i \in 1 .. m + n
  BY <1>1
<1>4. CASE i \in 1 .. m
  <2>1. Received[i] = handled[i]
    BY <1>1, <1>3, <1>4
  <2> QED
    BY <1>4, <2>1 DEF OnceInv, IdsIn
<1>5. CASE ~(i <= m) /\ i - m \in 1 .. n
  <2>1. Received[i] = queue[i - m]
    BY <1>1, <1>3, <1>5
  <2> QED
    BY <1>5, <2>1 DEF OnceInv, IdsIn
<1> QED
  BY <1>2, <1>4, <1>5

\* A new datagram at the end of what was taken in is what Inbox calls Grows.
LEMMA NewGrows ==
    ASSUME UTypeOK, OnceInv, NEW d \in Datagrams, d.id \notin seen,
           Received' = Append(Received, d)
    PROVE  Len(Received') = Len(Received) + 1 /\ Promise!Grows
<1>1. /\ Len(Received') = Len(Received) + 1
      /\ Received'[Len(Received')] = d
  BY ReceivedIsBoth, AppendProperties
<1> QED
  BY <1>1, UnseenIsFresh DEF Promise!Grows

\* Put aside while a CONFIRM is awaited: Accept.
LEMMA StoredAccepts ==
    ASSUME UTypeOK, OnceInv, NEW d \in toClient, StrayStored(d)
    PROVE  Promise!Accept
<1>1. /\ d \in Datagrams /\ d.id \notin seen /\ Len(queue) < MaxQueue
      /\ handled' = handled /\ queue' = Append(queue, d)
  BY DEF UTypeOK, StrayStored, PutAside
<1>2. handled \o Append(queue, d) = Append(handled \o queue, d)
  <2>1. handled \in Seq(Datagrams) /\ queue \in Seq(Datagrams)
    BY DEF UTypeOK
  <2>2. Append(queue, d) = queue \o <<d>> /\ <<d>> \in Seq(Datagrams)
    BY <1>1, <2>1, AppendIsConcat
  <2>3. handled \o queue \in Seq(Datagrams)
    BY <2>1, ConcatProperties
  <2>4. Append(handled \o queue, d) = (handled \o queue) \o <<d>>
    BY <1>1, <2>3, AppendIsConcat
  <2> QED
    BY <2>1, <2>2, <2>4, ConcatAssociative
<1>3. Received' = Append(Received, d)
  BY <1>1, <1>2 DEF Received
<1>4. Len(Received) < Len(handled) + MaxQueue /\ Len(handled)' = Len(handled)
  BY <1>1, ReceivedIsBoth, QueueAssumption
<1> QED
  BY <1>1, <1>3, <1>4, NewGrows DEF Promise!Accept

\* Taken in and parsed at once, in select(): AcceptAndProcess.
LEMMA NewIsProcessed ==
    ASSUME UTypeOK, OnceInv, QueueDrainedFirst, NEW d \in toClient, ReceiveNew(d)
    PROVE  Promise!AcceptAndProcess
<1>1. /\ d \in Datagrams /\ d.id \notin seen /\ queue = << >>
      /\ queue' = queue /\ handled' = Append(handled, d)
  BY DEF UTypeOK, ReceiveNew, SelectServer, QueueDrainedFirst
<1>2. handled \in Seq(Datagrams) /\ handled' \in Seq(Datagrams)
  BY <1>1, AppendProperties DEF UTypeOK
<1>3. Received = handled /\ Received' = handled'
  BY <1>1, <1>2, ConcatSimplifications DEF Received
<1>4. Len(handled') = Len(handled) + 1
  BY <1>1, <1>2, AppendProperties
<1>5. Len(Received') = Len(Received) + 1 /\ Promise!Grows
  BY <1>1, <1>3, NewGrows
<1> QED
  BY <1>3, <1>4, <1>5 DEF Promise!AcceptAndProcess

\* Taken off the queue: Process.
LEMMA PreviousIsProcessed ==
    ASSUME UTypeOK, PreviousMessage
    PROVE  Promise!Process
<1>1. /\ queue \in Seq(Datagrams) /\ handled \in Seq(Datagrams) /\ queue # << >>
      /\ queue' = Tail(queue) /\ handled' = Append(handled, Head(queue))
  BY DEF UTypeOK, PreviousMessage
<1>2. /\ Head(queue) \in Datagrams /\ Tail(queue) \in Seq(Datagrams) /\ Len(queue) > 0
      /\ queue = <<Head(queue)>> \o Tail(queue) /\ <<Head(queue)>> \in Seq(Datagrams)
  BY <1>1, HeadTailProperties, HeadTailAppend, EmptySeq, LenProperties
<1>3. Append(handled, Head(queue)) = handled \o <<Head(queue)>>
  BY <1>1, <1>2, AppendIsConcat
<1>4. Received' = Received
  BY <1>1, <1>2, <1>3, ConcatAssociative DEF Received
<1>5. Len(handled') = Len(handled) + 1
  BY <1>1, <1>2, AppendProperties
<1>6. Len(handled) < Len(Received)
  BY <1>2, ReceivedIsBoth
<1> QED
  BY <1>4, <1>5, <1>6 DEF Promise!Process

LEMMA InboxStep ==
    ASSUME UTypeOK, OnceInv, QueueDrainedFirst, [UNext]_uvars
    PROVE  [Promise!Next]_<<Received, Len(handled)>>
<1>1. CASE UNCHANGED inbox
  BY <1>1 DEF inbox, Received
<1>2. CASE PreviousMessage
  BY <1>2, PreviousIsProcessed DEF Promise!Next
<1>3. ASSUME NEW d \in toClient, ReceivesOf(d) PROVE [Promise!Next]_<<Received, Len(handled)>>
  <2>1. CASE ReceiveNew(d)
    BY <2>1, NewIsProcessed DEF Promise!Next
  <2>2. CASE StrayStored(d)
    BY <2>2, StoredAccepts DEF Promise!Next
  <2>3. CASE ~ReceiveNew(d) /\ ~StrayStored(d)
    <3>1. UNCHANGED inbox
      BY <1>3, <2>3 DEF ReceivesOf, ReceiveUndersized, ReceiveUnknown, ReceiveSeen,
         ReceiveUnconfirmed, Confirmed, StraySeen, StrayOverflows, StrayUnconfirmed,
         EmptyRetried, EmptyFails
    <3> QED
      BY <1>1, <3>1
  <2> QED
    BY <2>1, <2>2, <2>3
<1>4. CASE Thread /\ ~PreviousMessage
  <2>1. UNCHANGED inbox
    BY <1>4 DEF Thread, Proceed, NoPreviousMessage, StartSending, Transmit, GiveUp,
       ConfirmTimeout
  <2> QED
    BY <1>1, <2>1
<1>5. CASE ~Thread /\ ~\E d \in toClient : ReceivesOf(d)
  <2>1. UNCHANGED inbox
    BY <1>5 DEF UNext, Outside, TransmitFails, ConfirmInterrupted, KeyboardReady, UserInput,
       ResponseTimeout, SelectError, Signal, ServerReceives, ServerSends, uvars
  <2> QED
    BY <1>1, <2>1
<1> QED
  BY <1>2, <1>3, <1>4, <1>5

LEMMA InboxInit == UInit => Promise!Init
<1> SUFFICES ASSUME UInit PROVE Promise!Init
  OBVIOUS
<1>1. Received = << >> /\ Len(handled) = 0
  <2>1. << >> \in Seq(Datagrams) /\ Len(<< >>) = 0
    BY EmptySeq
  <2> QED
    BY <2>1, ConcatSimplifications DEF UInit, Received
<1> QED
  BY <1>1 DEF Promise!Init

\* Wherever the queue is drained before select() is called, the id list, the
\* queue and the two places that take datagrams in are the plain Inbox: every
\* message once, processed in the order of arrival.
THEOREM DrainedInOrder == USpec /\ []QueueDrainedFirst => ImplementsInbox
<1>1. USpec => []OnceInv
  BY OnceInit, OnceStep, UdpTypeCorrect, PTL DEF USpec
<1> QED
  BY <1>1, InboxInit, InboxStep, UdpTypeCorrect, PTL DEF USpec, ImplementsInbox, Promise!Spec

\* So a server that sends no PING is read in order and without repetition,
\* however its datagrams are duplicated and however they mix with CONFIRMs.
THEOREM InOrderWithoutPing ==
    ASSUME "PING" \notin SrvKinds PROVE USpec => ImplementsInbox
  BY QueueIsDrained, DrainedInOrder, PTL
=============================================================================
