----------------------------- MODULE UdpClient -----------------------------
(***************************************************************************)
(* The client over UDP: ChatClient with the answers of comm_udp.c, the     *)
(* message-id list of list.c, the message queue of queue.c, an unreliable  *)
(* network and a server.  Every step of the client here is a step of       *)
(* ChatClient joined with what the backend does in it.                     *)
(*                                                                         *)
(* The network loses a datagram by never delivering it, delays and         *)
(* reorders by delivering any datagram in flight, and duplicates at most   *)
(* MaxDups of them; a retransmission by the server is such a duplicate.    *)
(***************************************************************************)
EXTENDS ChatClient, Integers, Sequences, FiniteSets

CONSTANTS
    IdMod,            \* 2^16 in the code: message ids are uint16_t
    Retransmissions,  \* option -r
    Timeout,          \* option -d; 0 switches SO_RCVTIMEO off
    MaxQueue,         \* queue.h: MAX_QUEUE_SIZE
    Faults,           \* may sendto() and select() fail?
    SrvFirst,         \* the id of the server's first message
    SrvKinds,         \* what the server sends
    MaxSrv,           \* bound: messages the server sends
    MaxDups,          \* bound: duplicated datagrams
    MaxTyped          \* bound: commands the user types

\* GARBLED is a datagram of a type in the msg table that its parser rejects (or
\* an AUTH or a JOIN, which are never right), UNKNOWN has a type that is not in
\* the table, RUNT is shorter than a header and EMPTY has no byte at all.  CONFIRM
\* is the three-byte one, and PADDED a CONFIRM with bytes behind its header.
ServerKinds ==
    {"REPLY", "NREPLY", "MSG", "ERR", "BYE", "PING",
     "PADDED", "GARBLED", "UNKNOWN", "RUNT", "EMPTY"}
Undersized    == {"RUNT", "EMPTY"}
Confirmations == {"CONFIRM", "PADDED"}

ASSUME IdModAssumption   == IdMod \in Nat \ {0}
ASSUME OptionsAssumption == Retransmissions \in Nat /\ Timeout \in Nat
ASSUME QueueAssumption   == MaxQueue \in Nat \ {0}
ASSUME ServerAssumption  == SrvFirst \in 0 .. IdMod - 1 /\ SrvKinds \subseteq ServerKinds
ASSUME BoundsAssumption  == /\ MaxSrv \in Nat /\ MaxDups \in Nat /\ MaxTyped \in Nat
                            /\ Faults \in BOOLEAN

VARIABLES
    msg_id,     \* client.msg_id: the id of the next message sent
    seen,       \* list.c: msg_id_list
    queue,      \* queue.c: datagrams taken in while waiting for a CONFIRM
    waiting,    \* udp_send_msg() is blocked in recvfrom()
    attempt,    \* udp_send_msg(): i
    resend,     \* udp_send_msg(): resend
    toServer, toClient,  \* datagrams in flight
    dups,       \* how many datagrams were duplicated
    srvGot,     \* ids the server has received
    srvSent,    \* how many messages the server has sent
    typed,      \* how many commands the user has typed
    copies,     \* history: copies of the current message handed to sendto()
    handled,    \* history: datagrams handed to their parser, in order
    confirmed   \* history: datagrams the client sent a CONFIRM for

sender  == <<waiting, attempt, resend, copies>>
inbox   == <<seen, queue, handled>>
server  == <<srvGot, srvSent>>
flight  == <<toServer, toClient, dups>>
uvars   == <<vars, msg_id, sender, inbox, confirmed, server, flight, typed>>

Ids       == 0 .. IdMod - 1
Datagrams == [type : SrvKinds \cup {"CONFIRM"}, id : Ids, ref : Ids]

UTypeOK ==
    /\ TypeOK
    /\ msg_id \in Ids
    /\ seen \subseteq Ids
    /\ queue \in Seq(Datagrams) /\ Len(queue) <= MaxQueue
    /\ waiting \in BOOLEAN
    /\ attempt \in 0 .. Retransmissions + 1
    /\ resend \in BOOLEAN
    /\ copies \in 0 .. Retransmissions + 1
    /\ toServer \subseteq [type : SentTypes, id : Ids]
    /\ toClient \subseteq Datagrams
    /\ dups \in 0 .. MaxDups
    /\ srvGot \subseteq Ids
    /\ srvSent \in 0 .. MaxSrv
    /\ typed \in 0 .. MaxTyped
    /\ handled \in Seq(Datagrams)
    /\ confirmed \subseteq Datagrams

UInit ==
    /\ Init
    /\ msg_id = 0
    /\ seen = {}
    /\ queue = <<>>
    /\ waiting = FALSE /\ attempt = 0 /\ resend = TRUE /\ copies = 0
    /\ toServer = {} /\ toClient = {} /\ dups = 0
    /\ srvGot = {} /\ srvSent = 0
    /\ typed = 0
    /\ handled = <<>>
    /\ confirmed = {}

----------------------------------------------------------------------------
(* What the datagrams mean: udp_msg.c.                                     *)

\* The id of the request that may be answered now.  msg_id - 1 is computed as
\* an int: after msg_id has wrapped to 0 it is -1, which is no id.
LastSent == msg_id - 1

\* Faulty variant: a late CONFIRM is returned as what it is.
ParseKeepingConfirm(d) ==
    CASE d.type = "CONFIRM" /\ d.id < msg_id              -> "CONFIRM"
      [] d.type \in {"REPLY", "NREPLY"} /\ d.ref = LastSent -> d.type
      [] d.type \in {"MSG", "ERR", "BYE", "PING"}         -> d.type
      [] OTHER                                            -> "ERROR"

\* The parser from the table msg[] applied to datagram d.
Parse(d) ==
    CASE d.type = "CONFIRM" /\ d.id < msg_id              -> "LOCAL"
      [] d.type \in {"REPLY", "NREPLY"} /\ d.ref = LastSent -> d.type
      [] d.type \in {"MSG", "ERR", "BYE", "PING"}         -> d.type
      [] OTHER                                            -> "ERROR"

\* send_confirm(), for anything but a CONFIRM, of whatever length.
Confirm(d) ==
    confirmed' = IF d.type \in Confirmations THEN confirmed ELSE confirmed \cup {d}

\* Faulty variant: the id of a message put aside is not recorded.
RememberInSelect(d) == seen' = IF pc = "send" THEN seen ELSE seen \cup {d.id}

\* list_append().
Remember(d) == seen' = seen \cup {d.id}

\* Take d off the network, or a duplicate of it.
Deliver(d) ==
    /\ d \in toClient
    /\ \/ toClient' = toClient \ {d} /\ UNCHANGED dups
       \/ dups < MaxDups /\ dups' = dups + 1 /\ UNCHANGED toClient
    /\ UNCHANGED toServer

----------------------------------------------------------------------------
(* The loop, await() and the state functions: nothing of UDP in them but   *)
(* udp_check_previous() and the call of udp_send_msg().                    *)

Proceed ==
    /\ LoopCall \/ LoopExit \/ EnterSelect \/ ReactQuietly
    /\ UNCHANGED <<msg_id, sender, inbox, confirmed, server, flight, typed>>

\* udp_check_previous() takes one datagram only, whatever it turns out to be.
PreviousMessage ==
    /\ queue # <<>>
    /\ LET t == Parse(Head(queue)) IN
         IF t = "PING" THEN AwaitNothing("PING", FALSE) ELSE AwaitFound(t)
    /\ queue' = Tail(queue)
    /\ handled' = Append(handled, Head(queue))
    /\ UNCHANGED <<msg_id, seen, sender, confirmed, server, flight, typed>>

NoPreviousMessage ==
    /\ queue = <<>>
    /\ AwaitNothing("CONFIRM", FALSE)
    /\ UNCHANGED <<msg_id, sender, inbox, confirmed, server, flight, typed>>

StartSending ==
    /\ ReactSend \/ LoopInterrupted
    /\ attempt' = 0 /\ resend' = TRUE /\ waiting' = FALSE /\ copies' = 0
    /\ UNCHANGED <<msg_id, inbox, confirmed, server, flight, typed>>

----------------------------------------------------------------------------
(* udp_recv_msg() and udp_process_msg(), from select().                    *)

ReceiveUndersized(d) ==
    /\ d.type \in Undersized
    /\ Deliver(d)
    /\ SelectServer("ERROR")
    /\ UNCHANGED <<msg_id, sender, inbox, confirmed, server, typed>>

ReceiveUnknown(d) ==
    /\ d.type = "UNKNOWN"
    /\ Deliver(d)
    /\ Confirm(d)
    /\ SelectServer("ERROR")
    /\ UNCHANGED <<msg_id, sender, inbox, server, typed>>

\* A retransmission is confirmed again and otherwise ignored.
ReceiveSeen(d) ==
    /\ d.type \notin Undersized \cup {"UNKNOWN"}
    /\ d.id \in seen
    /\ Deliver(d)
    /\ Confirm(d)
    /\ SelectServer("LOCAL")
    /\ UNCHANGED <<msg_id, sender, inbox, server, typed>>

ReceiveNew(d) ==
    /\ d.type \notin Undersized \cup {"UNKNOWN"}
    /\ d.id \notin seen
    /\ Deliver(d)
    /\ Confirm(d)
    /\ Remember(d)
    /\ handled' = Append(handled, d)
    /\ SelectServer(Parse(d))
    /\ UNCHANGED <<msg_id, queue, sender, server, typed>>

ReceiveUnconfirmed(d) ==
    /\ Faults
    /\ d.type \notin Undersized \cup Confirmations
    /\ Deliver(d)
    /\ SelectServer("ERROR")
    /\ UNCHANGED <<msg_id, sender, inbox, confirmed, server, typed>>

----------------------------------------------------------------------------
(* udp_send_msg().                                                         *)

Current == [type |-> sending, id |-> msg_id]

Idle == waiting' = FALSE /\ attempt' = 0 /\ resend' = TRUE /\ copies' = 0

\* Faulty variant: one turn too many.
OneMoreTurn == attempt <= Retransmissions + 1

TurnsLeft == attempt <= Retransmissions

\* One turn of the loop up to recvfrom().
Transmit ==
    /\ pc = "send" /\ ~waiting
    /\ TurnsLeft
    /\ toServer' = IF resend THEN toServer \cup {Current} ELSE toServer
    /\ copies' = IF resend THEN copies + 1 ELSE copies
    /\ resend' = TRUE
    /\ waiting' = TRUE
    /\ UNCHANGED <<vars, msg_id, attempt, inbox, confirmed, server, toClient, dups, typed>>

TransmitFails ==
    /\ Faults
    /\ ~waiting /\ resend /\ TurnsLeft
    /\ SendFailed(FALSE)
    /\ Idle
    /\ UNCHANGED <<msg_id, inbox, confirmed, server, flight, typed>>

GiveUp ==
    /\ ~waiting
    /\ ~TurnsLeft
    /\ SendFailed(FALSE)
    /\ Idle
    /\ UNCHANGED <<msg_id, inbox, confirmed, server, flight, typed>>

\* Faulty variant: any CONFIRM will do.
AwaitedAny(d) == d.type = "CONFIRM"

\* b_rcv == 3, the type and the id.
Awaited(d) == d.type = "CONFIRM" /\ d.id = msg_id

Confirmed(d) ==
    /\ waiting
    /\ Awaited(d)
    /\ Deliver(d)
    /\ msg_id' = (msg_id + 1) % IdMod
    /\ SendOk
    /\ Idle
    /\ UNCHANGED <<inbox, confirmed, server, typed>>

\* Faulty variant: without the i--.
SameTurnCounted ==
    waiting' = FALSE /\ resend' = FALSE /\ attempt' = attempt + 1 /\ UNCHANGED copies

\* i-- and i++: the turn is repeated without sending.
SameTurn == waiting' = FALSE /\ resend' = FALSE /\ UNCHANGED <<attempt, copies>>

\* Any other datagram, an undersized, unknown or padded one too: confirmed if
\* it is no CONFIRM, and put aside unless its id was seen before.
Stray(d) ==
    /\ waiting
    /\ ~Awaited(d)
    /\ d.type # "EMPTY"
    /\ Deliver(d)

StraySeen(d) ==
    /\ pc = "send"
    /\ Stray(d)
    /\ Confirm(d)
    /\ d.id \in seen
    /\ SameTurn
    /\ UNCHANGED <<vars, msg_id, inbox, server, typed>>

\* Faulty variant: last in, first out.
PutAsideFirst(d) == queue' = <<d>> \o queue

\* queue_add().
PutAside(d) == queue' = Append(queue, d)

StrayStored(d) ==
    /\ pc = "send"
    /\ Stray(d)
    /\ Confirm(d)
    /\ d.id \notin seen
    /\ Len(queue) < MaxQueue
    /\ PutAside(d)
    /\ Remember(d)
    /\ SameTurn
    /\ UNCHANGED <<vars, msg_id, handled, server, typed>>

\* Faulty variant: the result of queue_add() is not looked at.
StrayDropped(d) ==
    /\ pc = "send"
    /\ Stray(d)
    /\ Confirm(d)
    /\ d.id \notin seen
    /\ Len(queue) = MaxQueue
    /\ SameTurn
    /\ UNCHANGED <<vars, msg_id, inbox, server, typed>>

StrayOverflows(d) ==
    /\ Stray(d)
    /\ Confirm(d)
    /\ d.id \notin seen
    /\ Len(queue) = MaxQueue
    /\ SendFailed(FALSE)
    /\ Idle
    /\ UNCHANGED <<msg_id, inbox, server, typed>>

StrayUnconfirmed(d) ==
    /\ Faults
    /\ Stray(d)
    /\ d.type \notin Confirmations
    /\ SendFailed(FALSE)
    /\ Idle
    /\ UNCHANGED <<msg_id, inbox, confirmed, server, typed>>

\* Faulty variant: a timeout repeats the turn, as a stray does.
NextTurnForever == waiting' = FALSE /\ resend' = FALSE /\ UNCHANGED <<attempt, copies>>

NextTurn == waiting' = FALSE /\ attempt' = attempt + 1 /\ UNCHANGED <<resend, copies>>

ConfirmTimeout ==
    /\ pc = "send" /\ waiting
    /\ Timeout # 0
    /\ NextTurn
    /\ UNCHANGED <<vars, msg_id, inbox, confirmed, server, flight, typed>>

\* recvfrom() returns 0, which sets no errno: the branch taken is the one an
\* earlier call left there.
EmptyRetried(d) ==
    /\ pc = "send" /\ waiting
    /\ d.type = "EMPTY"
    /\ Deliver(d)
    /\ NextTurn
    /\ UNCHANGED <<vars, msg_id, inbox, confirmed, server, typed>>

EmptyFails(d) ==
    /\ waiting
    /\ d.type = "EMPTY"
    /\ Deliver(d)
    /\ SendFailed(FALSE)
    /\ Idle
    /\ UNCHANGED <<msg_id, inbox, confirmed, server, typed>>

\* SIGINT: a recvfrom() with a timeout is not restarted after the handler.
ConfirmInterrupted ==
    /\ waiting
    /\ Timeout # 0
    /\ SendFailed(TRUE)
    /\ Idle
    /\ UNCHANGED <<msg_id, inbox, confirmed, server, flight, typed>>

----------------------------------------------------------------------------
(* The user, the timer, SIGINT and the server.                             *)

\* The user begins a line, and ends it.
KeyboardReady ==
    /\ SelectKeyboard
    /\ UNCHANGED <<msg_id, sender, inbox, confirmed, server, flight, typed>>

UserInput ==
    /\ \E t \in UserTypes, eof \in BOOLEAN :
         /\ UserLine(t, eof)
         /\ typed' = IF t \in SentTypes THEN typed + 1 ELSE typed
         /\ typed' <= MaxTyped
    /\ UNCHANGED <<msg_id, sender, inbox, confirmed, server, flight>>

ResponseTimeout ==
    /\ SelectTimeout
    /\ UNCHANGED <<msg_id, sender, inbox, confirmed, server, flight, typed>>

SelectError ==
    /\ Faults
    /\ SelectFails
    /\ UNCHANGED <<msg_id, sender, inbox, confirmed, server, flight, typed>>

Signal ==
    /\ SignalInSelect \/ (SignalElsewhere /\ (waiting => Timeout = 0))
    /\ UNCHANGED <<msg_id, sender, inbox, confirmed, server, flight, typed>>

\* The server confirms every copy it gets.
ServerReceives(m) ==
    /\ m \in toServer
    /\ \/ toServer' = toServer \ {m} /\ UNCHANGED dups
       \/ dups < MaxDups /\ dups' = dups + 1 /\ UNCHANGED toServer
    /\ toClient' = toClient \cup {[type |-> "CONFIRM", id |-> m.id, ref |-> 0]}
    /\ srvGot' = srvGot \cup {m.id}
    /\ UNCHANGED <<vars, msg_id, sender, inbox, confirmed, srvSent, typed>>

\* It learns the client's address from the first datagram, and replies to, or
\* confirms, something it has received.
ServerSends(k) ==
    /\ srvGot # {}
    /\ srvSent < MaxSrv
    /\ \E r \in (IF k \in {"REPLY", "NREPLY"} THEN srvGot ELSE {0}),
          i \in (CASE k \in Undersized -> {0}
                   [] k = "PADDED"     -> srvGot
                   [] OTHER            -> {(SrvFirst + srvSent) % IdMod}) :
         toClient' = toClient \cup {[type |-> k, id |-> i, ref |-> r]}
    /\ srvSent' = srvSent + 1
    /\ UNCHANGED <<vars, msg_id, sender, inbox, confirmed, srvGot, toServer, dups, typed>>

----------------------------------------------------------------------------

\* What the client's thread does by itself.
Thread ==
    \/ Proceed \/ PreviousMessage \/ NoPreviousMessage \/ StartSending
    \/ Transmit \/ GiveUp \/ ConfirmTimeout

ReceivesOf(d) ==
    \/ ReceiveUndersized(d) \/ ReceiveUnknown(d) \/ ReceiveSeen(d) \/ ReceiveNew(d)
    \/ ReceiveUnconfirmed(d)
    \/ Confirmed(d)
    \/ StraySeen(d) \/ StrayStored(d) \/ StrayOverflows(d) \/ StrayUnconfirmed(d)
    \/ EmptyRetried(d) \/ EmptyFails(d)

Outside ==
    \/ \E d \in toClient : ReceivesOf(d)
    \/ TransmitFails \/ ConfirmInterrupted
    \/ KeyboardReady \/ UserInput \/ ResponseTimeout \/ SelectError \/ Signal
    \/ \E m \in toServer : ServerReceives(m)
    \/ \E k \in SrvKinds : ServerSends(k)
    \/ pc = "exit" /\ UNCHANGED uvars

UNext == Thread \/ Outside

USpec == UInit /\ [][UNext]_uvars

\* The thread is scheduled, which includes the timer of recvfrom() when there
\* is one.  The deadline of select() is fixed for one call of await(), however
\* often PING or SIGINT makes it call select() again: it is strongly fair.
UFairSpec == USpec /\ WF_uvars(Thread) /\ SF_uvars(ResponseTimeout)

----------------------------------------------------------------------------
(* Properties.                                                             *)

\* All the datagrams the client has taken in, oldest first.
Received == handled \o queue

\* However often the network or the server repeats a datagram, and whether it
\* arrives in select() or while a CONFIRM is awaited, one id is parsed (and
\* shown to the user) at most once.
AtMostOnce ==
    \A i, j \in 1 .. Len(Received) : i # j => Received[i].id # Received[j].id

\* A message the server need not send again because its CONFIRM is out has been
\* parsed or sits in the queue, as long as the client goes on and the server's
\* ids are not those of the client's own messages.
ConfirmedIsKept ==
    Running => \A d \in confirmed :
        d.type \in Undersized \cup {"UNKNOWN"} \/ \E i \in 1 .. Len(Received) : Received[i] = d

\* await() goes to select() only when nothing it put aside is left
\* (prompt.c:48).
QueueDrainedFirst == pc \in {"poll", "select"} => queue = <<>>

\* ... and so the datagrams it takes in are processed in the order they arrived:
\* the list of ids and the queue implement the plain Inbox.
Promise == INSTANCE Inbox
    WITH Messages <- Datagrams, Capacity <- MaxQueue, log <- Received, read <- Len(handled)
ImplementsInbox == Promise!Spec

\* Whatever the network does, the state machine sees what ChatClient says a
\* backend may answer.
ImplementsChatClient == Spec

\* The client moves on to the next id only when the server has the message of
\* this one.  (Stated for ids that have not wrapped.)
SentIsReceived == \A n \in Ids : n < msg_id => n \in srvGot

\* Strays use up no attempt: the number of copies handed to the network is the
\* number of confirm timeouts, plus the copy whose CONFIRM is being awaited.
\* So giving up means Retransmissions + 1 copies, no less.
EveryAttemptSends ==
    pc = "send" => copies = attempt + (IF ~waiting /\ resend THEN 0 ELSE 1)

\* SIGINT is a request to leave, never a failure in itself: the handler only
\* sets a flag (main.c:21), and state_interupt says BYE (fsm.c:150-153).
SignalIsNoFailure == [][(~interrupt /\ interrupt') => res' = res]_uvars

\* udp_send_msg() returns, whatever arrives meanwhile.
SendReturns == (pc = "send") ~> (pc # "send")

\* A request is answered, refused, timed out, or the client is gone: the user
\* is never locked out for good.
RequestResolved == processing ~> (~processing \/ pc = "exit")
=============================================================================
