# Verification of ipk25chat-client

TLA+ models of the chat client in `src/`, model-checked with TLC and, where a
property should hold for every configuration, proved with TLAPS. Paths below are
relative to `src/` of the repository (`src/fsm.c` is the file
`src/src/fsm.c` of the checkout, as `PROJECT.json` writes it).

## 1. The system

The client is one process with one thread and one signal handler. It logs a user
in to a chat server (AUTH), joins channels (JOIN), sends and shows messages, and
leaves with BYE, over UDP or TCP.

| Component | State it keeps | Operations | Used by |
|---|---|---|---|
| `main.c` | `interrupt`, `client`, `parameters` | `interrupt_handle()` (SIGINT); `process_args()`, `get_comm()`, `fsm()` in turn; exit status | everything reads the flag |
| `fsm.c` | `state`, a pointer to the next state function | `state_start`, `state_auth`, `state_open`, `state_join`, `state_interupt`, the loop of `fsm()` | `main` |
| `prompt.c` | the local `prompt`, `incomplete_tcp_message`, the deadline of one call | `await()`: previous message, then `select()` over socket and keyboard, with `calculate_remaining_time()` | the state functions |
| `input.c` | stdio's buffer; writes the names in `client` | `parse_user_input()`: `getline()`, then the commands | `await()` |
| `comm.c`, `comm.h` | `processing`, five function pointers | `get_comm`, `clean_up_comm`, the macro `SEND` | fsm, prompt, input |
| `comm_udp.c` | `client` (socket, address, `msg_id`, options) | send with retransmission, receive, confirm, check previous | through `comm_t` |
| `udp_msg.c` | none | parsers and builders of datagrams | `comm_udp.c` |
| `list.c` | ids of the datagrams taken in | `list_append`, `list_contains` | `comm_udp.c` |
| `queue.c` | circular array of 16 datagrams | `queue_add`, `queue_front`, `queue_destroy` | `comm_udp.c` |
| `comm_tcp.c` | socket, buffer | send, receive, check previous | through `comm_t` |
| `tcp_msg.c` | none | parsers and builders of lines | `comm_tcp.c` |
| `buffer.c` | `msg`, `msg_len`, `size` | `buffer_append`, `buffer_get_msg`, `crlf` | `comm_tcp.c` |
| `args.c` | the flags of one loop; fills `parameters` | `process_args()` | `main` |
| `common.c` | none | `copy()`, character classes | all |
| `test/server.py` | ids seen, ids used | a server for the tests | outside |

How they interact: `fsm()` calls a state function; it calls `await()`, which asks
the backend for a message put aside earlier (`check_previous_msg`), otherwise
blocks in `select()` and calls `recv_msg` or `parse_user_input`. The state
function reacts by a change of `state`, of `processing`, or a call of `send_msg`
through `SEND`. Over UDP `send_msg` itself blocks in `recvfrom()` until the
CONFIRM is there, and puts whatever else arrives into the queue. `processing` is
written by the state functions and read by `await()` (watch the keyboard? arm the
response timer?) and by the loop (may SIGINT be honoured?).

What is hard here:

* SIGINT between any two instructions, and inside each blocking call, with a
  different outcome in each (`fsm.c:173`, `prompt.c:86`, `comm_udp.c:138`);
* two places that receive over UDP (`select()` and `udp_send_msg()`), one list of
  ids and one queue between them;
* loss, duplication, delay and reordering of datagrams, late CONFIRMs, two
  timers, a retransmission counter that strays must not use up;
* a byte stream cut anywhere, several messages in one segment, a close or a reset
  in the middle of one;
* limits: a full queue, an empty datagram, a buffer filled to the last byte, an
  id that wraps;
* a deadline that is computed anew each time `select()` is entered, across the
  second in which microseconds wrap;
* three layers of standard input - what the terminal holds, what stdio has read
  ahead, what `parse_user_input()` has taken - of which `select()` sees only one;
* `client`, which commands write when they are parsed and messages read when they
  are built, in whatever state the conversation then is.

`PROJECT.json` lists these, each at its line, under `hazards` with the properties
that cover it, and every component under `components` with its status.

What makes each part correct: fsm - the order AUTH, then REPLY, then channel
traffic, and nothing after the end; `processing` - agreement with `state`; SIGINT
- noticed, but never in the middle of a request; `comm_udp.c` - each message
once, in order, none confirmed and lost, each send either received or given up
after all attempts; queue - first in, first out; `comm_tcp.c` and `buffer.c` -
whole messages, each once, in order, however the stream is cut; the response
timer - a deadline that stands; `input.c` - each line once, in order, and the end
of the input noticed; what is sent - acceptable to the other end; `args.c` - a
verdict on the whole command line that does not depend on the order of the options.

## 2. Modules

    Fsm            the state functions as a table (no variables)
     └ ChatClient  fsm() loop, await(), SEND, SIGINT over an open interface comm_t
        ├ ResponseTimer  + the clock, calculate_remaining_time()
        ├ Terminal       + input.c, common.c, the fields of `client`, the user
        │   └ Program    + Args, main(): from the command line to the exit status
        ├ UdpClient      + comm_udp.c, list.c, the network, a server
        └ TcpClient      + comm_tcp.c, buffer.c, a byte stream, a server
    Args           process_args()
    MsgQueue       queue.c, refining Fifo
    Inbox          abstract: what UDP reception promises (refined by UdpClient)
    MsgStream      abstract: messages out of a stream (refined by TcpClient, Terminal)
    Fifo           abstract: a bounded first-in first-out queue
    MC*            what TLC runs;  *_proofs  the theorems

ResponseTimer, Terminal, UdpClient and TcpClient each extend ChatClient: every
action of theirs is a step of ChatClient joined with what their part of the code
does in it, or a step of their environment that leaves ChatClient alone. What is
proved of ChatClient holds of all of them.

A definition named after a "Faulty variant" comment is not part of a model. It is
a plausible slip in the definition below it, kept to show that the property it is
paired with in `PROJECT.json` (`mutants`) would notice.

### Fsm and ChatClient

`Fsm` says for a state and a prompt what is sent (`Outgoing`), what `state` then
is (`StateAfter`, `StateAfterSend`), whether the function fails (`Fails`) and
whether a request was answered (`Answers`). `state_join` does not look at
`input_type`; `FromUser` keeps that.

`ChatClient` has the variables of the C code under their names (`state`,
`processing`, `interrupt`, `prompt`, `incomplete`, `res`) and `pc`, the point where
the thread is. A step ends where the thread blocks, or where it reads what the
handler writes: `loop` (head of the loop, reads `interrupt`), `await`, `poll` (about
to call `select()`), `select`, `input` (inside `parse_user_input()`: `getline()`
blocks until the line that was begun is ended), `react` (await returned), `send`
(inside `send_msg`), `exit`. `SignalInSelect` and `SignalElsewhere` are the handler
at each of them. `comm_t` is open: `recv_msg` and `check_previous_msg` may answer
any type, `send_msg` may succeed, fail, or fail because of a signal. So what holds
of `ChatClient` holds of every backend that takes only its steps, and that is what
`ImplementsChatClient` states of the two.

`admitted`, `ending` and `unanswered` are history variables for the properties: a
REPLY was taken in `state_auth`; an ERR or a BYE has gone either way; a request was
begun and no reply was taken since.

### ResponseTimer

`start_time` and `remaining_time` are those of `await()`, seconds and
microseconds. `Elapsed` borrows and `Remaining` carries as
`calculate_remaining_time()` does. `CallSelect` computes the time left at every
entry of `select()`, as the loop of `await()` does, and `wake` is when that
`select()` gives up. Time passes (`PassTime`) while the thread is blocked, and
between leaving `select()` and entering it again; then the time left may have
become negative, which `select()` refuses with EINVAL (`SelectRefuses`): await
returns the prompt as it is and the state function sees a PING or nothing. The
clock is followed only while a deadline is set, from the second in which it was.
`unrelated` counts what else the server says while the reply is due.

### Terminal

A string is what the checks of `common.c` see of it, a length and the narrowest of
their character classes. Standard input is `kernel` (typed, not read), `stdio`
(read ahead by `getline()`) and `parsed`; a line may come in two parts
(`TypeLine`, `EndLine`), and `ReadChunk` moves any prefix of what is there.
`KeyboardReadable` looks at `kernel` only, as `select()` does. `Parsed` is
`parse_user_input()` on one line: the type it returns and the fields of `client`
it leaves. `StartToSend` includes the texts that `state_auth`, `state_open` and
`state_join` copy into `client` before an ERR. `AcceptedOverTcp` and
`AcceptedOverUdp` are the checks that the parsers of `tcp_msg.c` and `udp_msg.c`
make of a message, applied to what the builders put in.

### Args and Program

A step of `Args` is one turn of the loop of `process_args()`, with the option that
`getopt()` returns, and `OptionsEnd` is what follows the loop. An argument is its
class of text and the number `strtol()` makes of it. `given` and `operands`
remember the command line for the properties and are dropped (`Leave`) when
`main()` goes on: nothing reads `argv` after that. `Program` is `main()`: `stage`
says which of its calls is running, `status` is what it returns. SIGINT may come
before `fsm()` (`EarlySignal`); what the user types before that lies in the
terminal, so the keyboard of the model starts with `fsm()`.

### UdpClient

Each action is a ChatClient step joined with what `comm_udp.c` does in it. A
datagram is a record of a type, its id and the id it refers to. Types stand for
what a parser decides: `GARBLED` is one it rejects, `UNKNOWN` a type not in the
table, `RUNT` shorter than a header, `EMPTY` no byte at all. `CONFIRM` is the one of three
bytes that `udp_send_msg()` waits for; `PADDED` is a CONFIRM of another length, which
is never confirmed, counts as a stray (`comm_udp.c:123`) and is an ERROR to its
parser. `Parse` is the parser
table, including that a late CONFIRM is `LOCAL` and that a reply must refer to
`msg_id - 1`.

`udp_send_msg()` is `StartSending`, then turns of its loop: `Transmit` (up to
`recvfrom()`), and what `recvfrom()` gives: `Confirmed`, `StraySeen`,
`StrayStored`, `StrayOverflows`, `StrayUnconfirmed`, `ConfirmTimeout`,
`EmptyRetried`/`EmptyFails`, `ConfirmInterrupted`, or `GiveUp` after the last
turn. `recvfrom()` returning 0 leaves `errno` as an earlier call set it, and the
code branches on it: the model takes either branch. `udp_recv_msg()` is the four
`Receive...` actions by what `udp_process_msg()` finds, and
`ReceiveUnconfirmed` when its CONFIRM cannot be sent.

The network keeps a set of datagrams in flight. Any may be delivered (reorder,
delay), or never (loss), or delivered and kept, `MaxDups` times (duplication; a
retransmission by the server is such a duplicate). The server confirms every copy
and sends up to `MaxSrv` messages of its own; a reply refers to something it has
received.

### TcpClient

A symbol stands for a run of bytes no property tells apart: keyword and text of a
message are one symbol, CR, LF and NUL are themselves. `Recv` takes any prefix of
what is on the wire, smaller than `BUFFER_SIZE`, so every segmentation happens.
`Grown` is the room check of `buffer_append()`, `Extent` the place up to which its
`copy()` then writes, `Copied` the `strncpy()` of `copy()`, `FirstMsg`/`Rest` what
`buffer_get_msg()` returns and leaves. The room check leaves out the NUL that
`copy()` writes behind the data (`buffer.c:45`, `54`): when the data fill the block
to the last byte, the NUL goes outside. `realloc()` may have put nothing there, and
`Recv` goes on with `extent` one beyond `size`; or something, or no memory, and the
process dies (`RecvOverruns`). `RecvFails` is `recv()` returning -1 and its
conversion to `size_t`, after which the process dies too (`crashed`). The server
writes messages, closes (perhaps in the middle of one) or resets.

### MsgQueue, and the abstract specifications

`MsgQueue` is the circular array with one action per function of `queue.h`;
`UdpClient` uses the queue as a sequence, which `ImplementsFifo` justifies.

* `Fifo`: items are handed out once, in order; a full queue refuses.
* `Inbox`: a growing log of distinct messages and how many are processed; a
  message may be processed at once only when none waits. `UdpClient` maps `log`
  to the handled datagrams followed by the queue.
* `MsgStream`: what is taken is a prefix of what was written, message by message.

## 3. Runs

| Run | Asks | Bounds | Size |
|---|---|---|---|
| `chat_client` | the protocol order, `processing`, SIGINT, exit status, over any backend; the response deadline; liveness of a request | two phases of the clock (0 and 600000 us), steps of 0.5 and 1 s, 6 s after the start, 2 unrelated messages per request | 154 k states |
| `program` | command line to exit status; each line once and in order, all before the end; what is sent is acceptable; end of input | 3 options out of 12, 2 lines out of 6, 1 server message | 0.8 M |
| `udp_safety` | duplicates, order, confirmed is kept, attempts | 2 commands, 2 server messages, 1 duplicate, 1 retransmission, queue of 2 | 2.0 M |
| `udp_noise` | ill-formed traffic, failing `sendto()`/`select()`, refinement of ChatClient, liveness | 1 command (and ERR/BYE), 2 server messages, 1 duplicate, queue of 1 | 0.9 M |
| `tcp_safety` | segmentation, order, nothing left at the hang-up, refinement of ChatClient and MsgStream | 2 server messages out of 7 bodies, buffer of 7 | 1.0 M |
| `tcp_live` | what arrives is processed, hang-up is noticed | 2 server messages, buffer of 7 | 42 k |
| `msg_queue` | the circular array | 3 slots, 2 messages | finite by itself |

In `chat_client` the module is ResponseTimer; ChatClient itself is finite, and is
run alone by `lost_signal`.

Why the bounds are enough. A queue of one or two slots overflows with two server
messages and a stray CONFIRM; with one retransmission there is a first, a last and a
surplus turn; one duplicate is enough for a late CONFIRM, a second copy of a server
message before and after it was processed, and a retransmission received twice. Two
messages and a buffer of seven symbols (six at most from one `recv()`) give a CR LF
cut in two, two messages in one segment, a message with the beginning of the next,
and a buffer that grows twice. Seven bodies cover a good line, one with a LF in the
text, one with a lone CR, one only a client may send, the end, an end with a LF that
its parser refuses, and the empty line; two messages of them come to fill the buffer
to the last symbol, so that the NUL goes outside. In `udp_safety` the server numbers
its messages from 4, so that its ids and the client's do not meet; the run
`udp_late_confirm` shows what happens when they do. `udp_safety` has no PING;
`udp_stranded` shows why `Inbox` is not implemented with one. In `udp_noise`,
`GARBLED` and `BYE` are left out: a reply that fits nothing is parsed as the former
is, and BYE goes through the runs of ChatClient and TCP. In `chat_client` the two
phases make the microseconds borrow and not borrow, carry and not carry, and six
seconds let the deadline pass on the way to `select()`, by less and by more than a
second. In `program` an accepted command line needs two options, so three give every
kind of third one: a repetition, a value at its limit, a value beyond it, `-h`, a
missing argument. The lines are an `/auth` that is accepted with names of the
greatest length, one that is refused, a `/join`, a `/rename`, a message one longer
than a message may be, and a blank line; two of them are typed before, between or
after the reads, whole or begun, and one server message is enough to admit the user
or to refuse. Deadlock is checked in every run; a client that has exited stutters.

Some properties deserve a word. `ConfirmedIsKept`: once the CONFIRM of a message is
out the server will not send it again, so it must have been processed or be in the
queue - as long as the client runs, because `StrayOverflows` drops a confirmed
message and only the failure that follows makes that harmless. `EveryAttemptSends`:
`i--` and `resend` in the loop of `udp_send_msg()` together keep the number of
copies equal to the number of attempts. `NothingCompleteLeft`: `await()` blocks
only on a buffer without a complete message. `WaitingMatchesState`: `processing`
and `state` are written in different places and must never disagree.
`OneRequestAtATime`: from the choice of a request in a state function, through the send
and every call of `await()`, to the reply, nothing but an ERR is begun. Three guards
far apart keep it so - the keyboard is not watched while `processing`
(`prompt.c:80`), the loop puts an interrupt off (`fsm.c:173`), and no state function
sends on a message of the server except an ERR - and dropping any one lets a second
message overtake the reply.
`TTypeOK` includes what is true of `buffer_append()`: the data lie inside the block,
the NUL at most one byte outside.
`DeadlineStands` and `RefusedWhenLate`: the time left is computed from two clock
readings at every entry of `select()`, and whatever those are it adds up to the
same moment, five seconds after the first. (The comment at `prompt.c:13` speaks of
four: the seconds are `4 - elapsed_sec`, but the microseconds are a whole second
less what has passed.) The deadline belongs to one call of `await()`; a message
that `await()` returns while a reply is due starts a new one, so `RequestResolved`
rests on `MaxUnrelated`. `SentParses` ties `client`, written when a command is
parsed, to the message that goes out, perhaps after refused commands and an ERR
whose text went through the same array. Over TCP it always passes the parsers of a
client of this kind. Over UDP it passes exactly while the display name has only
letters, digits, `-` and `_`: `/auth` and `/rename` accept any printable one, and with
another the messages are refused at the other end, which the property states rather
than leaves out. `AcceptsExactly` compares the flags, early returns and final checks of
`process_args()` with a predicate on the whole command line, the synopsis and table of
`README.md:30-45`. `EndOfInput`: a client fed from a pipe ends after it, even when the
end of the file and unread lines lie in stdio's buffer - or it waits for ever for the
rest of a TCP message; an incomplete message that is completed later does not excuse
it. `HangUpComesLast` and `EndComesLast` are action
properties of the two steps that end a stream: `recv()` returning 0 and `getline()`
at the end of the file come when everything that was completed has been processed.

### Fairness

* `RFairSpec`: the thread is scheduled (weak fairness), and time passes: each entry
  of `select()` lets the clock advance in the end, although a PING or a SIGINT may
  cut the wait short again and again (strong fairness on `PassTime`). With
  `DeadlineStands` that makes the deadline come; nothing is assumed of the server or
  the user.
* `PFairSpec`: `main()` is scheduled, and the response deadline goes off (strong
  fairness on `ResponseTimeout`), which is what `chat_client` shows of it.
  `EndOfInput` rests on the bound on server messages: the socket is looked at before
  the keyboard (`prompt.c:103`), and a server that never stops keeps the keyboard
  waiting.
* `UFairSpec`: the thread is scheduled (weak fairness), which includes the timer
  of `recvfrom()`; the response deadline is computed once per call of `await()`
  and not restarted by a PING or a signal within that call, so it goes off even if
  `select()` is left and entered again and again (strong fairness). Nothing is
  assumed of the network, the server or the user. `SendReturns` and
  `RequestResolved` rest on the number of server messages being bounded: see
  section 6.
* `TFairSpec`: the thread is scheduled and `send()` returns; a terminal hands out
  whole lines, so `getline()` returns once called; `await()` looks at
  the socket before the keyboard (`prompt.c:103`), so a readable socket is served
  in the end although `select()` is entered again and again (strong fairness).
  `send()` blocking for ever on a server that does not read is not modelled.
* `FairSpec` of ChatClient: the thread is scheduled, and a user ends the line he
  has begun (`getline()` blocks until then).

### What the code does otherwise than its comments say

Five runs end in a violation; the finding in `PROJECT.json` quotes the text.

* `lost_signal`: SIGINT after the check of the flag (`fsm.c:173`) and before
  `select()` is not noticed until something else happens. `pselect()` is the
  usual remedy.
* `udp_stranded`: a PING at the head of the queue sends `await()` to `select()`
  with messages still queued (`prompt.c:60`); newer ones overtake them.
* `udp_late_confirm`: the id of a late or duplicated CONFIRM, which is an id of
  the client, is entered in the list of the server's ids (`comm_udp.c:188` and
  `131`): the server's own message with that id is confirmed and dropped.
* `udp_signal`: SIGINT while a CONFIRM is awaited is a failed send: exit status
  failure and no BYE (`comm_udp.c:141`).
* `tcp_reset`: `recv()` returning -1 is stored in a `size_t` and taken for data
  (`comm_tcp.c:104`).

One more shows in the states of `tcp_live` and `tcp_safety` and is stated by a theorem
instead of a run: `buffer.c:36` says of `buffer_append()` that it "automatically
reallocates memory if the buffer is not large enough", and the room check does not
count the NUL. `NulOutsideWhenFull` proves that it goes outside the block exactly when
the data fill the block to the last byte; that happens in these runs, in which
`extent <= size` is not an invariant.

Three more are in the models but outside the bounds of the runs, and are listed as
hazards: `msg_id` wraps to 0 and `msg_id - 1` is then the `int` -1, so the reply
to message 65535 is refused (`udp_msg.c:189`); a NUL byte in the TCP stream blanks
the rest of its segment, delimiters included, so two messages become one
(`buffer.c:54`); `-d 0` switches the receive timeout off, after which a lost
datagram blocks the client for good (`comm_udp.c:63`).

Texts of the repository also disagree with each other: the usage text
(`args.c:28`, `32`) and `args.h:11-13` call `-p` required, `README.md:32` and `43` make
it optional with a default of 4567. The code does as the latter say. So do
`AcceptsExactly` and `ArgumentsChecked`, which therefore say that a command line
without `-p` is accepted, against the usage text.

## 4. Proofs

All theorems hold for every value of the constants that satisfies the named
assumptions (`ClockAssumption`; `LinesAssumption`, `LimitsAssumption`,
`OptionsAssumption`, `MaxOptionsAssumption`; `IdModAssumption`,
`QueueAssumption`, `ServerAssumption`, `BoundsAssumption`; `SizeAssumption`,
`BodiesAssumption`, `BoundAssumption`), which TLC evaluates in the runs.

* **`ChatClient_proofs`.** The invariants of `chat_client` are not inductive one by
  one: `AdmittedFirst` that `state_open` and `state_join` are reached only
  by a REPLY, `ExitStatus` how `res` and `ending` relate in every state.
  `IInv` is their conjunction with these facts; `InitIInv`, `NextIInv` (one step
  per action) and `Inductive` give `[]IInv`, and `TypeCorrect`, `Waiting`,
  `Admission`, `Ending` and `Exiting` follow. The lemmas
  `OutgoingStates` and `QuietStates` say what the table of `Fsm` can do.
  `NothingButErrors` is `OneRequestAtATime`. It needs two more parts of `IInv`:
  `FlagIsTrue`, that a request is unanswered exactly while `processing` is set;
  and `AwaitsServer`, that the prompt
  in a state function is then not the user's. Without them a state function could meet
  a typed line with a reply due.
* **`UdpClient_proofs`.** `UdpImplementsChatClient`: each action is a step of
  ChatClient or leaves its variables alone (`ReceiveIsStep`, `ThreadIsStep`,
  `StepIsStep`), so `UdpKeepsIInv`: everything above holds over UDP.
  `UdpTypeCorrect` needs `AttemptsInv`, which ties `waiting`, `attempt`,
  `resend` and `copies` to `pc`; `AttemptsCounted` follows from it.
  `ParsedAtMostOnce` is proved from `OnceInv`: the ids in `handled` and in the
  queue are in `seen`, distinct within each and disjoint between the two.
  `ConfirmedIsReceived` needs `ReceivedInv`: a CONFIRM in flight is for an id the
  server has got.
  `ConfirmedStaysKept` is `ConfirmedIsKept` under `IdsTellApart`: a datagram that
  the client is about to take in differs in its id from every other it has received.
  `KeptInv` says that each id in `seen` is that of a datagram taken in; a repetition
  is then a repetition of something taken in, and a datagram that a full queue drops
  is confirmed only by a client that never runs again (`StoppedForGood`, from
  `IInv`). `IdsTellApart` holds in all states of `udp_safety`, and fails in
  `udp_late_confirm`, whose server numbers its messages as the client does.
  `QueueIsDrained` is `QueueDrainedFirst`, the property that `udp_stranded` refutes,
  for a server that sends no PING (`DrainedStep`). `DrainedInOrder` is the refinement
  of `Inbox`: in every run in which the queue is drained first, what is received grows
  by datagrams not in it yet and is processed from the front. It rests on `OnceInv`
  (a new id belongs to a new datagram: `UnseenIsFresh`) and has one lemma per step of
  `Inbox`: `StoredAccepts`, `NewIsProcessed`, `PreviousIsProcessed`. The two together
  are `InOrderWithoutPing`. Neither needs `IdsTellApart`: what a mistaken id costs
  is a message, and not the order of the others.
* **`TcpClient_proofs`.** `TcpImplementsChatClient` and `TcpKeepsIInv` as for UDP.
  `TcpInv` joins the types with `NothingCompleteLeft`: `Rest` of a buffer is no
  longer than the buffer, and the bytes in it never exceed `size`
  (`MsgEndInside`, `AppendTypes`). `RoomMade` is the arithmetic of `buffer_append()`:
  after the room check the data fit, and the NUL fits except behind data that fill the
  block they found. From it `TcpTypeCorrect` bounds what `copy()` writes by one byte
  more than the block, and `NulOutsideWhenFull` says when that byte is used.
  `SegmentationHidden` is the refinement of `MsgStream`. Its invariant `StreamInv`
  speaks of one sequence, `Pending`, the buffer followed by the wire, and of positions
  `P[k]` in it: message k lies behind symbol `P[k]`, for every message written and not
  taken, as far as the sequence reaches (`Laid`); behind the last there is at most a
  proper beginning of another (`Tailed`); while the connection is open the sequence
  ends with the last message, after an orderly close not before it, after a reset
  anywhere (`Holds`). Receiving a segment leaves `Pending` as it is
  (`SegmentIsPending`); the first CR LF of what has come ends its first message
  (`FirstIsMessage`, `NextMessage`), and without it the positions of the others shift
  (`MessageGone`). The same invariant gives `NothingIsLost` and, with
  `NothingCompleteLeft`, `HangUpIsLast`. All three assume `PlainBodies`, that the
  texts have no NUL, which holds in the runs; without it `copy()` makes them false.
* **`MsgQueue_proofs`.** `QueueCounters` from the arithmetic of one step around
  the array (`ModOnce`, `IndexSteps`); `QueueIsFifo`, the refinement, with one
  lemma per operation (`AddRefines`, `TakeRefines`).
* **`ResponseTimer_proofs`.** `TimedKeepsIInv`: the timed client takes steps of
  ChatClient, so everything above holds of it. `TimerInv` says that in `select()`
  `wake` is five seconds after `start_time` and `remaining_time` the difference to
  the clock; `RemainingIsRest` is the arithmetic of `calculate_remaining_time()`,
  borrow and carry included, for any two readings of the clock. From it
  `TimerTypeCorrect`, `DeadlineKept` and `LateIsRefused`.
* **`Args_proofs`.** `AInv` relates the flags of the loop to the options looked at so
  far; a refused option makes the command line ill-formed (`RefusedIsWrong`), one
  that is taken keeps it well-formed (`TakenIsRight`), and a cast of a value in
  range keeps it (`CastsKeep`). `ArgumentsChecked` and `ParametersAreGiven` hold for
  command lines of any length.
* **`Program_proofs`.** `ProgramIsClient`: the program is a run of ChatClient and a
  run of Args, so the theorems about both hold of it (`ProgramChecksArguments`).
  `PInv` has three parts: the fields of `client` fit their arrays and, once a
  command has written them, pass its checks (`FieldsFit`); the three layers of
  standard input are sequences of what was typed (`InputOK`); and `stage`, `status`
  and `outcome` agree (`StageOK`). That until `select()` reports the keyboard the
  prompt is not the user's comes from `IInv`. `SentIsWellFormed`, the exact
  condition for UDP included, and `StatusIsTrue` follow. `LinesAreTakenInOrder` is
  the refinement of `MsgStream` by standard input. `LinesInv` numbers the symbols
  that lie in stdio's buffer and in the terminal by the lines they belong to: the
  number goes up behind each line feed, the first is that of the line after those
  parsed, the last that of the last line typed (`Numbered`). Reading ahead changes
  nothing (`ChunkIsPending`), the first line of the buffer is the next one
  (`TakingIsNext`), also a last one without its line feed. `NoLineIsLeft` follows:
  nothing is pending at the end of the file, so no number is left.

Every invariant and every action property that a run checks is so stated by a theorem,
and every refinement. Only model-checked: the liveness properties `SendReturns`,
`RequestResolved`, `EverythingTaken`, `HangUpIsNoticed` and `EndOfInput` (the prover
has no rules for fairness), and the violations.

## 5. Not modelled

* Address lookup, `socket()`, `connect()` and `setsockopt()`: `get_comm()` succeeds
  or fails. Output to the terminal, `/help` among it.
* How a server's text is matched, word by word and field by field (`tcp_msg.c`,
  `udp_msg.c`): the models take the verdict, a type or `GARBLED`. Of the builders,
  whether what they are given passes the checks of a parser, not the bytes.
* Failing `malloc()` and `realloc()`, except that `queue_add` may be refused; a
  SIGPIPE, which ends the program as a failed `send()` does; that `recvfrom()`
  overwrites the server's address, which is the same server here. A `RUNT` is taken
  for the beginning of something else than a CONFIRM.
* The clock of the confirm timeout: `SO_RCVTIMEO` goes off at any time, so the model
  does not see that each stray datagram starts it anew (`comm_udp.c:121`). A wall
  clock that is set while a reply is due.
* That lines already in stdio's buffer wait, while the input stays open, until
  something more is typed (`input.c:120`): the model behaves so, and no property
  says more than that they are taken once, in order, and before the end.
* `test/server.py` as it is: the servers of the models may do what it does and
  more. The test runner and the build.

## 6. Plan

Built, in this order: `Fsm` and `ChatClient` with proofs (the core on which all
else rests), `UdpClient` with `Inbox`, `MsgQueue` with `Fifo`, `TcpClient` with
`MsgStream`; then `ResponseTimer`, `Terminal`, `Args` and `Program`, with proofs, and
the proof of `ConfirmedIsKept` under an assumption on ids; then the proofs of the
refinements of `Inbox` and `MsgStream`, and of what they say about the end of the
stream and of the input.

Next, in order of weight:

1. The confirm timeout with a clock, which would replace the bounded number of
   server messages behind `SendReturns`.
2. The parsers of `tcp_msg.c` over words, checked against the grammar that the
   builders follow.
3. A server that writes NUL bytes: which messages `copy()` spares.
