------------------------------ MODULE MsgQueue ------------------------------
(***************************************************************************)
(* queue.c: the circular array msg_queue and its operations, with their    *)
(* names.  A slot holds the pointer stored in it; a slot that was taken    *)
(* out keeps its old one.                                                  *)
(***************************************************************************)
EXTENDS Naturals, Sequences

CONSTANTS
    MAX_QUEUE_SIZE,  \* queue.h:16
    Messages,
    Null             \* what the zero-initialised slots hold

ASSUME SizeAssumption == MAX_QUEUE_SIZE \in Nat \ {0}

VARIABLES
    msgs, front, end, size,  \* msg_queue_t
    ok,   \* what the last call returned
    got   \* the message queue_front() stored for its caller last

vars == <<msgs, front, end, size, ok, got>>

Slots == 0 .. MAX_QUEUE_SIZE - 1

TypeOK ==
    /\ msgs \in [Slots -> Messages \cup {Null}]
    /\ front \in Slots
    /\ end \in Slots
    /\ size \in 0 .. MAX_QUEUE_SIZE
    /\ ok \in BOOLEAN
    /\ got \in Messages \cup {Null}

Init ==
    /\ msgs = [i \in Slots |-> Null]
    /\ front = 0
    /\ end = 0
    /\ size = 0
    /\ ok = TRUE
    /\ got = Null

queue_is_empty == size = 0

\* Faulty variant: one message too many.
queue_is_overfull == size > MAX_QUEUE_SIZE

queue_is_full == size = MAX_QUEUE_SIZE

\* Faulty variant: the index does not wrap.
AfterUnwrapped(i) == i + 1

After(i) == (i + 1) % MAX_QUEUE_SIZE

queue_add(m) ==
    /\ ~queue_is_full
    /\ msgs' = [msgs EXCEPT ![end] = m]
    /\ end' = After(end)
    /\ size' = size + 1
    /\ ok' = TRUE
    /\ UNCHANGED <<front, got>>

\* The queue is full, or malloc() fails.
queue_add_fails ==
    /\ ok' = FALSE
    /\ UNCHANGED <<msgs, front, end, size, got>>

queue_front ==
    /\ ~queue_is_empty
    /\ got' = msgs[front]
    /\ front' = After(front)
    /\ size' = size - 1
    /\ ok' = TRUE
    /\ UNCHANGED <<msgs, end>>

queue_front_fails ==
    /\ queue_is_empty
    /\ ok' = FALSE
    /\ UNCHANGED <<msgs, front, end, size, got>>

\* Faulty variant: only the count is reset.
queue_destroy_count ==
    /\ size' = 0
    /\ UNCHANGED <<msgs, front, end, ok, got>>

\* queue_destroy() takes messages out until none is left.
queue_destroy ==
    /\ front' = (front + size) % MAX_QUEUE_SIZE
    /\ size' = 0
    /\ UNCHANGED <<msgs, end, ok, got>>

Next ==
    \/ \E m \in Messages : queue_add(m)
    \/ queue_add_fails
    \/ queue_front \/ queue_front_fails
    \/ queue_destroy

Spec == Init /\ [][Next]_vars

----------------------------------------------------------------------------
(* Properties.                                                             *)

\* The three counters agree, also when the array has wrapped: a full queue and
\* an empty one both have front = end, and only size tells them apart.
CountersAgree == end = (front + size) % MAX_QUEUE_SIZE

\* The messages of the queue in the order they were added.
Items == [i \in 1 .. size |-> msgs[(front + i - 1) % MAX_QUEUE_SIZE]]

\* The circular array is a bounded first-in first-out queue: no message is lost,
\* overwritten, repeated or reordered, wherever front stands.
Queue == INSTANCE Fifo WITH items <- Items, Capacity <- MAX_QUEUE_SIZE
ImplementsFifo == Queue!Spec
=============================================================================
