-------------------------------- MODULE Fifo --------------------------------
(***************************************************************************)
(* What lib/queue.h offers its callers: a bounded first-in first-out queue *)
(* that hands every message out once, in the order it was added.           *)
(***************************************************************************)
EXTENDS Naturals, Sequences

CONSTANTS Messages, Null, Capacity

VARIABLES
    items,  \* the messages in the queue, oldest first
    ok,     \* what the last call returned
    got     \* the message queue_front() stored for its caller last

Init == items = <<>> /\ ok = TRUE /\ got = Null

Add(m) ==
    /\ Len(items) < Capacity
    /\ items' = Append(items, m)
    /\ ok' = TRUE
    /\ UNCHANGED got

\* A full queue and a lack of memory look the same to the caller.
AddRefused ==
    /\ ok' = FALSE
    /\ UNCHANGED <<items, got>>

Take ==
    /\ items # <<>>
    /\ got' = Head(items)
    /\ items' = Tail(items)
    /\ ok' = TRUE

TakeRefused ==
    /\ items = <<>>
    /\ ok' = FALSE
    /\ UNCHANGED <<items, got>>

Clear == items' = <<>> /\ UNCHANGED <<ok, got>>

Next == Take \/ TakeRefused \/ AddRefused \/ Clear \/ \E m \in Messages : Add(m)

Spec == Init /\ [][Next]_<<items, ok, got>>
=============================================================================
