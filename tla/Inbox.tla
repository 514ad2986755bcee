------------------------------- MODULE Inbox -------------------------------
(***************************************************************************)
(* What README.md:87-90 promises of messages received over UDP, without    *)
(* retransmissions, a queue or a list of ids: every message is taken in    *)
(* once and messages are processed in the order they were taken in.        *)
(***************************************************************************)
EXTENDS Naturals, Sequences

CONSTANTS Messages,  \* records with a field id
          Capacity   \* how many messages may wait to be processed

VARIABLES
    log,   \* the messages taken in, oldest first; it only ever grows
    read   \* how many of them have been processed

Fresh(m) == \A i \in 1 .. Len(log) : log[i].id # m.id

Init == log = <<>> /\ read = 0

\* One message more, taken from the new value of log: checking a step need not
\* try every message there is.
Grows == \E m \in {log'[Len(log')]} :
    m \in Messages /\ Fresh(m) /\ log' = Append(log, m)

Accept ==
    /\ Len(log') = Len(log) + 1
    /\ Grows
    /\ Len(log) < read + Capacity
    /\ UNCHANGED read

Process ==
    /\ read < Len(log)
    /\ read' = read + 1
    /\ UNCHANGED log

\* A message may be processed at once only when none is waiting.
AcceptAndProcess ==
    /\ Len(log') = Len(log) + 1
    /\ Grows
    /\ read = Len(log)
    /\ read' = read + 1

Next == Process \/ Accept \/ AcceptAndProcess

Spec == Init /\ [][Next]_<<log, read>>
=============================================================================
