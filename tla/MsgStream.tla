----------------------------- MODULE MsgStream -----------------------------
(***************************************************************************)
(* What README.md:74-75 promises of the TCP variant: however the stream is *)
(* cut into segments, the messages of the server are processed whole, each *)
(* once and in the order they were written.                                *)
(***************************************************************************)
EXTENDS Naturals, Sequences

CONSTANT Messages

VARIABLES
    written,  \* what the server has written, oldest first
    taken     \* what the client has processed

Init == written = <<>> /\ taken = <<>>

Write(m) ==
    /\ written' = Append(written, m)
    /\ UNCHANGED taken

Take ==
    /\ Len(taken) < Len(written)
    /\ taken' = Append(taken, written[Len(taken) + 1])
    /\ UNCHANGED written

Next == Take \/ \E m \in Messages : Write(m)

Spec == Init /\ [][Next]_<<written, taken>>
=============================================================================
