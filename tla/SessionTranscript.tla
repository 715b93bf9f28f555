-------------------------- MODULE SessionTranscript --------------------------
(***************************************************************************)
(* What a keeper promises the daemons that come and go while its session   *)
(* runs, whatever threads, locks and frames it takes: the output is one    *)
(* growing record; a daemon that attaches can rebuild all of it and then   *)
(* follows it chunk by chunk; the end is announced after the last chunk.   *)
(***************************************************************************)
EXTENDS Naturals

CONSTANTS Readers, Nobody

VARIABLES
    record,     \* chunks of output on record
    over,       \* the session has ended
    attached,   \* the reader that follows the record
    joined,     \* readers that were ever attached
    seen,       \* chunks each reader can rebuild
    heard       \* readers told of the end

vars == <<record, over, attached, joined, seen, heard>>

Init ==
    /\ record = 0 /\ over = FALSE /\ attached = Nobody
    /\ joined = [r \in Readers |-> FALSE]
    /\ seen = [r \in Readers |-> 0]
    /\ heard = [r \in Readers |-> FALSE]

\* A chunk goes on record, and to the attached reader if it can be reached.
Emit ==
    /\ ~over
    /\ record' = record + 1
    /\ \/ /\ attached # Nobody /\ attached' = attached
          /\ seen' = [seen EXCEPT ![attached] = @ + 1]
       \/ attached' = Nobody /\ seen' = seen
    /\ UNCHANGED <<over, joined, heard>>

\* A reader attaches once, to a record nobody else follows.
Attach(r) ==
    /\ attached = Nobody /\ ~joined[r]
    /\ attached' = r
    /\ joined' = [joined EXCEPT ![r] = TRUE]
    /\ seen' = [seen EXCEPT ![r] = record]
    /\ UNCHANGED <<record, over, heard>>

Detach ==
    /\ attached # Nobody
    /\ attached' = Nobody
    /\ UNCHANGED <<record, over, joined, seen, heard>>

End ==
    /\ ~over
    /\ over' = TRUE
    /\ UNCHANGED <<record, attached, joined, seen, heard>>

Announce ==
    /\ over /\ attached # Nobody
    /\ heard' = [heard EXCEPT ![attached] = TRUE]
    /\ UNCHANGED <<record, over, attached, joined, seen>>

Next == Emit \/ (\E r \in Readers : Attach(r)) \/ Detach \/ End \/ Announce

Spec == Init /\ [][Next]_vars
=============================================================================
