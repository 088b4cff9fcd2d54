---------------------------- MODULE RecordQueue ----------------------------
(***************************************************************************)
(* What the buffer of the logger promises (Logging/Buffer.h): records are  *)
(* handed to the recorder whole, once and in the order in which they were  *)
(* begun, each after it has been ended.                                    *)
(***************************************************************************)
EXTENDS Sequences

CONSTANT Records

VARIABLES
    queue,  \* records begun and not yet handed over
    taken   \* the record handed over last

Init == queue = <<>> /\ taken \notin Records

Begin(rec) == queue' = Append(queue, [rec |-> rec, done |-> FALSE]) /\ UNCHANGED taken

End(i) == ~queue[i].done /\ queue' = [queue EXCEPT ![i].done = TRUE] /\ UNCHANGED taken

Take ==
    /\ queue # <<>> /\ Head(queue).done
    /\ taken' = Head(queue).rec
    /\ queue' = Tail(queue)

Next == (\E rec \in Records : Begin(rec)) \/ (\E i \in DOMAIN queue : End(i)) \/ Take

Spec == Init /\ [][Next]_<<queue, taken>>
=============================================================================
