----------------------------- MODULE MCSim900Rx -----------------------------
(* Sim900, which takes messages as they are; besides it the buffer they    *)
(* are put together in: each behaviour is one of one of them.  Two         *)
(* messages at most wait: one of the command in progress and one that came *)
(* before or besides.                                                      *)
EXTENDS Sim900

CONSTANT Size       \* of RxBuffer

ASSUME SizeAssumption == Size \in Nat /\ Size > 2 /\ Size % 2 = 0     \* 1 << size_pow2

VARIABLES part, owner, lengths, level, last, writeMeta, writeIndex, readMeta, allOk, chars, unread

Buffer == INSTANCE RxBuffer

bufferV == <<owner, lengths, level, last, writeMeta, writeIndex, readMeta, allOk, chars, unread>>

AllInit == part \in {"driver", "buffer"} /\ Init /\ Buffer!Init

DriverStep == part = "driver" /\ Next /\ UNCHANGED <<part, bufferV>>
BufferStep == part = "buffer" /\ Buffer!Next /\ UNCHANGED <<part, vars>>

AllNext == DriverStep \/ BufferStep

AllSpec == AllInit /\ [][AllNext]_<<part, vars, bufferV>>

\* Fairness of the driver, see Sim900; in its part nothing else changes
Driving(action) == part = "driver" /\ action

FairAll ==
    /\ AllSpec
    /\ WF_vars(Driving(Driver)) /\ WF_vars(Driving(\E c \in Command : c = due /\ Begin(c)))
    /\ SF_vars(Driving(Elapse)) /\ SF_vars(Driving(TransferDone)) /\ SF_vars(Driving(SendByTask))

\* However full the buffer gets, next_read() gives the oldest message, complete.
ReadsWhatWasReceived == Buffer!ReadsWhatWasReceived
=============================================================================
