------------------------------ MODULE RxBuffer ------------------------------
(***************************************************************************)
(* The ring buffer between the interrupt that receives the chars of the    *)
(* GSM module and the task that reads its messages (GSMService/sim900/     *)
(* RxBuffer.h).  A message is two bytes of length, 0 if it is corrupted,   *)
(* and its chars.  The last two chars wait in a fifo until it is known     *)
(* that they do not end the message.                                       *)
(***************************************************************************)
EXTENDS Integers, Sequences

CONSTANT Size       \* 1 << size_pow2

VARIABLES
    owner,              \* position -> where the message starts that was written there
    lengths,            \* position -> the length that was written there
    level, last,        \* chars in the fifo, the newest of them
    writeMeta, writeIndex, readMeta,    \* write_meta, write_index, read_meta
    allOk,              \* all_ok
    chars,              \* received for the message so far, those in the fifo included
    unread              \* lengths of the messages that were finished and not read

vars == <<owner, lengths, level, last, writeMeta, writeIndex, readMeta, allOk, chars, unread>>

Position == 0..(Size - 1)
Nobody   == Size
Symbol   == {"\r", "\n", ">", " ", "x"}

Shift(index, n)   == (index + n) % Size
Ahead(to, from)   == (to + Size - from) % Size
FreeSpace(next)   == Size - Ahead(next, readMeta)
WrittenLen(index) == Ahead(index, writeMeta) - 2
Even(index)       == Shift(index, index % 2)

Init ==
    /\ owner = [p \in Position |-> Nobody] /\ lengths = [p \in Position |-> 0]
    /\ level = 0 /\ last = "x"
    /\ writeMeta = 0 /\ writeIndex = 2 /\ readMeta = 0
    /\ allOk = TRUE /\ chars = 0 /\ unread = <<>>

Delim(symbol) == level >= 1 /\ last = "\r" /\ symbol = "\n"
Input(symbol) == level = 1 /\ last = ">" /\ symbol = " "

\* How many chars leave the fifo for the buffer, and whether there is room for them
Taken(symbol) == IF ~allOk THEN 0 ELSE IF Input(symbol) THEN 2 ELSE IF level = 2 THEN 1 ELSE 0
HasRoom(n) ==
    CASE n = 2 -> FreeSpace(writeIndex) > 2
      [] n = 1 -> Shift(writeIndex, 1) # readMeta
      [] OTHER -> TRUE

\* Space for the length and a char of the message after the one that ends at index
\* Mutant: without room for a char.
NextFitsTight(index) == Even(index) # readMeta

NextFits(index) == LET next == Even(index) IN next # readMeta /\ FreeSpace(next) >= 3

\* The message is finished: as received, as corrupted or, without room, not at all.
Finish(index, ok, total, put) ==
    LET len == WrittenLen(index)
        finished(length, truth, next) ==
            /\ lengths' = [lengths EXCEPT ![writeMeta] = length]
            /\ owner' = [p \in Position |->
                    IF Ahead(p, writeMeta) < 2 THEN writeMeta
                    ELSE IF put[p] = writeMeta /\ length = 0 THEN Nobody ELSE put[p]]
            /\ unread' = Append(unread, truth)
            /\ writeMeta' = next
            /\ writeIndex' = Shift(next, 2)
        dropped ==
            /\ owner' = [p \in Position |-> IF put[p] = writeMeta THEN Nobody ELSE put[p]]
            /\ writeIndex' = Shift(writeMeta, 2)
            /\ UNCHANGED <<lengths, unread, writeMeta>>
    IN /\ IF ok /\ len = 0 THEN dropped
          ELSE IF ok /\ NextFits(index) THEN finished(len, total, Even(index))
          ELSE IF FreeSpace(Shift(writeMeta, 2)) >= 3 THEN finished(0, 0, Shift(writeMeta, 2))
          ELSE dropped
       /\ level' = 0 /\ last' = "x" /\ allOk' = TRUE /\ chars' = 0

\* add()
Add(symbol) ==
    LET n     == Taken(symbol)
        ok    == allOk /\ HasRoom(n)
        index == IF ok THEN Shift(writeIndex, n) ELSE writeIndex
        put   == [p \in Position |-> IF ok /\ Ahead(p, writeIndex) < n THEN writeMeta ELSE owner[p]]
    IN /\ \/ Delim(symbol) /\ Finish(index, ok, chars - 1, put)
          \/ Input(symbol) /\ Finish(index, ok, chars + 1, put)
          \/ /\ ~Delim(symbol) /\ ~Input(symbol)
             /\ owner' = put /\ writeIndex' = index /\ allOk' = ok
             /\ level' = (IF level < 2 THEN level + 1 ELSE 2)
             /\ last' = (IF symbol \in {"\r", ">"} THEN symbol ELSE "x")
             /\ chars' = (IF ok THEN chars + 1 ELSE 0)
             /\ UNCHANGED <<lengths, writeMeta, unread>>
       /\ UNCHANGED readMeta

\* mark_message_corrupted(): the char was received with an error
MarkMessageCorrupted ==
    /\ allOk' = FALSE
    /\ chars' = 0
    /\ UNCHANGED <<owner, lengths, level, last, writeMeta, writeIndex, readMeta, unread>>

MayRead == readMeta # writeMeta

\* next_read(): what was read is free
NextRead ==
    /\ MayRead
    /\ readMeta' = Even(Shift(readMeta, lengths[readMeta] + 2))
    /\ owner' = [p \in Position |-> IF owner[p] = readMeta THEN Nobody ELSE owner[p]]
    /\ lengths' = [lengths EXCEPT ![readMeta] = 0]
    /\ unread' = Tail(unread)
    /\ UNCHANGED <<level, last, writeMeta, writeIndex, allOk, chars>>

\* reset(): the module is powered off
Reset ==
    /\ owner' = [p \in Position |-> Nobody] /\ lengths' = [p \in Position |-> 0]
    /\ level' = 0 /\ last' = "x"
    /\ writeMeta' = 0 /\ writeIndex' = 2 /\ readMeta' = 0
    /\ allOk' = TRUE /\ chars' = 0 /\ unread' = <<>>

Next == (\E symbol \in Symbol : Add(symbol)) \/ MarkMessageCorrupted \/ NextRead \/ Reset

Spec == Init /\ [][Next]_vars

TypeOK ==
    /\ owner \in [Position -> Position \cup {Nobody}] /\ lengths \in [Position -> Position]
    /\ {writeMeta, writeIndex, readMeta, chars} \subseteq Position
    /\ level \in 0..2 /\ last \in {"\r", ">", "x"} /\ allOk \in BOOLEAN
    /\ unread \in Seq(Position)

\* However full the buffer gets and wherever it wraps, the message that may be read is
\* the oldest finished one, complete, none of its bytes overwritten by later messages, and
\* there is one as long as one was not read (add() in the interrupt, next_read() in the
\* task).
ReadsWhatWasReceived ==
    /\ MayRead <=> unread # <<>>
    /\ MayRead =>
        /\ lengths[readMeta] = Head(unread)
        /\ \A p \in Position : Ahead(p, readMeta) < Head(unread) + 2 => owner[p] = readMeta
=============================================================================
