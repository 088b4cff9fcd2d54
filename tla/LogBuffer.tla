----------------------------- MODULE LogBuffer -----------------------------
(***************************************************************************)
(* The logger: a ring buffer with slots for records (Logging/Buffer.h),    *)
(* which every task writes through rec::log() (logging.cpp) and one task   *)
(* takes to the card (record_logs()).                                      *)
(*                                                                         *)
(* A slot is two bytes of length, the busy flag in the highest bit, and    *)
(* the text with its tailing '\0'.  It is reserved in a critical section,  *)
(* filled without a lock, and made readable by whoever ends the oldest     *)
(* slot that is still busy.                                                *)
(***************************************************************************)
EXTENDS Naturals, Sequences, FiniteSetsExt

CONSTANTS
    Writers,        \* tasks that log
    Size,           \* of the buffer in bytes: 1 << size_pow_2
    BulkSize,       \* bytes that are worth writing to the card
    MaxLength,      \* of a text with its '\0': max_message_length
    Stamps,         \* timestamps of records, see LenOfStamp
    Texts,          \* [plain, arg, uses]: chars of the message, chars of its argument,
                    \* how often the message contains "{0}"
    Calendar,       \* a timestamp with date and time
    Coincidences    \* "wrap": a writer may be kept in end_write() until the buffer wraps

VARIABLES
    head,           \* position of the buffer -> the slot that starts there, or NoSlot
    newWrite, doneWrite, readyRead,   \* new_write_slot, done_write_slot, ready_read_slot
    dataSize,       \* data_size
    events,         \* bits set in the event group
    pc, slot,       \* of each writer: what is next, where its slot starts
    recorder,       \* what is next in record_logs()
    message,        \* the record copied last
    wrote           \* bytes after its slot that the last writer wrote into

bufferV == <<head, newWrite, doneWrite, readyRead, dataSize, events>>
vars == <<bufferV, pc, slot, recorder, message, wrote>>

Position == 0..(Size - 1)
Record   == [stamp : Stamps, text : Texts]
NoRecord == [stamp |-> "none"]
NoSlot   == [len |-> 0, busy |-> FALSE, rec |-> NoRecord]

-----------------------------------------------------------------------------
(* Lengths (logging.cpp) *)

LenOfNumber(n) == IF n >= 10000 THEN 5 ELSE IF n >= 1000 THEN 4 ELSE IF n >= 100 THEN 3 ELSE IF n >= 10 THEN 2 ELSE 1

If(condition, n) == IF condition THEN n ELSE 0

\* len_of(Timestamp): chars that are reserved.  Hours are compared with has_higher
\* (`has_higher != runtime.hours > 0`), where set() accumulates them.
LenOfStamp(t) ==
    IF t = Calendar THEN 17
    ELSE LenOfNumber(t.seconds) + 1
         + If(t.days > 0, LenOfNumber(t.days) + 2)
         + If((t.days > 0) # (t.hours > 0), LenOfNumber(t.hours) + 2)
         + If(t.minutes > 0 \/ t.days > 0, LenOfNumber(t.minutes) + 2)

\* set(Timestamp): chars that are written
WrittenStamp(t) ==
    IF t = Calendar THEN 17
    ELSE LenOfNumber(t.seconds) + 1
         + If(t.days > 0, LenOfNumber(t.days) + 2)
         + If(t.days > 0 \/ t.hours > 0, LenOfNumber(t.hours) + 2)
         + If(t.minutes > 0 \/ t.days > 0 \/ t.hours > 0, LenOfNumber(t.minutes) + 2)

\* rec_len: with arguments, the message with its placeholders, and each argument once,
\* less a placeholder for each argument
RecordLength(r) ==
    LenOfStamp(r.stamp) + 2
    + (IF r.text.uses = 0 THEN r.text.plain
       ELSE LET len == r.text.plain + 3 * r.text.uses + r.text.arg IN IF len > 3 THEN len - 3 ELSE len)

\* Slot::try_set(): the argument up to the end of the slot, whose length includes its
\* own two bytes
AfterArgument(r, index) ==
    IF index < RecordLength(r) THEN Min({index + r.text.arg, RecordLength(r) + 2}) ELSE index

\* Where rec::log() puts the last '\0': the message first, then its placeholders.
EndOfText(r) ==
    LET start == WrittenStamp(r.stamp) + 2
        afterPlain == Max({start, Min({start + r.text.plain, RecordLength(r)})})
    IN IF r.text.uses = 0 THEN start + r.text.plain
       ELSE IF r.text.uses = 1 THEN AfterArgument(r, afterPlain)
       ELSE AfterArgument(r, AfterArgument(r, afterPlain))

-----------------------------------------------------------------------------
(* The buffer *)

NextSlot(start, len) == (start + len) % Size
Distance(from, to)   == (to - from + Size) % Size
FreeSpace == Size - Distance(readyRead, newWrite)

\* bits that end_write() sets and end_read() clears
BitsAfterWrite(size) == IF size < BulkSize THEN events \cup {"may_read"} ELSE events \cup {"may_read", "bulk_ready"}
BitsAfterRead(size)  == events \ ((IF size = 0 THEN {"may_read"} ELSE {}) \cup (IF size < BulkSize THEN {"bulk_ready"} ELSE {}))

\* Bytes in the slots that follow each other without a busy one, from d bytes before
\* new_write_slot on: the loop of update_done_write().
ReadyBytes ==
    LET bytes[d \in 0..Size] ==
            IF d = 0 THEN 0
            ELSE LET s == head[(newWrite + Size - d) % Size]
                 IN IF s.busy \/ s.len = 0 \/ s.len > d THEN 0 ELSE s.len + bytes[d - s.len]
    IN bytes

Init ==
    /\ head = [p \in Position |-> NoSlot]
    /\ newWrite = 0 /\ doneWrite = 0 /\ readyRead = 0 /\ dataSize = 0 /\ events = {}
    /\ pc = [w \in Writers |-> "idle"] /\ slot = [w \in Writers |-> 0]
    /\ recorder = "wait" /\ message = NoRecord
    /\ wrote = 0

Go(w, to) == pc' = [pc EXCEPT ![w] = to]

\* start_write() finds no room, or the text is too long: the record is dropped.
Drop(w) ==
    /\ pc[w] = "idle"
    /\ \E r \in Record : (RecordLength(r) + 1 > MaxLength \/ RecordLength(r) + 3 >= FreeSpace)
    /\ UNCHANGED vars

\* start_write(): the critical section
StartWrite(w) ==
    /\ pc[w] = "idle"
    /\ \E r \in Record :
        LET len == RecordLength(r) + 3 IN
        /\ RecordLength(r) + 1 <= MaxLength
        /\ len < FreeSpace
        /\ "wrap" \in Coincidences \/ \A v \in Writers : pc[v] = "compare" => slot[v] # NextSlot(newWrite, len)
        /\ head' = [head EXCEPT ![newWrite] = [len |-> len, busy |-> TRUE, rec |-> r]]
        /\ newWrite' = NextSlot(newWrite, len)
    /\ slot' = [slot EXCEPT ![w] = newWrite]
    /\ Go(w, "fill")
    /\ UNCHANGED <<doneWrite, readyRead, dataSize, events, recorder, message, wrote>>

\* log(): set(timestamp), set(": "), the message
Fill(w) ==
    /\ pc[w] = "fill"
    /\ LET r == head[slot[w]].rec IN wrote' = If(EndOfText(r) > RecordLength(r), EndOfText(r) - RecordLength(r))
    /\ Go(w, "end")
    /\ UNCHANGED <<bufferV, slot, recorder, message>>

\* end_write(): the busy flag is cleared
ClearBusy(w) ==
    /\ pc[w] = "end"
    /\ head' = [head EXCEPT ![slot[w]].busy = FALSE]
    /\ Go(w, "compare")
    /\ UNCHANGED <<newWrite, doneWrite, readyRead, dataSize, events, slot, recorder, message, wrote>>

\* end_write(): an earlier slot is not done, its writer will do this one, too
LeaveToOthers(w) ==
    /\ pc[w] = "compare" /\ doneWrite # slot[w]
    /\ Go(w, "idle")
    /\ UNCHANGED <<bufferV, slot, recorder, message, wrote>>

\* Mutant: only its own slot; those that ended before it stay.
PublishOne(w) ==
    /\ pc[w] = "compare" /\ doneWrite = slot[w]
    /\ doneWrite' = NextSlot(slot[w], head[slot[w]].len)
    /\ dataSize' = dataSize + head[slot[w]].len
    /\ events' = BitsAfterWrite(dataSize')
    /\ Go(w, "idle")
    /\ UNCHANGED <<head, newWrite, readyRead, slot, recorder, message, wrote>>

\* Mutant: whether the slots that follow are busy is not looked at.
PublishAll(w) ==
    /\ pc[w] = "compare" /\ doneWrite = slot[w]
    /\ doneWrite' = newWrite
    /\ dataSize' = dataSize + Distance(slot[w], newWrite)
    /\ events' = BitsAfterWrite(dataSize')
    /\ Go(w, "idle")
    /\ UNCHANGED <<head, newWrite, readyRead, slot, recorder, message, wrote>>

\* end_write(): the critical section with update_done_write()
Publish(w) ==
    /\ pc[w] = "compare" /\ doneWrite = slot[w]
    /\ LET len   == head[slot[w]].len
           next  == NextSlot(slot[w], len)
           extra == len + ReadyBytes[Distance(next, newWrite)]
       IN /\ doneWrite' = NextSlot(slot[w], extra)
          /\ dataSize' = dataSize + extra
          /\ events' = BitsAfterWrite(dataSize')
    /\ Go(w, "idle")
    /\ UNCHANGED <<head, newWrite, readyRead, slot, recorder, message, wrote>>

-----------------------------------------------------------------------------
(* The recorder *)

\* wait_bulk_ready(): the bit, or the timeout
WaitBulk ==
    /\ recorder = "wait"
    /\ recorder' = "try"
    /\ UNCHANGED <<bufferV, pc, slot, message, wrote>>

\* try_read(), copy_to()
TryRead ==
    /\ recorder = "try" /\ readyRead # doneWrite
    /\ message' = head[readyRead].rec
    /\ recorder' = "end"
    /\ UNCHANGED <<bufferV, pc, slot, wrote>>

NothingToRead ==
    /\ recorder = "try" /\ readyRead = doneWrite
    /\ recorder' = "flush"
    /\ UNCHANGED <<bufferV, pc, slot, message, wrote>>

\* end_read(); what stays in the buffer is not read again
EndRead ==
    /\ recorder = "end"
    /\ LET len == head[readyRead].len
       IN /\ dataSize' = dataSize - len
          /\ readyRead' = NextSlot(readyRead, len)
          /\ events' = BitsAfterRead(dataSize')
    /\ head' = [head EXCEPT ![readyRead] = NoSlot]
    /\ recorder' = "store"
    /\ UNCHANGED <<newWrite, doneWrite, pc, slot, message, wrote>>

\* write_to_card(), flush_to_card(): see LogFiles
WriteToCard ==
    /\ recorder = "store"
    /\ recorder' = "try"
    /\ UNCHANGED <<bufferV, pc, slot, message, wrote>>

Flush ==
    /\ recorder = "flush"
    /\ recorder' = "wait"
    /\ UNCHANGED <<bufferV, pc, slot, message, wrote>>

-----------------------------------------------------------------------------
Next ==
    \/ \E w \in Writers : Drop(w) \/ StartWrite(w) \/ Fill(w) \/ ClearBusy(w) \/ LeaveToOthers(w) \/ Publish(w)
    \/ WaitBulk \/ TryRead \/ NothingToRead \/ EndRead \/ WriteToCard \/ Flush

Spec == Init /\ [][Next]_vars

TypeOK ==
    /\ head \in [Position -> [len : 0..(Size - 1), busy : BOOLEAN, rec : Record \cup {NoRecord}]]
    /\ {newWrite, doneWrite, readyRead, dataSize} \subseteq Position
    /\ events \subseteq {"may_read", "bulk_ready"}
    /\ pc \in [Writers -> {"idle", "fill", "end", "compare"}] /\ slot \in [Writers -> Position]
    /\ recorder \in {"wait", "try", "end", "store", "flush"} /\ message \in Record \cup {NoRecord}
    /\ wrote \in Nat

\* The recorder is told of every record.  While some slots are not readable, the first of
\* them belongs to a writer that has not left end_write() (Buffer.h: it clears the flag
\* and compares outside the critical section of others), so that no record waits for a
\* writer that is gone; data_size is the "total length of all messages which are ready for
\* read", and the bits for which the recorder waits say whether there are some and whether
\* they are a bulk.
RecorderIsTold ==
    /\ doneWrite # newWrite => \E w \in Writers : pc[w] # "idle" /\ slot[w] = doneWrite
    /\ dataSize = Distance(readyRead, doneWrite)
    /\ "may_read" \in events <=> dataSize > 0
    /\ "bulk_ready" \in events <=> dataSize >= BulkSize

\* Nobody writes after its slot: neither the timestamp, whose length is that of the
\* string that is written ("return length of a string formatted as ...", logging.cpp),
\* nor an argument, which "stops copying if the end of slot is reached" (Buffer.h).
WritesWithinSlot == wrote = 0

\* The slots between ready_read_slot and new_write_slot
Queue ==
    LET slots[d \in 0..Size] ==
            IF d = 0 THEN <<>>
            ELSE LET s == head[(newWrite + Size - d) % Size]
                 IN IF s.len = 0 \/ s.len > d THEN <<s>> ELSE <<s>> \o slots[d - s.len]
        walked == slots[Distance(readyRead, newWrite)]
    IN [i \in DOMAIN walked |-> [rec |-> walked[i].rec, done |-> ~walked[i].busy]]

\* try_read() has handed the first record over before end_read() releases its slot.
Records == INSTANCE RecordQueue WITH
    Records <- Record,
    queue <- IF recorder = "end" THEN Tail(Queue) ELSE Queue,
    taken <- message

\* The buffer implements the queue: records are taken whole, once, in order and after
\* they were ended.
ImplementsQueue == Records!Spec
=============================================================================
