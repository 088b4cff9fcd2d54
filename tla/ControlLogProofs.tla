-------------------------- MODULE ControlLogProofs --------------------------
(***************************************************************************)
(* Proofs about what runs besides the GSM service: the log and its files,  *)
(* the interface of the user and the editing of phones, for any sizes,     *)
(* numbers and delays.  Each part has an inductive invariant of its own;   *)
(* the theorems are about all behaviours of its module, which MCControlLog *)
(* instantiates.                                                           *)
(***************************************************************************)
EXTENDS MCControlLog, Integers, SequenceTheorems, WellFoundedInduction, TLAPS

-----------------------------------------------------------------------------
(* The ring buffer of the log.  LogChainInv says how its slots follow each *)
(* other, LogWritersInv whose the busy ones are.  It is the queue of       *)
(* RecordQueue: LogFrom collects the slots from a position on.             *)

\* The texts have lengths.
LogAssumed ==
    /\ Size \in Nat \ {0} /\ BulkSize \in Nat \ {0}
    /\ Texts \subseteq [plain : Nat, arg : Nat, uses : Nat]

LogSlots == [Log!Position -> [len : 0..(Size - 1), busy : BOOLEAN, rec : Log!Record \cup {Log!NoRecord}]]

\* How far before new_write_slot a position is
LogBack(p) == Log!Distance(p, newWrite)
LogStarts(p) == head[p].len # 0
LogBoundary(p) == p = newWrite \/ LogStarts(p)
LogWriting(w) == logPc[w] \in {"fill", "end"}

LogTypeInv ==
    /\ head \in LogSlots
    /\ newWrite \in Log!Position /\ doneWrite \in Log!Position /\ readyRead \in Log!Position
    /\ events \subseteq {"may_read", "bulk_ready"}
    /\ logPc \in [Writers -> {"idle", "fill", "end", "compare"}] /\ slot \in [Writers -> Log!Position]

\* From ready_read_slot to new_write_slot each slot begins where the one before it ends.
LogChainInv ==
    /\ LogBoundary(readyRead) /\ LogBoundary(doneWrite) /\ LogBack(doneWrite) <= LogBack(readyRead)
    /\ \A p \in Log!Position : LogStarts(p) =>
        /\ 0 < LogBack(p) /\ LogBack(p) <= LogBack(readyRead) /\ head[p].len <= LogBack(p)
        /\ LogBoundary(Log!NextSlot(p, head[p].len))
    /\ \A p, q \in Log!Position : LogStarts(p) /\ LogStarts(q) /\ LogBack(q) < LogBack(p)
       => LogBack(q) <= LogBack(p) - head[p].len

\* The busy slots are those of the writers, and they are not readable.
LogWritersInv ==
    /\ \A w \in Writers :
        /\ LogWriting(w) => head[slot[w]].busy /\ LogStarts(slot[w])
           /\ LogBack(slot[w]) <= LogBack(doneWrite)
        /\ logPc[w] = "compare" => slot[w] # newWrite /\ ~head[slot[w]].busy
    /\ \A v, w \in Writers : v # w /\ LogWriting(v) /\ LogWriting(w) => slot[v] # slot[w]
    /\ \A p \in Log!Position : head[p].busy => \E w \in Writers : LogWriting(w) /\ slot[w] = p

\* What is read is there to be read.
LogReaderInv == recorder = "end" => readyRead # doneWrite /\ message = head[readyRead].rec

LogIInv == LogTypeInv /\ LogChainInv /\ LogWritersInv /\ LogReaderInv /\ Log!RecorderIsTold

-----------------------------------------------------------------------------
\* Distances in the ring, without modulus
LEMMA LogDistanceIs ==
    ASSUME LogAssumed, NEW from \in Log!Position, NEW to \in Log!Position
    PROVE /\ Log!Distance(from, to) = IF to >= from THEN to - from ELSE to - from + Size
          /\ Log!Distance(from, to) \in Log!Position
<1>1. Size \in Nat \ {0} /\ from \in 0..Size - 1 /\ to \in 0..Size - 1 BY DEF LogAssumed, Log!Position
<1>2. CASE to >= from
  <2>1. to - from + Size \in Size..2 * Size - 1 BY <1>1, <1>2
  <2>2. (to - from + Size) % Size = (to - from + Size) - Size BY <1>1, <2>1
  <2> QED BY <1>1, <1>2, <2>2 DEF Log!Distance, Log!Position
<1>3. CASE ~(to >= from)
  <2>1. to - from + Size \in 0..Size - 1 BY <1>1, <1>3
  <2>2. (to - from + Size) % Size = to - from + Size BY <1>1, <2>1
  <2> QED BY <1>1, <1>3, <2>1, <2>2 DEF Log!Distance, Log!Position
<1> QED BY <1>2, <1>3

\* The next slot, without modulus
LEMMA LogNextSlotIs ==
    ASSUME LogAssumed, NEW start \in Log!Position, NEW len \in 0..Size
    PROVE /\ Log!NextSlot(start, len) = IF start + len < Size THEN start + len ELSE start + len - Size
          /\ Log!NextSlot(start, len) \in Log!Position
<1>1. Size \in Nat \ {0} /\ start \in 0..Size - 1 /\ len \in 0..Size BY DEF LogAssumed, Log!Position
<1>2. CASE start + len < Size
  <2>1. start + len \in 0..Size - 1 BY <1>1, <1>2
  <2>2. (start + len) % Size = start + len BY <1>1, <2>1
  <2> QED BY <1>1, <1>2, <2>1, <2>2 DEF Log!NextSlot, Log!Position
<1>3. CASE ~(start + len < Size)
  <2>1. start + len \in Size..2 * Size - 1 BY <1>1, <1>3
  <2>2. (start + len) % Size = start + len - Size BY <1>1, <2>1
  <2> QED BY <1>1, <1>3, <2>1, <2>2 DEF Log!NextSlot, Log!Position
<1> QED BY <1>2, <1>3

\* The position at a distance before another one
LEMMA LogBeforeIs ==
    ASSUME LogAssumed, NEW n \in Log!Position, NEW d \in 0..Size
    PROVE /\ (n + Size - d) % Size = IF d <= n THEN n - d ELSE n + Size - d
          /\ (n + Size - d) % Size \in Log!Position
<1>1. Size \in Nat \ {0} /\ n \in 0..Size - 1 /\ d \in 0..Size BY DEF LogAssumed, Log!Position
<1>2. CASE d <= n
  <2>1. n + Size - d \in Size..2 * Size - 1 BY <1>1, <1>2
  <2>2. (n + Size - d) % Size = n + Size - d - Size BY <1>1, <2>1
  <2> QED BY <1>1, <1>2, <2>1, <2>2 DEF Log!Position
<1>3. CASE ~(d <= n)
  <2>1. n + Size - d \in 0..Size - 1 BY <1>1, <1>3
  <2>2. (n + Size - d) % Size = n + Size - d BY <1>1, <2>1
  <2> QED BY <1>1, <1>3, <2>1, <2>2 DEF Log!Position
<1> QED BY <1>2, <1>3

\* What is there at a distance d is at that distance, and nothing else is.
LEMMA LogAtDistance ==
    ASSUME LogAssumed, NEW n \in Log!Position
    PROVE /\ \A d \in 0..Size - 1 : Log!Distance((n + Size - d) % Size, n) = d
          /\ \A p \in Log!Position : (n + Size - Log!Distance(p, n)) % Size = p
          /\ \A p, q \in Log!Position : Log!Distance(p, n) = Log!Distance(q, n) => p = q
          /\ \A p \in Log!Position : Log!Distance(p, n) = 0 <=> p = n
<1>1. Size \in Nat \ {0} /\ n \in 0..Size - 1 BY DEF LogAssumed, Log!Position
<1>2. ASSUME NEW d \in 0..Size - 1 PROVE Log!Distance((n + Size - d) % Size, n) = d
  <2> DEFINE p == (n + Size - d) % Size
  <2>1. d \in 0..Size BY <1>1
  <2>2. p = (IF d <= n THEN n - d ELSE n + Size - d) /\ p \in Log!Position BY <2>1, LogBeforeIs
  <2> HIDE DEF p
  <2>3. Log!Distance(p, n) = IF n >= p THEN n - p ELSE n - p + Size BY <2>2, LogDistanceIs
  <2>4. Log!Distance(p, n) = d BY <1>1, <2>2, <2>3
  <2> QED BY <2>4 DEF p
<1>3. ASSUME NEW p \in Log!Position
      PROVE  /\ Log!Distance(p, n) \in 0..Size
             /\ Log!Distance(p, n) = (IF n >= p THEN n - p ELSE n - p + Size)
             /\ p \in 0..Size - 1
  BY <1>1, LogDistanceIs DEF Log!Position
<1>4. ASSUME NEW p \in Log!Position PROVE (n + Size - Log!Distance(p, n)) % Size = p
  <2> DEFINE d == Log!Distance(p, n)
  <2>1. d \in 0..Size /\ d = (IF n >= p THEN n - p ELSE n - p + Size) /\ p \in 0..Size - 1 BY <1>3
  <2> HIDE DEF d
  <2>2. (n + Size - d) % Size = IF d <= n THEN n - d ELSE n + Size - d BY <2>1, LogBeforeIs
  <2>3. (n + Size - d) % Size = p BY <1>1, <2>1, <2>2
  <2> QED BY <2>3 DEF d
<1>5. ASSUME NEW p \in Log!Position, NEW q \in Log!Position, Log!Distance(p, n) = Log!Distance(q, n)
      PROVE p = q
  BY <1>4, <1>5
<1>6. ASSUME NEW p \in Log!Position PROVE Log!Distance(p, n) = 0 <=> p = n
  BY <1>1, <1>3
<1> QED BY <1>2, <1>4, <1>5, <1>6

\* Going on by a length is coming nearer by it.
LEMMA LogNearer ==
    ASSUME LogAssumed, NEW n \in Log!Position, NEW p \in Log!Position, NEW len \in 0..Log!Distance(p, n)
    PROVE Log!NextSlot(p, len) \in Log!Position
        /\ Log!Distance(Log!NextSlot(p, len), n) = Log!Distance(p, n) - len
<1>1. Size \in Nat \ {0} /\ n \in 0..Size - 1 /\ p \in 0..Size - 1 BY DEF LogAssumed, Log!Position
<1>2. Log!Distance(p, n) = (IF n >= p THEN n - p ELSE n - p + Size) /\ Log!Distance(p, n) \in 0..Size - 1
  BY LogDistanceIs DEF Log!Position
<1>3. len \in 0..Size BY <1>1, <1>2
<1> DEFINE next == Log!NextSlot(p, len)
<1>4. next = (IF p + len < Size THEN p + len ELSE p + len - Size) /\ next \in Log!Position
  BY <1>3, LogNextSlotIs
<1> HIDE DEF next
<1>5. Log!Distance(next, n) = IF n >= next THEN n - next ELSE n - next + Size BY <1>4, LogDistanceIs
<1>6. Log!Distance(next, n) = Log!Distance(p, n) - len BY <1>1, <1>2, <1>3, <1>4, <1>5
<1> QED BY <1>4, <1>6 DEF next

\* If the end moves on by a length, all is farther by it.
LEMMA LogFarther ==
    ASSUME LogAssumed, NEW n \in Log!Position, NEW p \in Log!Position, NEW len \in 0..Size - 1,
        Log!Distance(p, n) + len < Size
    PROVE Log!NextSlot(n, len) \in Log!Position
        /\ Log!Distance(p, Log!NextSlot(n, len)) = Log!Distance(p, n) + len
<1>1. Size \in Nat \ {0} /\ n \in 0..Size - 1 /\ p \in 0..Size - 1 BY DEF LogAssumed, Log!Position
<1>2. Log!Distance(p, n) = (IF n >= p THEN n - p ELSE n - p + Size) /\ Log!Distance(p, n) \in 0..Size - 1
  BY LogDistanceIs DEF Log!Position
<1>3. len \in 0..Size BY <1>1
<1> DEFINE next == Log!NextSlot(n, len)
<1>4. next = (IF n + len < Size THEN n + len ELSE n + len - Size) /\ next \in Log!Position
  BY <1>3, LogNextSlotIs
<1> HIDE DEF next
<1>5. Log!Distance(p, next) = IF next >= p THEN next - p ELSE next - p + Size BY <1>4, LogDistanceIs
<1>6. Log!Distance(p, next) = Log!Distance(p, n) + len BY <1>1, <1>2, <1>3, <1>4, <1>5
<1> QED BY <1>4, <1>6 DEF next

\* What is between two positions
LEMMA LogBetween ==
    ASSUME LogAssumed, NEW n \in Log!Position, NEW p \in Log!Position, NEW q \in Log!Position,
        Log!Distance(q, n) <= Log!Distance(p, n)
    PROVE Log!Distance(p, q) = Log!Distance(p, n) - Log!Distance(q, n)
<1>1. Size \in Nat \ {0} /\ n \in 0..Size - 1 /\ p \in 0..Size - 1 /\ q \in 0..Size - 1 BY DEF LogAssumed,
    Log!Position
<1>2. /\ Log!Distance(p, n) = (IF n >= p THEN n - p ELSE n - p + Size)
      /\ Log!Distance(q, n) = (IF n >= q THEN n - q ELSE n - q + Size)
      /\ Log!Distance(p, q) = (IF q >= p THEN q - p ELSE q - p + Size)
  BY LogDistanceIs
<1> QED BY <1>1, <1>2

\* A record needs some bytes.
LEMMA LogRecordLengthIs == ASSUME LogAssumed, NEW r \in Log!Record PROVE Log!RecordLength(r) \in Nat
<1>1. \A n : Log!LenOfNumber(n) \in 1..5 BY DEF Log!LenOfNumber
<1>2. Log!LenOfStamp(r.stamp) \in Nat
  <2> DEFINE t == r.stamp
  <2>1. /\ Log!LenOfNumber(t.seconds) + 1 \in Nat /\ Log!LenOfNumber(t.days) + 2 \in Nat
        /\ Log!LenOfNumber(t.hours) + 2 \in Nat /\ Log!LenOfNumber(t.minutes) + 2 \in Nat
    BY <1>1
  <2>2. \A c, n : n \in Nat => Log!If(c, n) \in Nat BY DEF Log!If
  <2> QED BY <2>1, <2>2 DEF Log!LenOfStamp
<1>3. r.text.plain \in Nat /\ r.text.arg \in Nat /\ r.text.uses \in Nat BY DEF LogAssumed, Log!Record
<1> QED BY <1>2, <1>3 DEF Log!RecordLength

-----------------------------------------------------------------------------
\* Numbers are well-founded: a set of them has a smallest one.
LEMMA LogSmallest == ASSUME NEW T, T \subseteq Nat, T # {} PROVE \E x \in T : \A y \in T : x <= y
<1> DEFINE Below == {p \in Nat \X Nat : p[1] < p[2]}
<1>1. IsWellFoundedOn(Below, Nat)
  BY NatLessThanWellFounded DEF OpToRel
<1> HIDE DEF Below
<1>2. \E x \in T : \A y \in T : ~ (<<y, x>> \in Below)
  BY <1>1, WFMin, Zenon
<1>3. ASSUME NEW x \in Nat, NEW y \in Nat, <<y, x>> \notin Below PROVE x <= y
   BY <1>3 DEF Below
<1> QED BY <1>2, <1>3

\* What the loop of update_done_write() finds at a distance, by what it finds at smaller ones
LogBytes(f, d) ==
    IF d = 0 THEN 0
    ELSE LET s == head[(newWrite + Size - d) % Size]
         IN IF s.busy \/ s.len = 0 \/ s.len > d THEN 0 ELSE s.len + f[d - s.len]

\* The loop ends: there is such a function.
LEMMA LogReadyBytesIs == ASSUME LogAssumed,
    LogTypeInv PROVE Log!ReadyBytes = [d \in 0..Size |-> LogBytes(Log!ReadyBytes, d)]
<1> DEFINE Found(n) == \E f : f = [d \in 0..n |-> LogBytes(f, d)]
           T == {n \in 0..Size : ~Found(n)}
<1>1. Size \in Nat BY DEF LogAssumed
<1>2. ASSUME NEW d \in 0..Size
      PROVE  head[(newWrite + Size - d) % Size].len \in Nat
  <2>1. (newWrite + Size - d) % Size \in Log!Position BY LogBeforeIs DEF LogTypeInv
  <2> QED BY <1>1, <2>1 DEF LogTypeInv, LogSlots
<1>3. Found(Size)
  <2> SUFFICES ASSUME ~Found(Size) PROVE FALSE
    OBVIOUS
  <2> HIDE DEF Found
  <2>1. Size \in T /\ T \subseteq Nat BY <1>1
  <2>2. PICK n \in T : \A m \in T : n <= m BY <2>1, LogSmallest
  <2>3. n \in 0..Size /\ n \in Nat /\ ~Found(n) BY <1>1, <2>2
  <2>4. n # 0
    <3> SUFFICES ASSUME n = 0 PROVE FALSE
      OBVIOUS
    <3> DEFINE g == [d \in 0..0 |-> 0]
    <3>1. \A d \in 0..0 : g[d] = LogBytes(g, d) BY DEF LogBytes
    <3>2. g = [d \in 0..n |-> LogBytes(g, d)] BY <3>1
    <3> QED BY <2>3, <3>2 DEF Found
  <2>5. n - 1 \in 0..Size /\ n - 1 \notin T BY <1>1, <2>2, <2>3, <2>4
  <2>6. Found(n - 1) BY <2>5
  <2>7. PICK g : g = [d \in 0..n - 1 |-> LogBytes(g, d)] BY <2>6 DEF Found
  <2> DEFINE h == [d \in 0..n |-> IF d = n THEN LogBytes(g, n) ELSE g[d]]
  <2>8. ASSUME NEW d \in 0..n PROVE LogBytes(g, d) = LogBytes(h, d)
    <3> DEFINE s == head[(newWrite + Size - d) % Size]
    <3>1. d \in 0..Size /\ d \in Nat BY <1>1, <2>3, <2>8
    <3>2. s.len \in Nat BY <1>2, <3>1
    <3>3. CASE d = 0 BY <3>3 DEF LogBytes
    <3>4. CASE d # 0 /\ (s.busy \/ s.len = 0 \/ s.len > d) BY <3>4 DEF LogBytes
    <3>5. CASE d # 0 /\ ~(s.busy \/ s.len = 0 \/ s.len > d)
      <4>1. LogBytes(g, d) = s.len + g[d - s.len] /\ LogBytes(h, d) = s.len + h[d - s.len]
        BY <3>5 DEF LogBytes
      <4> HIDE DEF s
      <4>2. d - s.len \in 0..n /\ d - s.len # n BY <2>3, <3>1, <3>2, <3>5
      <4>3. h[d - s.len] = g[d - s.len] BY <4>2
      <4> QED BY <4>1, <4>3
    <3> QED BY <3>3, <3>4, <3>5
  <2>9. h = [d \in 0..n |-> LogBytes(h, d)]
    <3>1. ASSUME NEW d \in 0..n PROVE h[d] = LogBytes(h, d)
      <4>1. CASE d = n
        <5>1. h[d] = LogBytes(g, d) BY <4>1
        <5> QED BY <5>1, <2>8
      <4>2. CASE d # n
        <5>1. d \in 0..n - 1 BY <2>3, <4>2
        <5>2. h[d] = g[d] BY <4>2
        <5>3. g[d] = LogBytes(g, d) BY <2>7, <5>1
        <5> QED BY <5>2, <5>3, <2>8
      <4> QED BY <4>1, <4>2
    <3>2. DOMAIN h = 0..n /\ h = [d \in DOMAIN h |-> h[d]] OBVIOUS
    <3> HIDE DEF h
    <3> QED BY <3>1, <3>2, Zenon
  <2>10. Found(n) BY <2>9 DEF Found
  <2> QED BY <2>3, <2>10
<1>4. PICK f : f = [d \in 0..Size |-> LogBytes(f, d)] BY <1>3
<1> QED BY <1>4 DEF Log!ReadyBytes, LogBytes

\* update_done_write() stops at the first busy slot, or where the next slot will be.
LEMMA LogReadyBytesEnd ==
    ASSUME LogAssumed, LogTypeInv, LogChainInv, NEW start \in Log!Position, LogBoundary(start),
        LogBack(start) <= LogBack(readyRead)
    PROVE /\ Log!ReadyBytes[LogBack(start)] \in 0..LogBack(start)
          /\ \E end \in Log!Position :
                /\ LogBack(end) = LogBack(start) - Log!ReadyBytes[LogBack(start)]
                /\ end = newWrite \/ (LogStarts(end) /\ head[end].busy)
                /\ \A p \in Log!Position :
                      LogStarts(p) /\ head[p].busy /\ LogBack(p) <= LogBack(start)
                          => LogBack(p) <= LogBack(end)
<1> DEFINE Ends(s) ==
        /\ Log!ReadyBytes[LogBack(s)] \in 0..LogBack(s)
        /\ \E end \in Log!Position :
              /\ LogBack(end) = LogBack(s) - Log!ReadyBytes[LogBack(s)]
              /\ end = newWrite \/ (LogStarts(end) /\ head[end].busy)
              /\ \A p \in Log!Position :
                    LogStarts(p) /\ head[p].busy /\ LogBack(p) <= LogBack(s) => LogBack(p) <= LogBack(end)
    T == {LogBack(s) : s \in {q \in Log!Position : LogBoundary(q) /\ LogBack(q) <= LogBack(readyRead) /\ ~Ends(q)}}
<1> HIDE DEF Ends
<1> SUFFICES ASSUME ~Ends(start) PROVE FALSE
  BY DEF Ends
<1>1. Size \in Nat /\ newWrite \in Log!Position BY DEF LogAssumed, LogTypeInv
<1>2. \A p \in Log!Position : LogBack(p) \in 0..Size - 1 BY <1>1, LogDistanceIs DEF LogBack, Log!Position
<1>3. LogBack(start) \in T /\ T \subseteq Nat BY <1>2
<1>4. PICK n \in T : \A m \in T : n <= m BY <1>3, LogSmallest
<1>5. PICK s \in Log!Position : n = LogBack(s) /\ LogBoundary(s) /\ LogBack(s) <= LogBack(readyRead)
    /\ ~Ends(s)
  BY <1>4
<1>6. \A q \in Log!Position : LogBoundary(q) /\ LogBack(q) < LogBack(s) => Ends(q)
  <2> SUFFICES ASSUME NEW q \in Log!Position, LogBoundary(q), LogBack(q) < LogBack(s), ~Ends(q) PROVE FALSE
    OBVIOUS
  <2>1. LogBack(q) <= LogBack(readyRead) BY <1>2, <1>5 DEF LogTypeInv
  <2>2. LogBack(q) \in T BY <2>1
  <2> QED BY <1>2, <1>4, <1>5, <2>2
<1> HIDE DEF T
<1>7. \A p \in Log!Position : LogBack(p) = 0 <=> p = newWrite BY <1>1, LogAtDistance DEF LogBack
<1>8. Log!ReadyBytes[LogBack(s)] = LogBytes(Log!ReadyBytes, LogBack(s))
  BY <1>1, <1>2, LogReadyBytesIs
<1>9. (newWrite + Size - LogBack(s)) % Size = s BY <1>1, LogAtDistance DEF LogBack
<1>10. CASE s = newWrite
  <2>1. LogBack(s) = 0 BY <1>7, <1>10
  <2>2. Log!ReadyBytes[LogBack(s)] = 0 BY <1>8, <2>1 DEF LogBytes
  <2>3. \A p \in Log!Position : LogStarts(p) => LogBack(p) > 0 BY <1>2 DEF LogChainInv
  <2> QED BY <1>2, <1>5, <1>10, <2>1, <2>2, <2>3 DEF Ends
<1>11. CASE s # newWrite /\ head[s].busy
  <2>1. LogStarts(s) /\ LogBack(s) # 0 BY <1>5, <1>7, <1>11 DEF LogBoundary
  <2>2. Log!ReadyBytes[LogBack(s)] = 0 BY <1>8, <1>9, <1>11, <2>1 DEF LogBytes
  <2> QED BY <1>2, <1>5, <1>11, <2>1, <2>2 DEF Ends
<1>12. CASE s # newWrite /\ ~head[s].busy
  <2>1. LogStarts(s) BY <1>5, <1>12 DEF LogBoundary
  <2>2. /\ head[s].len \in 0..Size - 1 /\ head[s].len # 0 /\ head[s].len <= LogBack(s)
        /\ LogBoundary(Log!NextSlot(s, head[s].len))
    BY <2>1 DEF LogChainInv, LogStarts, LogTypeInv, LogSlots
  <2> DEFINE len == head[s].len
             next == Log!NextSlot(s, len)
  <2>3. next \in Log!Position /\ LogBack(next) = LogBack(s) - len
    <3>1. len \in 0..Log!Distance(s, newWrite) BY <2>2, <1>2 DEF LogBack
    <3> QED BY <1>1, <3>1, LogNearer DEF LogBack
  <2>4. Log!ReadyBytes[LogBack(s)] = len + Log!ReadyBytes[LogBack(s) - len]
    BY <1>2, <1>7, <1>8, <1>9, <1>12, <2>2 DEF LogBytes
  <2> HIDE DEF next, len
  <2>5. LogBack(next) < LogBack(s) BY <1>2, <2>2, <2>3 DEF len
  <2>6. Ends(next) BY <1>6, <2>2, <2>3, <2>5 DEF next, len
  <2>7. PICK end \in Log!Position :
            /\ LogBack(end) = LogBack(next) - Log!ReadyBytes[LogBack(next)]
            /\ end = newWrite \/ (LogStarts(end) /\ head[end].busy)
            /\ \A p \in Log!Position : LogStarts(p) /\ head[p].busy /\ LogBack(p) <= LogBack(next)
               => LogBack(p) <= LogBack(end)
    BY <2>6 DEF Ends
  <2>8. Log!ReadyBytes[LogBack(next)] \in 0..LogBack(next) BY <2>6 DEF Ends
  <2>9. len \in 1..LogBack(s) BY <1>2, <2>2 DEF len
  <2>10. Log!ReadyBytes[LogBack(s)] \in 0..LogBack(s)
      /\ LogBack(end) = LogBack(s) - Log!ReadyBytes[LogBack(s)]
    BY <1>2, <2>3, <2>4, <2>7, <2>8, <2>9
  <2>11. ASSUME NEW p \in Log!Position, LogStarts(p), head[p].busy, LogBack(p) <= LogBack(s)
         PROVE  LogBack(p) <= LogBack(end)
    <3>1. p # s BY <1>12, <2>11
    <3>2. LogBack(p) # LogBack(s) BY <1>1, <3>1, LogAtDistance DEF LogBack
    <3>3. LogBack(p) < LogBack(s) BY <1>2, <2>11, <3>2
    <3>4. LogBack(p) <= LogBack(s) - head[s].len BY <2>1, <2>11, <3>3 DEF LogChainInv
    <3>5. LogBack(p) <= LogBack(next) BY <2>3, <3>4 DEF len
    <3> QED BY <2>7, <2>11, <3>5
  <2> QED BY <1>5, <2>7, <2>10, <2>11 DEF Ends
<1> QED BY <1>10, <1>11, <1>12

-----------------------------------------------------------------------------
\* The invariant holds in the empty ring.
LEMMA LogInitIInv == ASSUME LogAssumed, Log!Init PROVE LogIInv
<1>1. Size \in Nat \ {0} /\ BulkSize \in Nat \ {0} /\ 0 \in Log!Position BY DEF LogAssumed, Log!Position
<1>2. Log!NoSlot \in [len : 0..(Size - 1), busy : BOOLEAN, rec : Log!Record \cup {Log!NoRecord}]
  BY <1>1 DEF Log!NoSlot
<1>3. LogTypeInv BY <1>1, <1>2 DEF Log!Init, LogTypeInv, LogSlots
<1>4. \A p \in Log!Position : ~LogStarts(p) /\ ~head[p].busy BY DEF Log!Init, LogStarts, Log!NoSlot
<1>5. LogBack(0) = 0 BY <1>1, LogAtDistance DEF LogBack, Log!Init
<1>6. LogChainInv BY <1>1, <1>4, <1>5 DEF Log!Init, LogChainInv, LogBoundary
<1>7. LogWritersInv BY <1>4 DEF Log!Init, LogWritersInv, LogWriting
<1>8. LogReaderInv BY DEF Log!Init, LogReaderInv
<1>9. Log!RecorderIsTold BY <1>1, <1>5 DEF Log!Init, Log!RecorderIsTold, LogBack
<1> QED BY <1>3, <1>6, <1>7, <1>8, <1>9 DEF LogIInv

\* What the distances are
LEMMA LogDistances ==
    ASSUME LogAssumed, LogTypeInv
    PROVE /\ Size \in Nat \ {0}
          /\ \A p \in Log!Position : LogBack(p) \in 0..Size - 1
          /\ \A p \in Log!Position : LogBack(p) = 0 <=> p = newWrite
          /\ \A p, q \in Log!Position : LogBack(p) = LogBack(q) => p = q
          /\ \A p \in Log!Position : head[p].len \in 0..Size - 1
BY LogDistanceIs, LogAtDistance DEF LogBack, LogTypeInv, LogAssumed, Log!Position, LogSlots

\* Nothing moves: steps that change neither the ring nor what the writers hold of it
LEMMA LogStandStill ==
    ASSUME LogIInv, UNCHANGED <<Log!bufferV, slot>>,
        logPc' \in [Writers -> {"idle", "fill", "end", "compare"}],
           \A w \in Writers : (logPc'[w] \in {"fill", "end"} <=> logPc[w] \in {"fill", "end"}),
           \A w \in Writers : logPc'[w] = "compare" => logPc[w] = "compare",
           \A w \in Writers : slot[w] = doneWrite /\ logPc[w] # "idle" => logPc'[w] # "idle",
           recorder' = "end" => readyRead # doneWrite /\ message' = head[readyRead].rec
    PROVE LogIInv'
<1>1. UNCHANGED <<head, newWrite, doneWrite, readyRead, dataSize, events>> BY DEF Log!bufferV
<1>2. LogTypeInv' BY <1>1 DEF LogIInv, LogTypeInv
<1>3. LogChainInv' BY <1>1 DEF LogIInv, LogChainInv, LogBack, LogStarts, LogBoundary
<1>4. LogWritersInv' BY <1>1 DEF LogIInv, LogWritersInv, LogWriting, LogBack, LogStarts
<1>5. LogReaderInv' BY <1>1 DEF LogReaderInv
<1>6. Log!RecorderIsTold' BY <1>1 DEF LogIInv, Log!RecorderIsTold
<1> QED BY <1>2, <1>3, <1>4, <1>5, <1>6 DEF LogIInv

\* A slot is reserved behind the others.
LEMMA LogStartWriteStep ==
    ASSUME LogAssumed, LogIInv, NEW w \in Writers, Log!StartWrite(w)
    PROVE LogIInv'
<1>1. /\ Size \in Nat \ {0} /\ Log!Position = 0..Size - 1
      /\ \A p \in Log!Position : LogBack(p) \in 0..Size - 1
      /\ \A p \in Log!Position : LogBack(p) = 0 <=> p = newWrite
      /\ \A p \in Log!Position : head[p].len \in 0..Size - 1
  BY LogDistances DEF LogIInv, Log!Position
<1>2. PICK r \in Log!Record :
        LET len == Log!RecordLength(r) + 3 IN
        /\ len < Log!FreeSpace
        /\ \A v \in Writers : logPc[v] = "compare" => slot[v] # Log!NextSlot(newWrite, len)
        /\ head' = [head EXCEPT ![newWrite] = [len |-> len, busy |-> TRUE, rec |-> r]]
        /\ newWrite' = Log!NextSlot(newWrite, len)
  BY DEF Log!StartWrite, LogAssumed
<1> DEFINE len == Log!RecordLength(r) + 3
           new == [len |-> len, busy |-> TRUE, rec |-> r]
<1>3. len \in Nat \ {0} BY LogRecordLengthIs
<1>4. /\ len < Size - LogBack(readyRead)
      /\ \A v \in Writers : logPc[v] = "compare" => slot[v] # newWrite'
      /\ head' = [head EXCEPT ![newWrite] = new]
      /\ newWrite' = Log!NextSlot(newWrite, len)
  BY <1>2 DEF Log!FreeSpace, LogBack
<1> HIDE DEF len
<1>5. /\ logPc[w] = "idle" /\ slot' = [slot EXCEPT ![w] = newWrite] /\ logPc' = [logPc EXCEPT ![w] = "fill"]
      /\ UNCHANGED <<doneWrite, readyRead, dataSize, events, recorder, message>>
  BY DEF Log!StartWrite, Log!Go
<1>6. /\ head \in LogSlots /\ newWrite \in Log!Position /\ doneWrite \in Log!Position
      /\ readyRead \in Log!Position
      /\ logPc \in [Writers -> {"idle", "fill", "end", "compare"}] /\ slot \in [Writers -> Log!Position]
  BY DEF LogIInv, LogTypeInv
<1>7. len \in 1..Size - 1 /\ LogBack(readyRead) + len < Size BY <1>1, <1>3, <1>4, <1>6
<1>8. newWrite' \in Log!Position /\ \A p \in Log!Position : Log!NextSlot(p, head[p].len) \in Log!Position
  <2>1. len \in 0..Size BY <1>1, <1>7
  <2>2. \A p \in Log!Position : head[p].len \in 0..Size BY <1>1, SMTT(30)
  <2> QED BY <1>4, <1>6, <2>1, <2>2, LogNextSlotIs
<1>9. \A p \in Log!Position : LogBack(p) <= LogBack(readyRead)
    => Log!Distance(p, newWrite') = LogBack(p) + len
  BY <1>1, <1>4, <1>6, <1>7, LogFarther, SMTT(30) DEF LogBack
<1>10. /\ \A p \in Log!Position : p # newWrite => head'[p] = head[p]
       /\ head'[newWrite] = new /\ new.len = len /\ new.busy = TRUE
  BY <1>4, <1>6 DEF LogSlots
<1>11. new \in [len : 0..(Size - 1), busy : BOOLEAN, rec : Log!Record \cup {Log!NoRecord}]
  BY <1>7
<1> HIDE DEF new
<1>12. LogTypeInv'
  <2>1. head' \in LogSlots BY <1>4, <1>6, <1>11 DEF LogSlots
  <2>2. logPc' \in [Writers -> {"idle", "fill", "end", "compare"}] /\ slot' \in [Writers -> Log!Position]
    BY <1>5, <1>6
  <2> QED BY <1>5, <1>6, <1>8, <2>1, <2>2 DEF LogIInv, LogTypeInv
<1>13. LogBack(newWrite) = 0 /\ Log!Distance(newWrite, newWrite') = len
  BY <1>1, <1>6, <1>7, <1>9
<1>14. head[newWrite].len = 0 /\ ~head[newWrite].busy
  <2>1. head[newWrite].len = 0
    <3>1. LogBack(newWrite) = 0 BY <1>1, <1>6
    <3>2. head[newWrite].len # 0 => 0 < LogBack(newWrite) BY <1>6 DEF LogIInv, LogChainInv, LogStarts
    <3> QED BY <3>1, <3>2
  <2>2. \A v \in Writers : LogWriting(v) => slot[v] # newWrite BY <2>1 DEF LogIInv, LogWritersInv, LogStarts
  <2> QED BY <1>6, <2>1, <2>2 DEF LogIInv, LogWritersInv
<1>15. LogChainInv'
  <2>1. \A p \in Log!Position : head[p].len # 0 => head'[p] = head[p] /\ p # newWrite
         /\ LogBack(p) <= LogBack(readyRead)
                                               /\ Log!Distance(p, newWrite') = LogBack(p) + len
    BY <1>9, <1>10, <1>14 DEF LogIInv, LogChainInv, LogStarts
  <2>2. \A p \in Log!Position : head'[p].len # 0 <=> head[p].len # 0 \/ p = newWrite
    BY <1>7, <1>10
  <2>3. \A p \in Log!Position : p = newWrite \/ head[p].len # 0 => p = newWrite' \/ head'[p].len # 0
    BY <2>2
  <2>4. /\ readyRead = newWrite' \/ head'[readyRead].len # 0
        /\ doneWrite = newWrite' \/ head'[doneWrite].len # 0
        /\ Log!Distance(doneWrite, newWrite') <= Log!Distance(readyRead, newWrite')
    <3>1. /\ readyRead = newWrite \/ head[readyRead].len # 0
          /\ doneWrite = newWrite \/ head[doneWrite].len # 0
          /\ LogBack(doneWrite) <= LogBack(readyRead)
      BY DEF LogIInv, LogChainInv, LogBoundary, LogStarts
    <3>2. /\ Log!Distance(doneWrite, newWrite') = LogBack(doneWrite) + len
          /\ Log!Distance(readyRead, newWrite') = LogBack(readyRead) + len
      BY <1>1, <1>6, <1>9, <3>1
    <3>3. LogBack(doneWrite) \in Int /\ LogBack(readyRead) \in Int /\ len \in Int BY <1>1, <1>6, <1>7
    <3>4. Log!Distance(doneWrite, newWrite') <= Log!Distance(readyRead, newWrite') BY <3>1, <3>2, <3>3
    <3> QED BY <1>6, <2>3, <3>1, <3>4
  <2>5. ASSUME NEW p \in Log!Position, head'[p].len # 0
        PROVE  /\ 0 < Log!Distance(p, newWrite')
               /\ Log!Distance(p, newWrite') <= Log!Distance(readyRead, newWrite')
               /\ head'[p].len <= Log!Distance(p, newWrite')
               /\ Log!NextSlot(p, head'[p].len) = newWrite' \/ head'[Log!NextSlot(p, head'[p].len)].len # 0
    <3>1. Log!Distance(readyRead, newWrite') = LogBack(readyRead) + len BY <1>1, <1>6, <1>9
    <3>0. LogBack(readyRead) \in 0..Size - 1 /\ Size \in Int BY <1>1, <1>6
    <3>2. CASE p = newWrite
      <4>1. head'[p].len = len /\ Log!NextSlot(p, head'[p].len) = newWrite' BY <1>4, <1>10, <3>2
      <4>2. Log!Distance(p, newWrite') = len BY <1>13, <3>2
      <4> QED BY <1>7, <3>0, <3>1, <4>1, <4>2
    <3>3. CASE p # newWrite
      <4>1. head[p].len # 0 /\ head'[p] = head[p] BY <1>10, <2>5, <3>3
      <4>2. Log!Distance(p, newWrite') = LogBack(p) + len BY <2>1, <4>1
      <4>3. /\ 0 < LogBack(p) /\ LogBack(p) <= LogBack(readyRead) /\ head[p].len <= LogBack(p)
            /\ Log!NextSlot(p, head[p].len) = newWrite \/ head[Log!NextSlot(p, head[p].len)].len # 0
        BY <4>1 DEF LogIInv, LogChainInv, LogStarts, LogBoundary
      <4>4. Log!NextSlot(p, head[p].len) \in Log!Position BY <1>8
      <4>5. Log!NextSlot(p, head'[p].len) = newWrite' \/ head'[Log!NextSlot(p, head'[p].len)].len # 0
        BY <2>3, <4>1, <4>3, <4>4
      <4>6. LogBack(p) \in Int /\ head[p].len \in Int /\ len \in 1..Size - 1
        <5>1. LogBack(p) \in Int BY <1>1
        <5>2. head[p].len \in Int BY <1>1
        <5> QED BY <1>7, <5>1, <5>2
      <4>7. /\ 0 < Log!Distance(p, newWrite')
            /\ Log!Distance(p, newWrite') <= Log!Distance(readyRead, newWrite')
            /\ head'[p].len <= Log!Distance(p, newWrite')
        BY <3>0, <3>1, <4>1, <4>2, <4>3, <4>6
      <4> QED BY <4>5, <4>7
    <3> QED BY <3>2, <3>3
  <2>6. ASSUME NEW p \in Log!Position, NEW q \in Log!Position, head'[p].len # 0, head'[q].len # 0,
               Log!Distance(q, newWrite') < Log!Distance(p, newWrite')
        PROVE  Log!Distance(q, newWrite') <= Log!Distance(p, newWrite') - head'[p].len
    <3>1. p # newWrite
      <4> SUFFICES ASSUME p = newWrite PROVE FALSE
        OBVIOUS
      <4>1. Log!Distance(p, newWrite') = len BY <1>13
      <4>2. CASE q = newWrite BY <1>7, <1>13, <2>6, <4>1, <4>2
      <4>3. CASE q # newWrite
        <5>1. Log!Distance(q, newWrite') = LogBack(q) + len BY <1>10, <2>1, <2>6, <4>3
        <5> QED BY <1>1, <1>7, <2>6, <4>1, <5>1
      <4> QED BY <4>2, <4>3
    <3>2. /\ head[p].len # 0 /\ head'[p] = head[p] /\ Log!Distance(p, newWrite') = LogBack(p) + len
          /\ head[p].len <= LogBack(p)
      <4>1. head[p].len # 0 BY <1>10, <2>6, <3>1
      <4> QED BY <2>1, <4>1 DEF LogIInv, LogChainInv, LogStarts
    <3>0. LogBack(p) \in Int /\ head[p].len \in Int /\ len \in Int BY <1>1, <1>7, SMTT(30)
    <3>3. CASE q = newWrite
      <4>1. Log!Distance(q, newWrite') = len BY <1>13, <3>3
      <4> QED BY <3>0, <3>2, <4>1
    <3>4. CASE q # newWrite
      <4>1. head[q].len # 0 BY <1>10, <2>6, <3>4
      <4>2. Log!Distance(q, newWrite') = LogBack(q) + len BY <2>1, <4>1
      <4>3. LogBack(q) < LogBack(p) BY <1>1, <1>7, <2>6, <3>2, <4>2
      <4>4. LogBack(q) <= LogBack(p) - head[p].len BY <3>2, <4>1, <4>3 DEF LogIInv, LogChainInv, LogStarts
      <4>5. LogBack(q) \in Int BY <1>1
      <4> QED BY <3>0, <3>2, <4>2, <4>4, <4>5
    <3> QED BY <3>3, <3>4
  <2> QED BY <1>5, <2>4, <2>5, <2>6 DEF LogChainInv, LogBack, LogStarts, LogBoundary
<1>16. LogWritersInv'
  <2>1. ASSUME NEW v \in Writers, v # w
        PROVE logPc'[v] = logPc[v] /\ slot'[v] = slot[v] /\ slot[v] \in Log!Position
    BY <1>5, <1>6, <2>1
  <2>2. logPc'[w] = "fill" /\ slot'[w] = newWrite BY <1>5, <1>6
  <2>3. Log!Distance(doneWrite, newWrite') = LogBack(doneWrite) + len
    BY <1>6, <1>9 DEF LogIInv, LogChainInv
  <2>4. ASSUME NEW v \in Writers, logPc'[v] \in {"fill", "end"}
        PROVE  /\ head'[slot'[v]].busy /\ head'[slot'[v]].len # 0
               /\ Log!Distance(slot'[v], newWrite') <= Log!Distance(doneWrite', newWrite')
    <3>0. LogBack(doneWrite) \in 0..Size - 1 /\ Size \in Int BY <1>1, <1>6
    <3>1. CASE v = w
      <4>1. slot'[v] = newWrite /\ head'[newWrite].busy /\ head'[newWrite].len # 0 BY <1>7, <1>10, <2>2,
          <3>1
      <4>2. Log!Distance(newWrite, newWrite') <= Log!Distance(doneWrite, newWrite') BY <1>7, <1>13, <2>3,
          <3>0
      <4> QED BY <1>5, <4>1, <4>2
    <3>2. CASE v # w
      <4>1. /\ head[slot[v]].busy /\ head[slot[v]].len # 0 /\ LogBack(slot[v]) <= LogBack(doneWrite)
            /\ slot[v] \in Log!Position
        BY <2>1, <2>4, <3>2 DEF LogIInv, LogWritersInv, LogWriting, LogStarts
      <4>2. slot[v] # newWrite /\ head'[slot[v]] = head[slot[v]] BY <1>10, <1>14, <4>1
      <4>3. LogBack(slot[v]) <= LogBack(readyRead) BY <4>1 DEF LogIInv, LogChainInv, LogStarts
      <4>4. Log!Distance(slot[v], newWrite') = LogBack(slot[v]) + len BY <1>9, <4>1, <4>3
      <4>5. LogBack(slot[v]) \in Int /\ len \in Int BY <1>1, <1>7, <4>1
      <4>6. Log!Distance(slot[v], newWrite') <= Log!Distance(doneWrite, newWrite') BY <2>3, <3>0, <4>1,
          <4>4, <4>5
      <4> QED BY <1>5, <2>1, <3>2, <4>1, <4>2, <4>6
    <3> QED BY <3>1, <3>2
  <2>5. ASSUME NEW v \in Writers, logPc'[v] = "compare"
        PROVE  slot'[v] # newWrite' /\ ~head'[slot'[v]].busy
    <3>1. v # w BY <2>2, <2>5
    <3>2. logPc[v] = "compare" /\ slot'[v] = slot[v] /\ slot[v] \in Log!Position BY <2>1, <2>5, <3>1
    <3>3. slot[v] # newWrite /\ ~head[slot[v]].busy BY <3>2 DEF LogIInv, LogWritersInv
    <3> QED BY <1>4, <1>10, <3>2, <3>3
  <2>6. ASSUME NEW u \in Writers, NEW v \in Writers, u # v, logPc'[u] \in {"fill", "end"},
      logPc'[v] \in {"fill", "end"}
        PROVE  slot'[u] # slot'[v]
    <3>1. ASSUME NEW x \in Writers, x # w, logPc'[x] \in {"fill", "end"}
          PROVE  LogWriting(x) /\ slot'[x] = slot[x] /\ slot[x] # newWrite
      <4>1. LogWriting(x) /\ slot'[x] = slot[x] /\ slot[x] \in Log!Position BY <2>1, <3>1 DEF LogWriting
      <4>2. head[slot[x]].busy BY <4>1 DEF LogIInv, LogWritersInv
      <4> QED BY <1>14, <4>1, <4>2
    <3>2. CASE u = w BY <2>2, <2>6, <3>1, <3>2
    <3>3. CASE v = w BY <2>2, <2>6, <3>1, <3>3
    <3>4. CASE u # w /\ v # w
      <4>1. LogWriting(u) /\ LogWriting(v) /\ slot'[u] = slot[u] /\ slot'[v] = slot[v] BY <2>6, <3>1, <3>4
      <4> QED BY <2>6, <4>1 DEF LogIInv, LogWritersInv
    <3> QED BY <3>2, <3>3, <3>4
  <2>7. ASSUME NEW p \in Log!Position, head'[p].busy
        PROVE  \E v \in Writers : logPc'[v] \in {"fill", "end"} /\ slot'[v] = p
    <3>1. CASE p = newWrite BY <2>2, <3>1
    <3>2. CASE p # newWrite
      <4>1. PICK v \in Writers : LogWriting(v) /\ slot[v] = p BY <1>10, <2>7, <3>2 DEF LogIInv,
          LogWritersInv
      <4>2. v # w BY <1>5, <4>1 DEF LogWriting
      <4> QED BY <2>1, <4>1, <4>2 DEF LogWriting
    <3> QED BY <3>1, <3>2
  <2> QED BY <2>4, <2>5, <2>6, <2>7 DEF LogWritersInv, LogWriting, LogBack, LogStarts
<1>17. LogReaderInv'
  <2>1. ASSUME recorder' = "end"
        PROVE readyRead # doneWrite /\ message = head[readyRead].rec /\ readyRead # newWrite
    <3>1. readyRead # doneWrite /\ message = head[readyRead].rec BY <1>5, <2>1 DEF LogIInv, LogReaderInv
    <3>2. readyRead # newWrite BY <1>1, <1>6, <3>1 DEF LogIInv, LogChainInv
    <3> QED BY <3>1, <3>2
  <2> QED BY <1>5, <1>6, <1>10, <2>1 DEF LogReaderInv
<1>18. Log!RecorderIsTold'
  <2>1. doneWrite' # newWrite' => \E v \in Writers : logPc'[v] # "idle" /\ slot'[v] = doneWrite'
    <3>1. CASE doneWrite = newWrite
      <4>1. logPc'[w] = "fill" /\ slot'[w] = newWrite BY <1>5, <1>6
      <4> QED BY <1>5, <3>1, <4>1
    <3>2. CASE doneWrite # newWrite
      <4>1. PICK v \in Writers : logPc[v] # "idle" /\ slot[v] = doneWrite BY <3>2 DEF LogIInv,
          Log!RecorderIsTold
      <4>2. v # w BY <1>5, <4>1
      <4> QED BY <1>5, <1>6, <4>1, <4>2
    <3> QED BY <3>1, <3>2
  <2> QED BY <1>5, <2>1 DEF LogIInv, Log!RecorderIsTold
<1> QED BY <1>12, <1>15, <1>16, <1>17, <1>18 DEF LogIInv

\* The busy flag is cleared: the slot stays where it is.
LEMMA LogClearBusyStep ==
    ASSUME LogAssumed, LogIInv, NEW w \in Writers, Log!ClearBusy(w)
    PROVE LogIInv'
<1>1. /\ logPc[w] = "end" /\ logPc' = [logPc EXCEPT ![w] = "compare"]
      /\ head' = [head EXCEPT ![slot[w]].busy = FALSE]
      /\ UNCHANGED <<newWrite, doneWrite, readyRead, dataSize, events, slot, recorder, message>>
  BY DEF Log!ClearBusy, Log!Go
<1>2. /\ head \in LogSlots /\ logPc \in [Writers -> {"idle", "fill", "end", "compare"}]
      /\ slot \in [Writers -> Log!Position] /\ doneWrite \in Log!Position /\ readyRead \in Log!Position
  BY DEF LogIInv, LogTypeInv
<1>3. /\ \A p \in Log!Position : head'[p].len = head[p].len /\ head'[p].rec = head[p].rec
      /\ \A p \in Log!Position : p # slot[w] => head'[p].busy = head[p].busy
      /\ head'[slot[w]].busy = FALSE
  BY <1>1, <1>2 DEF LogSlots
<1>4. head[slot[w]].busy /\ head[slot[w]].len # 0 /\ slot[w] \in Log!Position
  BY <1>1, <1>2 DEF LogIInv, LogWritersInv, LogWriting, LogStarts
<1>5. \A p \in Log!Position : Log!NextSlot(p, head[p].len) \in Log!Position
  <2>1. \A p \in Log!Position : head[p].len \in 0..Size BY LogDistances DEF LogIInv
  <2> QED BY <2>1, LogNextSlotIs
<1>6. LogTypeInv'
  <2>1. head' \in LogSlots BY <1>1, <1>2 DEF LogSlots
  <2>2. logPc' \in [Writers -> {"idle", "fill", "end", "compare"}] BY <1>1, <1>2
  <2> QED BY <1>1, <2>1, <2>2 DEF LogIInv, LogTypeInv
<1>7. LogChainInv'
  <2>1. \A p \in Log!Position : head'[p].len # 0 <=> head[p].len # 0 BY <1>3
  <2>2. /\ readyRead = newWrite \/ head'[readyRead].len # 0
        /\ doneWrite = newWrite \/ head'[doneWrite].len # 0
        /\ Log!Distance(doneWrite, newWrite) <= Log!Distance(readyRead, newWrite)
    BY <1>2, <2>1 DEF LogIInv, LogChainInv, LogBack, LogStarts, LogBoundary
  <2>3. \A p \in Log!Position : head'[p].len # 0 =>
            /\ 0 < Log!Distance(p, newWrite)
            /\ Log!Distance(p, newWrite) <= Log!Distance(readyRead, newWrite)
            /\ head'[p].len <= Log!Distance(p, newWrite)
            /\ Log!NextSlot(p, head'[p].len) = newWrite \/ head'[Log!NextSlot(p, head'[p].len)].len # 0
    BY <1>3, <1>5, <2>1 DEF LogIInv, LogChainInv, LogBack, LogStarts, LogBoundary
  <2>4. \A p, q \in Log!Position : head'[p].len # 0 /\ head'[q].len # 0
         /\ Log!Distance(q, newWrite) < Log!Distance(p, newWrite)
            => Log!Distance(q, newWrite) <= Log!Distance(p, newWrite) - head'[p].len
    BY <1>3, <2>1 DEF LogIInv, LogChainInv, LogBack, LogStarts, LogBoundary
  <2> QED BY <1>1, <2>2, <2>3, <2>4 DEF LogChainInv, LogBack, LogStarts, LogBoundary
<1>8. \A v \in Writers : v # w => logPc'[v] = logPc[v] BY <1>1, <1>2
<1>9. logPc'[w] = "compare" BY <1>1, <1>2
<1>10. LogWritersInv'
  <2>1. \A v \in Writers : logPc'[v] \in {"fill", "end"} => v # w /\ LogWriting(v) /\ slot[v] # slot[w]
    BY <1>1, <1>8, <1>9 DEF LogIInv, LogWritersInv, LogWriting
  <2>2. \A v \in Writers : logPc'[v] \in {"fill", "end"} =>
            head'[slot[v]].busy /\ head'[slot[v]].len # 0 /\ LogBack(slot[v]) <= LogBack(doneWrite)
    BY <1>2, <1>3, <2>1 DEF LogIInv, LogWritersInv, LogStarts
  <2>3. \A v \in Writers : logPc'[v] = "compare" => slot[v] # newWrite /\ ~head'[slot[v]].busy
    <3>1. slot[w] # newWrite
      <4>1. LogBack(newWrite) = 0 /\ newWrite \in Log!Position BY LogDistances DEF LogIInv, LogTypeInv
      <4>2. 0 < LogBack(slot[w]) BY <1>4 DEF LogIInv, LogChainInv, LogStarts
      <4> QED BY <4>1, <4>2
    <3>2. \A v \in Writers : v # w /\ logPc[v] = "compare" => slot[v] # newWrite /\ ~head'[slot[v]].busy
      BY <1>2, <1>3 DEF LogIInv, LogWritersInv
    <3> QED BY <1>3, <1>8, <3>1, <3>2
  <2>4. \A u, v \in Writers : u # v /\ logPc'[u] \in {"fill", "end"} /\ logPc'[v] \in {"fill", "end"}
      => slot[u] # slot[v]
    BY <2>1 DEF LogIInv, LogWritersInv
  <2>5. ASSUME NEW p \in Log!Position, head'[p].busy
        PROVE  \E v \in Writers : logPc'[v] \in {"fill", "end"} /\ slot[v] = p
    <3>1. p # slot[w] /\ head[p].busy BY <1>3, <2>5
    <3>2. PICK v \in Writers : LogWriting(v) /\ slot[v] = p BY <3>1 DEF LogIInv, LogWritersInv
    <3> QED BY <1>8, <3>1, <3>2 DEF LogWriting
  <2> QED BY <1>1, <2>2, <2>3, <2>4, <2>5 DEF LogWritersInv, LogWriting, LogBack, LogStarts
<1>11. LogReaderInv' BY <1>1, <1>2, <1>3 DEF LogIInv, LogReaderInv
<1>12. Log!RecorderIsTold'
  <2>1. doneWrite # newWrite => \E v \in Writers : logPc'[v] # "idle" /\ slot[v] = doneWrite
    BY <1>8, <1>9 DEF LogIInv, Log!RecorderIsTold
  <2> QED BY <1>1, <2>1 DEF LogIInv, Log!RecorderIsTold
<1> QED BY <1>6, <1>7, <1>10, <1>11, <1>12 DEF LogIInv

\* The slots that are done become readable, up to the first one that is busy.
LEMMA LogPublishStep ==
    ASSUME LogAssumed, LogIInv, NEW w \in Writers, Log!Publish(w)
    PROVE LogIInv'
<1>1. /\ Size \in Nat \ {0} /\ BulkSize \in Nat \ {0}
      /\ \A p \in Log!Position : LogBack(p) \in 0..Size - 1
      /\ \A p \in Log!Position : LogBack(p) = 0 <=> p = newWrite
      /\ \A p, q \in Log!Position : LogBack(p) = LogBack(q) => p = q
      /\ \A p \in Log!Position : head[p].len \in 0..Size - 1
  BY LogDistances DEF LogIInv, LogAssumed
<1>2. /\ head \in LogSlots /\ logPc \in [Writers -> {"idle", "fill", "end", "compare"}]
      /\ slot \in [Writers -> Log!Position] /\ newWrite \in Log!Position /\ doneWrite \in Log!Position
      /\ readyRead \in Log!Position
  BY DEF LogIInv, LogTypeInv
<1> DEFINE len   == head[doneWrite].len
           next  == Log!NextSlot(doneWrite, len)
           ready == Log!ReadyBytes[Log!Distance(next, newWrite)]
<1>3. /\ logPc[w] = "compare" /\ slot[w] = doneWrite /\ logPc' = [logPc EXCEPT ![w] = "idle"]
      /\ doneWrite' = Log!NextSlot(doneWrite, len + ready) /\ dataSize' = dataSize + (len + ready)
      /\ events' = Log!BitsAfterWrite(dataSize')
      /\ UNCHANGED <<head, newWrite, readyRead, slot, recorder, message>>
  BY DEF Log!Publish, Log!Go
<1>4. doneWrite # newWrite /\ ~head[doneWrite].busy BY <1>3 DEF LogIInv, LogWritersInv
<1>5. /\ LogStarts(doneWrite) /\ len \in 1..LogBack(doneWrite) /\ LogBack(doneWrite) <= LogBack(readyRead)
      /\ LogBoundary(next)
  <2>1. LogStarts(doneWrite) /\ LogBack(doneWrite) <= LogBack(readyRead) BY <1>4 DEF LogIInv, LogChainInv,
      LogBoundary
  <2>2. len <= LogBack(doneWrite) /\ len # 0 /\ LogBoundary(next) BY <1>2, <2>1 DEF LogIInv, LogChainInv,
      LogStarts
  <2>3. len \in Nat /\ LogBack(doneWrite) \in Nat BY <1>1, <1>2
  <2> QED BY <2>1, <2>2, <2>3
<1>6. next \in Log!Position /\ LogBack(next) = LogBack(doneWrite) - len
  <2>1. len \in 0..Log!Distance(doneWrite, newWrite) BY <1>1, <1>2, <1>5 DEF LogBack
  <2> QED BY <1>2, <2>1, LogNearer DEF LogBack
<1> HIDE DEF next, len
<1>7. LogBack(next) <= LogBack(readyRead) /\ LogBack(next) < LogBack(doneWrite)
  <2>1. LogBack(doneWrite) \in Int /\ LogBack(readyRead) \in Int BY <1>1, <1>2
  <2> QED BY <1>5, <1>6, <2>1
<1>8. /\ Log!ReadyBytes[LogBack(next)] \in 0..LogBack(next)
      /\ \E end \in Log!Position :
            /\ LogBack(end) = LogBack(next) - Log!ReadyBytes[LogBack(next)]
            /\ end = newWrite \/ (LogStarts(end) /\ head[end].busy)
            /\ \A p \in Log!Position : LogStarts(p) /\ head[p].busy /\ LogBack(p) <= LogBack(next)
               => LogBack(p) <= LogBack(end)
  BY <1>5, <1>6, <1>7, LogReadyBytesEnd DEF LogIInv
<1>9. ready = Log!ReadyBytes[LogBack(next)] BY DEF LogBack
<1> HIDE DEF ready
<1>10. PICK end \in Log!Position :
            /\ LogBack(end) = LogBack(next) - ready
            /\ end = newWrite \/ (LogStarts(end) /\ head[end].busy)
            /\ \A p \in Log!Position : LogStarts(p) /\ head[p].busy /\ LogBack(p) <= LogBack(next)
               => LogBack(p) <= LogBack(end)
  BY <1>8, <1>9
<1>11. ready \in 0..LogBack(next) BY <1>8, <1>9
<1>12. /\ LogBack(doneWrite) \in 0..Size - 1 /\ LogBack(readyRead) \in 0..Size - 1
       /\ LogBack(next) \in 0..Size - 1
       /\ LogBack(end) \in 0..Size - 1 /\ Size \in Int
  BY <1>1, <1>2, <1>6
<1>13. len + ready \in 1..LogBack(doneWrite) /\ LogBack(end) = LogBack(doneWrite) - (len + ready)
  BY <1>5, <1>6, <1>10, <1>11, <1>12
<1>14. doneWrite' = end
  <2>1. len + ready \in 0..Log!Distance(doneWrite, newWrite) BY <1>12, <1>13 DEF LogBack
  <2>2. /\ Log!NextSlot(doneWrite, len + ready) \in Log!Position
        /\ LogBack(Log!NextSlot(doneWrite, len + ready)) = LogBack(doneWrite) - (len + ready)
    BY <1>2, <2>1, LogNearer DEF LogBack
  <2> QED BY <1>1, <1>3, <1>13, <2>2
<1>15. LogBack(end) <= LogBack(readyRead) /\ LogBack(end) < LogBack(doneWrite) BY <1>5, <1>12, <1>13
<1>16. ASSUME NEW p \in Log!Position, LogStarts(p), head[p].busy, LogBack(p) <= LogBack(doneWrite)
       PROVE  LogBack(p) <= LogBack(end)
  <2>1. p # doneWrite BY <1>4, <1>16
  <2>2. LogBack(p) # LogBack(doneWrite) /\ LogBack(p) \in Int BY <1>1, <1>2, <2>1
  <2>3. LogBack(p) < LogBack(doneWrite) BY <1>12, <1>16, <2>2
  <2>4. LogBack(p) <= LogBack(doneWrite) - len
    BY <1>2, <1>5, <1>16, <2>3 DEF LogIInv, LogChainInv, len
  <2>5. LogBack(p) <= LogBack(next) BY <1>6, <2>4
  <2> QED BY <1>10, <1>16, <2>5
<1>17. LogTypeInv'
  <2>1. events' \subseteq {"may_read", "bulk_ready"} BY <1>3 DEF Log!BitsAfterWrite, LogIInv, LogTypeInv
  <2>2. logPc' \in [Writers -> {"idle", "fill", "end", "compare"}] BY <1>2, <1>3
  <2> QED BY <1>3, <1>14, <2>1, <2>2 DEF LogIInv, LogTypeInv
<1>18. LogChainInv'
  <2>1. LogBoundary(end) BY <1>10 DEF LogBoundary
  <2> QED BY <1>3, <1>14, <1>15, <2>1 DEF LogIInv, LogChainInv, LogBack, LogStarts, LogBoundary
<1>19. \A v \in Writers : v # w => logPc'[v] = logPc[v] BY <1>2, <1>3
<1>20. logPc'[w] = "idle" BY <1>2, <1>3
<1>21. LogWritersInv'
  <2>1. \A v \in Writers : logPc'[v] # "idle" => logPc'[v] = logPc[v] BY <1>19, <1>20
  <2>2. ASSUME NEW v \in Writers, LogWriting(v) PROVE LogBack(slot[v]) <= LogBack(end)
    <3>1. head[slot[v]].busy /\ LogStarts(slot[v]) /\ LogBack(slot[v]) <= LogBack(doneWrite)
        /\ slot[v] \in Log!Position
      BY <1>2, <2>2 DEF LogIInv, LogWritersInv
    <3> QED BY <1>16, <3>1
  <2>3. \A v \in Writers : logPc'[v] \in {"fill", "end"} <=> LogWriting(v) BY <1>3, <1>19, <1>20
      DEF LogWriting
  <2>4. \A v \in Writers : LogWriting(v) =>
            head[slot[v]].busy /\ head[slot[v]].len # 0
                /\ Log!Distance(slot[v], newWrite) <= Log!Distance(end, newWrite)
    BY <2>2 DEF LogIInv, LogWritersInv, LogStarts, LogBack
  <2>5. \A v \in Writers : logPc'[v] = "compare" => slot[v] # newWrite /\ ~head[slot[v]].busy
    BY <2>1 DEF LogIInv, LogWritersInv
  <2>6. \A u, v \in Writers : u # v /\ logPc'[u] \in {"fill", "end"} /\ logPc'[v] \in {"fill", "end"}
      => slot[u] # slot[v]
    BY <2>3 DEF LogIInv, LogWritersInv
  <2>7. \A p \in Log!Position : head[p].busy => \E v \in Writers : logPc'[v] \in {"fill", "end"}
         /\ slot[v] = p
    BY <2>3 DEF LogIInv, LogWritersInv
  <2> QED BY <1>3, <1>14, <2>3, <2>4, <2>5, <2>6, <2>7 DEF LogWritersInv, LogWriting, LogBack, LogStarts
<1>22. LogReaderInv'
  <2>1. ASSUME recorder = "end" PROVE readyRead # end /\ message = head[readyRead].rec
    <3>1. LogBack(end) < LogBack(readyRead) BY <1>5, <1>12, <1>15
    <3>2. readyRead # end BY <1>12, <3>1
    <3> QED BY <2>1, <3>2 DEF LogIInv, LogReaderInv
  <2> QED BY <1>3, <1>14, <2>1 DEF LogReaderInv
<1>23. Log!RecorderIsTold'
  <2>1. ASSUME end # newWrite PROVE \E v \in Writers : logPc'[v] # "idle" /\ slot[v] = end
    <3>1. head[end].busy BY <1>10, <2>1
    <3>2. PICK v \in Writers : LogWriting(v) /\ slot[v] = end BY <3>1 DEF LogIInv, LogWritersInv
    <3> QED BY <1>3, <1>19, <3>2 DEF LogWriting
  <2>2. /\ dataSize = LogBack(readyRead) - LogBack(doneWrite)
        /\ Log!Distance(readyRead, end) = LogBack(readyRead) - LogBack(end)
    <3>1. dataSize = Log!Distance(readyRead, doneWrite) BY DEF LogIInv, Log!RecorderIsTold
    <3> QED BY <1>2, <1>5, <1>15, <3>1, LogBetween DEF LogBack
  <2>3. dataSize' = Log!Distance(readyRead, end) /\ dataSize \in Nat /\ dataSize' \in Nat
      /\ dataSize' > dataSize
        /\ dataSize' > 0
    BY <1>3, <1>5, <1>12, <1>13, <1>15, <2>2
  <2>4. "may_read" \in events' <=> dataSize' > 0
    BY <1>3, <2>3 DEF Log!BitsAfterWrite
  <2>5. "bulk_ready" \in events' <=> dataSize' >= BulkSize
    <3>1. "bulk_ready" \in events <=> dataSize >= BulkSize BY DEF LogIInv, Log!RecorderIsTold
    <3> QED BY <1>1, <1>3, <2>3, <3>1 DEF Log!BitsAfterWrite
  <2> QED BY <1>3, <1>14, <2>1, <2>3, <2>4, <2>5 DEF Log!RecorderIsTold
<1> QED BY <1>17, <1>18, <1>21, <1>22, <1>23 DEF LogIInv

\* The slot that was read is released.
LEMMA LogEndReadStep ==
    ASSUME LogAssumed, LogIInv, Log!EndRead
    PROVE LogIInv'
<1>1. /\ Size \in Nat \ {0} /\ BulkSize \in Nat \ {0}
      /\ \A p \in Log!Position : LogBack(p) \in 0..Size - 1
      /\ \A p \in Log!Position : LogBack(p) = 0 <=> p = newWrite
      /\ \A p, q \in Log!Position : LogBack(p) = LogBack(q) => p = q
      /\ \A p \in Log!Position : head[p].len \in 0..Size - 1
  BY LogDistances DEF LogIInv, LogAssumed
<1>2. /\ head \in LogSlots /\ slot \in [Writers -> Log!Position]
      /\ newWrite \in Log!Position /\ doneWrite \in Log!Position /\ readyRead \in Log!Position
  BY DEF LogIInv, LogTypeInv
<1> DEFINE len  == head[readyRead].len
           next == Log!NextSlot(readyRead, len)
<1>3. /\ recorder = "end" /\ recorder' = "store"
      /\ dataSize' = dataSize - len /\ readyRead' = next /\ events' = Log!BitsAfterRead(dataSize')
      /\ head' = [head EXCEPT ![readyRead] = Log!NoSlot]
      /\ UNCHANGED <<newWrite, doneWrite, logPc, slot>>
  BY DEF Log!EndRead
<1>4. readyRead # doneWrite BY <1>3 DEF LogIInv, LogReaderInv
<1>5. /\ LogBack(doneWrite) \in 0..Size - 1 /\ LogBack(readyRead) \in 0..Size - 1 /\ Size \in Int
      /\ LogBack(doneWrite) < LogBack(readyRead)
  <2>1. LogBack(doneWrite) \in 0..Size - 1 /\ LogBack(readyRead) \in 0..Size - 1 /\ Size \in Int BY <1>1,
      <1>2
  <2>2. LogBack(doneWrite) # LogBack(readyRead) BY <1>1, <1>2, <1>4
  <2>3. LogBack(doneWrite) <= LogBack(readyRead) BY DEF LogIInv, LogChainInv
  <2> QED BY <2>1, <2>2, <2>3
<1>6. readyRead # newWrite
  <2>1. LogBack(readyRead) # 0 BY <1>5
  <2> QED BY <1>1, <1>2, <2>1
<1>7. LogStarts(readyRead) /\ len \in 1..LogBack(readyRead) /\ LogBoundary(next)
  <2>1. LogStarts(readyRead) BY <1>6 DEF LogIInv, LogChainInv, LogBoundary
  <2>2. len <= LogBack(readyRead) /\ len # 0 /\ LogBoundary(next) BY <1>2, <2>1 DEF LogIInv, LogChainInv,
      LogStarts
  <2>3. len \in Nat BY <1>1, <1>2
  <2> QED BY <1>5, <2>1, <2>2, <2>3
<1>8. next \in Log!Position /\ LogBack(next) = LogBack(readyRead) - len
  <2>1. len \in 0..Log!Distance(readyRead, newWrite) BY <1>7 DEF LogBack
  <2> QED BY <1>2, <2>1, LogNearer DEF LogBack
<1>9. \A p \in Log!Position : LogStarts(p) /\ p # readyRead => LogBack(p) <= LogBack(next)
  <2> SUFFICES ASSUME NEW p \in Log!Position, LogStarts(p), p # readyRead PROVE LogBack(p) <= LogBack(next)
    OBVIOUS
  <2>1. LogBack(p) <= LogBack(readyRead) /\ LogBack(p) # LogBack(readyRead) /\ LogBack(p) \in Int
    BY <1>1, <1>2 DEF LogIInv, LogChainInv
  <2>2. LogBack(p) < LogBack(readyRead) BY <1>5, <2>1
  <2>3. LogBack(p) <= LogBack(readyRead) - len BY <1>2, <1>7, <2>2 DEF LogIInv, LogChainInv
  <2> QED BY <1>8, <2>3
<1>10. \A p \in Log!Position : p # readyRead => Log!NextSlot(p, head[p].len) # readyRead \/ ~LogStarts(p)
  <2> SUFFICES ASSUME NEW p \in Log!Position, p # readyRead, LogStarts(p)
      PROVE Log!NextSlot(p, head[p].len) # readyRead
    OBVIOUS
  <2>1. /\ head[p].len \in 0..Size - 1 /\ head[p].len <= LogBack(p) /\ LogBack(p) \in 0..Size - 1
        /\ LogBack(p) <= LogBack(next)
    BY <1>1, <1>9 DEF LogIInv, LogChainInv
  <2>2. head[p].len \in 0..Log!Distance(p, newWrite) BY <2>1 DEF LogBack
  <2>3. LogBack(Log!NextSlot(p, head[p].len)) = LogBack(p) - head[p].len BY <1>2, <2>2, LogNearer
      DEF LogBack
  <2>4. LogBack(next) < LogBack(readyRead) BY <1>5, <1>7, <1>8
  <2>5. LogBack(Log!NextSlot(p, head[p].len)) < LogBack(readyRead) BY <1>5, <1>7, <1>8, <2>1, <2>3
  <2> QED BY <1>5, <2>5
<1>11. next # readyRead
  <2>1. LogBack(next) < LogBack(readyRead) BY <1>5, <1>7, <1>8
  <2> QED BY <1>5, <2>1
<1>12. LogBack(doneWrite) <= LogBack(next)
  <2>1. CASE doneWrite = newWrite
    <3>1. LogBack(doneWrite) = 0 BY <1>1, <1>2, <2>1
    <3> QED BY <1>5, <1>7, <1>8, <3>1
  <2>2. CASE doneWrite # newWrite
    <3>1. LogStarts(doneWrite) BY <2>2 DEF LogIInv, LogChainInv, LogBoundary
    <3> QED BY <1>2, <1>4, <1>9, <3>1
  <2> QED BY <2>1, <2>2
<1>13. \A p \in Log!Position : Log!NextSlot(p, head[p].len) \in Log!Position
  <2>1. \A p \in Log!Position : head[p].len \in 0..Size BY <1>1
  <2> QED BY <2>1, LogNextSlotIs
<1>14. len \in Nat BY <1>1, <1>2
<1> HIDE DEF next, len
<1>15. /\ \A p \in Log!Position : p # readyRead => head'[p] = head[p]
       /\ head'[readyRead].len = 0 /\ ~head'[readyRead].busy
  BY <1>2, <1>3 DEF LogSlots, Log!NoSlot
<1>16. LogTypeInv'
  <2>1. Log!NoSlot \in [len : 0..(Size - 1), busy : BOOLEAN, rec : Log!Record \cup {Log!NoRecord}]
    BY <1>1 DEF Log!NoSlot
  <2>2. head' \in LogSlots BY <1>2, <1>3, <2>1 DEF LogSlots
  <2>3. events' \subseteq {"may_read", "bulk_ready"} BY <1>3 DEF Log!BitsAfterRead, LogIInv, LogTypeInv
  <2> QED BY <1>3, <1>8, <2>2, <2>3 DEF LogIInv, LogTypeInv
<1>17. LogChainInv'
  <2>1. \A p \in Log!Position : head'[p].len # 0 => p # readyRead /\ head'[p] = head[p] /\ LogStarts(p)
    BY <1>15 DEF LogStarts
  <2>2. \A p \in Log!Position : p # readyRead /\ LogBoundary(p) => p = newWrite \/ head'[p].len # 0
    BY <1>15 DEF LogBoundary, LogStarts
  <2>3. /\ next = newWrite \/ head'[next].len # 0
        /\ doneWrite = newWrite \/ head'[doneWrite].len # 0
    BY <1>2, <1>4, <1>7, <1>8, <1>11, <2>2 DEF LogIInv, LogChainInv
  <2>4. ASSUME NEW p \in Log!Position, head'[p].len # 0
        PROVE  /\ 0 < LogBack(p) /\ LogBack(p) <= LogBack(next) /\ head'[p].len <= LogBack(p)
               /\ Log!NextSlot(p, head'[p].len) = newWrite \/ head'[Log!NextSlot(p, head'[p].len)].len # 0
    <3>1. p # readyRead /\ head'[p] = head[p] /\ LogStarts(p) BY <2>1, <2>4
    <3>2. 0 < LogBack(p) /\ head[p].len <= LogBack(p) /\ LogBoundary(Log!NextSlot(p, head[p].len))
      BY <3>1 DEF LogIInv, LogChainInv
    <3>3. Log!NextSlot(p, head[p].len) = newWrite \/ head'[Log!NextSlot(p, head[p].len)].len # 0
      BY <1>10, <1>13, <2>2, <3>1, <3>2
    <3> QED BY <1>9, <3>1, <3>2, <3>3
  <2>5. \A p, q \in Log!Position : head'[p].len # 0 /\ head'[q].len # 0 /\ LogBack(q) < LogBack(p)
            => LogBack(q) <= LogBack(p) - head'[p].len
    BY <2>1 DEF LogIInv, LogChainInv
  <2> QED BY <1>3, <1>12, <2>3, <2>4, <2>5 DEF LogChainInv, LogBack, LogStarts, LogBoundary
<1>18. LogWritersInv'
  <2>1. \A v \in Writers : LogWriting(v) => slot[v] # readyRead
    BY <1>5 DEF LogIInv, LogWritersInv
  <2>2. \A v \in Writers : LogWriting(v) => head'[slot[v]].busy /\ head'[slot[v]].len # 0
    BY <1>2, <1>15, <2>1 DEF LogIInv, LogWritersInv, LogStarts
  <2>3. \A v \in Writers : logPc[v] = "compare" => slot[v] # newWrite /\ ~head'[slot[v]].busy
    BY <1>2, <1>15 DEF LogIInv, LogWritersInv
  <2>4. \A p \in Log!Position : head'[p].busy => head[p].busy BY <1>15
  <2> QED BY <1>3, <2>2, <2>3, <2>4 DEF LogIInv, LogWritersInv, LogWriting, LogBack, LogStarts
<1>19. LogReaderInv' BY <1>3 DEF LogReaderInv
<1>20. Log!RecorderIsTold'
  <2>1. /\ dataSize = LogBack(readyRead) - LogBack(doneWrite)
        /\ Log!Distance(next, doneWrite) = LogBack(next) - LogBack(doneWrite)
    <3>1. dataSize = Log!Distance(readyRead, doneWrite) BY DEF LogIInv, Log!RecorderIsTold
    <3>2. LogBack(doneWrite) <= LogBack(readyRead) BY <1>5
    <3> QED BY <1>2, <1>8, <1>12, <3>1, <3>2, LogBetween DEF LogBack
  <2>2. dataSize' = Log!Distance(next, doneWrite) /\ dataSize \in Nat /\ dataSize' \in Nat
      /\ dataSize' < dataSize
    BY <1>3, <1>5, <1>7, <1>8, <1>12, <2>1
  <2>3. "may_read" \in events' <=> dataSize' > 0
    <3>1. "may_read" \in events BY <2>2 DEF LogIInv, Log!RecorderIsTold
    <3> QED BY <1>3, <2>2, <3>1 DEF Log!BitsAfterRead
  <2>4. "bulk_ready" \in events' <=> dataSize' >= BulkSize
    <3>1. "bulk_ready" \in events <=> dataSize >= BulkSize BY DEF LogIInv, Log!RecorderIsTold
    <3> QED BY <1>1, <1>3, <2>2, <3>1 DEF Log!BitsAfterRead
  <2> QED BY <1>3, <2>2, <2>3, <2>4 DEF LogIInv, Log!RecorderIsTold
<1> QED BY <1>16, <1>17, <1>18, <1>19, <1>20 DEF LogIInv

\* The other steps move nothing.
LEMMA LogOthersStep ==
    ASSUME LogIInv,
           \/ \E w \in Writers : Log!Drop(w) \/ Log!Fill(w) \/ Log!LeaveToOthers(w)
           \/ Log!WaitBulk \/ Log!TryRead \/ Log!NothingToRead \/ Log!WriteToCard \/ Log!Flush
               \/ UNCHANGED Log!vars
    PROVE LogIInv'
<1>1. logPc \in [Writers -> {"idle", "fill", "end", "compare"}] BY DEF LogIInv, LogTypeInv
<1>2. recorder = "end" => readyRead # doneWrite /\ message = head[readyRead].rec BY DEF LogIInv,
    LogReaderInv
<1>3. CASE \E w \in Writers : Log!Fill(w)
  <2>1. PICK w \in Writers : Log!Fill(w) BY <1>3
  <2>2. /\ logPc[w] = "fill" /\ logPc' = [logPc EXCEPT ![w] = "end"]
        /\ UNCHANGED <<Log!bufferV, slot>> /\ UNCHANGED <<recorder, message>>
    BY <2>1 DEF Log!Fill, Log!Go
  <2>3. /\ logPc' \in [Writers -> {"idle", "fill", "end", "compare"}] /\ logPc'[w] = "end"
        /\ \A v \in Writers : v # w => logPc'[v] = logPc[v]
    BY <1>1, <2>2
  <2>4. /\ \A v \in Writers : (logPc'[v] \in {"fill", "end"} <=> logPc[v] \in {"fill", "end"})
        /\ \A v \in Writers : logPc'[v] = "compare" => logPc[v] = "compare"
        /\ \A v \in Writers : slot[v] = doneWrite /\ logPc[v] # "idle" => logPc'[v] # "idle"
    BY <2>2, <2>3
  <2> QED BY <1>2, <2>2, <2>3, <2>4, LogStandStill
<1>4. CASE \E w \in Writers : Log!LeaveToOthers(w)
  <2>1. PICK w \in Writers : Log!LeaveToOthers(w) BY <1>4
  <2>2. /\ logPc[w] = "compare" /\ doneWrite # slot[w] /\ logPc' = [logPc EXCEPT ![w] = "idle"]
        /\ UNCHANGED <<Log!bufferV, slot>> /\ UNCHANGED <<recorder, message>>
    BY <2>1 DEF Log!LeaveToOthers, Log!Go
  <2>3. /\ logPc' \in [Writers -> {"idle", "fill", "end", "compare"}] /\ logPc'[w] = "idle"
        /\ \A v \in Writers : v # w => logPc'[v] = logPc[v]
    BY <1>1, <2>2
  <2>4. /\ \A v \in Writers : (logPc'[v] \in {"fill", "end"} <=> logPc[v] \in {"fill", "end"})
        /\ \A v \in Writers : logPc'[v] = "compare" => logPc[v] = "compare"
        /\ \A v \in Writers : slot[v] = doneWrite /\ logPc[v] # "idle" => logPc'[v] # "idle"
    BY <2>2, <2>3
  <2> QED BY <1>2, <2>2, <2>3, <2>4, LogStandStill
<1>5. CASE (\E w \in Writers : Log!Drop(w)) \/ Log!WaitBulk \/ Log!TryRead \/ Log!NothingToRead
    \/ Log!WriteToCard \/ Log!Flush \/ UNCHANGED Log!vars
  <2>1. UNCHANGED <<Log!bufferV, slot>> /\ logPc' = logPc
    BY <1>5 DEF Log!Drop, Log!WaitBulk, Log!TryRead, Log!NothingToRead, Log!WriteToCard, Log!Flush, Log!vars
  <2>2. recorder' = "end" => readyRead # doneWrite /\ message' = head[readyRead].rec
    BY <1>2, <1>5 DEF Log!Drop, Log!WaitBulk, Log!TryRead, Log!NothingToRead, Log!WriteToCard,
        Log!Flush, Log!vars
  <2> QED BY <1>1, <2>1, <2>2, LogStandStill
<1> QED BY <1>3, <1>4, <1>5

\* No step breaks the invariant.
LEMMA LogNextIInv == ASSUME LogAssumed, LogIInv, [Log!Next]_Log!vars PROVE LogIInv'
BY LogStartWriteStep, LogClearBusyStep, LogPublishStep, LogEndReadStep, LogOthersStep DEF Log!Next

\* The invariant of the ring holds in each of its behaviours.
THEOREM LogInductive == ASSUME LogAssumed PROVE Log!Spec => []LogIInv
BY LogInitIInv, LogNextIInv, PTL DEF Log!Spec

\* Buffer.h: while some slots are not readable the writer of the first of them has not left
\* end_write(), and data_size and the bits are what is there to be read.
THEOREM RecorderTold == ASSUME LogAssumed PROVE Log!Spec => []RecorderIsTold
<1>1. LogIInv => RecorderIsTold BY DEF LogIInv, RecorderIsTold, Log!RecorderIsTold
<1> QED BY <1>1, LogInductive, PTL

-----------------------------------------------------------------------------
\* The slots from a position on, as Queue collects them, in a ring h whose end is n
LogSlot == [len : 0..(Size - 1), busy : BOOLEAN, rec : Log!Record \cup {Log!NoRecord}]

LogWalk(h, n) ==
    LET slots[d \in 0..Size] ==
            IF d = 0 THEN <<>>
            ELSE LET s == h[(n + Size - d) % Size]
                 IN IF s.len = 0 \/ s.len > d THEN <<s>> ELSE <<s>> \o slots[d - s.len]
    IN slots

LogFrom(h, n, p) == LogWalk(h, n)[Log!Distance(p, n)]

\* Each slot ends where the next one begins, or at the end.
LogLinked(h, n) ==
    \A p \in Log!Position : h[p].len # 0 =>
        /\ 0 < Log!Distance(p, n) /\ h[p].len <= Log!Distance(p, n)
        /\ Log!NextSlot(p, h[p].len) = n \/ h[Log!NextSlot(p, h[p].len)].len # 0

LogWalkStep(h, n, f, d) ==
    IF d = 0 THEN <<>>
    ELSE LET s == h[(n + Size - d) % Size]
         IN IF s.len = 0 \/ s.len > d THEN <<s>> ELSE <<s>> \o f[d - s.len]

\* The walk ends: there is such a function.
LEMMA LogWalkIs ==
    ASSUME LogAssumed, NEW n \in Log!Position, NEW h \in LogSlots
    PROVE LogWalk(h, n) = [d \in 0..Size |-> LogWalkStep(h, n, LogWalk(h, n), d)]
<1> DEFINE Found(k) == \E f : f = [d \in 0..k |-> LogWalkStep(h, n, f, d)]
           T == {k \in 0..Size : ~Found(k)}
<1>1. Size \in Nat BY DEF LogAssumed
<1>2. ASSUME NEW d \in 0..Size
      PROVE  h[(n + Size - d) % Size].len \in Nat
  <2>1. (n + Size - d) % Size \in Log!Position BY LogBeforeIs
  <2> QED BY <1>1, <2>1 DEF LogSlots
<1>3. Found(Size)
  <2> SUFFICES ASSUME ~Found(Size) PROVE FALSE
    OBVIOUS
  <2> HIDE DEF Found
  <2>1. Size \in T /\ T \subseteq Nat BY <1>1
  <2>2. PICK k \in T : \A m \in T : k <= m BY <2>1, LogSmallest
  <2>3. k \in 0..Size /\ k \in Nat /\ ~Found(k) BY <1>1, <2>2
  <2>4. k # 0
    <3> SUFFICES ASSUME k = 0 PROVE FALSE
      OBVIOUS
    <3> DEFINE g == [d \in 0..0 |-> <<>>]
    <3>1. \A d \in 0..0 : g[d] = LogWalkStep(h, n, g, d) BY DEF LogWalkStep
    <3>2. g = [d \in 0..k |-> LogWalkStep(h, n, g, d)] BY <3>1
    <3> QED BY <2>3, <3>2 DEF Found
  <2>5. k - 1 \in 0..Size /\ k - 1 \notin T BY <1>1, <2>2, <2>3, <2>4
  <2>6. Found(k - 1) BY <2>5
  <2>7. PICK g : g = [d \in 0..k - 1 |-> LogWalkStep(h, n, g, d)] BY <2>6 DEF Found
  <2> DEFINE f == [d \in 0..k |-> IF d = k THEN LogWalkStep(h, n, g, k) ELSE g[d]]
  <2>8. ASSUME NEW d \in 0..k PROVE LogWalkStep(h, n, g, d) = LogWalkStep(h, n, f, d)
    <3> DEFINE s == h[(n + Size - d) % Size]
    <3>1. d \in 0..Size /\ d \in Nat BY <1>1, <2>3, <2>8
    <3>2. s.len \in Nat BY <1>2, <3>1
    <3>3. CASE d = 0 BY <3>3 DEF LogWalkStep
    <3>4. CASE d # 0 /\ (s.len = 0 \/ s.len > d) BY <3>4 DEF LogWalkStep
    <3>5. CASE d # 0 /\ ~(s.len = 0 \/ s.len > d)
      <4>1. LogWalkStep(h, n, g, d) = <<s>> \o g[d - s.len]
          /\ LogWalkStep(h, n, f, d) = <<s>> \o f[d - s.len]
        BY <3>5 DEF LogWalkStep
      <4> HIDE DEF s
      <4>2. d - s.len \in 0..k /\ d - s.len # k BY <2>3, <3>1, <3>2, <3>5
      <4>3. f[d - s.len] = g[d - s.len] BY <4>2
      <4> QED BY <4>1, <4>3
    <3> QED BY <3>3, <3>4, <3>5
  <2>9. f = [d \in 0..k |-> LogWalkStep(h, n, f, d)]
    <3>1. ASSUME NEW d \in 0..k PROVE f[d] = LogWalkStep(h, n, f, d)
      <4>1. CASE d = k
        <5>1. f[d] = LogWalkStep(h, n, g, d) BY <4>1
        <5> QED BY <5>1, <2>8
      <4>2. CASE d # k
        <5>1. d \in 0..k - 1 BY <2>3, <4>2
        <5>2. f[d] = g[d] BY <4>2
        <5>3. g[d] = LogWalkStep(h, n, g, d) BY <2>7, <5>1
        <5> QED BY <5>2, <5>3, <2>8
      <4> QED BY <4>1, <4>2
    <3>2. DOMAIN f = 0..k /\ f = [d \in DOMAIN f |-> f[d]] OBVIOUS
    <3> HIDE DEF f
    <3> QED BY <3>1, <3>2, Zenon
  <2>10. Found(k) BY <2>9 DEF Found
  <2> QED BY <2>3, <2>10
<1>4. PICK f : f = [d \in 0..Size |-> LogWalkStep(h, n, f, d)] BY <1>3
<1> QED BY <1>4 DEF LogWalk, LogWalkStep

\* A walk along linked slots, one after the other
LEMMA LogFromIs ==
    ASSUME LogAssumed, NEW n \in Log!Position, NEW h \in LogSlots, LogLinked(h, n)
    PROVE /\ LogFrom(h, n, n) = <<>>
          /\ \A p \in Log!Position : h[p].len # 0 =>
                /\ Log!NextSlot(p, h[p].len) \in Log!Position
                /\ Log!NextSlot(p, h[p].len) = n \/ h[Log!NextSlot(p, h[p].len)].len # 0
                /\ Log!Distance(Log!NextSlot(p, h[p].len), n) = Log!Distance(p, n) - h[p].len
                /\ Log!Distance(Log!NextSlot(p, h[p].len), n) < Log!Distance(p, n)
                /\ LogFrom(h, n, p) = <<h[p]>> \o LogFrom(h, n, Log!NextSlot(p, h[p].len))
<1>1. Size \in Nat BY DEF LogAssumed
<1>2. ASSUME NEW d \in 0..Size PROVE LogWalk(h, n)[d] = LogWalkStep(h, n, LogWalk(h, n), d)
  BY <1>1, LogWalkIs
<1>3. \A p \in Log!Position : Log!Distance(p, n) \in 0..Size - 1 BY <1>1, LogDistanceIs DEF Log!Position
<1>4. LogFrom(h, n, n) = <<>>
  <2>1. Log!Distance(n, n) = 0 BY LogAtDistance
  <2>2. 0 \in 0..Size BY <1>1
  <2>3. LogWalk(h, n)[0] = LogWalkStep(h, n, LogWalk(h, n), 0) BY <1>2, <2>2
  <2>4. LogWalkStep(h, n, LogWalk(h, n), 0) = <<>> BY DEF LogWalkStep
  <2> QED BY <2>1, <2>3, <2>4 DEF LogFrom
<1>5. ASSUME NEW p \in Log!Position, h[p].len # 0
      PROVE  /\ Log!NextSlot(p, h[p].len) \in Log!Position
             /\ Log!Distance(Log!NextSlot(p, h[p].len), n) = Log!Distance(p, n) - h[p].len
             /\ Log!Distance(Log!NextSlot(p, h[p].len), n) < Log!Distance(p, n)
             /\ LogFrom(h, n, p) = <<h[p]>> \o LogFrom(h, n, Log!NextSlot(p, h[p].len))
  <2> DEFINE d == Log!Distance(p, n)
             len == h[p].len
  <2>1. d \in 0..Size /\ 0 < d /\ len <= d /\ len \in Nat /\ len # 0
    BY <1>1, <1>3, <1>5 DEF LogLinked, LogSlots
  <2>2. (n + Size - d) % Size = p BY LogAtDistance
  <2>3. LogWalk(h, n)[d] = LogWalkStep(h, n, LogWalk(h, n), d) BY <1>2, <2>1
  <2>4. LogWalk(h, n)[d] = <<h[p]>> \o LogWalk(h, n)[d - len]
    <3> HIDE DEF d
    <3>1. d # 0 /\ ~(len = 0 \/ len > d) BY <2>1
    <3>2. LogWalkStep(h, n, LogWalk(h, n), d) = <<h[p]>> \o LogWalk(h, n)[d - len]
      BY <2>2, <3>1, Zenon DEF LogWalkStep
    <3> QED BY <2>3, <3>2
  <2>5. len \in 0..Log!Distance(p, n) BY <2>1
  <2>6. Log!NextSlot(p, len) \in Log!Position /\ Log!Distance(Log!NextSlot(p, len), n) = d - len BY <2>5,
      LogNearer
  <2>7. d - len < d BY <2>1
  <2> QED BY <2>4, <2>6, <2>7 DEF LogFrom
<1> QED BY <1>4, <1>5 DEF LogLinked

\* Of some positions one is the nearest to the end.
LEMMA LogNearest ==
    ASSUME LogAssumed, NEW n \in Log!Position, NEW S, S \subseteq Log!Position, S # {}
    PROVE \E p \in S : \A q \in S : Log!Distance(p, n) <= Log!Distance(q, n)
<1> DEFINE T == {Log!Distance(p, n) : p \in S}
<1>1. \A p \in Log!Position : Log!Distance(p, n) \in Nat BY LogDistanceIs DEF Log!Position, LogAssumed
<1>2. T \subseteq Nat /\ T # {} BY <1>1
<1>3. PICK k \in T : \A m \in T : k <= m BY <1>2, LogSmallest
<1> QED BY <1>3

\* What is walked along is a sequence of slots.
LEMMA LogFromTyped ==
    ASSUME LogAssumed, NEW n \in Log!Position, NEW h \in LogSlots, LogLinked(h, n),
        NEW start \in Log!Position,
           start = n \/ h[start].len # 0
    PROVE LogFrom(h, n, start) \in Seq(LogSlot)
<1> DEFINE S == {p \in Log!Position : (p = n \/ h[p].len # 0) /\ LogFrom(h, n, p) \notin Seq(LogSlot)}
<1> SUFFICES ASSUME S # {} PROVE FALSE
  OBVIOUS
<1>1. S \subseteq Log!Position OBVIOUS
<1>2. PICK p \in S : \A q \in S : Log!Distance(p, n) <= Log!Distance(q, n) BY <1>1, LogNearest
<1> HIDE DEF S
<1>3. p \in Log!Position /\ (p = n \/ h[p].len # 0) /\ LogFrom(h, n, p) \notin Seq(LogSlot) BY <1>2 DEF S
<1>4. LogFrom(h, n, n) = <<>> BY LogFromIs
<1>5. p # n /\ h[p].len # 0
  <2>1. <<>> \in Seq(LogSlot) BY EmptySeq
  <2> QED BY <1>3, <1>4, <2>1
<1> DEFINE q == Log!NextSlot(p, h[p].len)
<1>6. /\ q \in Log!Position /\ (q = n \/ h[q].len # 0) /\ Log!Distance(q, n) < Log!Distance(p, n)
      /\ LogFrom(h, n, p) = <<h[p]>> \o LogFrom(h, n, q)
  BY <1>3, <1>5, LogFromIs
<1> HIDE DEF q
<1>7. q \notin S
  <2>1. Log!Distance(q, n) \in Int /\ Log!Distance(p, n) \in Int BY <1>3, <1>6, LogDistanceIs
      DEF Log!Position, LogAssumed
  <2> QED BY <1>2, <1>6, <2>1
<1>8. LogFrom(h, n, q) \in Seq(LogSlot) BY <1>6, <1>7 DEF S
<1>9. h[p] \in LogSlot BY <1>3 DEF LogSlots, LogSlot
<1>10. <<h[p]>> \in Seq(LogSlot) BY <1>9
<1>11. <<h[p]>> \o LogFrom(h, n, q) \in Seq(LogSlot) BY <1>8, <1>10, ConcatProperties
<1> QED BY <1>3, <1>6, <1>11

\* A slot that is reserved at the end comes last.
LEMMA LogAppended ==
    ASSUME LogAssumed, NEW n \in Log!Position, NEW h \in LogSlots, LogLinked(h, n),
           NEW n2 \in Log!Position, NEW h2 \in LogSlots, LogLinked(h2, n2),
           h2[n].len # 0, Log!NextSlot(n, h2[n].len) = n2,
           \A p \in Log!Position : h[p].len # 0 => h2[p] = h[p],
           NEW start \in Log!Position, start = n \/ h[start].len # 0
    PROVE LogFrom(h2, n2, start) = Append(LogFrom(h, n, start), h2[n])
<1> DEFINE S == {p \in Log!Position : (p = n \/ h[p].len # 0) /\ LogFrom(h2, n2, p) # Append(LogFrom(h, n, p), h2[n])}
<1> SUFFICES ASSUME S # {} PROVE FALSE
  OBVIOUS
<1>1. S \subseteq Log!Position OBVIOUS
<1>2. PICK p \in S : \A q \in S : Log!Distance(p, n) <= Log!Distance(q, n) BY <1>1, LogNearest
<1> HIDE DEF S
<1>3. p \in Log!Position /\ (p = n \/ h[p].len # 0)
       /\ LogFrom(h2, n2, p) # Append(LogFrom(h, n, p), h2[n]) BY <1>2 DEF S
<1>4. h2[n] \in LogSlot BY DEF LogSlots, LogSlot
<1>5. p # n
  <2>1. LogFrom(h2, n2, n) = <<h2[n]>> \o LogFrom(h2, n2, n2) /\ LogFrom(h2, n2, n2) = <<>>
      /\ LogFrom(h, n, n) = <<>>
    BY LogFromIs
  <2>2. <<h2[n]>> \o <<>> = Append(<<>>, h2[n]) BY <1>4
  <2> QED BY <1>3, <2>1, <2>2
<1>6. h[p].len # 0 /\ h2[p] = h[p] BY <1>3, <1>5
<1> DEFINE q == Log!NextSlot(p, h[p].len)
<1>7. /\ q \in Log!Position /\ (q = n \/ h[q].len # 0) /\ Log!Distance(q, n) < Log!Distance(p, n)
      /\ LogFrom(h, n, p) = <<h[p]>> \o LogFrom(h, n, q)
  BY <1>3, <1>6, LogFromIs
<1>8. LogFrom(h2, n2, p) = <<h2[p]>> \o LogFrom(h2, n2, Log!NextSlot(p, h2[p].len))
  <2>1. h2[p].len # 0 BY <1>6
  <2> HIDE DEF q
  <2> QED BY <1>3, <2>1, LogFromIs
<1>9. LogFrom(h2, n2, p) = <<h[p]>> \o LogFrom(h2, n2, q) BY <1>6, <1>8
<1> HIDE DEF q
<1>10. q \notin S
  <2>1. Log!Distance(q, n) \in Int /\ Log!Distance(p, n) \in Int BY <1>3, <1>7, LogDistanceIs
      DEF Log!Position, LogAssumed
  <2> QED BY <1>2, <1>7, <2>1
<1>11. LogFrom(h2, n2, q) = Append(LogFrom(h, n, q), h2[n]) BY <1>7, <1>10 DEF S
<1>12. LogFrom(h, n, q) \in Seq(LogSlot) /\ h[p] \in LogSlot BY <1>3, <1>7, LogFromTyped DEF LogSlots,
    LogSlot
<1>13. \A s \in Seq(LogSlot), a, e \in LogSlot : <<a>> \o Append(s, e) = Append(<<a>> \o s, e)
  OBVIOUS
<1>14. LogFrom(h2, n2, p) = Append(LogFrom(h, n, p), h2[n]) BY <1>4, <1>7, <1>9, <1>11, <1>12, <1>13
<1> QED BY <1>3, <1>14

\* What is nearer than a slot that changes does not change.
LEMMA LogNotReached ==
    ASSUME LogAssumed, NEW n \in Log!Position, NEW h \in LogSlots, LogLinked(h, n),
           NEW h2 \in LogSlots, LogLinked(h2, n), NEW changed \in Log!Position,
           \A p \in Log!Position : p # changed => h2[p] = h[p],
           NEW start \in Log!Position, start = n \/ h[start].len # 0,
               Log!Distance(start, n) < Log!Distance(changed, n)
    PROVE LogFrom(h2, n, start) = LogFrom(h, n, start)
<1> DEFINE S == {p \in Log!Position : /\ p = n \/ h[p].len # 0
                                  /\ Log!Distance(p, n) < Log!Distance(changed, n)
                                  /\ LogFrom(h2, n, p) # LogFrom(h, n, p)}
<1> SUFFICES ASSUME S # {} PROVE FALSE
  OBVIOUS
<1>1. S \subseteq Log!Position OBVIOUS
<1>2. PICK p \in S : \A q \in S : Log!Distance(p, n) <= Log!Distance(q, n) BY <1>1, LogNearest
<1> HIDE DEF S
<1>3. /\ p \in Log!Position /\ (p = n \/ h[p].len # 0) /\ Log!Distance(p, n) < Log!Distance(changed, n)
      /\ LogFrom(h2, n, p) # LogFrom(h, n, p)
  BY <1>2 DEF S
<1>4. p # n
  <2>1. LogFrom(h2, n, n) = <<>> /\ LogFrom(h, n, n) = <<>> BY LogFromIs
  <2> QED BY <1>3, <2>1
<1>5. \A q \in Log!Position : Log!Distance(q, n) \in Int BY LogDistanceIs DEF Log!Position, LogAssumed
<1>6. h[p].len # 0 /\ h2[p] = h[p]
  <2>1. p # changed BY <1>3, <1>5
  <2> QED BY <1>3, <1>4, <2>1
<1> DEFINE q == Log!NextSlot(p, h[p].len)
<1>7. /\ q \in Log!Position /\ (q = n \/ h[q].len # 0) /\ Log!Distance(q, n) < Log!Distance(p, n)
      /\ LogFrom(h, n, p) = <<h[p]>> \o LogFrom(h, n, q)
  BY <1>3, <1>6, LogFromIs
<1>8. LogFrom(h2, n, p) = <<h2[p]>> \o LogFrom(h2, n, Log!NextSlot(p, h2[p].len))
  <2>1. h2[p].len # 0 BY <1>6
  <2> HIDE DEF q
  <2> QED BY <1>3, <2>1, LogFromIs
<1>9. LogFrom(h2, n, p) = <<h[p]>> \o LogFrom(h2, n, q) BY <1>6, <1>8
<1> HIDE DEF q
<1>10. q \notin S /\ Log!Distance(q, n) < Log!Distance(changed, n) BY <1>2, <1>3, <1>5, <1>7
<1>11. LogFrom(h2, n, q) = LogFrom(h, n, q) BY <1>7, <1>10 DEF S
<1> QED BY <1>3, <1>7, <1>9, <1>11

\* A sequence with one more element in front
LEMMA LogPrefixed ==
    ASSUME NEW T, NEW s \in Seq(T), NEW a \in T
    PROVE /\ <<a>> \o s \in Seq(T) /\ Len(<<a>> \o s) = Len(s) + 1 /\ Len(s) \in Nat
          /\ (<<a>> \o s)[1] = a
          /\ \A k \in 1..Len(s) : k + 1 \in 1..Len(<<a>> \o s) /\ (<<a>> \o s)[k + 1] = s[k]
          /\ \A k \in 2..Len(s) + 1 : (<<a>> \o s)[k] = s[k - 1]
<1>1. <<a>> \in Seq(T) /\ Len(<<a>>) = 1 /\ <<a>>[1] = a OBVIOUS
<1>2. Len(s) \in Nat BY LenProperties
<1>3. /\ <<a>> \o s \in Seq(T) /\ Len(<<a>> \o s) = 1 + Len(s)
      /\ \A i \in 1..1 + Len(s) : (<<a>> \o s)[i] = IF i <= 1 THEN <<a>>[i] ELSE s[i - 1]
  BY <1>1, ConcatProperties
<1> QED BY <1>1, <1>2, <1>3

\* Changing the first element of a sequence is prefixing the rest with another one.
LEMMA LogPrefixedFirst ==
    ASSUME NEW T, NEW s \in Seq(T), NEW a \in T, NEW b \in T
    PROVE <<b>> \o s = [<<a>> \o s EXCEPT ![1] = b]
<1> DEFINE t == <<a>> \o s
<1>1. /\ t \in Seq(T) /\ Len(t) = Len(s) + 1 /\ Len(s) \in Nat /\ t[1] = a
      /\ \A k \in 2..Len(s) + 1 : t[k] = s[k - 1]
  BY LogPrefixed
<1> HIDE DEF t
<1>2. <<b>> \o s = [t EXCEPT ![1] = b]
  <2> DEFINE u == <<b>> \o s
             v == [t EXCEPT ![1] = b]
  <2>1. /\ u \in Seq(T) /\ Len(u) = Len(s) + 1 /\ u[1] = b
        /\ \A k \in 2..Len(s) + 1 : u[k] = s[k - 1]
    BY LogPrefixed
  <2>2. 1 \in 1..Len(t) BY <1>1
  <2>3. /\ v \in Seq(T) /\ Len(v) = Len(t)
        /\ \A j \in 1..Len(t) : v[j] = IF j = 1 THEN b ELSE t[j]
    BY <1>1, <2>2, ExceptSeq
  <2> HIDE DEF u, v
  <2>4. ASSUME NEW j \in 1..Len(u) PROVE u[j] = v[j]
    <3>1. j = 1 \/ j \in 2..Len(s) + 1 BY <1>1, <2>1
    <3> QED BY <1>1, <2>1, <2>3, <3>1
  <2>5. u = v BY <1>1, <2>1, <2>3, <2>4, SeqEqual
  <2> QED BY <2>5 DEF u, v
<1> QED BY <1>2 DEF t

\* A change of the rest of a sequence is a change of the sequence.
LEMMA LogPrefixedExcept ==
    ASSUME NEW T, NEW s \in Seq(T), NEW a \in T, NEW b \in T
    PROVE \A k \in 1..Len(s) : <<a>> \o [s EXCEPT ![k] = b] = [<<a>> \o s EXCEPT ![k + 1] = b]
<1> DEFINE t == <<a>> \o s
<1>1. /\ t \in Seq(T) /\ Len(t) = Len(s) + 1 /\ Len(s) \in Nat /\ t[1] = a
      /\ \A k \in 2..Len(s) + 1 : t[k] = s[k - 1]
  BY LogPrefixed
<1> HIDE DEF t
<1>3. ASSUME NEW k \in 1..Len(s) PROVE <<a>> \o [s EXCEPT ![k] = b] = [t EXCEPT ![k + 1] = b]
  <2> DEFINE r == [s EXCEPT ![k] = b]
             u == <<a>> \o r
             v == [t EXCEPT ![k + 1] = b]
  <2>1. r \in Seq(T) /\ Len(r) = Len(s) /\ \A j \in 1..Len(s) : r[j] = IF j = k THEN b ELSE s[j]
    BY ExceptSeq
  <2> HIDE DEF r
  <2>2. /\ u \in Seq(T) /\ Len(u) = Len(r) + 1 /\ u[1] = a
        /\ \A j \in 2..Len(r) + 1 : u[j] = r[j - 1]
    BY <2>1, LogPrefixed
  <2>3. k + 1 \in 1..Len(t) /\ k \in Nat BY <1>1
  <2>4. /\ v \in Seq(T) /\ Len(v) = Len(t)
        /\ \A j \in 1..Len(t) : v[j] = IF j = k + 1 THEN b ELSE t[j]
    BY <1>1, <2>3, ExceptSeq
  <2> HIDE DEF u, v
  <2>5. ASSUME NEW j \in 1..Len(u) PROVE u[j] = v[j]
    <3>1. j = 1 \/ (j \in 2..Len(s) + 1 /\ j - 1 \in 1..Len(s)) BY <1>1, <2>1, <2>2
    <3>2. CASE j = 1 BY <1>1, <2>2, <2>3, <2>4, <3>2
    <3>3. CASE j \in 2..Len(s) + 1 /\ j - 1 \in 1..Len(s)
      <4>1. u[j] = r[j - 1] /\ t[j] = s[j - 1] BY <1>1, <2>1, <2>2, <3>3
      <4>2. r[j - 1] = IF j - 1 = k THEN b ELSE s[j - 1] BY <2>1, <3>3
      <4>3. v[j] = IF j = k + 1 THEN b ELSE t[j] BY <1>1, <2>1, <2>2, <2>4
      <4> QED BY <2>3, <3>3, <4>1, <4>2, <4>3
    <3> QED BY <3>1, <3>2, <3>3
  <2>6. u = v BY <1>1, <2>1, <2>2, <2>4, <2>5, SeqEqual
  <2> QED BY <2>6 DEF u, v, r
<1> QED BY <1>3 DEF t

\* A slot that changes but for its length changes where it is in the walk, and nowhere else.
LEMMA LogChanged ==
    ASSUME LogAssumed, NEW n \in Log!Position, NEW h \in LogSlots, LogLinked(h, n),
           NEW h2 \in LogSlots, LogLinked(h2, n), NEW changed \in Log!Position,
           \A p \in Log!Position : p # changed => h2[p] = h[p],
           h[changed].len # 0, h2[changed].len = h[changed].len,
           \A p \in Log!Position : h[p].len # 0 /\ Log!Distance(changed, n) < Log!Distance(p, n)
                => Log!Distance(changed, n) <= Log!Distance(p, n) - h[p].len,
           NEW start \in Log!Position, h[start].len # 0, Log!Distance(changed, n) <= Log!Distance(start, n)
    PROVE \E i \in 1..Len(LogFrom(h, n, start)) :
            /\ LogFrom(h, n, start)[i] = h[changed]
            /\ LogFrom(h2, n, start) = [LogFrom(h, n, start) EXCEPT ![i] = h2[changed]]
            /\ i = 1 <=> start = changed
<1> DEFINE Place(p, i) ==
            /\ LogFrom(h, n, p)[i] = h[changed]
            /\ LogFrom(h2, n, p) = [LogFrom(h, n, p) EXCEPT ![i] = h2[changed]]
            /\ i = 1 <=> p = changed
           Holds(p) == \E i \in 1..Len(LogFrom(h, n, p)) : Place(p, i)
           S == {p \in Log!Position : h[p].len # 0 /\ Log!Distance(changed, n) <= Log!Distance(p, n) /\ ~Holds(p)}
<1> HIDE DEF Holds
<1> SUFFICES ASSUME S # {} PROVE FALSE
  BY DEF Holds
<1>1. S \subseteq Log!Position OBVIOUS
<1>2. PICK p \in S : \A q \in S : Log!Distance(p, n) <= Log!Distance(q, n) BY <1>1, LogNearest
<1> HIDE DEF S
<1>3. p \in Log!Position /\ h[p].len # 0 /\ Log!Distance(changed, n) <= Log!Distance(p, n)
    /\ ~Holds(p) BY <1>2 DEF S
<1>4. \A q \in Log!Position : Log!Distance(q, n) \in Int BY LogDistanceIs DEF Log!Position, LogAssumed
<1> DEFINE q == Log!NextSlot(p, h[p].len)
<1>5. /\ q \in Log!Position /\ (q = n \/ h[q].len # 0) /\ Log!Distance(q, n) < Log!Distance(p, n)
      /\ Log!Distance(q, n) = Log!Distance(p, n) - h[p].len
      /\ LogFrom(h, n, p) = <<h[p]>> \o LogFrom(h, n, q)
  BY <1>3, LogFromIs
<1>6. h2[p].len = h[p].len BY <1>3
<1>7. LogFrom(h2, n, p) = <<h2[p]>> \o LogFrom(h2, n, Log!NextSlot(p, h2[p].len)) BY <1>3, <1>6, LogFromIs
<1>8. LogFrom(h2, n, p) = <<h2[p]>> \o LogFrom(h2, n, q) BY <1>6, <1>7
<1> HIDE DEF q
<1>9. /\ LogFrom(h, n, q) \in Seq(LogSlot) /\ h[p] \in LogSlot /\ h2[p] \in LogSlot
      /\ h2[changed] \in LogSlot
  BY <1>3, <1>5, LogFromTyped DEF LogSlots, LogSlot
<1>10. CASE p = changed
  <2>1. LogFrom(h2, n, q) = LogFrom(h, n, q) BY <1>5, <1>10, LogNotReached
  <2> DEFINE s == LogFrom(h, n, q)
  <2>2. Len(<<h[p]>> \o s) = Len(s) + 1 /\ Len(s) \in Nat /\ (<<h[p]>> \o s)[1] = h[p]
    BY <1>9, LogPrefixed
  <2>3. 1 \in 1..Len(LogFrom(h, n, p)) /\ LogFrom(h, n, p)[1] = h[changed] BY <1>5, <1>10, <2>2
  <2>4. <<h2[p]>> \o s = [<<h[p]>> \o s EXCEPT ![1] = h2[p]]
    <3> DEFINE a == h[p]
               b == h2[p]
    <3>1. s \in Seq(LogSlot) /\ a \in LogSlot /\ b \in LogSlot BY <1>9
    <3> HIDE DEF s, a, b
    <3>2. <<b>> \o s = [<<a>> \o s EXCEPT ![1] = b] BY <3>1, LogPrefixedFirst
    <3> QED BY <3>2 DEF a, b
  <2>5. LogFrom(h2, n, p) = [LogFrom(h, n, p) EXCEPT ![1] = h2[changed]] BY <1>5, <1>8, <1>10, <2>1, <2>4
  <2> QED BY <1>3, <1>10, <2>3, <2>5 DEF Holds
<1>11. CASE p # changed
  <2>1. Log!Distance(changed, n) # Log!Distance(p, n) BY <1>3, <1>11, LogAtDistance
  <2>2. Log!Distance(changed, n) < Log!Distance(p, n) BY <1>3, <1>4, <2>1
  <2>3. Log!Distance(changed, n) <= Log!Distance(q, n) BY <1>3, <1>5, <2>2
  <2>4. q # n
    <3>1. 0 < Log!Distance(changed, n) BY DEF LogLinked
    <3>2. Log!Distance(n, n) = 0 BY LogAtDistance
    <3> QED BY <1>4, <1>5, <2>3, <3>1, <3>2
  <2>5. q \notin S BY <1>2, <1>3, <1>4, <1>5
  <2>6. Holds(q) BY <1>5, <2>3, <2>4, <2>5 DEF S
  <2>7. PICK i \in 1..Len(LogFrom(h, n, q)) : Place(q, i) BY <2>6 DEF Holds
  <2> DEFINE s == LogFrom(h, n, q)
  <2>8. h2[p] = h[p] BY <1>3, <1>11
  <2>9. /\ i + 1 \in 1..Len(<<h[p]>> \o s) /\ (<<h[p]>> \o s)[i + 1] = s[i]
    BY <1>9, <2>7, LogPrefixed
  <2>10. i + 1 \in 1..Len(LogFrom(h, n, p)) /\ LogFrom(h, n, p)[i + 1] = h[changed]
    BY <1>5, <2>7, <2>9
  <2>11. <<h[p]>> \o [s EXCEPT ![i] = h2[changed]] = [<<h[p]>> \o s EXCEPT ![i + 1] = h2[changed]]
    <3> DEFINE a == h[p]
               b == h2[changed]
    <3>1. s \in Seq(LogSlot) /\ i \in 1..Len(s) /\ a \in LogSlot /\ b \in LogSlot BY <1>9, <2>7
    <3> HIDE DEF s, a, b
    <3>2. <<a>> \o [s EXCEPT ![i] = b] = [<<a>> \o s EXCEPT ![i + 1] = b] BY <3>1, LogPrefixedExcept
    <3> QED BY <3>2 DEF a, b
  <2>12. LogFrom(h2, n, p) = [LogFrom(h, n, p) EXCEPT ![i + 1] = h2[changed]]
    BY <1>5, <1>8, <2>7, <2>8, <2>11
  <2>13. i + 1 # 1
    <3>1. i \in Nat /\ i # 0 BY <1>9, <2>7, LenProperties
    <3> QED BY <3>1
  <2> QED BY <1>3, <1>11, <2>10, <2>12, <2>13 DEF Holds
<1> QED BY <1>10, <1>11

-----------------------------------------------------------------------------
\* A slot as the queue has it
LogEntry(s) == [rec |-> s.rec, done |-> ~s.busy]
LogEntries  == [rec : Log!Record \cup {Log!NoRecord}, done : BOOLEAN]
LogView(w)  == [i \in DOMAIN w |-> LogEntry(w[i])]
LogHeld     == IF recorder = "end" THEN Tail(Log!Queue) ELSE Log!Queue

\* A record that differs from another one in that it is done
LEMMA LogEnded ==
    ASSUME NEW x \in LogEntries, NEW y \in LogEntries, y.rec = x.rec, y.done
    PROVE y = [x EXCEPT !.done = TRUE]
BY DEF LogEntries

\* The view of a sequence of slots has the same length and, at each place, the entry of the slot.
LEMMA LogViewIs ==
    ASSUME NEW w \in Seq(LogSlot)
    PROVE /\ LogView(w) \in Seq(LogEntries) /\ Len(LogView(w)) = Len(w) /\ Len(w) \in Nat
          /\ \A i \in 1..Len(w) : w[i] \in LogSlot /\ LogView(w)[i] = LogEntry(w[i])
<1>1. Len(w) \in Nat /\ DOMAIN w = 1..Len(w) /\ \A i \in 1..Len(w) : w[i] \in LogSlot OBVIOUS
<1>2. \A s \in LogSlot : LogEntry(s) \in LogEntries BY DEF LogSlot, LogEntry, LogEntries
<1>3. LogView(w) = [i \in 1..Len(w) |-> LogEntry(w[i])] BY <1>1 DEF LogView
<1>4. LogView(w) \in [1..Len(w) -> LogEntries] BY <1>1, <1>2, <1>3
<1> QED BY <1>1, <1>3, <1>4

\* It is appended to as the slots are,
LEMMA LogViewAppend ==
    ASSUME NEW w \in Seq(LogSlot), NEW s \in LogSlot
    PROVE LogView(Append(w, s)) = Append(LogView(w), LogEntry(s))
<1> DEFINE u == LogView(Append(w, s))
           v == Append(LogView(w), LogEntry(s))
<1>1. /\ LogView(w) \in Seq(LogEntries) /\ Len(LogView(w)) = Len(w) /\ Len(w) \in Nat
      /\ \A i \in 1..Len(w) : LogView(w)[i] = LogEntry(w[i])
  BY LogViewIs
<1>2. /\ Append(w, s) \in Seq(LogSlot) /\ Len(Append(w, s)) = Len(w) + 1
      /\ \A i \in 1..Len(w) : Append(w, s)[i] = w[i]
      /\ Append(w, s)[Len(w) + 1] = s
  BY AppendProperties
<1>3. /\ u \in Seq(LogEntries) /\ Len(u) = Len(w) + 1
      /\ \A i \in 1..Len(w) + 1 : u[i] = LogEntry(Append(w, s)[i])
  BY <1>2, LogViewIs
<1>4. LogEntry(s) \in LogEntries BY DEF LogSlot, LogEntry, LogEntries
<1>5. /\ v \in Seq(LogEntries) /\ Len(v) = Len(w) + 1
      /\ \A i \in 1..Len(w) : v[i] = LogView(w)[i]
      /\ v[Len(w) + 1] = LogEntry(s)
  BY <1>1, <1>4, AppendProperties
<1> HIDE DEF u, v
<1>6. ASSUME NEW i \in 1..Len(u) PROVE u[i] = v[i]
  <2>1. i \in 1..Len(w) \/ i = Len(w) + 1 BY <1>1, <1>3
  <2>2. i \in 1..Len(w) + 1 BY <1>3
  <2> QED BY <1>1, <1>2, <1>3, <1>5, <2>1, <2>2
<1>7. u = v BY <1>3, <1>5, <1>6, SeqEqual
<1> QED BY <1>7 DEF u, v

\* it has a first element and a rest as they have,
LEMMA LogViewPrefixed ==
    ASSUME NEW w \in Seq(LogSlot), NEW s \in LogSlot
    PROVE /\ LogView(<<s>> \o w) # <<>>
          /\ Head(LogView(<<s>> \o w)) = LogEntry(s)
          /\ Tail(LogView(<<s>> \o w)) = LogView(w)
<1> DEFINE t == <<s>> \o w
           u == LogView(t)
           v == Tail(u)
<1>1. /\ t \in Seq(LogSlot) /\ Len(t) = Len(w) + 1 /\ Len(w) \in Nat /\ t[1] = s
      /\ \A k \in 1..Len(w) : t[k + 1] = w[k]
  BY LogPrefixed
<1> HIDE DEF t
<1>2. u \in Seq(LogEntries) /\ Len(u) = Len(t) /\ \A i \in 1..Len(t) : u[i] = LogEntry(t[i])
  BY <1>1, LogViewIs
<1>3. /\ LogView(w) \in Seq(LogEntries) /\ Len(LogView(w)) = Len(w)
      /\ \A i \in 1..Len(w) : LogView(w)[i] = LogEntry(w[i])
  BY LogViewIs
<1> HIDE DEF u
<1>4. u # <<>>
  <2>1. Len(<<>>) = 0 OBVIOUS
  <2>2. Len(u) # 0 BY <1>1, <1>2
  <2> QED BY <2>1, <2>2
<1>5. Head(u) = LogEntry(s)
  <2>1. 1 \in 1..Len(t) BY <1>1
  <2>2. u[1] = LogEntry(s) BY <1>1, <1>2, <2>1
  <2> QED BY <2>2
<1>6. v \in Seq(LogEntries) /\ Len(v) = Len(u) - 1 /\ \A i \in 1..Len(v) : v[i] = u[i + 1]
  BY <1>2, <1>4, HeadTailProperties
<1> HIDE DEF v
<1>7. Len(v) = Len(w) BY <1>1, <1>2, <1>6
<1>8. ASSUME NEW i \in 1..Len(v) PROVE v[i] = LogView(w)[i]
  <2>1. i \in 1..Len(w) /\ i + 1 \in 1..Len(t) BY <1>1, <1>7
  <2>2. v[i] = u[i + 1] BY <1>6
  <2>3. u[i + 1] = LogEntry(t[i + 1]) /\ t[i + 1] = w[i] BY <1>1, <1>2, <2>1
  <2> QED BY <1>3, <2>1, <2>2, <2>3
<1>9. v = LogView(w) BY <1>3, <1>6, <1>7, <1>8, SeqEqual
<1> QED BY <1>4, <1>5, <1>9 DEF t, u, v

\* and changes where they change.
LEMMA LogViewExcept ==
    ASSUME NEW w \in Seq(LogSlot), NEW s \in LogSlot, NEW i \in 1..Len(w)
    PROVE LogView([w EXCEPT ![i] = s]) = [LogView(w) EXCEPT ![i] = LogEntry(s)]
<1> DEFINE e == LogEntry(s)
           t == [w EXCEPT ![i] = s]
           u == LogView(t)
           q == LogView(w)
           v == [q EXCEPT ![i] = e]
<1>1. t \in Seq(LogSlot) /\ Len(t) = Len(w) /\ \A j \in 1..Len(w) : t[j] = IF j = i THEN s ELSE w[j]
  BY ExceptSeq
<1>2. e \in LogEntries BY DEF LogSlot, LogEntry, LogEntries
<1> HIDE DEF t, e
<1>3. u \in Seq(LogEntries) /\ Len(u) = Len(t) /\ \A j \in 1..Len(t) : u[j] = LogEntry(t[j])
  BY <1>1, LogViewIs
<1>4. q \in Seq(LogEntries) /\ Len(q) = Len(w) /\ \A j \in 1..Len(w) : q[j] = LogEntry(w[j])
  BY LogViewIs
<1> HIDE DEF q
<1>5. i \in 1..Len(q) BY <1>4
<1>6. v \in Seq(LogEntries) /\ Len(v) = Len(q) /\ \A j \in 1..Len(q) : v[j] = IF j = i THEN e ELSE q[j]
  BY <1>2, <1>4, <1>5, ExceptSeq
<1> HIDE DEF u, v
<1>7. ASSUME NEW j \in 1..Len(u) PROVE u[j] = v[j]
  <2>1. j \in 1..Len(w) /\ j \in 1..Len(t) /\ j \in 1..Len(q) BY <1>1, <1>3, <1>4
  <2>2. u[j] = LogEntry(t[j]) /\ q[j] = LogEntry(w[j]) BY <1>3, <1>4, <2>1
  <2>3. CASE j = i BY <1>1, <1>6, <2>1, <2>2, <2>3 DEF e
  <2>4. CASE j # i BY <1>1, <1>6, <2>1, <2>2, <2>4
  <2> QED BY <2>3, <2>4
<1>8. u = v BY <1>1, <1>3, <1>4, <1>6, <1>7, SeqEqual
<1> QED BY <1>8 DEF u, v, t, q, e

\* The rest of a sequence that changes after its first element
LEMMA LogTailExcept ==
    ASSUME NEW T, NEW s \in Seq(T), NEW b \in T, NEW i \in 2..Len(s)
    PROVE /\ i - 1 \in 1..Len(Tail(s)) /\ Tail(s)[i - 1] = s[i]
          /\ Tail([s EXCEPT ![i] = b]) = [Tail(s) EXCEPT ![i - 1] = b]
<1> DEFINE r == [s EXCEPT ![i] = b]
           t == Tail(s)
           u == Tail(r)
           v == [t EXCEPT ![i - 1] = b]
<1>1. Len(s) \in Nat /\ i \in 1..Len(s) /\ i \in Nat /\ i # 1
  <2>1. Len(s) \in Nat BY LenProperties
  <2> QED BY <2>1
<1>2. r \in Seq(T) /\ Len(r) = Len(s) /\ \A j \in 1..Len(s) : r[j] = IF j = i THEN b ELSE s[j]
  BY <1>1, ExceptSeq
<1> HIDE DEF r
<1>3. s # <<>> /\ r # <<>>
  <2>1. Len(<<>>) = 0 OBVIOUS
  <2>2. Len(s) # 0 /\ Len(r) # 0 BY <1>1, <1>2
  <2> QED BY <2>1, <2>2
<1>4. t \in Seq(T) /\ Len(t) = Len(s) - 1 /\ \A j \in 1..Len(t) : t[j] = s[j + 1]
  BY <1>3, HeadTailProperties
<1>5. u \in Seq(T) /\ Len(u) = Len(r) - 1 /\ \A j \in 1..Len(u) : u[j] = r[j + 1]
  BY <1>2, <1>3, HeadTailProperties
<1> HIDE DEF t, u
<1>6. i - 1 \in 1..Len(t) BY <1>1, <1>4
<1>7. v \in Seq(T) /\ Len(v) = Len(t) /\ \A j \in 1..Len(t) : v[j] = IF j = i - 1 THEN b ELSE t[j]
  BY <1>4, <1>6, ExceptSeq
<1> HIDE DEF v
<1>8. ASSUME NEW j \in 1..Len(u) PROVE u[j] = v[j]
  <2>1. j \in 1..Len(t) /\ j + 1 \in 1..Len(s) /\ j \in Int BY <1>1, <1>2, <1>4, <1>5
  <2>2. u[j] = r[j + 1] /\ t[j] = s[j + 1] BY <1>4, <1>5, <2>1
  <2>3. r[j + 1] = IF j + 1 = i THEN b ELSE s[j + 1] BY <1>2, <2>1
  <2>4. v[j] = IF j = i - 1 THEN b ELSE t[j] BY <1>7, <2>1
  <2>5. j + 1 = i <=> j = i - 1 BY <1>1, <2>1
  <2> QED BY <2>2, <2>3, <2>4, <2>5
<1>9. u = v BY <1>2, <1>4, <1>5, <1>7, <1>8, SeqEqual
<1>10. t[i - 1] = s[i]
  <2>1. t[i - 1] = s[i - 1 + 1] BY <1>4, <1>6
  <2>2. i - 1 + 1 = i BY <1>1
  <2> QED BY <2>1, <2>2
<1> QED BY <1>6, <1>9, <1>10 DEF r, t, u, v

\* The queue is a walk from ready_read_slot to new_write_slot.
LEMMA LogQueueIs == Log!Queue = LogView(LogFrom(head, newWrite, readyRead))
BY DEF Log!Queue, LogView, LogEntry, LogFrom, LogWalk

\* The same after a step
LEMMA LogQueueIsThen == Log!Queue' = LogView(LogFrom(head', newWrite', readyRead'))
BY DEF Log!Queue, LogView, LogEntry, LogFrom, LogWalk

\* What the invariant says of the walk
LEMMA LogWalked ==
    ASSUME LogAssumed, LogIInv
    PROVE /\ newWrite \in Log!Position /\ readyRead \in Log!Position /\ doneWrite \in Log!Position
          /\ head \in LogSlots
          /\ LogLinked(head, newWrite)
          /\ readyRead = newWrite \/ head[readyRead].len # 0
          /\ LogFrom(head, newWrite, readyRead) \in Seq(LogSlot)
<1>1. /\ newWrite \in Log!Position /\ readyRead \in Log!Position /\ doneWrite \in Log!Position
      /\ head \in LogSlots
      /\ readyRead = newWrite \/ head[readyRead].len # 0
  BY DEF LogIInv, LogTypeInv, LogChainInv, LogBoundary, LogStarts
<1>2. LogLinked(head, newWrite)
  BY DEF LogIInv, LogChainInv, LogLinked, LogBoundary, LogStarts, LogBack
<1> QED BY <1>1, <1>2, LogFromTyped

\* The same after a step
LEMMA LogWalkedThen ==
    ASSUME LogAssumed, LogIInv'
    PROVE /\ newWrite' \in Log!Position /\ head' \in LogSlots /\ LogLinked(head', newWrite')
          /\ readyRead' \in Log!Position
<1>1. newWrite' \in Log!Position /\ head' \in LogSlots /\ readyRead' \in Log!Position
  BY DEF LogIInv, LogTypeInv
<1>2. LogLinked(head', newWrite')
  BY DEF LogIInv, LogChainInv, LogLinked, LogBoundary, LogStarts, LogBack
<1> QED BY <1>1, <1>2

\* Of what is read there is a slot, and it is not busy.
LEMMA LogReadSlot ==
    ASSUME LogAssumed, LogIInv, readyRead # doneWrite
    PROVE /\ head[readyRead].len # 0 /\ ~head[readyRead].busy
          /\ \A w \in Writers : LogWriting(w) => LogBack(slot[w]) < LogBack(readyRead)
          /\ Log!NextSlot(readyRead, head[readyRead].len) \in Log!Position
          /\ LogFrom(head, newWrite, Log!NextSlot(readyRead, head[readyRead].len)) \in Seq(LogSlot)
          /\ Log!Distance(Log!NextSlot(readyRead, head[readyRead].len), newWrite) < LogBack(readyRead)
          /\ LogFrom(head, newWrite, readyRead)
                = <<head[readyRead]>> \o LogFrom(head, newWrite, Log!NextSlot(readyRead, head[readyRead].len))
          /\ Log!Queue # <<>> /\ Head(Log!Queue) = LogEntry(head[readyRead])
          /\ Tail(Log!Queue) = LogView(LogFrom(head, newWrite, Log!NextSlot(readyRead, head[readyRead].len)))
<1>1. /\ newWrite \in Log!Position /\ readyRead \in Log!Position /\ doneWrite \in Log!Position
      /\ head \in LogSlots
      /\ LogLinked(head, newWrite) /\ (readyRead = newWrite \/ head[readyRead].len # 0)
  BY LogWalked
<1>2. \A p \in Log!Position : LogBack(p) \in Nat
  <2>1. Size \in Nat BY DEF LogAssumed
  <2>2. \A p \in Log!Position : LogBack(p) \in 0..Size - 1 BY <1>1, LogDistanceIs DEF LogBack, Log!Position
  <2> QED BY <2>1, <2>2
<1>3. LogBack(doneWrite) <= LogBack(readyRead) BY DEF LogIInv, LogChainInv
<1>4. LogBack(doneWrite) # LogBack(readyRead) BY <1>1, LogAtDistance DEF LogBack
<1>5. LogBack(doneWrite) < LogBack(readyRead)
  <2>1. LogBack(doneWrite) \in Nat /\ LogBack(readyRead) \in Nat BY <1>1, <1>2
  <2> QED BY <1>3, <1>4, <2>1
<1>6. head[readyRead].len # 0
  <2>1. Log!Distance(newWrite, newWrite) = 0 BY <1>1, LogAtDistance
  <2>2. LogBack(doneWrite) \in Nat BY <1>1, <1>2
  <2> QED BY <1>1, <1>5, <2>1, <2>2 DEF LogBack
<1>7. ASSUME NEW w \in Writers, LogWriting(w) PROVE LogBack(slot[w]) < LogBack(readyRead)
  <2>1. slot[w] \in Log!Position BY DEF LogIInv, LogTypeInv
  <2>2. LogBack(slot[w]) \in Nat /\ LogBack(doneWrite) \in Nat /\ LogBack(readyRead) \in Nat BY <1>1, <1>2,
      <2>1
  <2>3. LogBack(slot[w]) <= LogBack(doneWrite) BY <1>7 DEF LogIInv, LogWritersInv
  <2> QED BY <1>5, <2>2, <2>3
<1>8. ~head[readyRead].busy
  <2> SUFFICES ASSUME head[readyRead].busy PROVE FALSE
    OBVIOUS
  <2>1. PICK w \in Writers : LogWriting(w) /\ slot[w] = readyRead BY <1>1 DEF LogIInv, LogWritersInv
  <2>2. LogBack(readyRead) < LogBack(readyRead) BY <1>7, <2>1
  <2>3. LogBack(readyRead) \in Nat BY <1>1, <1>2
  <2> QED BY <2>2, <2>3
<1> DEFINE next == Log!NextSlot(readyRead, head[readyRead].len)
<1>9. /\ next \in Log!Position /\ (next = newWrite \/ head[next].len # 0)
      /\ Log!Distance(next, newWrite) < Log!Distance(readyRead, newWrite)
      /\ LogFrom(head, newWrite, readyRead) = <<head[readyRead]>> \o LogFrom(head, newWrite, next)
  BY <1>1, <1>6, LogFromIs
<1> HIDE DEF next
<1>10. LogFrom(head, newWrite, next) \in Seq(LogSlot) BY <1>1, <1>9, LogFromTyped
<1>11. head[readyRead] \in LogSlot BY <1>1 DEF LogSlots, LogSlot
<1> DEFINE w == LogFrom(head, newWrite, next)
           s == head[readyRead]
<1>12. Log!Queue = LogView(<<s>> \o w) BY <1>9, LogQueueIs
<1>13. w \in Seq(LogSlot) /\ s \in LogSlot BY <1>10, <1>11
<1> HIDE DEF w, s
<1>14. Log!Queue # <<>> /\ Head(Log!Queue) = LogEntry(s) /\ Tail(Log!Queue) = LogView(w) BY <1>12, <1>13,
    LogViewPrefixed
<1> QED BY <1>6, <1>7, <1>8, <1>9, <1>10, <1>14 DEF w, s, next, LogBack

\* A reserved slot is a record at the end of the queue.
LEMMA LogStartWriteBegins ==
    ASSUME LogAssumed, LogIInv, LogIInv', NEW w \in Writers, Log!StartWrite(w)
    PROVE \E r \in Log!Record : LogHeld' = Append(LogHeld, [rec |-> r, done |-> FALSE])
           /\ message' = message
<1>1. PICK r \in Log!Record :
        /\ head' = [head EXCEPT ![newWrite] = [len |-> Log!RecordLength(r) + 3, busy |-> TRUE, rec |-> r]]
        /\ newWrite' = Log!NextSlot(newWrite, Log!RecordLength(r) + 3)
  BY DEF Log!StartWrite
<1>2. UNCHANGED <<readyRead, recorder, message, doneWrite>> BY DEF Log!StartWrite
<1> DEFINE slots == LogFrom(head, newWrite, readyRead)
           e == [len |-> Log!RecordLength(r) + 3, busy |-> TRUE, rec |-> r]
<1>3. /\ newWrite \in Log!Position /\ readyRead \in Log!Position /\ head \in LogSlots
      /\ LogLinked(head, newWrite) /\ (readyRead = newWrite \/ head[readyRead].len # 0)
      /\ slots \in Seq(LogSlot)
  BY LogWalked
<1>4. newWrite' \in Log!Position /\ head' \in LogSlots /\ LogLinked(head', newWrite') BY LogWalkedThen
<1>5. head'[newWrite] = e /\ \A p \in Log!Position : p # newWrite => head'[p] = head[p]
  BY <1>1, <1>3 DEF LogSlots
<1>6. head'[newWrite].len # 0 /\ Log!NextSlot(newWrite, head'[newWrite].len) = newWrite'
  <2>1. Log!RecordLength(r) \in Nat BY LogRecordLengthIs
  <2>2. Log!RecordLength(r) + 3 # 0 BY <2>1
  <2> QED BY <1>1, <1>5, <2>2
<1>7. \A p \in Log!Position : head[p].len # 0 => head'[p] = head[p]
  <2>1. head[newWrite].len = 0
    <3>1. Log!Distance(newWrite, newWrite) = 0 BY <1>3, LogAtDistance
    <3> QED BY <1>3, <3>1 DEF LogLinked
  <2> QED BY <1>5, <2>1
<1> HIDE DEF slots
<1>8. LogFrom(head', newWrite', readyRead) = Append(slots, head'[newWrite])
  BY <1>3, <1>4, <1>6, <1>7, LogAppended DEF slots
<1>9. head'[newWrite] \in LogSlot BY <1>3, <1>4 DEF LogSlots, LogSlot
<1>10. Log!Queue' = Append(Log!Queue, LogEntry(head'[newWrite]))
  <2>1. Log!Queue' = LogView(Append(slots, head'[newWrite])) BY <1>2, <1>8, LogQueueIsThen
  <2>2. Log!Queue = LogView(slots) BY LogQueueIs DEF slots
  <2>3. LogView(Append(slots, head'[newWrite])) = Append(LogView(slots), LogEntry(head'[newWrite]))
    BY <1>3, <1>9, LogViewAppend
  <2> QED BY <2>1, <2>2, <2>3
<1> DEFINE x == [rec |-> r, done |-> FALSE]
<1>11. LogEntry(head'[newWrite]) = x
  <2>1. head'[newWrite].rec = r /\ head'[newWrite].busy = TRUE BY <1>5
  <2>2. (~TRUE) = FALSE OBVIOUS
  <2> QED BY <2>1, <2>2, Zenon DEF LogEntry
<1>12. Log!Queue' = Append(Log!Queue, x) BY <1>10, <1>11
<1>13. CASE recorder = "end"
  <2>1. Log!Queue # <<>> BY <1>13, LogReadSlot DEF LogIInv, LogReaderInv
  <2>2. Log!Queue \in Seq(LogEntries) BY <1>3, LogQueueIs, LogViewIs DEF slots
  <2> HIDE DEF x
  <2>3. Tail(Append(Log!Queue, x)) = Append(Tail(Log!Queue), x) BY <2>1, <2>2, HeadTailAppend
  <2>4. LogHeld' = Append(LogHeld, x) BY <1>2, <1>12, <1>13, <2>3 DEF LogHeld
  <2> QED BY <1>2, <2>4 DEF x
<1>14. CASE recorder # "end"
  <2>1. LogHeld' = Append(LogHeld, x) BY <1>2, <1>12, <1>14 DEF LogHeld
  <2> QED BY <1>2, <2>1
<1> QED BY <1>13, <1>14

\* Clearing the flag ends the record, wherever in the queue it is.
LEMMA LogClearBusyEnds ==
    ASSUME LogAssumed, LogIInv, LogIInv', NEW w \in Writers, Log!ClearBusy(w)
    PROVE (\E i \in DOMAIN LogHeld : ~LogHeld[i].done /\ LogHeld' = [LogHeld EXCEPT ![i].done = TRUE])
        /\ message' = message
<1> DEFINE c == slot[w]
           slots == LogFrom(head, newWrite, readyRead)
<1>1. /\ logPc[w] = "end" /\ head' = [head EXCEPT ![c].busy = FALSE]
      /\ UNCHANGED <<newWrite, readyRead, recorder, message, doneWrite>>
  BY DEF Log!ClearBusy
<1>2. /\ newWrite \in Log!Position /\ readyRead \in Log!Position /\ doneWrite \in Log!Position
      /\ head \in LogSlots
      /\ LogLinked(head, newWrite) /\ (readyRead = newWrite \/ head[readyRead].len # 0)
      /\ slots \in Seq(LogSlot)
  BY LogWalked
<1>3. head' \in LogSlots /\ LogLinked(head', newWrite) BY <1>1, LogWalkedThen
<1>4. c \in Log!Position /\ LogWriting(w) /\ head[c].busy /\ head[c].len # 0
  BY <1>1 DEF LogIInv, LogTypeInv, LogWritersInv, LogWriting, LogStarts
<1> HIDE DEF c
<1>5. /\ head'[c] = [head[c] EXCEPT !.busy = FALSE]
      /\ \A p \in Log!Position : p # c => head'[p] = head[p]
  BY <1>1, <1>2, <1>4 DEF LogSlots
<1>6. head'[c].len = head[c].len /\ head'[c].rec = head[c].rec /\ head'[c].busy = FALSE
  BY <1>2, <1>4, <1>5 DEF LogSlots
<1>7. head[c].busy = TRUE BY <1>2, <1>4 DEF LogSlots
<1>8. \A p \in Log!Position : head[p].len # 0 /\ Log!Distance(c, newWrite) < Log!Distance(p, newWrite)
            => Log!Distance(c, newWrite) <= Log!Distance(p, newWrite) - head[p].len
  BY <1>4 DEF LogIInv, LogChainInv, LogStarts, LogBack
<1>9. Log!Distance(c, newWrite) <= Log!Distance(readyRead, newWrite) /\ 0 < Log!Distance(c, newWrite)
  BY <1>4 DEF LogIInv, LogChainInv, LogStarts, LogBack
<1>10. head[readyRead].len # 0
  <2>1. Log!Distance(newWrite, newWrite) = 0 BY <1>2, LogAtDistance
  <2>2. Size \in Nat BY DEF LogAssumed
  <2>3. Log!Distance(c, newWrite) \in 0..Size - 1 BY <1>2, <1>4, LogDistanceIs DEF Log!Position
  <2> QED BY <1>2, <1>9, <2>1, <2>2, <2>3
<1>11. \E i \in 1..Len(LogFrom(head, newWrite, readyRead)) :
            /\ LogFrom(head, newWrite, readyRead)[i] = head[c]
            /\ LogFrom(head', newWrite, readyRead) = [LogFrom(head, newWrite, readyRead) EXCEPT ![i] = head'[c]]
            /\ i = 1 <=> readyRead = c
  <2> DEFINE h2 == head'
  <2>1. /\ h2 \in LogSlots /\ LogLinked(h2, newWrite) /\ h2[c].len = head[c].len
        /\ \A p \in Log!Position : p # c => h2[p] = head[p]
    BY <1>3, <1>5, <1>6
  <2>2. newWrite \in Log!Position /\ head \in LogSlots /\ LogLinked(head, newWrite)
      /\ readyRead \in Log!Position
    BY <1>2
  <2> HIDE DEF h2
  <2>3. \E i \in 1..Len(LogFrom(head, newWrite, readyRead)) :
            /\ LogFrom(head, newWrite, readyRead)[i] = head[c]
            /\ LogFrom(h2, newWrite, readyRead) = [LogFrom(head, newWrite, readyRead) EXCEPT ![i] = h2[c]]
            /\ i = 1 <=> readyRead = c
    BY <1>4, <1>8, <1>9, <1>10, <2>1, <2>2, LogChanged
  <2> QED BY <2>3 DEF h2
<1>12. PICK i \in 1..Len(slots) :
            /\ slots[i] = head[c]
            /\ LogFrom(head', newWrite, readyRead) = [slots EXCEPT ![i] = head'[c]]
            /\ i = 1 <=> readyRead = c
  BY <1>11
<1> HIDE DEF slots
<1>13. head'[c] \in LogSlot BY <1>3, <1>4 DEF LogSlots, LogSlot
<1> DEFINE new == LogEntry(head'[c])
           q == Log!Queue
<1>14. q = LogView(slots) BY LogQueueIs DEF slots
<1>15. q \in Seq(LogEntries) /\ Len(q) = Len(slots) /\ q[i] = LogEntry(head[c]) /\ new \in LogEntries
  <2>1. new \in LogEntries BY <1>13 DEF LogSlot, LogEntry, LogEntries
  <2> HIDE DEF q, new
  <2> QED BY <1>2, <1>12, <1>14, <2>1, LogViewIs
<1>16. Log!Queue' = [q EXCEPT ![i] = new]
  <2>1. Log!Queue' = LogView([slots EXCEPT ![i] = head'[c]]) BY <1>1, <1>12, LogQueueIsThen
  <2>2. LogView([slots EXCEPT ![i] = head'[c]]) = [LogView(slots) EXCEPT ![i] = new]
    BY <1>2, <1>12, <1>13, LogViewExcept
  <2> QED BY <1>14, <2>1, <2>2
<1>17. ~q[i].done /\ new = [q[i] EXCEPT !.done = TRUE]
  <2>1. q[i] = [rec |-> head[c].rec, done |-> ~head[c].busy] BY <1>15 DEF LogEntry
  <2>2. q[i] = [rec |-> head[c].rec, done |-> FALSE] BY <1>7, <2>1
  <2>3. new = [rec |-> head[c].rec, done |-> ~head'[c].busy] BY <1>6 DEF LogEntry
  <2>4. new = [rec |-> head[c].rec, done |-> TRUE] BY <1>6, <2>3
  <2> HIDE DEF q, new
  <2>5. ~q[i].done /\ new.rec = q[i].rec /\ new.done BY <2>2, <2>4
  <2>6. q[i] \in LogEntries BY <1>12, <1>15, ElementOfSeq
  <2> QED BY <1>15, <2>5, <2>6, LogEnded
<1> HIDE DEF q, new
<1>18. CASE recorder # "end"
  <2>1. LogHeld = q /\ LogHeld' = [q EXCEPT ![i] = new] BY <1>1, <1>16, <1>18 DEF LogHeld, q
  <2>2. i \in DOMAIN LogHeld BY <1>12, <1>15, <2>1
  <2>3. LogHeld' = [LogHeld EXCEPT ![i].done = TRUE] BY <1>17, <2>1
  <2> QED BY <1>1, <1>17, <2>1, <2>2, <2>3
<1>19. CASE recorder = "end"
  <2>1. readyRead # doneWrite BY <1>19 DEF LogIInv, LogReaderInv
  <2>2. Log!Distance(c, newWrite) < Log!Distance(readyRead, newWrite) BY <1>4, <2>1, LogReadSlot
      DEF LogBack, c
  <2>3. readyRead # c
    <3>1. Size \in Nat BY DEF LogAssumed
    <3>2. Log!Distance(c, newWrite) \in 0..Size - 1 BY <1>2, <1>4, LogDistanceIs DEF Log!Position
    <3> QED BY <2>2, <3>1, <3>2
  <2>4. i \in 2..Len(q)
    <3>1. Len(slots) \in Nat BY <1>2, LenProperties
    <3> QED BY <1>12, <1>15, <2>3, <3>1
  <2>5. /\ i - 1 \in 1..Len(Tail(q)) /\ Tail(q)[i - 1] = q[i]
        /\ Tail([q EXCEPT ![i] = new]) = [Tail(q) EXCEPT ![i - 1] = new]
    BY <1>15, <2>4, LogTailExcept
  <2> DEFINE t == Tail(q)
             k == i - 1
  <2>6. LogHeld = t /\ LogHeld' = [t EXCEPT ![k] = new] BY <1>1, <1>16, <1>19, <2>5 DEF LogHeld, q
  <2>7. q # <<>> BY <2>1, LogReadSlot DEF q
  <2>8. t \in Seq(LogEntries) BY <1>15, <2>7, HeadTailProperties
  <2>9. k \in 1..Len(t) /\ t[k] = q[i] BY <2>5
  <2> HIDE DEF t, k
  <2>10. k \in DOMAIN t BY <2>8, <2>9
  <2>11. new = [t[k] EXCEPT !.done = TRUE] /\ ~t[k].done BY <1>17, <2>9
  <2>12. LogHeld' = [LogHeld EXCEPT ![k].done = TRUE] BY <2>6, <2>11
  <2> QED BY <1>1, <2>6, <2>10, <2>11, <2>12
<1> QED BY <1>18, <1>19

\* Reading hands over the first record, which has been ended.
LEMMA LogTryReadTakes ==
    ASSUME LogAssumed, LogIInv, Log!TryRead
    PROVE LogHeld # <<>> /\ Head(LogHeld).done /\ message' = Head(LogHeld).rec /\ LogHeld' = Tail(LogHeld)
<1>1. /\ recorder = "try" /\ recorder' = "end" /\ readyRead # doneWrite /\ message' = head[readyRead].rec
      /\ UNCHANGED <<head, newWrite, readyRead>>
  BY DEF Log!TryRead, Log!bufferV
<1>2. Log!Queue # <<>> /\ Head(Log!Queue) = LogEntry(head[readyRead]) /\ ~head[readyRead].busy BY <1>1,
    LogReadSlot
<1>3. Log!Queue' = Log!Queue BY <1>1, LogQueueIs, LogQueueIsThen
<1>4. LogHeld = Log!Queue /\ LogHeld' = Tail(Log!Queue) BY <1>1, <1>3 DEF LogHeld
<1>5. Head(Log!Queue).done /\ Head(Log!Queue).rec = head[readyRead].rec
  <2> DEFINE first == Head(Log!Queue)
             s == head[readyRead]
  <2>1. first = [rec |-> s.rec, done |-> ~s.busy] BY <1>2 DEF LogEntry
  <2>2. ~s.busy BY <1>2
  <2> HIDE DEF first, s
  <2>3. first.done /\ first.rec = s.rec
    <3>1. (~s.busy) = TRUE BY <2>2
    <3>2. first = [rec |-> s.rec, done |-> TRUE] BY <2>1, <3>1
    <3> QED BY <3>2
  <2> QED BY <2>3 DEF first, s
<1> QED BY <1>1, <1>2, <1>4, <1>5

\* Releasing the slot takes nothing else out of the queue.
LEMMA LogEndReadKeeps ==
    ASSUME LogAssumed, LogIInv, LogIInv', Log!EndRead
    PROVE LogHeld' = LogHeld /\ message' = message
<1> DEFINE next == Log!NextSlot(readyRead, head[readyRead].len)
<1>1. /\ recorder = "end" /\ recorder' = "store" /\ readyRead' = next
      /\ head' = [head EXCEPT ![readyRead] = Log!NoSlot]
      /\ UNCHANGED <<newWrite, message>>
  BY DEF Log!EndRead
<1>2. readyRead # doneWrite BY <1>1 DEF LogIInv, LogReaderInv
<1>3. /\ next \in Log!Position /\ Log!Distance(next, newWrite) < Log!Distance(readyRead, newWrite)
      /\ Tail(Log!Queue) = LogView(LogFrom(head, newWrite, next)) /\ head[readyRead].len # 0
  BY <1>2, LogReadSlot DEF LogBack
<1>4. /\ newWrite \in Log!Position /\ readyRead \in Log!Position /\ head \in LogSlots
      /\ LogLinked(head, newWrite)
  BY LogWalked
<1>5. next = newWrite \/ head[next].len # 0 BY <1>3, <1>4 DEF LogLinked
<1>6. head' \in LogSlots /\ LogLinked(head', newWrite) BY <1>1, LogWalkedThen
<1>7. \A p \in Log!Position : p # readyRead => head'[p] = head[p] BY <1>1, <1>4 DEF LogSlots
<1> HIDE DEF next
<1>8. LogFrom(head', newWrite, next) = LogFrom(head, newWrite, next)
  BY <1>3, <1>4, <1>5, <1>6, <1>7, LogNotReached
<1>9. Log!Queue' = Tail(Log!Queue) BY <1>1, <1>3, <1>8, LogQueueIsThen DEF next
<1> QED BY <1>1, <1>9 DEF LogHeld

\* The other steps leave the queue as it is.
LEMMA LogOthersKeep ==
    ASSUME \/ \E w \in Writers : Log!Drop(w) \/ Log!Fill(w) \/ Log!LeaveToOthers(w) \/ Log!Publish(w)
           \/ Log!WaitBulk \/ Log!NothingToRead \/ Log!WriteToCard \/ Log!Flush \/ UNCHANGED Log!vars
    PROVE LogHeld' = LogHeld /\ message' = message
<1>1. UNCHANGED <<head, newWrite, readyRead, message>>
  BY DEF Log!Drop, Log!Fill, Log!LeaveToOthers, Log!Publish, Log!WaitBulk, Log!NothingToRead,
      Log!WriteToCard, Log!Flush, Log!vars, Log!bufferV
<1>2. recorder' = "end" <=> recorder = "end"
  BY DEF Log!Drop, Log!Fill, Log!LeaveToOthers, Log!Publish, Log!WaitBulk, Log!NothingToRead,
      Log!WriteToCard, Log!Flush, Log!vars
<1>3. Log!Queue' = Log!Queue BY <1>1, LogQueueIs, LogQueueIsThen
<1> QED BY <1>1, <1>2, <1>3 DEF LogHeld

\* The empty ring is the empty queue.
LEMMA LogInitRefines == ASSUME LogAssumed, Log!Init PROVE Log!Records!Init
<1>1. LogIInv BY LogInitIInv
<1>2. newWrite = readyRead /\ recorder = "wait" /\ message = Log!NoRecord BY DEF Log!Init
<1>3. LogFrom(head, newWrite, newWrite) = <<>> BY <1>1, LogWalked, LogFromIs
<1>4. LogView(<<>>) = <<>> BY DEF LogView
<1>5. LogHeld = <<>> BY <1>2, <1>3, <1>4, LogQueueIs DEF LogHeld
<1>6. Log!NoRecord \notin Log!Record BY DEF Log!NoRecord, Log!Record
<1> QED BY <1>2, <1>5, <1>6 DEF LogHeld, Log!Records!Init

\* Each step is one of the queue, or changes neither the queue nor the record handed over last.
LEMMA LogNextRefines ==
    ASSUME LogAssumed, LogIInv, LogIInv', [Log!Next]_Log!vars
    PROVE [Log!Records!Next]_<<LogHeld, message>>
<1>1. ASSUME NEW w \in Writers, Log!StartWrite(w) PROVE Log!Records!Next
  <2>1. PICK r \in Log!Record : LogHeld' = Append(LogHeld, [rec |-> r, done |-> FALSE])
      /\ message' = message
    BY <1>1, LogStartWriteBegins
  <2>2. Log!Records!Begin(r) BY <2>1 DEF Log!Records!Begin, LogHeld
  <2> QED BY <2>2 DEF Log!Records!Next
<1>2. ASSUME NEW w \in Writers, Log!ClearBusy(w) PROVE Log!Records!Next
  <2>1. message' = message BY <1>2, LogClearBusyEnds
  <2>2. PICK i \in DOMAIN LogHeld : ~LogHeld[i].done /\ LogHeld' = [LogHeld EXCEPT ![i].done = TRUE]
    BY <1>2, LogClearBusyEnds
  <2>3. Log!Records!End(i) BY <2>1, <2>2 DEF Log!Records!End, LogHeld
  <2> QED BY <2>2, <2>3 DEF Log!Records!Next, LogHeld
<1>3. ASSUME Log!TryRead PROVE Log!Records!Next
  <2>1. LogHeld # <<>> /\ Head(LogHeld).done /\ message' = Head(LogHeld).rec /\ LogHeld' = Tail(LogHeld)
    BY <1>3, LogTryReadTakes
  <2>2. Log!Records!Take BY <2>1 DEF Log!Records!Take, LogHeld
  <2> QED BY <2>2 DEF Log!Records!Next
<1>4. ASSUME Log!EndRead PROVE UNCHANGED <<LogHeld, message>> BY <1>4, LogEndReadKeeps
<1>5. CASE \/ \E w \in Writers : Log!Drop(w) \/ Log!Fill(w) \/ Log!LeaveToOthers(w) \/ Log!Publish(w)
           \/ Log!WaitBulk \/ Log!NothingToRead \/ Log!WriteToCard \/ Log!Flush \/ UNCHANGED Log!vars
  BY <1>5, LogOthersKeep
<1> QED BY <1>1, <1>2, <1>3, <1>4, <1>5 DEF Log!Next

\* Buffer.h: records are handed over whole, once, in the order in which they were begun, each
\* after it was ended.
THEOREM ImplementsRecordQueue == ASSUME LogAssumed PROVE Log!Spec => ImplementsQueue
<1>1. Log!Init => Log!Records!Init BY LogInitRefines
<1>2. LogIInv /\ LogIInv' /\ [Log!Next]_Log!vars
    => [Log!Records!Next]_<<LogHeld, message>> BY LogNextRefines
<1> QED BY <1>1, <1>2, LogInductive, PTL DEF Log!Spec, ImplementsQueue, Log!ImplementsQueue,
    Log!Records!Spec, LogHeld

-----------------------------------------------------------------------------
(* The files of the log.                                                   *)

\* A file holds at least a record.
CardAssumed == MaxLog \in Nat \ {0}

\* The files stay within their size.
CardIInv == current \in 0..MaxLog /\ previous \in 0..MaxLog /\ fileOpened \in BOOLEAN

\* What write_to_card() finds once the file is opened: the old files, or what replaces a
\* full one
LEMMA CardOpenedFiles ==
    ASSUME CardAssumed, CardIInv, NEW files \in Card!Opened
    PROVE /\ files.current \in 0..MaxLog /\ files.previous \in 0..MaxLog
          /\ files.current < current \/ files.previous < previous => current >= MaxLog
          /\ files.opened => files.current < MaxLog
<1>1. CASE files = Card!Files(current, previous, FALSE) BY <1>1 DEF Card!Files, CardIInv
<1>2. CASE files = Card!Files(current, previous, TRUE) /\ Card!NormalLogSize
  BY <1>2 DEF Card!Files, CardIInv, Card!NormalLogSize
<1>3. CASE ~Card!NormalLogSize /\ files \in Card!Rotated
  BY <1>3 DEF Card!Files, CardIInv, Card!NormalLogSize, Card!Rotated, CardAssumed
<1>4. files = Card!Files(current, previous, FALSE)
    \/ (files = Card!Files(current, previous, TRUE) /\ Card!NormalLogSize)
        \/ (~Card!NormalLogSize /\ files \in Card!Rotated)
  BY Zenon DEF Card!Opened
<1> QED BY <1>1, <1>2, <1>3, <1>4

\* No step makes a file too large, and only a full one is replaced.
LEMMA CardStep ==
    ASSUME CardAssumed, CardIInv, [Card!Next]_Card!vars
    PROVE /\ CardIInv' /\ current' <= MaxLog
          /\ previous' < previous \/ current' < current => current >= MaxLog
<1>1. CASE Card!WriteToCard
  <2>1. PICK files \in Card!Opened, written \in BOOLEAN :
          /\ written => files.opened
          /\ current' = files.current + (IF written THEN 1 ELSE 0)
          /\ previous' = files.previous
          /\ fileOpened' = written
    BY <1>1 DEF Card!WriteToCard
  <2>2. /\ files.current \in 0..MaxLog /\ files.previous \in 0..MaxLog
        /\ files.current < current \/ files.previous < previous => current >= MaxLog
        /\ files.opened => files.current < MaxLog
    BY CardOpenedFiles
  <2> QED BY <2>1, <2>2 DEF CardIInv, CardAssumed
<1>2. CASE Card!FlushToCard
  <2>1. fileOpened' \in BOOLEAN BY Zenon, <1>2 DEF Card!FlushToCard, CardIInv
  <2>2. UNCHANGED <<current, previous>> BY <1>2 DEF Card!FlushToCard
  <2> QED BY <2>1, <2>2 DEF CardIInv, CardAssumed
<1>3. CASE UNCHANGED Card!vars BY <1>3 DEF Card!vars, CardIInv, CardAssumed
<1> QED BY <1>1, <1>2, <1>3 DEF Card!Next

\* The files stay within their size.
THEOREM CardFilesFit == ASSUME CardAssumed PROVE Card!Spec => []CardIInv
<1>1. Card!Init => CardIInv
  <2> SUFFICES ASSUME Card!Init PROVE CardIInv
    OBVIOUS
  <2>1. fileOpened \in BOOLEAN BY Zenon DEF Card!Init
  <2> QED BY <2>1 DEF Card!Init, CardIInv, CardAssumed
<1> QED BY <1>1, CardStep, PTL DEF Card!Spec

\* rotate_logs(): records leave the card only when a full file takes their place.
THEOREM DroppedForFull == ASSUME CardAssumed PROVE Card!Spec => DroppedOnlyForFullFile
<1>1. ASSUME CardIInv, [Card!Next]_Card!vars
      PROVE  [/\ current' <= MaxLog
              /\ previous' < previous \/ current' < current => current >= MaxLog]_Card!vars
  BY <1>1, CardStep
<1> QED BY <1>1, CardFilesFit, PTL DEF Card!Spec, DroppedOnlyForFullFile, Card!DroppedOnlyForFullFile

-----------------------------------------------------------------------------
(* The interface of the user.  UiPathInv says who waits for whom,          *)
(* UiChangeInv what a change of the controller leaves to the service.      *)

\* There is a second to count.
UiAssumed == AlarmDelay \in Nat \ {0}

UiControllers == {"desktop", "menu", "phone_configurer", "phone_editor", "alarm_disabler", "alarm_enabler",
                "zone_viewer", "editor", "number_editor", "priority_editor", "notifier"}

\* Controllers that invoke others
UiInvokers == {"desktop", "menu", "phone_configurer", "phone_editor", "alarm_disabler"}

UiWaiting == [controller : UiControllers, run : BOOLEAN, delaying : BOOLEAN]
UiAllEvents == {"ALARM", "KEYBOARD"} \cup Ui!CHANGED_EVENTS \cup Ui!TIMER_EVENTS

\* Those that wait were invoked one by the other, from the desktop on.
UiPathInv ==
    /\ controller = "desktop" <=> Len(suspended) = 0
    /\ \A n \in 1..Len(suspended) :
        /\ suspended[n].controller \in UiInvokers
        /\ suspended[n].controller = "desktop" <=> n = 1
        /\ suspended[n].controller = "alarm_disabler" => n = 2 /\ controller = "notifier"
        /\ suspended[n].delaying = (suspended[n].controller \in Ui!Refreshes)
    /\ controller = "alarm_disabler" => Len(suspended) = 1
    /\ controller = "notifier" => Len(suspended) = 2 /\ suspended[2].controller = "alarm_disabler"

\* What a change of the controller leaves to the service
UiChangeInv ==
    /\ "INVOKE" \notin uiEvents \/ controller = "desktop" => delaying = (controller \in Ui!Refreshes)
    /\ "RESUME" \in uiEvents /\ "INVOKE" \notin uiEvents => controller \in UiInvokers
    /\ service = "changes" => uiEvents \cap Ui!CHANGED_EVENTS # {}

\* Keys wait with their event; they do not come where the service does not look.
UiKeysInv ==
    /\ service \in {"changes", "no_key"} => keys = <<>>
    /\ keys # <<>> => "KEYBOARD" \in uiEvents

\* A timer that has elapsed does not run.
UiTimerInv == "DELAY" \in uiEvents => ~delay_timer

UiIInv == Ui!TypeOK /\ UiPathInv /\ UiChangeInv /\ UiKeysInv /\ UiTimerInv /\ Ui!ControllerFollowsAlarm
    /\ Ui!ScreenFollowsController

\* The controllers are those that may be invoked, and who invokes whom.
LEMMA UiInvoking ==
    /\ DOMAIN Ui!Invokes = UiControllers
    /\ \A c \in UiControllers : \A next \in Ui!Invokes[c] :
        /\ c \in UiInvokers /\ next \in UiControllers \ {"desktop", "alarm_disabler"}
        /\ next = "notifier" <=> c = "alarm_disabler"
<1>1. DOMAIN Ui!Invokes = UiControllers BY DEF Ui!Invokes, UiControllers
<1>2. /\ Ui!Invokes["desktop"] = {"alarm_enabler", "menu"}
      /\ Ui!Invokes["menu"] = {"zone_viewer", "editor", "phone_configurer"}
      /\ Ui!Invokes["phone_configurer"] = {"number_editor", "phone_editor"}
      /\ Ui!Invokes["phone_editor"] = {"number_editor", "priority_editor"}
      /\ Ui!Invokes["alarm_disabler"] = {"notifier"}
      /\ Ui!Invokes["alarm_enabler"] = {} /\ Ui!Invokes["zone_viewer"] = {} /\ Ui!Invokes["editor"] = {}
      /\ Ui!Invokes["number_editor"] = {} /\ Ui!Invokes["priority_editor"] = {}
      /\ Ui!Invokes["notifier"] = {}
  BY DEF Ui!Invokes
<1> QED BY <1>1, <1>2 DEF UiControllers, UiInvokers

\* What is typed, one by one
LEMMA UiTyped ==
    Ui!TypeOK <=>
        /\ armed \in BOOLEAN /\ untold \in BOOLEAN /\ controller \in UiControllers
        /\ run_activity_timer \in BOOLEAN /\ ui_active \in BOOLEAN /\ delaying \in BOOLEAN
        /\ suspended \in Seq(UiWaiting)
        /\ seconds \in 0..AlarmDelay /\ signal \in BOOLEAN
        /\ uiEvents \subseteq UiAllEvents
        /\ keys \in Seq(UiControllers) /\ Len(keys) <= Ui!KEYBOARD_QUEUE_LENGTH
        /\ activity_timer \in BOOLEAN /\ delay_timer \in BOOLEAN
        /\ service \in {"waits", "alarm", "changes", "no_key"}
        /\ shown \in UiControllers /\ lit \in BOOLEAN
BY Zenon, UiInvoking DEF Ui!TypeOK, UiWaiting, UiAllEvents

\* The same after a step
LEMMA UiTypedNext ==
    ASSUME armed' \in BOOLEAN, untold' \in BOOLEAN, controller' \in UiControllers,
           run_activity_timer' \in BOOLEAN, ui_active' \in BOOLEAN, delaying' \in BOOLEAN,
           suspended' \in Seq(UiWaiting),
           seconds' \in 0..AlarmDelay, signal' \in BOOLEAN,
           uiEvents' \subseteq UiAllEvents,
           keys' \in Seq(UiControllers), Len(keys') <= Ui!KEYBOARD_QUEUE_LENGTH,
           activity_timer' \in BOOLEAN, delay_timer' \in BOOLEAN,
           service' \in {"waits", "alarm", "changes", "no_key"},
           shown' \in UiControllers, lit' \in BOOLEAN
    PROVE Ui!TypeOK'
<1>1. DOMAIN Ui!Invokes = UiControllers BY UiInvoking
<1> QED BY Zenon, <1>1 DEF Ui!TypeOK, UiWaiting, UiAllEvents

\* It holds at the start.
LEMMA UiInitIInv == ASSUME UiAssumed, Ui!Init PROVE UiIInv
<1>1. controller \in UiControllers /\ shown \in UiControllers BY DEF Ui!Init, UiControllers
<1>2. /\ armed \in BOOLEAN /\ untold \in BOOLEAN /\ run_activity_timer \in BOOLEAN /\ ui_active \in BOOLEAN
      /\ delaying \in BOOLEAN /\ signal \in BOOLEAN /\ activity_timer \in BOOLEAN /\ delay_timer \in BOOLEAN
      /\ lit \in BOOLEAN
  BY Zenon DEF Ui!Init
<1>3. seconds \in 0..AlarmDelay BY DEF Ui!Init, UiAssumed
<1>4. suspended \in Seq(UiWaiting) /\ keys \in Seq(UiControllers) /\ Len(keys) <= Ui!KEYBOARD_QUEUE_LENGTH
  BY DEF Ui!Init, Ui!KEYBOARD_QUEUE_LENGTH
<1>5. service \in {"waits", "alarm", "changes", "no_key"} /\ uiEvents \subseteq UiAllEvents BY DEF Ui!Init
<1>6. Ui!TypeOK BY <1>1, <1>2, <1>3, <1>4, <1>5, UiTyped
<1>7. UiPathInv BY DEF Ui!Init, UiPathInv
<1>8. UiChangeInv /\ UiKeysInv /\ UiTimerInv BY DEF Ui!Init, UiChangeInv, UiKeysInv, UiTimerInv,
    Ui!Refreshes
<1>9. Ui!ControllerFollowsAlarm BY DEF Ui!Init, Ui!ControllerFollowsAlarm
<1>10. Ui!ScreenFollowsController BY DEF Ui!Init, Ui!ScreenFollowsController, Ui!CHANGED_EVENTS,
    Ui!Refreshes
<1> QED BY <1>6, <1>7, <1>8, <1>9, <1>10 DEF UiIInv

\* Controller::invoke() keeps the path.
LEMMA UiGiveToPath ==
    ASSUME Ui!TypeOK, UiPathInv, NEW next \in Ui!Invokes[controller],
        delaying = (controller \in Ui!Refreshes), Ui!GiveTo(next)
    PROVE /\ suspended' \in Seq(UiWaiting) /\ UiPathInv'
          /\ controller' \in UiControllers \ {"desktop", "alarm_disabler"}
          /\ controller' = "notifier" <=> controller = "alarm_disabler"
<1>1. /\ suspended \in Seq(UiWaiting) /\ controller \in UiControllers /\ run_activity_timer \in BOOLEAN
      /\ delaying \in BOOLEAN
  BY UiTyped
<1>2. /\ controller \in UiInvokers /\ next \in UiControllers \ {"desktop", "alarm_disabler"}
      /\ next = "notifier" <=> controller = "alarm_disabler"
  BY <1>1, UiInvoking
<1>3. /\ Ui!Below(controller) \in UiWaiting /\ Ui!Below(controller).controller = controller
      /\ Ui!Below(controller).delaying = delaying
  BY <1>1 DEF Ui!Below, UiWaiting
<1>4. controller' = next /\ suspended' = Append(suspended, Ui!Below(controller)) BY DEF Ui!GiveTo
<1>5. /\ suspended' \in Seq(UiWaiting) /\ Len(suspended') = Len(suspended) + 1
      /\ \A n \in 1..Len(suspended) : suspended'[n] = suspended[n]
      /\ suspended'[Len(suspended) + 1] = Ui!Below(controller)
  BY <1>1, <1>3, <1>4, AppendProperties
<1>6. Len(suspended) \in Nat BY <1>1, LenProperties
<1>7. controller # "notifier" BY <1>2 DEF UiInvokers
<1>8. \A n \in 1..Len(suspended') :
        /\ suspended'[n].controller \in UiInvokers
        /\ suspended'[n].controller = "desktop" <=> n = 1
        /\ suspended'[n].controller = "alarm_disabler" => n = 2 /\ controller' = "notifier"
        /\ suspended'[n].delaying = (suspended'[n].controller \in Ui!Refreshes)
  <2> TAKE n \in 1..Len(suspended')
  <2>1. CASE n \in 1..Len(suspended) BY <1>5, <1>7, <2>1 DEF UiPathInv
  <2>2. CASE n = Len(suspended) + 1
    BY <1>2, <1>3, <1>4, <1>5, <1>6, <2>2 DEF UiPathInv
  <2> QED BY <1>5, <1>6, <2>1, <2>2
<1>9. controller' = "notifier" => Len(suspended') = 2 /\ suspended'[2].controller = "alarm_disabler"
  <2> SUFFICES ASSUME controller' = "notifier"
      PROVE Len(suspended') = 2 /\ suspended'[2].controller = "alarm_disabler"
    OBVIOUS
  <2>1. controller = "alarm_disabler" BY <1>2, <1>4
  <2>2. Len(suspended) = 1 BY <2>1 DEF UiPathInv
  <2>3. Len(suspended') = 2 /\ suspended'[2] = Ui!Below(controller) BY <1>5, <2>2
  <2> QED BY <1>3, <2>1, <2>3
<1> QED BY <1>2, <1>4, <1>5, <1>6, <1>8, <1>9 DEF UiPathInv

\* So do Controller::yield() and going back to the desktop.
LEMMA UiGiveBackPath ==
    ASSUME Ui!TypeOK, UiPathInv, NEW n \in 1..Len(suspended), Ui!GiveBackTo(n)
    PROVE /\ suspended' \in Seq(UiWaiting) /\ UiPathInv'
          /\ controller' \in UiControllers /\ controller' \in UiInvokers
          /\ run_activity_timer' \in BOOLEAN /\ delaying' \in BOOLEAN /\ ui_active' = FALSE
          /\ delaying' = (controller' \in Ui!Refreshes)
          /\ controller' = "desktop" <=> n = 1
          /\ n = Len(suspended) => (controller' = "alarm_disabler" <=> controller = "notifier")
<1>1. suspended \in Seq(UiWaiting) /\ Len(suspended) \in Nat BY UiTyped, LenProperties
<1>2. suspended[n] \in UiWaiting BY <1>1, ElementOfSeq
<1>3. /\ controller' = suspended[n].controller /\ run_activity_timer' = suspended[n].run
      /\ delaying' = suspended[n].delaying /\ ui_active' = FALSE
      /\ suspended' = SubSeq(suspended, 1, n - 1)
  BY DEF Ui!GiveBackTo
<1>4. /\ suspended' \in Seq(UiWaiting) /\ Len(suspended') = n - 1
      /\ \A k \in 1..n - 1 : suspended'[k] = suspended[k]
  <2>1. 1 \in 1..Len(suspended) + 1 /\ n - 1 \in 0..Len(suspended) BY <1>1
  <2>2. \A k \in 1..n - 1 : suspended[k] \in UiWaiting BY <1>1, ElementOfSeq
  <2>3. /\ SubSeq(suspended, 1, n - 1) \in Seq(UiWaiting)
        /\ Len(SubSeq(suspended, 1, n - 1)) = n - 1
        /\ \A k \in 1..n - 1 : SubSeq(suspended, 1, n - 1)[k] = suspended[k]
    BY <1>1, <2>1, <2>2
  <2> QED BY <1>3, <2>3
<1>5. controller' \in UiInvokers /\ run_activity_timer' \in BOOLEAN /\ delaying' \in BOOLEAN
  BY <1>2, <1>3 DEF UiPathInv, UiWaiting
<1>6. controller' \in UiControllers BY <1>5 DEF UiInvokers, UiControllers
<1>7. /\ delaying' = (controller' \in Ui!Refreshes)
      /\ controller' = "desktop" <=> n = 1
      /\ n = Len(suspended) => (controller' = "alarm_disabler" <=> controller = "notifier")
  BY <1>3 DEF UiPathInv
<1>8. controller' # "notifier" BY <1>5 DEF UiInvokers
<1>9. \A k \in 1..n - 1 : suspended[k].controller # "alarm_disabler"
  BY <1>1 DEF UiPathInv
<1>10. \A k \in 1..Len(suspended') :
        /\ suspended'[k].controller \in UiInvokers
        /\ suspended'[k].controller = "desktop" <=> k = 1
        /\ suspended'[k].controller = "alarm_disabler" => k = 2 /\ controller' = "notifier"
        /\ suspended'[k].delaying = (suspended'[k].controller \in Ui!Refreshes)
  BY <1>1, <1>4, <1>9 DEF UiPathInv
<1>11. controller' = "alarm_disabler" => n = 2 BY <1>3 DEF UiPathInv
<1>12. UiPathInv'
  <2>1. controller' = "desktop" <=> Len(suspended') = 0 BY <1>1, <1>4, <1>7
  <2>2. controller' = "alarm_disabler" => Len(suspended') = 1 BY <1>4, <1>11
  <2> QED BY Zenon, <1>8, <1>10, <2>1, <2>2 DEF UiPathInv
<1> QED BY Zenon, <1>3, <1>4, <1>5, <1>6, <1>7, <1>12

\* And so does arming.
LEMMA UiDisablerPath ==
    ASSUME Ui!TypeOK, UiPathInv, UiChangeInv, Ui!DisablerOverDesktop
    PROVE /\ suspended' \in Seq(UiWaiting) /\ UiPathInv'
          /\ controller' = "alarm_disabler" /\ run_activity_timer' = FALSE /\ delaying' = FALSE
          /\ ui_active' = FALSE
<1>1. /\ suspended \in Seq(UiWaiting) /\ Len(suspended) \in Nat /\ controller \in UiControllers
      /\ run_activity_timer \in BOOLEAN /\ delaying \in BOOLEAN
  BY UiTyped, LenProperties
<1>2. /\ controller' = "alarm_disabler" /\ run_activity_timer' = FALSE /\ delaying' = FALSE
      /\ ui_active' = FALSE
  BY DEF Ui!DisablerOverDesktop
<1>3. /\ suspended' \in Seq(UiWaiting) /\ Len(suspended') = 1
      /\ suspended'[1].controller = "desktop" /\ suspended'[1].delaying = TRUE
  <2>1. CASE controller = "desktop"
    <3>1. suspended' = <<Ui!Below("desktop")>> BY <2>1 DEF Ui!DisablerOverDesktop
    <3>2. delaying = TRUE BY <1>1, <2>1 DEF UiChangeInv, Ui!Refreshes
    <3>3. /\ Ui!Below("desktop") \in UiWaiting /\ Ui!Below("desktop").controller = "desktop"
          /\ Ui!Below("desktop").delaying = TRUE
      BY <1>1, <3>2 DEF Ui!Below, UiWaiting, UiControllers
    <3> QED BY <3>1, <3>3
  <2>2. CASE controller # "desktop"
    <3>1. suspended' = SubSeq(suspended, 1, 1) BY <2>2 DEF Ui!DisablerOverDesktop
    <3>2. Len(suspended) >= 1 BY <1>1, <2>2 DEF UiPathInv
    <3>3. suspended[1] \in UiWaiting BY <1>1, <3>2, ElementOfSeq
    <3>4. /\ SubSeq(suspended, 1, 1) \in Seq(UiWaiting) /\ Len(SubSeq(suspended, 1, 1)) = 1
          /\ SubSeq(suspended, 1, 1)[1] = suspended[1]
      BY <1>1, <3>2, <3>3
    <3>5. 1 \in 1..Len(suspended) BY <1>1, <3>2
    <3>6. /\ suspended[1].controller = "desktop"
          /\ suspended[1].delaying = (suspended[1].controller \in Ui!Refreshes)
      BY Zenon, <3>5 DEF UiPathInv
    <3>7. suspended[1].delaying = TRUE BY Zenon, <3>6 DEF Ui!Refreshes
    <3> QED BY <3>1, <3>3, <3>4, <3>6, <3>7
  <2> QED BY <2>1, <2>2
<1>4. UiPathInv'
  <2>1. \A n \in 1..Len(suspended') :
          /\ suspended'[n].controller \in UiInvokers
          /\ suspended'[n].controller = "desktop" <=> n = 1
          /\ suspended'[n].controller = "alarm_disabler" => n = 2 /\ controller' = "notifier"
          /\ suspended'[n].delaying = (suspended'[n].controller \in Ui!Refreshes)
    <3> TAKE n \in 1..Len(suspended')
    <3>1. n = 1 BY <1>3
    <3>2. suspended'[n].delaying = (suspended'[n].controller \in Ui!Refreshes)
      BY Zenon, <1>3, <3>1 DEF Ui!Refreshes
    <3> QED BY <1>3, <3>1, <3>2 DEF UiInvokers
  <2>2. controller' # "desktop" /\ controller' # "notifier" /\ Len(suspended') # 0 BY <1>2, <1>3
  <2> QED BY Zenon, <1>3, <2>1, <2>2 DEF UiPathInv
<1> QED BY <1>2, <1>3, <1>4

\* A key pressed is one of the controller in control.
LEMMA UiPressStep == ASSUME UiAssumed, UiIInv, Ui!Press PROVE UiIInv'
<1>1. /\ armed \in BOOLEAN /\ untold \in BOOLEAN /\ controller \in UiControllers
      /\ run_activity_timer \in BOOLEAN /\ ui_active \in BOOLEAN /\ delaying \in BOOLEAN
      /\ suspended \in Seq(UiWaiting)
      /\ seconds \in 0..AlarmDelay /\ signal \in BOOLEAN /\ uiEvents \subseteq UiAllEvents
      /\ keys \in Seq(UiControllers) /\ Len(keys) <= Ui!KEYBOARD_QUEUE_LENGTH
      /\ activity_timer \in BOOLEAN /\ delay_timer \in BOOLEAN
      /\ service \in {"waits", "alarm", "changes", "no_key"}
      /\ shown \in UiControllers /\ lit \in BOOLEAN
  BY UiTyped DEF UiIInv
<1>2. /\ service \notin {"changes", "no_key"} /\ uiEvents' = uiEvents \cup {"KEYBOARD"}
      /\ UNCHANGED <<Ui!alarmV, Ui!controlV, seconds, signal, Ui!timersV, service, Ui!displayV>>
  BY DEF Ui!Press, UiAssumed
<1>3. UNCHANGED <<armed, untold, controller, run_activity_timer, ui_active, delaying, suspended, seconds, signal,
                  activity_timer, delay_timer, service, shown, lit>>
  BY <1>2 DEF Ui!alarmV, Ui!controlV, Ui!timersV, Ui!displayV
<1>4. /\ keys' \in Seq(UiControllers) /\ Len(keys') <= Ui!KEYBOARD_QUEUE_LENGTH
      /\ \A k \in DOMAIN keys' : (k \in DOMAIN keys /\ keys'[k] = keys[k]) \/ keys'[k] = controller
  <2>1. CASE Len(keys) < Ui!KEYBOARD_QUEUE_LENGTH
    <3>1. keys' = Append(keys, controller) BY <2>1 DEF Ui!Press
    <3> QED BY <1>1, <2>1, <3>1, AppendProperties DEF Ui!KEYBOARD_QUEUE_LENGTH
  <2>2. CASE ~(Len(keys) < Ui!KEYBOARD_QUEUE_LENGTH)
    <3>1. keys' = keys BY <2>2 DEF Ui!Press
    <3> QED BY <1>1, <3>1
  <2> QED BY <2>1, <2>2
<1>5. Ui!TypeOK'
  <2>1. uiEvents' \subseteq UiAllEvents BY <1>1, <1>2 DEF UiAllEvents
  <2> QED BY <1>1, <1>3, <1>4, <2>1, UiTypedNext
<1>6. UiPathInv' BY <1>3 DEF UiIInv, UiPathInv
<1>7. UiChangeInv' BY <1>2, <1>3 DEF UiIInv, UiChangeInv
<1>8. UiKeysInv' BY <1>2, <1>3 DEF UiKeysInv
<1>9. UiTimerInv' BY <1>2, <1>3 DEF UiIInv, UiTimerInv
<1>10. Ui!ControllerFollowsAlarm' BY <1>2, <1>3 DEF UiIInv, Ui!ControllerFollowsAlarm
<1>11. Ui!ScreenFollowsController'
  <2>1. uiEvents' \cap Ui!CHANGED_EVENTS = uiEvents \cap Ui!CHANGED_EVENTS BY <1>2 DEF Ui!CHANGED_EVENTS
  <2>2. "ACTIVITY" \in uiEvents' <=> "ACTIVITY" \in uiEvents BY <1>2
  <2>3. "DELAY" \in uiEvents' <=> "DELAY" \in uiEvents BY <1>2
  <2>4. "KEYBOARD" \in uiEvents' BY <1>2
  <2> QED BY <1>3, <1>4, <2>1, <2>2, <2>3, <2>4 DEF UiIInv, Ui!ScreenFollowsController
<1> QED BY <1>5, <1>6, <1>7, <1>8, <1>9, <1>10, <1>11 DEF UiIInv

\* Timers elapse, others arm or disarm and tell it.
LEMMA UiOthersStep == ASSUME UiIInv,
    Ui!ActivityTimeout \/ Ui!DelayTimeout \/ Ui!ChangeAlarm \/ Ui!TellUi PROVE UiIInv'
<1>1. /\ armed \in BOOLEAN /\ untold \in BOOLEAN /\ controller \in UiControllers
      /\ run_activity_timer \in BOOLEAN /\ ui_active \in BOOLEAN /\ delaying \in BOOLEAN
      /\ suspended \in Seq(UiWaiting)
      /\ seconds \in 0..AlarmDelay /\ signal \in BOOLEAN /\ uiEvents \subseteq UiAllEvents
      /\ keys \in Seq(UiControllers) /\ Len(keys) <= Ui!KEYBOARD_QUEUE_LENGTH
      /\ activity_timer \in BOOLEAN /\ delay_timer \in BOOLEAN
      /\ service \in {"waits", "alarm", "changes", "no_key"}
      /\ shown \in UiControllers /\ lit \in BOOLEAN
  BY UiTyped DEF UiIInv
<1>2. UNCHANGED <<controller, run_activity_timer, ui_active, delaying, suspended, seconds, signal, keys,
                  service, shown, lit>>
  BY DEF Ui!ActivityTimeout, Ui!DelayTimeout, Ui!ChangeAlarm, Ui!TellUi, Ui!controlV, Ui!displayV
<1>3. UiPathInv' BY <1>2 DEF UiIInv, UiPathInv
<1>4. CASE Ui!ActivityTimeout
  <2>1. /\ activity_timer = TRUE /\ activity_timer' = FALSE /\ uiEvents' = uiEvents \cup {"ACTIVITY"}
        /\ UNCHANGED <<armed, untold, delay_timer>>
    BY <1>1, <1>4 DEF Ui!ActivityTimeout, Ui!alarmV
  <2>2. uiEvents' \subseteq UiAllEvents BY <1>1, <2>1 DEF UiAllEvents, Ui!TIMER_EVENTS
  <2>3. Ui!TypeOK' BY <1>1, <1>2, <2>1, <2>2, UiTypedNext
  <2>4. UiChangeInv' BY <1>2, <2>1 DEF UiIInv, UiChangeInv
  <2>5. UiKeysInv' BY <1>2, <2>1 DEF UiIInv, UiKeysInv
  <2>6. UiTimerInv' BY <1>2, <2>1 DEF UiIInv, UiTimerInv
  <2>7. Ui!ControllerFollowsAlarm' BY <1>2, <2>1 DEF UiIInv, Ui!ControllerFollowsAlarm
  <2>8. Ui!ScreenFollowsController' BY <1>2, <2>1 DEF UiIInv, Ui!ScreenFollowsController, Ui!CHANGED_EVENTS
  <2> QED BY <1>3, <2>3, <2>4, <2>5, <2>6, <2>7, <2>8 DEF UiIInv
<1>5. CASE Ui!DelayTimeout
  <2>1. /\ delay_timer = TRUE /\ delay_timer' = FALSE /\ uiEvents' = uiEvents \cup {"DELAY"}
        /\ UNCHANGED <<armed, untold, activity_timer>>
    BY <1>1, <1>5 DEF Ui!DelayTimeout, Ui!alarmV
  <2>2. uiEvents' \subseteq UiAllEvents BY <1>1, <2>1 DEF UiAllEvents, Ui!TIMER_EVENTS
  <2>3. Ui!TypeOK' BY <1>1, <1>2, <2>1, <2>2, UiTypedNext
  <2>4. UiChangeInv' BY <1>2, <2>1 DEF UiIInv, UiChangeInv
  <2>5. UiKeysInv' BY <1>2, <2>1 DEF UiIInv, UiKeysInv
  <2>6. UiTimerInv' BY <1>2, <2>1 DEF UiIInv, UiTimerInv
  <2>7. Ui!ControllerFollowsAlarm' BY <1>2, <2>1 DEF UiIInv, Ui!ControllerFollowsAlarm
  <2>8. Ui!ScreenFollowsController' BY <1>2, <2>1 DEF UiIInv, Ui!ScreenFollowsController, Ui!CHANGED_EVENTS
  <2> QED BY <1>3, <2>3, <2>4, <2>5, <2>6, <2>7, <2>8 DEF UiIInv
<1>6. CASE Ui!ChangeAlarm
  <2>1. armed' \in BOOLEAN /\ untold' = TRUE BY <1>6, Zenon DEF Ui!ChangeAlarm
  <2>2. UNCHANGED <<uiEvents, activity_timer, delay_timer>> BY <1>6 DEF Ui!ChangeAlarm, Ui!timersV
  <2>3. Ui!TypeOK' BY <1>1, <1>2, <2>1, <2>2, UiTypedNext
  <2>4. UiChangeInv' BY <1>2, <2>2 DEF UiIInv, UiChangeInv
  <2>5. UiKeysInv' BY <1>2, <2>2 DEF UiIInv, UiKeysInv
  <2>6. UiTimerInv' BY <1>2, <2>2 DEF UiIInv, UiTimerInv
  <2>7. Ui!ControllerFollowsAlarm' BY <2>1 DEF Ui!ControllerFollowsAlarm
  <2>8. Ui!ScreenFollowsController' BY <1>2, <2>2 DEF UiIInv, Ui!ScreenFollowsController
  <2> QED BY <1>3, <2>3, <2>4, <2>5, <2>6, <2>7, <2>8 DEF UiIInv
<1>7. CASE Ui!TellUi
  <2>1. /\ untold' = FALSE /\ uiEvents' = uiEvents \cup {"ALARM"}
        /\ UNCHANGED <<armed, activity_timer, delay_timer>>
    BY <1>7 DEF Ui!TellUi, Ui!timersV
  <2>2. uiEvents' \subseteq UiAllEvents BY <1>1, <2>1 DEF UiAllEvents
  <2>3. Ui!TypeOK' BY <1>1, <1>2, <2>1, <2>2, UiTypedNext
  <2>4. UiChangeInv' BY <1>2, <2>1 DEF UiIInv, UiChangeInv
  <2>5. UiKeysInv' BY <1>2, <2>1 DEF UiIInv, UiKeysInv
  <2>6. UiTimerInv' BY <1>2, <2>1 DEF UiIInv, UiTimerInv
  <2>7. Ui!ControllerFollowsAlarm' BY <2>1 DEF Ui!ControllerFollowsAlarm
  <2>8. Ui!ScreenFollowsController' BY <1>2, <2>1 DEF UiIInv, Ui!ScreenFollowsController, Ui!CHANGED_EVENTS
  <2> QED BY <1>3, <2>3, <2>4, <2>5, <2>6, <2>7, <2>8 DEF UiIInv
<1> QED BY <1>4, <1>5, <1>6, <1>7

\* No event before the n-th kind is there when that is served.
LEMMA UiServed ==
    /\ Ui!Serves(1) => service = "waits"
    /\ Ui!Serves(2) => service = "waits" /\ uiEvents \cap Ui!CHANGED_EVENTS # {}
    /\ Ui!Serves(3) => service = "waits" /\ "ALARM" \notin uiEvents /\ uiEvents \cap Ui!CHANGED_EVENTS = {}
    /\ Ui!Serves(4) => service = "waits" /\ "ALARM" \notin uiEvents /\ uiEvents \cap Ui!CHANGED_EVENTS = {}
                   /\ "ACTIVITY" \notin uiEvents /\ "DELAY" \in uiEvents
    /\ Ui!Serves(5) => service = "waits" /\ "ALARM" \notin uiEvents /\ uiEvents \cap Ui!CHANGED_EVENTS = {}
                   /\ "ACTIVITY" \notin uiEvents /\ "DELAY" \notin uiEvents /\ "KEYBOARD" \in uiEvents
<1>1. /\ Ui!ServiceOrder[1] = {"ALARM"} /\ Ui!ServiceOrder[2] = Ui!CHANGED_EVENTS
      /\ Ui!ServiceOrder[3] = {"ACTIVITY"}
      /\ Ui!ServiceOrder[4] = {"DELAY"} /\ Ui!ServiceOrder[5] = {"KEYBOARD"}
  BY DEF Ui!ServiceOrder
<1>2. \A n \in 1..5 : Ui!Serves(n) =>
        /\ service = "waits" /\ uiEvents \cap Ui!ServiceOrder[n] # {}
        /\ \A k \in 1..n - 1 : uiEvents \cap Ui!ServiceOrder[k] = {}
  BY DEF Ui!Serves
<1>3. Ui!Serves(1) => service = "waits" BY <1>2
<1>4. Ui!Serves(2) => service = "waits" /\ uiEvents \cap Ui!CHANGED_EVENTS # {} BY <1>1, <1>2
<1>5. Ui!Serves(3) => uiEvents \cap {"ALARM"} = {} /\ uiEvents \cap Ui!CHANGED_EVENTS = {}
  <2>1. 1 \in 1..3 - 1 /\ 2 \in 1..3 - 1 OBVIOUS
  <2> QED BY <1>1, <1>2, <2>1
<1>6. Ui!Serves(4) => /\ uiEvents \cap {"ALARM"} = {} /\ uiEvents \cap Ui!CHANGED_EVENTS = {}
                   /\ uiEvents \cap {"ACTIVITY"} = {} /\ uiEvents \cap {"DELAY"} # {}
  <2>1. 1 \in 1..4 - 1 /\ 2 \in 1..4 - 1 /\ 3 \in 1..4 - 1 OBVIOUS
  <2> QED BY <1>1, <1>2, <2>1
<1>7. Ui!Serves(5) => /\ uiEvents \cap {"ALARM"} = {} /\ uiEvents \cap Ui!CHANGED_EVENTS = {}
                   /\ uiEvents \cap {"ACTIVITY"} = {} /\ uiEvents \cap {"DELAY"} = {}
                   /\ uiEvents \cap {"KEYBOARD"} # {}
  <2>1. 1 \in 1..5 - 1 /\ 2 \in 1..5 - 1 /\ 3 \in 1..5 - 1 /\ 4 \in 1..5 - 1 OBVIOUS
  <2> QED BY <1>1, <1>2, <2>1
<1> QED BY <1>2, <1>3, <1>4, <1>5, <1>6, <1>7

\* What the service only begins, and where it finds no key
LEMMA UiBeginStep == ASSUME UiIInv,
    Ui!ServeAlarm \/ Ui!ResetKeys \/ Ui!NoKey \/ Ui!ClearKeyboardEvent PROVE UiIInv'
<1>1. /\ armed \in BOOLEAN /\ untold \in BOOLEAN /\ controller \in UiControllers
      /\ run_activity_timer \in BOOLEAN /\ ui_active \in BOOLEAN /\ delaying \in BOOLEAN
      /\ suspended \in Seq(UiWaiting)
      /\ seconds \in 0..AlarmDelay /\ signal \in BOOLEAN /\ uiEvents \subseteq UiAllEvents
      /\ keys \in Seq(UiControllers) /\ Len(keys) <= Ui!KEYBOARD_QUEUE_LENGTH
      /\ activity_timer \in BOOLEAN /\ delay_timer \in BOOLEAN
      /\ service \in {"waits", "alarm", "changes", "no_key"}
      /\ shown \in UiControllers /\ lit \in BOOLEAN
  BY UiTyped DEF UiIInv
<1>2. UNCHANGED <<armed, untold, controller, run_activity_timer, ui_active, delaying, suspended, seconds, signal,
                  activity_timer, delay_timer, shown, lit>>
  BY DEF Ui!ServeAlarm, Ui!ResetKeys, Ui!NoKey, Ui!ClearKeyboardEvent, Ui!alarmV, Ui!controlV,
      Ui!timersV, Ui!displayV
<1>3. UiPathInv' BY <1>2 DEF UiIInv, UiPathInv
<1>4. CASE Ui!ServeAlarm
  <2>1. /\ service = "waits" /\ service' = "alarm" /\ uiEvents' = uiEvents \ {"ALARM"} /\ keys' = keys
    BY <1>4, UiServed DEF Ui!ServeAlarm
  <2>2. uiEvents' \subseteq UiAllEvents BY <1>1, <2>1
  <2>3. Ui!TypeOK' BY <1>1, <1>2, <2>1, <2>2, UiTypedNext
  <2>4. UiChangeInv' BY <1>2, <2>1 DEF UiIInv, UiChangeInv
  <2>5. UiKeysInv' BY <1>2, <2>1 DEF UiIInv, UiKeysInv
  <2>6. UiTimerInv' BY <1>2, <2>1 DEF UiIInv, UiTimerInv
  <2>7. Ui!ControllerFollowsAlarm' BY <2>1 DEF Ui!ControllerFollowsAlarm
  <2>8. Ui!ScreenFollowsController' BY <1>2, <2>1 DEF UiIInv, Ui!ScreenFollowsController, Ui!CHANGED_EVENTS
  <2> QED BY <1>3, <2>3, <2>4, <2>5, <2>6, <2>7, <2>8 DEF UiIInv
<1>5. CASE Ui!ResetKeys
  <2>1. /\ service = "waits" /\ service' = "changes" /\ uiEvents' = uiEvents /\ keys' = <<>>
        /\ uiEvents \cap Ui!CHANGED_EVENTS # {}
    BY <1>5, UiServed DEF Ui!ResetKeys
  <2>2. keys' \in Seq(UiControllers) /\ Len(keys') <= Ui!KEYBOARD_QUEUE_LENGTH BY <2>1
      DEF Ui!KEYBOARD_QUEUE_LENGTH
  <2>3. Ui!TypeOK' BY <1>1, <1>2, <2>1, <2>2, UiTypedNext
  <2>4. UiChangeInv' BY <1>2, <2>1 DEF UiIInv, UiChangeInv
  <2>5. UiKeysInv' BY <1>2, <2>1 DEF UiIInv, UiKeysInv
  <2>6. UiTimerInv' BY <1>2, <2>1 DEF UiIInv, UiTimerInv
  <2>7. Ui!ControllerFollowsAlarm' BY <1>2, <2>1 DEF UiIInv, Ui!ControllerFollowsAlarm
  <2>8. Ui!ScreenFollowsController' BY <2>1 DEF Ui!ScreenFollowsController
  <2> QED BY <1>3, <2>3, <2>4, <2>5, <2>6, <2>7, <2>8 DEF UiIInv
<1>6. CASE Ui!NoKey
  <2>1. service = "waits" /\ service' = "no_key" /\ uiEvents' = uiEvents /\ keys' = keys /\ keys = <<>>
    BY <1>6, UiServed DEF Ui!NoKey
  <2>3. Ui!TypeOK' BY <1>1, <1>2, <2>1, UiTypedNext
  <2>4. UiChangeInv' BY <1>2, <2>1 DEF UiIInv, UiChangeInv
  <2>5. UiKeysInv' BY <1>2, <2>1 DEF UiIInv, UiKeysInv
  <2>6. UiTimerInv' BY <1>2, <2>1 DEF UiIInv, UiTimerInv
  <2>7. Ui!ControllerFollowsAlarm' BY <1>2, <2>1 DEF UiIInv, Ui!ControllerFollowsAlarm
  <2>8. Ui!ScreenFollowsController' BY <1>2, <2>1 DEF UiIInv, Ui!ScreenFollowsController
  <2> QED BY <1>3, <2>3, <2>4, <2>5, <2>6, <2>7, <2>8 DEF UiIInv
<1>7. CASE Ui!ClearKeyboardEvent
  <2>1. /\ service = "no_key" /\ service' = "waits" /\ uiEvents' = uiEvents \ {"KEYBOARD"} /\ keys' = keys
    BY <1>7 DEF Ui!ClearKeyboardEvent
  <2>2. uiEvents' \subseteq UiAllEvents /\ keys = <<>> BY <1>1, <2>1 DEF UiIInv, UiKeysInv
  <2>3. Ui!TypeOK' BY <1>1, <1>2, <2>1, <2>2, UiTypedNext
  <2>4. UiChangeInv' BY <1>2, <2>1 DEF UiIInv, UiChangeInv
  <2>5. UiKeysInv' BY <1>2, <2>1, <2>2 DEF UiIInv, UiKeysInv
  <2>6. UiTimerInv' BY <1>2, <2>1 DEF UiIInv, UiTimerInv
  <2>7. Ui!ControllerFollowsAlarm' BY <1>2, <2>1 DEF UiIInv, Ui!ControllerFollowsAlarm
  <2>8. Ui!ScreenFollowsController' BY <1>2, <2>1, <2>2 DEF UiIInv, Ui!ScreenFollowsController,
      Ui!CHANGED_EVENTS
  <2> QED BY <1>3, <2>3, <2>4, <2>5, <2>6, <2>7, <2>8 DEF UiIInv
<1> QED BY <1>4, <1>5, <1>6, <1>7

\* service_ui_events() follows the alarm.
LEMMA UiFollowAlarmStep == ASSUME UiIInv, Ui!FollowAlarm PROVE UiIInv'
<1>1. /\ armed \in BOOLEAN /\ untold \in BOOLEAN /\ controller \in UiControllers
      /\ run_activity_timer \in BOOLEAN /\ ui_active \in BOOLEAN /\ delaying \in BOOLEAN
      /\ suspended \in Seq(UiWaiting)
      /\ seconds \in 0..AlarmDelay /\ signal \in BOOLEAN /\ uiEvents \subseteq UiAllEvents
      /\ keys \in Seq(UiControllers) /\ Len(keys) <= Ui!KEYBOARD_QUEUE_LENGTH
      /\ activity_timer \in BOOLEAN /\ delay_timer \in BOOLEAN
      /\ service \in {"waits", "alarm", "changes", "no_key"}
      /\ shown \in UiControllers /\ lit \in BOOLEAN
  BY UiTyped DEF UiIInv
<1>2. /\ service = "alarm" /\ service' = "waits"
      /\ UNCHANGED <<armed, untold, seconds, signal, keys, activity_timer, delay_timer, shown, lit>>
  BY DEF Ui!FollowAlarm, Ui!alarmV, Ui!timersV, Ui!displayV
<1>3. CASE armed /\ controller # "alarm_disabler" /\ Ui!DisablerOverDesktop
    /\ uiEvents' = uiEvents \cup {"INVOKE"}
  <2>1. /\ suspended' \in Seq(UiWaiting) /\ UiPathInv'
        /\ controller' = "alarm_disabler" /\ run_activity_timer' = FALSE /\ delaying' = FALSE
        /\ ui_active' = FALSE
    BY <1>3, UiDisablerPath DEF UiIInv
  <2>2. controller' \in UiControllers /\ uiEvents' \subseteq UiAllEvents
    BY <1>1, <1>3, <2>1 DEF UiControllers, UiAllEvents, Ui!CHANGED_EVENTS
  <2>3. Ui!TypeOK' BY <1>1, <1>2, <2>1, <2>2, UiTypedNext
  <2>4. UiChangeInv' BY <1>2, <1>3, <2>1 DEF UiChangeInv
  <2>5. UiKeysInv' BY <1>2, <1>3 DEF UiIInv, UiKeysInv
  <2>6. UiTimerInv' BY <1>2, <1>3 DEF UiIInv, UiTimerInv
  <2>7. Ui!ControllerFollowsAlarm' BY <1>2, <1>3, <2>1 DEF Ui!ControllerFollowsAlarm
  <2>8. Ui!ScreenFollowsController' BY <1>3 DEF Ui!ScreenFollowsController, Ui!CHANGED_EVENTS
  <2> QED BY <2>1, <2>3, <2>4, <2>5, <2>6, <2>7, <2>8 DEF UiIInv
<1>4. CASE ~armed /\ controller # "desktop" /\ Ui!GiveBackTo(1) /\ uiEvents' = uiEvents \cup {"RESUME"}
  <2>0. 1 \in 1..Len(suspended)
    <3>1. Len(suspended) \in Nat /\ Len(suspended) # 0 BY <1>1, <1>4, LenProperties DEF UiIInv, UiPathInv
    <3> QED BY <3>1
  <2>1. /\ suspended' \in Seq(UiWaiting) /\ UiPathInv'
        /\ controller' = "desktop" /\ controller' \in UiControllers /\ controller' \in UiInvokers
        /\ run_activity_timer' \in BOOLEAN /\ delaying' \in BOOLEAN /\ ui_active' = FALSE
        /\ delaying' = (controller' \in Ui!Refreshes)
    BY <1>4, <2>0, UiGiveBackPath DEF UiIInv
  <2>2. uiEvents' \subseteq UiAllEvents BY <1>1, <1>4 DEF UiAllEvents, Ui!CHANGED_EVENTS
  <2>3. Ui!TypeOK' BY <1>1, <1>2, <2>1, <2>2, UiTypedNext
  <2>4. UiChangeInv' BY <1>2, <2>1 DEF UiChangeInv
  <2>5. UiKeysInv' BY <1>2, <1>4 DEF UiIInv, UiKeysInv
  <2>6. UiTimerInv' BY <1>2, <1>4 DEF UiIInv, UiTimerInv
  <2>7. Ui!ControllerFollowsAlarm' BY <1>2, <1>4, <2>1 DEF Ui!ControllerFollowsAlarm
  <2>8. Ui!ScreenFollowsController' BY <1>4 DEF Ui!ScreenFollowsController, Ui!CHANGED_EVENTS
  <2> QED BY <2>1, <2>3, <2>4, <2>5, <2>6, <2>7, <2>8 DEF UiIInv
<1>5. CASE controller = (IF armed THEN "alarm_disabler" ELSE "desktop")
    /\ UNCHANGED <<Ui!controlV, uiEvents>>
  <2>1. UNCHANGED <<controller, run_activity_timer, ui_active, delaying, suspended, uiEvents>>
    BY <1>5 DEF Ui!controlV
  <2>2. Ui!TypeOK' BY <1>1, <1>2, <2>1, UiTypedNext
  <2>3. UiPathInv' BY <2>1 DEF UiIInv, UiPathInv
  <2>4. UiChangeInv' BY <1>2, <2>1 DEF UiIInv, UiChangeInv
  <2>5. UiKeysInv' BY <1>2, <2>1 DEF UiIInv, UiKeysInv
  <2>6. UiTimerInv' BY <1>2, <2>1 DEF UiIInv, UiTimerInv
  <2>7. Ui!ControllerFollowsAlarm' BY <1>1, <1>2, <1>5, <2>1 DEF Ui!ControllerFollowsAlarm
  <2>8. Ui!ScreenFollowsController' BY <1>2, <2>1 DEF UiIInv, Ui!ScreenFollowsController
  <2> QED BY <2>2, <2>3, <2>4, <2>5, <2>6, <2>7, <2>8 DEF UiIInv
<1> QED BY <1>3, <1>4, <1>5 DEF Ui!FollowAlarm

\* Controller::invoke() and Controller::resume() bring screen and timers in line.
LEMMA UiActivateStep == ASSUME UiAssumed, UiIInv, Ui!Invoke \/ Ui!Resume PROVE UiIInv'
<1>1. /\ armed \in BOOLEAN /\ untold \in BOOLEAN /\ controller \in UiControllers
      /\ run_activity_timer \in BOOLEAN /\ ui_active \in BOOLEAN /\ delaying \in BOOLEAN
      /\ suspended \in Seq(UiWaiting)
      /\ seconds \in 0..AlarmDelay /\ signal \in BOOLEAN /\ uiEvents \subseteq UiAllEvents
      /\ keys \in Seq(UiControllers) /\ Len(keys) <= Ui!KEYBOARD_QUEUE_LENGTH
      /\ activity_timer \in BOOLEAN /\ delay_timer \in BOOLEAN
      /\ service \in {"waits", "alarm", "changes", "no_key"}
      /\ shown \in UiControllers /\ lit \in BOOLEAN
  BY UiTyped DEF UiIInv
<1>2. /\ service = "changes" /\ service' = "waits"
      /\ uiEvents' = uiEvents \ (Ui!CHANGED_EVENTS \cup {"KEYBOARD"} \cup Ui!TIMER_EVENTS)
      /\ ui_active' = TRUE /\ lit' = TRUE /\ shown' = controller
      /\ activity_timer' = run_activity_timer' /\ delay_timer' = delaying'
      /\ UNCHANGED <<armed, untold, controller, suspended, keys>>
  BY DEF Ui!Invoke, Ui!Resume, Ui!Handled, Ui!Shows, Ui!alarmV
<1>3. keys = <<>> BY <1>2 DEF UiIInv, UiKeysInv
<1>4. /\ run_activity_timer' \in BOOLEAN /\ signal' \in BOOLEAN /\ seconds' \in 0..AlarmDelay
      /\ delaying' = (controller \in Ui!Refreshes)
      /\ controller = "alarm_enabler" => seconds' # 0
  <2>1. CASE Ui!Invoke
    <3>1. signal' \in BOOLEAN BY <1>1, <2>1 DEF Ui!Invoke
    <3>2. run_activity_timer' \in BOOLEAN BY Zenon, <2>1 DEF Ui!Invoke
    <3>3. delaying' = (controller \in Ui!Refreshes) BY <2>1 DEF Ui!Invoke
    <3>4. controller = "alarm_enabler" => seconds' # 0
      <4>1. seconds' = IF controller = "alarm_enabler" THEN AlarmDelay ELSE seconds BY <2>1 DEF Ui!Invoke
      <4> QED BY <1>1, <4>1 DEF UiAssumed
    <3>5. seconds' \in 0..AlarmDelay
      <4>1. seconds' = IF controller = "alarm_enabler" THEN AlarmDelay ELSE seconds BY <2>1 DEF Ui!Invoke
      <4> QED BY <1>1, <4>1 DEF UiAssumed
    <3> QED BY Zenon, <3>1, <3>2, <3>3, <3>4, <3>5
  <2>2. CASE Ui!Resume
    <3>1. "INVOKE" \notin uiEvents /\ UNCHANGED <<run_activity_timer, delaying, seconds, signal>>
      BY <2>2 DEF Ui!Resume
    <3>2. "RESUME" \in uiEvents BY <1>2, <3>1 DEF UiIInv, UiChangeInv, Ui!CHANGED_EVENTS
    <3>3. controller # "alarm_enabler" BY <3>1, <3>2 DEF UiIInv, UiChangeInv, UiInvokers
    <3>4. delaying = (controller \in Ui!Refreshes) BY Zenon, <3>1 DEF UiIInv, UiChangeInv
    <3> QED BY <1>1, <3>1, <3>3, <3>4
  <2> QED BY <2>1, <2>2
<1>5. delaying' \in BOOLEAN BY <1>4
<1>6. Ui!TypeOK'
  <2>1. uiEvents' \subseteq UiAllEvents BY <1>1, <1>2
  <2>2. activity_timer' \in BOOLEAN /\ delay_timer' \in BOOLEAN BY <1>2, <1>4, <1>5
  <2> QED BY <1>1, <1>2, <1>4, <1>5, <2>1, <2>2, UiTypedNext
<1>7. UiPathInv' BY <1>2 DEF UiIInv, UiPathInv
<1>8. /\ "ACTIVITY" \notin uiEvents' /\ "DELAY" \notin uiEvents' /\ "INVOKE" \notin uiEvents'
      /\ "RESUME" \notin uiEvents'
      /\ "ALARM" \in uiEvents' <=> "ALARM" \in uiEvents
  BY <1>2 DEF Ui!CHANGED_EVENTS, Ui!TIMER_EVENTS
<1>9. UiChangeInv' BY <1>2, <1>4, <1>8 DEF UiChangeInv
<1>10. UiKeysInv' BY <1>2, <1>3 DEF UiKeysInv
<1>11. UiTimerInv' BY <1>8 DEF UiTimerInv
<1>12. Ui!ControllerFollowsAlarm' BY <1>2, <1>8 DEF UiIInv, Ui!ControllerFollowsAlarm
<1>13. Ui!ScreenFollowsController'
  <2>1. IF run_activity_timer' THEN ui_active' => activity_timer' \/ "ACTIVITY" \in uiEvents'
                               ELSE ui_active' /\ ~activity_timer' /\ "ACTIVITY" \notin uiEvents'
    BY Zenon, <1>2, <1>8
  <2>2. delay_timer' <=> controller \in Ui!Refreshes BY <1>2, <1>4
  <2>3. (delay_timer' \/ "DELAY" \in uiEvents') <=>
            controller' \in Ui!Refreshes /\ ~(controller' = "alarm_enabler" /\ seconds' = 0)
    BY <1>2, <1>4, <1>8, <2>2
  <2>4. \A k \in DOMAIN keys' : keys'[k] = controller' BY <1>2, <1>3
  <2> QED BY <1>2, <1>3, <2>1, <2>3, <2>4 DEF Ui!ScreenFollowsController
<1> QED BY <1>6, <1>7, <1>9, <1>10, <1>11, <1>12, <1>13 DEF UiIInv

\* The display goes out.
LEMMA UiServeActivityStep == ASSUME UiIInv, Ui!ServeActivity PROVE UiIInv'
<1>1. /\ armed \in BOOLEAN /\ untold \in BOOLEAN /\ controller \in UiControllers
      /\ run_activity_timer \in BOOLEAN /\ ui_active \in BOOLEAN /\ delaying \in BOOLEAN
      /\ suspended \in Seq(UiWaiting)
      /\ seconds \in 0..AlarmDelay /\ signal \in BOOLEAN /\ uiEvents \subseteq UiAllEvents
      /\ keys \in Seq(UiControllers) /\ Len(keys) <= Ui!KEYBOARD_QUEUE_LENGTH
      /\ activity_timer \in BOOLEAN /\ delay_timer \in BOOLEAN
      /\ service \in {"waits", "alarm", "changes", "no_key"}
      /\ shown \in UiControllers /\ lit \in BOOLEAN
  BY UiTyped DEF UiIInv
<1>2. /\ service = "waits" /\ "ALARM" \notin uiEvents /\ uiEvents \cap Ui!CHANGED_EVENTS = {}
      /\ "ACTIVITY" \in uiEvents
      /\ uiEvents' = uiEvents \ {"ACTIVITY"} /\ ui_active' = FALSE /\ lit' = FALSE
      /\ UNCHANGED <<armed, untold, controller, run_activity_timer, delaying, suspended, seconds, signal, keys,
                     activity_timer, delay_timer, service, shown>>
  <2>1. Ui!Serves(3) /\ uiEvents \cap {"ACTIVITY"} # {} BY DEF Ui!ServeActivity, Ui!Serves, Ui!ServiceOrder
  <2> QED BY <2>1, UiServed DEF Ui!ServeActivity, Ui!alarmV, Ui!timersV
<1>3. uiEvents' \subseteq UiAllEvents BY <1>1, <1>2
<1>4. Ui!TypeOK' BY <1>1, <1>2, <1>3, UiTypedNext
<1>5. UiPathInv' BY <1>2 DEF UiIInv, UiPathInv
<1>6. UiChangeInv' BY <1>2 DEF UiIInv, UiChangeInv
<1>7. UiKeysInv' BY <1>2 DEF UiIInv, UiKeysInv
<1>8. UiTimerInv' BY <1>2 DEF UiIInv, UiTimerInv
<1>9. Ui!ControllerFollowsAlarm' BY <1>2 DEF UiIInv, Ui!ControllerFollowsAlarm
<1>10. Ui!ScreenFollowsController'
  <2>1. run_activity_timer BY <1>2 DEF UiIInv, Ui!ScreenFollowsController
  <2> QED BY <1>2, <2>1 DEF UiIInv, Ui!ScreenFollowsController
<1> QED BY <1>4, <1>5, <1>6, <1>7, <1>8, <1>9, <1>10 DEF UiIInv

\* A second has passed for the controller in control.
LEMMA UiServeDelayStep == ASSUME UiAssumed, UiIInv, Ui!ServeDelay PROVE UiIInv'
<1>1. /\ armed \in BOOLEAN /\ untold \in BOOLEAN /\ controller \in UiControllers
      /\ run_activity_timer \in BOOLEAN /\ ui_active \in BOOLEAN /\ delaying \in BOOLEAN
      /\ suspended \in Seq(UiWaiting)
      /\ seconds \in 0..AlarmDelay /\ signal \in BOOLEAN /\ uiEvents \subseteq UiAllEvents
      /\ keys \in Seq(UiControllers) /\ Len(keys) <= Ui!KEYBOARD_QUEUE_LENGTH
      /\ activity_timer \in BOOLEAN /\ delay_timer \in BOOLEAN
      /\ service \in {"waits", "alarm", "changes", "no_key"}
      /\ shown \in UiControllers /\ lit \in BOOLEAN
  BY UiTyped DEF UiIInv
<1>2. /\ service = "waits" /\ "ALARM" \notin uiEvents /\ uiEvents \cap Ui!CHANGED_EVENTS = {}
      /\ "ACTIVITY" \notin uiEvents /\ "DELAY" \in uiEvents
      /\ UNCHANGED <<untold, controller, delaying, suspended, keys, service, shown>>
  BY UiServed DEF Ui!ServeDelay
<1>3. ~delay_timer /\ controller \in Ui!Refreshes /\ ~(controller = "alarm_enabler" /\ seconds = 0)
  BY <1>2 DEF UiIInv, UiTimerInv, Ui!ScreenFollowsController
<1>4. /\ shown = controller /\ lit = ui_active
      /\ IF run_activity_timer THEN ui_active => activity_timer ELSE ui_active /\ ~activity_timer
      /\ \A k \in DOMAIN keys : keys[k] = controller
      /\ keys # <<>> => "KEYBOARD" \in uiEvents
  BY <1>2 DEF UiIInv, Ui!ScreenFollowsController
<1>5. UiPathInv' BY <1>2 DEF UiIInv, UiPathInv
<1>6. CASE Ui!DesktopElapsed
  <2>1. /\ controller = "desktop" /\ signal' \in BOOLEAN /\ delay_timer' = TRUE
        /\ UNCHANGED <<armed, seconds>>
    BY <1>6 DEF Ui!DesktopElapsed
  <2>2. /\ uiEvents' = uiEvents \ {"DELAY"} \/ uiEvents' = uiEvents \ Ui!TIMER_EVENTS
        /\ run_activity_timer' \in BOOLEAN /\ activity_timer' \in BOOLEAN
        /\ ui_active' \in BOOLEAN /\ lit' \in BOOLEAN /\ lit' = ui_active'
        /\ IF run_activity_timer' THEN ui_active' => activity_timer' ELSE ui_active' /\ ~activity_timer'
    <3>1. CASE signal' = signal
      <4>1. /\ uiEvents' = uiEvents \ {"DELAY"}
            /\ UNCHANGED <<run_activity_timer, ui_active, activity_timer, lit>>
        BY <1>6, <3>1 DEF Ui!DesktopElapsed
      <4> QED BY <1>1, <1>4, <4>1
    <3>2. CASE signal' # signal
      <4>1. /\ run_activity_timer' = signal' /\ activity_timer' = signal'
            /\ ui_active' = (ui_active \/ ~signal') /\ lit' = (lit \/ ~signal')
            /\ uiEvents' = uiEvents \ (IF signal' THEN {"DELAY"} ELSE Ui!TIMER_EVENTS)
        BY <1>6, <3>2 DEF Ui!DesktopElapsed
      <4>2. ui_active' \in BOOLEAN /\ lit' \in BOOLEAN /\ lit' = ui_active' BY Zenon, <1>4, <4>1
      <4> QED BY <2>1, <4>1, <4>2
    <3> QED BY <3>1, <3>2
  <2>3. /\ uiEvents' \subseteq UiAllEvents /\ uiEvents' \cap Ui!CHANGED_EVENTS = {}
        /\ "DELAY" \notin uiEvents'
        /\ "ACTIVITY" \notin uiEvents' /\ "ALARM" \notin uiEvents'
        /\ "KEYBOARD" \in uiEvents <=> "KEYBOARD" \in uiEvents'
    BY <1>1, <1>2, <2>2 DEF Ui!TIMER_EVENTS
  <2>4. Ui!TypeOK' BY <1>1, <1>2, <2>1, <2>2, <2>3, UiTypedNext
  <2>5. UiChangeInv'
    <3>1. "INVOKE" \notin uiEvents /\ "RESUME" \notin uiEvents' BY <1>2, <2>3 DEF Ui!CHANGED_EVENTS
    <3> QED BY <1>2, <3>1 DEF UiIInv, UiChangeInv
  <2>6. UiKeysInv' BY <1>2, <1>4, <2>3 DEF UiKeysInv
  <2>7. UiTimerInv' BY <2>3 DEF UiTimerInv
  <2>8. Ui!ControllerFollowsAlarm' BY <1>2, <2>1 DEF UiIInv, Ui!ControllerFollowsAlarm
  <2>9. Ui!ScreenFollowsController'
    BY <1>2, <1>4, <2>1, <2>2, <2>3 DEF Ui!ScreenFollowsController, Ui!Refreshes
  <2> QED BY <1>5, <2>4, <2>5, <2>6, <2>7, <2>8, <2>9 DEF UiIInv
<1>7. CASE Ui!EnablerElapsed
  <2>1. /\ controller = "alarm_enabler" /\ seconds' = seconds - 1
        /\ UNCHANGED <<run_activity_timer, ui_active, activity_timer, lit, signal>>
    BY <1>7 DEF Ui!EnablerElapsed
  <2>2. seconds \in Int /\ seconds > 0 BY <1>1, <1>3, <2>1
  <2>3. seconds' \in 0..AlarmDelay BY <1>1, <2>1, <2>2 DEF UiAssumed
  <2>4. /\ armed' \in BOOLEAN /\ delay_timer' = (seconds' # 0)
        /\ uiEvents' = (uiEvents \ {"DELAY"}) \cup (IF seconds' = 0 THEN {"ALARM"} ELSE {})
        /\ seconds' # 0 => armed' = armed
    BY <1>1, <1>3, <1>7 DEF Ui!EnablerElapsed
  <2>5. /\ uiEvents' \subseteq UiAllEvents /\ uiEvents' \cap Ui!CHANGED_EVENTS = {}
        /\ "DELAY" \notin uiEvents'
        /\ "ACTIVITY" \notin uiEvents'
        /\ "ALARM" \in uiEvents' <=> seconds' = 0
        /\ "KEYBOARD" \in uiEvents <=> "KEYBOARD" \in uiEvents'
    BY <1>1, <1>2, <2>4 DEF Ui!CHANGED_EVENTS, UiAllEvents
  <2>6. delay_timer' \in BOOLEAN BY <2>4
  <2>7. Ui!TypeOK' BY <1>1, <1>2, <2>1, <2>3, <2>4, <2>5, <2>6, UiTypedNext
  <2>8. UiChangeInv'
    <3>1. "INVOKE" \notin uiEvents /\ "RESUME" \notin uiEvents' BY <1>2, <2>5 DEF Ui!CHANGED_EVENTS
    <3> QED BY <1>2, <3>1 DEF UiIInv, UiChangeInv
  <2>9. UiKeysInv' BY <1>2, <1>4, <2>5 DEF UiKeysInv
  <2>10. UiTimerInv' BY <2>5 DEF UiTimerInv
  <2>11. Ui!ControllerFollowsAlarm' BY <1>2, <2>4, <2>5 DEF UiIInv, Ui!ControllerFollowsAlarm
  <2>12. Ui!ScreenFollowsController'
    <3>1. (delay_timer' \/ "DELAY" \in uiEvents') <=>
             controller' \in Ui!Refreshes /\ ~(controller' = "alarm_enabler" /\ seconds' = 0)
      BY <1>2, <1>3, <2>1, <2>4, <2>5
    <3> QED BY <1>2, <1>4, <2>1, <2>5, <3>1 DEF Ui!ScreenFollowsController
  <2> QED BY <1>5, <2>7, <2>8, <2>9, <2>10, <2>11, <2>12 DEF UiIInv
<1>8. CASE Ui!OthersElapsed
  <2>1. /\ controller = "zone_viewer" /\ uiEvents' = uiEvents \ {"DELAY"} /\ delay_timer' = TRUE
        /\ UNCHANGED <<armed, seconds, run_activity_timer, ui_active, activity_timer, lit, signal>>
    BY <1>3, <1>8 DEF Ui!OthersElapsed, Ui!Refreshes
  <2>2. uiEvents' \subseteq UiAllEvents BY <1>1, <2>1
  <2>3. Ui!TypeOK' BY <1>1, <1>2, <2>1, <2>2, UiTypedNext
  <2>4. UiChangeInv' BY <1>2, <2>1 DEF UiIInv, UiChangeInv
  <2>5. UiKeysInv' BY <1>2, <2>1 DEF UiIInv, UiKeysInv
  <2>6. UiTimerInv' BY <2>1 DEF UiTimerInv
  <2>7. Ui!ControllerFollowsAlarm' BY <1>2, <2>1 DEF UiIInv, Ui!ControllerFollowsAlarm
  <2>8. Ui!ScreenFollowsController' BY <1>2, <1>3, <1>4, <2>1 DEF Ui!ScreenFollowsController
  <2> QED BY <1>5, <2>3, <2>4, <2>5, <2>6, <2>7, <2>8 DEF UiIInv
<1> QED BY <1>6, <1>7, <1>8 DEF Ui!ServeDelay

\* A key is handled by the controller for which it was pressed.
LEMMA UiServeKeyStep == ASSUME UiIInv, Ui!ServeKey PROVE UiIInv'
<1>1. /\ armed \in BOOLEAN /\ untold \in BOOLEAN /\ controller \in UiControllers
      /\ run_activity_timer \in BOOLEAN /\ ui_active \in BOOLEAN /\ delaying \in BOOLEAN
      /\ suspended \in Seq(UiWaiting)
      /\ seconds \in 0..AlarmDelay /\ signal \in BOOLEAN /\ uiEvents \subseteq UiAllEvents
      /\ keys \in Seq(UiControllers) /\ Len(keys) <= Ui!KEYBOARD_QUEUE_LENGTH
      /\ activity_timer \in BOOLEAN /\ delay_timer \in BOOLEAN
      /\ service \in {"waits", "alarm", "changes", "no_key"}
      /\ shown \in UiControllers /\ lit \in BOOLEAN
  BY UiTyped DEF UiIInv
<1>2. /\ service = "waits" /\ "ALARM" \notin uiEvents /\ uiEvents \cap Ui!CHANGED_EVENTS = {}
      /\ "ACTIVITY" \notin uiEvents /\ "DELAY" \notin uiEvents /\ "KEYBOARD" \in uiEvents
      /\ keys # <<>> /\ keys' = Tail(keys)
      /\ UNCHANGED <<untold, seconds, signal, delay_timer, service, shown>>
  BY UiServed DEF Ui!ServeKey
<1>3. /\ shown = controller /\ lit = ui_active
      /\ IF run_activity_timer THEN ui_active => activity_timer ELSE ui_active /\ ~activity_timer
      /\ delay_timer <=> controller \in Ui!Refreshes /\ ~(controller = "alarm_enabler" /\ seconds = 0)
      /\ \A k \in DOMAIN keys : keys[k] = controller
      /\ delaying = (controller \in Ui!Refreshes)
  BY <1>2 DEF UiIInv, Ui!ScreenFollowsController, UiChangeInv, Ui!CHANGED_EVENTS
<1>4. /\ keys' \in Seq(UiControllers) /\ Len(keys') <= Ui!KEYBOARD_QUEUE_LENGTH
      /\ \A k \in DOMAIN keys' : keys'[k] = controller
  <2>1. /\ keys' \in Seq(UiControllers) /\ Len(keys') = Len(keys) - 1
        /\ \A k \in 1..Len(keys') : keys'[k] = keys[k + 1]
    BY <1>1, <1>2, HeadTailProperties
  <2>2. Len(keys) \in Nat /\ DOMAIN keys = 1..Len(keys) /\ DOMAIN keys' = 1..Len(keys')
    BY <1>1, <2>1, LenProperties
  <2> QED BY <1>1, <1>3, <2>1, <2>2 DEF Ui!KEYBOARD_QUEUE_LENGTH
<1>5. ASSUME NEW changed \in SUBSET {"INVOKE", "RESUME", "ALARM"}, Ui!OnUiActivity(changed)
      PROVE  /\ activity_timer' = (run_activity_timer \/ activity_timer) /\ activity_timer' \in BOOLEAN
             /\ uiEvents' = uiEvents \cup changed /\ uiEvents' \subseteq UiAllEvents
             /\ lit' = TRUE
  <2>1. activity_timer' = (run_activity_timer \/ activity_timer) /\ lit' = TRUE BY <1>5 DEF Ui!OnUiActivity
  <2>2. uiEvents' = (IF run_activity_timer THEN uiEvents \ {"ACTIVITY"} ELSE uiEvents) \cup changed
    BY <1>5 DEF Ui!OnUiActivity
  <2>3. uiEvents \ {"ACTIVITY"} = uiEvents BY <1>2
  <2>4. uiEvents' = uiEvents \cup changed BY <2>2, <2>3
  <2>5. uiEvents' \subseteq UiAllEvents BY <1>1, <1>5, <2>4 DEF UiAllEvents, Ui!CHANGED_EVENTS
  <2> QED BY <1>1, <2>1, <2>4, <2>5
<1>6. CASE Ui!Stay
  <2>1. /\ ui_active' = TRUE /\ Ui!OnUiActivity({})
        /\ UNCHANGED <<armed, controller, run_activity_timer, delaying, suspended>>
    BY <1>6 DEF Ui!Stay
  <2>2. /\ activity_timer' = (run_activity_timer \/ activity_timer) /\ activity_timer' \in BOOLEAN
        /\ uiEvents' = uiEvents /\ lit' = TRUE
    <3>1. {} \in SUBSET {"INVOKE", "RESUME", "ALARM"} OBVIOUS
    <3>2. /\ activity_timer' = (run_activity_timer \/ activity_timer) /\ activity_timer' \in BOOLEAN
          /\ uiEvents' = uiEvents \cup {} /\ lit' = TRUE
      BY <1>5, <2>1, <3>1
    <3> QED BY <3>2
  <2>3. Ui!TypeOK' BY <1>1, <1>2, <1>4, <2>1, <2>2, UiTypedNext
  <2>4. UiPathInv' BY <2>1 DEF UiIInv, UiPathInv
  <2>5. UiChangeInv' BY <1>2, <2>1, <2>2 DEF UiIInv, UiChangeInv
  <2>6. UiKeysInv' BY <1>2, <2>2 DEF UiKeysInv
  <2>7. UiTimerInv' BY <1>2, <2>2 DEF UiTimerInv
  <2>8. Ui!ControllerFollowsAlarm' BY <1>2, <2>1, <2>2 DEF UiIInv, Ui!ControllerFollowsAlarm
  <2>9. Ui!ScreenFollowsController' BY <1>2, <1>3, <1>4, <2>1, <2>2 DEF Ui!ScreenFollowsController
  <2> QED BY <2>3, <2>4, <2>5, <2>6, <2>7, <2>8, <2>9 DEF UiIInv
<1>7. CASE Ui!InvokeNext
  <2>1. /\ Ui!OnUiActivity({"INVOKE"}) /\ armed' = armed
    BY <1>7 DEF Ui!InvokeNext
  <2>2. PICK next \in Ui!Invokes[controller] : Ui!GiveTo(next) BY <1>7 DEF Ui!InvokeNext
  <2>3. /\ suspended' \in Seq(UiWaiting) /\ UiPathInv'
        /\ controller' \in UiControllers \ {"desktop", "alarm_disabler"}
        /\ controller' = "notifier" <=> controller = "alarm_disabler"
    BY <1>3, <2>2, UiGiveToPath DEF UiIInv
  <2>4. controller # "notifier" /\ run_activity_timer' = FALSE /\ ui_active' = FALSE /\ delaying' = FALSE
    BY <1>1, <2>2, UiInvoking DEF Ui!GiveTo, UiInvokers
  <2>5. /\ activity_timer' \in BOOLEAN /\ uiEvents' = uiEvents \cup {"INVOKE"}
        /\ uiEvents' \subseteq UiAllEvents
        /\ lit' = TRUE
    BY <1>5, <2>1
  <2>6. Ui!TypeOK' BY <1>1, <1>2, <1>4, <2>1, <2>3, <2>4, <2>5, UiTypedNext
  <2>7. UiChangeInv' BY <1>2, <2>3, <2>5 DEF UiChangeInv
  <2>8. UiKeysInv' BY <1>2, <2>5 DEF UiKeysInv
  <2>9. UiTimerInv' BY <1>2, <2>5 DEF UiTimerInv
  <2>10. Ui!ControllerFollowsAlarm' BY <1>2, <2>1, <2>3, <2>4, <2>5 DEF UiIInv, Ui!ControllerFollowsAlarm
  <2>11. Ui!ScreenFollowsController' BY <2>5 DEF Ui!ScreenFollowsController, Ui!CHANGED_EVENTS
  <2> QED BY <2>3, <2>6, <2>7, <2>8, <2>9, <2>10, <2>11 DEF UiIInv
<1>8. CASE Ui!YieldBack
  <2>1. /\ Ui!OnUiActivity({"RESUME"}) /\ armed' = armed /\ controller \notin {"desktop", "alarm_disabler"}
        /\ Ui!GiveBackTo(Len(suspended))
    BY <1>8 DEF Ui!YieldBack, Ui!Yields, Ui!Yield
  <2>2. Len(suspended) \in 1..Len(suspended)
    <3>1. Len(suspended) \in Nat /\ Len(suspended) # 0 BY <1>1, <2>1, LenProperties DEF UiIInv, UiPathInv
    <3> QED BY <3>1
  <2>3. /\ suspended' \in Seq(UiWaiting) /\ UiPathInv'
        /\ controller' \in UiControllers /\ controller' \in UiInvokers
        /\ run_activity_timer' \in BOOLEAN /\ delaying' \in BOOLEAN /\ ui_active' = FALSE
        /\ delaying' = (controller' \in Ui!Refreshes)
        /\ controller' = "alarm_disabler" <=> controller = "notifier"
    BY <2>1, <2>2, UiGiveBackPath DEF UiIInv
  <2>4. /\ activity_timer' \in BOOLEAN /\ uiEvents' = uiEvents \cup {"RESUME"}
        /\ uiEvents' \subseteq UiAllEvents
        /\ lit' = TRUE
    BY <1>5, <2>1
  <2>5. controller' # "notifier" BY <2>3 DEF UiInvokers
  <2>6. Ui!TypeOK' BY <1>1, <1>2, <1>4, <2>1, <2>3, <2>4, UiTypedNext
  <2>7. UiChangeInv' BY <1>2, <2>3 DEF UiChangeInv
  <2>8. UiKeysInv' BY <1>2, <2>4 DEF UiKeysInv
  <2>9. UiTimerInv' BY <1>2, <2>4 DEF UiTimerInv
  <2>10. Ui!ControllerFollowsAlarm' BY <1>2, <2>1, <2>3, <2>4, <2>5 DEF UiIInv, Ui!ControllerFollowsAlarm
  <2>11. Ui!ScreenFollowsController' BY <2>4 DEF Ui!ScreenFollowsController, Ui!CHANGED_EVENTS
  <2> QED BY <2>3, <2>6, <2>7, <2>8, <2>9, <2>10, <2>11 DEF UiIInv
<1>9. CASE Ui!Disarm
  <2>1. /\ ui_active /\ armed' = FALSE /\ Ui!OnUiActivity({"ALARM"})
        /\ UNCHANGED <<controller, run_activity_timer, ui_active, delaying, suspended>>
    BY <1>9 DEF Ui!Disarm, Ui!controlV
  <2>2. /\ activity_timer' = (run_activity_timer \/ activity_timer) /\ activity_timer' \in BOOLEAN
        /\ uiEvents' = uiEvents \cup {"ALARM"} /\ uiEvents' \subseteq UiAllEvents /\ lit' = TRUE
    BY <1>5, <2>1
  <2>3. Ui!TypeOK' BY <1>1, <1>2, <1>4, <2>1, <2>2, UiTypedNext
  <2>4. UiPathInv' BY <2>1 DEF UiIInv, UiPathInv
  <2>5. UiChangeInv' BY <1>2, <2>1, <2>2 DEF UiIInv, UiChangeInv
  <2>6. UiKeysInv' BY <1>2, <2>2 DEF UiKeysInv
  <2>7. UiTimerInv' BY <1>2, <2>2 DEF UiTimerInv
  <2>8. Ui!ControllerFollowsAlarm' BY <2>2 DEF Ui!ControllerFollowsAlarm
  <2>9. Ui!ScreenFollowsController'
    BY <1>1, <1>2, <1>3, <1>4, <2>1, <2>2 DEF Ui!ScreenFollowsController, Ui!CHANGED_EVENTS
  <2> QED BY <2>3, <2>4, <2>5, <2>6, <2>7, <2>8, <2>9 DEF UiIInv
<1> QED BY <1>6, <1>7, <1>8, <1>9 DEF Ui!ServeKey

\* No step breaks it.
LEMMA UiNextIInv == ASSUME UiAssumed, UiIInv, [Ui!Next]_Ui!vars PROVE UiIInv'
<1>1. CASE UNCHANGED Ui!vars
  BY <1>1 DEF Ui!vars, Ui!alarmV, Ui!controlV, Ui!timersV, Ui!displayV, UiIInv, Ui!TypeOK, UiPathInv,
      UiChangeInv, UiKeysInv, UiTimerInv,
              Ui!ControllerFollowsAlarm, Ui!ScreenFollowsController
<1> QED BY <1>1, UiPressStep, UiOthersStep, UiBeginStep, UiFollowAlarmStep, UiActivateStep,
    UiServeActivityStep, UiServeDelayStep,
           UiServeKeyStep DEF Ui!Next, Ui!Service

\* The invariant of the interface holds in each of its behaviours.
THEOREM UiInductive == ASSUME UiAssumed PROVE Ui!Spec => []UiIInv
BY UiInitIInv, UiNextIInv, PTL DEF Ui!Spec

\* Its variables keep their types; the keys fit in their queue.
THEOREM UiTypeCorrect == ASSUME UiAssumed PROVE Ui!Spec => []Ui!TypeOK
<1>1. UiIInv => Ui!TypeOK BY DEF UiIInv
<1> QED BY <1>1, UiInductive, PTL

\* ui.cpp: once the service is told, alarm_disabler is in control, or above it the notifier,
\* iff the alarm is armed.
THEOREM ControllerFollows == ASSUME UiAssumed PROVE Ui!Spec => []ControllerFollowsAlarm
<1>1. UiIInv => ControllerFollowsAlarm BY DEF UiIInv, ControllerFollowsAlarm, Ui!ControllerFollowsAlarm
<1> QED BY <1>1, UiInductive, PTL

\* ui.cpp: what is shown, the timers and the keys that wait are those of the controller in
\* control, unless a change of it is still to be told.
THEOREM ScreenFollows == ASSUME UiAssumed PROVE Ui!Spec => []ScreenFollowsController
<1>1. UiIInv => ScreenFollowsController BY DEF UiIInv, ScreenFollowsController, Ui!ScreenFollowsController
<1> QED BY <1>1, UiInductive, PTL

-----------------------------------------------------------------------------
(* The editing of phones.  PhonesPlaceInv relates the place where the list *)
(* is edited to the phone that was chosen.                                 *)

\* There is room for a phone.
PhonesAssumed == MaxPhones \in Nat \ {0}

PhonesNumber == Numbers \cup {NoNumber}

\* A phone of the list is edited, or one is added.
PhonesEditsPhone == screen \in {"phone", "priority"} \/ (screen = "number" /\ edit)
PhonesAddsPhone  == screen = "number" /\ ~edit

\* The place that was chosen is where the list is edited, and the configurer displays it.
PhonesPlaceInv ==
    /\ screen # "menu" => phones_num = phones_count /\ phone_ind <= phones_count
    /\ screen \notin {"menu", "phones"} => chosen = phone_ind
    /\ PhonesEditsPhone => index < phones_count /\ chosen < phones_count
    /\ PhonesEditsPhone /\ screen # "phone" => chosen = index
    /\ PhonesAddsPhone => phone_ind = phones_count
    /\ screen = "priority" => priority >= 1

PhonesIInv == Phones!TypeOK /\ PhonesPlaceInv

\* Removing from, inserting into a sequence, place by place
LEMMA PhonesRemoving ==
    ASSUME NEW S, NEW s \in Seq(S), NEW i \in 1..Len(s)
    PROVE /\ Phones!RemoveAt(s, i) \in Seq(S) /\ Len(Phones!RemoveAt(s, i)) = Len(s) - 1
          /\ \A k \in 1..Len(s) - 1 : Phones!RemoveAt(s, i)[k] = (IF k < i THEN s[k] ELSE s[k + 1])
<1>1. Len(s) \in Nat /\ \A k \in 1..Len(s) : s[k] \in S BY LenProperties, ElementOfSeq
<1>2. /\ SubSeq(s, 1, i - 1) \in Seq(S) /\ Len(SubSeq(s, 1, i - 1)) = i - 1
      /\ \A k \in 1..i - 1 : SubSeq(s, 1, i - 1)[k] = s[k]
  <2>1. \A k \in 1..i - 1 : s[k] \in S BY <1>1
  <2>2. 1 \in Int /\ i - 1 \in Int BY <1>1
  <2> QED BY <1>1, <2>1, <2>2, SubSeqProperties
<1>3. /\ SubSeq(s, i + 1, Len(s)) \in Seq(S) /\ Len(SubSeq(s, i + 1, Len(s))) = Len(s) - i
      /\ \A k \in 1..Len(s) - i : SubSeq(s, i + 1, Len(s))[k] = s[k + i]
  <2>1. \A k \in i + 1..Len(s) : s[k] \in S BY <1>1
  <2>2. i + 1 \in Int /\ Len(s) \in Int BY <1>1
  <2>3. /\ SubSeq(s, i + 1, Len(s)) \in Seq(S)
        /\ Len(SubSeq(s, i + 1, Len(s))) = (IF i + 1 <= Len(s) THEN Len(s) - (i + 1) + 1 ELSE 0)
        /\ \A k \in 1..Len(s) - (i + 1) + 1 : SubSeq(s, i + 1, Len(s))[k] = s[i + 1 + k - 1]
    BY <2>1, <2>2, SubSeqProperties
  <2> QED BY <1>1, <2>3
<1> DEFINE a == SubSeq(s, 1, i - 1)
           b == SubSeq(s, i + 1, Len(s))
<1>4. /\ a \o b \in Seq(S) /\ Len(a \o b) = Len(a) + Len(b)
      /\ \A k \in 1..Len(a) + Len(b) : (a \o b)[k] = IF k <= Len(a) THEN a[k] ELSE b[k - Len(a)]
  BY <1>2, <1>3, ConcatProperties
<1>5. Phones!RemoveAt(s, i) = a \o b BY DEF Phones!RemoveAt
<1>6. Len(a) = i - 1 /\ Len(b) = Len(s) - i BY <1>2, <1>3
<1>7. \A k \in 1..i - 1 : a[k] = s[k] BY <1>2
<1>8. \A k \in 1..Len(s) - i : b[k] = s[k + i] BY <1>3
<1> HIDE DEF a, b
<1>9. Phones!RemoveAt(s, i) \in Seq(S) /\ Len(Phones!RemoveAt(s, i)) = Len(s) - 1
  <2>1. Phones!RemoveAt(s, i) \in Seq(S) /\ Len(Phones!RemoveAt(s, i)) = Len(a) + Len(b) BY <1>4, <1>5
  <2>2. (i - 1) + (Len(s) - i) = Len(s) - 1 BY <1>1
  <2> QED BY <1>6, <2>1, <2>2
<1>10. ASSUME NEW k \in 1..Len(s) - 1 PROVE Phones!RemoveAt(s, i)[k] = (IF k < i THEN s[k] ELSE s[k + 1])
  <2>1. CASE k < i BY <1>1, <1>4, <1>5, <1>6, <1>7, <2>1
  <2>2. CASE ~(k < i)
    <3>1. k - (i - 1) \in 1..Len(s) - i BY <1>1, <2>2
    <3>2. b[k - (i - 1)] = s[k + 1]
      <4>1. b[k - (i - 1)] = s[(k - (i - 1)) + i] BY <1>8, <3>1
      <4>2. (k - (i - 1)) + i = k + 1 BY <1>1
      <4> QED BY <4>1, <4>2
    <3>3. Phones!RemoveAt(s, i)[k] = b[k - (i - 1)] BY <1>1, <1>4, <1>5, <1>6, <2>2
    <3> QED BY <2>2, <3>2, <3>3
  <2> QED BY <2>1, <2>2
<1> QED BY <1>9, <1>10

\* The same for inserting
LEMMA PhonesInserting ==
    ASSUME NEW S, NEW s \in Seq(S), NEW i \in 1..Len(s) + 1, NEW e \in S
    PROVE /\ Phones!InsertAt(s, i, e) \in Seq(S) /\ Len(Phones!InsertAt(s, i, e)) = Len(s) + 1
          /\ \A k \in 1..Len(s) + 1 :
                Phones!InsertAt(s, i, e)[k] = (IF k < i THEN s[k] ELSE IF k = i THEN e ELSE s[k - 1])
<1>1. Len(s) \in Nat /\ \A k \in 1..Len(s) : s[k] \in S BY LenProperties, ElementOfSeq
<1>2. /\ SubSeq(s, 1, i - 1) \in Seq(S) /\ Len(SubSeq(s, 1, i - 1)) = i - 1
      /\ \A k \in 1..i - 1 : SubSeq(s, 1, i - 1)[k] = s[k]
  <2>1. \A k \in 1..i - 1 : s[k] \in S BY <1>1
  <2>2. 1 \in Int /\ i - 1 \in Int BY <1>1
  <2> QED BY <1>1, <2>1, <2>2, SubSeqProperties
<1>3. /\ SubSeq(s, i, Len(s)) \in Seq(S) /\ Len(SubSeq(s, i, Len(s))) = Len(s) - i + 1
      /\ \A k \in 1..Len(s) - i + 1 : SubSeq(s, i, Len(s))[k] = s[k + i - 1]
  <2>1. \A k \in i..Len(s) : s[k] \in S BY <1>1
  <2>2. i \in Int /\ Len(s) \in Int BY <1>1
  <2>3. /\ SubSeq(s, i, Len(s)) \in Seq(S)
        /\ Len(SubSeq(s, i, Len(s))) = (IF i <= Len(s) THEN Len(s) - i + 1 ELSE 0)
        /\ \A k \in 1..Len(s) - i + 1 : SubSeq(s, i, Len(s))[k] = s[i + k - 1]
    BY <2>1, <2>2, SubSeqProperties
  <2> QED BY <1>1, <2>3
<1>4. <<e>> \in Seq(S) /\ Len(<<e>>) = 1 /\ <<e>>[1] = e OBVIOUS
<1> DEFINE a == SubSeq(s, 1, i - 1)
           b == SubSeq(s, i, Len(s))
           c == a \o <<e>>
<1>5. /\ c \in Seq(S) /\ Len(c) = i
      /\ \A k \in 1..i : c[k] = IF k < i THEN s[k] ELSE e
  <2>1. /\ a \o <<e>> \in Seq(S) /\ Len(a \o <<e>>) = Len(a) + Len(<<e>>)
        /\ \A k \in 1..Len(a) + Len(<<e>>) :
                (a \o <<e>>)[k] = IF k <= Len(a) THEN a[k] ELSE <<e>>[k - Len(a)]
    BY <1>2, <1>4, ConcatProperties
  <2> QED BY <1>1, <1>2, <1>4, <2>1
<1>6. b \in Seq(S) BY <1>3
<1> HIDE DEF c, b
<1>7. /\ c \o b \in Seq(S) /\ Len(c \o b) = Len(c) + Len(b)
      /\ \A k \in 1..Len(c) + Len(b) : (c \o b)[k] = IF k <= Len(c) THEN c[k] ELSE b[k - Len(c)]
  BY <1>5, <1>6, ConcatProperties
<1>8. Phones!InsertAt(s, i, e) = c \o b BY DEF Phones!InsertAt, b, c
<1>9. /\ Phones!InsertAt(s, i, e) \in Seq(S) /\ Len(Phones!InsertAt(s, i, e)) = Len(s) + 1
  <2>1. Len(b) = Len(s) - i + 1 BY <1>3 DEF b
  <2> QED BY <1>1, <1>5, <1>7, <1>8, <2>1
<1>10. ASSUME NEW k \in 1..Len(s) + 1
      PROVE  Phones!InsertAt(s, i, e)[k] = (IF k < i THEN s[k] ELSE IF k = i THEN e ELSE s[k - 1])
  <2>1. Len(b) = Len(s) - i + 1 BY <1>3 DEF b
  <2>2. CASE k <= i BY <1>1, <1>5, <1>7, <1>8, <2>1, <2>2
  <2>3. CASE k > i
    <3>1. k - i \in 1..Len(s) - i + 1 BY <1>1, <2>3
    <3>2. b[k - i] = s[(k - i) + i - 1] BY <1>3, <3>1 DEF b
    <3>3. Phones!InsertAt(s, i, e)[k] = b[k - i] BY <1>1, <1>5, <1>7, <1>8, <2>1, <2>3
    <3> QED BY <1>1, <2>3, <3>2, <3>3
  <2> QED BY <1>1, <2>2, <2>3
<1> QED BY <1>9, <1>10

\* The smaller one of two numbers
LEMMA PhonesSmallerOfTwo ==
    ASSUME NEW a \in Int, NEW b \in Int PROVE Phones!Min({a, b}) = (IF a <= b THEN a ELSE b)
<1> DEFINE m == IF a <= b THEN a ELSE b
<1>1. m \in {a, b} /\ \A y \in {a, b} : m <= y OBVIOUS
<1>2. \A x \in {a, b} : (\A y \in {a, b} : x <= y) => x = m OBVIOUS
<1>3. Phones!Min({a, b}) \in {a, b} /\ \A y \in {a, b} : Phones!Min({a, b}) <= y BY <1>1 DEF Phones!Min
<1> QED BY <1>2, <1>3

\* The list of phones, place by place
LEMMA PhonesListIs ==
    ASSUME PhonesAssumed, Phones!TypeOK
    PROVE /\ Phones!List \in Seq(PhonesNumber) /\ Len(Phones!List) = phones_count
          /\ \A k \in 1..phones_count : Phones!List[k] = phones[k - 1]
<1>1. phones_count \in Nat /\ \A k \in 1..phones_count : phones[k - 1] \in PhonesNumber
  BY DEF Phones!TypeOK, Phones!Indexes, PhonesNumber, PhonesAssumed
<1>2. Phones!List \in [1..phones_count -> PhonesNumber] BY <1>1 DEF Phones!List
<1>3. Phones!List \in Seq(PhonesNumber) BY <1>1, <1>2, SeqDef
<1>4. \A k \in 1..phones_count : Phones!List[k] = phones[k - 1] BY <1>1 DEF Phones!List
<1>5. Len(Phones!List) = phones_count BY <1>1, <1>2, <1>3, LenProperties
<1> QED BY <1>3, <1>4, <1>5

\* The same after a step
LEMMA PhonesListIsNext ==
    ASSUME PhonesAssumed, phones' \in [Phones!Indexes -> PhonesNumber], phones_count' \in 0..MaxPhones
    PROVE /\ Phones!List' \in Seq(PhonesNumber) /\ Len(Phones!List') = phones_count'
          /\ \A k \in 1..phones_count' : Phones!List'[k] = phones'[k - 1]
<1>1. phones_count' \in Nat /\ \A k \in 1..phones_count' : phones'[k - 1] \in PhonesNumber
  BY DEF Phones!Indexes, PhonesNumber, PhonesAssumed
<1>2. Phones!List' \in [1..phones_count' -> PhonesNumber] BY <1>1 DEF Phones!List
<1>3. Phones!List' \in Seq(PhonesNumber) BY <1>1, <1>2, SeqDef
<1>4. \A k \in 1..phones_count' : Phones!List'[k] = phones'[k - 1] BY <1>1 DEF Phones!List
<1>5. Len(Phones!List') = phones_count' BY <1>1, <1>2, <1>3, LenProperties
<1> QED BY <1>3, <1>4, <1>5

\* What is typed, one by one
LEMMA PhonesTyped ==
    Phones!TypeOK <=>
        /\ phones \in [Phones!Indexes -> PhonesNumber] /\ phones_count \in 0..MaxPhones
        /\ screen \in {"menu", "phones", "phone", "number", "priority"}
        /\ phones_num \in 0..MaxPhones /\ phone_ind \in Phones!Indexes /\ index \in Phones!Indexes
        /\ phone_buf \in PhonesNumber /\ edit \in BOOLEAN
        /\ priority \in 0..MaxPhones /\ chosen \in Phones!Indexes
BY Zenon DEF Phones!TypeOK, PhonesNumber

\* The same after a step
LEMMA PhonesTypedNext ==
    ASSUME phones' \in [Phones!Indexes -> PhonesNumber], phones_count' \in 0..MaxPhones,
           screen' \in {"menu", "phones", "phone", "number", "priority"},
           phones_num' \in 0..MaxPhones, phone_ind' \in Phones!Indexes, index' \in Phones!Indexes,
           phone_buf' \in PhonesNumber, edit' \in BOOLEAN,
           priority' \in 0..MaxPhones, chosen' \in Phones!Indexes
    PROVE Phones!TypeOK'
BY Zenon DEF Phones!TypeOK, PhonesNumber

\* Nothing is there at the start.
LEMMA PhonesInitIInv == ASSUME PhonesAssumed, Phones!Init PROVE PhonesIInv
<1>1. phones \in [Phones!Indexes -> PhonesNumber] BY DEF Phones!Init, PhonesNumber
<1>2. /\ phones_count \in 0..MaxPhones /\ phones_num \in 0..MaxPhones /\ priority \in 0..MaxPhones
      /\ phone_ind \in Phones!Indexes /\ index \in Phones!Indexes /\ chosen \in Phones!Indexes
  BY DEF Phones!Init, Phones!Indexes, PhonesAssumed
<1>3. edit \in BOOLEAN /\ phone_buf \in PhonesNumber BY Zenon DEF Phones!Init, PhonesNumber
<1>4. screen \in {"menu", "phones", "phone", "number", "priority"} BY DEF Phones!Init
<1>5. Phones!TypeOK BY <1>1, <1>2, <1>3, <1>4, PhonesTyped
<1>6. PhonesPlaceInv BY DEF Phones!Init, PhonesPlaceInv, PhonesEditsPhone, PhonesAddsPhone
<1> QED BY <1>5, <1>6 DEF PhonesIInv

\* What a step may do to the list
PhonesEdited ==
    /\ Phones!List' # Phones!List => Phones!List' \in Phones!Intended
    /\ screen' = "phones" => phones_num' = phones_count' /\ phone_ind' <= phones_count'
    /\ screen = "priority" /\ screen' = "phone" => phone_ind' = chosen'

\* One that leaves the settings alone leaves the list alone.
LEMMA PhonesSameList == ASSUME UNCHANGED Phones!settingsV PROVE Phones!List' = Phones!List
BY DEF Phones!settingsV, Phones!List

\* Steps that only go from one controller to another or enter something
LEMMA PhonesOthersStep ==
    ASSUME PhonesAssumed, PhonesIInv,
           \/ Phones!EnterConfigurer \/ Phones!MoveUp \/ Phones!MoveDown \/ Phones!Choose
               \/ Phones!ExitConfigurer
           \/ Phones!ChangeNumber \/ Phones!ChangePriority \/ Phones!ExitPhone \/ Phones!EnterNumber
               \/ Phones!CancelNumber
           \/ Phones!EnterPriority \/ Phones!CancelPriority \/ Phones!Armed
    PROVE PhonesIInv' /\ PhonesEdited
<1>1. /\ phones \in [Phones!Indexes -> PhonesNumber] /\ phones_count \in 0..MaxPhones
      /\ screen \in {"menu", "phones", "phone", "number", "priority"}
      /\ phones_num \in 0..MaxPhones /\ phone_ind \in Phones!Indexes /\ index \in Phones!Indexes
      /\ phone_buf \in PhonesNumber /\ edit \in BOOLEAN
      /\ priority \in 0..MaxPhones /\ chosen \in Phones!Indexes
      /\ MaxPhones \in Nat
  BY PhonesTyped DEF PhonesIInv, PhonesAssumed
<1>2. UNCHANGED <<phones, phones_count>> /\ Phones!List' = Phones!List
  <2>1. UNCHANGED Phones!settingsV
    BY DEF Phones!EnterConfigurer, Phones!MoveUp, Phones!MoveDown, Phones!Choose,
        Phones!ExitConfigurer, Phones!ChangeNumber, Phones!ChangePriority, Phones!ExitPhone,
           Phones!EnterNumber, Phones!CancelNumber, Phones!EnterPriority, Phones!CancelPriority,
               Phones!Armed
  <2> QED BY <2>1, PhonesSameList DEF Phones!settingsV
<1>3. CASE Phones!EnterConfigurer \/ Phones!MoveUp \/ Phones!MoveDown \/ Phones!ExitConfigurer
  <2>1. UNCHANGED <<index, phone_buf, edit, priority, chosen>>
    BY <1>3 DEF Phones!EnterConfigurer, Phones!MoveUp, Phones!MoveDown, Phones!ExitConfigurer
  <2>2. /\ screen' \in {"menu", "phones"} /\ phone_ind' \in Phones!Indexes /\ phones_num' \in 0..MaxPhones
        /\ screen' # "menu" => phones_num' = phones_count /\ phone_ind' <= phones_count
        /\ screen # "priority"
    BY <1>1, <1>3 DEF Phones!EnterConfigurer, Phones!MoveUp, Phones!MoveDown, Phones!ExitConfigurer,
        PhonesIInv, PhonesPlaceInv, Phones!Indexes, PhonesAssumed
  <2>3. Phones!TypeOK' BY <1>1, <1>2, <2>1, <2>2, PhonesTypedNext
  <2>4. PhonesPlaceInv' BY <1>2, <2>2 DEF PhonesPlaceInv, PhonesEditsPhone, PhonesAddsPhone
  <2>5. PhonesEdited BY <1>2, <2>2 DEF PhonesEdited
  <2> QED BY <2>3, <2>4, <2>5 DEF PhonesIInv
<1>4. CASE Phones!Choose
  <2>1. /\ screen = "phones" /\ chosen' = phone_ind /\ UNCHANGED <<phones_num, phone_ind, priority>>
    BY <1>4 DEF Phones!Choose
  <2>2. phones_num = phones_count /\ phone_ind <= phones_count BY <2>1 DEF PhonesIInv, PhonesPlaceInv
  <2>3. CASE phone_ind = phones_num
    <3>1. screen' = "number" /\ phone_buf' = NoNumber /\ edit' = FALSE /\ index' = index
      BY <1>4, <2>3 DEF Phones!Choose
    <3>2. phone_buf' \in PhonesNumber BY <3>1 DEF PhonesNumber
    <3>3. Phones!TypeOK' BY <1>1, <1>2, <2>1, <3>1, <3>2, PhonesTypedNext
    <3>4. PhonesPlaceInv' BY <1>2, <2>1, <2>2, <2>3, <3>1 DEF PhonesPlaceInv, PhonesEditsPhone,
        PhonesAddsPhone
    <3>5. PhonesEdited BY <1>2, <2>1, <3>1 DEF PhonesEdited
    <3> QED BY <3>3, <3>4, <3>5 DEF PhonesIInv
  <2>4. CASE phone_ind # phones_num
    <3>1. screen' = "phone" /\ index' = phone_ind /\ phone_buf' = phone_buf /\ edit' = edit
      BY <1>4, <2>4 DEF Phones!Choose
    <3>2. phone_ind < phones_count BY <1>1, <2>2, <2>4 DEF Phones!Indexes
    <3>3. Phones!TypeOK' BY <1>1, <1>2, <2>1, <3>1, PhonesTypedNext
    <3>4. PhonesPlaceInv' BY <1>2, <2>1, <2>2, <3>1, <3>2 DEF PhonesPlaceInv, PhonesEditsPhone,
        PhonesAddsPhone
    <3>5. PhonesEdited BY <1>2, <2>1, <3>1 DEF PhonesEdited
    <3> QED BY <3>3, <3>4, <3>5 DEF PhonesIInv
  <2> QED BY <2>3, <2>4
<1>5. CASE Phones!ChangeNumber \/ Phones!ChangePriority
  <2>1. /\ screen = "phone" /\ chosen = index /\ UNCHANGED <<phones_num, phone_ind, index, chosen>>
    BY <1>5 DEF Phones!ChangeNumber, Phones!ChangePriority, Phones!Chosen, PhonesAssumed
  <2>2. \/ screen' = "number" /\ phone_buf' = phones[index] /\ edit' = TRUE /\ priority' = priority
        \/ screen' = "priority" /\ priority' = index + 1 /\ phone_buf' = phone_buf /\ edit' = edit
    BY <1>5 DEF Phones!ChangeNumber, Phones!ChangePriority
  <2>3. /\ screen' \in {"number", "priority"} /\ phone_buf' \in PhonesNumber /\ edit' \in BOOLEAN
        /\ priority' \in 0..MaxPhones
        /\ screen' = "priority" => priority' >= 1
        /\ screen' = "number" => edit'
    <3>1. phones[index] \in PhonesNumber /\ index + 1 \in 0..MaxPhones /\ index + 1 >= 1 BY <1>1
        DEF Phones!Indexes
    <3>2. CASE screen' = "number" /\ phone_buf' = phones[index] /\ edit' = TRUE /\ priority' = priority
      BY <1>1, <3>1, <3>2
    <3>3. CASE screen' = "priority" /\ priority' = index + 1 /\ phone_buf' = phone_buf /\ edit' = edit
      BY <1>1, <3>1, <3>3
    <3> QED BY <2>2, <3>2, <3>3
  <2>4. Phones!TypeOK' BY <1>1, <1>2, <2>1, <2>3, PhonesTypedNext
  <2>5. PhonesPlaceInv' BY <1>2, <2>1, <2>3 DEF PhonesIInv, PhonesPlaceInv, PhonesEditsPhone,
      PhonesAddsPhone
  <2>6. PhonesEdited BY <1>2, <2>1, <2>3 DEF PhonesEdited
  <2> QED BY <2>4, <2>5, <2>6 DEF PhonesIInv
<1>6. CASE Phones!ExitPhone \/ Phones!Armed
  <2>1. /\ screen # "menu" /\ screen' \in {"phones", "menu"}
        /\ UNCHANGED <<phones_num, phone_ind, index, phone_buf, edit, priority, chosen>>
    BY <1>6 DEF Phones!ExitPhone, Phones!Armed
  <2>2. Phones!TypeOK' BY <1>1, <1>2, <2>1, PhonesTypedNext
  <2>3. PhonesPlaceInv' BY <1>2, <2>1 DEF PhonesIInv, PhonesPlaceInv, PhonesEditsPhone, PhonesAddsPhone
  <2>4. PhonesEdited BY <1>2, <2>1 DEF PhonesIInv, PhonesPlaceInv, PhonesEdited
  <2> QED BY <2>2, <2>3, <2>4 DEF PhonesIInv
<1>7. CASE Phones!EnterNumber \/ Phones!EnterPriority
  <2>1. /\ screen' = screen /\ screen \in {"number", "priority"}
        /\ phone_buf' \in PhonesNumber /\ priority' \in 0..MaxPhones
        /\ screen = "priority" => priority' >= 1
        /\ UNCHANGED <<phones_num, phone_ind, index, edit, chosen>>
    BY <1>1, <1>7 DEF Phones!EnterNumber, Phones!EnterPriority, PhonesNumber
  <2>2. Phones!TypeOK' BY <1>1, <1>2, <2>1, PhonesTypedNext
  <2>3. PhonesPlaceInv' BY <1>2, <2>1 DEF PhonesIInv, PhonesPlaceInv, PhonesEditsPhone, PhonesAddsPhone
  <2>4. PhonesEdited BY <1>2, <2>1 DEF PhonesEdited
  <2> QED BY <2>2, <2>3, <2>4 DEF PhonesIInv
<1>8. CASE Phones!CancelNumber \/ Phones!CancelPriority
  <2>1. \/ screen = "number" /\ screen' = (IF edit THEN "phone" ELSE "phones")
        \/ screen = "priority" /\ screen' = "phone"
    BY <1>8 DEF Phones!CancelNumber, Phones!CancelPriority, Phones!BackFromNumber
  <2>2. UNCHANGED <<phones_num, phone_ind, index, phone_buf, edit, priority, chosen>>
    BY <1>8 DEF Phones!CancelNumber, Phones!CancelPriority
  <2>3. Phones!TypeOK' BY <1>1, <1>2, <2>1, <2>2, PhonesTypedNext
  <2>4. PhonesPlaceInv' BY <1>1, <1>2, <2>1, <2>2 DEF PhonesIInv, PhonesPlaceInv, PhonesEditsPhone,
      PhonesAddsPhone
  <2>5. PhonesEdited BY <1>1, <1>2, <2>1, <2>2 DEF PhonesIInv, PhonesPlaceInv, PhonesEdited
  <2> QED BY <2>3, <2>4, <2>5 DEF PhonesIInv
<1> QED BY <1>3, <1>4, <1>5, <1>6, <1>7, <1>8

\* Deleting removes the phone from the list, or fails.
LEMMA PhonesDeleteStep == ASSUME PhonesAssumed, PhonesIInv, Phones!Delete PROVE PhonesIInv' /\ PhonesEdited
<1>1. /\ phones \in [Phones!Indexes -> PhonesNumber] /\ phones_count \in 0..MaxPhones
      /\ screen \in {"menu", "phones", "phone", "number", "priority"}
      /\ phones_num \in 0..MaxPhones /\ phone_ind \in Phones!Indexes /\ index \in Phones!Indexes
      /\ phone_buf \in PhonesNumber /\ edit \in BOOLEAN
      /\ priority \in 0..MaxPhones /\ chosen \in Phones!Indexes
      /\ MaxPhones \in Nat
  BY PhonesTyped DEF PhonesIInv, PhonesAssumed
<1>2. /\ screen = "phone" /\ chosen = index /\ screen' = "phones"
      /\ UNCHANGED <<index, phone_buf, edit, priority, chosen>>
  BY DEF Phones!Delete, Phones!Chosen, PhonesAssumed
<1>3. phones_num = phones_count /\ phone_ind <= phones_count /\ index < phones_count
  BY <1>2 DEF PhonesIInv, PhonesPlaceInv, PhonesEditsPhone
<1>4. CASE UNCHANGED Phones!settingsV
  <2>1. UNCHANGED <<phones, phones_count, phones_num, phone_ind>> /\ Phones!List' = Phones!List
    BY <1>1, <1>4, PhonesSameList DEF Phones!Delete, Phones!settingsV
  <2>2. Phones!TypeOK' BY <1>1, <1>2, <2>1, PhonesTypedNext
  <2>3. PhonesPlaceInv' BY <1>2, <1>3, <2>1 DEF PhonesPlaceInv, PhonesEditsPhone, PhonesAddsPhone
  <2>4. PhonesEdited BY <1>2, <1>3, <2>1 DEF PhonesEdited
  <2> QED BY <2>2, <2>3, <2>4 DEF PhonesIInv
<1>5. CASE Phones!DeletePhone(index)
  <2>1. /\ phones' = [k \in Phones!Indexes |-> IF k >= index /\ k + 1 < phones_count THEN phones[k + 1] ELSE phones[k]]
        /\ phones_count' = phones_count - 1
    BY <1>5 DEF Phones!DeletePhone
  <2>2. phones' \in [Phones!Indexes -> PhonesNumber] /\ phones_count' \in 0..MaxPhones
    <3>1. ASSUME NEW k \in Phones!Indexes
          PROVE  (IF k >= index /\ k + 1 < phones_count THEN phones[k + 1] ELSE phones[k]) \in PhonesNumber
      BY <1>1, <1>3 DEF Phones!Indexes
    <3>2. phones_count' \in 0..MaxPhones BY <1>1, <1>3, <2>1 DEF Phones!Indexes
    <3> QED BY <2>1, <3>1, <3>2
  <2>3. /\ phones_num' = phones_count'
        /\ phone_ind' = (IF phone_ind > phones_num' THEN phones_num' ELSE phone_ind)
    BY <1>1, <2>1 DEF Phones!Delete
  <2>4. phones_num' \in 0..MaxPhones /\ phone_ind' \in Phones!Indexes /\ phone_ind' <= phones_count'
    BY <1>1, <1>3, <2>1, <2>2, <2>3 DEF Phones!Indexes
  <2>5. Phones!TypeOK' BY <1>1, <1>2, <2>2, <2>4, PhonesTypedNext
  <2>6. PhonesPlaceInv' BY <1>2, <2>3, <2>4 DEF PhonesPlaceInv, PhonesEditsPhone, PhonesAddsPhone
  <2>7. Phones!List' = Phones!RemoveAt(Phones!List, chosen + 1)
    <3>1. /\ Phones!List \in Seq(PhonesNumber) /\ Len(Phones!List) = phones_count
          /\ \A k \in 1..phones_count : Phones!List[k] = phones[k - 1]
      BY PhonesListIs DEF PhonesIInv
    <3>2. /\ Phones!List' \in Seq(PhonesNumber) /\ Len(Phones!List') = phones_count'
          /\ \A k \in 1..phones_count' : Phones!List'[k] = phones'[k - 1]
      BY <2>2, PhonesListIsNext
    <3>3. chosen + 1 \in 1..Len(Phones!List) BY <1>1, <1>2, <1>3, <3>1 DEF Phones!Indexes
    <3>4. /\ Phones!RemoveAt(Phones!List, chosen + 1) \in Seq(PhonesNumber)
          /\ Len(Phones!RemoveAt(Phones!List, chosen + 1)) = Len(Phones!List) - 1
          /\ \A k \in 1..Len(Phones!List) - 1 :
                Phones!RemoveAt(Phones!List, chosen + 1)[k] = (IF k < chosen + 1 THEN Phones!List[k] ELSE Phones!List[k + 1])
      BY <3>1, <3>3, PhonesRemoving
    <3>5. ASSUME NEW k \in 1..Len(Phones!List')
          PROVE Phones!List'[k] = Phones!RemoveAt(Phones!List, chosen + 1)[k]
      <4>1. /\ k - 1 \in Phones!Indexes /\ k \in 1..phones_count' /\ k \in 1..Len(Phones!List) - 1
            /\ k \in 1..phones_count /\ k + 1 \in 1..phones_count
        BY <1>1, <1>3, <2>1, <3>1, <3>2, <3>5 DEF Phones!Indexes
      <4>2. Phones!List'[k] = IF k - 1 >= index
          /\ k - 1 + 1 < phones_count THEN phones[k - 1 + 1] ELSE phones[k - 1]
        BY <2>1, <3>2, <4>1
      <4>3. Phones!RemoveAt(Phones!List, chosen + 1)[k] = (IF k < chosen + 1 THEN phones[k - 1] ELSE phones[k + 1 - 1])
        BY <3>1, <3>4, <4>1
      <4>4. k - 1 + 1 = k /\ k + 1 - 1 = k /\ k < phones_count BY <4>1, <1>1
      <4>5. CASE k - 1 >= index BY <1>1, <1>2, <4>1, <4>2, <4>3, <4>4, <4>5 DEF Phones!Indexes
      <4>6. CASE ~(k - 1 >= index) BY <1>1, <1>2, <4>1, <4>2, <4>3, <4>4, <4>6 DEF Phones!Indexes
      <4> QED BY <4>5, <4>6
    <3>6. Len(Phones!List') = Len(Phones!RemoveAt(Phones!List, chosen + 1)) BY <2>1, <3>1, <3>2, <3>4
    <3> QED BY <3>2, <3>4, <3>5, <3>6, SeqEqual
  <2>8. PhonesEdited BY <1>2, <2>3, <2>4, <2>7 DEF PhonesEdited, Phones!Intended
  <2> QED BY <2>5, <2>6, <2>8 DEF PhonesIInv
<1> QED BY <1>4, <1>5 DEF Phones!Delete, Phones!Sets

\* Accepting a number changes the chosen phone, or adds one, or fails.
LEMMA PhonesAcceptNumberStep == ASSUME PhonesAssumed, PhonesIInv,
    Phones!AcceptNumber PROVE PhonesIInv' /\ PhonesEdited
<1>1. /\ phones \in [Phones!Indexes -> PhonesNumber] /\ phones_count \in 0..MaxPhones
      /\ screen \in {"menu", "phones", "phone", "number", "priority"}
      /\ phones_num \in 0..MaxPhones /\ phone_ind \in Phones!Indexes /\ index \in Phones!Indexes
      /\ phone_buf \in PhonesNumber /\ edit \in BOOLEAN
      /\ priority \in 0..MaxPhones /\ chosen \in Phones!Indexes
      /\ MaxPhones \in Nat
  BY PhonesTyped DEF PhonesIInv, PhonesAssumed
<1>2. /\ screen = "number" /\ screen' = (IF edit THEN "phone" ELSE "phones")
      /\ phones_num' = (IF edit THEN phones_num ELSE phones_count')
      /\ UNCHANGED <<phone_ind, index, phone_buf, edit, priority, chosen>>
  BY DEF Phones!AcceptNumber, Phones!BackFromNumber
<1>3. phones_num = phones_count /\ phone_ind <= phones_count /\ chosen = phone_ind
  BY <1>2 DEF PhonesIInv, PhonesPlaceInv
<1>4. CASE UNCHANGED Phones!settingsV
  <2>1. UNCHANGED <<phones, phones_count>> /\ Phones!List' = Phones!List /\ phones_num' = phones_num
    BY <1>2, <1>3, <1>4, PhonesSameList DEF Phones!settingsV
  <2>2. Phones!TypeOK' BY <1>1, <1>2, <2>1, PhonesTypedNext
  <2>3. PhonesPlaceInv' BY <1>1, <1>2, <2>1 DEF PhonesIInv, PhonesPlaceInv, PhonesEditsPhone,
      PhonesAddsPhone
  <2>4. PhonesEdited BY <1>1, <1>2, <1>3, <2>1 DEF PhonesEdited
  <2> QED BY <2>2, <2>3, <2>4 DEF PhonesIInv
<1>5. CASE edit /\ Phones!SetPhone(index, phone_buf)
  <2>1. phones' = [phones EXCEPT ![index] = phone_buf] /\ phones_count' = phones_count BY <1>5
      DEF Phones!SetPhone
  <2>2. chosen = index /\ index < phones_count BY <1>2, <1>5 DEF PhonesIInv, PhonesPlaceInv,
      PhonesEditsPhone
  <2>3. phones' \in [Phones!Indexes -> PhonesNumber] /\ phones_num' = phones_num BY <1>1, <1>2, <1>5, <2>1
  <2>4. Phones!TypeOK' BY <1>1, <1>2, <1>5, <2>1, <2>3, PhonesTypedNext
  <2>5. PhonesPlaceInv' BY <1>2, <1>3, <1>5, <2>1, <2>2, <2>3 DEF PhonesPlaceInv, PhonesEditsPhone,
      PhonesAddsPhone
  <2>6. Phones!List' = Phones!ReplaceAt(Phones!List, chosen + 1, phone_buf)
    <3>1. /\ Phones!List \in Seq(PhonesNumber) /\ Len(Phones!List) = phones_count
          /\ \A k \in 1..phones_count : Phones!List[k] = phones[k - 1]
      BY PhonesListIs DEF PhonesIInv
    <3>2. /\ Phones!List' \in Seq(PhonesNumber) /\ Len(Phones!List') = phones_count'
          /\ \A k \in 1..phones_count' : Phones!List'[k] = phones'[k - 1]
      BY <1>1, <2>1, <2>3, PhonesListIsNext
    <3>3. chosen + 1 \in 1..Len(Phones!List) BY <1>1, <2>2, <3>1 DEF Phones!Indexes
    <3>4. /\ Phones!ReplaceAt(Phones!List, chosen + 1, phone_buf) \in Seq(PhonesNumber)
          /\ Len(Phones!ReplaceAt(Phones!List, chosen + 1, phone_buf)) = Len(Phones!List)
          /\ \A k \in 1..Len(Phones!List) :
                Phones!ReplaceAt(Phones!List, chosen + 1, phone_buf)[k] = IF k = chosen + 1 THEN phone_buf ELSE Phones!List[k]
      BY <1>1, <3>1, <3>3, ExceptSeq DEF Phones!ReplaceAt
    <3>5. ASSUME NEW k \in 1..Len(Phones!List')
          PROVE Phones!List'[k] = Phones!ReplaceAt(Phones!List, chosen + 1, phone_buf)[k]
      <4>1. k \in 1..phones_count /\ k \in 1..phones_count' /\ k \in 1..Len(Phones!List)
          /\ k - 1 \in Phones!Indexes
        BY <1>1, <2>1, <3>1, <3>2, <3>5 DEF Phones!Indexes
      <4>2. Phones!List'[k] = IF k - 1 = index THEN phone_buf ELSE phones[k - 1] BY <1>1, <2>1, <3>2, <4>1
      <4> QED BY <1>1, <2>2, <3>1, <3>4, <4>1, <4>2 DEF Phones!Indexes
    <3> QED BY <2>1, <3>1, <3>2, <3>4, <3>5, SeqEqual
  <2>7. PhonesEdited BY <1>2, <1>3, <1>5, <2>6 DEF PhonesEdited, Phones!Intended
  <2> QED BY <2>4, <2>5, <2>7 DEF PhonesIInv
<1>6. CASE ~edit /\ Phones!AddPhone(phone_buf)
  <2>1. phones' = [phones EXCEPT ![phones_count] = phone_buf] /\ phones_count' = phones_count + 1
    BY <1>6 DEF Phones!AddPhone
  <2>2. phone_ind = phones_count BY <1>2, <1>6 DEF PhonesIInv, PhonesPlaceInv, PhonesAddsPhone
  <2>3. /\ phones' \in [Phones!Indexes -> PhonesNumber] /\ phones_count' \in 0..MaxPhones
        /\ phones_num' = phones_count'
        /\ phones_count \in Phones!Indexes
    BY <1>1, <1>2, <1>6, <2>1, <2>2 DEF Phones!Indexes
  <2>4. Phones!TypeOK' BY <1>1, <1>2, <1>6, <2>3, PhonesTypedNext
  <2>5. phone_ind' <= phones_count' BY <1>1, <1>2, <2>1, <2>2
  <2>6. PhonesPlaceInv' BY <1>2, <1>6, <2>3, <2>5 DEF PhonesPlaceInv, PhonesEditsPhone, PhonesAddsPhone
  <2>7. Phones!List' = Append(Phones!List, phone_buf)
    <3>1. /\ Phones!List \in Seq(PhonesNumber) /\ Len(Phones!List) = phones_count
          /\ \A k \in 1..phones_count : Phones!List[k] = phones[k - 1]
      BY PhonesListIs DEF PhonesIInv
    <3>2. /\ Phones!List' \in Seq(PhonesNumber) /\ Len(Phones!List') = phones_count'
          /\ \A k \in 1..phones_count' : Phones!List'[k] = phones'[k - 1]
      BY <2>3, PhonesListIsNext
    <3>3. /\ Append(Phones!List, phone_buf) \in Seq(PhonesNumber)
          /\ Len(Append(Phones!List, phone_buf)) = phones_count + 1
          /\ \A k \in 1..phones_count : Append(Phones!List, phone_buf)[k] = Phones!List[k]
          /\ Append(Phones!List, phone_buf)[phones_count + 1] = phone_buf
      BY <1>1, <3>1, AppendProperties
    <3>4. ASSUME NEW k \in 1..Len(Phones!List') PROVE Phones!List'[k] = Append(Phones!List, phone_buf)[k]
      <4>1. k - 1 \in Phones!Indexes /\ k \in 1..phones_count'
          /\ (k \in 1..phones_count \/ k = phones_count + 1)
        BY <1>1, <2>1, <2>3, <3>2, <3>4 DEF Phones!Indexes
      <4>2. Phones!List'[k] = IF k - 1 = phones_count THEN phone_buf ELSE phones[k - 1]
        BY <1>1, <2>1, <3>2, <4>1
      <4>3. CASE k \in 1..phones_count BY <1>1, <3>1, <3>3, <4>2, <4>3
      <4>4. CASE k = phones_count + 1 BY <1>1, <3>3, <4>2, <4>4
      <4> QED BY <4>1, <4>3, <4>4
    <3> QED BY <2>1, <3>2, <3>3, <3>4, SeqEqual
  <2>8. PhonesEdited BY <1>2, <1>6, <2>3, <2>5, <2>7 DEF PhonesEdited, Phones!Intended
  <2> QED BY <2>4, <2>6, <2>8 DEF PhonesIInv
<1> QED BY <1>1, <1>4, <1>5, <1>6 DEF Phones!AcceptNumber, Phones!Sets

\* Accepting a priority moves the chosen phone to its place, or fails.
LEMMA PhonesAcceptPriorityStep == ASSUME PhonesAssumed, PhonesIInv,
    Phones!AcceptPriority PROVE PhonesIInv' /\ PhonesEdited
<1>1. /\ phones \in [Phones!Indexes -> PhonesNumber] /\ phones_count \in 0..MaxPhones
      /\ screen \in {"menu", "phones", "phone", "number", "priority"}
      /\ phones_num \in 0..MaxPhones /\ phone_ind \in Phones!Indexes /\ index \in Phones!Indexes
      /\ phone_buf \in PhonesNumber /\ edit \in BOOLEAN
      /\ priority \in 0..MaxPhones /\ chosen \in Phones!Indexes
      /\ MaxPhones \in Nat
  BY PhonesTyped DEF PhonesIInv, PhonesAssumed
<1> DEFINE new == IF priority - 1 >= phones_num THEN phones_num - 1 ELSE priority - 1
<1>2. /\ screen = "priority" /\ screen' = "phone"
      /\ UNCHANGED <<phones_num, index, phone_buf, edit, priority>>
  BY DEF Phones!AcceptPriority
<1>3. /\ phones_num = phones_count /\ phone_ind <= phones_count /\ index < phones_count
      /\ chosen = index /\ priority >= 1 /\ chosen = phone_ind
  BY <1>2 DEF PhonesIInv, PhonesPlaceInv, PhonesEditsPhone
<1>4. CASE UNCHANGED <<Phones!settingsV, phone_ind, chosen>>
  <2>1. UNCHANGED <<phones, phones_count, phone_ind, chosen>> /\ Phones!List' = Phones!List BY <1>4,
      PhonesSameList DEF Phones!settingsV
  <2>2. Phones!TypeOK' BY <1>1, <1>2, <2>1, PhonesTypedNext
  <2>3. PhonesPlaceInv' BY <1>2, <1>3, <2>1 DEF PhonesPlaceInv, PhonesEditsPhone, PhonesAddsPhone
  <2>4. PhonesEdited BY <1>2, <1>3, <2>1 DEF PhonesEdited
  <2> QED BY <2>2, <2>3, <2>4 DEF PhonesIInv
<1>5. CASE Phones!ShiftPhone(index, new) /\ phone_ind' = new /\ chosen' = new
  <2>1. /\ phones' = [k \in Phones!Indexes |->
                        IF k = new THEN phones[index]
                        ELSE IF new < k /\ k <= index THEN phones[k - 1]
                        ELSE IF index <= k /\ k < new THEN phones[k + 1]
                        ELSE phones[k]]
        /\ phones_count' = phones_count
    BY <1>5 DEF Phones!ShiftPhone
  <2>2. new \in Phones!Indexes /\ new < phones_count /\ new \in Int BY <1>1, <1>3 DEF Phones!Indexes
  <2>3. new + 1 = (IF priority <= phones_count THEN priority ELSE phones_count) BY <1>1, <1>3
  <2> HIDE DEF new
  <2>4. phones' \in [Phones!Indexes -> PhonesNumber]
    <3>1. ASSUME NEW k \in Phones!Indexes
          PROVE  (IF k = new THEN phones[index]
                  ELSE IF new < k /\ k <= index THEN phones[k - 1]
                  ELSE IF index <= k /\ k < new THEN phones[k + 1]
                  ELSE phones[k]) \in PhonesNumber
      BY <1>1, <1>3, <2>2 DEF Phones!Indexes
    <3> QED BY <2>1, <3>1
  <2>5. Phones!TypeOK' BY <1>1, <1>2, <1>5, <2>1, <2>2, <2>4, PhonesTypedNext
  <2>6. PhonesPlaceInv'
    <3>1. new <= phones_count BY <1>1, <2>2
    <3> QED BY <1>2, <1>3, <1>5, <2>1, <2>2, <3>1 DEF PhonesPlaceInv, PhonesEditsPhone, PhonesAddsPhone
  <2>7. Phones!List' = Phones!InsertAt(Phones!RemoveAt(Phones!List, chosen + 1), new + 1, Phones!List[chosen + 1])
    <3>1. /\ Phones!List \in Seq(PhonesNumber) /\ Len(Phones!List) = phones_count
          /\ \A k \in 1..phones_count : Phones!List[k] = phones[k - 1]
      BY PhonesListIs DEF PhonesIInv
    <3>2. /\ Phones!List' \in Seq(PhonesNumber) /\ Len(Phones!List') = phones_count'
          /\ \A k \in 1..phones_count' : Phones!List'[k] = phones'[k - 1]
      BY <1>1, <2>1, <2>4, PhonesListIsNext
    <3>3. chosen + 1 \in 1..Len(Phones!List) BY <1>1, <1>3, <3>1 DEF Phones!Indexes
    <3> DEFINE others == Phones!RemoveAt(Phones!List, chosen + 1)
               moved  == Phones!InsertAt(others, new + 1, Phones!List[chosen + 1])
    <3>4. /\ others \in Seq(PhonesNumber) /\ Len(others) = Len(Phones!List) - 1
          /\ \A k \in 1..Len(Phones!List) - 1 : others[k] = (IF k < chosen + 1 THEN Phones!List[k] ELSE Phones!List[k + 1])
      BY <3>1, <3>3, PhonesRemoving
    <3>5. new + 1 \in 1..Len(others) + 1 /\ Phones!List[chosen + 1] \in PhonesNumber
      BY <1>1, <2>2, <3>1, <3>3, <3>4, ElementOfSeq DEF Phones!Indexes
    <3> HIDE DEF others
    <3>6. /\ moved \in Seq(PhonesNumber) /\ Len(moved) = Len(others) + 1
          /\ \A k \in 1..Len(others) + 1 :
                moved[k] = (IF k < new + 1 THEN others[k] ELSE IF k = new + 1 THEN Phones!List[chosen + 1] ELSE others[k - 1])
      <4> DEFINE place == new + 1
                 phone == Phones!List[chosen + 1]
      <4>1. others \in Seq(PhonesNumber) BY <3>4
      <4>2. place \in 1..Len(others) + 1 /\ phone \in PhonesNumber BY <3>5
      <4>3. moved = Phones!InsertAt(others, place, phone) OBVIOUS
      <4> HIDE DEF moved, place, phone
      <4>4. /\ Phones!InsertAt(others, place, phone) \in Seq(PhonesNumber)
            /\ Len(Phones!InsertAt(others, place, phone)) = Len(others) + 1
            /\ \A k \in 1..Len(others) + 1 :
                  Phones!InsertAt(others, place, phone)[k]
                    = (IF k < place THEN others[k] ELSE IF k = place THEN phone ELSE others[k - 1])
        <5>1. place \in 1..Len(others) + 1 BY <4>2
        <5>2. phone \in PhonesNumber BY <4>2
        <5>3. Phones!InsertAt(others, place, phone) \in Seq(PhonesNumber) BY <4>1, <5>1, <5>2,
            PhonesInserting
        <5>4. Len(Phones!InsertAt(others, place, phone)) = Len(others) + 1 BY <4>1, <5>1, <5>2,
            PhonesInserting
        <5>5. \A k \in 1..Len(others) + 1 :
                  Phones!InsertAt(others, place, phone)[k]
                    = (IF k < place THEN others[k] ELSE IF k = place THEN phone ELSE others[k - 1])
          BY <4>1, <5>1, <5>2, PhonesInserting
        <5> QED BY <5>3, <5>4, <5>5
      <4> QED BY <4>3, <4>4 DEF place, phone
    <3> HIDE DEF moved
    <3>7. Len(others) + 1 = phones_count /\ Len(moved) = phones_count /\ Len(Phones!List') = phones_count
      BY <1>1, <2>1, <3>1, <3>2, <3>4, <3>6
    <3>8. ASSUME NEW k \in 1..phones_count PROVE Phones!List'[k] = moved[k]
      <4>1. k \in 1..phones_count' /\ k - 1 \in Phones!Indexes /\ k \in 1..Len(others) + 1 /\ k \in Int
        BY <1>1, <2>1, <3>7, <3>8 DEF Phones!Indexes
      <4>2. Phones!List'[k] = IF k - 1 = new THEN phones[index]
                       ELSE IF new < k - 1 /\ k - 1 <= index THEN phones[k - 1 - 1]
                       ELSE IF index <= k - 1 /\ k - 1 < new THEN phones[k - 1 + 1]
                       ELSE phones[k - 1]
        BY <2>1, <3>2, <4>1
      <4>3. CASE k = new + 1
        <5>1. moved[k] = Phones!List[chosen + 1] BY <2>2, <3>6, <4>1, <4>3
        <5>2. Phones!List[chosen + 1] = phones[index] BY <1>1, <1>3, <3>1, <3>3 DEF Phones!Indexes
        <5> QED BY <2>2, <4>2, <4>3, <5>1, <5>2
      <4>4. CASE k < new + 1
        <5>1. moved[k] = others[k] /\ k \in 1..Len(Phones!List) - 1
          BY <1>1, <2>2, <3>1, <3>6, <4>1, <4>4
        <5>2. others[k] = (IF k < index + 1 THEN phones[k - 1] ELSE phones[k])
          BY <1>1, <1>3, <3>1, <3>4, <5>1
        <5>3. Phones!List'[k] = IF index <= k - 1 THEN phones[k] ELSE phones[k - 1]
          BY <2>2, <4>1, <4>2, <4>4
        <5> QED BY <1>1, <5>1, <5>2, <5>3, <4>1 DEF Phones!Indexes
      <4>5. CASE k > new + 1
        <5>1. moved[k] = others[k - 1] /\ k - 1 \in 1..Len(Phones!List) - 1
          <6>1. k - 1 \in 1..Len(Phones!List) - 1 BY <1>1, <2>2, <3>1, <4>1, <4>5, <3>8 DEF Phones!Indexes
          <6>2. ~(k < new + 1) /\ k # new + 1 BY <2>2, <4>1, <4>5
          <6> QED BY <3>6, <4>1, <6>1, <6>2
        <5>2. others[k - 1] = (IF k - 1 < index + 1 THEN phones[k - 2] ELSE phones[k - 1])
          <6>1. others[k - 1] = (IF k - 1 < chosen + 1 THEN Phones!List[k - 1] ELSE Phones!List[k - 1 + 1]) BY <3>4, <5>1
          <6>2. k - 1 + 1 = k /\ k - 1 - 1 = k - 2 /\ k - 1 \in 1..phones_count BY <1>1, <3>1, <4>1, <5>1
          <6> QED BY <1>3, <3>1, <3>8, <6>1, <6>2
        <5>3. Phones!List'[k] = IF k - 1 <= index THEN phones[k - 2] ELSE phones[k - 1]
          <6>1. k - 1 - 1 = k - 2 /\ k - 1 # new /\ new < k - 1 /\ ~(k - 1 < new) BY <2>2, <4>1, <4>5
          <6> QED BY <4>2, <6>1
        <5>4. k - 1 < index + 1 <=> k - 1 <= index BY <1>1, <4>1 DEF Phones!Indexes
        <5> QED BY <5>1, <5>2, <5>3, <5>4
      <4> QED BY <2>2, <4>1, <4>3, <4>4, <4>5
    <3>9. \A k \in 1..Len(Phones!List') : Phones!List'[k] = moved[k] BY <3>7, <3>8
    <3>10. Phones!List' = moved BY <3>2, <3>6, <3>7, <3>9, SeqEqual
    <3> QED BY <3>10 DEF moved, others
  <2>8. new + 1 = Phones!Min({priority, Len(Phones!List)})
    <3>1. Len(Phones!List) = phones_count BY PhonesListIs DEF PhonesIInv
    <3>2. priority \in Int /\ phones_count \in Int BY <1>1
    <3> QED BY <2>3, <3>1, <3>2, PhonesSmallerOfTwo
  <2>9. Phones!List' \in Phones!Intended BY <1>2, <2>7, <2>8 DEF Phones!Intended
  <2>10. PhonesEdited BY <1>2, <1>5, <2>9 DEF PhonesEdited
  <2> QED BY <2>5, <2>6, <2>10 DEF PhonesIInv
<1> QED BY <1>4, <1>5 DEF Phones!AcceptPriority

\* Every step keeps the invariant, and edits the list as it was meant to.
LEMMA PhonesNextIInv == ASSUME PhonesAssumed, PhonesIInv,
    [Phones!Next]_Phones!vars PROVE PhonesIInv' /\ (PhonesEdited \/ UNCHANGED Phones!vars)
<1>1. CASE UNCHANGED Phones!vars
  BY <1>1 DEF Phones!vars, Phones!settingsV, PhonesIInv, Phones!TypeOK, PhonesPlaceInv,
      PhonesEditsPhone, PhonesAddsPhone
<1> QED BY <1>1, PhonesOthersStep, PhonesDeleteStep, PhonesAcceptNumberStep, PhonesAcceptPriorityStep
        DEF Phones!Next, Phones!Configurer, Phones!PhoneEditor, Phones!NumberEditor, Phones!PriorityEditor

\* The invariant of the editing holds in each of its behaviours.
THEOREM PhonesInductive == ASSUME PhonesAssumed PROVE Phones!Spec => []PhonesIInv
BY PhonesInitIInv, PhonesNextIInv, PTL DEF Phones!Spec

\* A change is made to the phone that was displayed when it was chosen, a number is added at
\* the end, and the configurer displays the list it has changed.
THEOREM EditsChosen == ASSUME PhonesAssumed PROVE Phones!Spec => EditsChosenPhone
<1>1. ASSUME PhonesIInv, [Phones!Next]_Phones!vars
      PROVE  [/\ Phones!List' # Phones!List => Phones!List' \in Phones!Intended
              /\ screen' = "phones" => phones_num' = phones_count' /\ phone_ind' <= phones_count'
              /\ screen = "priority" /\ screen' = "phone" => phone_ind' = chosen']_Phones!vars
  BY <1>1, PhonesNextIInv DEF PhonesEdited
<1> QED BY <1>1, PhonesInductive, PTL DEF Phones!Spec, EditsChosenPhone, Phones!EditsChosenPhone

-----------------------------------------------------------------------------
(* All of them, as they run side by side.                                  *)

\* Each behaviour of the whole is one of each part.
LEMMA PartsBehave == AllSpec => Log!Spec /\ Card!Spec /\ Ui!Spec /\ Phones!Spec
<1>1. AllInit => Log!Init /\ Card!Init /\ Ui!Init /\ Phones!Init BY DEF AllInit
<1>2. [AllNext]_<<part, vars, logV, filesV, uiV, phoneV>> =>
        [Log!Next]_Log!vars /\ [Card!Next]_Card!vars /\ [Ui!Next]_Ui!vars /\ [Phones!Next]_Phones!vars
  <2> USE DEF AllNext, ControlStep, LogStep, FilesStep, UiStep, PhonesStep, logV, filesV, uiV, phoneV
  <2>1. [AllNext]_<<part, vars, logV, filesV, uiV, phoneV>> => [Card!Next]_Card!vars
    BY DEF Card!vars
  <2>2. [AllNext]_<<part, vars, logV, filesV, uiV, phoneV>> => [Ui!Next]_Ui!vars
    BY DEF Ui!vars, Ui!alarmV, Ui!controlV, Ui!timersV, Ui!displayV
  <2>3. [AllNext]_<<part, vars, logV, filesV, uiV, phoneV>> => [Phones!Next]_Phones!vars
    BY DEF Phones!vars, Phones!settingsV
  <2>4. [AllNext]_<<part, vars, logV, filesV, uiV, phoneV>> => [Log!Next]_Log!vars
    BY DEF Log!vars, Log!bufferV
  <2> QED BY <2>1, <2>2, <2>3, <2>4
<1> QED BY <1>1, <1>2, PTL DEF AllSpec, Log!Spec, Card!Spec, Ui!Spec, Phones!Spec

\* What a part keeps alone it keeps besides the others.
THEOREM AllKeep ==
    ASSUME LogAssumed, CardAssumed, UiAssumed, PhonesAssumed
    PROVE AllSpec => /\ []RecorderIsTold /\ ImplementsQueue /\ DroppedOnlyForFullFile
                     /\ []ControllerFollowsAlarm /\ []ScreenFollowsController
                     /\ EditsChosenPhone
BY PartsBehave, RecorderTold, ImplementsRecordQueue, DroppedForFull, ControllerFollows, ScreenFollows,
    EditsChosen, PTL
=============================================================================
