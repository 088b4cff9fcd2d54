---------------------------- MODULE PlayerProofs ----------------------------
(* Proofs about the sound service, for files of any length: each is played *)
(* as it was recorded and its end is told once.  SoundIInv is inductive:   *)
(* SoundPositionInv relates what was heard to the position in the file,    *)
(* SoundBufferInv says which buffers have samples, SoundRequestInv what    *)
(* the handler of DMA may have asked for.  Left out are files shorter than *)
(* a buffer and the handler between two assignments of the end             *)
(* (Coincidences = {}).                                                    *)
EXTENDS MCCallPlayer, TLAPS

SoundSecond == Sound!Other(current)

\* Something of the file is being played, or is still asked for.
SoundLive == dma \/ notified # {} \/ task # "waits"

\* The chunk after the one that was heard last is in the other buffer.
SoundSpare == IF task = "stores" THEN filled[SoundSecond] # Sound!Nothing ELSE samples[SoundSecond]

SoundPositionInv ==
    SoundLive =>
        /\ heard \in 1..chunks
        /\ IF SoundSpare THEN filled[SoundSecond] = heard + 1 /\ next = heard + 2 ELSE next = heard + 1
        /\ next <= chunks + 1
        /\ end_of_wav => next = chunks + 1

SoundBufferInv ==
    SoundLive =>
        /\ dma <=> samples[current]
        /\ dma => filled[current] = heard
        /\ task \in {"reads", "stores"} => ~samples[SoundSecond]
        /\ task = "reads" => ~end_of_wav

SoundRequestInv ==
    /\ task = "waits" => requests = {}
    /\ "LOAD_SAMPLES" \in notified => ~samples[SoundSecond] /\ task \notin {"reads", "stores"}
    /\ "LOAD_AND_RESUME" \in notified => ~dma
    /\ "LOAD_AND_RESUME" \in requests /\ task # "ends" => ~dma /\ notified = {}
    /\ "HANDLE_END" \in notified =>
        ~dma /\ "LOAD_AND_RESUME" \notin notified /\ end_of_wav /\ heard = chunks
    /\ "HANDLE_END" \in requests => ~dma /\ notified = {} /\ end_of_wav /\ heard = chunks
    /\ "HANDLE_END" \in requests /\ task # "ends" => "LOAD_AND_RESUME" \notin requests

SoundIInv == Sound!TypeOK /\ SoundPositionInv /\ SoundBufferInv /\ SoundRequestInv

\* What is proved is proved for these constants.
SoundAssumed == MaxChunks \in Nat /\ Coincidences = {}

-----------------------------------------------------------------------------
\* The other buffer is another one.
LEMMA SoundTwoBuffers == ASSUME Sound!TypeOK
  PROVE /\ current \in Sound!Buffers /\ SoundSecond \in Sound!Buffers /\ SoundSecond # current
                                        /\ \A b \in Sound!Buffers : b = current \/ b = SoundSecond
BY DEF Sound!TypeOK, Sound!Buffers, SoundSecond, Sound!Other

\* load_samples() does nothing at the end of the file.
LEMMA SoundLoadedAtEnd == ASSUME NEW s, NEW b, NEW length, NEW isWhole, s.end = TRUE
                     PROVE Sound!Loaded(s, b, length, isWhole) = s
BY DEF Sound!Loaded

\* After a start both buffers have samples, if the file has as many, and the first one
\* is being played.
LEMMA SoundStartOutcome ==
    ASSUME SoundAssumed, Sound!TypeOK, NEW callback, NEW isForGsm, Sound!Start(callback, isForGsm)
    PROVE /\ chunks' \in 1..MaxChunks /\ whole' \in BOOLEAN
          /\ next' = (IF chunks' = 1 THEN 2 ELSE 3)
          /\ end_of_wav' \in BOOLEAN /\ (end_of_wav' => next' = chunks' + 1)
          /\ samples' \in [Sound!Buffers -> BOOLEAN] /\ samples'[0] = TRUE /\ samples'[1] = (chunks' > 1)
          /\ filled' \in [Sound!Buffers -> 0..MaxChunks] /\ filled'[0] = 1
                /\ (chunks' > 1 => filled'[1] = 2)
          /\ current' = 0 /\ heard' = 1 /\ dma' = TRUE /\ notified' = {}
          /\ on_finished' = callback /\ playing_for_gsm' = isForGsm
<1> DEFINE opened == [next |-> 1, end |-> FALSE, samples |-> samples, filled |-> [b \in Sound!Buffers |-> Sound!Nothing]]
           first  == Sound!Loaded(opened, 0, chunks', whole')
           second == Sound!Loaded(first, 1, chunks', whole')
<1> USE DEF SoundAssumed
<1>1. /\ chunks' \in 1..MaxChunks /\ whole' \in BOOLEAN
      /\ chunks' > 1 \/ whole'
      /\ Sound!Becomes(second)
      /\ current' = 0 /\ dma' = TRUE /\ notified' = {}
      /\ on_finished' = callback /\ playing_for_gsm' = isForGsm
      /\ heard' = filled'[0]
  BY DEF Sound!Start
<1>2. opened.end = FALSE /\ opened.next = 1 /\ opened.samples = samples
    /\ opened.filled = [b \in Sound!Buffers |-> Sound!Nothing]
  OBVIOUS
<1>3. samples \in [Sound!Buffers -> BOOLEAN] /\ 0 \in Sound!Buffers /\ 1 \in Sound!Buffers
  BY DEF Sound!TypeOK, Sound!Buffers
<1> HIDE DEF opened
<1>4. /\ first.next = 2
      /\ first.end = (chunks' = 1 /\ ~whole')
      /\ first.samples = [samples EXCEPT ![0] = TRUE]
      /\ first.filled = [[b \in Sound!Buffers |-> Sound!Nothing] EXCEPT ![0] = 1]
  <2>1. /\ first.next = (IF opened.next > chunks' THEN opened.next ELSE opened.next + 1)
        /\ first.end = Sound!EndsWith(opened.next, chunks', whole')
        /\ first.samples = [opened.samples EXCEPT ![0] = (opened.next <= chunks')]
        /\ first.filled = [opened.filled EXCEPT ![0] = Sound!ReadChunk(opened.next, chunks')]
    BY <1>2 DEF first, Sound!Loaded
  <2>2. Sound!EndsWith(1, chunks', whole') = (chunks' = 1 /\ ~whole') /\ Sound!ReadChunk(1, chunks') = 1
      /\ (1 <= chunks') = TRUE
    BY <1>1 DEF Sound!EndsWith, Sound!ReadChunk
  <2>3. first.next = 2
    BY <1>1, <1>2, <2>1
  <2> QED BY <1>2, <2>1, <2>2, <2>3
<1>5. first.end = FALSE
  <2>1. (chunks' = 1 /\ ~whole') = FALSE
    BY <1>1
  <2> QED BY <1>4, <2>1, Zenon
<1> HIDE DEF first
<1>6. /\ second.next = (IF chunks' = 1 THEN 2 ELSE 3)
      /\ second.end = Sound!EndsWith(2, chunks', whole')
      /\ second.samples = [[samples EXCEPT ![0] = TRUE] EXCEPT ![1] = (2 <= chunks')]
      /\ second.filled = [[[b \in Sound!Buffers |-> Sound!Nothing] EXCEPT ![0] = 1] EXCEPT ![1] = Sound!ReadChunk(2, chunks')]
  <2>1. /\ second.next = (IF first.next > chunks' THEN first.next ELSE first.next + 1)
        /\ second.end = Sound!EndsWith(first.next, chunks', whole')
        /\ second.samples = [first.samples EXCEPT ![1] = (first.next <= chunks')]
        /\ second.filled = [first.filled EXCEPT ![1] = Sound!ReadChunk(first.next, chunks')]
    BY <1>5 DEF second, Sound!Loaded
  <2>2. second.next = (IF chunks' = 1 THEN 2 ELSE 3)
    BY <1>1, <1>4, <2>1
  <2> QED BY <1>4, <2>1, <2>2
<1> HIDE DEF second
<1>7. next' = second.next /\ end_of_wav' = second.end /\ samples' = second.samples
    /\ filled' = second.filled
  BY <1>1 DEF Sound!Becomes
<1>8. samples' \in [Sound!Buffers -> BOOLEAN] /\ samples'[0] = TRUE /\ samples'[1] = (chunks' > 1)
  <2>1. samples' = [[samples EXCEPT ![0] = TRUE] EXCEPT ![1] = (2 <= chunks')]
    BY <1>6, <1>7
  <2>2. (2 <= chunks') = (chunks' > 1) /\ (2 <= chunks') \in BOOLEAN
    BY <1>1
  <2>3. samples' \in [Sound!Buffers -> BOOLEAN]
    BY <1>3, <2>1, <2>2
  <2>4. samples'[0] = TRUE
    BY <1>3, <2>1
  <2>5. samples'[1] = (2 <= chunks')
    BY <1>3, <2>1
  <2> QED BY <2>2, <2>3, <2>4, <2>5, Zenon
<1>9. filled' \in [Sound!Buffers -> 0..MaxChunks] /\ filled'[0] = 1 /\ (chunks' > 1 => filled'[1] = 2)
  <2>1. filled' = [[[b \in Sound!Buffers |-> Sound!Nothing] EXCEPT ![0] = 1] EXCEPT ![1] = Sound!ReadChunk(2, chunks')]
    BY <1>6, <1>7
  <2>2. Sound!ReadChunk(2, chunks') \in 0..MaxChunks /\ (chunks' > 1 => Sound!ReadChunk(2, chunks') = 2)
    BY <1>1 DEF Sound!ReadChunk, Sound!Nothing
  <2> QED BY <1>1, <2>1, <2>2 DEF Sound!Buffers, Sound!Nothing
<1>10. end_of_wav' \in BOOLEAN /\ (end_of_wav' => next' = chunks' + 1)
  <2>1. Sound!EndsWith(2, chunks', whole') \in BOOLEAN
      /\ (Sound!EndsWith(2, chunks', whole') => chunks' \in {1, 2})
    BY <1>1 DEF Sound!EndsWith
  <2>2. end_of_wav' = Sound!EndsWith(2, chunks', whole')
    BY <1>6, <1>7
  <2>3. end_of_wav' \in BOOLEAN /\ (end_of_wav' => chunks' \in {1, 2})
    BY <2>1, <2>2, Zenon
  <2> QED BY <1>6, <1>7, <2>3
<1> QED BY <1>1, <1>6, <1>7, <1>8, <1>9, <1>10

\* A chunk of a file that is still open, loaded into one of the buffers.
LEMMA SoundLoadOutcome ==
    ASSUME SoundAssumed, Sound!TypeOK, NEW s, s.end = FALSE, s.next \in 1..chunks + 1,
           s.samples \in [Sound!Buffers -> BOOLEAN], s.filled \in [Sound!Buffers -> 0..MaxChunks],
               NEW b \in Sound!Buffers
    PROVE LET r == Sound!Loaded(s, b, chunks, whole)
          IN /\ r.next = (IF s.next > chunks THEN s.next ELSE s.next + 1)
             /\ r.end \in BOOLEAN /\ (s.next > chunks => r.end) /\ (r.end => r.next = chunks + 1)
             /\ r.samples \in [Sound!Buffers -> BOOLEAN]
                   /\ (IF s.next > chunks THEN r.samples[b] = FALSE ELSE r.samples[b] = TRUE)
             /\ r.filled \in [Sound!Buffers -> 0..MaxChunks]
             /\ r.filled[b] = (IF s.next > chunks THEN Sound!Nothing ELSE s.next)
             /\ \A c \in Sound!Buffers : c # b => r.samples[c] = s.samples[c] /\ r.filled[c] = s.filled[c]
PROOF
<1> DEFINE r == Sound!Loaded(s, b, chunks, whole)
<1>2. /\ r.next = (IF s.next > chunks THEN s.next ELSE s.next + 1)
      /\ r.end = Sound!EndsWith(s.next, chunks, whole)
      /\ r.samples = [s.samples EXCEPT ![b] = (s.next <= chunks)]
      /\ r.filled = [s.filled EXCEPT ![b] = Sound!ReadChunk(s.next, chunks)]
  BY DEF Sound!Loaded
<1>3. chunks \in 0..MaxChunks /\ whole \in BOOLEAN
  BY DEF Sound!TypeOK
<1> HIDE DEF r
<1>4. r.end \in BOOLEAN /\ (s.next > chunks => r.end) /\ (r.end => r.next = chunks + 1)
  <2>1. Sound!EndsWith(s.next, chunks, whole) \in BOOLEAN
    BY <1>3 DEF Sound!EndsWith
  <2>2. Sound!EndsWith(s.next, chunks, whole) => (s.next > chunks \/ s.next = chunks)
    BY DEF Sound!EndsWith
  <2>3. s.next > chunks => Sound!EndsWith(s.next, chunks, whole)
    BY DEF Sound!EndsWith
  <2>4. r.end => (s.next > chunks \/ s.next = chunks)
    BY <1>2, <2>2, Zenon
  <2>5. r.end \in BOOLEAN /\ (s.next > chunks => r.end)
    BY <1>2, <2>1, <2>3, Zenon
  <2> QED BY <1>2, <1>3, <2>4, <2>5
<1>5. /\ r.samples \in [Sound!Buffers -> BOOLEAN]
    /\ (IF s.next > chunks THEN r.samples[b] = FALSE ELSE r.samples[b] = TRUE)
      /\ \A c \in Sound!Buffers : c # b => r.samples[c] = s.samples[c]
  <2>1. s.next > chunks => (s.next <= chunks) = FALSE
    BY <1>3
  <2>2. ~(s.next > chunks) => (s.next <= chunks) = TRUE
    BY <1>3
  <2>3. (s.next <= chunks) \in BOOLEAN
    OBVIOUS
  <2>4. r.samples \in [Sound!Buffers -> BOOLEAN] /\ r.samples[b] = (s.next <= chunks)
    BY <1>2, <2>3
  <2>5. \A c \in Sound!Buffers : c # b => r.samples[c] = s.samples[c]
    BY <1>2
  <2> QED BY <2>1, <2>2, <2>4, <2>5, Zenon
<1>6. Sound!ReadChunk(s.next, chunks) \in 0..MaxChunks
    /\ Sound!ReadChunk(s.next, chunks) = (IF s.next > chunks THEN Sound!Nothing ELSE s.next)
  <2>1. CASE s.next > chunks BY <1>3, <2>1 DEF Sound!ReadChunk, Sound!Nothing, SoundAssumed
  <2>2. CASE ~(s.next > chunks) BY <1>3, <2>2 DEF Sound!ReadChunk, Sound!Nothing, SoundAssumed
  <2> QED BY <2>1, <2>2
<1>7. /\ r.filled \in [Sound!Buffers -> 0..MaxChunks] /\ r.filled[b] = Sound!ReadChunk(s.next, chunks)
      /\ \A c \in Sound!Buffers : c # b => r.filled[c] = s.filled[c]
  BY <1>2, <1>6
<1> QED BY <1>2, <1>4, <1>5, <1>6, <1>7 DEF r

\* What load_wav() and service_task() have at hand.
LEMMA SoundNowTyped == ASSUME Sound!TypeOK
                  PROVE /\ Sound!Now.next = next /\ Sound!Now.end = end_of_wav
                      /\ Sound!Now.samples = samples /\ Sound!Now.filled = filled
                        /\ Sound!Now.samples \in [Sound!Buffers -> BOOLEAN]
                              /\ Sound!Now.filled \in [Sound!Buffers -> 0..MaxChunks]
BY DEF Sound!Now, Sound!TypeOK

\* The conversion that waited for samples goes on with the next chunk, and the one after
\* it is loaded; or the file is at its end and all of it was heard.
LEMMA SoundResumeOutcome ==
    ASSUME SoundAssumed, SoundIInv, Sound!Resume, "LOAD_AND_RESUME" \in requests
    PROVE /\ samples' \in [Sound!Buffers -> BOOLEAN] /\ filled' \in [Sound!Buffers -> 0..MaxChunks]
          /\ end_of_wav' \in BOOLEAN /\ next' \in 1..chunks + 1 /\ (end_of_wav' => next' = chunks + 1)
          /\ \/ /\ heard = chunks /\ end_of_wav' /\ ~samples'[SoundSecond] /\ ~samples'[current]
                /\ requests' = requests \cup {"HANDLE_END"} /\ UNCHANGED <<current, dma, heard>>
             \/ /\ heard < chunks /\ heard' = heard + 1 /\ current' = SoundSecond /\ dma' = TRUE
                 /\ requests' = requests
                /\ samples'[SoundSecond] /\ filled'[SoundSecond] = heard + 1
                /\ IF samples'[current] THEN filled'[current] = heard + 2 /\ next' = heard + 3
                   ELSE next' = heard + 2
<1> DEFINE s == IF samples[SoundSecond] THEN Sound!Now ELSE Sound!Loaded(Sound!Now, SoundSecond, chunks, whole)
           r == Sound!Loaded(s, current, chunks, whole)
<1>1. /\ task = "resumes"
      /\ IF s.samples[SoundSecond]
         THEN Sound!Becomes(r) /\ current' = SoundSecond /\ dma' = TRUE /\ heard' = filled'[SoundSecond]
             /\ UNCHANGED requests
         ELSE Sound!Becomes(s) /\ requests' = requests \cup {"HANDLE_END"}
             /\ UNCHANGED <<current, dma, heard>>
  BY DEF Sound!Resume, SoundSecond
<1>2. Sound!TypeOK /\ SoundPositionInv /\ SoundBufferInv /\ SoundRequestInv
  BY DEF SoundIInv
<1>3. current \in Sound!Buffers /\ SoundSecond \in Sound!Buffers /\ SoundSecond # current
  BY <1>2, SoundTwoBuffers
<1>4. ~samples[current]
  BY <1>1, <1>2 DEF SoundBufferInv, SoundRequestInv, SoundLive
<1>5. /\ heard \in 1..chunks /\ next <= chunks + 1 /\ (end_of_wav => next = chunks + 1)
      /\ IF samples[SoundSecond] THEN filled[SoundSecond] = heard + 1
            /\ next = heard + 2 ELSE next = heard + 1
  BY <1>1, <1>2 DEF SoundPositionInv, SoundLive, SoundSpare
<1>6. /\ Sound!Now.next = next /\ Sound!Now.end = end_of_wav /\ Sound!Now.samples = samples
    /\ Sound!Now.filled = filled
      /\ Sound!Now.samples \in [Sound!Buffers -> BOOLEAN]
            /\ Sound!Now.filled \in [Sound!Buffers -> 0..MaxChunks]
      /\ chunks \in 0..MaxChunks /\ next \in 1..chunks + 1 /\ end_of_wav \in BOOLEAN
  BY <1>2, <1>5, SoundNowTyped DEF Sound!TypeOK
\* The next buffer
<1>7. /\ s.samples \in [Sound!Buffers -> BOOLEAN] /\ s.filled \in [Sound!Buffers -> 0..MaxChunks]
      /\ s.next \in 1..chunks + 1 /\ s.end \in BOOLEAN /\ (s.end => s.next = chunks + 1)
      /\ ~s.samples[current]
      /\ IF s.samples[SoundSecond] THEN s.filled[SoundSecond] = heard + 1 /\ s.next = heard + 2
         ELSE heard = chunks /\ s.end
  <2>1. CASE samples[SoundSecond]
    <3>1. s = Sound!Now
      BY <2>1
    <3> QED BY <1>4, <1>5, <1>6, <2>1, <3>1
  <2>2. CASE ~samples[SoundSecond] /\ end_of_wav
    <3>1. Sound!Now.end = TRUE
      BY <1>6, <2>2
    <3>2. s = Sound!Now
      BY <2>2, <3>1, SoundLoadedAtEnd
    <3> HIDE DEF s
    <3>3. s.next = next /\ s.samples = samples /\ s.filled = filled
      BY <1>6, <3>2
    <3>4. s.end = TRUE
      BY <3>1, <3>2
    <3>5. heard = chunks
      BY <1>5, <1>6, <2>2
    <3> QED BY <1>3, <1>4, <1>5, <1>6, <2>2, <3>3, <3>4, <3>5
  <2>3. CASE ~samples[SoundSecond] /\ ~end_of_wav
    <3>1. s = Sound!Loaded(Sound!Now, SoundSecond, chunks, whole)
      BY <2>3
    <3>2. Sound!Now.end = FALSE /\ Sound!Now.next \in 1..chunks + 1
      BY <1>6, <2>3
    <3>7. /\ Sound!Loaded(Sound!Now, SoundSecond, chunks, whole).next = (IF Sound!Now.next > chunks THEN Sound!Now.next ELSE Sound!Now.next + 1)
          /\ Sound!Loaded(Sound!Now, SoundSecond, chunks, whole).end \in BOOLEAN
                /\ (Sound!Now.next > chunks => Sound!Loaded(Sound!Now, SoundSecond, chunks, whole).end)
                      /\ (Sound!Loaded(Sound!Now, SoundSecond, chunks, whole).end => Sound!Loaded(Sound!Now, SoundSecond, chunks, whole).next = chunks + 1)
          /\ Sound!Loaded(Sound!Now, SoundSecond, chunks, whole).samples \in [Sound!Buffers -> BOOLEAN]
          /\ (IF Sound!Now.next > chunks THEN Sound!Loaded(Sound!Now, SoundSecond, chunks, whole).samples[SoundSecond] = FALSE ELSE Sound!Loaded(Sound!Now, SoundSecond, chunks, whole).samples[SoundSecond] = TRUE)
          /\ Sound!Loaded(Sound!Now, SoundSecond, chunks, whole).filled \in [Sound!Buffers -> 0..MaxChunks]
          /\ Sound!Loaded(Sound!Now, SoundSecond, chunks, whole).filled[SoundSecond] = (IF Sound!Now.next > chunks THEN Sound!Nothing ELSE Sound!Now.next)
          /\ \A c \in Sound!Buffers : c # SoundSecond
                => Sound!Loaded(Sound!Now, SoundSecond, chunks, whole).samples[c] = Sound!Now.samples[c]
                    /\ Sound!Loaded(Sound!Now, SoundSecond, chunks, whole).filled[c] = Sound!Now.filled[c]
      BY <1>2, <1>3, <1>6, <3>2, SoundLoadOutcome
    <3> HIDE DEF s
    <3>8. /\ s.end \in BOOLEAN /\ (s.end => s.next = chunks + 1)
          /\ s.samples \in [Sound!Buffers -> BOOLEAN] /\ s.filled \in [Sound!Buffers -> 0..MaxChunks]
      BY <3>1, <3>7, Zenon
    <3>9. s.samples[current] = samples[current]
      BY <1>3, <1>6, <3>1, <3>7, Zenon
    <3>10. next > chunks => s.next = next /\ s.end /\ s.samples[SoundSecond] = FALSE
      BY <1>6, <3>1, <3>7, Zenon
    <3>11. ~(next > chunks) => s.next = next + 1 /\ s.filled[SoundSecond] = next
        /\ s.samples[SoundSecond] = TRUE
      BY <1>6, <3>1, <3>7, Zenon
    <3>4. s.next \in 1..chunks + 1
      BY <1>6, <3>10, <3>11
    <3>5. CASE next > chunks
      <4>1. heard = chunks
        BY <1>5, <1>6, <2>3, <3>5
      <4> QED BY <1>4, <3>4, <3>5, <3>8, <3>9, <3>10, <4>1
    <3>6. CASE ~(next > chunks)
      <4>1. s.filled[SoundSecond] = heard + 1 /\ s.next = heard + 2
        BY <1>5, <1>6, <2>3, <3>6, <3>11
      <4> QED BY <1>4, <3>4, <3>6, <3>8, <3>9, <3>11, <4>1
    <3> QED BY <3>5, <3>6
  <2> QED BY <1>6, <2>1, <2>2, <2>3
<1> HIDE DEF s
\* The one after it
<1>8. CASE ~s.samples[SoundSecond]
  <2>1. next' = s.next /\ end_of_wav' = s.end /\ samples' = s.samples /\ filled' = s.filled
    BY <1>1, <1>8 DEF Sound!Becomes
  <2> QED BY <1>1, <1>7, <1>8, <2>1
<1>9. CASE s.samples[SoundSecond] /\ s.end
  <2>1. r = s
    BY <1>7, <1>9, SoundLoadedAtEnd
  <2>2. next' = s.next /\ end_of_wav' = s.end /\ samples' = s.samples /\ filled' = s.filled
    BY <1>1, <1>9, <2>1 DEF Sound!Becomes
  <2>3. end_of_wav' \in BOOLEAN /\ next' \in 1..chunks + 1 /\ (end_of_wav' => next' = chunks + 1)
    BY <1>7, <2>2, Zenon
  <2>4. samples' \in [Sound!Buffers -> BOOLEAN] /\ filled' \in [Sound!Buffers -> 0..MaxChunks]
    BY <1>7, <2>2, Zenon
  <2>5. filled'[SoundSecond] = heard + 1 /\ next' = heard + 2 /\ ~samples'[current]
    BY <1>7, <1>9, <2>2
  <2>6. samples'[SoundSecond]
    BY <1>9, <2>2, Zenon
  <2>7. current' = SoundSecond /\ dma' = TRUE /\ heard' = heard + 1 /\ requests' = requests
    BY <1>1, <1>9, <2>5
  <2>8. heard < chunks
    BY <1>5, <1>6, <1>7, <1>9
  <2> QED BY <2>3, <2>4, <2>5, <2>6, <2>7, <2>8
<1>10. CASE s.samples[SoundSecond] /\ ~s.end
  <2>1. s.end = FALSE
    BY <1>7, <1>10
  <2>12. s.next \in 1..chunks + 1 /\ s.samples \in [Sound!Buffers -> BOOLEAN]
      /\ s.filled \in [Sound!Buffers -> 0..MaxChunks]
    BY <1>7
  <2>2. /\ r.next = (IF s.next > chunks THEN s.next ELSE s.next + 1)
        /\ r.end \in BOOLEAN /\ (s.next > chunks => r.end) /\ (r.end => r.next = chunks + 1)
        /\ r.samples \in [Sound!Buffers -> BOOLEAN]
        /\ (IF s.next > chunks THEN r.samples[current] = FALSE ELSE r.samples[current] = TRUE)
        /\ r.filled \in [Sound!Buffers -> 0..MaxChunks]
        /\ r.filled[current] = (IF s.next > chunks THEN Sound!Nothing ELSE s.next)
        /\ \A c \in Sound!Buffers : c # current => r.samples[c] = s.samples[c] /\ r.filled[c] = s.filled[c]
    BY <1>2, <1>3, <2>1, <2>12, SoundLoadOutcome
  <2> HIDE DEF r
  <2>3. next' = r.next /\ end_of_wav' = r.end /\ samples' = r.samples /\ filled' = r.filled
    BY <1>1, <1>10 DEF Sound!Becomes
  <2>4. s.filled[SoundSecond] = heard + 1 /\ s.next = heard + 2 /\ s.next \in 1..chunks + 1
    BY <1>7, <1>10
  <2>5. end_of_wav' \in BOOLEAN /\ next' \in 1..chunks + 1 /\ (end_of_wav' => next' = chunks + 1)
    <3>1. r.next \in 1..chunks + 1
      BY <1>6, <2>2, <2>4
    <3> QED BY <2>2, <2>3, <3>1, Zenon
  <2>6. samples' \in [Sound!Buffers -> BOOLEAN] /\ filled' \in [Sound!Buffers -> 0..MaxChunks]
    BY <2>2, <2>3, Zenon
  <2>7. filled'[SoundSecond] = heard + 1
    BY <1>3, <2>2, <2>3, <2>4
  <2>8. samples'[SoundSecond]
    BY <1>3, <1>10, <2>2, <2>3, Zenon
  <2>9. IF samples'[current] THEN filled'[current] = heard + 2 /\ next' = heard + 3 ELSE next' = heard + 2
    <3>1. CASE s.next > chunks
      BY <2>2, <2>3, <2>4, <3>1
    <3>2. CASE ~(s.next > chunks)
      <4>1. samples'[current] = TRUE /\ filled'[current] = s.next /\ next' = s.next + 1
        BY <2>2, <2>3, <3>2, Zenon
      <4> QED BY <1>5, <1>6, <2>4, <4>1
    <3> QED BY <3>1, <3>2
  <2>10. current' = SoundSecond /\ dma' = TRUE /\ heard' = heard + 1 /\ requests' = requests
    BY <1>1, <1>10, <2>7
  <2>11. heard < chunks
    BY <1>5, <1>6, <2>4
  <2> QED BY <2>5, <2>6, <2>7, <2>8, <2>9, <2>10, <2>11
<1> QED BY <1>7, <1>8, <1>9, <1>10

-----------------------------------------------------------------------------
\* A file that has been started, and one that has been stopped.
LEMMA SoundStartedStep ==
    ASSUME SoundAssumed, SoundIInv, task = "waits", UNCHANGED <<requests, task>>,
           NEW callback \in {"nothing", "finished"}, NEW isForGsm \in BOOLEAN,
               Sound!Start(callback, isForGsm)
    PROVE SoundIInv'
<1> USE DEF SoundAssumed
<1>1. Sound!TypeOK /\ requests = {}
  BY DEF SoundIInv, SoundRequestInv
<1>2. /\ chunks' \in 1..MaxChunks /\ whole' \in BOOLEAN
      /\ next' = (IF chunks' = 1 THEN 2 ELSE 3)
      /\ end_of_wav' \in BOOLEAN /\ (end_of_wav' => next' = chunks' + 1)
      /\ samples' \in [Sound!Buffers -> BOOLEAN] /\ samples'[0] = TRUE /\ samples'[1] = (chunks' > 1)
      /\ filled' \in [Sound!Buffers -> 0..MaxChunks] /\ filled'[0] = 1 /\ (chunks' > 1 => filled'[1] = 2)
      /\ current' = 0 /\ heard' = 1 /\ dma' = TRUE /\ notified' = {}
      /\ on_finished' = callback /\ playing_for_gsm' = isForGsm
  BY <1>1, SoundStartOutcome
<1>3. Sound!TypeOK'
  BY <1>1, <1>2 DEF Sound!TypeOK, Sound!Buffers
<1>4. SoundSecond' = 1
  BY <1>2 DEF SoundSecond, Sound!Other
<1>5. samples'[1] <=> chunks' > 1
  BY <1>2, Zenon
<1>6. SoundPositionInv'
  <2>1. SoundSpare' = samples'[1]
    BY <1>1, <1>4 DEF SoundSpare
  <2>2. heard' \in 1..chunks' /\ next' <= chunks' + 1 /\ (end_of_wav' => next' = chunks' + 1)
    <3>1. heard' = 1 /\ chunks' \in 1..MaxChunks /\ next' = (IF chunks' = 1 THEN 2 ELSE 3)
        /\ MaxChunks \in Nat
      BY <1>2
    <3>2. heard' \in 1..chunks' /\ next' <= chunks' + 1
      <4>1. CASE chunks' = 1
        BY <3>1, <4>1
      <4>2. CASE chunks' # 1
        <5>1. ASSUME NEW n \in 1..MaxChunks, n # 1 PROVE 3 <= n + 1 /\ 1 \in 1..n
          BY <3>1, <5>1
        <5>2. 3 <= chunks' + 1 /\ 1 \in 1..chunks'
          BY <3>1, <4>2, <5>1, Zenon
        <5>3. heard' = 1 /\ next' = 3
          BY <3>1, <4>2, Zenon
        <5> QED BY <5>2, <5>3, Zenon
      <4> QED BY <4>1, <4>2
    <3> QED BY <1>2, <3>2, Zenon
  <2>3. CASE chunks' > 1
    <3>1. samples'[1] = TRUE /\ filled'[1] = heard' + 1 /\ next' = heard' + 2
      BY <1>2, <1>5, <2>3
    <3> QED BY <1>4, <2>1, <2>2, <3>1, Zenon DEF SoundPositionInv
  <2>4. CASE ~(chunks' > 1)
    <3>1. ~samples'[1] /\ next' = heard' + 1
      BY <1>2, <1>5, <2>4
    <3> QED BY <1>4, <2>1, <2>2, <3>1, Zenon DEF SoundPositionInv
  <2> QED BY <2>3, <2>4
<1>7. SoundBufferInv'
  BY <1>1, <1>2, <1>4 DEF SoundBufferInv, SoundLive
<1>8. SoundRequestInv'
  BY <1>1, <1>2 DEF SoundRequestInv
<1> QED BY <1>3, <1>6, <1>7, <1>8 DEF SoundIInv

LEMMA SoundStoppedStep == ASSUME SoundAssumed, SoundIInv, task = "waits", UNCHANGED <<requests, task>>,
    Sound!Stopped PROVE SoundIInv'
<1>1. Sound!TypeOK /\ requests = {}
  BY DEF SoundIInv, SoundRequestInv
<1>2. Sound!TypeOK'
  BY <1>1 DEF Sound!TypeOK, Sound!Stopped, Sound!StopNow
<1>3. ~SoundLive'
  BY DEF SoundLive, Sound!Stopped, Sound!StopNow
<1>4. SoundRequestInv'
  BY <1>1 DEF SoundRequestInv, Sound!Stopped, Sound!StopNow
<1> QED BY <1>2, <1>3, <1>4 DEF SoundIInv, SoundPositionInv, SoundBufferInv

\* The conversion that goes on, or the end of the file.
LEMMA SoundResumeStep == ASSUME SoundAssumed, SoundIInv, Sound!Resume PROVE SoundIInv'
<1> USE DEF SoundAssumed
<1>1. /\ task = "resumes" /\ task' = "ends"
      /\ UNCHANGED <<chunks, whole, notified, playing_for_gsm, on_finished>>
  BY DEF Sound!Resume
<1>2. Sound!TypeOK /\ SoundPositionInv /\ SoundBufferInv /\ SoundRequestInv
  BY DEF SoundIInv
<1>3. current \in Sound!Buffers /\ SoundSecond \in Sound!Buffers /\ SoundSecond # current
  BY <1>2, SoundTwoBuffers
<1>4. CASE "LOAD_AND_RESUME" \notin requests
  <2>1. UNCHANGED <<next, end_of_wav, samples, filled, current, dma, requests, heard>>
    BY <1>4 DEF Sound!Resume
  <2>2. UNCHANGED <<SoundSecond, SoundLive, SoundSpare>>
    BY <1>1, <2>1 DEF SoundSecond, Sound!Other, SoundLive, SoundSpare
  <2>3. Sound!TypeOK'
    BY <1>1, <1>2, <2>1 DEF Sound!TypeOK
  <2>4. SoundPositionInv'
    BY <1>1, <1>2, <2>1, <2>2 DEF SoundPositionInv, SoundLive
  <2>5. SoundBufferInv'
    BY <1>1, <1>2, <2>1, <2>2 DEF SoundBufferInv, SoundLive
  <2>6. SoundRequestInv'
    BY <1>1, <1>2, <2>1, <2>2 DEF SoundRequestInv
  <2> QED BY <2>3, <2>4, <2>5, <2>6 DEF SoundIInv
<1>5. CASE "LOAD_AND_RESUME" \in requests
  <2>1. /\ samples' \in [Sound!Buffers -> BOOLEAN] /\ filled' \in [Sound!Buffers -> 0..MaxChunks]
        /\ end_of_wav' \in BOOLEAN /\ next' \in 1..chunks + 1 /\ (end_of_wav' => next' = chunks + 1)
        /\ \/ /\ heard = chunks /\ end_of_wav' /\ ~samples'[SoundSecond] /\ ~samples'[current]
              /\ requests' = requests \cup {"HANDLE_END"} /\ UNCHANGED <<current, dma, heard>>
           \/ /\ heard < chunks /\ heard' = heard + 1 /\ current' = SoundSecond /\ dma' = TRUE
               /\ requests' = requests
              /\ samples'[SoundSecond] /\ filled'[SoundSecond] = heard + 1
              /\ IF samples'[current] THEN filled'[current] = heard + 2 /\ next' = heard + 3
                 ELSE next' = heard + 2
    BY <1>5, SoundResumeOutcome
  <2>2. ~dma /\ notified = {} /\ "HANDLE_END" \notin requests /\ ~samples[current] /\ heard \in 1..chunks
    BY <1>1, <1>2, <1>5 DEF SoundRequestInv, SoundBufferInv, SoundPositionInv, SoundLive
  <2>3. chunks \in 0..MaxChunks /\ heard \in 0..MaxChunks
    BY <1>2 DEF Sound!TypeOK
  <2>4. CASE /\ heard = chunks /\ end_of_wav' /\ ~samples'[SoundSecond] /\ ~samples'[current]
             /\ requests' = requests \cup {"HANDLE_END"} /\ UNCHANGED <<current, dma, heard>>
    <3>1. SoundSecond' = SoundSecond
      BY <2>4 DEF SoundSecond, Sound!Other
    <3>2. next' \in 1..MaxChunks + 1
      BY <2>1, <2>3
    <3>3. Sound!TypeOK'
      BY <1>1, <1>2, <2>1, <2>4, <3>2 DEF Sound!TypeOK
    <3>4. SoundPositionInv'
      BY <1>1, <2>1, <2>2, <2>4, <3>1 DEF SoundPositionInv, SoundSpare
    <3>5. SoundBufferInv'
      BY <1>1, <2>2, <2>4, <3>1 DEF SoundBufferInv
    <3>6. SoundRequestInv'
      BY <1>1, <2>2, <2>4 DEF SoundRequestInv
    <3> QED BY <3>3, <3>4, <3>5, <3>6 DEF SoundIInv
  <2>5. CASE /\ heard < chunks /\ heard' = heard + 1 /\ current' = SoundSecond /\ dma' = TRUE /\ requests' = requests
             /\ samples'[SoundSecond] /\ filled'[SoundSecond] = heard + 1
             /\ IF samples'[current] THEN filled'[current] = heard + 2 /\ next' = heard + 3
                ELSE next' = heard + 2
    <3>1. SoundSecond' = current
      BY <1>3, <2>5 DEF SoundSecond, Sound!Other, Sound!Buffers
    <3>2. next' \in 1..MaxChunks + 1 /\ heard' \in 0..MaxChunks /\ heard' \in 1..chunks
      BY <2>1, <2>2, <2>3, <2>5
    <3>3. Sound!TypeOK'
      BY <1>1, <1>2, <1>3, <2>1, <2>5, <3>2 DEF Sound!TypeOK
    <3>4. SoundPositionInv'
      <4>1. IF samples'[SoundSecond'] THEN filled'[SoundSecond'] = heard' + 1
          /\ next' = heard' + 2 ELSE next' = heard' + 1
        BY <2>2, <2>3, <2>5, <3>1
      <4>2. SoundSpare' = samples'[SoundSecond']
        BY <1>1 DEF SoundSpare
      <4>3. next' <= chunks' + 1 /\ (end_of_wav' => next' = chunks' + 1) /\ heard' \in 1..chunks'
        BY <1>1, <2>1, <2>3, <3>2
      <4> QED BY <4>1, <4>2, <4>3, Zenon DEF SoundPositionInv
    <3>5. SoundBufferInv'
      BY <1>1, <2>5 DEF SoundBufferInv
    <3>6. SoundRequestInv'
      BY <1>1, <2>2, <2>5 DEF SoundRequestInv
    <3> QED BY <3>3, <3>4, <3>5, <3>6 DEF SoundIInv
  <2> QED BY <2>1, <2>4, <2>5
<1> QED BY <1>4, <1>5


\* The buffers are swapped, or the conversion ends for want of samples.
LEMMA SoundDmaStep == ASSUME SoundAssumed, SoundIInv, Sound!DmaIsr PROVE SoundIInv'
<1> USE DEF SoundAssumed
<1>1. /\ dma /\ ~(task = "stores" /\ end_of_wav)
      /\ samples' = [samples EXCEPT ![current] = FALSE]
      /\ IF samples[SoundSecond]
         THEN /\ current' = SoundSecond
              /\ notified' = IF end_of_wav THEN notified ELSE notified \cup {"LOAD_SAMPLES"}
              /\ heard' = filled[current']
              /\ UNCHANGED dma
         ELSE /\ notified' = notified \cup {IF end_of_wav THEN "HANDLE_END" ELSE "LOAD_AND_RESUME"}
              /\ dma' = FALSE
              /\ UNCHANGED <<current, heard>>
      /\ UNCHANGED <<chunks, whole, next, end_of_wav, filled, requests, task, playing_for_gsm, on_finished>>
  BY DEF Sound!DmaIsr, Sound!ProvideSamples, SoundSecond
<1>2. Sound!TypeOK /\ SoundPositionInv /\ SoundBufferInv /\ SoundRequestInv
  BY DEF SoundIInv
<1>3. current \in Sound!Buffers /\ SoundSecond \in Sound!Buffers /\ SoundSecond # current
  BY <1>2, SoundTwoBuffers
<1>4. /\ samples \in [Sound!Buffers -> BOOLEAN] /\ samples' \in [Sound!Buffers -> BOOLEAN]
      /\ samples'[current] = FALSE /\ samples'[SoundSecond] = samples[SoundSecond]
      /\ filled \in [Sound!Buffers -> 0..MaxChunks]
  BY <1>1, <1>2, <1>3 DEF Sound!TypeOK
<1>5. /\ heard \in 1..chunks /\ next <= chunks + 1 /\ (end_of_wav => next = chunks + 1)
      /\ IF SoundSpare THEN filled[SoundSecond] = heard + 1 /\ next = heard + 2 ELSE next = heard + 1
  BY <1>1, <1>2 DEF SoundPositionInv, SoundLive
<1>6. chunks \in 0..MaxChunks /\ next \in 1..MaxChunks + 1 /\ heard \in 0..MaxChunks
  BY <1>2 DEF Sound!TypeOK
<1>7. CASE samples[SoundSecond]
  <2>1. task \notin {"reads", "stores"}
    BY <1>1, <1>2, <1>7 DEF SoundBufferInv, SoundLive
  <2>2. filled[SoundSecond] = heard + 1 /\ next = heard + 2
    BY <1>5, <1>7, <2>1 DEF SoundSpare
  <2>3. current' = SoundSecond /\ heard' = heard + 1 /\ dma' /\ heard' \in 1..chunks
    BY <1>1, <1>5, <1>6, <1>7, <2>2
  <2>4. SoundSecond' = current
    BY <1>3, <2>3 DEF SoundSecond, Sound!Other, Sound!Buffers
  <2>5. SoundSpare' = samples'[current]
    BY <1>1, <2>1, <2>4 DEF SoundSpare
  <2>6. Sound!TypeOK'
    BY <1>1, <1>2, <1>3, <1>4, <1>6, <1>7, <2>3 DEF Sound!TypeOK
  <2>7. SoundPositionInv'
    BY <1>1, <1>4, <1>5, <1>6, <2>2, <2>3, <2>5 DEF SoundPositionInv
  <2>8. SoundBufferInv'
    BY <1>1, <1>4, <1>7, <2>1, <2>2, <2>3 DEF SoundBufferInv
  <2>9. SoundRequestInv'
    BY <1>1, <1>2, <1>4, <1>7, <2>1, <2>3, <2>4 DEF SoundRequestInv
  <2> QED BY <2>6, <2>7, <2>8, <2>9 DEF SoundIInv
<1>8. CASE ~samples[SoundSecond]
  <2>1. dma' = FALSE /\ current' = current /\ heard' = heard /\ SoundSecond' = SoundSecond
        /\ notified' = notified \cup {IF end_of_wav THEN "HANDLE_END" ELSE "LOAD_AND_RESUME"}
    BY <1>1, <1>8 DEF SoundSecond, Sound!Other
  <2>2. SoundSpare' = SoundSpare
    BY <1>1, <1>4, <2>1 DEF SoundSpare
  <2>3. end_of_wav => heard = chunks
    <3>1. CASE task = "stores"
      BY <1>1, <3>1
    <3>2. CASE task # "stores"
      BY <1>5, <1>6, <1>8, <3>2 DEF SoundSpare
    <3> QED BY <3>1, <3>2
  <2>4. Sound!TypeOK'
    BY <1>1, <1>2, <1>4, <2>1 DEF Sound!TypeOK
  <2>5. SoundPositionInv'
    BY <1>1, <1>5, <1>6, <2>1, <2>2 DEF SoundPositionInv
  <2>6. SoundBufferInv'
    BY <1>1, <1>2, <1>4, <1>8, <2>1 DEF SoundBufferInv, SoundLive
  <2>7. SoundRequestInv'
    <3>1. "LOAD_AND_RESUME" \notin notified /\ "HANDLE_END" \notin notified
      BY <1>1, <1>2 DEF SoundRequestInv
    <3>2. /\ task = "waits" => requests = {}
          /\ "HANDLE_END" \notin requests
          /\ "LOAD_AND_RESUME" \in requests => task = "ends"
      BY <1>1, <1>2 DEF SoundRequestInv
    <3>3. "LOAD_SAMPLES" \in notified => ~samples[SoundSecond] /\ task \notin {"reads", "stores"}
      BY <1>2 DEF SoundRequestInv
    <3>4. CASE end_of_wav
      <4>1. notified' = notified \cup {"HANDLE_END"} /\ heard = chunks
        BY <2>1, <2>3, <3>4
      <4> QED BY <1>1, <1>4, <2>1, <3>1, <3>2, <3>3, <3>4, <4>1 DEF SoundRequestInv
    <3>5. CASE ~end_of_wav
      <4>1. notified' = notified \cup {"LOAD_AND_RESUME"}
        BY <2>1, <3>5
      <4> QED BY <1>1, <1>4, <2>1, <3>1, <3>2, <3>3, <3>5, <4>1 DEF SoundRequestInv
    <3> QED BY <3>4, <3>5
  <2> QED BY <2>4, <2>5, <2>6, <2>7 DEF SoundIInv
<1> QED BY <1>7, <1>8

\* The requests are taken; the buffer that will be filled holds nothing until then.
LEMMA SoundTakeStep == ASSUME SoundAssumed, SoundIInv, Sound!Take PROVE SoundIInv'
<1> USE DEF SoundAssumed
<1>1. /\ task = "waits" /\ notified # {} /\ requests' = notified /\ notified' = {}
      /\ IF "LOAD_SAMPLES" \in notified /\ ~end_of_wav
         THEN task' = "reads" /\ filled' = [filled EXCEPT ![SoundSecond] = Sound!Nothing]
         ELSE task' = "resumes" /\ UNCHANGED filled
      /\ UNCHANGED <<chunks, whole, next, end_of_wav, samples, current, dma, playing_for_gsm, on_finished, heard>>
  BY DEF Sound!Take, SoundSecond
<1>2. Sound!TypeOK /\ SoundPositionInv /\ SoundBufferInv /\ SoundRequestInv
  BY DEF SoundIInv
<1>3. current \in Sound!Buffers /\ SoundSecond \in Sound!Buffers /\ SoundSecond # current
    /\ SoundSecond' = SoundSecond
  BY <1>1, <1>2, SoundTwoBuffers DEF SoundSecond, Sound!Other
<1>4. /\ filled' \in [Sound!Buffers -> 0..MaxChunks] /\ filled'[current] = filled[current]
      /\ task' = "resumes" => filled' = filled
      /\ task' = "reads" => "LOAD_SAMPLES" \in notified /\ ~end_of_wav
      /\ task' \in {"reads", "resumes"}
  BY <1>1, <1>2, <1>3 DEF Sound!TypeOK, Sound!Nothing
<1>5. SoundLive
  BY <1>1 DEF SoundLive
<1>6. ("LOAD_SAMPLES" \in notified => ~samples[SoundSecond]) /\ SoundSpare = samples[SoundSecond]
    /\ SoundSpare' = samples[SoundSecond]
  BY <1>1, <1>2, <1>3, <1>4 DEF SoundRequestInv, SoundSpare
<1>7. Sound!TypeOK'
  BY <1>1, <1>2, <1>4 DEF Sound!TypeOK
<1>8. SoundPositionInv'
  BY <1>1, <1>2, <1>3, <1>4, <1>5, <1>6 DEF SoundPositionInv
<1>9. SoundBufferInv'
  BY <1>1, <1>2, <1>3, <1>4, <1>5, <1>6 DEF SoundBufferInv
<1>10. SoundRequestInv'
  BY <1>1, <1>2, <1>4 DEF SoundRequestInv
<1> QED BY <1>7, <1>8, <1>9, <1>10 DEF SoundIInv

\* A chunk is read.
LEMMA SoundReadStep == ASSUME SoundAssumed, SoundIInv, Sound!Read PROVE SoundIInv'
<1> USE DEF SoundAssumed
<1> DEFINE s == Sound!Loaded(Sound!Now, SoundSecond, chunks, whole)
<1>1. /\ task = "reads" /\ task' = "stores"
      /\ next' = s.next /\ end_of_wav' = s.end /\ filled' = s.filled
      /\ UNCHANGED <<chunks, whole, samples, current, dma, notified, requests, playing_for_gsm, on_finished, heard>>
  BY DEF Sound!Read, SoundSecond
<1>2. Sound!TypeOK /\ SoundPositionInv /\ SoundBufferInv /\ SoundRequestInv
  BY DEF SoundIInv
<1>3. current \in Sound!Buffers /\ SoundSecond \in Sound!Buffers /\ SoundSecond # current
    /\ SoundSecond' = SoundSecond
  BY <1>1, <1>2, SoundTwoBuffers DEF SoundSecond, Sound!Other
<1>4. ~end_of_wav /\ ~samples[SoundSecond] /\ SoundLive
  BY <1>1, <1>2 DEF SoundBufferInv, SoundLive
<1>5. heard \in 1..chunks /\ next = heard + 1 /\ next <= chunks + 1
  BY <1>1, <1>2, <1>4 DEF SoundPositionInv, SoundSpare
<1>6. /\ Sound!Now.next = next /\ Sound!Now.end = FALSE /\ Sound!Now.samples = samples
    /\ Sound!Now.filled = filled
      /\ Sound!Now.samples \in [Sound!Buffers -> BOOLEAN]
            /\ Sound!Now.filled \in [Sound!Buffers -> 0..MaxChunks]
      /\ chunks \in 0..MaxChunks /\ next \in 1..chunks + 1
  BY <1>2, <1>4, <1>5, SoundNowTyped DEF Sound!TypeOK
<1>7. /\ s.next = (IF Sound!Now.next > chunks THEN Sound!Now.next ELSE Sound!Now.next + 1)
      /\ s.end \in BOOLEAN /\ (Sound!Now.next > chunks => s.end) /\ (s.end => s.next = chunks + 1)
      /\ s.samples \in [Sound!Buffers -> BOOLEAN]
      /\ (IF Sound!Now.next > chunks THEN s.samples[SoundSecond] = FALSE ELSE s.samples[SoundSecond] = TRUE)
      /\ s.filled \in [Sound!Buffers -> 0..MaxChunks]
      /\ s.filled[SoundSecond] = (IF Sound!Now.next > chunks THEN Sound!Nothing ELSE Sound!Now.next)
      /\ \A c \in Sound!Buffers : c # SoundSecond => s.samples[c] = Sound!Now.samples[c]
            /\ s.filled[c] = Sound!Now.filled[c]
  BY <1>2, <1>3, <1>6, SoundLoadOutcome
<1> HIDE DEF s
<1>8. /\ end_of_wav' \in BOOLEAN /\ filled' \in [Sound!Buffers -> 0..MaxChunks]
      /\ filled'[current] = filled[current]
      /\ end_of_wav' => next' = chunks + 1
  BY <1>1, <1>3, <1>6, <1>7, Zenon
<1>9. next > chunks => next' = next /\ filled'[SoundSecond] = Sound!Nothing
  BY <1>1, <1>6, <1>7, Zenon
<1>10. ~(next > chunks) => next' = next + 1 /\ filled'[SoundSecond] = next
  BY <1>1, <1>6, <1>7, Zenon
<1>11. /\ next' \in 1..chunks + 1
       /\ IF filled'[SoundSecond] # Sound!Nothing THEN filled'[SoundSecond] = heard + 1
             /\ next' = heard + 2 ELSE next' = heard + 1
  <2>1. CASE next > chunks
    BY <1>5, <1>6, <1>9, <2>1
  <2>2. CASE ~(next > chunks)
    BY <1>5, <1>6, <1>10, <2>2 DEF Sound!Nothing
  <2> QED BY <2>1, <2>2
<1>12. Sound!TypeOK'
  <2>1. next' \in 1..MaxChunks + 1
    BY <1>6, <1>11
  <2> QED BY <1>1, <1>2, <1>8, <2>1 DEF Sound!TypeOK
<1>13. SoundPositionInv'
  <2>1. SoundSpare' = (filled'[SoundSecond] # Sound!Nothing)
    BY <1>1, <1>3 DEF SoundSpare
  <2>2. next' <= chunks' + 1 /\ heard' \in 1..chunks'
    BY <1>1, <1>5, <1>6, <1>11
  <2>3. CASE filled'[SoundSecond] # Sound!Nothing
    BY <1>1, <1>3, <1>8, <1>11, <2>1, <2>2, <2>3, Zenon DEF SoundPositionInv
  <2>4. CASE filled'[SoundSecond] = Sound!Nothing
    BY <1>1, <1>3, <1>8, <1>11, <2>1, <2>2, <2>4, Zenon DEF SoundPositionInv
  <2> QED BY <2>3, <2>4
<1>14. SoundBufferInv'
  BY <1>1, <1>2, <1>3, <1>4, <1>8 DEF SoundBufferInv
<1>15. SoundRequestInv'
  BY <1>1, <1>2, <1>3, <1>4 DEF SoundRequestInv
<1> QED BY <1>12, <1>13, <1>14, <1>15 DEF SoundIInv

\* The number of its samples is noted.
LEMMA SoundStoreStep == ASSUME SoundAssumed, SoundIInv, Sound!Store PROVE SoundIInv'
<1>1. /\ task = "stores" /\ task' = "resumes"
      /\ samples' = [samples EXCEPT ![SoundSecond] = (filled[SoundSecond] # Sound!Nothing)]
      /\ UNCHANGED <<chunks, whole, next, end_of_wav, filled, current, dma, notified, requests, playing_for_gsm, on_finished, heard>>
  BY DEF Sound!Store, SoundSecond
<1>2. Sound!TypeOK /\ SoundPositionInv /\ SoundBufferInv /\ SoundRequestInv
  BY DEF SoundIInv
<1>3. current \in Sound!Buffers /\ SoundSecond \in Sound!Buffers /\ SoundSecond # current
    /\ SoundSecond' = SoundSecond
  BY <1>1, <1>2, SoundTwoBuffers DEF SoundSecond, Sound!Other
<1>4. SoundLive
  BY <1>1 DEF SoundLive
<1>5. samples' \in [Sound!Buffers -> BOOLEAN] /\ samples'[current] = samples[current]
  <2>1. (filled[SoundSecond] # Sound!Nothing) \in BOOLEAN
    OBVIOUS
  <2> QED BY <1>1, <1>2, <1>3, <2>1 DEF Sound!TypeOK
<1>6. SoundSpare' = SoundSpare
  <2>1. samples \in [Sound!Buffers -> BOOLEAN]
    BY <1>2 DEF Sound!TypeOK
  <2>2. samples'[SoundSecond] = (filled[SoundSecond] # Sound!Nothing)
    BY <1>1, <1>3, <2>1
  <2>3. SoundSpare = (filled[SoundSecond] # Sound!Nothing)
    BY <1>1 DEF SoundSpare
  <2>4. SoundSpare' = samples'[SoundSecond]
    BY <1>1, <1>3 DEF SoundSpare
  <2> QED BY <2>2, <2>3, <2>4, Zenon
<1>7. Sound!TypeOK'
  BY <1>1, <1>2, <1>5 DEF Sound!TypeOK
<1>8. SoundPositionInv'
  BY <1>1, <1>2, <1>3, <1>4, <1>6 DEF SoundPositionInv
<1>9. SoundBufferInv'
  BY <1>1, <1>2, <1>4, <1>5 DEF SoundBufferInv
<1>10. SoundRequestInv'
  <2>1. "LOAD_SAMPLES" \notin notified
    BY <1>1, <1>2 DEF SoundRequestInv
  <2> QED BY <1>1, <1>2, <2>1 DEF SoundRequestInv
<1> QED BY <1>7, <1>8, <1>9, <1>10 DEF SoundIInv

\* The requests are done; at the end of the file nothing is played and nothing asked for.
LEMMA SoundHandleEndStep == ASSUME SoundAssumed, SoundIInv, Sound!HandleEnd PROVE SoundIInv'
<1>1. /\ task = "ends" /\ task' = "waits" /\ requests' = {}
      /\ IF "HANDLE_END" \in requests
         THEN dma' = FALSE /\ playing_for_gsm' = FALSE /\ on_finished' = "null"
         ELSE UNCHANGED <<dma, playing_for_gsm, on_finished>>
      /\ UNCHANGED <<chunks, whole, next, end_of_wav, samples, filled, current, notified, heard>>
  BY DEF Sound!HandleEnd, Sound!fileV
<1>2. Sound!TypeOK /\ SoundPositionInv /\ SoundBufferInv /\ SoundRequestInv
  BY DEF SoundIInv
<1>3. SoundLive /\ dma' = dma
  BY <1>1, <1>2 DEF SoundLive, SoundRequestInv, Sound!TypeOK
<1>4. SoundSecond' = SoundSecond /\ SoundSpare' = SoundSpare
  BY <1>1 DEF SoundSecond, Sound!Other, SoundSpare
<1>5. Sound!TypeOK'
  BY <1>1, <1>2 DEF Sound!TypeOK
<1>6. SoundPositionInv'
  BY <1>1, <1>2, <1>3, <1>4 DEF SoundPositionInv
<1>7. SoundBufferInv'
  BY <1>1, <1>2, <1>3, <1>4 DEF SoundBufferInv
<1>8. SoundRequestInv'
  BY <1>1, <1>2, <1>3, <1>4 DEF SoundRequestInv
<1> QED BY <1>5, <1>6, <1>7, <1>8 DEF SoundIInv

-----------------------------------------------------------------------------
LEMMA SoundInitIInv == ASSUME SoundAssumed, Sound!Init PROVE SoundIInv
<1>1. Sound!TypeOK
  <2>1. MaxChunks \in Nat /\ 0 \in 0..MaxChunks /\ 1 \in 1..MaxChunks + 1
    BY DEF SoundAssumed
  <2>2. samples \in [Sound!Buffers -> BOOLEAN] /\ filled \in [Sound!Buffers -> 0..MaxChunks]
      /\ current \in Sound!Buffers
    BY <2>1 DEF Sound!Init, Sound!Buffers, Sound!Nothing
  <2> QED BY <2>1, <2>2 DEF Sound!Init, Sound!TypeOK
<1>2. ~SoundLive /\ SoundRequestInv
  BY DEF Sound!Init, SoundLive, SoundRequestInv
<1> QED BY <1>1, <1>2 DEF SoundIInv, SoundPositionInv, SoundBufferInv

LEMMA SoundNextIInv == ASSUME SoundAssumed, SoundIInv, [Sound!Next]_Sound!vars PROVE SoundIInv'
<1>1. CASE Sound!DmaIsr BY <1>1, SoundDmaStep
<1>2. CASE Sound!Take BY <1>2, SoundTakeStep
<1>3. CASE Sound!Read BY <1>3, SoundReadStep
<1>4. CASE Sound!Store BY <1>4, SoundStoreStep
<1>5. CASE Sound!Resume BY <1>5, SoundResumeStep
<1>6. CASE Sound!HandleEnd BY <1>6, SoundHandleEndStep
<1>7. CASE Sound!PlayViaSpeaker BY <1>7, SoundStartedStep, SoundStoppedStep DEF Sound!PlayViaSpeaker
<1>8. CASE Sound!PlayForGsm BY <1>8, SoundStartedStep, SoundStoppedStep DEF Sound!PlayForGsm
<1>9. CASE Sound!StopPlaying BY <1>9, SoundStoppedStep DEF Sound!StopPlaying
<1>10. CASE UNCHANGED Sound!vars
  BY <1>10 DEF SoundIInv, Sound!TypeOK, SoundPositionInv, SoundBufferInv, SoundRequestInv, SoundLive,
      SoundSpare, SoundSecond, Sound!Other, Sound!vars, Sound!fileV
<1> QED BY <1>1, <1>2, <1>3, <1>4, <1>5, <1>6, <1>7, <1>8, <1>9, <1>10 DEF Sound!Next, Sound!Service

\* The strengthened invariant holds in every behaviour: position, buffers and requests
\* agree in load_samples(), provide_samples() and service_task().
THEOREM SoundInductive == ASSUME SoundAssumed PROVE Sound!Spec => []SoundIInv
<1>1. Sound!Init => SoundIInv BY SoundInitIInv
<1>2. SoundIInv /\ [Sound!Next]_Sound!vars => SoundIInv' BY SoundNextIInv
<1> QED BY <1>1, <1>2, PTL DEF Sound!Spec

\* The state of player.cpp keeps its type, for files of any length.
THEOREM SoundTypeCorrect == ASSUME SoundAssumed PROVE Sound!Spec => []Sound!TypeOK
<1>1. SoundIInv => Sound!TypeOK BY DEF SoundIInv
<1> QED BY <1>1, SoundInductive, PTL

-----------------------------------------------------------------------------
\* A step of PlaysWhole.
SoundWhole ==
    /\ heard' # heard => heard' = 1 \/ heard' = heard + 1
    /\ heard' = 1 /\ heard # 1 => current' = 0 /\ dma'
    /\ dma' => filled'[current'] = heard'
    /\ on_finished' = "null" /\ on_finished # "null" => heard = chunks /\ end_of_wav

LEMMA SoundWholeStep == ASSUME SoundAssumed, SoundIInv, SoundIInv',
    [Sound!Next]_Sound!vars PROVE SoundWhole \/ UNCHANGED Sound!vars
<1>1. Sound!TypeOK /\ SoundPositionInv /\ SoundBufferInv /\ SoundRequestInv /\ SoundBufferInv'
  BY DEF SoundIInv
<1>2. dma' => filled'[current'] = heard'
  BY <1>1 DEF SoundBufferInv, SoundLive
<1>3. CASE UNCHANGED <<heard, on_finished>>
  BY <1>2, <1>3 DEF SoundWhole
<1>4. CASE Sound!DmaIsr
  <2>1. on_finished' = on_finished /\ dma
    BY <1>4 DEF Sound!DmaIsr
  <2>2. heard' # heard => samples[SoundSecond] /\ heard' = filled[SoundSecond]
    BY <1>4 DEF Sound!DmaIsr, Sound!ProvideSamples, SoundSecond
  <2>3. heard' # heard => heard' = heard + 1 /\ heard \in 1..chunks
    BY <1>1, <2>1, <2>2 DEF SoundBufferInv, SoundPositionInv, SoundLive, SoundSpare
  <2>4. chunks \in 0..MaxChunks
    BY <1>1 DEF Sound!TypeOK
  <2>5. heard' = 1 /\ heard # 1 => FALSE
    BY <2>3, <2>4 DEF SoundAssumed
  <2> QED BY <1>2, <2>1, <2>3, <2>5 DEF SoundWhole
<1>5. CASE Sound!Resume
  <2>1. on_finished' = on_finished
    BY <1>5 DEF Sound!Resume
  <2>2. CASE "LOAD_AND_RESUME" \notin requests
    <3>1. heard' = heard
      BY <1>5, <2>2 DEF Sound!Resume
    <3> QED BY <1>3, <2>1, <3>1
  <2>3. CASE "LOAD_AND_RESUME" \in requests
    <3>1. heard' = heard \/ heard' = heard + 1
      BY <1>5, <2>3, SoundResumeOutcome
    <3>2. heard \in 1..chunks /\ chunks \in 0..MaxChunks
      BY <1>1, <1>5 DEF SoundPositionInv, SoundLive, Sound!Resume, Sound!TypeOK
    <3>3. heard' = 1 /\ heard # 1 => FALSE
      BY <3>1, <3>2 DEF SoundAssumed
    <3> QED BY <1>2, <2>1, <3>1, <3>3 DEF SoundWhole
  <2> QED BY <2>2, <2>3
<1>6. CASE Sound!HandleEnd
  <2>1. heard' = heard /\ (on_finished' # on_finished => "HANDLE_END" \in requests)
    BY <1>6 DEF Sound!HandleEnd
  <2>2. "HANDLE_END" \in requests => heard = chunks /\ end_of_wav
    BY <1>1 DEF SoundRequestInv
  <2> QED BY <1>2, <2>1, <2>2 DEF SoundWhole
<1>7. ASSUME NEW callback \in {"nothing", "finished"}, NEW isForGsm, Sound!Start(callback, isForGsm)
      PROVE SoundWhole
  <2>1. current' = 0 /\ heard' = 1 /\ dma' = TRUE /\ on_finished' = callback
    BY <1>1, <1>7, SoundStartOutcome
  <2> QED BY <1>2, <1>7, <2>1 DEF SoundWhole
<1>8. CASE Sound!Stopped
  BY <1>3, <1>8 DEF Sound!Stopped
<1> QED BY <1>3, <1>4, <1>5, <1>6, <1>7, <1>8
    DEF Sound!Next, Sound!Service, Sound!Take, Sound!Read, Sound!Store, Sound!PlayViaSpeaker,
        Sound!PlayForGsm, Sound!StopPlaying, Sound!vars

\* A file of any length is played as it was recorded, none of its chunks twice and none
\* left out, and its end is told once and after its last chunk: provide_samples(),
\* service_task() and the functions that start and stop a file.
THEOREM PlayedWhole == ASSUME SoundAssumed PROVE Sound!Spec => PlaysWhole
<1>1. SoundIInv /\ SoundIInv' /\ [Sound!Next]_Sound!vars => [SoundWhole]_Sound!vars
  BY SoundWholeStep
<1> QED BY <1>1, SoundInductive, PTL DEF Sound!Spec, PlaysWhole, Sound!PlaysWhole, SoundWhole

\* Also besides the calls, which play the menu.
THEOREM PlayedWholeInCalls == ASSUME SoundAssumed PROVE AllSpec => PlaysWhole
<1>1. AllInit => Sound!Init BY DEF AllInit
<1>2. [AllNext]_<<part, vars, soundV>> => [Sound!Next]_Sound!vars
  BY DEF AllNext, CallStep, SoundStep, soundV, Sound!vars, Sound!fileV
<1>3. AllSpec => Sound!Spec BY <1>1, <1>2, PTL DEF AllSpec, Sound!Spec
<1> QED BY <1>3, PlayedWhole
=============================================================================
