------------------------------- MODULE Player -------------------------------
(***************************************************************************)
(* The sound service: while the DAC plays one buffer of samples by DMA,    *)
(* the service task fills the other one from the file.  The handler of DMA *)
(* swaps them, and may come amid the work of the task; whoever starts or   *)
(* stops a file excludes the task by the mutex and the handler by stopping *)
(* the conversion first.                                                   *)
(***************************************************************************)
EXTENDS Naturals

CONSTANTS
    MaxChunks,      \* buffers of samples in a file
    Coincidences    \* "short": a file may be shorter than one buffer; "cut": see DmaIsr

VARIABLES
    chunks, whole,      \* of the file: number of chunks, is the last one a whole buffer
    next, end_of_wav,   \* next chunk to read; the file is closed
    samples, filled,    \* samples_number[b] # 0, and which chunk of this file the buffer holds
    current,            \* current_buffer
    dma,                \* a buffer is being played
    notified, bits,     \* requests: not seen yet, being served
    service,            \* what service_task does
    playing_for_gsm, on_finished,
    heard               \* number of the chunk that was played last

fileV == <<chunks, whole, next, end_of_wav, samples, filled>>
vars == <<fileV, current, dma, notified, bits, service, playing_for_gsm, on_finished, heard>>

Buffers  == {0, 1}
Other(b) == 1 - b
Nothing  == 0

Init ==
    /\ chunks = 0 /\ whole = FALSE /\ next = 1 /\ end_of_wav = TRUE
    /\ samples = [b \in Buffers |-> FALSE] /\ filled = [b \in Buffers |-> Nothing]
    /\ current = 0 /\ dma = FALSE
    /\ notified = {} /\ bits = {} /\ service = "waits"
    /\ playing_for_gsm = FALSE /\ on_finished = "null"
    /\ heard = 0

-----------------------------------------------------------------------------
(* Loading of samples *)

\* A chunk that is less than a buffer, or nothing, tells the end: read_wav()
EndsWith(n, length, isWhole) == n > length \/ (n = length /\ ~isWhole)
ReadChunk(n, length)         == IF n > length THEN Nothing ELSE n

\* load_samples(): what becomes of the position, the end, the buffers
Loaded(s, b, length, isWhole) ==
    IF s.end THEN s
    ELSE [next    |-> IF s.next > length THEN s.next ELSE s.next + 1,
          end     |-> EndsWith(s.next, length, isWhole),
          samples |-> [s.samples EXCEPT ![b] = (s.next <= length)],
          filled  |-> [s.filled EXCEPT ![b] = ReadChunk(s.next, length)]]

Now == [next |-> next, end |-> end_of_wav, samples |-> samples, filled |-> filled]

Becomes(s) == next' = s.next /\ end_of_wav' = s.end /\ samples' = s.samples /\ filled' = s.filled

-----------------------------------------------------------------------------
(* Those who start and stop: under the mutex, with the conversion stopped *)

\* stop_now(); nobody is told
StopNow == dma' = FALSE /\ notified' = {}

\* load_wav(), and start_conversion() of the first buffer
Start(callback, isForGsm) ==
    /\ chunks' \in 1..MaxChunks /\ whole' \in BOOLEAN
    /\ chunks' > 1 \/ whole' \/ "short" \in Coincidences
    /\ LET opened == [next |-> 1, end |-> FALSE, samples |-> samples, filled |-> [b \in Buffers |-> Nothing]]
       IN  Becomes(Loaded(Loaded(opened, 0, chunks', whole'), 1, chunks', whole'))
    /\ current' = 0
    /\ dma' = TRUE /\ notified' = {}
    /\ on_finished' = callback /\ playing_for_gsm' = isForGsm
    /\ heard' = filled'[0]

Stopped == StopNow /\ end_of_wav' = TRUE /\ playing_for_gsm' = FALSE
           /\ UNCHANGED <<chunks, whole, next, samples, filled, current, on_finished, heard>>

PlayViaSpeaker ==
    /\ service = "waits" /\ ~playing_for_gsm
    /\ Start("nothing", FALSE) \/ Stopped       \* the file may be wrong
    /\ UNCHANGED <<bits, service>>

PlayForGsm ==
    /\ service = "waits"
    /\ Start("finished", TRUE) \/ Stopped
    /\ UNCHANGED <<bits, service>>

StopPlaying == service = "waits" /\ Stopped /\ UNCHANGED <<bits, service>>

-----------------------------------------------------------------------------
(* The handler of DMA: provide_samples() *)

\* Mutant: a buffer that was played is not marked.
ProvideSamplesAgain ==
    IF samples[Other(current)]
    THEN /\ current' = Other(current)
         /\ notified' = IF end_of_wav THEN notified ELSE notified \cup {"LOAD_SAMPLES"}
         /\ heard' = filled[current']
         /\ UNCHANGED <<dma, samples>>
    ELSE /\ notified' = notified \cup {IF end_of_wav THEN "HANDLE_END" ELSE "LOAD_AND_RESUME"}
         /\ dma' = FALSE
         /\ UNCHANGED <<current, heard, samples>>

ProvideSamples ==
    /\ samples' = [samples EXCEPT ![current] = FALSE]
    /\ IF samples[Other(current)]
       THEN /\ current' = Other(current)
            /\ notified' = IF end_of_wav THEN notified ELSE notified \cup {"LOAD_SAMPLES"}
            /\ heard' = filled[current']
            /\ UNCHANGED dma
       ELSE /\ notified' = notified \cup {IF end_of_wav THEN "HANDLE_END" ELSE "LOAD_AND_RESUME"}
            /\ dma' = FALSE
            /\ UNCHANGED <<current, heard>>

\* Only if "cut" it comes right between the end of the file was noted and the number of
\* its last samples is.
DmaIsr ==
    /\ dma
    /\ service = "stores" /\ end_of_wav => "cut" \in Coincidences
    /\ ProvideSamples
    /\ UNCHANGED <<chunks, whole, next, end_of_wav, filled, bits, service, playing_for_gsm, on_finished>>

-----------------------------------------------------------------------------
(* The task: service_task() *)

Take ==
    /\ service = "waits" /\ notified # {}
    /\ bits' = notified /\ notified' = {}
    /\ IF "LOAD_SAMPLES" \in notified /\ ~end_of_wav
       THEN service' = "reads" /\ filled' = [filled EXCEPT ![Other(current)] = Nothing]
       ELSE service' = "resumes" /\ UNCHANGED filled
    /\ UNCHANGED <<chunks, whole, next, end_of_wav, samples, current, dma, playing_for_gsm, on_finished, heard>>

\* f_read(), and what follows at the end of the file.  The handler does not swap the
\* buffers meanwhile: the one that is being filled has no samples.
Read ==
    /\ service = "reads"
    /\ service' = "stores"
    /\ LET s == Loaded(Now, Other(current), chunks, whole)
       IN  next' = s.next /\ end_of_wav' = s.end /\ filled' = s.filled
    /\ UNCHANGED <<chunks, whole, samples, current, dma, notified, bits, playing_for_gsm, on_finished, heard>>

Store ==
    /\ service = "stores"
    /\ service' = "resumes"
    /\ samples' = [samples EXCEPT ![Other(current)] = (filled[Other(current)] # Nothing)]
    /\ UNCHANGED <<chunks, whole, next, end_of_wav, filled, current, dma, notified, bits, playing_for_gsm, on_finished, heard>>

\* The next buffer may be loaded meanwhile, just a little late.  DMA rests.
Resume ==
    /\ service = "resumes"
    /\ service' = "ends"
    /\ LET nextBuffer == Other(current)
           s          == IF samples[nextBuffer] THEN Now ELSE Loaded(Now, nextBuffer, chunks, whole)
       IN  IF "LOAD_AND_RESUME" \notin bits THEN UNCHANGED <<next, end_of_wav, samples, filled, current, dma, bits, heard>>
           ELSE IF s.samples[nextBuffer]
           THEN /\ Becomes(Loaded(s, current, chunks, whole))
                /\ current' = nextBuffer /\ dma' = TRUE /\ heard' = filled'[nextBuffer]
                /\ UNCHANGED bits
           ELSE Becomes(s) /\ bits' = bits \cup {"HANDLE_END"} /\ UNCHANGED <<current, dma, heard>>
    /\ UNCHANGED <<chunks, whole, notified, playing_for_gsm, on_finished>>

HandleEnd ==
    /\ service = "ends"
    /\ service' = "waits" /\ bits' = {}
    /\ IF "HANDLE_END" \in bits
       THEN dma' = FALSE /\ playing_for_gsm' = FALSE /\ on_finished' = "null"
       ELSE UNCHANGED <<dma, playing_for_gsm, on_finished>>
    /\ UNCHANGED <<fileV, current, notified, heard>>

-----------------------------------------------------------------------------
Service == Take \/ Read \/ Store \/ Resume \/ HandleEnd
Next == DmaIsr \/ Service \/ PlayViaSpeaker \/ PlayForGsm \/ StopPlaying

Spec == Init /\ [][Next]_vars

-----------------------------------------------------------------------------
TypeOK ==
    /\ chunks \in 0..MaxChunks /\ whole \in BOOLEAN
    /\ next \in 1..MaxChunks + 1 /\ end_of_wav \in BOOLEAN
    /\ samples \in [Buffers -> BOOLEAN] /\ filled \in [Buffers -> 0..MaxChunks]
    /\ current \in Buffers /\ dma \in BOOLEAN
    /\ notified \subseteq {"LOAD_SAMPLES", "LOAD_AND_RESUME", "HANDLE_END"}
    /\ bits \subseteq {"LOAD_SAMPLES", "LOAD_AND_RESUME", "HANDLE_END"}
    /\ service \in {"waits", "reads", "stores", "resumes", "ends"}
    /\ playing_for_gsm \in BOOLEAN /\ on_finished \in {"null", "nothing", "finished"}
    /\ heard \in 0..MaxChunks

\* A file is played as it was recorded: its chunks in turn, none twice and none left out,
\* however late they are read; the buffer that is being played is not written; and who
\* waits for the end is told after the last chunk, once, and not of a file that was stopped.
PlaysWhole ==
    [][/\ heard' # heard => heard' = 1 \/ heard' = heard + 1
       /\ heard' = 1 /\ heard # 1 => current' = 0 /\ dma'
       /\ dma' => filled'[current'] = heard'
       /\ on_finished' = "null" /\ on_finished # "null" => heard = chunks /\ end_of_wav]_vars
=============================================================================
