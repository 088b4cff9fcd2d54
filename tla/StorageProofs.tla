--------------------------- MODULE StorageProofs ----------------------------
(***************************************************************************)
(* Proofs about what is kept: the settings, for any contents; the SD card, *)
(* for operations of any length; the flash, for any number of pages; the   *)
(* clock.  Each part has an inductive invariant of its own (IInv,          *)
(* CardIInv, ChipIInv, TimeIInv); the theorems are about all behaviours of *)
(* its module, which MCStorage instantiates.                               *)
(***************************************************************************)
EXTENDS MCStorage, Integers, Sequences, TLAPS

-----------------------------------------------------------------------------
(* Settings.  StoredInv says where the applied settings are at each step   *)
(* of a setter, PreparedInv what the inactive copy and the temporary file  *)
(* hold.                                                                   *)

Saving == {"remove", "back_up", "create", "write", "install", "apply"}

\* The copy that is being stored, and its file.
PreparedInv ==
    /\ saving \in Saving => ~usedDefault /\ settings[NextIndex] = attempted
    /\ saving = "install" => files["temp"] = attempted
    /\ saving = "boot" => usedDefault
    /\ ~usedDefault => settings[active] = applied

\* Where the settings are stored.
StoredInv ==
    /\ ~retried /\ ~usedDefault /\ saving # "apply" => Readable = applied
    /\ ~retried /\ saving = "apply" => Readable = attempted
    /\ ~retried /\ saving = "idle" /\ ~usedDefault /\ ~failed /\ ~currentAbsent => files["curr"] # Absent
    /\ ~retried /\ saving \in {"remove", "back_up"} => files["curr"] # Absent
    /\ saving = "apply" => files["curr"] # Absent

IInv == TypeOK /\ NeverTorn /\ PreparedInv /\ StoredInv /\ SettingsSurvive

\* The inactive copy is the other one.
LEMMA OtherIndex == ASSUME active \in 0..1 PROVE NextIndex \in 0..1 /\ NextIndex # active
BY DEF NextIndex

\* Every step leaves contents typed.
LEMMA TypeContentsStep == IInv /\ [Next]_vars => TypeContents'
<1> SUFFICES ASSUME IInv, [Next]_vars PROVE TypeContents'
    OBVIOUS
<1>0. NextIndex \in 0..1 /\ NextIndex # active
  BY OtherIndex DEF IInv, TypeOK, TypeContents
<1>9. active' = active => NextIndex' = NextIndex
  BY DEF NextIndex
<1> USE <1>0, <1>9, ValuesAssumption
<1> USE DEF IInv, TypeOK, TypeContents, File, ramV, historyV
<1>1. CASE Restart \/ Load \/ LoadFails
  <2>1. CASE Restart BY <2>1 DEF Restart, InitSettings
  <2>2. CASE Load BY <2>2 DEF Load, Loaded, Readable
  <2>3. CASE LoadFails BY <2>3 DEF LoadFails, Loaded, Readable
  <2> QED BY <1>1, <2>1, <2>2, <2>3
<1>2. CASE RemovePrevious \/ BackUp \/ Create \/ Write \/ Install \/ Apply
  <2>1. CASE RemovePrevious BY <2>1 DEF RemovePrevious, Continue, Fail, Renamed, Written
  <2>2. CASE BackUp BY <2>2 DEF BackUp, Continue, Fail, Renamed, Written
  <2>3. CASE Create BY <2>3 DEF Create, Continue, Fail, Renamed, Written
  <2>4. CASE Write BY <2>4 DEF Write, Continue, Fail, Renamed, Written
  <2>5. CASE Install BY <2>5 DEF Install, Continue, Fail, Renamed, Written
  <2>6. CASE Apply BY <2>6 DEF Apply, Continue, Fail, Renamed, Written
  <2> QED BY <1>2, <2>1, <2>2, <2>3, <2>4, <2>5, <2>6
<1>3. ASSUME NEW value \in Values, Prepare(value) PROVE TypeContents'
  BY <1>3 DEF Prepare
<1>4. CASE UNCHANGED vars BY <1>4 DEF vars
<1> QED BY <1>1, <1>2, <1>3, <1>4 DEF Next, Save

\* Every step leaves flags typed.
LEMMA TypeFlagsStep == IInv /\ [Next]_vars => TypeFlags'
<1> SUFFICES ASSUME IInv, [Next]_vars PROVE TypeFlags'
    OBVIOUS
<1> USE DEF IInv, TypeOK, TypeFlags, ramV, historyV
<1>1. CASE Restart \/ Load \/ LoadFails
  <2>1. CASE Restart BY <2>1 DEF Restart, InitSettings
  <2>2. CASE Load BY <2>2 DEF Load, Loaded, Readable
  <2>3. CASE LoadFails BY <2>3 DEF LoadFails, Loaded, Readable
  <2> QED BY <1>1, <2>1, <2>2, <2>3
<1>2. CASE RemovePrevious \/ BackUp \/ Create \/ Write \/ Install \/ Apply
  <2>1. CASE RemovePrevious BY <2>1 DEF RemovePrevious, Continue, Fail, Renamed, Written
  <2>2. CASE BackUp BY <2>2 DEF BackUp, Continue, Fail, Renamed, Written
  <2>3. CASE Create BY <2>3 DEF Create, Continue, Fail, Renamed, Written
  <2>4. CASE Write BY <2>4 DEF Write, Continue, Fail, Renamed, Written
  <2>5. CASE Install BY <2>5 DEF Install, Continue, Fail, Renamed, Written
  <2>6. CASE Apply BY <2>6 DEF Apply, Continue, Fail, Renamed, Written
  <2> QED BY <1>2, <2>1, <2>2, <2>3, <2>4, <2>5, <2>6
<1>3. ASSUME NEW value \in Values, Prepare(value) PROVE TypeFlags'
  BY <1>3 DEF Prepare
<1>4. CASE UNCHANGED vars BY <1>4 DEF vars
<1> QED BY <1>1, <1>2, <1>3, <1>4 DEF Next, Save

\* Every step leads to a step.
LEMMA TypeSavingStep == IInv /\ [Next]_vars => (saving \in Step)'
<1> SUFFICES ASSUME IInv, [Next]_vars PROVE (saving \in Step)'
    OBVIOUS
<1> USE DEF IInv, TypeOK, Step, ramV, historyV
<1>1. CASE Restart \/ Load \/ LoadFails
  <2>1. CASE Restart BY <2>1 DEF Restart, InitSettings
  <2>2. CASE Load BY <2>2 DEF Load, Loaded, Readable
  <2>3. CASE LoadFails BY <2>3 DEF LoadFails, Loaded, Readable
  <2> QED BY <1>1, <2>1, <2>2, <2>3
<1>2. CASE RemovePrevious \/ BackUp \/ Create \/ Write \/ Install \/ Apply
  <2>1. CASE RemovePrevious BY <2>1 DEF RemovePrevious, Continue, Fail, Renamed, Written
  <2>2. CASE BackUp BY <2>2 DEF BackUp, Continue, Fail, Renamed, Written
  <2>3. CASE Create BY <2>3 DEF Create, Continue, Fail, Renamed, Written
  <2>4. CASE Write BY <2>4 DEF Write, Continue, Fail, Renamed, Written
  <2>5. CASE Install BY <2>5 DEF Install, Continue, Fail, Renamed, Written
  <2>6. CASE Apply BY <2>6 DEF Apply, Continue, Fail, Renamed, Written
  <2> QED BY <1>2, <2>1, <2>2, <2>3, <2>4, <2>5, <2>6
<1>3. ASSUME NEW value \in Values, Prepare(value) PROVE (saving \in Step)'
  BY <1>3 DEF Prepare
<1>4. CASE UNCHANGED vars BY <1>4 DEF vars
<1> QED BY <1>1, <1>2, <1>3, <1>4 DEF Next, Save

\* No step makes an incomplete file the current or the previous one.
LEMMA TornStep == IInv /\ [Next]_vars => NeverTorn'
<1> SUFFICES ASSUME IInv, [Next]_vars PROVE NeverTorn'
    OBVIOUS
<1>0. NextIndex \in 0..1 /\ NextIndex # active
  BY OtherIndex DEF IInv, TypeOK, TypeContents
<1>9. active' = active => NextIndex' = NextIndex
  BY DEF NextIndex
<1> USE <1>0, <1>9, ValuesAssumption
<1> USE DEF IInv, TypeOK, NeverTorn, TypeContents, PreparedInv, Saving, File, ramV, historyV
<1>1. CASE Restart \/ Load \/ LoadFails
  <2>1. CASE Restart BY <2>1 DEF Restart, InitSettings
  <2>2. CASE Load BY <2>2 DEF Load, Loaded, Readable
  <2>3. CASE LoadFails BY <2>3 DEF LoadFails, Loaded, Readable
  <2> QED BY <1>1, <2>1, <2>2, <2>3
<1>2. CASE RemovePrevious \/ BackUp \/ Create \/ Write \/ Install \/ Apply
  <2>1. CASE RemovePrevious BY <2>1 DEF RemovePrevious, Continue, Fail, Renamed, Written
  <2>2. CASE BackUp BY <2>2 DEF BackUp, Continue, Fail, Renamed, Written
  <2>3. CASE Create BY <2>3 DEF Create, Continue, Fail, Renamed, Written
  <2>4. CASE Write BY <2>4 DEF Write, Continue, Fail, Renamed, Written
  <2>5. CASE Install BY <2>5 DEF Install, Continue, Fail, Renamed, Written
  <2>6. CASE Apply BY <2>6 DEF Apply, Continue, Fail, Renamed, Written
  <2> QED BY <1>2, <2>1, <2>2, <2>3, <2>4, <2>5, <2>6
<1>3. ASSUME NEW value \in Values, Prepare(value) PROVE NeverTorn'
  BY <1>3 DEF Prepare
<1>4. CASE UNCHANGED vars BY <1>4 DEF vars
<1> QED BY <1>1, <1>2, <1>3, <1>4 DEF Next, Save

\* Every step preserves PreparedInv.
LEMMA PreparedStep == IInv /\ [Next]_vars => PreparedInv'
<1> SUFFICES ASSUME IInv, [Next]_vars PROVE PreparedInv'
    OBVIOUS
<1>0. NextIndex \in 0..1 /\ NextIndex # active
  BY OtherIndex DEF IInv, TypeOK, TypeContents
<1>9. active' = active => NextIndex' = NextIndex
  BY DEF NextIndex
<1> USE <1>0, <1>9, ValuesAssumption
<1> USE DEF IInv, TypeOK, PreparedInv, TypeContents, Saving, File, ramV, historyV
<1>1. CASE Restart \/ Load \/ LoadFails
  <2>1. CASE Restart BY <2>1 DEF Restart, InitSettings
  <2>2. CASE Load BY <2>2 DEF Load, Loaded, Readable
  <2>3. CASE LoadFails BY <2>3 DEF LoadFails, Loaded, Readable
  <2> QED BY <1>1, <2>1, <2>2, <2>3
<1>2. CASE RemovePrevious \/ BackUp \/ Create \/ Write \/ Install \/ Apply
  <2>1. CASE RemovePrevious BY <2>1 DEF RemovePrevious, Continue, Fail, Renamed, Written
  <2>2. CASE BackUp BY <2>2 DEF BackUp, Continue, Fail, Renamed, Written
  <2>3. CASE Create BY <2>3 DEF Create, Continue, Fail, Renamed, Written
  <2>4. CASE Write BY <2>4 DEF Write, Continue, Fail, Renamed, Written
  <2>5. CASE Install BY <2>5 DEF Install, Continue, Fail, Renamed, Written
  <2>6. CASE Apply BY <2>6 DEF Apply, Continue, Fail, Renamed, Written
  <2> QED BY <1>2, <2>1, <2>2, <2>3, <2>4, <2>5, <2>6
<1>3. ASSUME NEW value \in Values, Prepare(value) PROVE PreparedInv'
  BY <1>3 DEF Prepare
<1>4. CASE UNCHANGED vars BY <1>4 DEF vars
<1> QED BY <1>1, <1>2, <1>3, <1>4 DEF Next, Save

\* Every step preserves StoredInv.
LEMMA StoredStep == IInv /\ [Next]_vars => StoredInv'
<1> SUFFICES ASSUME IInv, [Next]_vars PROVE StoredInv'
    OBVIOUS
<1>0. NextIndex \in 0..1 /\ NextIndex # active
  BY OtherIndex DEF IInv, TypeOK, TypeContents
<1>9. active' = active => NextIndex' = NextIndex
  BY DEF NextIndex
<1> USE <1>0, <1>9, ValuesAssumption
<1> USE DEF IInv, TypeOK, PreparedInv, StoredInv, SettingsSurvive, TypeContents, Saving, File,
    Readable, ramV, historyV
<1>1. CASE Restart \/ Load \/ LoadFails
  <2>1. CASE Restart BY <2>1 DEF Restart, InitSettings
  <2>2. CASE Load BY <2>2 DEF Load, Loaded, Readable
  <2>3. CASE LoadFails BY <2>3 DEF LoadFails, Loaded, Readable
  <2> QED BY <1>1, <2>1, <2>2, <2>3
<1>2. CASE RemovePrevious \/ BackUp \/ Create \/ Write \/ Install \/ Apply
  <2>1. CASE RemovePrevious BY <2>1 DEF RemovePrevious, Continue, Fail, Renamed, Written
  <2>2. CASE BackUp BY <2>2 DEF BackUp, Continue, Fail, Renamed, Written
  <2>3. CASE Create BY <2>3 DEF Create, Continue, Fail, Renamed, Written
  <2>4. CASE Write BY <2>4 DEF Write, Continue, Fail, Renamed, Written
  <2>5. CASE Install BY <2>5 DEF Install, Continue, Fail, Renamed, Written
  <2>6. CASE Apply BY <2>6 DEF Apply, Continue, Fail, Renamed, Written
  <2> QED BY <1>2, <2>1, <2>2, <2>3, <2>4, <2>5, <2>6
<1>3. ASSUME NEW value \in Values, Prepare(value) PROVE StoredInv'
  BY <1>3 DEF Prepare
<1>4. CASE UNCHANGED vars BY <1>4 DEF vars
<1> QED BY <1>1, <1>2, <1>3, <1>4 DEF Next, Save

\* Every step preserves SettingsSurvive.
LEMMA SurviveStep == IInv /\ [Next]_vars => SettingsSurvive'
<1> SUFFICES ASSUME IInv, [Next]_vars PROVE SettingsSurvive'
    OBVIOUS
<1>0. NextIndex \in 0..1 /\ NextIndex # active
  BY OtherIndex DEF IInv, TypeOK, TypeContents
<1>9. active' = active => NextIndex' = NextIndex
  BY DEF NextIndex
<1> USE <1>0, <1>9, ValuesAssumption
<1> USE DEF IInv, TypeOK, PreparedInv, StoredInv, SettingsSurvive, TypeContents, Saving, File,
    Readable, ramV, historyV
<1>1. CASE Restart \/ Load \/ LoadFails
  <2>1. CASE Restart BY <2>1 DEF Restart, InitSettings
  <2>2. CASE Load BY <2>2 DEF Load, Loaded, Readable
  <2>3. CASE LoadFails BY <2>3 DEF LoadFails, Loaded, Readable
  <2> QED BY <1>1, <2>1, <2>2, <2>3
<1>2. CASE RemovePrevious \/ BackUp \/ Create \/ Write \/ Install \/ Apply
  <2>1. CASE RemovePrevious BY <2>1 DEF RemovePrevious, Continue, Fail, Renamed, Written
  <2>2. CASE BackUp BY <2>2 DEF BackUp, Continue, Fail, Renamed, Written
  <2>3. CASE Create BY <2>3 DEF Create, Continue, Fail, Renamed, Written
  <2>4. CASE Write BY <2>4 DEF Write, Continue, Fail, Renamed, Written
  <2>5. CASE Install BY <2>5 DEF Install, Continue, Fail, Renamed, Written
  <2>6. CASE Apply BY <2>6 DEF Apply, Continue, Fail, Renamed, Written
  <2> QED BY <1>2, <2>1, <2>2, <2>3, <2>4, <2>5, <2>6
<1>3. ASSUME NEW value \in Values, Prepare(value) PROVE SettingsSurvive'
  BY <1>3 DEF Prepare
<1>4. CASE UNCHANGED vars BY <1>4 DEF vars
<1> QED BY <1>1, <1>2, <1>3, <1>4 DEF Next, Save

\* IInv holds initially.
LEMMA InitIInv == Init => IInv
<1> SUFFICES ASSUME Init PROVE IInv
    OBVIOUS
<1> USE ValuesAssumption DEF Init, InitSettings
<1>1. TypeContents
  BY DEF TypeContents, File
<1>2. TypeFlags /\ saving \in Step
  BY DEF TypeFlags, Step
<1>3. NeverTorn
  BY DEF NeverTorn, File
<1>4. PreparedInv /\ StoredInv
  BY DEF PreparedInv, StoredInv, Saving
<1>5. SettingsSurvive
  BY DEF SettingsSurvive, Readable, File
<1> QED BY <1>1, <1>2, <1>3, <1>4, <1>5 DEF IInv, TypeOK

\* IInv is an invariant of settings.
THEOREM Inductive == Spec => []IInv
<1>1. IInv /\ [Next]_vars => IInv'
  BY TypeContentsStep, TypeFlagsStep, TypeSavingStep, TornStep, PreparedStep, StoredStep, SurviveStep
      DEF IInv, TypeOK
<1> QED BY InitIInv, <1>1, PTL DEF Spec

\* Type correctness.
THEOREM TypeCorrect == Spec => []TypeOK
<1>1. IInv => TypeOK BY DEF IInv
<1> QED BY Inductive, <1>1, PTL

\* Settings are found again after a restart at any moment, whatever operations on
\* files have failed, unless a setter is called again after one has failed; and
\* readers that do not take the mutex see settings that are on flash.
THEOREM Kept == Spec => []SettingsAreKept
<1>1. IInv => SettingsSurvive BY DEF IInv
<1>2. IInv => UsersSeeStored
  BY DEF IInv, PreparedInv, StoredInv, UsersSeeStored
<1>3. IInv => SettingsAreKept BY <1>1, <1>2 DEF SettingsAreKept
<1> QED BY Inductive, <1>3, PTL

\* The current and the previous file are complete.
THEOREM Complete == Spec => []NeverTorn
<1>1. IInv => NeverTorn BY DEF IInv
<1> QED BY Inductive, <1>1, PTL

\* Settings that could not be read are not replaced.
THEOREM Replaced == Spec => OnlyLoadedAreReplaced
<1>1. IInv /\ [Next]_vars => [files' # files => ~usedDefault]_vars
  <2> SUFFICES ASSUME IInv, [Next]_vars, files' # files PROVE ~usedDefault
      OBVIOUS
  <2>1. CASE Restart \/ Load \/ LoadFails
    BY <2>1 DEF Restart, Load, LoadFails
  <2>2. CASE Save
    <3>1. saving \in Saving
      BY <2>2 DEF Save, RemovePrevious, BackUp, Create, Write, Install, Apply, Saving
    <3> QED BY <3>1 DEF IInv, PreparedInv
  <2>3. ASSUME NEW value \in Values, Prepare(value) PROVE FALSE
    BY <2>3 DEF Prepare
  <2>4. CASE UNCHANGED vars
    BY <2>4 DEF vars
  <2> QED BY <2>1, <2>2, <2>3, <2>4 DEF Next
<1>2. Spec => [][files' # files => ~usedDefault]_vars
  BY Inductive, <1>1, PTL DEF Spec
<1> QED BY <1>2 DEF OnlyLoadedAreReplaced

-----------------------------------------------------------------------------
(* The SD card.  While an operation is ongoing, CardReadInv and            *)
(* CardWriteInv say which of its handlers is on its way and whose block it *)
(* moves; CardRestInv says that nothing else goes on otherwise, and        *)
(* CardMountInv what sd_fs.cpp knows of the card.                          *)

\* Between operations everything of the last one is gone, and the card is looked for,
\* initialized or watched.
CardRestInv ==
    ~ongoing =>
        /\ data = "none" /\ cmd \in {"none", "init"}
        /\ caller = "nobody" <=> rwEvents = {}
        /\ present => timer = "check_presence" /\ cmd = "none"
        /\ ~present => timer \notin {"check_presence", "programmed"} /\ (cmd = "init" <=> timer = "off")

\* Reading: the command is in progress, its data path open unless the data have timed
\* out, or the data are awaited.
CardReadInv ==
    ongoing /\ op = "read" =>
        /\ cmd \in {"read", "read_state", "none"} /\ data \in {"none", "rx"}
        /\ timer # "programmed"
        /\ sendingCmd <=> cmd # "none"
        /\ waitingData <=> data = "rx"
        /\ ~waitingData => cmd # "none" /\ dataError = "timeout"
        /\ cmd # "read" /\ card = "data" => sentBlock = done + 1

\* Writing: a command is in progress, the data are sent, or the timer will ask whether they
\* are programmed.
CardWriteInv ==
    ongoing /\ op = "write" =>
        /\ cmd \in {"write", "write_state", "programmed_state", "none"} /\ data \in {"none", "tx"}
        /\ timer = "programmed" => cmd = "none" /\ data = "none"
        /\ cmd # "none" => data = "none"
        /\ cmd = "none" => timer = "programmed" \/ data = "tx"
        /\ cmd = "programmed_state" \/ timer = "programmed" => moved = done + 1

\* An operation goes on for somebody, on the card it was begun with.
CardOpInv ==
    ongoing =>
        /\ caller # "nobody" /\ rwEvents = {}
        /\ done < target
        /\ timer \in {"off", "check_presence", "programmed"}
        /\ ~present => card \in {"absent", "fresh"}

\* What sd_fs.cpp has not yet been told of.
CardMountInv ==
    /\ mountEvents = {} /\ (present \/ ~ongoing) => (mounted <=> present)
    /\ mountEvents = {"CARD_INSERTED"} => present \/ ongoing
    /\ mountEvents = {"CARD_REMOVED"} => ~present /\ ~ongoing

CardIInv == Card!TypeOK /\ CardRestInv /\ CardReadInv /\ CardWriteInv /\ CardOpInv /\ CardMountInv

\* What is proved is proved for these constants.
CardAssumed == /\ MaxBlocks \in Nat \ {0} /\ DebounceSamples \in Nat \ {0} /\ MaxPolls \in Nat \ {0}
           /\ Coincidences = {}

\* What a step of an operation may do to the card and to the block that is moved, and
\* what it leaves as it is.
CardDuringOp ==
    /\ ongoing
    /\ card' \in {"absent", "fresh", "idle", "tran", "data", "rcv", "prg"}
    /\ {sentBlock', moved'} \subseteq 0..MaxBlocks
    /\ ~present => card' \in {"absent", "fresh"}
    /\ UNCHANGED <<op, target, Card!taskV>>

-----------------------------------------------------------------------------
(* The handlers of an operation *)

\* EndOperation leaves nothing of the operation, and tells of a card that is gone.
LEMMA CardFinishStep ==
    ASSUME CardAssumed, CardIInv, CardDuringOp, NEW ok \in BOOLEAN, Card!Finish(ok), ok => present,
           done' \in 0..MaxBlocks, dataAttempts' \in Nat
    PROVE  CardIInv'
<1> USE DEF CardAssumed, CardIInv, CardDuringOp, Card!Finish, Card!EndOperation, Card!HandleRemoval,
    Card!WaitRemoval, Card!TypeOK, CardRestInv, CardOpInv, Card!taskV
<1>1. Card!TypeOK'
  <2>1. card' \in {"absent", "fresh", "idle", "tran", "data", "rcv", "prg"} OBVIOUS
  <2>2. {present', ongoing', sendingCmd', waitingData', mounted'} \subseteq BOOLEAN OBVIOUS
  <2>3. timer' \in {"off", "wait_insertion", "debounce_insertion", "wait_removal", "debounce_absence",
                        "cmd0", "acmd41", "programmed", "check_presence"} OBVIOUS
  <2>4. cmd' \in {"none", "init", "read", "read_state", "write", "write_state", "programmed_state"} OBVIOUS
  <2>5. data' \in {"none", "rx", "tx"} /\ dataError' \in {"none", "crc", "overrun", "timeout"} OBVIOUS
  <2>6. op' \in {"read", "write"} /\ {sentBlock', target', done', moved'} \subseteq 0..MaxBlocks OBVIOUS
  <2>7. {samples', stage', attempts', stateAttempts', polls', dataAttempts'} \subseteq Nat OBVIOUS
  <2>8. rwEvents' \subseteq {"RW_DONE", "RW_FAILED"}
      /\ mountEvents' \subseteq {"CARD_INSERTED", "CARD_REMOVED"} OBVIOUS
  <2>9. caller' \in {"nobody", "user", "mounter"} /\ mounter' \in {"wait", "mount"} OBVIOUS
  <2> QED BY <2>1, <2>2, <2>3, <2>4, <2>5, <2>6, <2>7, <2>8, <2>9 DEF Card!TypeOK
<1>4. CardRestInv' OBVIOUS
<1>2. CardReadInv' /\ CardWriteInv' /\ CardOpInv' BY DEF CardReadInv, CardWriteInv
<1>3. CardMountInv' BY DEF CardMountInv
<1> QED BY <1>1, <1>2, <1>3, <1>4

\* A step of an operation that goes on keeps what concerns the others.
LEMMA CardGoesOn ==
    ASSUME CardAssumed, CardIInv, CardDuringOp,
        UNCHANGED <<present, ongoing, samples, mountEvents, rwEvents>>,
           done' < target, timer' \in {"off", "check_presence", "programmed"},
           Card!TypeOK', CardReadInv', CardWriteInv'
    PROVE  CardIInv'
BY DEF CardIInv, CardDuringOp, CardRestInv, CardOpInv, CardMountInv, Card!taskV

\* The card is told to send a block.
LEMMA CardReadBlockStep ==
    ASSUME CardAssumed, CardIInv, CardDuringOp, op = "read", Card!ReadBlock, done' \in 0..target - 1,
        dataAttempts' \in Nat
    PROVE  CardIInv'
<1>1. Card!TypeOK'
  BY DEF CardAssumed, CardIInv, CardDuringOp, Card!ReadBlock, Card!SendCmd, Card!Send, Card!Attempts,
      Card!watchV, Card!taskV, Card!TypeOK
<1>2. CardReadInv' /\ CardWriteInv'
  BY DEF CardIInv, CardDuringOp, Card!ReadBlock, Card!SendCmd, Card!Send, Card!watchV, CardReadInv,
      CardWriteInv
<1>3. UNCHANGED <<present, ongoing, samples, mountEvents, rwEvents, timer>>
  BY DEF Card!ReadBlock, Card!watchV
<1>4. done' < target /\ timer' \in {"off", "check_presence", "programmed"}
  BY <1>3 DEF CardIInv, Card!TypeOK, CardOpInv, CardDuringOp
<1> QED BY <1>1, <1>2, <1>3, <1>4, CardGoesOn

\* The card is told that it will get a block.
LEMMA CardWriteBlockStep ==
    ASSUME CardAssumed, CardIInv, CardDuringOp, op = "write", Card!WriteBlock, data = "none",
        timer # "programmed",
           done' \in 0..target - 1, dataAttempts' \in Nat
    PROVE  CardIInv'
<1>1. Card!TypeOK'
  BY DEF CardAssumed, CardIInv, CardDuringOp, Card!WriteBlock, Card!SendCmd, Card!Send, Card!Attempts,
      Card!watchV, Card!dataV, Card!taskV, Card!TypeOK
<1>2. CardReadInv' /\ CardWriteInv'
  BY DEF CardIInv, CardDuringOp, Card!WriteBlock, Card!SendCmd, Card!Send, Card!watchV, Card!dataV,
      CardReadInv, CardWriteInv
<1>3. UNCHANGED <<present, ongoing, samples, mountEvents, rwEvents, timer>>
  BY DEF Card!WriteBlock, Card!watchV
<1>4. done' < target /\ timer' \in {"off", "check_presence", "programmed"}
  BY <1>3 DEF CardIInv, Card!TypeOK, CardOpInv, CardDuringOp
<1> QED BY <1>1, <1>2, <1>3, <1>4, CardGoesOn

\* After a block the next one is begun, or the operation has been done.
LEMMA CardBlockReadStep == ASSUME CardAssumed, CardIInv, CardDuringOp, present, op = "read",
    Card!BlockDone(Card!ReadBlock) PROVE CardIInv'
<1>1. done + 1 \in 0..target /\ target \in 0..MaxBlocks /\ done' = done + 1 /\ dataAttempts' \in Nat
  BY DEF CardIInv, Card!TypeOK, CardOpInv, CardDuringOp, Card!BlockDone, Card!Attempts
<1>2. CASE done' = target
  BY <1>1, <1>2, CardFinishStep DEF Card!BlockDone, CardAssumed
<1>3. CASE done' # target
  BY <1>1, <1>3, CardReadBlockStep DEF Card!BlockDone
<1> QED BY <1>2, <1>3

\* The same for a block that is written.
LEMMA CardBlockWrittenStep ==
    ASSUME CardAssumed, CardIInv, CardDuringOp, present, op = "write", data = "none", timer # "programmed",
        Card!BlockDone(Card!WriteBlock)
    PROVE  CardIInv'
<1>1. done + 1 \in 0..target /\ target \in 0..MaxBlocks /\ done' = done + 1 /\ dataAttempts' \in Nat
  BY DEF CardIInv, Card!TypeOK, CardOpInv, CardDuringOp, Card!BlockDone, Card!Attempts
<1>2. CASE done' = target
  BY <1>1, <1>2, CardFinishStep DEF Card!BlockDone, CardAssumed
<1>3. CASE done' # target
  BY <1>1, <1>3, CardWriteBlockStep DEF Card!BlockDone
<1> QED BY <1>2, <1>3

\* An operation that fails ends.
LEMMA CardFailedStep == ASSUME CardAssumed, CardIInv, CardDuringOp, Card!Failed PROVE CardIInv'
BY CardFinishStep DEF Card!Failed, Card!opV, CardIInv, Card!TypeOK

\* Data that are wrong are asked for again, or the operation fails.
LEMMA CardReceivedStep ==
    ASSUME CardAssumed, CardIInv, CardDuringOp, op = "read", NEW error, Card!HandleReceivedData(error),
        error = "none" => present
    PROVE  CardIInv'
<1>1. CASE error = "none"
  <2>1. Card!BlockDone(Card!ReadBlock) BY <1>1 DEF Card!HandleReceivedData
  <2> QED BY <1>1, <2>1, CardBlockReadStep
<1>2. CASE error = "crc"
  <2>1. Card!RetryBlock(Card!ReadBlock) BY <1>2 DEF Card!HandleReceivedData
  <2>2. CASE dataAttempts > 1
    <3>1. done' \in 0..target - 1 /\ dataAttempts' \in Nat /\ Card!ReadBlock
      BY <2>1, <2>2 DEF Card!RetryBlock, CardIInv, Card!TypeOK, CardOpInv, CardDuringOp
    <3> QED BY <3>1, CardReadBlockStep
  <2>3. CASE ~(dataAttempts > 1)
    BY <2>1, <2>3, CardFailedStep DEF Card!RetryBlock
  <2> QED BY <2>2, <2>3
<1>3. CASE error \notin {"none", "crc"}
  BY <1>3, CardFailedStep DEF Card!HandleReceivedData
<1> QED BY <1>1, <1>2, <1>3

\* The data are awaited, unless they have timed out already.
LEMMA CardReadCmdDoneStep ==
    ASSUME CardAssumed, CardIInv, CardDuringOp, op = "read", cmd # "none", Card!ReadCmdDone,
        card' = "data" => sentBlock' = done + 1
    PROVE  CardIInv'
<1>1. CASE waitingData
  <2>1. cmd' = "none" /\ UNCHANGED <<timer, done, data, waitingData, dataError, present, ongoing, samples, mountEvents, rwEvents>>
    BY <1>1 DEF Card!ReadCmdDone, Card!SendCmd, Card!Send, Card!watchV, Card!opV
  <2>2. Card!TypeOK'
    <3>1. UNCHANGED <<op, target, done, dataAttempts, caller, mounter, mounted>> /\ stage' = 0
        /\ attempts' = 0
      BY <1>1, <2>1 DEF Card!ReadCmdDone, Card!SendCmd, Card!Send, Card!opV, CardDuringOp, Card!taskV
    <3>2. sendingCmd' = FALSE /\ UNCHANGED <<stateAttempts, polls>>
      BY <1>1, <2>1 DEF Card!ReadCmdDone, Card!SendCmd, Card!Send
    <3> USE <2>1, <3>1, <3>2 DEF CardIInv, CardDuringOp, Card!TypeOK
    <3>11. card' \in {"absent", "fresh", "idle", "tran", "data", "rcv", "prg"} OBVIOUS
    <3>12. {present', ongoing', sendingCmd', waitingData', mounted'} \subseteq BOOLEAN OBVIOUS
    <3>3. timer' \in {"off", "wait_insertion", "debounce_insertion", "wait_removal", "debounce_absence",
                          "cmd0", "acmd41", "programmed", "check_presence"} OBVIOUS
    <3>4. cmd' \in {"none", "init", "read", "read_state", "write", "write_state", "programmed_state"} OBVIOUS
    <3>5. data' \in {"none", "rx", "tx"} /\ dataError' \in {"none", "crc", "overrun", "timeout"} OBVIOUS
    <3>6. op' \in {"read", "write"} /\ {sentBlock', target', done', moved'} \subseteq 0..MaxBlocks OBVIOUS
    <3>7. {samples', stage', attempts', stateAttempts', polls', dataAttempts'} \subseteq Nat OBVIOUS
    <3>8. rwEvents' \subseteq {"RW_DONE", "RW_FAILED"}
        /\ mountEvents' \subseteq {"CARD_INSERTED", "CARD_REMOVED"} OBVIOUS
    <3>9. caller' \in {"nobody", "user", "mounter"} /\ mounter' \in {"wait", "mount"} OBVIOUS
    <3> QED BY <3>11, <3>12, <3>3, <3>4, <3>5, <3>6, <3>7, <3>8, <3>9 DEF Card!TypeOK
  <2>3. CardReadInv' /\ CardWriteInv'
    BY <1>1, <2>1 DEF CardIInv, CardDuringOp, Card!ReadCmdDone, Card!SendCmd, Card!Send, CardReadInv,
        CardWriteInv
  <2> QED BY <2>1, <2>2, <2>3, CardGoesOn DEF CardIInv, CardOpInv, CardDuringOp
<1>2. CASE ~waitingData
  <2>1. dataError = "timeout"
    BY <1>2 DEF CardIInv, CardReadInv, CardDuringOp
  <2> QED BY <1>2, <2>1, CardReceivedStep DEF Card!ReadCmdDone
<1> QED BY <1>1, <1>2

\* A command is repeated.
LEMMA CardRetryReadStep ==
    ASSUME CardAssumed, CardIInv, CardDuringOp, op = "read", cmd # "none", Card!RetryCmd("read")
      PROVE CardIInv'
<1>1. CASE attempts > 1
  <2>1. cmd' = "read" /\ UNCHANGED <<timer, done, data, sendingCmd, waitingData, dataError, present, ongoing, samples, mountEvents, rwEvents>>
    BY <1>1 DEF Card!RetryCmd, Card!SendCmd, Card!Send, Card!watchV, Card!opV, Card!dataV
  <2>2. Card!TypeOK'
    BY <1>1, <2>1 DEF CardAssumed, CardIInv, CardDuringOp, Card!RetryCmd, Card!SendCmd, Card!Send,
        Card!watchV, Card!dataV, Card!opV, Card!taskV, Card!TypeOK
  <2>3. CardReadInv' /\ CardWriteInv'
    BY <2>1 DEF CardIInv, CardDuringOp, CardReadInv, CardWriteInv
  <2> QED BY <2>1, <2>2, <2>3, CardGoesOn DEF CardIInv, CardOpInv, CardDuringOp
<1>2. CASE ~(attempts > 1)
  BY <1>2, CardFailedStep DEF Card!RetryCmd
<1> QED BY <1>1, <1>2

\* The same for a block to write.
LEMMA CardRetryWriteStep ==
    ASSUME CardAssumed, CardIInv, CardDuringOp, op = "write", cmd # "none", Card!RetryCmd("write")
      PROVE CardIInv'
<1>1. CASE attempts > 1
  <2>1. cmd' = "write" /\ UNCHANGED <<timer, done, data, sendingCmd, waitingData, dataError, present, ongoing, samples, mountEvents, rwEvents>>
    BY <1>1 DEF Card!RetryCmd, Card!SendCmd, Card!Send, Card!watchV, Card!opV, Card!dataV
  <2>2. Card!TypeOK'
    BY <1>1, <2>1 DEF CardAssumed, CardIInv, CardDuringOp, Card!RetryCmd, Card!SendCmd, Card!Send,
        Card!watchV, Card!dataV, Card!opV, Card!taskV, Card!TypeOK
  <2>3. CardReadInv' /\ CardWriteInv'
    BY <2>1 DEF CardIInv, CardDuringOp, CardReadInv, CardWriteInv
  <2> QED BY <2>1, <2>2, <2>3, CardGoesOn DEF CardIInv, CardOpInv, CardDuringOp
<1>2. CASE ~(attempts > 1)
  BY <1>2, CardFailedStep DEF Card!RetryCmd
<1> QED BY <1>1, <1>2

\* A command that had no response whether it was done is repeated, or the card is asked for its state.
LEMMA CardAskStep ==
    ASSUME CardAssumed, CardIInv, CardDuringOp,
        NEW what \in {"read_state", "write_state", "programmed_state"},
           cmd' = what, UNCHANGED <<timer, done, dataAttempts, Card!dataV, stage, attempts, Card!watchV>>,
           {stateAttempts', polls'} \subseteq Nat,
           CardReadInv', CardWriteInv'
    PROVE  CardIInv'
<1>1. Card!TypeOK'
  BY DEF CardIInv, CardDuringOp, Card!dataV, Card!watchV, Card!taskV, Card!TypeOK
<1>2. done' < target /\ timer' \in {"off", "check_presence", "programmed"}
  BY DEF CardIInv, CardOpInv, CardDuringOp
<1> QED BY <1>1, <1>2, CardGoesOn DEF Card!watchV

-----------------------------------------------------------------------------
(* The steps of an operation *)

\* Commands are of an operation, those of initialization excepted.
LEMMA CardCommandIsOfOperation ==
    ASSUME CardIInv, cmd \notin {"none", "init"} \/ data # "none" PROVE ongoing
BY DEF CardIInv, CardRestInv

\* What becomes of a command to read, whatever the card has done.
LEMMA CardReadSent ==
    ASSUME CardAssumed, CardIInv, CardDuringOp, cmd = "read", op = "read", UNCHANGED moved,
           NEW error, Card!CmdSent(error, "read", Card!ReadCmdDone),
           error \in {"none", "damaged"} => (card' = "data" => sentBlock' = done + 1)
    PROVE  CardIInv'
<1>1. CASE error = "none"
  BY <1>1, CardReadCmdDoneStep DEF Card!CmdSent
<1>2. CASE error = "no_response"
  BY <1>2, CardRetryReadStep DEF Card!CmdSent
<1>3. CASE error = "damaged"
  <2>1. Card!GetState("read_state") /\ UNCHANGED <<Card!dataV, Card!watchV, Card!opV>>
    BY <1>3 DEF Card!CmdSent
  <2>2. cmd' = "read_state" /\ UNCHANGED <<timer, done, dataAttempts, stage, attempts>>
    BY <2>1 DEF Card!GetState, Card!watchV, Card!opV
  <2>3. {stateAttempts', polls'} \subseteq Nat
    BY <2>1 DEF Card!GetState, Card!Attempts, CardIInv, Card!TypeOK
  <2>4. CardReadInv' /\ CardWriteInv'
    BY <1>3, <2>1, <2>2 DEF CardIInv, CardReadInv, CardWriteInv, CardDuringOp, Card!dataV, Card!watchV
  <2> QED BY <2>1, <2>2, <2>3, <2>4, CardAskStep
<1>4. CASE error \notin {"none", "no_response", "damaged"}
  BY <1>4, CardFailedStep DEF Card!CmdSent
<1> QED BY <1>1, <1>2, <1>3, <1>4

\* A write command that was taken opens the data path.
LEMMA CardStartSendingStep ==
    ASSUME CardAssumed, CardIInv, CardDuringOp, op = "write", data = "none", timer # "programmed",
        Card!StartSending PROVE CardIInv'
<1>1. cmd' = "none" /\ data' = "tx"
    /\ UNCHANGED <<timer, done, dataAttempts, sendingCmd, waitingData, dataError, Card!watchV>>
  BY DEF Card!StartSending, Card!SendCmd, Card!Send, Card!opV, Card!watchV
<1>2. stage' = 0 /\ attempts' = 0 /\ UNCHANGED <<stateAttempts, polls>>
  BY DEF Card!StartSending, Card!SendCmd, Card!Send
<1>3. Card!TypeOK'
  BY <1>1, <1>2 DEF CardIInv, CardDuringOp, Card!watchV, Card!taskV, Card!TypeOK
<1>4. CardReadInv' /\ CardWriteInv'
  BY <1>1 DEF CardIInv, CardReadInv, CardWriteInv, CardDuringOp, Card!watchV
<1> QED BY <1>1, <1>3, <1>4, CardGoesOn DEF Card!watchV, CardIInv, CardOpInv, CardDuringOp

LEMMA CardWriteSent ==
    ASSUME CardAssumed, CardIInv, CardDuringOp, cmd = "write", op = "write", UNCHANGED moved,
           NEW error, Card!CmdSent(error, "write", Card!StartSending)
    PROVE  CardIInv'
<1>0. data = "none" /\ timer # "programmed"
  BY DEF CardIInv, CardWriteInv, CardDuringOp
<1>1. CASE error = "none"
  BY <1>0, <1>1, CardStartSendingStep DEF Card!CmdSent
<1>2. CASE error = "no_response"
  BY <1>2, CardRetryWriteStep DEF Card!CmdSent
<1>3. CASE error = "damaged"
  <2>1. Card!GetState("write_state") /\ UNCHANGED <<Card!dataV, Card!watchV, Card!opV>>
    BY <1>3 DEF Card!CmdSent
  <2>2. cmd' = "write_state" /\ UNCHANGED <<timer, done, dataAttempts, stage, attempts>>
    BY <2>1 DEF Card!GetState, Card!watchV, Card!opV
  <2>3. {stateAttempts', polls'} \subseteq Nat
    BY <2>1 DEF Card!GetState, Card!Attempts, CardIInv, Card!TypeOK
  <2>4. CardReadInv' /\ CardWriteInv'
    BY <1>0, <2>1, <2>2 DEF CardIInv, CardReadInv, CardWriteInv, CardDuringOp, Card!dataV, Card!watchV
  <2> QED BY <2>1, <2>2, <2>3, <2>4, CardAskStep
<1>4. CASE error \notin {"none", "no_response", "damaged"}
  BY <1>4, CardFailedStep DEF Card!CmdSent
<1> QED BY <1>1, <1>2, <1>3, <1>4

\* read_cmd_sent()
LEMMA CardReadCmdSentStep == ASSUME CardAssumed, CardIInv, Card!ReadCmdSent PROVE CardIInv'
<1>1. cmd = "read" /\ ongoing /\ op = "read" /\ UNCHANGED moved
  BY CardCommandIsOfOperation DEF Card!ReadCmdSent, CardIInv, CardWriteInv, Card!TypeOK
<1>2. done + 1 \in 0..MaxBlocks
  BY <1>1 DEF CardAssumed, CardIInv, CardOpInv, Card!TypeOK
<1>3. ASSUME NEW error, Card!CmdSent(error, "read", Card!ReadCmdDone) PROVE UNCHANGED <<op, target>>
  BY <1>1, <1>3 DEF Card!CmdSent, Card!ReadCmdDone, Card!HandleReceivedData, Card!BlockDone,
      Card!RetryBlock, Card!RetryCmd, Card!Failed, Card!opV
<1>4. CASE /\ card = "tran"
           /\ card' = "data" /\ sentBlock' = done + 1
           /\ \E error \in Card!Accepted : Card!CmdSent(error, "read", Card!ReadCmdDone)
  <2>1. CardDuringOp
    BY <1>1, <1>2, <1>3, <1>4 DEF Card!ReadCmdSent, CardDuringOp, CardIInv, CardOpInv, Card!TypeOK,
        Card!taskV
  <2> QED BY <1>1, <1>4, <2>1, CardReadSent
<1>5. CASE /\ \E error \in (IF card = "tran" THEN Card!Refused ELSE {"no_response"}) : Card!CmdSent(error, "read", Card!ReadCmdDone)
           /\ UNCHANGED Card!cardV
  <2>1. CardDuringOp
    BY <1>1, <1>3, <1>5 DEF Card!ReadCmdSent, CardDuringOp, CardIInv, CardOpInv, Card!TypeOK,
        Card!taskV, Card!cardV
  <2>2. PICK error \in {"no_response", "error"} : Card!CmdSent(error, "read", Card!ReadCmdDone)
    BY <1>5 DEF Card!Refused
  <2> QED BY <1>1, <2>1, <2>2, CardReadSent
<1> QED BY <1>4, <1>5 DEF Card!ReadCmdSent

\* write_cmd_sent()
LEMMA CardWriteCmdSentStep == ASSUME CardAssumed, CardIInv, Card!WriteCmdSent PROVE CardIInv'
<1>1. cmd = "write" /\ ongoing /\ op = "write" /\ UNCHANGED <<sentBlock, moved, Card!taskV>>
  BY CardCommandIsOfOperation DEF Card!WriteCmdSent, CardIInv, CardReadInv, Card!TypeOK
<1>2. ASSUME NEW error, Card!CmdSent(error, "write", Card!StartSending) PROVE UNCHANGED <<op, target>>
  BY <1>1, <1>2 DEF Card!CmdSent, Card!StartSending, Card!RetryCmd, Card!Failed, Card!opV
<1>3. card' \in {card, "rcv"} /\ (card' = "rcv" => card \in {"tran", "rcv"})
  BY DEF Card!WriteCmdSent
<1>4. PICK error : Card!CmdSent(error, "write", Card!StartSending)
  BY DEF Card!WriteCmdSent
<1>5. CardDuringOp
  BY <1>1, <1>2, <1>3, <1>4 DEF CardDuringOp, CardIInv, CardOpInv, Card!TypeOK
<1> QED BY <1>1, <1>4, <1>5, CardWriteSent

\* The question after the state is repeated.
LEMMA CardAskAgainStep == ASSUME CardAssumed, CardIInv, CardDuringOp, UNCHANGED <<Card!cardV, moved>>,
    stateAttempts > 1, Card!AskAgain PROVE CardIInv'
<1>1. UNCHANGED <<timer, done, dataAttempts, Card!dataV, cmd, stage, attempts, Card!watchV, Card!opV>>
  BY DEF Card!AskAgain, Card!watchV, Card!opV
<1>2. stateAttempts' \in Nat /\ polls' \in Nat
  BY DEF Card!AskAgain, CardIInv, Card!TypeOK
<1>3. Card!TypeOK'
  BY <1>1, <1>2 DEF CardIInv, CardDuringOp, Card!dataV, Card!watchV, Card!taskV, Card!cardV, Card!TypeOK
<1>4. CardReadInv' /\ CardWriteInv'
  BY <1>1 DEF CardIInv, CardReadInv, CardWriteInv, CardDuringOp, Card!dataV, Card!watchV, Card!cardV
<1> QED BY <1>1, <1>3, <1>4, CardGoesOn DEF Card!watchV, CardIInv, CardOpInv, CardDuringOp

\* What was written is programmed, or will be asked for again.
LEMMA CardProgrammedStep ==
    ASSUME CardAssumed, CardIInv, CardDuringOp, UNCHANGED <<Card!cardV, moved>>, cmd = "programmed_state",
        op = "write",
           NEW state, Card!ProgrammedStateReceived(state), state = "tran" => present
    PROVE  CardIInv'
<1>0. data = "none" /\ timer # "programmed" /\ moved = done + 1
  BY DEF CardIInv, CardWriteInv, CardDuringOp
<1>1. CASE state = "tran"
  BY <1>0, <1>1, CardBlockWrittenStep DEF Card!ProgrammedStateReceived
<1>2. CASE state # "tran" /\ polls > 1
  <2>1. polls' \in Nat /\ cmd' = "none" /\ timer' = "programmed"
    BY <1>2 DEF Card!ProgrammedStateReceived, CardIInv, Card!TypeOK
  <2>2. UNCHANGED <<stage, attempts, stateAttempts, present, ongoing, samples, mountEvents, rwEvents, Card!dataV, done, dataAttempts>>
    BY <1>2 DEF Card!ProgrammedStateReceived, Card!opV
  <2>3. Card!TypeOK'
    BY <2>1, <2>2 DEF CardIInv, CardDuringOp, Card!dataV, Card!taskV, Card!cardV, Card!TypeOK
  <2>4. CardReadInv' /\ CardWriteInv'
    BY <1>0, <2>1, <2>2 DEF CardIInv, CardReadInv, CardWriteInv, CardDuringOp, Card!dataV, Card!cardV
  <2> QED BY <2>1, <2>2, <2>3, <2>4, CardGoesOn DEF CardIInv, CardOpInv, CardDuringOp
<1>3. CASE state # "tran" /\ ~(polls > 1)
  BY <1>3, CardFailedStep DEF Card!ProgrammedStateReceived
<1> QED BY <1>1, <1>2, <1>3

\* get_state(), and what its handlers do
LEMMA CardStateDoneStep == ASSUME CardAssumed, CardIInv, Card!StateDone PROVE CardIInv'
<1>1. ongoing /\ UNCHANGED <<Card!cardV, moved, Card!taskV>>
  BY CardCommandIsOfOperation DEF Card!StateDone
<1>2. (cmd = "read_state" => op = "read") /\ (cmd \in {"write_state", "programmed_state"} => op = "write")
  BY <1>1 DEF Card!StateDone, CardIInv, CardReadInv, CardWriteInv, Card!TypeOK
<1>3. PICK state \in Card!StateOutcomes :
        IF state # "no_response" THEN Card!StateReceived(cmd, state)
        ELSE IF stateAttempts > 1 THEN Card!AskAgain ELSE Card!Failed
  BY DEF Card!StateDone
<1>4. UNCHANGED <<op, target>>
  BY <1>3 DEF Card!StateReceived, Card!AskAgain, Card!Failed, Card!RetryCmd, Card!ReadCmdDone,
      Card!HandleReceivedData, Card!BlockDone, Card!RetryBlock,
              Card!StartSending, Card!ProgrammedStateReceived, Card!opV
<1>5. CardDuringOp
  BY <1>1, <1>4 DEF CardDuringOp, CardIInv, CardOpInv, Card!TypeOK, Card!cardV
<1>6. CASE state = "no_response"
  BY <1>1, <1>3, <1>5, <1>6, CardAskAgainStep, CardFailedStep
<1>7. CASE state # "no_response"
  <2>1. state = card /\ card \in {"tran", "data", "rcv", "prg"} /\ Card!StateReceived(cmd, state) /\ present
    BY <1>1, <1>3, <1>7 DEF Card!StateOutcomes, CardIInv, CardOpInv
  <2>2. CASE cmd = "read_state"
    <3>1. CASE state = "tran"
      <4>1. Card!RetryCmd("read") BY <2>1, <2>2, <3>1 DEF Card!StateReceived
      <4> QED BY <1>2, <1>5, <2>2, <4>1, CardRetryReadStep
    <3>2. CASE state = "data"
      <4>1. Card!ReadCmdDone BY <2>1, <2>2, <3>2 DEF Card!StateReceived
      <4>2. sentBlock' = done + 1
        BY <1>1, <1>2, <2>1, <2>2, <3>2 DEF CardIInv, CardReadInv, Card!cardV
      <4> QED BY <1>2, <1>5, <2>2, <4>1, <4>2, CardReadCmdDoneStep
    <3>3. CASE state \notin {"tran", "data"}
      <4>1. Card!Failed BY <2>1, <2>2, <3>3 DEF Card!StateReceived
      <4> QED BY <1>5, <4>1, CardFailedStep
    <3> QED BY <3>1, <3>2, <3>3
  <2>3. CASE cmd = "write_state"
    <3>1. CASE state = "tran"
      <4>1. Card!RetryCmd("write") BY <2>1, <2>3, <3>1 DEF Card!StateReceived
      <4> QED BY <1>2, <1>5, <2>3, <4>1, CardRetryWriteStep
    <3>2. CASE state = "rcv"
      <4>1. Card!StartSending BY <2>1, <2>3, <3>2 DEF Card!StateReceived
      <4>2. data = "none" /\ timer # "programmed"
        BY <1>1, <1>2, <2>3 DEF CardIInv, CardWriteInv
      <4> QED BY <1>2, <1>5, <2>3, <4>1, <4>2, CardStartSendingStep
    <3>3. CASE state \notin {"tran", "rcv"}
      <4>1. Card!Failed BY <2>1, <2>3, <3>3 DEF Card!StateReceived
      <4> QED BY <1>5, <4>1, CardFailedStep
    <3> QED BY <3>1, <3>2, <3>3
  <2>4. CASE cmd = "programmed_state"
    <3>1. Card!ProgrammedStateReceived(state)
      BY <2>1, <2>4 DEF Card!StateReceived
    <3> QED BY <1>1, <1>2, <1>5, <2>1, <2>4, <3>1, CardProgrammedStep
  <2> QED BY <2>2, <2>3, <2>4 DEF Card!StateDone
<1> QED BY <1>6, <1>7

\* The timer asks whether a block is programmed.
LEMMA CardPollStateStep == ASSUME CardAssumed, CardIInv, Card!PollState PROVE CardIInv'
<1>1. ongoing /\ op = "write" /\ data = "none" /\ cmd = "none" /\ moved = done + 1
  BY DEF Card!PollState, Card!Elapsed, CardIInv, CardRestInv, CardOpInv, CardReadInv, CardWriteInv,
      Card!TypeOK
<1>2. timer' = "off" /\ cmd' = "programmed_state" /\ stateAttempts' = Card!Attempts
  BY DEF Card!PollState, Card!GetState
<1>3. UNCHANGED <<Card!cardV, Card!dataV, Card!opV, moved, Card!taskV, present, ongoing, samples, mountEvents, rwEvents, stage, attempts, polls>>
  BY DEF Card!PollState, Card!Elapsed, Card!GetState
<1>4. CardDuringOp
  BY <1>1, <1>3 DEF CardDuringOp, CardIInv, CardOpInv, Card!TypeOK, Card!cardV, Card!opV
<1>5. Card!TypeOK'
  BY <1>2, <1>3 DEF CardIInv, Card!Attempts, Card!cardV, Card!dataV, Card!opV, Card!taskV, Card!TypeOK
<1>6. CardReadInv' /\ CardWriteInv'
  BY <1>1, <1>2, <1>3 DEF CardReadInv, CardWriteInv, Card!opV, Card!dataV
<1> QED BY <1>2, <1>3, <1>4, <1>5, <1>6, CardGoesOn DEF CardIInv, CardOpInv, CardDuringOp, Card!opV

\* data_received()
LEMMA CardDataReceivedStep ==
    ASSUME CardAssumed, CardIInv, CardDuringOp, op = "read", data = "rx", NEW error,
        Card!DataReceived(error),
           sendingCmd => error = "timeout" /\ UNCHANGED Card!cardV,
           error = "none" => present
    PROVE  CardIInv'
<1>1. CASE sendingCmd
  <2>1. UNCHANGED <<sendingCmd, cmd, stage, attempts, stateAttempts, polls, Card!watchV, Card!opV>>
    BY <1>1 DEF Card!DataReceived, Card!cmdV
  <2>2. data' = "none" /\ waitingData' = FALSE /\ dataError' = "timeout"
    BY <1>1 DEF Card!DataReceived
  <2>3. Card!TypeOK'
    BY <2>1, <2>2 DEF CardIInv, CardDuringOp, Card!watchV, Card!opV, Card!taskV, Card!TypeOK
  <2>4. CardReadInv' /\ CardWriteInv'
    BY <1>1, <2>1, <2>2 DEF CardIInv, CardReadInv, CardWriteInv, CardDuringOp, Card!watchV, Card!opV,
        Card!cardV
  <2> QED BY <2>1, <2>3, <2>4, CardGoesOn DEF Card!watchV, Card!opV, CardIInv, CardOpInv, CardDuringOp
<1>2. CASE ~sendingCmd
  BY <1>2, CardReceivedStep DEF Card!DataReceived
<1> QED BY <1>1, <1>2

\* The data path is open for reading only.
LEMMA CardReceivingReads == ASSUME CardIInv, data = "rx" PROVE ongoing /\ op = "read"
BY DEF CardIInv, CardRestInv, CardWriteInv, Card!TypeOK

LEMMA CardDataReceivedKeeps == ASSUME NEW error, Card!DataReceived(error) PROVE UNCHANGED <<op, target>>
BY DEF Card!DataReceived, Card!HandleReceivedData, Card!BlockDone, Card!RetryBlock, Card!Failed, Card!opV

LEMMA CardBlockArrivesStep == ASSUME CardAssumed, CardIInv, Card!BlockArrives PROVE CardIInv'
<1>1. data = "rx" /\ card = "data" /\ ongoing /\ op = "read" /\ ~sendingCmd
  BY CardReceivingReads DEF Card!BlockArrives, CardAssumed
<1>2. PICK error \in {"none", "crc", "overrun"} :
        moved' = (IF error = "none" THEN sentBlock ELSE 0) /\ Card!DataReceived(error)
  BY DEF Card!BlockArrives
<1>3. present
  BY <1>1 DEF CardIInv, CardOpInv
<1>4. CardDuringOp
  BY <1>1, <1>2, <1>3, CardDataReceivedKeeps DEF Card!BlockArrives, CardDuringOp, CardAssumed,
      CardIInv, Card!TypeOK, Card!taskV
<1> QED BY <1>1, <1>2, <1>3, <1>4, CardDataReceivedStep

LEMMA CardDataTimeoutStep == ASSUME CardAssumed, CardIInv, Card!DataTimeout PROVE CardIInv'
<1>1. data = "rx" /\ ongoing /\ op = "read" /\ UNCHANGED <<Card!cardV, moved, Card!taskV>>
  BY CardReceivingReads DEF Card!DataTimeout
<1>2. Card!DataReceived("timeout")
  BY DEF Card!DataTimeout
<1>3. CardDuringOp
  BY <1>1, <1>2, CardDataReceivedKeeps DEF CardDuringOp, CardIInv, CardOpInv, Card!TypeOK, Card!cardV
<1> QED BY <1>1, <1>2, <1>3, CardDataReceivedStep

\* data_sent(), wait_programmed()
LEMMA CardDataSentStep == ASSUME CardAssumed, CardIInv, Card!DataSent PROVE CardIInv'
<1>1. data = "tx" /\ ongoing /\ op = "write" /\ cmd = "none" /\ timer # "programmed"
  BY DEF Card!DataSent, CardIInv, CardRestInv, CardReadInv, CardWriteInv, Card!TypeOK
<1>2. UNCHANGED <<sentBlock, Card!taskV>> /\ done + 1 \in 0..MaxBlocks
  BY <1>1 DEF Card!DataSent, CardAssumed, CardIInv, CardOpInv, Card!TypeOK
<1>3. CASE /\ card = "rcv" /\ card' = "prg" /\ moved' = done + 1
           /\ cmd' = "programmed_state" /\ stateAttempts' = Card!Attempts /\ polls' = MaxPolls
           /\ Card!DataIdle
           /\ UNCHANGED <<stage, attempts, Card!watchV, Card!opV>>
  <2>1. CardDuringOp
    BY <1>1, <1>2, <1>3 DEF CardDuringOp, CardIInv, CardOpInv, Card!TypeOK, Card!opV
  <2>2. Card!TypeOK'
    BY <1>2, <1>3 DEF CardAssumed, CardIInv, Card!DataIdle, Card!Attempts, Card!watchV, Card!opV,
        Card!taskV, Card!TypeOK
  <2>3. CardReadInv' /\ CardWriteInv'
    BY <1>1, <1>3 DEF CardReadInv, CardWriteInv, Card!DataIdle, Card!watchV, Card!opV
  <2> QED BY <1>3, <2>1, <2>2, <2>3, CardGoesOn DEF Card!watchV, Card!opV, CardIInv, CardOpInv, CardDuringOp
<1>4. CASE /\ card = "rcv" /\ card' = "tran"
           /\ UNCHANGED moved
           /\ IF dataAttempts > 1
              THEN /\ dataAttempts' = dataAttempts - 1
                   /\ Card!DataIdle
                   /\ Card!SendCmd("write", Card!Attempts)
                   /\ UNCHANGED <<op, target, done, Card!watchV>>
              ELSE Card!Finish(FALSE) /\ UNCHANGED Card!opV
  <2>1. CardDuringOp
    BY <1>1, <1>2, <1>4 DEF CardDuringOp, CardIInv, CardOpInv, Card!TypeOK, Card!opV
  <2>2. CASE dataAttempts > 1
    <3>1. dataAttempts' \in Nat
      BY <1>4, <2>2 DEF CardIInv, Card!TypeOK
    <3>2. Card!TypeOK'
      <4>1. cmd' = "write" /\ data' = "none" /\ stage' = 0 /\ attempts' = 2
          /\ UNCHANGED <<stateAttempts, polls>>
        BY <1>4, <2>2 DEF Card!DataIdle, Card!SendCmd, Card!Send, Card!Attempts
      <4>2. UNCHANGED <<op, target, done, moved, sendingCmd, waitingData, dataError, Card!watchV>>
        BY <1>4, <2>2 DEF Card!DataIdle
      <4> QED BY <1>2, <1>4, <3>1, <4>1, <4>2 DEF CardIInv, Card!watchV, Card!taskV, Card!TypeOK
    <3>3. CardReadInv' /\ CardWriteInv'
      BY <1>1, <1>4, <2>2 DEF CardReadInv, CardWriteInv, Card!DataIdle, Card!SendCmd, Card!Send, Card!watchV
    <3> QED BY <1>4, <2>1, <2>2, <3>2, <3>3, CardGoesOn DEF Card!watchV, CardIInv, CardOpInv, CardDuringOp
  <2>3. CASE ~(dataAttempts > 1)
    <3>1. Card!Failed BY <1>4, <2>3 DEF Card!Failed
    <3> QED BY <2>1, <3>1, CardFailedStep
  <2> QED BY <2>2, <2>3
<1>5. CASE card' = (IF card = "rcv" THEN "tran" ELSE card) /\ Card!Failed /\ UNCHANGED moved
  <2>1. CardDuringOp
    BY <1>1, <1>2, <1>5 DEF CardDuringOp, CardIInv, CardOpInv, Card!TypeOK, Card!Failed, Card!opV
  <2> QED BY <1>5, <2>1, CardFailedStep
<1> QED BY <1>3, <1>4, <1>5 DEF Card!DataSent

-----------------------------------------------------------------------------
(* The card, its detection and initialization, tasks *)

LEMMA CardCardStep == ASSUME CardAssumed, CardIInv, Card!Insert \/ Card!Pull \/ Card!CardReady
  PROVE CardIInv'
<1>1. UNCHANGED <<Card!watchV, Card!cmdV, Card!dataV, Card!opV, moved, Card!taskV>>
    /\ sentBlock' \in {0, sentBlock}
  BY DEF Card!Insert, Card!Pull, Card!CardReady
<1>2. card' \in {"absent", "fresh", "tran"} /\ (card' = "tran" => card \in {"prg", "data"})
  BY DEF Card!Insert, Card!Pull, Card!CardReady
<1>3. Card!TypeOK'
  BY <1>1, <1>2 DEF CardAssumed, CardIInv, Card!TypeOK, Card!watchV, Card!cmdV, Card!dataV, Card!opV,
      Card!taskV
<1>4. CardRestInv' /\ CardReadInv' /\ CardWriteInv' /\ CardOpInv' /\ CardMountInv'
  BY <1>1, <1>2 DEF CardIInv, CardRestInv, CardReadInv, CardWriteInv, CardOpInv, CardMountInv,
      Card!watchV, Card!cmdV, Card!dataV, Card!opV, Card!taskV
<1> QED BY <1>3, <1>4 DEF CardIInv

\* Between operations only detection and initialization go on.
LEMMA CardAtRestStep ==
    ASSUME CardAssumed, CardIInv, ~ongoing, UNCHANGED <<ongoing, data, caller, rwEvents>>, Card!TypeOK',
           cmd' \in {"none", "init"},
           present' => timer' = "check_presence" /\ cmd' = "none",
           ~present' => timer' \notin {"check_presence", "programmed"}
               /\ (cmd' = "init" <=> timer' = "off"),
           CardMountInv'
    PROVE  CardIInv'
BY DEF CardIInv, CardRestInv, CardReadInv, CardWriteInv, CardOpInv

LEMMA CardDetectionStep == ASSUME CardAssumed, CardIInv, Card!Detection PROVE CardIInv'
<1> USE DEF Card!Elapsed
<1>1. CASE Card!DoWaitInsertion \/ Card!DoWaitRemoval \/ Card!DebounceInsertion \/ Card!DebounceAbsence
  <2>1. ~ongoing /\ ~present /\ cmd = "none"
    BY <1>1 DEF Card!DoWaitInsertion, Card!DoWaitRemoval, Card!DebounceInsertion, Card!DebounceAbsence,
        CardIInv, CardRestInv, CardOpInv
  <2>2. UNCHANGED <<Card!cardV, Card!dataV, Card!opV, moved, Card!taskV, present, ongoing, mountEvents, rwEvents, Card!cmdV>>
    BY <1>1 DEF Card!DoWaitInsertion, Card!DoWaitRemoval, Card!DebounceInsertion, Card!DebounceAbsence
  <2>3. timer' \in {"wait_insertion", "debounce_insertion", "wait_removal", "debounce_absence", "cmd0"}
      /\ samples' \in Nat
    <3>1. CASE Card!DoWaitInsertion BY <3>1 DEF Card!DoWaitInsertion, Card!WaitInsertion, CardAssumed,
        CardIInv, Card!TypeOK
    <3>2. CASE Card!DoWaitRemoval BY <3>2 DEF Card!DoWaitRemoval, Card!WaitRemoval, CardAssumed,
        CardIInv, Card!TypeOK
    <3>3. CASE Card!DebounceInsertion BY <3>3 DEF Card!DebounceInsertion, CardIInv, Card!TypeOK
    <3>4. CASE Card!DebounceAbsence BY <3>4 DEF Card!DebounceAbsence, Card!WaitInsertion, CardAssumed,
        CardIInv, Card!TypeOK
    <3> QED BY <1>1, <3>1, <3>2, <3>3, <3>4
  <2>4. Card!TypeOK'
    BY <2>2, <2>3 DEF CardIInv, Card!TypeOK, Card!cardV, Card!dataV, Card!opV, Card!taskV, Card!cmdV
  <2>5. CardMountInv'
    BY <2>2 DEF CardIInv, CardMountInv, Card!taskV
  <2> QED BY <2>1, <2>2, <2>3, <2>4, <2>5, CardAtRestStep DEF Card!dataV, Card!taskV, Card!cmdV
<1>2. CASE Card!CheckPresence /\ ongoing
  <2>1. UNCHANGED <<Card!cardV, Card!dataV, Card!opV, moved, Card!taskV, timer, samples, mountEvents, ongoing, rwEvents, Card!cmdV>>
    BY <1>2 DEF Card!CheckPresence
  <2>2. present' = FALSE /\ card = "absent"
    BY <1>2 DEF Card!CheckPresence, Card!IsCardInserted
  <2>3. Card!TypeOK'
    <3>1. UNCHANGED <<ongoing, sendingCmd, waitingData, mounted>> /\ present' \in BOOLEAN
      BY <2>1, <2>2 DEF Card!dataV, Card!taskV
    <3>2. UNCHANGED <<Card!cardV, Card!opV, moved, Card!taskV, timer, samples, mountEvents, rwEvents, Card!cmdV, data, dataError>>
      BY <2>1 DEF Card!dataV
    <3> QED BY <3>1, <3>2 DEF CardIInv, Card!TypeOK, Card!cardV, Card!opV, Card!taskV, Card!cmdV
  <2>4. CardRestInv' /\ CardReadInv' /\ CardWriteInv' /\ CardOpInv' /\ CardMountInv'
    BY <1>2, <2>1, <2>2 DEF CardIInv, CardRestInv, CardReadInv, CardWriteInv, CardOpInv, CardMountInv,
        Card!cardV, Card!dataV, Card!opV, Card!taskV, Card!cmdV
  <2> QED BY <2>3, <2>4 DEF CardIInv
<1>3. CASE Card!CheckPresence /\ ~ongoing
  <2>1. UNCHANGED <<Card!cardV, Card!dataV, Card!opV, moved, Card!taskV, ongoing, rwEvents, Card!cmdV>>
      /\ present' = FALSE
    BY <1>3 DEF Card!CheckPresence
  <2>2. cmd = "none" /\ timer' \in {"wait_removal", "debounce_absence"} /\ samples' \in Nat
    BY <1>3 DEF Card!CheckPresence, Card!HandleRemoval, Card!WaitRemoval, CardAssumed, CardIInv,
        CardRestInv, Card!TypeOK
  <2>3. mountEvents' = mountEvents \cup {"CARD_REMOVED"}
    BY <1>3 DEF Card!CheckPresence, Card!HandleRemoval
  <2>4. Card!TypeOK'
    BY <2>1, <2>2, <2>3, ZenonT(30)
    DEF CardIInv, Card!TypeOK, Card!cardV, Card!dataV, Card!opV, Card!taskV, Card!cmdV
  <2>5. CardMountInv'
    BY <1>3, <2>1, <2>3 DEF CardMountInv
  <2> QED BY <1>3, <2>1, <2>2, <2>4, <2>5, CardAtRestStep DEF Card!dataV, Card!taskV, Card!cmdV
<1> QED BY <1>1, <1>2, <1>3 DEF Card!Detection

LEMMA CardInvokeCmdStep == ASSUME CardAssumed, CardIInv, Card!InvokeCmd0 \/ Card!InvokeAcmd41
  PROVE CardIInv'
<1>1. ~ongoing /\ ~present
  BY DEF Card!InvokeCmd0, Card!InvokeAcmd41, Card!Elapsed, CardIInv, CardRestInv, CardOpInv
<1>2. UNCHANGED <<Card!cardV, Card!dataV, Card!opV, moved, Card!taskV, present, ongoing, samples, mountEvents, rwEvents, stateAttempts, polls>>
  BY DEF Card!InvokeCmd0, Card!InvokeAcmd41, Card!Elapsed, Card!Send
<1>3. timer' = "off" /\ cmd' = "init" /\ {stage', attempts'} \subseteq Nat
  BY DEF Card!InvokeCmd0, Card!InvokeAcmd41, Card!Send, CardIInv, Card!TypeOK
<1>4. Card!TypeOK'
  BY <1>2, <1>3 DEF CardIInv, Card!TypeOK, Card!cardV, Card!dataV, Card!opV, Card!taskV
<1>5. CardMountInv'
  BY <1>2 DEF CardIInv, CardMountInv, Card!taskV
<1> QED BY <1>1, <1>2, <1>3, <1>4, <1>5, CardAtRestStep DEF Card!dataV, Card!taskV

\* The handlers cmd0_done() to acmd6_done()
LEMMA CardInitCommandDoneStep == ASSUME CardAssumed, CardIInv, Card!InitCommandDone PROVE CardIInv'
<1>1. cmd = "init" /\ ~ongoing /\ ~present /\ timer = "off"
  BY DEF Card!InitCommandDone, CardIInv, CardRestInv, CardReadInv, CardWriteInv, Card!TypeOK
<1>2. UNCHANGED <<sentBlock, Card!dataV, Card!opV, moved, Card!taskV>>
  BY DEF Card!InitCommandDone
<1>3. card' \in {card, "idle", "tran"}
  BY DEF Card!InitCommandDone
<1>4. CASE Card!InitDone
  <2>1. UNCHANGED <<ongoing, samples, rwEvents, stateAttempts, polls>> /\ cmd' = "none" /\ stage' = 0
      /\ attempts' = 0
    BY <1>4 DEF Card!InitDone, Card!Send
  <2>2. present' = TRUE /\ timer' = "check_presence" /\ mountEvents' = mountEvents \cup {"CARD_INSERTED"}
    BY <1>4 DEF Card!InitDone
  <2>3. Card!TypeOK'
    BY <1>2, <1>3, <2>1, <2>2 DEF CardIInv, Card!TypeOK, Card!dataV, Card!opV, Card!taskV
  <2>4. CardMountInv'
    BY <2>2 DEF CardMountInv
  <2> QED BY <1>1, <1>2, <2>1, <2>2, <2>3, <2>4, CardAtRestStep DEF Card!dataV, Card!taskV
<1>5. CASE Card!InitFailed
  <2>1. UNCHANGED <<present, ongoing, mountEvents, rwEvents, stateAttempts, polls>> /\ cmd' = "none"
      /\ stage' = 0 /\ attempts' = 0
    BY <1>5 DEF Card!InitFailed, Card!Send
  <2>2. timer' \in {"wait_removal", "debounce_absence"} /\ samples' \in Nat
    BY <1>5 DEF Card!InitFailed, Card!WaitRemoval, CardAssumed, CardIInv, Card!TypeOK
  <2>3. Card!TypeOK'
    BY <1>2, <1>3, <2>1, <2>2 DEF CardIInv, Card!TypeOK, Card!dataV, Card!opV, Card!taskV
  <2>4. CardMountInv'
    BY <1>2, <2>1 DEF CardIInv, CardMountInv, Card!taskV
  <2> QED BY <1>1, <1>2, <2>1, <2>2, <2>3, <2>4, CardAtRestStep DEF Card!dataV, Card!taskV
<1>6. ASSUME NEW c \in Nat, NEW n \in Nat, NEW what \in {"init", "none"}, Card!Send(what, c, n),
             UNCHANGED <<present, ongoing, samples, mountEvents, rwEvents>>,
             timer' = IF what = "none" THEN "acmd41" ELSE timer
      PROVE  CardIInv'
  <2>1. cmd' = what /\ {stage', attempts'} \subseteq Nat /\ UNCHANGED <<stateAttempts, polls>>
    BY <1>6 DEF Card!Send
  <2>2. Card!TypeOK'
    BY <1>1, <1>2, <1>3, <1>6, <2>1 DEF CardIInv, Card!TypeOK, Card!dataV, Card!opV, Card!taskV
  <2>3. CardMountInv'
    BY <1>2, <1>6 DEF CardIInv, CardMountInv, Card!taskV
  <2> QED BY <1>1, <1>2, <1>6, <2>1, <2>2, <2>3, CardAtRestStep DEF Card!dataV, Card!taskV
<1>7. CASE Card!NextInitCommand
  <2>1. CASE stage = Len(Card!InitCommands) BY <1>4, <1>7, <2>1 DEF Card!NextInitCommand
  <2>2. CASE stage # Len(Card!InitCommands)
    <3>1. PICK n \in Nat : Card!Send("init", stage + 1, n) /\ UNCHANGED Card!watchV
      BY <1>7, <2>2 DEF Card!NextInitCommand, Card!Attempts, CardAssumed
    <3>2. stage + 1 \in Nat BY DEF CardIInv, Card!TypeOK
    <3> QED BY <1>6, <3>1, <3>2 DEF Card!watchV
  <2> QED BY <2>1, <2>2
<1>8. CASE attempts > 1 /\ Card!Send("none", 0,
    attempts - 1) /\ timer' = "acmd41" /\ UNCHANGED <<present, ongoing, samples, mountEvents, rwEvents>>
  <2>1. attempts - 1 \in Nat BY <1>8 DEF CardIInv, Card!TypeOK
  <2> QED BY <1>6, <1>8, <2>1
<1>9. CASE attempts > 1 /\ Card!Send("init", stage, attempts - 1) /\ UNCHANGED Card!watchV
  <2>1. attempts - 1 \in Nat /\ stage \in Nat BY <1>9 DEF CardIInv, Card!TypeOK
  <2> QED BY <1>6, <1>9, <2>1 DEF Card!watchV
<1> QED BY <1>4, <1>5, <1>7, <1>8, <1>9 DEF Card!InitCommandDone

\* read(), write(), with a card that is there
LEMMA CardBeginStep == ASSUME CardAssumed, CardIInv, Card!UserBegins \/ Card!MounterBegins PROVE CardIInv'
<1>1. PICK who \in {"user", "mounter"} : Card!Begin(who)
  BY DEF Card!UserBegins, Card!MounterBegins
<1>2. present /\ caller = "nobody" /\ ~ongoing
  BY <1>1 DEF Card!Begin, CardAssumed, CardIInv, CardRestInv, CardOpInv
<1>3. ongoing' = TRUE /\ rwEvents' = {} /\ done' = 0 /\ dataAttempts' = Card!Attempts /\ caller' = who
  BY <1>1, <1>2 DEF Card!Begin, CardIInv, CardRestInv
<1>4. op' \in {"read", "write"} /\ target' \in 1..MaxBlocks /\ data = "none" /\ timer = "check_presence"
  BY <1>1, <1>2 DEF Card!Begin, CardIInv, CardRestInv
<1>5. UNCHANGED <<Card!cardV, present, timer, samples, mountEvents, moved, mounter, mounted>>
  BY <1>1 DEF Card!Begin
<1>6. CASE op' = "read"
  <2>1. cmd' = "read" /\ stage' = 0 /\ attempts' = Card!Attempts /\ UNCHANGED <<stateAttempts, polls>>
    BY <1>1, <1>6 DEF Card!Begin, Card!SendCmd, Card!Send
  <2>2. data' = "rx" /\ sendingCmd' = TRUE /\ waitingData' = TRUE /\ UNCHANGED dataError
    BY <1>1, <1>6 DEF Card!Begin
  <2>3. Card!TypeOK'
    BY <1>3, <1>4, <1>5, <2>1, <2>2 DEF CardAssumed, CardIInv, Card!TypeOK, Card!Attempts, Card!cardV
  <2>4. CardRestInv' /\ CardReadInv' /\ CardWriteInv' /\ CardOpInv' /\ CardMountInv'
    BY <1>2, <1>3, <1>4, <1>5, <1>6, <2>1, <2>2 DEF CardIInv, CardRestInv, CardReadInv, CardWriteInv,
        CardOpInv, CardMountInv
  <2> QED BY <2>3, <2>4 DEF CardIInv
<1>7. CASE op' = "write"
  <2>1. cmd' = "write" /\ stage' = 0 /\ attempts' = Card!Attempts
      /\ UNCHANGED <<stateAttempts, polls, Card!dataV>>
    BY <1>1, <1>7 DEF Card!Begin, Card!SendCmd, Card!Send
  <2>2. Card!TypeOK'
    BY <1>3, <1>4, <1>5, <2>1 DEF CardAssumed, CardIInv, Card!TypeOK, Card!Attempts, Card!cardV, Card!dataV
  <2>3. CardRestInv' /\ CardReadInv' /\ CardWriteInv' /\ CardOpInv' /\ CardMountInv'
    BY <1>2, <1>3, <1>4, <1>5, <1>7, <2>1 DEF CardIInv, CardRestInv, CardReadInv, CardWriteInv,
        CardOpInv, CardMountInv, Card!dataV
  <2> QED BY <2>2, <2>3 DEF CardIInv
<1> QED BY <1>4, <1>6, <1>7

LEMMA CardTaskStep == ASSUME CardAssumed, CardIInv,
    Card!Return \/ Card!ServeEvents \/ Card!MountDone PROVE CardIInv'
<1>1. CASE Card!Return
  <2>1. Card!TypeOK'
    BY <1>1 DEF Card!Return, CardAssumed, CardIInv, Card!TypeOK, Card!cardV, Card!cmdV, Card!dataV, Card!opV
  <2>2. CardRestInv' /\ CardReadInv' /\ CardWriteInv' /\ CardOpInv' /\ CardMountInv'
    BY <1>1 DEF Card!Return, CardIInv, CardRestInv, CardReadInv, CardWriteInv, CardOpInv, CardMountInv,
        Card!cmdV, Card!dataV, Card!opV
  <2> QED BY <2>1, <2>2 DEF CardIInv
<1>2. CASE Card!ServeEvents
  <2>1. Card!TypeOK'
    BY <1>2 DEF Card!ServeEvents, CardIInv, Card!TypeOK, Card!cardV, Card!cmdV, Card!dataV, Card!opV
  <2>2. CardRestInv' /\ CardReadInv' /\ CardWriteInv' /\ CardOpInv'
    BY <1>2 DEF Card!ServeEvents, CardIInv, CardRestInv, CardReadInv, CardWriteInv, CardOpInv,
        Card!cardV, Card!cmdV, Card!dataV, Card!opV
  <2>3. mountEvents \in {{"CARD_INSERTED"}, {"CARD_REMOVED"}, {"CARD_INSERTED", "CARD_REMOVED"}}
    BY <1>2 DEF Card!ServeEvents, CardIInv, Card!TypeOK
  <2>4. CardMountInv'
    BY <1>2, <2>3 DEF Card!ServeEvents, CardIInv, CardMountInv
  <2> QED BY <2>1, <2>2, <2>4 DEF CardIInv
<1>3. CASE Card!MountDone
  <2>1. Card!TypeOK'
    BY <1>3 DEF Card!MountDone, CardIInv, Card!TypeOK, Card!cardV, Card!watchV, Card!cmdV, Card!dataV,
        Card!opV
  <2>2. CardRestInv' /\ CardReadInv' /\ CardWriteInv' /\ CardOpInv' /\ CardMountInv'
    BY <1>3 DEF Card!MountDone, CardIInv, CardRestInv, CardReadInv, CardWriteInv, CardOpInv,
        CardMountInv, Card!cardV, Card!watchV, Card!cmdV, Card!dataV, Card!opV
  <2> QED BY <2>1, <2>2 DEF CardIInv
<1> QED BY <1>1, <1>2, <1>3

-----------------------------------------------------------------------------
(* Theorems *)

LEMMA CardInitIInv == CardAssumed /\ Card!Init => CardIInv
<1> SUFFICES ASSUME CardAssumed, Card!Init PROVE CardIInv
    OBVIOUS
<1>1. Card!TypeOK
  <2>1. card \in {"absent", "fresh"} /\ {0, 1} \subseteq Nat /\ 0 \in 0..MaxBlocks
    BY DEF CardAssumed, Card!Init
  <2>2. {present, ongoing, sendingCmd, waitingData, mounted} \subseteq BOOLEAN
    BY DEF Card!Init
  <2>3. {sentBlock, target, done, moved} \subseteq 0..MaxBlocks /\ op \in {"read", "write"}
    BY <2>1 DEF Card!Init
  <2>4. {samples, stage, attempts, stateAttempts, polls, dataAttempts} \subseteq Nat
    BY DEF Card!Init
  <2> QED BY <2>1, <2>2, <2>3, <2>4 DEF Card!Init, Card!TypeOK
<1>2. CardRestInv /\ CardReadInv /\ CardWriteInv /\ CardOpInv /\ CardMountInv
  BY DEF Card!Init, CardRestInv, CardReadInv, CardWriteInv, CardOpInv, CardMountInv
<1> QED BY <1>1, <1>2 DEF CardIInv

LEMMA CardNextStep == CardAssumed /\ CardIInv /\ [Card!Next]_Card!vars => CardIInv'
<1> SUFFICES ASSUME CardAssumed, CardIInv, [Card!Next]_Card!vars PROVE CardIInv'
    OBVIOUS
<1>1. CASE Card!Insert \/ Card!Pull \/ Card!CardReady BY <1>1, CardCardStep
<1>2. CASE Card!Detection BY <1>2, CardDetectionStep
<1>3. CASE Card!Interrupt
  BY <1>3, CardInvokeCmdStep, CardInitCommandDoneStep, CardReadCmdSentStep, CardWriteCmdSentStep,
      CardStateDoneStep, CardPollStateStep,
     CardBlockArrivesStep, CardDataTimeoutStep, CardDataSentStep DEF Card!Interrupt
<1>4. CASE Card!Task BY <1>4, CardBeginStep, CardTaskStep DEF Card!Task
<1>5. CASE UNCHANGED Card!vars
  <2>1. Card!TypeOK' BY <1>5 DEF Card!vars, Card!cardV, Card!watchV, Card!cmdV, Card!dataV, Card!opV,
      Card!taskV, CardIInv, Card!TypeOK
  <2>2. CardRestInv' /\ CardReadInv' /\ CardWriteInv' /\ CardOpInv' /\ CardMountInv'
    BY <1>5 DEF Card!vars, Card!cardV, Card!watchV, Card!cmdV, Card!dataV, Card!opV, Card!taskV,
        CardIInv, CardRestInv, CardReadInv, CardWriteInv, CardOpInv, CardMountInv
  <2> QED BY <2>1, <2>2 DEF CardIInv
<1> QED BY <1>1, <1>2, <1>3, <1>4, <1>5 DEF Card!Next

\* The strengthened invariant holds whatever becomes of the card and of its data.
THEOREM CardInductive == ASSUME CardAssumed PROVE Card!Spec => []CardIInv
BY CardInitIInv, CardNextStep, PTL DEF Card!Spec

\* The state of the SD card's driver, of its caller and of the mounter keeps its type.
THEOREM CardTypeCorrect == ASSUME CardAssumed PROVE Card!Spec => []Card!TypeOK
<1>1. CardIInv => Card!TypeOK BY DEF CardIInv
<1> QED BY CardInductive, <1>1, PTL

\* When disk_read() or disk_write() has returned nothing is left of the operation, and the
\* file system is mounted just while the card is there, for operations of any length and
\* any number of samples and polls.
THEOREM NothingLeft == ASSUME CardAssumed PROVE Card!Spec => []NothingIsLeft
<1>1. CardIInv => NothingIsLeft
  <2> SUFFICES ASSUME CardIInv PROVE NothingIsLeft
      OBVIOUS
  <2>1. caller = "nobody" => ~ongoing
    BY DEF CardIInv, CardOpInv
  <2>2. ~ongoing => Card!DriverAtRest
    BY DEF CardIInv, CardRestInv, Card!DriverAtRest
  <2>3. ongoing => timer # "off" \/ cmd # "none" \/ data # "none"
    BY DEF CardIInv, Card!TypeOK, CardOpInv, CardReadInv, CardWriteInv
  <2>4. Card!DriverAtRest
    BY <2>1, <2>2, <2>3 DEF Card!DriverAtRest
  <2>5. Card!MountFollowsCard
    BY DEF CardIInv, CardMountInv, Card!MountFollowsCard
  <2> QED BY <2>4, <2>5 DEF NothingIsLeft, Card!NothingIsLeft
<1> QED BY CardInductive, <1>1, PTL

\* Data that have timed out, and commands, do not count as a block.
LEMMA CardNoBlockOfCmd ==
    ASSUME CardAssumed, CardIInv, ongoing, op = "read", Card!ReadCmdDone PROVE done' = done
<1>1. CASE waitingData
  BY <1>1 DEF Card!ReadCmdDone, Card!opV
<1>2. CASE ~waitingData
  <2>1. dataError = "timeout" BY <1>2 DEF CardIInv, CardReadInv
  <2> QED BY <1>2, <2>1 DEF Card!ReadCmdDone, Card!HandleReceivedData, Card!Failed, Card!opV
<1> QED BY <1>1, <1>2

LEMMA CardOwnBlockStep == CardAssumed /\ CardIInv /\ [Card!Next]_Card!vars
    => (done' > done => moved' = done')
<1> SUFFICES ASSUME CardAssumed, CardIInv, [Card!Next]_Card!vars, done' > done PROVE moved' = done'
    OBVIOUS
<1>0. done \in Nat
  BY DEF CardAssumed, CardIInv, Card!TypeOK
<1>1. done' # done
  BY <1>0
<1>2. CASE Card!ReadCmdSent
  <2>1. ongoing /\ op = "read"
    BY <1>2, CardCommandIsOfOperation DEF Card!ReadCmdSent, CardIInv, CardWriteInv, Card!TypeOK
  <2>2. PICK error : Card!CmdSent(error, "read", Card!ReadCmdDone)
    BY <1>2 DEF Card!ReadCmdSent
  <2> QED BY <1>1, <2>1, <2>2, CardNoBlockOfCmd DEF Card!CmdSent, Card!RetryCmd, Card!Failed, Card!opV
<1>3. CASE Card!StateDone
  <2>1. ongoing /\ (cmd = "read_state" => op = "read") /\ (cmd = "programmed_state" => op = "write")
    BY <1>3, CardCommandIsOfOperation DEF Card!StateDone, CardIInv, CardReadInv, CardWriteInv, Card!TypeOK
  <2>2. PICK state : Card!StateReceived(cmd, state) \/ Card!AskAgain \/ Card!Failed
    BY <1>3 DEF Card!StateDone
  <2>3. Card!StateReceived(cmd, state) /\ UNCHANGED moved
    BY <1>1, <1>3, <2>2 DEF Card!StateDone, Card!AskAgain, Card!Failed, Card!opV
  <2>4. CASE cmd = "read_state"
    <3>1. done' = done
      BY <2>1, <2>3, <2>4, CardNoBlockOfCmd DEF Card!StateReceived, Card!RetryCmd, Card!Failed, Card!opV
    <3> QED BY <1>1, <3>1
  <2>5. CASE cmd = "write_state"
    <3>1. done' = done
      BY <2>3, <2>5 DEF Card!StateReceived, Card!RetryCmd, Card!StartSending, Card!Failed, Card!opV
    <3> QED BY <1>1, <3>1
  <2>6. CASE cmd = "programmed_state"
    <3>1. Card!ProgrammedStateReceived(state)
      BY <2>3, <2>6 DEF Card!StateReceived
    <3>2. moved = done + 1
      BY <2>1, <2>6 DEF CardIInv, CardWriteInv
    <3>3. done' = done + 1
      BY <1>1, <3>1 DEF Card!ProgrammedStateReceived, Card!BlockDone, Card!Failed, Card!opV
    <3> QED BY <2>3, <3>2, <3>3
  <2> QED BY <1>3, <2>4, <2>5, <2>6 DEF Card!StateDone
<1>4. CASE Card!BlockArrives
  <2>1. data = "rx" /\ card = "data" /\ ongoing /\ op = "read" /\ ~sendingCmd
    BY <1>4, CardReceivingReads DEF Card!BlockArrives, CardAssumed
  <2>2. sentBlock = done + 1
    BY <2>1 DEF CardIInv, CardReadInv
  <2>3. PICK error \in {"none", "crc", "overrun"} :
          moved' = (IF error = "none" THEN sentBlock ELSE 0) /\ Card!HandleReceivedData(error)
    BY <1>4, <2>1 DEF Card!BlockArrives, Card!DataReceived
  <2>4. CASE error = "none"
    <3>1. done' = done + 1
      BY <2>3, <2>4 DEF Card!HandleReceivedData, Card!BlockDone
    <3> QED BY <2>2, <2>3, <2>4, <3>1
  <2>5. CASE error # "none"
    BY <1>1, <2>3, <2>5 DEF Card!HandleReceivedData, Card!RetryBlock, Card!Failed, Card!opV
  <2> QED BY <2>4, <2>5
<1>5. CASE Card!DataTimeout
  BY <1>1, <1>5 DEF Card!DataTimeout, Card!DataReceived, Card!HandleReceivedData, Card!Failed, Card!opV
<1>6. CASE Card!WriteCmdSent
  BY <1>1, <1>6 DEF Card!WriteCmdSent, Card!CmdSent, Card!StartSending, Card!RetryCmd, Card!Failed, Card!opV
<1>7. CASE Card!DataSent
  BY <1>1, <1>7 DEF Card!DataSent, Card!Failed, Card!opV
<1>8. CASE Card!UserBegins \/ Card!MounterBegins
  BY <1>0, <1>8 DEF Card!UserBegins, Card!MounterBegins, Card!Begin
<1>9. CASE UNCHANGED Card!opV
  BY <1>1, <1>9 DEF Card!opV
<1> QED
  BY <1>2, <1>3, <1>4, <1>5, <1>6, <1>7, <1>8, <1>9
  DEF Card!Next, Card!Insert, Card!Pull, Card!CardReady, Card!Detection, Card!DoWaitInsertion,
      Card!DoWaitRemoval, Card!DebounceInsertion, Card!DebounceAbsence,
      Card!CheckPresence, Card!Interrupt, Card!InvokeCmd0, Card!InvokeAcmd41, Card!Elapsed,
          Card!InitCommandDone, Card!PollState, Card!Task, Card!Return,
      Card!ServeEvents, Card!MountDone, Card!vars

\* A block counts as read or written only if that very block was moved undamaged, although
\* commands and blocks are repeated.
THEOREM OwnBlocks == ASSUME CardAssumed PROVE Card!Spec => BlockIsOwn
BY CardInductive, CardOwnBlockStep, PTL DEF Card!Spec, BlockIsOwn, Card!BlockIsOwn

-----------------------------------------------------------------------------
(* The flash.  ChipDriverInv says which interrupt or timeout is on its way *)
(* in each state of the driver, ChipReadInv and ChipWriteInv which pages   *)
(* are done.  Left out is the overrun in the check at power-up.            *)

ChipSending  == {"READ_COMMAND", "READ_DATA", "WRITE_COMMAND", "WRITE_DATA", "ERASE_AND_PROGRAM_COMMAND"}
ChipChecking == {"POWER_UP_CHECK", "ERASE_AND_PROGRAM_CHECK", "READY_AFTER_ERROR_CHECK"}

\* What will go on with the driver, and when the chip is ready.
ChipDriverInv ==
    /\ flashState \in ChipSending => clocked /\ ready
    /\ flashState \in ChipChecking => (clocked <=> flashTimer # "read_status")
    /\ flashState = "IDLE" => ~clocked /\ ready
    /\ flashState = "ERASE_AND_PROGRAM_EXEC" => ~clocked
    /\ flashTimer = "switch_to_checking" <=> flashState = "ERASE_AND_PROGRAM_EXEC"
    /\ flashTimer = "read_status" => flashState \in ChipChecking

\* What the task waits for.
ChipCallerInv ==
    /\ flashState = "POWER_UP_CHECK" => flashCaller = "starting"
    /\ flashCaller = "starting" => flashState \in {"POWER_UP_CHECK", "IDLE"} /\ on_done = "none"
          /\ events = {}
    /\ flashCaller = "idle" => flashState = "IDLE" /\ events = {}
    /\ flashCaller \in {"reads", "writes"} => on_done # "none" /\ (flashState = "IDLE" <=> events # {})
    /\ events \in {{}, {"RW_DONE"}, {"RW_FAILED"}}

\* The pages before the given one have their own data.
ChipDoneBefore(n) == \A p \in 1..n - 1 : movedPages[p] = p

\* Pages of the operation: those that were begun and those that are left.
ChipPagesInv == page + page_count <= MaxPages + 1

ChipReadInv ==
    flashState \in {"READ_COMMAND", "READ_DATA"} =>
        /\ flashCaller = "reads"
        /\ page > 1 /\ from = page - 1 /\ to = page - 1
        /\ on_done = IF page_count = 0 THEN "set_all_done" ELSE "read_page"
        /\ ChipDoneBefore(page - 1)

ChipAfterProgram == on_done = IF page_count = 0 THEN "set_all_done" ELSE "data_to_buffer"

ChipWriteInv ==
    /\ flashState \in {"WRITE_COMMAND", "WRITE_DATA"} =>
        /\ flashCaller = "writes"
        /\ page_count > 0 /\ from = page /\ to = Chip!B1 /\ on_done = "buffer_to_memory"
        /\ ChipDoneBefore(page)
    /\ flashState = "ERASE_AND_PROGRAM_COMMAND" =>
        /\ flashCaller = "writes"
        /\ page > 1 /\ to = page - 1 /\ buffer = page - 1
        /\ ChipAfterProgram /\ ChipDoneBefore(page - 1)
    /\ flashState \in {"ERASE_AND_PROGRAM_EXEC", "ERASE_AND_PROGRAM_CHECK"} =>
        flashCaller = "writes" /\ ChipAfterProgram /\ ChipDoneBefore(page)

ChipDoneInv == "RW_DONE" \in events => page_count = 0 /\ ChipDoneBefore(page)

ChipIInv == Chip!TypeOK /\ ChipDriverInv /\ ChipCallerInv /\ ChipPagesInv /\ ChipReadInv /\ ChipWriteInv
    /\ ChipDoneInv

\* What is proved is proved for these constants.
ChipAssumed == MaxPages \in Nat \ {0} /\ Coincidences = {}

-----------------------------------------------------------------------------
\* Every step leaves the variables typed.
LEMMA ChipTypeStep == ChipAssumed /\ ChipIInv /\ [Chip!Next]_Chip!vars => Chip!TypeOK'
<1> SUFFICES ASSUME ChipAssumed, ChipIInv, [Chip!Next]_Chip!vars PROVE Chip!TypeOK'
    OBVIOUS
<1> USE DEF ChipAssumed, ChipIInv, Chip!driverV, Chip!TypeOK, ChipDriverInv, ChipCallerInv,
    ChipPagesInv, ChipReadInv, ChipWriteInv,
    ChipAfterProgram, Chip!Pages, Chip!Nothing, Chip!B1, ChipSending, ChipChecking
<1>1. CASE Chip!DmaIsr
  <2>1. CASE Chip!CommandSent BY <2>1, <1>1 DEF Chip!CommandSent, Chip!DmaIsr
  <2>2. CASE Chip!DataMoved
    <3>1. movedPages' \in [Chip!Pages -> Chip!Pages \cup {Chip!Nothing}]
        /\ buffer' \in Chip!Pages \cup {Chip!Nothing}
      <4>1. CASE flashState \in {"READ_COMMAND", "READ_DATA"}
        BY <2>2, <4>1 DEF Chip!DataMoved
      <4>2. CASE flashState \in {"WRITE_COMMAND", "WRITE_DATA"}
        BY <2>2, <4>2 DEF Chip!DataMoved
      <4> QED BY <2>2, <4>1, <4>2 DEF Chip!DataMoved
    <3>2. Chip!OnDone(TRUE) /\ on_done \in {"set_all_done", "read_page", "buffer_to_memory"}
      BY <2>2, Zenon DEF Chip!DataMoved
    <3>3. on_done \in {"read_page", "buffer_to_memory"} => page \in Chip!Pages /\ page_count > 0
      BY <2>2 DEF Chip!DataMoved
    <3>4. on_done = "set_all_done" => Chip!SetAllDone(TRUE)
      BY <3>2 DEF Chip!OnDone
    <3>5. on_done = "read_page" => Chip!ReadPage
      BY <3>2 DEF Chip!OnDone
    <3>6. on_done = "buffer_to_memory" => Chip!BufferToMemory
      BY <3>2 DEF Chip!OnDone
    <3>7. UNCHANGED <<flashTimer, ready, flashCaller>>
      BY <2>2, <1>1 DEF Chip!DataMoved, Chip!DmaIsr
    <3>8. CASE on_done = "set_all_done"
      BY <3>1, <3>4, <3>7, <3>8 DEF Chip!SetAllDone
    <3>9. CASE on_done = "read_page"
      <4>1. page' \in 1..MaxPages + 1 /\ page_count' \in 0..MaxPages /\ events' = events
        BY <3>3, <3>5, <3>9 DEF Chip!ReadPage, Chip!NextPage
      <4>2. flashState' = "READ_COMMAND" /\ clocked' = TRUE /\ from' = page /\ to' = page
        BY <3>3, <3>5, <3>9 DEF Chip!ReadPage, Chip!ReadMemory, Chip!StartCommand
      <4>3. on_done' \in {"set_all_done", "read_page"}
        BY <3>3, <3>5, <3>9 DEF Chip!ReadPage, Chip!ReadMemory, Chip!StartCommand
      <4> QED BY <3>1, <3>3, <3>7, <4>1, <4>2, <4>3, <3>9
    <3>10. CASE on_done = "buffer_to_memory"
      <4>1. page' \in 1..MaxPages + 1 /\ page_count' \in 0..MaxPages /\ events' = events
        BY <3>3, <3>6, <3>10 DEF Chip!BufferToMemory, Chip!NextPage
      <4>2. flashState' = "ERASE_AND_PROGRAM_COMMAND" /\ clocked' = TRUE /\ from' = Chip!B1 /\ to' = page
        BY <3>3, <3>6, <3>10 DEF Chip!BufferToMemory, Chip!EraseAndProgram, Chip!StartCommand
      <4>3. on_done' \in {"set_all_done", "data_to_buffer"}
        BY <3>3, <3>6, <3>10 DEF Chip!BufferToMemory, Chip!EraseAndProgram, Chip!StartCommand
      <4> QED BY <3>1, <3>3, <3>7, <4>1, <4>2, <4>3, <3>10
    <3> QED BY <3>2, <3>8, <3>9, <3>10
  <2>3. CASE Chip!ProgramSent BY <2>3, <1>1 DEF Chip!ProgramSent, Chip!Deselect, Chip!DmaIsr
  <2>4. CASE Chip!StatusReceived
    <3>1. UNCHANGED <<ready, buffer, movedPages, flashCaller>>
      BY <2>4, <1>1 DEF Chip!StatusReceived, Chip!DmaIsr
    <3>2. CASE ~ready \/ flashState = "POWER_UP_CHECK"
      BY <2>4, <3>1, <3>2 DEF Chip!StatusReceived
    <3>3. CASE ready /\ flashState = "ERASE_AND_PROGRAM_CHECK"
      <4>1. Chip!OnDone(TRUE) /\ UNCHANGED flashTimer
        BY <2>4, <3>3 DEF Chip!StatusReceived
      <4>2. IF page_count = 0 THEN Chip!SetAllDone(TRUE) ELSE Chip!DataToBuffer
        BY <3>3, <4>1 DEF Chip!OnDone
      <4>3. page_count > 0 => page \in Chip!Pages
        OBVIOUS
      <4>4. CASE page_count = 0
        BY <3>1, <4>1, <4>2, <4>4 DEF Chip!SetAllDone
      <4>5. CASE page_count # 0
        <5>1. Chip!DataToBuffer /\ page \in Chip!Pages
          BY <4>2, <4>3, <4>5
        <5>2. flashState' = "WRITE_COMMAND" /\ clocked' = TRUE /\ from' = page /\ to' = Chip!B1
            /\ on_done' = "buffer_to_memory"
          BY <5>1 DEF Chip!DataToBuffer, Chip!WriteBuffer, Chip!StartCommand
        <5>3. UNCHANGED <<page, page_count, events>>
          BY <5>1 DEF Chip!DataToBuffer
        <5> QED BY <3>1, <4>1, <5>1, <5>2, <5>3
      <4> QED BY <4>4, <4>5
    <3>4. CASE ready /\ flashState = "READY_AFTER_ERROR_CHECK"
      <4>1. Chip!OnDone(FALSE) /\ on_done # "none" /\ UNCHANGED flashTimer
        BY <2>4, <3>4 DEF Chip!StatusReceived
      <4>2. Chip!SetAllDone(FALSE)
        BY <4>1 DEF Chip!OnDone
      <4> QED BY <3>1, <4>1, <4>2, ZenonT(30) DEF Chip!SetAllDone
    <3> QED BY <2>4, <3>2, <3>3, <3>4 DEF Chip!StatusReceived
  <2> QED BY <1>1, <2>1, <2>2, <2>3, <2>4 DEF Chip!DmaIsr
<1>2. CASE Chip!Overrun \/ Chip!SwitchToChecking \/ Chip!RecheckStatus \/ Chip!ChipReady \/ Chip!Started
    \/ Chip!DiskRead \/
    Chip!DiskWrite \/ Chip!Return
  <2>1. CASE Chip!Overrun BY <2>1 DEF Chip!Overrun, Chip!Deselect, Chip!ReadStatus
  <2>2. CASE Chip!SwitchToChecking BY <2>2 DEF Chip!SwitchToChecking, Chip!ReadStatus
  <2>3. CASE Chip!RecheckStatus BY <2>3 DEF Chip!RecheckStatus, Chip!ReadStatus
  <2>4. CASE Chip!ChipReady BY <2>4 DEF Chip!ChipReady
  <2>5. CASE Chip!Started BY <2>5 DEF Chip!Started
  <2>6. CASE Chip!DiskRead BY <2>6 DEF Chip!DiskRead, Chip!Begin, Chip!ReadMemory, Chip!StartCommand
  <2>7. CASE Chip!DiskWrite BY <2>7 DEF Chip!DiskWrite, Chip!Begin, Chip!WriteBuffer, Chip!StartCommand
  <2>8. CASE Chip!Return BY <2>8 DEF Chip!Return
  <2> QED BY <1>2, <2>1, <2>2, <2>3, <2>4, <2>5, <2>6, <2>7, <2>8
<1>3. CASE UNCHANGED Chip!vars BY <1>3 DEF Chip!vars
<1> QED BY <1>1, <1>2, <1>3 DEF Chip!Next, Chip!Handler, Chip!Task

\* Every step preserves DriverInv.
LEMMA ChipDriverStep == ChipAssumed /\ ChipIInv /\ [Chip!Next]_Chip!vars => ChipDriverInv'
<1> SUFFICES ASSUME ChipAssumed, ChipIInv, [Chip!Next]_Chip!vars PROVE ChipDriverInv'
    OBVIOUS
<1> USE DEF ChipAssumed, ChipIInv, Chip!driverV, Chip!TypeOK, ChipDriverInv, ChipCallerInv, Chip!Pages,
    Chip!Nothing, Chip!B1, ChipSending,
    ChipChecking
<1>1. CASE Chip!DmaIsr
  <2>1. CASE Chip!CommandSent BY <2>1, <1>1 DEF Chip!CommandSent, Chip!DmaIsr
  <2>2. CASE Chip!DataMoved BY <2>2, <1>1 DEF Chip!DataMoved, Chip!OnDone, Chip!SetAllDone,
      Chip!ReadPage, Chip!ReadMemory,
      Chip!NextPage, Chip!BufferToMemory, Chip!EraseAndProgram, Chip!DataToBuffer, Chip!WriteBuffer,
          Chip!StartCommand, Chip!DmaIsr
  <2>3. CASE Chip!ProgramSent BY <2>3, <1>1 DEF Chip!ProgramSent, Chip!Deselect, Chip!DmaIsr
  <2>4. CASE Chip!StatusReceived BY <2>4, <1>1 DEF Chip!StatusReceived, Chip!OnDone, Chip!SetAllDone,
      Chip!ReadPage,
      Chip!ReadMemory, Chip!NextPage, Chip!BufferToMemory, Chip!EraseAndProgram, Chip!DataToBuffer,
          Chip!WriteBuffer,
      Chip!StartCommand, Chip!DmaIsr
  <2> QED BY <1>1, <2>1, <2>2, <2>3, <2>4 DEF Chip!DmaIsr
<1>2. CASE Chip!Overrun \/ Chip!SwitchToChecking \/ Chip!RecheckStatus \/ Chip!ChipReady \/ Chip!Started
    \/ Chip!DiskRead \/
    Chip!DiskWrite \/ Chip!Return
  <2>1. CASE Chip!Overrun BY <2>1 DEF Chip!Overrun, Chip!Deselect, Chip!ReadStatus
  <2>2. CASE Chip!SwitchToChecking BY <2>2 DEF Chip!SwitchToChecking, Chip!ReadStatus
  <2>3. CASE Chip!RecheckStatus BY <2>3 DEF Chip!RecheckStatus, Chip!ReadStatus
  <2>4. CASE Chip!ChipReady BY <2>4 DEF Chip!ChipReady
  <2>5. CASE Chip!Started BY <2>5 DEF Chip!Started
  <2>6. CASE Chip!DiskRead BY <2>6 DEF Chip!DiskRead, Chip!Begin, Chip!ReadMemory, Chip!StartCommand
  <2>7. CASE Chip!DiskWrite BY <2>7 DEF Chip!DiskWrite, Chip!Begin, Chip!WriteBuffer, Chip!StartCommand
  <2>8. CASE Chip!Return BY <2>8 DEF Chip!Return
  <2> QED BY <1>2, <2>1, <2>2, <2>3, <2>4, <2>5, <2>6, <2>7, <2>8
<1>3. CASE UNCHANGED Chip!vars BY <1>3 DEF Chip!vars
<1> QED BY <1>1, <1>2, <1>3 DEF Chip!Next, Chip!Handler, Chip!Task

\* Every step preserves CallerInv.
LEMMA ChipCallerStep == ChipAssumed /\ ChipIInv /\ [Chip!Next]_Chip!vars => ChipCallerInv'
<1> SUFFICES ASSUME ChipAssumed, ChipIInv, [Chip!Next]_Chip!vars PROVE ChipCallerInv'
    OBVIOUS
<1> USE DEF ChipAssumed, ChipIInv, Chip!driverV, Chip!TypeOK, ChipDriverInv, ChipCallerInv, Chip!Pages,
    Chip!Nothing, Chip!B1, ChipSending,
    ChipChecking
<1>1. CASE Chip!DmaIsr
  <2>1. CASE Chip!CommandSent BY <2>1, <1>1 DEF Chip!CommandSent, Chip!DmaIsr
  <2>2. CASE Chip!DataMoved BY <2>2, <1>1 DEF Chip!DataMoved, Chip!OnDone, Chip!SetAllDone,
      Chip!ReadPage, Chip!ReadMemory,
      Chip!NextPage, Chip!BufferToMemory, Chip!EraseAndProgram, Chip!DataToBuffer, Chip!WriteBuffer,
          Chip!StartCommand, Chip!DmaIsr
  <2>3. CASE Chip!ProgramSent BY <2>3, <1>1 DEF Chip!ProgramSent, Chip!Deselect, Chip!DmaIsr
  <2>4. CASE Chip!StatusReceived BY <2>4, <1>1 DEF Chip!StatusReceived, Chip!OnDone, Chip!SetAllDone,
      Chip!ReadPage,
      Chip!ReadMemory, Chip!NextPage, Chip!BufferToMemory, Chip!EraseAndProgram, Chip!DataToBuffer,
          Chip!WriteBuffer,
      Chip!StartCommand, Chip!DmaIsr
  <2> QED BY <1>1, <2>1, <2>2, <2>3, <2>4 DEF Chip!DmaIsr
<1>2. CASE Chip!Overrun \/ Chip!SwitchToChecking \/ Chip!RecheckStatus \/ Chip!ChipReady \/ Chip!Started
    \/ Chip!DiskRead \/
    Chip!DiskWrite \/ Chip!Return
  <2>1. CASE Chip!Overrun BY <2>1 DEF Chip!Overrun, Chip!Deselect, Chip!ReadStatus
  <2>2. CASE Chip!SwitchToChecking BY <2>2 DEF Chip!SwitchToChecking, Chip!ReadStatus
  <2>3. CASE Chip!RecheckStatus BY <2>3 DEF Chip!RecheckStatus, Chip!ReadStatus
  <2>4. CASE Chip!ChipReady BY <2>4 DEF Chip!ChipReady
  <2>5. CASE Chip!Started BY <2>5 DEF Chip!Started
  <2>6. CASE Chip!DiskRead BY <2>6 DEF Chip!DiskRead, Chip!Begin, Chip!ReadMemory, Chip!StartCommand
  <2>7. CASE Chip!DiskWrite BY <2>7 DEF Chip!DiskWrite, Chip!Begin, Chip!WriteBuffer, Chip!StartCommand
  <2>8. CASE Chip!Return BY <2>8 DEF Chip!Return
  <2> QED BY <1>2, <2>1, <2>2, <2>3, <2>4, <2>5, <2>6, <2>7, <2>8
<1>3. CASE UNCHANGED Chip!vars BY <1>3 DEF Chip!vars
<1> QED BY <1>1, <1>2, <1>3 DEF Chip!Next, Chip!Handler, Chip!Task

\* Every step preserves PagesInv.
LEMMA ChipPagesStep == ChipAssumed /\ ChipIInv /\ [Chip!Next]_Chip!vars => ChipPagesInv'
<1> SUFFICES ASSUME ChipAssumed, ChipIInv, [Chip!Next]_Chip!vars PROVE ChipPagesInv'
    OBVIOUS
<1> USE DEF ChipAssumed, ChipIInv, Chip!driverV, Chip!TypeOK, ChipPagesInv, ChipReadInv, ChipWriteInv,
    ChipAfterProgram, Chip!Pages,
    Chip!Nothing, Chip!B1, ChipSending, ChipChecking
<1>1. CASE Chip!DmaIsr
  <2>1. CASE Chip!CommandSent BY <2>1, <1>1 DEF Chip!CommandSent, Chip!DmaIsr
  <2>2. CASE Chip!DataMoved BY <2>2, <1>1 DEF Chip!DataMoved, Chip!OnDone, Chip!SetAllDone,
      Chip!ReadPage, Chip!ReadMemory,
      Chip!NextPage, Chip!BufferToMemory, Chip!EraseAndProgram, Chip!DataToBuffer, Chip!WriteBuffer,
          Chip!StartCommand, Chip!DmaIsr
  <2>3. CASE Chip!ProgramSent BY <2>3, <1>1 DEF Chip!ProgramSent, Chip!Deselect, Chip!DmaIsr
  <2>4. CASE Chip!StatusReceived BY <2>4, <1>1 DEF Chip!StatusReceived, Chip!OnDone, Chip!SetAllDone,
      Chip!ReadPage,
      Chip!ReadMemory, Chip!NextPage, Chip!BufferToMemory, Chip!EraseAndProgram, Chip!DataToBuffer,
          Chip!WriteBuffer,
      Chip!StartCommand, Chip!DmaIsr
  <2> QED BY <1>1, <2>1, <2>2, <2>3, <2>4 DEF Chip!DmaIsr
<1>2. CASE Chip!Overrun \/ Chip!SwitchToChecking \/ Chip!RecheckStatus \/ Chip!ChipReady \/ Chip!Started
    \/ Chip!DiskRead \/
    Chip!DiskWrite \/ Chip!Return
  <2>1. CASE Chip!Overrun BY <2>1 DEF Chip!Overrun, Chip!Deselect, Chip!ReadStatus
  <2>2. CASE Chip!SwitchToChecking BY <2>2 DEF Chip!SwitchToChecking, Chip!ReadStatus
  <2>3. CASE Chip!RecheckStatus BY <2>3 DEF Chip!RecheckStatus, Chip!ReadStatus
  <2>4. CASE Chip!ChipReady BY <2>4 DEF Chip!ChipReady
  <2>5. CASE Chip!Started BY <2>5 DEF Chip!Started
  <2>6. CASE Chip!DiskRead BY <2>6 DEF Chip!DiskRead, Chip!Begin, Chip!ReadMemory, Chip!StartCommand
  <2>7. CASE Chip!DiskWrite BY <2>7 DEF Chip!DiskWrite, Chip!Begin, Chip!WriteBuffer, Chip!StartCommand
  <2>8. CASE Chip!Return BY <2>8 DEF Chip!Return
  <2> QED BY <1>2, <2>1, <2>2, <2>3, <2>4, <2>5, <2>6, <2>7, <2>8
<1>3. CASE UNCHANGED Chip!vars BY <1>3 DEF Chip!vars
<1> QED BY <1>1, <1>2, <1>3 DEF Chip!Next, Chip!Handler, Chip!Task

\* Every step preserves ReadInv.
LEMMA ChipReadStep == ChipAssumed /\ ChipIInv /\ [Chip!Next]_Chip!vars => ChipReadInv'
<1> SUFFICES ASSUME ChipAssumed, ChipIInv, [Chip!Next]_Chip!vars PROVE ChipReadInv'
    OBVIOUS
<1> USE DEF ChipAssumed, ChipIInv, Chip!driverV, Chip!TypeOK, ChipDriverInv, ChipCallerInv,
    ChipPagesInv, ChipReadInv, ChipWriteInv,
    ChipAfterProgram, ChipDoneBefore, Chip!Pages, Chip!Nothing, Chip!B1, ChipSending, ChipChecking
<1>1. CASE Chip!DmaIsr
  <2>1. CASE Chip!CommandSent BY <2>1, <1>1 DEF Chip!CommandSent, Chip!DmaIsr
  <2>2. CASE Chip!DataMoved BY <2>2, <1>1 DEF Chip!DataMoved, Chip!OnDone, Chip!SetAllDone,
      Chip!ReadPage, Chip!ReadMemory,
      Chip!NextPage, Chip!BufferToMemory, Chip!EraseAndProgram, Chip!DataToBuffer, Chip!WriteBuffer,
          Chip!StartCommand, Chip!DmaIsr
  <2>3. CASE Chip!ProgramSent BY <2>3, <1>1 DEF Chip!ProgramSent, Chip!Deselect, Chip!DmaIsr
  <2>4. CASE Chip!StatusReceived BY <2>4, <1>1 DEF Chip!StatusReceived, Chip!OnDone, Chip!SetAllDone,
      Chip!ReadPage,
      Chip!ReadMemory, Chip!NextPage, Chip!BufferToMemory, Chip!EraseAndProgram, Chip!DataToBuffer,
          Chip!WriteBuffer,
      Chip!StartCommand, Chip!DmaIsr
  <2> QED BY <1>1, <2>1, <2>2, <2>3, <2>4 DEF Chip!DmaIsr
<1>2. CASE Chip!Overrun \/ Chip!SwitchToChecking \/ Chip!RecheckStatus \/ Chip!ChipReady \/ Chip!Started
    \/ Chip!DiskRead \/
    Chip!DiskWrite \/ Chip!Return
  <2>1. CASE Chip!Overrun BY <2>1 DEF Chip!Overrun, Chip!Deselect, Chip!ReadStatus
  <2>2. CASE Chip!SwitchToChecking BY <2>2 DEF Chip!SwitchToChecking, Chip!ReadStatus
  <2>3. CASE Chip!RecheckStatus BY <2>3 DEF Chip!RecheckStatus, Chip!ReadStatus
  <2>4. CASE Chip!ChipReady BY <2>4 DEF Chip!ChipReady
  <2>5. CASE Chip!Started BY <2>5 DEF Chip!Started
  <2>6. CASE Chip!DiskRead BY <2>6 DEF Chip!DiskRead, Chip!Begin, Chip!ReadMemory, Chip!StartCommand
  <2>7. CASE Chip!DiskWrite BY <2>7 DEF Chip!DiskWrite, Chip!Begin, Chip!WriteBuffer, Chip!StartCommand
  <2>8. CASE Chip!Return BY <2>8 DEF Chip!Return
  <2> QED BY <1>2, <2>1, <2>2, <2>3, <2>4, <2>5, <2>6, <2>7, <2>8
<1>3. CASE UNCHANGED Chip!vars BY <1>3 DEF Chip!vars
<1> QED BY <1>1, <1>2, <1>3 DEF Chip!Next, Chip!Handler, Chip!Task

\* Every step preserves WriteInv.
LEMMA ChipWriteStep == ChipAssumed /\ ChipIInv /\ [Chip!Next]_Chip!vars => ChipWriteInv'
<1> SUFFICES ASSUME ChipAssumed, ChipIInv, [Chip!Next]_Chip!vars PROVE ChipWriteInv'
    OBVIOUS
<1> USE DEF ChipAssumed, ChipIInv, Chip!driverV, Chip!TypeOK, ChipDriverInv, ChipCallerInv,
    ChipPagesInv, ChipReadInv, ChipWriteInv,
    ChipAfterProgram, ChipDoneBefore, Chip!Pages, Chip!Nothing, Chip!B1, ChipSending, ChipChecking
<1>1. CASE Chip!DmaIsr
  <2>1. CASE Chip!CommandSent BY <2>1, <1>1 DEF Chip!CommandSent, Chip!DmaIsr
  <2>2. CASE Chip!DataMoved BY <2>2, <1>1 DEF Chip!DataMoved, Chip!OnDone, Chip!SetAllDone,
      Chip!ReadPage, Chip!ReadMemory,
      Chip!NextPage, Chip!BufferToMemory, Chip!EraseAndProgram, Chip!DataToBuffer, Chip!WriteBuffer,
          Chip!StartCommand, Chip!DmaIsr
  <2>3. CASE Chip!ProgramSent BY <2>3, <1>1 DEF Chip!ProgramSent, Chip!Deselect, Chip!DmaIsr
  <2>4. CASE Chip!StatusReceived BY <2>4, <1>1 DEF Chip!StatusReceived, Chip!OnDone, Chip!SetAllDone,
      Chip!ReadPage,
      Chip!ReadMemory, Chip!NextPage, Chip!BufferToMemory, Chip!EraseAndProgram, Chip!DataToBuffer,
          Chip!WriteBuffer,
      Chip!StartCommand, Chip!DmaIsr
  <2> QED BY <1>1, <2>1, <2>2, <2>3, <2>4 DEF Chip!DmaIsr
<1>2. CASE Chip!Overrun \/ Chip!SwitchToChecking \/ Chip!RecheckStatus \/ Chip!ChipReady \/ Chip!Started
    \/ Chip!DiskRead \/
    Chip!DiskWrite \/ Chip!Return
  <2>1. CASE Chip!Overrun BY <2>1 DEF Chip!Overrun, Chip!Deselect, Chip!ReadStatus
  <2>2. CASE Chip!SwitchToChecking BY <2>2 DEF Chip!SwitchToChecking, Chip!ReadStatus
  <2>3. CASE Chip!RecheckStatus BY <2>3 DEF Chip!RecheckStatus, Chip!ReadStatus
  <2>4. CASE Chip!ChipReady BY <2>4 DEF Chip!ChipReady
  <2>5. CASE Chip!Started BY <2>5 DEF Chip!Started
  <2>6. CASE Chip!DiskRead BY <2>6 DEF Chip!DiskRead, Chip!Begin, Chip!ReadMemory, Chip!StartCommand
  <2>7. CASE Chip!DiskWrite BY <2>7 DEF Chip!DiskWrite, Chip!Begin, Chip!WriteBuffer, Chip!StartCommand
  <2>8. CASE Chip!Return BY <2>8 DEF Chip!Return
  <2> QED BY <1>2, <2>1, <2>2, <2>3, <2>4, <2>5, <2>6, <2>7, <2>8
<1>3. CASE UNCHANGED Chip!vars BY <1>3 DEF Chip!vars
<1> QED BY <1>1, <1>2, <1>3 DEF Chip!Next, Chip!Handler, Chip!Task

\* Every step preserves DoneInv.
LEMMA ChipDoneStep == ChipAssumed /\ ChipIInv /\ [Chip!Next]_Chip!vars => ChipDoneInv'
<1> SUFFICES ASSUME ChipAssumed, ChipIInv, [Chip!Next]_Chip!vars PROVE ChipDoneInv'
    OBVIOUS
<1> USE DEF ChipAssumed, ChipIInv, Chip!driverV, Chip!TypeOK, ChipDriverInv, ChipCallerInv,
    ChipPagesInv, ChipReadInv, ChipWriteInv,
    ChipDoneInv, ChipAfterProgram, ChipDoneBefore, Chip!Pages, Chip!Nothing, Chip!B1, ChipSending,
        ChipChecking
<1>1. CASE Chip!DmaIsr
  <2>1. CASE Chip!CommandSent BY <2>1, <1>1 DEF Chip!CommandSent, Chip!DmaIsr
  <2>2. CASE Chip!DataMoved BY <2>2, <1>1 DEF Chip!DataMoved, Chip!OnDone, Chip!SetAllDone,
      Chip!ReadPage, Chip!ReadMemory,
      Chip!NextPage, Chip!BufferToMemory, Chip!EraseAndProgram, Chip!DataToBuffer, Chip!WriteBuffer,
          Chip!StartCommand, Chip!DmaIsr
  <2>3. CASE Chip!ProgramSent BY <2>3, <1>1 DEF Chip!ProgramSent, Chip!Deselect, Chip!DmaIsr
  <2>4. CASE Chip!StatusReceived BY <2>4, <1>1 DEF Chip!StatusReceived, Chip!OnDone, Chip!SetAllDone,
      Chip!ReadPage,
      Chip!ReadMemory, Chip!NextPage, Chip!BufferToMemory, Chip!EraseAndProgram, Chip!DataToBuffer,
          Chip!WriteBuffer,
      Chip!StartCommand, Chip!DmaIsr
  <2> QED BY <1>1, <2>1, <2>2, <2>3, <2>4 DEF Chip!DmaIsr
<1>2. CASE Chip!Overrun \/ Chip!SwitchToChecking \/ Chip!RecheckStatus \/ Chip!ChipReady \/ Chip!Started
    \/ Chip!DiskRead \/
    Chip!DiskWrite \/ Chip!Return
  <2>1. CASE Chip!Overrun BY <2>1 DEF Chip!Overrun, Chip!Deselect, Chip!ReadStatus
  <2>2. CASE Chip!SwitchToChecking BY <2>2 DEF Chip!SwitchToChecking, Chip!ReadStatus
  <2>3. CASE Chip!RecheckStatus BY <2>3 DEF Chip!RecheckStatus, Chip!ReadStatus
  <2>4. CASE Chip!ChipReady BY <2>4 DEF Chip!ChipReady
  <2>5. CASE Chip!Started BY <2>5 DEF Chip!Started
  <2>6. CASE Chip!DiskRead BY <2>6 DEF Chip!DiskRead, Chip!Begin, Chip!ReadMemory, Chip!StartCommand
  <2>7. CASE Chip!DiskWrite BY <2>7 DEF Chip!DiskWrite, Chip!Begin, Chip!WriteBuffer, Chip!StartCommand
  <2>8. CASE Chip!Return BY <2>8 DEF Chip!Return
  <2> QED BY <1>2, <2>1, <2>2, <2>3, <2>4, <2>5, <2>6, <2>7, <2>8
<1>3. CASE UNCHANGED Chip!vars BY <1>3 DEF Chip!vars
<1> QED BY <1>1, <1>2, <1>3 DEF Chip!Next, Chip!Handler, Chip!Task

-----------------------------------------------------------------------------
\* IInv holds initially.
LEMMA ChipInitIInv == ChipAssumed /\ Chip!Init => ChipIInv
<1> SUFFICES ASSUME ChipAssumed, Chip!Init PROVE ChipIInv
    OBVIOUS
<1> USE DEF ChipAssumed, Chip!Init, Chip!Pages, Chip!Nothing, Chip!B1, ChipSending, ChipChecking
<1>1. Chip!TypeOK
  BY DEF Chip!TypeOK
<1>2. ChipDriverInv /\ ChipCallerInv /\ ChipPagesInv
  BY DEF ChipDriverInv, ChipCallerInv, ChipPagesInv
<1>3. ChipReadInv /\ ChipWriteInv /\ ChipDoneInv
  BY DEF ChipReadInv, ChipWriteInv, ChipDoneInv
<1> QED BY <1>1, <1>2, <1>3 DEF ChipIInv

\* The strengthened invariant holds whichever handler of flash.cpp runs.
THEOREM ChipInductive == ASSUME ChipAssumed PROVE Chip!Spec => []ChipIInv
<1>1. Chip!Init => ChipIInv
  BY ChipInitIInv
<1>2. ChipIInv /\ [Chip!Next]_Chip!vars => ChipIInv'
  BY ChipTypeStep, ChipDriverStep, ChipCallerStep, ChipPagesStep, ChipReadStep, ChipWriteStep,
      ChipDoneStep DEF ChipIInv
<1> QED BY <1>1, <1>2, PTL DEF Chip!Spec

\* The state of the chained handlers of flash keeps its type.
THEOREM ChipTypeCorrect == ASSUME ChipAssumed PROVE Chip!Spec => []Chip!TypeOK
<1>1. ChipIInv => Chip!TypeOK BY DEF ChipIInv
<1> QED BY ChipInductive, <1>1, PTL

\* disk_read() and disk_write() are told the end once, when chip and driver rest, and
\* RW_DONE only if each page has got its own data.
THEOREM OperationWhole == ASSUME ChipAssumed PROVE Chip!Spec => []OperationIsWhole
<1>1. ChipIInv => OperationIsWhole
  <2> SUFFICES ASSUME ChipIInv PROVE OperationIsWhole
      OBVIOUS
  <2>1. flashCaller \in {"starting", "idle", "reads", "writes"}
    BY DEF ChipIInv, Chip!TypeOK
  <2>2. flashCaller = "idle" \/ events # {} => flashState = "IDLE"
    BY <2>1 DEF ChipIInv, ChipCallerInv
  <2>3. flashState = "IDLE" => Chip!AtRest /\ ready
    BY DEF ChipIInv, Chip!TypeOK, ChipDriverInv, Chip!AtRest, ChipChecking
  <2>4. events # {} => events \in {{"RW_DONE"}, {"RW_FAILED"}}
    BY DEF ChipIInv, ChipCallerInv
  <2>5. flashCaller = "idle" => events = {}
    BY DEF ChipIInv, ChipCallerInv
  <2>6. "RW_DONE" \in events => page_count = 0 /\ \A p \in 1..page - 1 : movedPages[p] = p
    BY DEF ChipIInv, ChipDoneInv, ChipDoneBefore
  <2> QED BY <2>2, <2>3, <2>4, <2>5, <2>6, Zenon DEF OperationIsWhole, Chip!OperationIsWhole
<1> QED BY ChipInductive, <1>1, PTL

-----------------------------------------------------------------------------
(* The clock.  The months and the years of the calendar follow each other, *)
(* so that the date add_days() gives is the right one; the rest is the     *)
(* arithmetic of the time of day.                                          *)

\* What the clock keeps is a date, though not always one of a calendar.
TimeDate == [year : Int, month : Int, day : Int, hour : Int, minute : Int, second : Int]

TimeOnClock(t) == t.hour \in 0..23 /\ t.minute \in 0..59 /\ t.second \in 0..59

TimeValidDate(t) == t \in TimeDate /\ Time!IsDate(t) /\ TimeOnClock(t)
\* The network sends dates that exist, and a shift of 0, 1 or 2 hours; the system may have
\* run for any time.
TimeAssumed ==
    /\ Shifts \subseteq 0..2
    /\ \A t \in NetworkTimes : TimeValidDate(t)
    /\ \A t \in StartTimes : t \in TimeDate /\ TimeOnClock(t)

\* The clock shows what was kept, on a date of the calendar.
TimeIInv ==
    /\ upTime \in Int /\ kept \in Int /\ dst \in 0..2 /\ hasDateTime \in BOOLEAN
    /\ runTime \in TimeDate /\ TimeOnClock(runTime)
    /\ 86400 * runTime.day + Time!TimeOfDay(runTime) = upTime
    /\ dateTime \in TimeDate /\ TimeOnClock(dateTime)
    /\ hasDateTime => Time!IsDate(dateTime) /\ Time!SecondsOf(dateTime) = kept

\* The days of a calendar before each month
LEMMA TimeCalendar ==
    ASSUME NEW year \in Int
    PROVE /\ Time!DaysBefore(1, year) = 0 /\ Time!DaysBefore(2, year) = 31
          /\ Time!DaysBefore(3, year) = 59 + (IF year % 4 = 0 THEN 1 ELSE 0)
          /\ Time!DaysBefore(4, year) = 90 + (IF year % 4 = 0 THEN 1 ELSE 0)
          /\ Time!DaysBefore(5, year) = 120 + (IF year % 4 = 0 THEN 1 ELSE 0)
          /\ Time!DaysBefore(6, year) = 151 + (IF year % 4 = 0 THEN 1 ELSE 0)
          /\ Time!DaysBefore(7, year) = 181 + (IF year % 4 = 0 THEN 1 ELSE 0)
          /\ Time!DaysBefore(8, year) = 212 + (IF year % 4 = 0 THEN 1 ELSE 0)
          /\ Time!DaysBefore(9, year) = 243 + (IF year % 4 = 0 THEN 1 ELSE 0)
          /\ Time!DaysBefore(10, year) = 273 + (IF year % 4 = 0 THEN 1 ELSE 0)
          /\ Time!DaysBefore(11, year) = 304 + (IF year % 4 = 0 THEN 1 ELSE 0)
          /\ Time!DaysBefore(12, year) = 334 + (IF year % 4 = 0 THEN 1 ELSE 0)
          /\ Time!DaysBefore(13, year) = 365 + (IF year % 4 = 0 THEN 1 ELSE 0)
BY DEF Time!DaysBefore

\* Days from 2000 to the start of a month
TimeMonthStart(month, year) == 365 * (year - 2000) + (year - 1997) \div 4 + Time!DaysBefore(month, year)

\* days_in_month() agrees with the calendar.
LEMMA TimeMonthLength ==
    ASSUME NEW year \in Int, NEW month \in 1..12
    PROVE /\ Time!DaysBefore(month, year) \in Int
          /\ Time!DaysBefore(month + 1, year) = Time!DaysBefore(month, year) + Time!DaysInMonth(month, year)
          /\ Time!DaysInMonth(month, year) \in 28..31
<1>1. month \in {1, 2, 3, 4, 5, 6, 7, 8, 9, 10, 11, 12} OBVIOUS
<1> QED BY <1>1, TimeCalendar DEF Time!DaysInMonth

\* Each fourth year is a day longer.
LEMMA TimeYearLength ==
    ASSUME NEW year \in Int
    PROVE /\ (year - 1997) \div 4 \in Int
          /\ (year + 1 - 1997) \div 4 = (year - 1997) \div 4 + (IF year % 4 = 0 THEN 1 ELSE 0)
OBVIOUS

\* Each month starts when the one before has ended.
LEMMA TimeMonthsFollow ==
    ASSUME NEW year \in Int
    PROVE /\ \A month \in 1..12 : TimeMonthStart(month, year) \in Int
          /\ \A month \in 1..11 : TimeMonthStart(month + 1, year) = TimeMonthStart(month, year) + Time!DaysInMonth(month, year)
          /\ TimeMonthStart(1, year + 1) = TimeMonthStart(12, year) + Time!DaysInMonth(12, year)
<1> DEFINE leaps == (year - 1997) \div 4
<1>1. leaps \in Int BY TimeYearLength
<1>2. (year + 1 - 1997) \div 4 = leaps + (IF year % 4 = 0 THEN 1 ELSE 0) BY TimeYearLength
<1> HIDE DEF leaps
<1>3. ASSUME NEW month \in 1..12 PROVE TimeMonthStart(month, year) \in Int
  <2>1. Time!DaysBefore(month, year) \in Int BY TimeMonthLength
  <2>2. TimeMonthStart(month, year) = 365 * (year - 2000) + leaps + Time!DaysBefore(month, year) BY
      DEF TimeMonthStart, leaps
  <2> QED BY <1>1, <2>1, <2>2
<1>4. ASSUME NEW month \in 1..11
      PROVE TimeMonthStart(month + 1, year) = TimeMonthStart(month, year) + Time!DaysInMonth(month, year)
  <2>1. month \in 1..12 OBVIOUS
  <2>2. /\ Time!DaysBefore(month, year) \in Int /\ Time!DaysInMonth(month, year) \in 28..31
        /\ Time!DaysBefore(month + 1, year) = Time!DaysBefore(month, year) + Time!DaysInMonth(month, year)
    BY <2>1, TimeMonthLength
  <2>3. TimeMonthStart(month, year) = 365 * (year - 2000) + leaps + Time!DaysBefore(month, year) BY
      DEF TimeMonthStart, leaps
  <2>4. TimeMonthStart(month + 1, year) = 365 * (year - 2000) + leaps + Time!DaysBefore(month + 1, year) BY DEF TimeMonthStart, leaps
  <2> QED BY <1>1, <2>2, <2>3, <2>4
<1>5. TimeMonthStart(1, year + 1) = TimeMonthStart(12, year) + 31
  <2>1. Time!DaysBefore(1, year + 1) = 0
      /\ Time!DaysBefore(12, year) = 334 + (IF year % 4 = 0 THEN 1 ELSE 0)
    BY TimeCalendar
  <2>2. TimeMonthStart(12, year) = 365 * (year - 2000) + leaps + Time!DaysBefore(12, year)
    BY DEF TimeMonthStart, leaps
  <2>3. TimeMonthStart(1, year + 1) = 365 * (year + 1 - 2000) + (year + 1 - 1997) \div 4 + Time!DaysBefore(1, year + 1)
    BY DEF TimeMonthStart
  <2> DEFINE extra == IF year % 4 = 0 THEN 1 ELSE 0
  <2>4. extra \in Int OBVIOUS
  <2> HIDE DEF extra
  <2>5. TimeMonthStart(12, year) = 365 * (year - 2000) + leaps + 334 + extra
    BY <1>1, <2>1, <2>2, <2>4 DEF extra
  <2>6. TimeMonthStart(1, year + 1) = 365 * (year + 1 - 2000) + (leaps + extra)
    BY <1>1, <1>2, <2>1, <2>3, <2>4 DEF extra
  <2> QED BY <1>1, <2>4, <2>5, <2>6
<1>6. Time!DaysInMonth(12, year) = 31 BY DEF Time!DaysInMonth
<1> QED BY <1>3, <1>4, <1>5, <1>6

\* inc_month(): the month after a date's
LEMMA TimeNextMonth ==
    ASSUME NEW t \in TimeDate, Time!IsDate(t), NEW r, r = Time!IncMonth(t)
    PROVE /\ r \in TimeDate /\ r.month \in 1..12 /\ r.hour = t.hour /\ r.minute = t.minute
        /\ r.second = t.second
          /\ TimeMonthStart(r.month, r.year) = TimeMonthStart(t.month, t.year) + Time!DaysInMonth(t.month, t.year)
<1>1. t.year \in Int /\ t.month \in 1..12 BY DEF Time!IsDate, TimeDate
<1>2. CASE t.month = 12
  <2>1. r = [t EXCEPT !.month = 1, !.year = t.year + 1] BY <1>2 DEF Time!IncMonth
  <2>2. TimeMonthStart(1, t.year + 1) = TimeMonthStart(12, t.year) + Time!DaysInMonth(12, t.year)
    BY <1>1, TimeMonthsFollow
  <2>3. t.year + 1 \in Int BY <1>1
  <2>4. /\ r \in TimeDate /\ r.month = 1 /\ r.year = t.year + 1
        /\ r.hour = t.hour /\ r.minute = t.minute /\ r.second = t.second
    <3> DEFINE s == [t EXCEPT !.month = 1]
    <3>1. /\ s \in TimeDate /\ s.month = 1 /\ s.year = t.year
          /\ s.hour = t.hour /\ s.minute = t.minute /\ s.second = t.second
      BY DEF TimeDate
    <3>2. r = [s EXCEPT !.year = t.year + 1] BY <2>1 DEF TimeDate
    <3> HIDE DEF s
    <3> QED BY <3>1, <3>2, <2>3 DEF TimeDate
  <2> QED BY <1>2, <2>2, <2>4
<1>3. CASE t.month # 12
  <2>1. r = [t EXCEPT !.month = t.month + 1] BY <1>3 DEF Time!IncMonth
  <2>2. /\ r \in TimeDate /\ r.month = t.month + 1 /\ r.year = t.year
        /\ r.hour = t.hour /\ r.minute = t.minute /\ r.second = t.second
    BY <1>1, <2>1 DEF TimeDate
  <2>3. t.month \in 1..11 BY <1>1, <1>3
  <2>4. TimeMonthStart(t.month + 1, t.year) = TimeMonthStart(t.month, t.year) + Time!DaysInMonth(t.month, t.year)
    BY <1>1, <2>3, TimeMonthsFollow
  <2> QED BY <2>2, <2>3, <2>4
<1> QED BY <1>2, <1>3

\* dec_month(): the month before a date's
LEMMA TimePreviousMonth ==
    ASSUME NEW t \in TimeDate, Time!IsDate(t), NEW r, r = Time!DecMonth(t)
    PROVE /\ r \in TimeDate /\ r.month \in 1..12 /\ r.hour = t.hour /\ r.minute = t.minute
        /\ r.second = t.second
          /\ TimeMonthStart(r.month, r.year) + Time!DaysInMonth(r.month, r.year) = TimeMonthStart(t.month, t.year)
<1>1. t.year \in Int /\ t.month \in 1..12 BY DEF Time!IsDate, TimeDate
<1>2. CASE t.month = 1
  <2>1. r = [t EXCEPT !.month = 12, !.year = t.year - 1] BY <1>2 DEF Time!DecMonth
  <2>2. t.year - 1 \in Int /\ t.year - 1 + 1 = t.year BY <1>1
  <2>3. TimeMonthStart(1, t.year - 1 + 1) = TimeMonthStart(12, t.year - 1) + Time!DaysInMonth(12, t.year - 1)
    BY <2>2, TimeMonthsFollow
  <2>4. /\ r \in TimeDate /\ r.month = 12 /\ r.year = t.year - 1
        /\ r.hour = t.hour /\ r.minute = t.minute /\ r.second = t.second
    <3> DEFINE s == [t EXCEPT !.month = 12]
    <3>1. /\ s \in TimeDate /\ s.month = 12 /\ s.year = t.year
          /\ s.hour = t.hour /\ s.minute = t.minute /\ s.second = t.second
      BY DEF TimeDate
    <3>2. r = [s EXCEPT !.year = t.year - 1] BY <2>1 DEF TimeDate
    <3> HIDE DEF s
    <3> QED BY <3>1, <3>2, <2>2 DEF TimeDate
  <2> QED BY <1>2, <2>2, <2>3, <2>4
<1>3. CASE t.month # 1
  <2>1. r = [t EXCEPT !.month = t.month - 1] BY <1>3 DEF Time!DecMonth
  <2>2. /\ r \in TimeDate /\ r.month = t.month - 1 /\ r.year = t.year
        /\ r.hour = t.hour /\ r.minute = t.minute /\ r.second = t.second
    BY <1>1, <2>1 DEF TimeDate
  <2>3. t.month - 1 \in 1..11 /\ t.month - 1 + 1 = t.month BY <1>1, <1>3
  <2>4. TimeMonthStart(t.month, t.year) = TimeMonthStart(t.month - 1, t.year) + Time!DaysInMonth(t.month - 1, t.year)
    BY <1>1, <2>3, TimeMonthsFollow
  <2> QED BY <2>2, <2>3, <2>4
<1> QED BY <1>2, <1>3

\* Another day of the same month
LEMMA TimeDateWithDay ==
    ASSUME NEW t \in TimeDate, NEW n \in Int, NEW r, r = [t EXCEPT !.day = n]
    PROVE /\ r \in TimeDate /\ r.year = t.year /\ r.month = t.month /\ r.day = n
          /\ r.hour = t.hour /\ r.minute = t.minute /\ r.second = t.second
BY DEF TimeDate

\* Dates and their numbers, by months
LEMMA TimeDatesAre ==
    ASSUME NEW t \in TimeDate
    PROVE /\ Time!IsDate(t) <=> t.month \in 1..12 /\ t.day \in 1..Time!DaysInMonth(t.month, t.year)
          /\ Time!DayNumber(t) = TimeMonthStart(t.month, t.year) + t.day
<1>1. t.year \in Int BY DEF TimeDate
<1>2. ASSUME t.month \in 1..12
      PROVE Time!DaysBefore(t.month + 1, t.year) - Time!DaysBefore(t.month, t.year) = Time!DaysInMonth(t.month, t.year)
  <2>1. /\ Time!DaysBefore(t.month, t.year) \in Int /\ Time!DaysInMonth(t.month, t.year) \in 28..31
        /\ Time!DaysBefore(t.month + 1, t.year) = Time!DaysBefore(t.month, t.year) + Time!DaysInMonth(t.month, t.year)
    BY <1>1, <1>2, TimeMonthLength
  <2> QED BY <2>1
<1>3. Time!IsDate(t) <=> t.month \in 1..12 /\ t.day \in 1..Time!DaysInMonth(t.month, t.year)
  BY <1>2 DEF Time!IsDate
<1> QED BY <1>3 DEF Time!DayNumber, TimeMonthStart

\* Days are counted in integers.
LEMMA TimeNumberOfDay == ASSUME NEW t \in TimeDate, Time!IsDate(t) PROVE Time!DayNumber(t) \in Int
<1>1. t.year \in Int /\ t.day \in Int /\ t.month \in 1..12 BY DEF TimeDate, Time!IsDate
<1>2. TimeMonthStart(t.month, t.year) \in Int BY <1>1, TimeMonthsFollow
<1> QED BY <1>1, <1>2, TimeDatesAre

\* add_days(): across the ends of months and years
LEMMA TimeAddDaysIsRight ==
    ASSUME NEW t \in TimeDate, Time!IsDate(t), NEW days \in {-1, 0, 1}, NEW r, r = Time!AddDays(days, t)
    PROVE /\ r \in TimeDate /\ Time!IsDate(r) /\ Time!DayNumber(r) = Time!DayNumber(t) + days
          /\ r.hour = t.hour /\ r.minute = t.minute /\ r.second = t.second
<1> DEFINE dy == t.day + days
           len == Time!DaysInMonth(t.month, t.year)
           prev == Time!DecMonth(t)
           next == Time!IncMonth(t)
           last == Time!DaysInMonth(prev.month, prev.year)
<1>1. t.year \in Int /\ t.day \in Int BY DEF TimeDate
<1>2. t.month \in 1..12 /\ t.day \in 1..len /\ Time!DayNumber(t) = TimeMonthStart(t.month, t.year) + t.day
  BY TimeDatesAre
<1>3. len \in 28..31 /\ TimeMonthStart(t.month, t.year) \in Int
  BY <1>1, <1>2, TimeMonthLength, TimeMonthsFollow
<1> HIDE DEF len, prev, next, last
<1>4. CASE dy < 1
  <2>1. prev \in TimeDate /\ prev.month \in 1..12 /\ prev.hour = t.hour /\ prev.minute = t.minute
      /\ prev.second = t.second
        /\ TimeMonthStart(prev.month, prev.year) + last = TimeMonthStart(t.month, t.year)
    BY TimePreviousMonth DEF prev, last
  <2>2. prev.year \in Int BY <2>1 DEF TimeDate
  <2>3. last \in 28..31 /\ TimeMonthStart(prev.month, prev.year) \in Int
    BY <2>1, <2>2, TimeMonthLength, TimeMonthsFollow DEF last
  <2>4. dy = 0 /\ days = -1 /\ t.day = 1 BY <1>1, <1>2, <1>3, <1>4
  <2>5. r = [prev EXCEPT !.day = last]
    <3>1. r = [prev EXCEPT !.day = dy + last] BY <1>4 DEF Time!AddDays, prev, last
    <3>2. dy + last = last BY <2>3, <2>4
    <3> QED BY <3>1, <3>2
  <2>6. /\ r \in TimeDate /\ r.year = prev.year /\ r.month = prev.month /\ r.day = last
        /\ r.hour = prev.hour /\ r.minute = prev.minute /\ r.second = prev.second
    BY <2>1, <2>3, <2>5, TimeDateWithDay
  <2>7. Time!IsDate(r) /\ Time!DayNumber(r) = TimeMonthStart(prev.month, prev.year) + last
    <3>1. r.month \in 1..12 /\ r.day \in 1..Time!DaysInMonth(r.month, r.year) BY <2>1, <2>3, <2>6 DEF last
    <3> QED BY <2>6, <3>1, TimeDatesAre
  <2>8. Time!DayNumber(r) = Time!DayNumber(t) + days BY <1>2, <1>3, <2>1, <2>4, <2>7
  <2> QED BY <2>1, <2>6, <2>7, <2>8
<1>5. CASE dy > len
  <2>1. next \in TimeDate /\ next.month \in 1..12 /\ next.hour = t.hour /\ next.minute = t.minute
      /\ next.second = t.second
        /\ TimeMonthStart(next.month, next.year) = TimeMonthStart(t.month, t.year) + len
    BY TimeNextMonth DEF next, len
  <2>2. next.year \in Int BY <2>1 DEF TimeDate
  <2>3. Time!DaysInMonth(next.month, next.year) \in 28..31
    BY <2>1, <2>2, TimeMonthLength
  <2>4. dy - len = 1 /\ days = 1 /\ t.day = len /\ ~(dy < 1) BY <1>1, <1>2, <1>3, <1>5
  <2>5. r = [next EXCEPT !.day = 1]
    <3>1. r = [next EXCEPT !.day = dy - len] BY <1>5, <2>4 DEF Time!AddDays, next, len
    <3> QED BY <3>1, <2>4
  <2>6. /\ r \in TimeDate /\ r.year = next.year /\ r.month = next.month /\ r.day = 1
        /\ r.hour = next.hour /\ r.minute = next.minute /\ r.second = next.second
    BY <2>1, <2>5 DEF TimeDate
  <2>7. Time!IsDate(r) /\ Time!DayNumber(r) = TimeMonthStart(next.month, next.year) + 1
    <3>1. r.month \in 1..12 /\ r.day \in 1..Time!DaysInMonth(r.month, r.year) BY <2>1, <2>3, <2>6
    <3> QED BY <2>6, <3>1, TimeDatesAre
  <2>8. Time!DayNumber(r) = Time!DayNumber(t) + days BY <1>2, <1>3, <2>1, <2>4, <2>7
  <2> QED BY <2>1, <2>6, <2>7, <2>8
<1>6. CASE ~(dy < 1) /\ ~(dy > len)
  <2>1. r = [t EXCEPT !.day = dy] /\ dy \in Int BY <1>1, <1>6 DEF Time!AddDays, len
  <2>2. /\ r \in TimeDate /\ r.year = t.year /\ r.month = t.month /\ r.day = dy
        /\ r.hour = t.hour /\ r.minute = t.minute /\ r.second = t.second
    BY <2>1, TimeDateWithDay
  <2>3. Time!IsDate(r) /\ Time!DayNumber(r) = TimeMonthStart(t.month, t.year) + dy
    <3>1. r.month \in 1..12 /\ r.day \in 1..Time!DaysInMonth(r.month, r.year) BY <1>2, <1>3, <1>6, <2>1,
        <2>2 DEF len
    <3> QED BY <2>2, <3>1, TimeDatesAre
  <2> QED BY <1>1, <1>2, <1>3, <2>2, <2>3
<1> QED BY <1>1, <1>3, <1>4, <1>5, <1>6

\* add_second(Time): the time of day that is a second later, and a day to carry at midnight
LEMMA TimeSecondsAreAdded ==
    ASSUME NEW t \in TimeDate, TimeOnClock(t), NEW r, r = Time!SecondAdded(t)
    PROVE /\ r \in TimeDate /\ TimeOnClock(r) /\ r.year = t.year /\ r.month = t.month /\ r.day = t.day
          /\ Time!TimeOfDay(r) = Time!TimeOfDay(t) + 1 - (IF Time!NewDay(t) THEN 86400 ELSE 0)
<1>1. t.hour \in 0..23 /\ t.minute \in 0..59 /\ t.second \in 0..59 BY DEF TimeOnClock
<1>2. CASE t.second < 59
  <2>1. r = [t EXCEPT !.second = t.second + 1] BY <1>2 DEF Time!SecondAdded
  <2>2. /\ r \in TimeDate /\ r.year = t.year /\ r.month = t.month /\ r.day = t.day
        /\ r.hour = t.hour /\ r.minute = t.minute /\ r.second = t.second + 1
    BY <2>1, <1>1 DEF TimeDate
  <2>3. ~Time!NewDay(t) BY <1>2 DEF Time!NewDay
  <2> DEFINE h == t.hour  m == t.minute  s == t.second
  <2>7. h \in Int /\ m \in Int /\ s \in Int BY <1>1
  <2>8. Time!TimeOfDay(t) = 3600 * h + 60 * m + s BY DEF Time!TimeOfDay
  <2>9. Time!TimeOfDay(r) = 3600 * h + 60 * m + (s + 1) BY <2>2 DEF Time!TimeOfDay
  <2> HIDE DEF h, m, s
  <2>4. Time!TimeOfDay(r) = Time!TimeOfDay(t) + 1 BY <2>7, <2>8, <2>9
  <2>5. Time!TimeOfDay(t) \in Int BY <2>7, <2>8
  <2>6. TimeOnClock(r) BY <1>1, <1>2, <2>2 DEF TimeOnClock
  <2> QED BY <2>2, <2>3, <2>4, <2>5, <2>6
<1>3. CASE t.second = 59
  <2> DEFINE s == [t EXCEPT !.second = 0]
  <2>1. /\ s \in TimeDate /\ s.year = t.year /\ s.month = t.month /\ s.day = t.day
        /\ s.hour = t.hour /\ s.minute = t.minute /\ s.second = 0
    BY DEF TimeDate
  <2>2. CASE t.minute < 59
    <3>1. r = [t EXCEPT !.second = 0, !.minute = t.minute + 1] BY <1>3, <2>2 DEF Time!SecondAdded
    <3>2. r = [s EXCEPT !.minute = t.minute + 1] BY <3>1 DEF TimeDate
    <3> HIDE DEF s
    <3>3. /\ r \in TimeDate /\ r.year = t.year /\ r.month = t.month /\ r.day = t.day
          /\ r.hour = t.hour /\ r.minute = t.minute + 1 /\ r.second = 0
      BY <2>1, <3>2, <1>1 DEF TimeDate
    <3> QED BY <1>1, <1>3, <2>2, <3>3 DEF TimeOnClock, Time!TimeOfDay, Time!NewDay
  <2>3. CASE t.minute = 59
    <3> DEFINE u == [s EXCEPT !.minute = 0]
               h == (t.hour + 1) % 24
    <3>1. r = [t EXCEPT !.second = 0, !.minute = 0, !.hour = h] BY <1>3, <2>3 DEF Time!SecondAdded
    <3>2. r = [u EXCEPT !.hour = h] BY <3>1 DEF TimeDate
    <3> HIDE DEF s
    <3>3. /\ u \in TimeDate /\ u.year = t.year /\ u.month = t.month /\ u.day = t.day
          /\ u.hour = t.hour /\ u.minute = 0 /\ u.second = 0
      BY <2>1 DEF TimeDate
    <3> HIDE DEF u
    <3>4. h \in 0..23 /\ (t.hour = 23 => h = 0) /\ (t.hour # 23 => h = t.hour + 1) BY <1>1
    <3> HIDE DEF h
    <3>5. /\ r \in TimeDate /\ r.year = t.year /\ r.month = t.month /\ r.day = t.day
          /\ r.hour = h /\ r.minute = 0 /\ r.second = 0
      BY <3>2, <3>3, <3>4 DEF TimeDate
    <3> QED BY <1>1, <1>3, <2>3, <3>4, <3>5 DEF TimeOnClock, Time!TimeOfDay, Time!NewDay
  <2> QED BY <1>1, <2>2, <2>3
<1> QED BY <1>1, <1>2, <1>3

\* The clock starts with the system.
LEMMA TimeInitIInv == ASSUME TimeAssumed PROVE Time!Init => TimeIInv
<1> SUFFICES ASSUME Time!Init PROVE TimeIInv
  OBVIOUS
<1>1. runTime \in TimeDate /\ TimeOnClock(runTime)
  <2>1. runTime \in StartTimes BY DEF Time!Init
  <2>2. \A t \in StartTimes : t \in TimeDate /\ TimeOnClock(t) BY DEF TimeAssumed
  <2> QED BY <2>1, <2>2
<1>2. runTime.day \in Int /\ runTime.hour \in Int /\ runTime.minute \in Int /\ runTime.second \in Int
  BY <1>1 DEF TimeDate
<1>3. upTime = 86400 * runTime.day + Time!TimeOfDay(runTime) /\ upTime \in Int
  BY <1>2 DEF Time!Init, Time!TimeOfDay
<1>4. dateTime \in TimeDate /\ TimeOnClock(dateTime)
  BY DEF Time!Init, Time!Zero, TimeDate, TimeOnClock
<1>5. dst = 0 /\ hasDateTime = FALSE /\ kept = 0 BY DEF Time!Init
<1>6. hasDateTime \in BOOLEAN BY Zenon, <1>5
<1>7. kept \in Int /\ dst \in 0..2 BY <1>5
<1> QED BY <1>1, <1>3, <1>4, <1>5, <1>6, <1>7 DEF TimeIInv

\* tick(): both times advance by a second.
LEMMA TimeTickStep == ASSUME TimeIInv, Time!Tick PROVE TimeIInv'
<1>1. /\ dst' = dst /\ hasDateTime' = hasDateTime /\ upTime' = upTime + 1
      /\ dst \in 0..2 /\ hasDateTime \in BOOLEAN /\ upTime \in Int /\ kept \in Int
  BY DEF Time!Tick, TimeIInv
<1>2. runTime' \in TimeDate /\ TimeOnClock(runTime)'
    /\ 86400 * runTime'.day + Time!TimeOfDay(runTime)' = upTime'
  <2> DEFINE s == Time!SecondAdded(runTime)
  <2>1. /\ s \in TimeDate /\ TimeOnClock(s) /\ s.day = runTime.day
        /\ Time!TimeOfDay(s) = Time!TimeOfDay(runTime) + 1 - (IF Time!NewDay(runTime) THEN 86400 ELSE 0)
    BY TimeSecondsAreAdded DEF TimeIInv
  <2> HIDE DEF s
  <2>2. runTime.day \in Int /\ s.hour \in Int /\ s.minute \in Int /\ s.second \in Int
      /\ Time!TimeOfDay(runTime) \in Int
    BY <2>1 DEF TimeIInv, TimeDate, Time!TimeOfDay
  <2>3. 86400 * runTime.day + Time!TimeOfDay(runTime) = upTime BY DEF TimeIInv
  <2>4. CASE Time!NewDay(runTime)
    <3>1. runTime' = [s EXCEPT !.day = runTime.day + 1] BY <2>4 DEF Time!Tick, Time!IncRunTime, s
    <3>2. /\ runTime' \in TimeDate /\ runTime'.day = runTime.day + 1
          /\ runTime'.hour = s.hour /\ runTime'.minute = s.minute /\ runTime'.second = s.second
      BY <2>1, <2>2, <3>1 DEF TimeDate
    <3>3. Time!TimeOfDay(runTime)' = Time!TimeOfDay(s) /\ TimeOnClock(runTime)'
      BY <2>1, <3>2 DEF Time!TimeOfDay, TimeOnClock
    <3>4. Time!TimeOfDay(s) = Time!TimeOfDay(runTime) + 1 - 86400 BY <2>1, <2>4
    <3> QED BY <1>1, <2>2, <2>3, <3>2, <3>3, <3>4
  <2>5. CASE ~Time!NewDay(runTime)
    <3>1. runTime' = s BY <2>5 DEF Time!Tick, Time!IncRunTime, s
    <3>2. Time!TimeOfDay(runTime)' = Time!TimeOfDay(s) /\ TimeOnClock(runTime)'
      BY <2>1, <3>1 DEF Time!TimeOfDay, TimeOnClock
    <3>3. Time!TimeOfDay(s) = Time!TimeOfDay(runTime) + 1 BY <2>1, <2>2, <2>5
    <3> QED BY <1>1, <2>1, <2>2, <2>3, <3>1, <3>2, <3>3
  <2> QED BY <2>4, <2>5
<1>3. CASE ~hasDateTime
  <2>1. dateTime' = dateTime /\ kept' = kept BY <1>3 DEF Time!Tick
  <2>2. dateTime' \in TimeDate /\ TimeOnClock(dateTime)' BY <2>1 DEF TimeIInv, TimeOnClock
  <2> QED BY <1>1, <1>2, <1>3, <2>1, <2>2 DEF TimeIInv
<1>4. CASE hasDateTime
  <2> DEFINE s == Time!SecondAdded(dateTime)
  <2>1. /\ s \in TimeDate /\ TimeOnClock(s) /\ s.day = dateTime.day /\ s.month = dateTime.month
      /\ s.year = dateTime.year
        /\ Time!TimeOfDay(s) = Time!TimeOfDay(dateTime) + 1 - (IF Time!NewDay(dateTime) THEN 86400 ELSE 0)
    BY TimeSecondsAreAdded DEF TimeIInv
  <2>2. dateTime' = IF Time!NewDay(dateTime) THEN Time!AddDays(1, s) ELSE s
    BY <1>4 DEF Time!Tick, Time!AddSecond
  <2> HIDE DEF s
  <2>3. kept' = kept + 1 /\ Time!IsDate(dateTime)
      /\ 86400 * Time!DayNumber(dateTime) + Time!TimeOfDay(dateTime) = kept /\ dateTime \in TimeDate
    BY <1>4 DEF Time!Tick, TimeIInv, Time!SecondsOf
  <2>4. Time!IsDate(s) /\ Time!DayNumber(s) = Time!DayNumber(dateTime)
    BY <2>1, <2>3 DEF Time!IsDate, Time!DayNumber
  <2>5. Time!DayNumber(dateTime) \in Int BY <2>3, TimeNumberOfDay
  <2>6. Time!TimeOfDay(dateTime) \in Int /\ Time!TimeOfDay(s) \in Int BY <2>1, <2>3 DEF Time!TimeOfDay,
      TimeDate
  <2>7. CASE Time!NewDay(dateTime)
    <3> DEFINE r == Time!AddDays(1, s)
    <3>1. /\ r \in TimeDate /\ Time!IsDate(r) /\ Time!DayNumber(r) = Time!DayNumber(s) + 1
          /\ r.hour = s.hour /\ r.minute = s.minute /\ r.second = s.second
      BY <2>1, <2>4, TimeAddDaysIsRight
    <3>2. dateTime' = r BY <2>2, <2>7
    <3> HIDE DEF r
    <3>3. Time!TimeOfDay(r) = Time!TimeOfDay(s) /\ TimeOnClock(r) BY <3>1, <2>1 DEF Time!TimeOfDay,
        TimeOnClock
    <3>4. Time!TimeOfDay(s) = Time!TimeOfDay(dateTime) + 1 - 86400 BY <2>1, <2>7
    <3>5. Time!SecondsOf(r) = kept' /\ kept' \in Int
      BY <1>1, <2>3, <2>4, <2>5, <2>6, <3>1, <3>3, <3>4 DEF Time!SecondsOf
    <3>6. Time!IsDate(dateTime)' /\ Time!SecondsOf(dateTime)' = kept' /\ TimeOnClock(dateTime)'
      BY <3>1, <3>2, <3>3, <3>5 DEF Time!IsDate, Time!SecondsOf, Time!DayNumber, Time!TimeOfDay, TimeOnClock
    <3> QED BY <1>1, <1>2, <1>4, <3>1, <3>2, <3>5, <3>6 DEF TimeIInv
  <2>8. CASE ~Time!NewDay(dateTime)
    <3>1. dateTime' = s BY <2>2, <2>8
    <3>2. Time!TimeOfDay(s) = Time!TimeOfDay(dateTime) + 1 BY <2>1, <2>6, <2>8
    <3>3. Time!SecondsOf(s) = kept' /\ kept' \in Int
      BY <1>1, <2>3, <2>4, <2>5, <2>6, <3>2 DEF Time!SecondsOf
    <3>4. Time!IsDate(dateTime)' /\ Time!SecondsOf(dateTime)' = kept' /\ TimeOnClock(dateTime)'
      BY <2>1, <2>4, <3>1, <3>3 DEF Time!IsDate, Time!SecondsOf, Time!DayNumber, Time!TimeOfDay, TimeOnClock
    <3> QED BY <1>1, <1>2, <1>4, <2>1, <3>1, <3>3, <3>4 DEF TimeIInv
  <2> QED BY <2>7, <2>8
<1> QED BY <1>3, <1>4

\* add_hours() carries one day at most.
LEMMA TimeCarriedDays ==
    ASSUME NEW hours \in Int
    PROVE Time!DaysCarried(hours, dateTime) \in {-1, 0, 1}
BY DEF Time!DaysCarried

\* The clock is set to a date that exists, whatever day add_hours() carries.
LEMMA TimeNetworkTimeStep ==
    ASSUME TimeAssumed, TimeIInv, NEW utc \in NetworkTimes, NEW shift \in Shifts,
        Time!NetworkTime(utc, shift)
    PROVE TimeIInv'
<1> DEFINE r == Time!AddDays(Time!DaysCarried(2 + shift, dateTime), utc)
<1>1. utc \in TimeDate /\ Time!IsDate(utc) /\ TimeOnClock(utc) /\ shift \in 0..2 BY DEF TimeAssumed,
    TimeValidDate
<1>2. Time!DaysCarried(2 + shift, dateTime) \in {-1, 0, 1} BY <1>1, TimeCarriedDays
<1>3. r \in TimeDate /\ Time!IsDate(r) /\ r.hour = utc.hour /\ r.minute = utc.minute
    /\ r.second = utc.second
  BY <1>1, <1>2, TimeAddDaysIsRight
<1>4. dateTime' = r /\ kept' = Time!SecondsOf(r) /\ dst' = shift /\ hasDateTime' = TRUE
    /\ UNCHANGED <<runTime, upTime>>
  BY DEF Time!NetworkTime, Time!AddHours
<1> HIDE DEF r
<1>5. TimeOnClock(r) BY <1>1, <1>3 DEF TimeOnClock
<1>6. Time!SecondsOf(r) \in Int
  <2>1. Time!DayNumber(r) \in Int BY <1>3, TimeNumberOfDay
  <2> QED BY <1>3, <2>1 DEF Time!SecondsOf, Time!TimeOfDay, TimeDate
<1>7. Time!IsDate(dateTime)' /\ Time!SecondsOf(dateTime)' = kept' /\ TimeOnClock(dateTime)'
    /\ dateTime' \in TimeDate
  BY <1>3, <1>4, <1>5 DEF Time!IsDate, Time!SecondsOf, Time!DayNumber, Time!TimeOfDay, TimeOnClock
<1>8. /\ upTime' \in Int /\ runTime' \in TimeDate /\ TimeOnClock(runTime)'
      /\ 86400 * runTime'.day + Time!TimeOfDay(runTime)' = upTime'
  BY <1>4 DEF TimeIInv, TimeOnClock, Time!TimeOfDay
<1> QED BY <1>1, <1>4, <1>6, <1>7, <1>8 DEF TimeIInv

\* A new shift advances the clock by the difference.
LEMMA TimeChangeDstStep ==
    ASSUME TimeAssumed, TimeIInv, NEW shift \in Shifts, Time!ChangeDst(shift)
    PROVE TimeIInv'
<1> DEFINE hours == shift - dst
           t == [dateTime EXCEPT !.hour = Time!HoursAdded(hours, dateTime)]
           carried == Time!DaysCarried(hours, dateTime)
           r == Time!AddDays(carried, t)
<1>1. shift \in 0..2 /\ hours \in -2..2 BY DEF TimeAssumed, TimeIInv
<1>2. /\ dateTime.hour \in 0..23 /\ dateTime \in TimeDate /\ Time!IsDate(dateTime) /\ TimeOnClock(dateTime)
      /\ 86400 * Time!DayNumber(dateTime) + Time!TimeOfDay(dateTime) = kept /\ kept \in Int
  BY DEF Time!ChangeDst, TimeIInv, TimeOnClock, Time!SecondsOf
<1>3. dateTime' = r /\ kept' = kept + 3600 * hours /\ dst' = shift /\ hasDateTime' = hasDateTime
    /\ UNCHANGED <<runTime, upTime>>
  BY DEF Time!ChangeDst, Time!AddHoursToClock
<1> HIDE DEF hours
<1>4. Time!HoursAdded(hours, dateTime) \in 0..23
    /\ Time!HoursAdded(hours, dateTime) + 24 * carried = dateTime.hour + hours
  BY <1>1, <1>2 DEF Time!HoursAdded, Time!DaysCarried
<1>5. carried \in {-1, 0, 1} BY <1>1, TimeCarriedDays
<1>6. /\ t \in TimeDate /\ t.year = dateTime.year /\ t.month = dateTime.month /\ t.day = dateTime.day
      /\ t.hour = Time!HoursAdded(hours, dateTime) /\ t.minute = dateTime.minute
            /\ t.second = dateTime.second
  BY <1>2, <1>4 DEF TimeDate
<1> HIDE DEF t, carried
<1>7. Time!IsDate(t) /\ Time!DayNumber(t) = Time!DayNumber(dateTime) BY <1>2, <1>6 DEF Time!IsDate,
    Time!DayNumber
<1>8. /\ r \in TimeDate /\ Time!IsDate(r) /\ Time!DayNumber(r) = Time!DayNumber(t) + carried
      /\ r.hour = t.hour /\ r.minute = t.minute /\ r.second = t.second
  BY <1>5, <1>6, <1>7, TimeAddDaysIsRight
<1> HIDE DEF r
<1>9. TimeOnClock(r) BY <1>2, <1>4, <1>6, <1>8 DEF TimeOnClock
<1>10. Time!DayNumber(dateTime) \in Int BY <1>2, TimeNumberOfDay
<1>11. dateTime.minute \in Int /\ dateTime.second \in Int BY <1>2 DEF TimeDate
<1>12. Time!TimeOfDay(r) + 86400 * carried = Time!TimeOfDay(dateTime) + 3600 * hours
    /\ Time!TimeOfDay(r) \in Int /\ Time!TimeOfDay(dateTime) \in Int
  <2> DEFINE h == Time!HoursAdded(hours, dateTime)
  <2>1. r.hour = h /\ r.minute = dateTime.minute /\ r.second = dateTime.second BY <1>6, <1>8
  <2>2. h \in 0..23 /\ h + 24 * carried = dateTime.hour + hours BY <1>4
  <2> HIDE DEF h
  <2>6. hours \in Int /\ carried \in Int /\ dateTime.hour \in Int /\ h \in Int BY <1>1, <1>2, <1>5, <2>2
  <2>3. 3600 * h + 86400 * carried = 3600 * dateTime.hour + 3600 * hours BY <2>6, <1>1, <1>2, <1>5, <2>2
  <2>4. Time!TimeOfDay(r) = 3600 * h + 60 * dateTime.minute + dateTime.second BY <2>1 DEF Time!TimeOfDay
  <2>5. Time!TimeOfDay(dateTime) = 3600 * dateTime.hour + 60 * dateTime.minute + dateTime.second BY
      DEF Time!TimeOfDay
  <2> QED BY <1>11, <2>6, <2>3, <2>4, <2>5
<1>13. Time!SecondsOf(r) = kept' /\ kept' \in Int
  BY <1>1, <1>2, <1>3, <1>5, <1>7, <1>8, <1>10, <1>12 DEF Time!SecondsOf
<1>14. Time!IsDate(dateTime)' /\ Time!SecondsOf(dateTime)' = kept' /\ TimeOnClock(dateTime)'
    /\ dateTime' \in TimeDate
  BY <1>3, <1>8, <1>9, <1>13 DEF Time!IsDate, Time!SecondsOf, Time!DayNumber, Time!TimeOfDay, TimeOnClock
<1>15. /\ upTime' \in Int /\ runTime' \in TimeDate /\ TimeOnClock(runTime)' /\ hasDateTime' \in BOOLEAN
       /\ 86400 * runTime'.day + Time!TimeOfDay(runTime)' = upTime'
  BY <1>3 DEF TimeIInv, TimeOnClock, Time!TimeOfDay
<1> QED BY <1>1, <1>3, <1>13, <1>14, <1>15 DEF TimeIInv

\* Nothing changes.
LEMMA TimeRestStep == ASSUME TimeIInv, UNCHANGED Time!vars PROVE TimeIInv'
BY DEF TimeIInv, Time!vars, TimeOnClock, Time!TimeOfDay, Time!IsDate, Time!SecondsOf, Time!DayNumber

\* The invariant of the clock
THEOREM TimeInductive == ASSUME TimeAssumed PROVE Time!Spec => []TimeIInv
<1>1. ASSUME TimeIInv, [Time!Next]_Time!vars PROVE TimeIInv'
  BY <1>1, TimeRestStep, TimeTickStep, TimeNetworkTimeStep, TimeChangeDstStep DEF Time!Next
<1> QED BY TimeInitIInv, <1>1, PTL DEF Time!Spec

\* Both times stay what a calendar counts from what they were set to, for any times and
\* shifts that the network sends and however long the system runs.
THEOREM TimeIsKept == ASSUME TimeAssumed PROVE Time!Spec => []KeepsTime
<1>1. TimeIInv => KeepsTime BY DEF TimeIInv, KeepsTime, Time!KeepsTime
<1> QED BY TimeInductive, <1>1, PTL

-----------------------------------------------------------------------------
(* All together: a step of MCStorage is one of one part, the others rest.  *)

\* What goes on is a behaviour of each part.
LEMMA PartsBehave == FairAll => Spec /\ Card!Spec /\ Chip!Spec /\ Time!Spec
<1>1. AllInit => Init /\ Card!Init /\ Chip!Init /\ Time!Init
  BY DEF AllInit
<1>2. [AllNext]_allVars => [Next]_vars
  BY DEF AllNext, allVars, SettingsStep, CardStep, ChipStep, TimeStep, CallStep,
         InSettings, InCard, InChip, InTime, InCall
<1>3. [AllNext]_allVars => [Card!Next]_Card!vars
  BY DEF AllNext, allVars, SettingsStep, CardStep, ChipStep, TimeStep, CallStep,
         InSettings, InCard, InChip, InTime, InCall,
         cardV, Card!vars, Card!cardV, Card!watchV, Card!cmdV, Card!dataV, Card!opV, Card!taskV
<1>4. [AllNext]_allVars => [Chip!Next]_Chip!vars
  BY DEF AllNext, allVars, SettingsStep, CardStep, ChipStep, TimeStep, CallStep,
         InSettings, InCard, InChip, InTime, InCall, chipV, Chip!vars
<1>5. [AllNext]_allVars => [Time!Next]_Time!vars
  BY DEF AllNext, allVars, SettingsStep, CardStep, ChipStep, TimeStep, CallStep,
         InSettings, InCard, InChip, InTime, InCall, timeV, Time!vars
<1> QED BY <1>1, <1>2, <1>3, <1>4, <1>5, PTL DEF FairAll, Spec, Card!Spec, Chip!Spec, Time!Spec

\* In whatever part something goes on, all of what is kept is kept as it should be: the
\* settings, what is read from and written to the card and the flash, and the time.
THEOREM AllIsKept ==
    ASSUME CardAssumed, ChipAssumed, TimeAssumed
    PROVE FairAll => [](SettingsAreKept /\ NothingIsLeft /\ OperationIsWhole /\ KeepsTime) /\ BlockIsOwn
<1>1. Spec => []SettingsAreKept BY Kept
<1>2. Card!Spec => []NothingIsLeft BY NothingLeft
<1>3. Card!Spec => BlockIsOwn BY OwnBlocks
<1>4. Chip!Spec => []OperationIsWhole BY OperationWhole
<1>5. Time!Spec => []KeepsTime BY TimeIsKept
<1> QED BY PartsBehave, <1>1, <1>2, <1>3, <1>4, <1>5, PTL

=============================================================================
