------------------------------- MODULE SdCard -------------------------------
(***************************************************************************)
(* The SD card: its driver (SDCard/driver), which finds, initializes and   *)
(* watches the card and reads and writes blocks in interrupts, the disk    *)
(* driver of FatFS that waits for it (ff_sd_driver.cpp), and the task that *)
(* mounts and unmounts the file system (sd_fs.cpp).                        *)
(*                                                                         *)
(* Interrupts of the card and of the timer are of higher priority than     *)
(* tasks; each handler is one step.  The card may be pulled at any moment, *)
(* commands, responses and data may be damaged.                            *)
(***************************************************************************)
EXTENDS Naturals, Sequences

CONSTANTS
    MaxBlocks,          \* blocks of one operation
    DebounceSamples,    \* INSERTION_DEBOUNCE_SAMPLES, REMOVAL_DEBOUNCE_SAMPLES
    MaxPolls,           \* questions until a block is written: MAX_ACMD41_ATTEMPTS, READ_WRITE_TIME_ms
    Coincidences        \* see Begin and BlockArrives

VARIABLES
    card, sentBlock,                \* state of the card, the block it sends
    present, ongoing,               \* card_present, op_ongoing
    timer, samples,                 \* what TIMER will do, debounce_samples
    cmd, stage,                     \* command in progress and what it is for; step of init_card()
    attempts, stateAttempts, polls, \* left for the command, for get_state(), for the card to get ready
    data,                           \* data path: "none", "rx", "tx"
    sendingCmd, waitingData, dataError,     \* of sd_read.cpp
    op, target, done, dataAttempts, \* of sd_read_write.cpp
    moved,                          \* block that was moved whole last, to the buffer or to the card
    rwEvents, caller,               \* of ff_sd_driver.cpp, and who waits there
    mountEvents, mounter, mounted   \* of sd_fs.cpp

cardV  == <<card, sentBlock>>
watchV == <<present, ongoing, timer, samples, mountEvents, rwEvents>>
cmdV   == <<cmd, stage, attempts, stateAttempts, polls>>
dataV  == <<data, sendingCmd, waitingData, dataError>>
opV    == <<op, target, done, dataAttempts>>
taskV  == <<caller, mounter, mounted>>
vars == <<cardV, watchV, cmdV, dataV, opV, moved, taskV>>

Attempts == 2      \* ATTEMPTS, MAX_ATTEMPTS

\* Commands of init_card() after CMD0
InitCommands == <<"cmd8", "acmd41", "cmd2", "cmd3", "cmd9", "cmd7", "acmd42", "acmd6">>

IsCardInserted == card # "absent"

\* init_driver(), and start_driver() of an empty socket
Init ==
    /\ card \in {"absent", "fresh"} /\ sentBlock = 0
    /\ present = FALSE /\ ongoing = FALSE
    /\ timer = "wait_insertion" /\ samples = 0
    /\ cmd = "none" /\ stage = 0 /\ attempts = 0 /\ stateAttempts = 0 /\ polls = 0
    /\ data = "none" /\ sendingCmd = FALSE /\ waitingData = FALSE /\ dataError = "none"
    /\ op = "read" /\ target = 0 /\ done = 0 /\ dataAttempts = 0 /\ moved = 0
    /\ rwEvents = {} /\ caller = "nobody"
    /\ mountEvents = {} /\ mounter = "wait" /\ mounted = FALSE

-----------------------------------------------------------------------------
(* The card *)

Insert == card = "absent" /\ card' = "fresh" /\ UNCHANGED <<sentBlock, watchV, cmdV, dataV, opV, moved, taskV>>
Pull   == card # "absent" /\ card' = "absent" /\ sentBlock' = 0 /\ UNCHANGED <<watchV, cmdV, dataV, opV, moved, taskV>>

\* A block is programmed, or sent while nobody receives
CardReady ==
    /\ card = "prg" \/ (card = "data" /\ data # "rx")
    /\ card' = "tran" /\ sentBlock' = 0
    /\ UNCHANGED <<watchV, cmdV, dataV, opV, moved, taskV>>

-----------------------------------------------------------------------------
(* Detection: card_detection.cpp, sd_ctrl.cpp *)

WaitInsertion ==
    IF IsCardInserted THEN timer' = "debounce_insertion" /\ samples' = DebounceSamples
                      ELSE timer' = "wait_insertion" /\ UNCHANGED samples
WaitRemoval ==
    IF IsCardInserted THEN timer' = "wait_removal" /\ UNCHANGED samples
                      ELSE timer' = "debounce_absence" /\ samples' = DebounceSamples

Elapsed(what) == timer = what /\ UNCHANGED <<cardV, dataV, opV, moved, taskV>>

DoWaitInsertion == Elapsed("wait_insertion") /\ WaitInsertion /\ UNCHANGED <<present, ongoing, mountEvents, rwEvents, cmdV>>
DoWaitRemoval   == Elapsed("wait_removal") /\ WaitRemoval /\ UNCHANGED <<present, ongoing, mountEvents, rwEvents, cmdV>>

\* debounce_insertion(); card_inserted() is init_card()
DebounceInsertion ==
    /\ Elapsed("debounce_insertion")
    /\ \/ ~IsCardInserted /\ timer' = "wait_insertion" /\ UNCHANGED samples
       \/ IsCardInserted /\ samples > 1 /\ samples' = samples - 1 /\ UNCHANGED timer
       \/ IsCardInserted /\ samples = 1 /\ samples' = 0 /\ timer' = "cmd0"
    /\ UNCHANGED <<present, ongoing, mountEvents, rwEvents, cmdV>>

DebounceAbsence ==
    /\ Elapsed("debounce_absence")
    /\ \/ IsCardInserted /\ timer' = "wait_removal" /\ UNCHANGED samples
       \/ ~IsCardInserted /\ samples > 1 /\ samples' = samples - 1 /\ UNCHANGED timer
       \/ ~IsCardInserted /\ samples = 1 /\ WaitInsertion     \* card_removed()
    /\ UNCHANGED <<present, ongoing, mountEvents, rwEvents, cmdV>>

HandleRemoval == mountEvents' = mountEvents \cup {"CARD_REMOVED"} /\ WaitRemoval

\* do_check_presence(), card_removal_detected(); the period goes on during an operation
CheckPresence ==
    /\ Elapsed("check_presence") /\ ~IsCardInserted
    /\ present' = FALSE
    /\ IF ongoing THEN UNCHANGED <<timer, samples, mountEvents>> ELSE HandleRemoval
    /\ UNCHANGED <<ongoing, rwEvents, cmdV>>

\* end_operation() and read_write_done()
EndOperation(ok) ==
    /\ ongoing' = FALSE
    /\ IF ok THEN timer' = "check_presence" /\ UNCHANGED <<present, samples, mountEvents>>
             ELSE present' = FALSE /\ HandleRemoval
    /\ rwEvents' = rwEvents \cup {IF ok THEN "RW_DONE" ELSE "RW_FAILED"}

-----------------------------------------------------------------------------
(* Initialization: sd_init.cpp *)

Send(what, c, n) == cmd' = what /\ stage' = c /\ attempts' = n /\ UNCHANGED <<stateAttempts, polls>>

InvokeCmd0 == Elapsed("cmd0") /\ timer' = "off" /\ Send("init", 0, 1) /\ UNCHANGED <<present, ongoing, samples, mountEvents, rwEvents>>

InvokeAcmd41 ==
    /\ Elapsed("acmd41")
    /\ timer' = "off"
    /\ Send("init", 2, attempts)
    /\ UNCHANGED <<present, ongoing, samples, mountEvents, rwEvents>>

\* init_done(), and card_initialized()
InitDone ==
    /\ Send("none", 0, 0)
    /\ present' = TRUE
    /\ mountEvents' = mountEvents \cup {"CARD_INSERTED"}
    /\ timer' = "check_presence"
    /\ UNCHANGED <<ongoing, samples, rwEvents>>

\* init_failed(), and card_initialized()
InitFailed ==
    /\ Send("none", 0, 0)
    /\ WaitRemoval
    /\ UNCHANGED <<present, ongoing, mountEvents, rwEvents>>

InitOutcomes ==
    IF stage = 0 THEN {"none"}
    ELSE IF card = "idle" THEN {"none", "damaged", "no_response", "error"} ELSE {"no_response"}

NextInitCommand ==
    IF stage = Len(InitCommands) THEN InitDone
    ELSE /\ Send("init", stage + 1, IF InitCommands[stage + 1] = "acmd41" THEN MaxPolls ELSE Attempts)
         /\ UNCHANGED watchV

\* The handlers cmd0_done() to acmd6_done().  A card that does not know CMD8 is an
\* older one; ACMD41 is repeated until the card is powered up.
InitCommandDone ==
    /\ cmd = "init"
    /\ \E outcome \in InitOutcomes :
        \/ /\ outcome = "none" \/ (outcome = "no_response" /\ stage = 1)
           /\ NextInitCommand
           /\ card' = IF stage = 0 /\ IsCardInserted THEN "idle"
                      ELSE IF stage = Len(InitCommands) THEN "tran" ELSE card
        \/ /\ outcome = "damaged" \/ (outcome = "none" /\ stage = 2)
           /\ attempts > 1
           /\ IF stage = 2
              THEN /\ Send("none", 0, attempts - 1)
                   /\ timer' = "acmd41"
                   /\ UNCHANGED <<present, ongoing, samples, mountEvents, rwEvents>>
              ELSE Send("init", stage, attempts - 1) /\ UNCHANGED watchV
           /\ UNCHANGED card
        \/ /\ outcome = "error" \/ (outcome = "no_response" /\ stage # 1) \/ (outcome = "damaged" /\ attempts = 1)
           /\ InitFailed
           /\ UNCHANGED card
    /\ UNCHANGED <<sentBlock, dataV, opV, moved, taskV>>

-----------------------------------------------------------------------------
(* Reading and writing: sd_read.cpp, sd_write.cpp, sd_read_write.cpp *)

SendCmd(what, n) == Send(what, 0, n)
GetState(what)   == cmd' = what /\ stateAttempts' = Attempts /\ UNCHANGED <<stage, attempts, polls>>

DataIdle == data' = "none" /\ UNCHANGED <<sendingCmd, waitingData, dataError>>

\* read_block(): the data path first, then the command
ReadBlock ==
    /\ SendCmd("read", Attempts)
    /\ data' = "rx" /\ sendingCmd' = TRUE /\ waitingData' = TRUE
    /\ UNCHANGED <<dataError, watchV>>

WriteBlock == SendCmd("write", Attempts) /\ UNCHANGED <<dataV, watchV>>

\* Mutant: what is left of a failed operation is not cancelled.
FinishLeavingData(ok) ==
    /\ EndOperation(ok)
    /\ cmd' = "none" /\ stage' = 0 /\ attempts' = 0 /\ stateAttempts' = 0 /\ polls' = 0
    /\ UNCHANGED dataV

\* read_done(), write_done(), read_failed(), write_failed().  What the operation leaves
\* in its variables is not read again: they are as at the start.
Finish(ok) ==
    /\ EndOperation(ok)
    /\ cmd' = "none" /\ stage' = 0 /\ attempts' = 0 /\ stateAttempts' = 0 /\ polls' = 0
    /\ data' = "none" /\ sendingCmd' = FALSE /\ waitingData' = FALSE /\ dataError' = "none"

Failed == Finish(FALSE) /\ UNCHANGED opV

\* block_read_done(), block_write_done()
BlockDone(nextBlock) ==
    /\ done' = done + 1
    /\ dataAttempts' = Attempts
    /\ UNCHANGED <<op, target>>
    /\ IF done' = target THEN Finish(TRUE) ELSE nextBlock

\* The same block again
RetryBlock(nextBlock) ==
    IF dataAttempts > 1
    THEN dataAttempts' = dataAttempts - 1 /\ UNCHANGED <<op, target, done>> /\ nextBlock
    ELSE Failed

\* handle_received_data()
HandleReceivedData(error) ==
    CASE error = "none" -> BlockDone(ReadBlock)
      [] error = "crc"  -> RetryBlock(ReadBlock)
      [] OTHER          -> Failed

\* Mutant: what became of the data meanwhile is forgotten.
ReadCmdDoneForgetting ==
    IF waitingData
    THEN /\ SendCmd("none", 0)
         /\ sendingCmd' = FALSE
         /\ UNCHANGED <<data, waitingData, dataError, watchV, opV>>
    ELSE HandleReceivedData("none")

\* read_cmd_done()
ReadCmdDone ==
    IF waitingData
    THEN /\ SendCmd("none", 0)
         /\ sendingCmd' = FALSE
         /\ UNCHANGED <<data, waitingData, dataError, watchV, opV>>
    ELSE HandleReceivedData(dataError)

\* Mutant: without a limit.
RetryCmdAlways(what) == SendCmd(what, attempts) /\ UNCHANGED <<dataV, watchV, opV>>

\* retry_read_cmd(), retry_write_cmd()
RetryCmd(what) ==
    IF attempts > 1 THEN SendCmd(what, attempts - 1) /\ UNCHANGED <<dataV, watchV, opV>> ELSE Failed

StartSending == SendCmd("none", 0) /\ data' = "tx" /\ UNCHANGED <<sendingCmd, waitingData, dataError, watchV, opV>>

\* What becomes of a command: the card does it or not, and the response comes, is
\* damaged or is lost.  A card that is busy, new or gone does not respond.
Accepted == {"none", "damaged", "no_response"}
Refused  == {"no_response", "error"}

\* read_cmd_sent(), write_cmd_sent()
CmdSent(error, what, accepted) ==
    CASE error = "none"        -> accepted
      [] error = "no_response" -> RetryCmd(what)
      [] error = "damaged"     -> GetState(IF what = "read" THEN "read_state" ELSE "write_state") /\ UNCHANGED <<dataV, watchV, opV>>
      [] OTHER                 -> Failed

ReadCmdSent ==
    /\ cmd = "read"
    /\ \/ /\ card = "tran"
          /\ card' = "data" /\ sentBlock' = done + 1
          /\ \E error \in Accepted : CmdSent(error, "read", ReadCmdDone)
       \/ /\ \E error \in (IF card = "tran" THEN Refused ELSE {"no_response"}) : CmdSent(error, "read", ReadCmdDone)
          /\ UNCHANGED cardV
    /\ UNCHANGED <<moved, taskV>>

WriteCmdSent ==
    /\ cmd = "write"
    /\ \/ /\ card = "tran"
          /\ card' = "rcv"
          /\ \E error \in Accepted : CmdSent(error, "write", StartSending)
       \/ /\ \E error \in (IF card = "tran" THEN Refused ELSE {"no_response"}) : CmdSent(error, "write", StartSending)
          /\ UNCHANGED card
    /\ UNCHANGED <<sentBlock, moved, taskV>>

\* get_state(): CMD13 is repeated, then the handler gets the state or the error
StateOutcomes == (IF card \in {"tran", "data", "rcv", "prg"} THEN {card} ELSE {}) \cup {"no_response"}

AskAgain == stateAttempts' = stateAttempts - 1 /\ UNCHANGED <<cmd, stage, attempts, polls, dataV, watchV, opV>>

\* wait_programmed(): the timer asks again
ProgrammedStateReceived(state) ==
    IF state = "tran" THEN BlockDone(WriteBlock)
    ELSE IF polls > 1
    THEN /\ polls' = polls - 1 /\ cmd' = "none"
         /\ timer' = "programmed"
         /\ UNCHANGED <<stage, attempts, stateAttempts, present, ongoing, samples, mountEvents, rwEvents, dataV, opV>>
    ELSE Failed

StateReceived(what, state) ==
    CASE what = "read_state" /\ state = "tran"  -> RetryCmd("read")
      [] what = "read_state" /\ state = "data"  -> ReadCmdDone
      [] what = "write_state" /\ state = "tran" -> RetryCmd("write")
      [] what = "write_state" /\ state = "rcv"  -> StartSending
      [] what = "programmed_state"              -> ProgrammedStateReceived(state)
      [] OTHER                                  -> Failed

StateDone ==
    /\ cmd \in {"read_state", "write_state", "programmed_state"}
    /\ \E state \in StateOutcomes :
        IF state # "no_response" THEN StateReceived(cmd, state)
        ELSE IF stateAttempts > 1 THEN AskAgain ELSE Failed
    /\ UNCHANGED <<cardV, moved, taskV>>

PollState ==
    /\ Elapsed("programmed")
    /\ timer' = "off"
    /\ GetState("programmed_state")
    /\ UNCHANGED <<present, ongoing, samples, mountEvents, rwEvents>>

\* data_received(): while the command is being sent, what to do is left to its handler
DataReceived(error) ==
    IF sendingCmd
    THEN /\ data' = "none" /\ waitingData' = FALSE /\ dataError' = error
         /\ UNCHANGED <<sendingCmd, cmdV, watchV, opV>>
    ELSE HandleReceivedData(error)

\* The card sends the block.  Only if "early" it has done that before the driver has
\* found out, after a response that was lost, whether the card sends at all.
BlockArrives ==
    /\ data = "rx" /\ card = "data"
    /\ "early" \in Coincidences \/ ~sendingCmd
    /\ card' = "tran" /\ sentBlock' = 0
    /\ \E error \in {"none", "crc", "overrun"} :
        /\ moved' = IF error = "none" THEN sentBlock ELSE 0
        /\ DataReceived(error)
    /\ UNCHANGED taskV

DataTimeout ==
    /\ data = "rx" /\ card # "data"
    /\ DataReceived("timeout")
    /\ UNCHANGED <<cardV, moved, taskV>>

\* data_sent(), wait_programmed()
DataSent ==
    /\ data = "tx"
    /\ \/ /\ card = "rcv" /\ card' = "prg" /\ moved' = done + 1
          /\ cmd' = "programmed_state" /\ stateAttempts' = Attempts /\ polls' = MaxPolls
          /\ DataIdle
          /\ UNCHANGED <<stage, attempts, watchV, opV>>
       \/ /\ card = "rcv" /\ card' = "tran"      \* damaged
          /\ UNCHANGED moved
          /\ IF dataAttempts > 1
             THEN /\ dataAttempts' = dataAttempts - 1
                  /\ DataIdle
                  /\ SendCmd("write", Attempts)
                  /\ UNCHANGED <<op, target, done, watchV>>
             ELSE Finish(FALSE) /\ UNCHANGED opV
       \/ card' = (IF card = "rcv" THEN "tran" ELSE card) /\ Failed /\ UNCHANGED moved  \* underrun, no answer
    /\ UNCHANGED <<sentBlock, taskV>>

-----------------------------------------------------------------------------
(* Tasks: disk_read(), disk_write(); FatFS lets one at a time access the disk *)

\* read(), write() with start_operation().  The card is there, unless "refused": then
\* the operation calls back, and goes on.
Begin(who) ==
    /\ caller = "nobody"
    /\ present \/ "refused" \in Coincidences
    /\ caller' = who
    /\ op' \in {"read", "write"} /\ target' \in 1..MaxBlocks
    /\ who = "mounter" => op' = "read"
    /\ done' = 0 /\ dataAttempts' = Attempts
    /\ ongoing' = present
    /\ rwEvents' = IF present THEN rwEvents ELSE rwEvents \cup {"RW_FAILED"}
    /\ IF op' = "read"
       THEN SendCmd("read", Attempts) /\ data' = "rx" /\ sendingCmd' = TRUE /\ waitingData' = TRUE /\ UNCHANGED dataError
       ELSE SendCmd("write", Attempts) /\ UNCHANGED dataV
    /\ UNCHANGED <<cardV, present, timer, samples, mountEvents, moved, mounter, mounted>>

UserBegins    == mounted /\ Begin("user")
MounterBegins == mounter = "mount" /\ Begin("mounter")

\* xEventGroupWaitBits() returns
Return ==
    /\ caller # "nobody" /\ rwEvents # {}
    /\ rwEvents' = {}
    /\ caller' = "nobody"
    /\ moved' = 0
    /\ UNCHANGED <<cardV, present, ongoing, timer, samples, mountEvents, cmdV, dataV, opV, mounter, mounted>>

\* serve_mounting(): f_mount() registers the file system, then reads; f_unmount()
ServeEvents ==
    /\ mounter = "wait" /\ mountEvents # {}
    /\ mountEvents' = {}
    /\ mounted' = (mountEvents = {"CARD_INSERTED"} \/ (mountEvents = {"CARD_INSERTED", "CARD_REMOVED"} /\ present))
    /\ mounter' = IF mounted' THEN "mount" ELSE "wait"
    /\ UNCHANGED <<cardV, present, ongoing, timer, samples, rwEvents, cmdV, dataV, opV, moved, caller>>

MountDone ==
    /\ mounter = "mount" /\ caller # "mounter"
    /\ mounter' = "wait"
    /\ UNCHANGED <<cardV, watchV, cmdV, dataV, opV, moved, caller, mounted>>

-----------------------------------------------------------------------------
Detection == DoWaitInsertion \/ DoWaitRemoval \/ DebounceInsertion \/ DebounceAbsence \/ CheckPresence
Interrupt ==
    \/ InvokeCmd0 \/ InvokeAcmd41 \/ InitCommandDone
    \/ ReadCmdSent \/ WriteCmdSent \/ StateDone \/ PollState \/ BlockArrives \/ DataTimeout \/ DataSent
Task == UserBegins \/ MounterBegins \/ Return \/ ServeEvents \/ MountDone

Next == Insert \/ Pull \/ CardReady \/ Detection \/ Interrupt \/ Task

Spec == Init /\ [][Next]_vars

\* Interrupts come, timers elapse, tasks get to run.
Fairness ==
    /\ WF_vars(Detection) /\ WF_vars(Interrupt)
    /\ WF_vars(Return) /\ WF_vars(ServeEvents) /\ WF_vars(MountDone)

FairSpec == Spec /\ Fairness

-----------------------------------------------------------------------------
TypeOK ==
    /\ card \in {"absent", "fresh", "idle", "tran", "data", "rcv", "prg"}
    /\ {present, ongoing, sendingCmd, waitingData, mounted} \subseteq BOOLEAN
    /\ timer \in {"off", "wait_insertion", "debounce_insertion", "wait_removal", "debounce_absence",
                   "cmd0", "acmd41", "programmed", "check_presence"}
    /\ cmd \in {"none", "init", "read", "read_state", "write", "write_state", "programmed_state"}
    /\ data \in {"none", "rx", "tx"} /\ dataError \in {"none", "crc", "overrun", "timeout"}
    /\ op \in {"read", "write"} /\ {sentBlock, target, done, moved} \subseteq 0..MaxBlocks
    /\ {samples, stage, attempts, stateAttempts, polls, dataAttempts} \subseteq Nat
    /\ rwEvents \subseteq {"RW_DONE", "RW_FAILED"} /\ mountEvents \subseteq {"CARD_INSERTED", "CARD_REMOVED"}
    /\ caller \in {"nobody", "user", "mounter"} /\ mounter \in {"wait", "mount"}

\* When disk_read() or disk_write() has returned nothing is left of the operation: no
\* transfer goes on in the buffer that is the caller's again, and no event is left that the
\* next operation would take for its end, whatever was lost, damaged or pulled out before.
\* And the card is watched again, by the timer or by a command (sd_ctrl.cpp).
DriverAtRest ==
    /\ caller = "nobody" => ~ongoing /\ data = "none" /\ cmd \in {"none", "init"} /\ rwEvents = {}
    /\ timer # "off" \/ cmd # "none" \/ data # "none"

\* However insertions and removals pile up before sd_fs.cpp serves them: when it has, the
\* file system is mounted if, and only if, the card is present.
MountFollowsCard == mounter = "wait" /\ mountEvents = {} /\ ~ongoing => (mounted <=> present)

\* Nothing outlasts its cause: see both.
NothingIsLeft == DriverAtRest /\ MountFollowsCard

\* A block counts as read or written only if that very block was moved undamaged
\* (sd_read.cpp, sd_write.cpp), although commands and blocks are repeated.
BlockIsOwn == [][done' > done => moved' = done']_vars

\* disk_read() and disk_write() wait without a limit; they return in any case.
OperationEnds == caller # "nobody" ~> caller = "nobody"
=============================================================================
