------------------------------- MODULE Flash -------------------------------
(***************************************************************************)
(* The flash memory: the driver of the chip (flash.cpp), whose operations  *)
(* are chained in the handlers of DMA, SPI and the timer, and the disk     *)
(* driver of FatFS (ff_flash_driver.cpp), which moves pages one by one and *)
(* waits in a task for the end.  FatFS lets one task at a time in.         *)
(***************************************************************************)
EXTENDS Naturals

CONSTANTS
    MaxPages,       \* pages of one operation
    Coincidences    \* "boot": a transfer is overrun already in the check at power-up, see Overrun

VARIABLES
    state,          \* state of the driver; "LOST": a null callback was called
    clocked,        \* a transfer is going on
    from, to,       \* of the command: where the data are, and where they shall go
    timer,          \* "off", "read_status", "switch_to_checking"
    on_done,        \* name of the callback
    page, page_count,   \* of ff_flash_driver.cpp: next page (and its data), pages left
    events, caller, \* what xEventGroupWaitBits() waits for, what the caller does
    ready, buffer,  \* the chip: RDY, page whose data B1 holds
    moved           \* which page's data are at the destination of each page

vars == <<state, clocked, from, to, timer, on_done, page, page_count, events, caller, ready, buffer, moved>>

Pages   == 1..MaxPages
Nothing == 0
B1      == MaxPages + 1     \* as a destination

Init ==
    /\ state = "POWER_UP_CHECK" /\ clocked = TRUE
    /\ from = Nothing /\ to = Nothing
    /\ timer = "off" /\ on_done = "none"
    /\ page = 1 /\ page_count = 0
    /\ events = {} /\ caller = "starting"
    /\ ready \in BOOLEAN /\ buffer = Nothing
    /\ moved = [p \in Pages |-> Nothing]

-----------------------------------------------------------------------------
(* Commands *)

StartCommand(command, source, destination, callback) ==
    /\ state' = command /\ clocked' = TRUE
    /\ from' = source /\ to' = destination
    /\ on_done' = callback

ReadMemory(p, d, callback)     == StartCommand("READ_COMMAND", p, d, callback)
WriteBuffer(d, callback)       == StartCommand("WRITE_COMMAND", d, B1, callback)
EraseAndProgram(p, callback)   == StartCommand("ERASE_AND_PROGRAM_COMMAND", B1, p, callback)

ReadStatus == clocked' = TRUE

-----------------------------------------------------------------------------
(* Callbacks of ff_flash_driver.cpp *)

SetAllDone(success) ==
    /\ events' = events \cup {IF success THEN "RW_DONE" ELSE "RW_FAILED"}
    /\ state' = "IDLE" /\ clocked' = FALSE
    /\ UNCHANGED <<from, to, on_done, page, page_count>>

NextPage == page' = page + 1 /\ page_count' = page_count - 1 /\ UNCHANGED events

ReadPage == NextPage /\ ReadMemory(page, page, IF page_count' = 0 THEN "set_all_done" ELSE "read_page")

BufferToMemory ==
    NextPage /\ EraseAndProgram(page, IF page_count' = 0 THEN "set_all_done" ELSE "data_to_buffer")

DataToBuffer == WriteBuffer(page, "buffer_to_memory") /\ UNCHANGED <<page, page_count, events>>

OnDone(success) ==
    \/ on_done = "set_all_done" /\ SetAllDone(success)
    \/ on_done \in {"read_page", "buffer_to_memory", "data_to_buffer"} /\ ~success /\ SetAllDone(FALSE)
    \/ on_done = "read_page" /\ success /\ ReadPage
    \/ on_done = "buffer_to_memory" /\ success /\ BufferToMemory
    \/ on_done = "data_to_buffer" /\ success /\ DataToBuffer
    \/ on_done = "none" /\ state' = "LOST" /\ clocked' = FALSE /\ UNCHANGED <<from, to, on_done, page, page_count, events>>

-----------------------------------------------------------------------------
(* Handlers *)

driverV == <<from, to, on_done, page, page_count, events>>

\* The chip does a command when it is deselected, unless it is busy
Deselect ==
    IF state = "ERASE_AND_PROGRAM_COMMAND" /\ ready
    THEN ready' = FALSE /\ moved' = [moved EXCEPT ![to] = buffer] /\ UNCHANGED buffer
    ELSE UNCHANGED <<ready, moved, buffer>>

\* The end of a command and the end of its data, in dma_isr()
CommandSent ==
    /\ state \in {"READ_COMMAND", "WRITE_COMMAND"}
    /\ state' = IF state = "READ_COMMAND" THEN "READ_DATA" ELSE "WRITE_DATA"
    /\ UNCHANGED <<clocked, timer, ready, buffer, moved, driverV>>

DataMoved ==
    /\ state \in {"READ_DATA", "WRITE_DATA"}
    /\ IF ~ready THEN UNCHANGED <<buffer, moved>>
       ELSE IF to = B1 THEN buffer' = from /\ UNCHANGED moved
       ELSE moved' = [moved EXCEPT ![to] = from] /\ UNCHANGED buffer
    /\ OnDone(TRUE)
    /\ UNCHANGED <<timer, ready>>

ProgramSent ==
    /\ state = "ERASE_AND_PROGRAM_COMMAND"
    /\ Deselect
    /\ state' = "ERASE_AND_PROGRAM_EXEC" /\ clocked' = FALSE
    /\ timer' = "switch_to_checking"
    /\ UNCHANGED driverV

\* Mutant: RDY is not looked at.
StatusReceivedUnread ==
    /\ state \in {"POWER_UP_CHECK", "ERASE_AND_PROGRAM_CHECK", "READY_AFTER_ERROR_CHECK"}
    /\ IF state = "POWER_UP_CHECK"
       THEN state' = "IDLE" /\ clocked' = FALSE /\ UNCHANGED driverV
       ELSE OnDone(state # "READY_AFTER_ERROR_CHECK")
    /\ UNCHANGED <<timer, ready, buffer, moved>>

StatusReceived ==
    /\ state \in {"POWER_UP_CHECK", "ERASE_AND_PROGRAM_CHECK", "READY_AFTER_ERROR_CHECK"}
    /\ IF ~ready THEN timer' = "read_status" /\ clocked' = FALSE /\ UNCHANGED <<state, driverV>>
       ELSE /\ IF state = "POWER_UP_CHECK"
               THEN state' = "IDLE" /\ clocked' = FALSE /\ UNCHANGED driverV
               ELSE OnDone(state # "READY_AFTER_ERROR_CHECK")
            /\ UNCHANGED timer
    /\ UNCHANGED <<ready, buffer, moved>>

DmaIsr == clocked /\ (CommandSent \/ DataMoved \/ ProgramSent \/ StatusReceived) /\ UNCHANGED caller

\* spi_isr(): a received byte is lost, so the count of DMA never ends.  The chip has got
\* as much of the command as was sent; pieces of data may have been moved.
Overrun ==
    /\ clocked
    /\ on_done # "none" \/ "boot" \in Coincidences
    /\ \/ Deselect
       \/ state \in {"READ_DATA", "WRITE_DATA"} /\ to = B1 /\ buffer' = Nothing /\ UNCHANGED <<ready, moved>>
       \/ state \in {"READ_DATA", "WRITE_DATA"} /\ to # B1 /\ moved' = [moved EXCEPT ![to] = Nothing] /\ UNCHANGED <<ready, buffer>>
       \/ state = "ERASE_AND_PROGRAM_COMMAND" /\ UNCHANGED <<ready, moved, buffer>>
    /\ state' = "READY_AFTER_ERROR_CHECK"
    /\ ReadStatus
    /\ UNCHANGED <<timer, driverV, caller>>

SwitchToChecking ==
    /\ timer = "switch_to_checking"
    /\ timer' = "off"
    /\ IF state = "ERASE_AND_PROGRAM_EXEC" THEN state' = "ERASE_AND_PROGRAM_CHECK" /\ ReadStatus ELSE UNCHANGED <<state, clocked>>
    /\ UNCHANGED <<driverV, caller, ready, buffer, moved>>

RecheckStatus ==
    /\ timer = "read_status"
    /\ timer' = "off"
    /\ ReadStatus
    /\ UNCHANGED <<state, driverV, caller, ready, buffer, moved>>

ChipReady == ~ready /\ ready' = TRUE /\ UNCHANGED <<state, clocked, timer, driverV, caller, buffer, moved>>

-----------------------------------------------------------------------------
(* The task: init_periph(), disk_read() and disk_write() *)

Started ==
    /\ caller = "starting" /\ state = "IDLE"
    /\ caller' = "idle"
    /\ UNCHANGED <<state, clocked, timer, driverV, ready, buffer, moved>>

\* The first page is 1, so that the data of a page have its number
Begin(operation) ==
    /\ caller = "idle"
    /\ caller' = operation
    /\ moved' = [p \in Pages |-> Nothing]
    /\ UNCHANGED <<timer, ready, buffer, events>>

DiskRead ==
    /\ Begin("reads")
    /\ \E count \in Pages :
        /\ page' = 2 /\ page_count' = count - 1
        /\ ReadMemory(1, 1, IF count = 1 THEN "set_all_done" ELSE "read_page")

DiskWrite ==
    /\ Begin("writes")
    /\ \E count \in Pages : page' = 1 /\ page_count' = count
    /\ WriteBuffer(1, "buffer_to_memory")

\* xEventGroupWaitBits() returns; what the operation leaves in page is not read again
Return ==
    /\ caller \in {"reads", "writes"} /\ events # {}
    /\ events' = {} /\ caller' = "idle"
    /\ page' = 1 /\ page_count' = 0
    /\ UNCHANGED <<state, clocked, timer, from, to, on_done, ready, buffer, moved>>

-----------------------------------------------------------------------------
Handler == DmaIsr \/ Overrun \/ SwitchToChecking \/ RecheckStatus
Task    == Started \/ DiskRead \/ DiskWrite \/ Return
Next    == Handler \/ ChipReady \/ Task

Spec == Init /\ [][Next]_vars

-----------------------------------------------------------------------------
TypeOK ==
    /\ state \in {"POWER_UP_CHECK", "IDLE", "READ_COMMAND", "READ_DATA", "WRITE_COMMAND", "WRITE_DATA",
                  "ERASE_AND_PROGRAM_COMMAND", "ERASE_AND_PROGRAM_EXEC", "ERASE_AND_PROGRAM_CHECK", "READY_AFTER_ERROR_CHECK"}
    /\ clocked \in BOOLEAN /\ ready \in BOOLEAN
    /\ from \in Pages \cup {Nothing, B1} /\ to \in Pages \cup {Nothing, B1}
    /\ timer \in {"off", "read_status", "switch_to_checking"}
    /\ on_done \in {"none", "set_all_done", "read_page", "buffer_to_memory", "data_to_buffer"}
    /\ page \in 1..MaxPages + 1 /\ page_count \in 0..MaxPages
    /\ events \subseteq {"RW_DONE", "RW_FAILED"}
    /\ caller \in {"starting", "idle", "reads", "writes"}
    /\ buffer \in Pages \cup {Nothing} /\ moved \in [Pages -> Pages \cup {Nothing}]

AtRest == state = "IDLE" /\ ~clocked /\ timer = "off"

\* The caller of disk_read() and disk_write() is told once, when chip and driver rest and
\* nothing of the operation can come later; it is told RW_DONE only if each page of the
\* operation, in its turn, has got its own data, whatever was overrun on the way.
OperationIsWhole ==
    /\ caller = "idle" \/ events # {} => AtRest /\ ready
    /\ caller = "idle" => events = {}
    /\ events # {} => events \in {{"RW_DONE"}, {"RW_FAILED"}}
    /\ "RW_DONE" \in events => page_count = 0 /\ \A p \in 1..page - 1 : moved[p] = p
=============================================================================
