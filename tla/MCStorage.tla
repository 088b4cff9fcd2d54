----------------------------- MODULE MCStorage ------------------------------
(* What is kept - the settings, the SD card, the flash, the time - and the *)
(* progress of calls.  These parts touch none of each other's state: each  *)
(* behaviour is one of one of them, the others rest as they are at the     *)
(* start.                                                                  *)
EXTENDS MCSettings

CONSTANTS
    MaxBlocks, DebounceSamples, MaxPolls,           \* of SdCard
    MaxPages,                                       \* of Flash
    NetworkTimes, Shifts, StartTimes, MaxTicks,     \* of Clock
    Coincidences                                    \* of SdCard and Flash

VARIABLES
    part,
    card, sentBlock, present, ongoing, timer, samples, cmd, stage, attempts, stateAttempts, polls,
    data, sendingCmd, waitingData, dataError, op, target, done, dataAttempts, moved,
    rwEvents, caller, mountEvents, mounter, mounted,
    flashState, clocked, from, to, flashTimer, on_done, page, page_count, events, flashCaller, ready, buffer, movedPages,
    runTime, dateTime, dst, hasDateTime, ticks, upTime, kept, local,
    line, callee, actual, number, command, result, reboot, faults, bits, gsm, gsmBits, actualNow, handled,
    service, wanted, answer, ended, optionSelected, playing, choiceTimer, enders, dialed

At(y, m, d_, h, min, s) == [year |-> y, month |-> m, day |-> d_, hour |-> h, minute |-> min, second |-> s]
SomeDays  == {<<2023, 2, 28>>, <<2023, 12, 31>>, <<2024, 1, 1>>, <<2024, 2, 28>>, <<2024, 3, 1>>, <<2024, 4, 30>>}
SomeTimes == {At(x[1], x[2], x[3], t[1], t[2], t[3]) : x \in SomeDays, t \in {<<23, 59, 58>>, <<21, 59, 59>>, <<0, 0, 0>>}}
Starts    == {At(0, 0, n, 23, 59, 58) : n \in {0, 1}}

Card  == INSTANCE SdCard
Chip  == INSTANCE Flash WITH state <- flashState, timer <- flashTimer, caller <- flashCaller, moved <- movedPages
Time  == INSTANCE Clock
Call  == INSTANCE GsmCall WITH Callers <- {"known"}, MaxFaults <- 0, caller <- callee

cardV == <<card, sentBlock, present, ongoing, timer, samples, cmd, stage, attempts, stateAttempts, polls,
           data, sendingCmd, waitingData, dataError, op, target, done, dataAttempts, moved,
           rwEvents, caller, mountEvents, mounter, mounted>>
chipV == <<flashState, clocked, from, to, flashTimer, on_done, page, page_count, events, flashCaller, ready, buffer, movedPages>>
timeV == <<runTime, dateTime, dst, hasDateTime, ticks, upTime, kept, local>>
callV == <<line, callee, actual, number, command, result, reboot, faults, bits, gsm, gsmBits, actualNow, handled,
           service, wanted, answer, ended, optionSelected, playing, choiceTimer, enders, dialed>>

allVars == <<part, vars, cardV, chipV, timeV, callV>>

AllInit ==
    /\ part \in {"settings", "card", "chip", "time", "call"}
    /\ Init /\ Card!Init /\ Chip!Init /\ Time!Init /\ Call!Init
    /\ part # "card" => card = "absent"
    /\ part # "chip" => ready
    /\ part # "time" => runTime.day = 0

\* Steps of one part
InSettings(action) == part = "settings" /\ action /\ UNCHANGED <<part, cardV, chipV, timeV, callV>>
InCard(action)     == part = "card" /\ action /\ UNCHANGED <<part, vars, chipV, timeV, callV>>
InChip(action)     == part = "chip" /\ action /\ UNCHANGED <<part, vars, cardV, timeV, callV>>
InTime(action)     == part = "time" /\ action /\ UNCHANGED <<part, vars, cardV, chipV, callV>>
InCall(action)     == part = "call" /\ action /\ UNCHANGED <<part, vars, cardV, chipV, timeV>>

SettingsStep == InSettings(Next)
CardStep     == InCard(Card!Next)
ChipStep     == InChip(Chip!Next)
TimeStep     == InTime(Time!Next)
CallStep     == InCall(Call!Next)

AllNext == SettingsStep \/ CardStep \/ ChipStep \/ TimeStep \/ CallStep

-----------------------------------------------------------------------------
(* The fairness of the card and of the calls is that of their modules.  As *)
(* a behaviour keeps to one part, which is all that changes then, one      *)
(* condition serves both.                                                  *)
OfCard(action) == part = "card" /\ action /\ UNCHANGED callV
OfCall(action) == part = "call" /\ action /\ UNCHANGED cardV

FairAll ==
    /\ AllInit /\ [][AllNext]_allVars
    /\ WF_<<cardV, callV>>(OfCard(Card!Detection) \/ OfCall(Call!Driver))
    /\ WF_<<cardV, callV>>(OfCard(Card!Interrupt) \/ OfCall(Call!Played))
    /\ WF_<<cardV, callV>>(OfCard(Card!Return) \/ OfCall(Call!ChoiceTimeoutElapsed))
    /\ WF_cardV(part = "card" /\ Card!ServeEvents)
    /\ WF_cardV(part = "card" /\ Card!MountDone)
    /\ SF_callV(part = "call" /\ Call!Gsm)
    /\ SF_callV(part = "call" /\ Call!Service)
    /\ SF_callV(part = "call" /\ Call!EndCalls)

-----------------------------------------------------------------------------
\* Between operations the SD driver rests, and the file system is mounted just while the
\* card is there.
NothingIsLeft == Card!NothingIsLeft

\* A block counts as read or written only if that very block was moved undamaged.
BlockIsOwn == Card!BlockIsOwn

\* disk_read() and disk_write() of the SD card return, also when the card is pulled.
OperationEnds == Card!OperationEnds

\* Who waits for an operation on flash is told once, at its end, and RW_DONE only if each
\* page has got its own data.
OperationIsWhole == Chip!OperationIsWhole

\* Both times stay what a calendar counts from what they were set to.
KeepsTime == Time!KeepsTime

\* An end of a call is handled and a dialed call ends, although callbacks block.
CallsEnd == Call!CallsEnd
=============================================================================
