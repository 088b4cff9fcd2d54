------------------------------- MODULE Clock --------------------------------
(***************************************************************************)
(* The clock (system/rtc.cpp): it counts from the start of the system and, *)
(* once the network has sent the date and time, keeps these too.  The      *)
(* network sends UTC with the daylight saving shift (GSMService/sim900/    *)
(* listeners.cpp, GSMService.cpp), or a new shift alone.                   *)
(***************************************************************************)
EXTENDS Naturals, Integers

CONSTANTS
    NetworkTimes,   \* what the network sends, in UTC
    Shifts,         \* daylight saving shifts in hours
    StartTimes,     \* how long the system has run already
    MaxTicks        \* seconds that are observed

VARIABLES
    runTime, dateTime, dst, hasDateTime,    \* run_time, date_time, dst, has_date_time
    ticks,      \* seconds observed
    upTime,     \* seconds since the start
    kept,       \* seconds to show, counting from what the clock was set to
    local       \* seconds to show, counting from the network's time

vars == <<runTime, dateTime, dst, hasDateTime, ticks, upTime, kept, local>>

Zero == [year |-> 0, month |-> 0, day |-> 0, hour |-> 0, minute |-> 0, second |-> 0]

-----------------------------------------------------------------------------
(* rtc.cpp *)

DaysInMonth(month, year) ==
    IF month \in {4, 6, 9, 11} THEN 30
    ELSE IF month = 2 THEN (IF year % 4 # 0 THEN 28 ELSE 29)
    ELSE 31

IncMonth(t) == IF t.month = 12 THEN [t EXCEPT !.month = 1, !.year = t.year + 1] ELSE [t EXCEPT !.month = t.month + 1]
DecMonth(t) == IF t.month = 1 THEN [t EXCEPT !.month = 12, !.year = t.year - 1] ELSE [t EXCEPT !.month = t.month - 1]

\* Mutant: no way back from the first of a month.
AddDaysForward(days, t) ==
    LET dy == t.day + days
    IN IF dy > DaysInMonth(t.month, t.year) THEN [IncMonth(t) EXCEPT !.day = dy - DaysInMonth(t.month, t.year)]
       ELSE [t EXCEPT !.day = dy]

\* add_days(); it is used for -1, 0 and 1, and its loop adjusts the month once
AddDays(days, t) ==
    LET dy == t.day + days
        prev == DecMonth(t)
    IN IF dy < 1 THEN [prev EXCEPT !.day = dy + DaysInMonth(prev.month, prev.year)]
       ELSE IF dy > DaysInMonth(t.month, t.year) THEN [IncMonth(t) EXCEPT !.day = dy - DaysInMonth(t.month, t.year)]
       ELSE [t EXCEPT !.day = dy]

\* add_second(Time): the time, with a day to carry or not
SecondAdded(t) ==
    IF t.second < 59 THEN [t EXCEPT !.second = t.second + 1]
    ELSE IF t.minute < 59 THEN [t EXCEPT !.second = 0, !.minute = t.minute + 1]
    ELSE [t EXCEPT !.second = 0, !.minute = 0, !.hour = (t.hour + 1) % 24]
NewDay(t) == t.second = 59 /\ t.minute = 59 /\ t.hour = 23

AddSecond(t) == IF NewDay(t) THEN AddDays(1, SecondAdded(t)) ELSE SecondAdded(t)

IncRunTime(t) == IF NewDay(t) THEN [SecondAdded(t) EXCEPT !.day = t.day + 1] ELSE SecondAdded(t)

\* add_hours(Time): the hour, and the days to carry
HoursAdded(hours, t) == (t.hour + hours + 24) % 24
DaysCarried(hours, t) == IF t.hour + hours < 0 THEN -1 ELSE IF t.hour + hours > 23 THEN 1 ELSE 0

\* add_hours(DateTime): the time of day it changes is that of the clock, whatever the
\* timestamp (`add_hours(hours, date_time.time)`).  What it leaves there is replaced when
\* the clock is set, or it is the clock that is changed.
AddHours(hours, t) == AddDays(DaysCarried(hours, dateTime), t)
AddHoursToClock(hours) == AddDays(DaysCarried(hours, dateTime), [dateTime EXCEPT !.hour = HoursAdded(hours, dateTime)])

-----------------------------------------------------------------------------
\* A calendar to compare with: days since 2000, until 2100
DaysBefore(month, year) ==
    LET days == <<0, 31, 59, 90, 120, 151, 181, 212, 243, 273, 304, 334, 365>>
    IN days[month] + (IF year % 4 = 0 /\ month > 2 THEN 1 ELSE 0)

DayNumber(t) == 365 * (t.year - 2000) + (t.year - 1997) \div 4 + DaysBefore(t.month, t.year) + t.day

IsDate(t) ==
    t.month \in 1..12 /\ t.day \in 1..(DaysBefore(t.month + 1, t.year) - DaysBefore(t.month, t.year))

TimeOfDay(t) == 3600 * t.hour + 60 * t.minute + t.second
SecondsOf(t) == 86400 * DayNumber(t) + TimeOfDay(t)

-----------------------------------------------------------------------------
Init ==
    /\ runTime \in StartTimes /\ upTime = 86400 * runTime.day + TimeOfDay(runTime)
    /\ dateTime = Zero /\ dst = 0 /\ hasDateTime = FALSE
    /\ ticks = 0 /\ kept = 0 /\ local = 0

\* tick()
Tick ==
    /\ ticks < MaxTicks
    /\ ticks' = ticks + 1
    /\ runTime' = IncRunTime(runTime)
    /\ upTime' = upTime + 1
    /\ IF hasDateTime
       THEN dateTime' = AddSecond(dateTime) /\ kept' = kept + 1 /\ local' = local + 1
       ELSE UNCHANGED <<dateTime, kept, local>>
    /\ UNCHANGED <<dst, hasDateTime>>

\* timestamp_listener(), on_timestamp(), rtc::set()
NetworkTime(utc, shift) ==
    LET timestamp == AddHours(2 + shift, utc) IN
    /\ dateTime' = timestamp
    /\ dst' = shift
    /\ hasDateTime' = TRUE
    /\ kept' = SecondsOf(timestamp)
    /\ local' = SecondsOf(utc) + 3600 * (2 + shift)
    /\ UNCHANGED <<runTime, ticks, upTime>>

\* dst_listener(), on_dst_update(), rtc::change_dst()
ChangeDst(shift) ==
    /\ hasDateTime
    /\ dateTime' = AddHoursToClock(shift - dst)
    /\ dst' = shift
    /\ kept' = kept + 3600 * (shift - dst)
    /\ local' = local + 3600 * (shift - dst)
    /\ UNCHANGED <<runTime, hasDateTime, ticks, upTime>>

Next ==
    \/ Tick
    \/ \E utc \in NetworkTimes, shift \in Shifts : NetworkTime(utc, shift)
    \/ \E shift \in Shifts : ChangeDst(shift)

Spec == Init /\ [][Next]_vars

\* Both times advance with the seconds, and the date with the shift, across the ends of
\* days, months, years and February: they stay what a calendar counts from what was set.
KeepsTime ==
    /\ 86400 * runTime.day + TimeOfDay(runTime) = upTime
    /\ hasDateTime => IsDate(dateTime) /\ SecondsOf(dateTime) = kept

\* "convert UTC to local Ukrainian" (listeners.cpp), "local time(daylight shift is already
\* applied)" (rtc.h): the clock shows local time.
ShowsLocalTime == hasDateTime => SecondsOf(dateTime) = local
=============================================================================
