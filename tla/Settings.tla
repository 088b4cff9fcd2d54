------------------------------ MODULE Settings ------------------------------
(***************************************************************************)
(* The persistent settings (Settings/settings.cpp): two copies in RAM, one *)
(* of them active, and three files on flash.  A setter prepares the        *)
(* inactive copy and saves it: the current file becomes the previous one,  *)
(* a temporary file is written and becomes the current one.  The power may *)
(* be cut between any two operations on files, and each of them may fail.  *)
(*                                                                         *)
(* Setters, getters and load_settings() exclude each other by a mutex, so  *)
(* there is one place, "saving", for whoever holds it.                     *)
(***************************************************************************)
EXTENDS Naturals

CONSTANTS
    Values,    \* contents of a SettingsDto
    Default,   \* set_defaults()
    Absent,    \* of a file: there is none
    Torn       \* of a file: not sizeof (SettingsDto) bytes

ASSUME ValuesAssumption == Default \in Values /\ Absent \notin Values /\ Torn \notin Values /\ Absent # Torn

File == {"curr", "prev", "temp"}
Step == {"boot", "idle", "remove", "back_up", "create", "write", "install", "apply"}

VARIABLES
    files,          \* CURRENT_PATH, PREVIOUS_PATH and TEMP_PATH
    settings, active,
    usedDefault, currentAbsent,
    saving,         \* what is next; "boot": load_settings() was not called yet
    \* history
    applied,        \* the settings loaded or stored last
    attempted,      \* those a setter tried, or tries, to store since
    failed,         \* a setter has failed since the start
    retried         \* a setter was called after one had failed, without a restart between

ramV     == <<settings, active, usedDefault, currentAbsent>>
historyV == <<applied, attempted, failed, retried>>
vars == <<files, ramV, saving, historyV>>

TypeContents ==
    /\ files \in [File -> Values \cup {Absent, Torn}]
    /\ settings \in [0..1 -> Values] /\ active \in 0..1
    /\ applied \in Values /\ attempted \in Values

TypeFlags ==
    /\ usedDefault \in BOOLEAN /\ currentAbsent \in BOOLEAN
    /\ failed \in BOOLEAN /\ retried \in BOOLEAN

TypeOK == TypeContents /\ TypeFlags /\ saving \in Step

\* active ^ 1
NextIndex == 1 - active

\* Static variables and init_settings(); the second copy is written before it is read.
InitSettings(copies, index, default, absent) ==
    copies = [i \in 0..1 |-> Default] /\ index = 0 /\ default = TRUE /\ absent = TRUE

\* save_default_settings() has made the current file.
Init ==
    /\ files = [f \in File |-> IF f = "curr" THEN Default ELSE Absent]
    /\ InitSettings(settings, active, usedDefault, currentAbsent)
    /\ saving = "boot"
    /\ applied = Default /\ attempted = Default
    /\ failed = FALSE /\ retried = FALSE

\* The power is cut, and main() starts again.
Restart ==
    /\ InitSettings(settings', active', usedDefault', currentAbsent')
    /\ saving' = "boot"
    /\ failed' = FALSE
    /\ UNCHANGED <<files, applied, attempted, retried>>

-----------------------------------------------------------------------------
(* load_settings() *)

\* The file that load_settings() reads.
Readable == IF files["curr"] # Absent THEN files["curr"] ELSE files["prev"]

Loaded(value) ==
    /\ settings' = [settings EXCEPT ![NextIndex] = value]
    /\ active' = NextIndex

Load ==
    /\ saving = "boot" /\ Readable \in Values
    /\ Loaded(Readable)
    /\ usedDefault' = FALSE
    /\ currentAbsent' = (files["curr"] = Absent)
    /\ saving' = "idle"
    /\ applied' = Readable /\ attempted' = Readable
    /\ UNCHANGED <<files, failed, retried>>

\* No file is complete, or flash does not work for the moment.
LoadFails ==
    /\ saving = "boot"
    /\ Loaded(Default)
    /\ usedDefault' = TRUE
    /\ currentAbsent' \in {FALSE, files["curr"] = Absent}
    /\ saving' = "idle"
    /\ UNCHANGED <<files, historyV>>

-----------------------------------------------------------------------------
(* A setter: prepare_next(), apply_next() and save_settings() *)

\* Mutant: the active settings are changed.
PrepareInPlace(value) ==
    /\ saving = "idle" /\ ~usedDefault
    /\ settings' = [i \in 0..1 |-> value]
    /\ saving' = IF currentAbsent THEN "create" ELSE "remove"
    /\ attempted' = value /\ retried' = (retried \/ failed)
    /\ UNCHANGED <<files, active, usedDefault, currentAbsent, applied, failed>>

\* Refused if settings could not be loaded.  A password, a delay, phones or zones are
\* changed in a copy of the active settings.
Prepare(value) ==
    /\ saving = "idle" /\ ~usedDefault
    /\ settings' = [settings EXCEPT ![NextIndex] = value]
    /\ saving' = IF currentAbsent THEN "create" ELSE "remove"
    /\ attempted' = value /\ retried' = (retried \/ failed)
    /\ UNCHANGED <<files, active, usedDefault, currentAbsent, applied, failed>>

Continue(step) == saving' = step /\ UNCHANGED <<ramV, historyV>>

\* The setter returns false.
Fail ==
    /\ saving' = "idle"
    /\ attempted' = applied /\ failed' = TRUE
    /\ UNCHANGED <<ramV, applied, retried>>

\* Mutant: the current file is removed.
RemoveCurrent ==
    /\ saving = "remove"
    /\ \/ files' = [files EXCEPT !["curr"] = Absent] /\ Continue("back_up")
       \/ UNCHANGED files /\ Fail

\* f_unlink(PREVIOUS_PATH); it is fine if there is none.
RemovePrevious ==
    /\ saving = "remove"
    /\ \/ files' = [files EXCEPT !["prev"] = Absent] /\ Continue("back_up")
       \/ UNCHANGED files /\ Fail

\* f_rename() succeeds only if there is the old file and not the new one.
Renamed(old, new) ==
    /\ files[old] # Absent /\ files[new] = Absent
    /\ files' = [files EXCEPT ![old] = Absent, ![new] = files[old]]

\* f_rename(CURRENT_PATH, PREVIOUS_PATH)
BackUp ==
    /\ saving = "back_up"
    /\ \/ Renamed("curr", "prev") /\ Continue("create")
       \/ UNCHANGED files /\ Fail

\* f_open(TEMP_PATH, FA_CREATE_ALWAYS)
Create ==
    /\ saving = "create"
    /\ \/ files' = [files EXCEPT !["temp"] = Torn] /\ Continue("write")
       \/ files' \in {files, [files EXCEPT !["temp"] = Torn]} /\ Fail

Written == files' = [files EXCEPT !["temp"] = settings[NextIndex]]

\* f_write() and f_close()
Write ==
    /\ saving = "write"
    /\ \/ Written /\ Continue("install")
       \/ (Written \/ UNCHANGED files) /\ Fail

\* f_rename(TEMP_PATH, CURRENT_PATH)
Install ==
    /\ saving = "install"
    /\ \/ Renamed("temp", "curr") /\ Continue("apply")
       \/ UNCHANGED files /\ Fail

\* active = next; the setter returns true.
Apply ==
    /\ saving = "apply"
    /\ active' = NextIndex
    /\ saving' = "idle"
    /\ applied' = attempted
    /\ UNCHANGED <<files, settings, usedDefault, currentAbsent, attempted, failed, retried>>

-----------------------------------------------------------------------------
Save == RemovePrevious \/ BackUp \/ Create \/ Write \/ Install \/ Apply

Next == Restart \/ Load \/ LoadFails \/ (\E value \in Values : Prepare(value)) \/ Save

Spec == Init /\ [][Next]_vars
-----------------------------------------------------------------------------
(* Properties *)

\* Settings that a setter has stored, or that were loaded, are found again after a
\* restart at any moment (or, if it was in the middle of a setter, those of this
\* setter), whatever operations on files have failed, as long as nobody tries again
\* after a failure without a restart.
SettingsSurvive == ~retried => Readable \in {applied, attempted}

\* What readers and the interrupt of the zones see without the mutex is loaded or
\* stored, also in the middle of a setter and after one has failed.
UsersSeeStored == ~usedDefault /\ ~retried => settings[active] = Readable \/ saving = "apply"

\* Nobody loses settings, be it by a restart or by reading in between.
SettingsAreKept == SettingsSurvive /\ UsersSeeStored

\* A file that was not written completely is never the current or the previous one.
NeverTorn == files["curr"] # Torn /\ files["prev"] # Torn

\* If settings could not be read, those on flash are left as they are.
OnlyLoadedAreReplaced == [][files' # files => ~usedDefault]_vars

\* save_settings(): "file with current config. exists", "remove prev.": the previous
\* file is removed only if there is the current one.
RemovesPreviousOnlyWithCurrent ==
    [][files["prev"] # Absent /\ files'["prev"] = Absent => files["curr"] # Absent]_vars
=============================================================================
