------------------------------ MODULE Profile ------------------------------
(***************************************************************************)
(* The threads that use the device configuration table (Dct): the          *)
(* bootloader and then the main thread of the application, from reset to   *)
(* the commands that save settings, and a writer beside it - the web       *)
(* server's, or the timer that restores a backup - which saves and resets. *)
(*                                                                         *)
(* The settings are kept twice: in the application's section (WT_PROFILE)  *)
(* and in the Wi-Fi section that the SDK connects with.  What they say of  *)
(* the network is one Value here.                                          *)
(***************************************************************************)
EXTENDS Dct

CONSTANTS main, web

ASSUME ProfileAssumption ==
  /\ main \in Writer /\ web \in Writer /\ main # web
  /\ Sections >= 2 /\ "ota" \in Func

VARIABLES
  at,       \* where the main thread is
  ram,      \* g_wxProfile
  saving,   \* the other writer is saving, and resets then
  failed,   \* history: since the last reset, a write returned an error
  due       \* history: an upgrade was asked for and not started since

profileVars == <<at, ram, saving, failed, due>>

Wifi == 1
App == 2
Write(section, value) == [section |-> section, value |-> value, func |-> "none"]
Call(func) == [IdleRequest EXCEPT !.func = func]

Readable == \E c \in Copies : Valid(c)

ProfileInit ==
  /\ Init
  /\ at = "boot" /\ ram = FactoryValue /\ saving = FALSE
  /\ failed = FALSE /\ due = FALSE

\* A step of the main thread alone, between two of its writes.
MainRuns(from, to) ==
  /\ at = from /\ ~Busy(main) /\ Readable
  /\ at' = to
  /\ UNCHANGED <<saving, failed>>

-----------------------------------------------------------------------------
(* The bootloader's main, and WXS2w_LoadConfiguration *)

\* mutant: the call is not cleared
ClearCallLater ==
  /\ MainRuns("boot", "clear")
  /\ Stored.func # "none"
  /\ UNCHANGED <<vars, ram, due>>

\* A function to call is cleared first "so it only happens this once".
ClearCall ==
  /\ MainRuns("boot", "clear")
  /\ Stored.func # "none"
  /\ Ask(main, Call("none"))
  /\ UNCHANGED <<ram, due>>

StartUpgrade ==
  /\ MainRuns("clear", "upgrade")
  /\ due' = failed
  /\ UNCHANGED <<vars, ram>>

\* mutant: the profile's magic number is not looked at
LoadAnything ==
  /\ MainRuns("boot", "apply")
  /\ Stored.func = "none"
  /\ ram' = Stored.cell[App]
  /\ Ask(main, Write(Wifi, ram'))
  /\ UNCHANGED due

\* Load_Profile, then Apply_To_Wifi_Dct.
Load ==
  /\ MainRuns("boot", "apply")
  /\ Stored.func = "none" /\ Stored.cell[App] \in Value
  /\ ram' = Stored.cell[App]
  /\ Ask(main, Write(Wifi, ram'))
  /\ UNCHANGED due

\* No profile is there, or another firmware's.
LoadDefault ==
  /\ MainRuns("boot", "save")
  /\ Stored.func = "none"
  /\ ram' = FactoryValue
  /\ Ask(main, Write(App, ram'))
  /\ UNCHANGED due

ApplyToWifi ==
  /\ MainRuns("save", "apply")
  /\ Ask(main, Write(Wifi, ram))
  /\ UNCHANGED <<ram, due>>

Applied ==
  /\ MainRuns("apply", "ready")
  /\ UNCHANGED <<vars, ram, due>>

(* Commands *)

\* A command changes g_wxProfile only, or AT+MPROF=L reads it back.
Set ==
  /\ MainRuns("ready", "ready")
  /\ ram' \in Value
  /\ UNCHANGED <<vars, due>>

\* mutant: the profile alone is saved
SaveProfileOnly ==
  /\ MainRuns("ready", "apply")
  /\ Ask(main, Write(App, ram))
  /\ UNCHANGED <<ram, due>>

\* AT+MPROF=S: Save_Profile, then Apply_To_Wifi_Dct.
SaveProfile ==
  /\ MainRuns("ready", "save")
  /\ Ask(main, Write(App, ram))
  /\ UNCHANGED <<ram, due>>

\* AT+WSET: the Wi-Fi section first, then the profile.
SetNetwork ==
  /\ MainRuns("ready", "set")
  /\ \E v \in Value : ram' = v /\ Ask(main, Write(Wifi, v))
  /\ UNCHANGED due

SaveNetwork ==
  /\ MainRuns("set", "apply")
  /\ Ask(main, Write(App, ram))
  /\ UNCHANGED <<ram, due>>

\* AT+MFDEF=FR saves the defaults, start_ota_upgrade a call; then a reset.
SaveDefaults ==
  /\ MainRuns("ready", "reset")
  /\ ram' = FactoryValue
  /\ Ask(main, Write(App, ram'))
  /\ UNCHANGED due

AskUpgrade ==
  /\ MainRuns("ready", "reset")
  /\ Ask(main, Call("ota"))
  /\ due' = TRUE
  /\ UNCHANGED ram

-----------------------------------------------------------------------------
WebSaves ==
  /\ ~saving /\ at = "ready"
  /\ \E v \in Value : Ask(web, Write(App, v))
  /\ saving' = TRUE
  /\ UNCHANGED <<at, ram, failed, due>>

\* A step of a write; one that does not reach its end returns an error.
Flashes ==
  \E w \in Writer :
    /\ WriteStep(w)
    /\ failed' = (failed \/ (op'[w].at = "idle" /\ op[w].at # "retire"))
    /\ UNCHANGED <<at, ram, saving, due>>

Reinits == Reinit /\ UNCHANGED profileVars

Resets ==
  /\ Reset
  /\ at' = "boot" /\ ram' = FactoryValue /\ saving' = FALSE /\ failed' = FALSE
  /\ UNCHANGED due

Main ==
  \/ ClearCall \/ StartUpgrade \/ Load \/ LoadDefault \/ ApplyToWifi
  \/ Applied \/ Set \/ SaveProfile \/ SetNetwork \/ SaveNetwork
  \/ SaveDefaults \/ AskUpgrade

ProfileNext == Main \/ WebSaves \/ Flashes \/ Reinits \/ Resets

ProfileSpec == ProfileInit /\ [][ProfileNext]_<<vars, profileVars>>

-----------------------------------------------------------------------------
ProfileTypeOK ==
  /\ TypeOK
  /\ at \in {"boot", "clear", "upgrade", "save", "apply", "ready", "set",
             "reset"}
  /\ ram \in Value
  /\ saving \in BOOLEAN /\ failed \in BOOLEAN /\ due \in BOOLEAN

(***************************************************************************)
(* Between commands the two places agree, although each is written on its  *)
(* own and the power may fail in between, or the other writer save only    *)
(* one of them: the start repairs it.  If a write returned an error, no    *)
(* sooner than the next.                                                   *)
(***************************************************************************)
SettingsAgree ==
  at = "ready" /\ ~saving /\ ~failed /\ ~unsafe =>
    Stored.cell[Wifi] = Stored.cell[App]

(***************************************************************************)
(* The comment in the bootloader, line 272: "clear function call so it     *)
(* only happens this once".  The upgrade is started once for each request, *)
(* also when the power fails around it; the exception is a call that could *)
(* not be cleared, because nobody looks at the result of the write.        *)
(***************************************************************************)
UpgradesOnce == [][at' = "upgrade" /\ at # "upgrade" /\ ~unsafe => due]_at
=============================================================================
