------------------------------ MODULE BootHeal ------------------------------
(***************************************************************************)
(* What happens between a reset and the main loop: BootGuard counts the    *)
(* crashes in RTC memory, BootManager deletes the cache or formats LittleFS *)
(* when there were too many of them or a factory reset was asked for, then *)
(* ConfigManager loads the configuration, and Application decides whether  *)
(* to start in safe mode. ConfigStore models the files of the              *)
(* configuration; the node can be reset between any two steps.             *)
(***************************************************************************)
EXTENDS ConfigStore

CONSTANTS
  MaxCount,  \* MAX_CRASH_COUNT (999)
  MaxCrashes \* bound: crashes between two clearings of the counter

ASSUME BootAssumption == MaxCount \in Nat /\ MaxCount > 15 /\ MaxCrashes \in Nat

VARIABLES
  guard, \* BootGuard's block of RTC memory, see Guard
  cpu,   \* how far the boot is, see At, and the cause of the last reset, see Cause
  cache, \* LittleFS holds records that wait for their upload
  past   \* history: the crashes since the counter was cleared, and whether
         \* a factory reset is owed

bootVars == <<guard, cpu, cache, past>>
vars == <<configVars, bootVars>>

Guard ==
  [ok : BOOLEAN,           \* its magic number and CRC are right
   count : 0 .. MaxCount,  \* crashCount
   timed : BOOLEAN,        \* lastCrashTime is not 0
   reset : BOOLEAN]        \* lastReasonRaw is FACTORY_RESET
At == {"boot", "wipe", "unflag", "heal", "load", "up", "safe"}

\* What reset the node; "known" past the place where the boot asks, since nobody
\* asks again.
Cause == {"power", "soft", "crash", "known"}

\* Mutant of Cleared: lastCrashTime stays.
ClearedButTimed == [ok |-> TRUE, count |-> 0, timed |-> TRUE, reset |-> FALSE]

\* clear
Cleared == [ok |-> TRUE, count |-> 0, timed |-> FALSE, reset |-> FALSE]

\* What is left of the block when RTC memory has lost its contents
Lost == [ok |-> FALSE, count |-> 0, timed |-> FALSE, reset |-> FALSE]
FirstCrash == [ok |-> TRUE, count |-> 1, timed |-> TRUE, reset |-> FALSE]

Clear == guard' = Cleared /\ past' = [past EXCEPT !.crashes = 0]

\* Mutant of Atmost: the counter has no upper bound.
AtmostAny(n) == n

Atmost(n) == IF n < MaxCount THEN n ELSE MaxCount

\* incrementCrashCount. Two crashes in a row count double when the two boots
\* took the same time from their start to here, give or take.
Counted ==
  IF ~guard.ok
  THEN {IF cpu.cause = "crash" THEN FirstCrash ELSE Cleared}
  ELSE IF cpu.cause # "crash" THEN {[guard EXCEPT !.reset = FALSE]}
  ELSE {[ok |-> TRUE, count |-> Atmost(guard.count + n), timed |-> TRUE, reset |-> FALSE] :
          n \in IF guard.timed THEN {1, 2} ELSE {1}}

-----------------------------------------------------------------------------
(* BootManager::run                                                        *)

\* The boot is past that place.
Asked(at) == [at |-> at, cause |-> "known"]

\* Mutant of Boot: the crash is counted first, and takes the place of the flag.
BootCountsFirst ==
  /\ cpu.at = "boot"
  /\ guard' \in Counted
  /\ cpu' = Asked(IF guard'.reset THEN "wipe" ELSE "heal")
  /\ UNCHANGED <<configVars, cache, past>>

\* The factory reset flag is looked at before anything else.
Boot ==
  /\ cpu.at = "boot"
  /\ IF guard.ok /\ guard.reset
     THEN cpu' = Asked("wipe") /\ UNCHANGED guard
     ELSE cpu' = Asked("heal") /\ guard' \in Counted
  /\ UNCHANGED <<configVars, cache, past>>

\* LittleFS.format() in place of the configuration's files and the cache
Format ==
  \/ /\ flash' = Formatted
     /\ cache' = FALSE
     /\ asked' = Factory
     /\ UNCHANGED <<ram, job, faults>>
  \/ Fault("format") /\ UNCHANGED <<flash, cache, asked, ram, job>>

Wipe ==
  /\ cpu.at = "wipe"
  /\ Format
  /\ cpu' = [cpu EXCEPT !.at = "unflag"]
  /\ past' = [past EXCEPT !.owed = FALSE]
  /\ UNCHANGED guard

\* ESP.restart()
Restarted == cpu' = [at |-> "boot", cause |-> "soft"]

\* Mutant of Unflag: the flag stays.
UnflagForgotten ==
  /\ cpu.at = "unflag"
  /\ Restarted
  /\ UNCHANGED <<configVars, guard, cache, past>>

Unflag ==
  /\ cpu.at = "unflag"
  /\ Clear
  /\ Restarted
  /\ UNCHANGED <<configVars, cache>>

\* FileSystemManager mounts LittleFS, formatting it if that fails three times:
\* the files fl and the cache c are what is there afterwards.
Mount(fl, c) ==
  \/ fl = flash /\ c = cache /\ UNCHANGED faults
  \/ fl = Formatted /\ c = FALSE /\ Fault("mount")

Healthy == cpu.at = "heal" /\ guard.count < 4
Level1 == cpu.at = "heal" /\ guard.count \in 4 .. 7
Level2 == cpu.at = "heal" /\ guard.count \in 8 .. 12
Level3 == cpu.at = "heal" /\ guard.count > 12

\* setup() goes on to ConfigManager::init.
LoadConfig ==
  /\ Healthy
  /\ \E fl \in {flash, Formatted}, c \in {cache, FALSE} :
       Mount(fl, c) /\ Load(fl) /\ cache' = c
  /\ cpu' = [cpu EXCEPT !.at = "load"]
  /\ UNCHANGED <<guard, past>>

\* Level 1: the cache file is deleted.
DropCache ==
  /\ Level1
  /\ \E fl \in {flash, Formatted}, c \in {cache, FALSE} :
       Mount(fl, c) /\ flash' = fl /\ asked' = Recoverable(fl)
  /\ cache' = FALSE
  /\ Restarted
  /\ UNCHANGED <<ram, job, guard, past>>

\* Level 2: LittleFS is formatted.
FormatAll ==
  /\ Level2
  /\ Format
  /\ Restarted
  /\ UNCHANGED <<guard, past>>

\* Level 3: ten seconds of rest
CoolDown ==
  /\ Level3
  /\ \E fl \in {flash, Formatted}, c \in {cache, FALSE} :
       /\ Mount(fl, c) /\ flash' = fl /\ cache' = c
       /\ asked' = Recoverable(fl)
  /\ IF guard.count > 15 THEN Clear ELSE UNCHANGED <<guard, past>>
  /\ Restarted
  /\ UNCHANGED <<ram, job>>

\* load and save, at boot or for a command
ConfigStep == FileStep /\ UNCHANGED bootVars

\* Application::init
ComeUp ==
  /\ cpu.at = "load"
  /\ Loaded
  /\ cpu' = [cpu EXCEPT !.at = IF guard.ok /\ guard.count > 5 THEN "safe" ELSE "up"]
  /\ UNCHANGED <<guard, cache, past>>

-----------------------------------------------------------------------------
(* The main loop, between two of its calls.                                *)

Up == cpu.at \in {"up", "safe"} /\ Idle

\* After a minute: BootGuard::markStable and clear
Stable ==
  /\ Up
  /\ guard # Cleared
  /\ Clear
  /\ UNCHANGED <<configVars, cpu, cache>>

\* CacheManager writes to LittleFS.
CacheRecord ==
  /\ Up
  /\ ~cache
  /\ cache' = TRUE
  /\ UNCHANGED <<configVars, guard, cpu, past>>

UseConfig ==
  /\ Up
  /\ \/ (Command \/ ReadStrings) /\ UNCHANGED cache
     \/ FormatFs /\ cache' = FALSE
  /\ UNCHANGED <<guard, cpu, past>>

\* ESP.restart() by the reboot command, an update, the watchdog in loop() or
\* the health check; some of them call setRebootReason first.
Restart ==
  /\ Up
  /\ guard' \in {guard, IF guard.ok THEN guard ELSE Cleared}
  /\ Restarted
  /\ Reset
  /\ UNCHANGED <<cache, past, faults>>

\* The factory reset of the portal and of the web page: setRebootReason, and
\* ESP.restart()
RequestReset ==
  /\ Up
  /\ guard' = [IF guard.ok THEN guard ELSE Cleared EXCEPT !.reset = TRUE]
  /\ past' = [past EXCEPT !.owed = TRUE]
  /\ Restarted
  /\ Reset
  /\ UNCHANGED <<cache, faults>>

\* The factoryreset command, which formats LittleFS itself
ResetNow ==
  /\ Up
  /\ \/ /\ Clear /\ Restarted
        /\ flash' = Formatted /\ ram' = NoRam /\ job' = Off /\ asked' = Factory
        /\ UNCHANGED faults
     \/ Fault("format") /\ UNCHANGED <<flash, ram, job, asked, guard, cpu, past>>
  /\ cache' = FALSE

-----------------------------------------------------------------------------
(* Resets that nobody asked for.                                           *)

\* A watchdog or an exception
Crash ==
  /\ past.crashes < MaxCrashes
  /\ past' = [past EXCEPT !.crashes = @ + 1]
  /\ cpu' = [at |-> "boot", cause |-> "crash"]
  /\ Reset
  /\ UNCHANGED <<guard, cache, faults>>

\* The supply fails, for so long that RTC memory is lost, or not.
PowerLoss ==
  /\ cpu' = [at |-> "boot", cause |-> "power"]
  /\ \/ guard' = Lost /\ past' = [crashes |-> 0, owed |-> FALSE]
     \/ UNCHANGED <<guard, past>>
  /\ Reset
  /\ UNCHANGED <<cache, faults>>

-----------------------------------------------------------------------------
Init ==
  /\ ConfigInit
  /\ guard = Lost
  /\ cpu = [at |-> "boot", cause |-> "power"]
  /\ cache = FALSE
  /\ past = [crashes |-> 0, owed |-> FALSE]

\* What the firmware does by itself until it is up
BootStep ==
  \/ Boot
  \/ Wipe
  \/ Unflag
  \/ LoadConfig
  \/ DropCache
  \/ FormatAll
  \/ CoolDown
  \/ ConfigStep
  \/ ComeUp

Next ==
  \/ BootStep
  \/ Stable
  \/ CacheRecord
  \/ UseConfig
  \/ Restart
  \/ RequestReset
  \/ ResetNow
  \/ Crash
  \/ PowerLoss

Spec == Init /\ [][Next]_vars

\* setup() runs on, and after a minute of loop() the counter is cleared.
FairSpec == Spec /\ WF_vars(BootStep) /\ WF_vars(Stable)

\* The same with the faults that save and load do not notice
LossySpec == Init /\ [][Next \/ (Unnoticed /\ UNCHANGED bootVars)]_vars

-----------------------------------------------------------------------------
(* Properties.                                                             *)

\* The block in RTC memory and the stages of the boot have their types.
TypeOK ==
  /\ ConfigTypeOK
  /\ guard \in Guard
  /\ cpu \in [at : At, cause : Cause]
  /\ cache \in BOOLEAN
  /\ past \in [crashes : 0 .. MaxCrashes, owed : BOOLEAN]

\* Self-healing destroys data only after real crashes, none of which was before
\* the last stable minute: the records waiting in LittleFS after three, all of
\* LittleFS after five.
HealingIsEarned ==
  [][(DropCache => past.crashes >= 3) /\ (FormatAll => past.crashes >= 5)]_vars

\* A factory reset that was asked for comes before the node is up again, unless
\* the loss of power took the request with it: neither crashes nor resets in
\* between make the node forget it. (A format that fails is not tried again.)
ResetComesFirst == cpu.at \in {"load", "up", "safe"} => ~past.owed

\* Fewer crashes than the first level of self-healing do not keep the node from
\* coming up: whatever happened before, once no more crashes happen it comes up
\* or has counted at least four of them.
ComesUp ==
  <>[][~(Crash \/ PowerLoss)]_vars =>
    []<>(cpu.at = "up" \/ (guard.ok /\ guard.count \in 4 .. 15))

\* After more than five crashes the node comes up in safe mode, to be repaired
\* over the portal. ("Jika perangkat mendeteksi boot loop (crash berulang > 5
\* kali), perangkat akan otomatis masuk ke Safe Mode", README.md:214.)
ReachesSafeMode ==
  guard.ok /\ guard.count > 5 ~> cpu.at = "safe" \/ ~(guard.ok /\ guard.count > 5)
=============================================================================
