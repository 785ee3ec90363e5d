--------------------------- MODULE BootHeal_proofs ---------------------------
(***************************************************************************)
(* Proofs about the boot and the configuration, for every number of        *)
(* crashes, any values and any set of the faults that save notices. First  *)
(* the crash counter of BootGuard and the factory reset flag: they say     *)
(* nothing of the configuration's files, since the healing levels are      *)
(* chosen by the counter alone. Then the files of the configuration: the   *)
(* types of the state, and that the three files implement one register,    *)
(* whatever step of a save is interrupted.                                 *)
(***************************************************************************)
EXTENDS BootHeal, Integers, TLAPS

-----------------------------------------------------------------------------
(* The crash counter and the factory reset flag                            *)

\* The crashes that incrementCrashCount has had the occasion to count
Seen == IF cpu.at = "boot" /\ cpu.cause = "crash" THEN past.crashes - 1 ELSE past.crashes

BootTypes ==
  /\ guard \in Guard
  /\ cpu \in [at : At, cause : Cause]
  /\ past \in [crashes : Nat, owed : BOOLEAN]

\* A crash that waits to be counted has happened.
CrashHappened == cpu.at = "boot" /\ cpu.cause = "crash" => past.crashes >= 1

\* The first crash counts once, and every other one at most twice.
CountIsEarned ==
  /\ ~guard.timed => guard.count = 0
  /\ guard.timed => guard.count <= 2 * Seen - 1

\* A factory reset that is owed is marked in RTC memory, and the node has not
\* got past the place where it looks for the mark.
OwedIsMarked == past.owed => guard.ok /\ guard.reset /\ cpu.at \in {"boot", "wipe"}

Inv == BootTypes /\ CrashHappened /\ CountIsEarned /\ OwedIsMarked

-----------------------------------------------------------------------------
LEMMA ClearedTypes == Cleared \in Guard /\ Lost \in Guard
  BY BootAssumption DEF Cleared, Lost, Guard

\* What Boot can make of the block: its type, and by how much the count grows.
LEMMA CountedGood ==
  ASSUME guard \in Guard, cpu \in [at : At, cause : Cause],
         NEW g \in Counted
  PROVE  /\ g \in Guard
         /\ cpu.cause # "crash" =>
              \/ g.count = guard.count /\ g.timed = guard.timed
              \/ g.count = 0 /\ g.timed = FALSE
         /\ cpu.cause = "crash" =>
              /\ g.timed = TRUE
              /\ \/ g.count = 1
                 \/ g.count <= guard.count + 1
                 \/ guard.timed /\ g.count <= guard.count + 2
<1>1. CASE ~guard.ok
  <2>1. g = IF cpu.cause = "crash" THEN FirstCrash ELSE Cleared
    BY <1>1 DEF Counted
  <2>2. FirstCrash \in Guard /\ FirstCrash.timed = TRUE /\ FirstCrash.count = 1
    BY BootAssumption DEF FirstCrash, Guard
  <2>3. Cleared.count = 0 /\ Cleared.timed = FALSE
    BY DEF Cleared
  <2> QED BY <2>1, <2>2, <2>3, ClearedTypes
<1>2. CASE guard.ok /\ cpu.cause # "crash"
  <2>1. g = [guard EXCEPT !.reset = FALSE]
    BY <1>2 DEF Counted
  <2> QED BY <1>2, <2>1 DEF Guard
<1>3. CASE guard.ok /\ cpu.cause = "crash"
  <2>1. PICK n \in IF guard.timed THEN {1, 2} ELSE {1} :
          g = [ok |-> TRUE, count |-> Atmost(guard.count + n), timed |-> TRUE, reset |-> FALSE]
    BY <1>3 DEF Counted
  <2>2. guard.count \in 0 .. MaxCount /\ guard.count \in Nat /\ MaxCount \in Nat
    BY BootAssumption DEF Guard
  <2>3. n \in {1, 2} /\ (n = 2 => guard.timed)
    OBVIOUS
  <2>4. Atmost(guard.count + n) \in 0 .. MaxCount /\ Atmost(guard.count + n) <= guard.count + n
    BY <2>2, <2>3 DEF Atmost
  <2>5. g \in Guard /\ g.timed = TRUE /\ g.count = Atmost(guard.count + n)
    BY <2>1, <2>4 DEF Guard
  <2> QED BY <1>3, <2>2, <2>3, <2>4, <2>5
<1> QED BY <1>1, <1>2, <1>3

-----------------------------------------------------------------------------
LEMMA InitInv == Init => Inv
  BY ClearedTypes, BootAssumption
  DEF Init, Inv, BootTypes, CrashHappened, CountIsEarned, OwedIsMarked, Seen, Lost, At, Cause

\* Whatever clears the counter may forget the crashes with it.
LEMMA ClearInv ==
  ASSUME Inv, Clear, ~past.owed, cpu' \in [at : At, cause : Cause],
         cpu'.cause # "crash" \/ cpu'.at # "boot"
  PROVE  Inv'
<1>1. past' \in [crashes : Nat, owed : BOOLEAN] /\ past'.crashes = 0 /\ past'.owed = past.owed
  BY DEF Inv, BootTypes, Clear
<1>2. guard' \in Guard /\ guard'.count = 0 /\ guard'.timed = FALSE
  BY ClearedTypes DEF Clear, Cleared
<1> QED BY <1>1, <1>2 DEF Inv, BootTypes, CrashHappened, CountIsEarned, OwedIsMarked

\* Going on, or restarting, with the counter and the history as they are
LEMMA KeepInv ==
  ASSUME Inv, UNCHANGED <<guard, past>>,
         cpu' \in [at : At, cause : Cause],
         ~(cpu.at = "boot" /\ cpu.cause = "crash") \/ cpu'.at \in {"boot", "wipe"},
         cpu'.at = "boot" => cpu'.cause # "crash",
         past.owed => cpu'.at \in {"boot", "wipe"}
  PROVE  Inv'
<1>1. past.crashes \in Nat /\ guard.count \in Nat /\ Seen \in Int /\ Seen <= past.crashes
  BY BootAssumption DEF Inv, BootTypes, Guard, Seen
<1>2. Seen' = past.crashes
  BY DEF Seen
<1>3. CountIsEarned'
  BY <1>1, <1>2 DEF Inv, CountIsEarned
<1> QED BY <1>3 DEF Inv, BootTypes, CrashHappened, OwedIsMarked

LEMMA BootInv == Inv /\ Boot => Inv'
<1> SUFFICES ASSUME Inv, Boot PROVE Inv'
  OBVIOUS
<1> USE DEF Boot
<1>1. CASE guard.ok /\ guard.reset
  <2>1. cpu' = [at |-> "wipe", cause |-> "known"] /\ UNCHANGED <<guard, past>>
    BY <1>1 DEF Asked
  <2> QED BY <2>1, KeepInv DEF Inv, BootTypes, At, Cause
<1>2. CASE ~(guard.ok /\ guard.reset)
  <2>1. cpu' = [at |-> "heal", cause |-> "known"] /\ guard' \in Counted /\ UNCHANGED past
    BY <1>2 DEF Asked
  <2>2. ~past.owed /\ ~past.owed'
    BY <1>2, <2>1 DEF Inv, OwedIsMarked
  <2>3. cpu' \in [at : At, cause : Cause] /\ cpu'.at = "heal"
    BY <2>1 DEF Inv, BootTypes, At, Cause
  <2>4. /\ guard' \in Guard
        /\ cpu.cause # "crash" => \/ guard'.count = guard.count /\ guard'.timed = guard.timed
                                  \/ guard'.count = 0 /\ guard'.timed = FALSE
        /\ cpu.cause = "crash" =>
             /\ guard'.timed = TRUE
             /\ \/ guard'.count = 1
                \/ guard'.count <= guard.count + 1
                \/ guard.timed /\ guard'.count <= guard.count + 2
    BY <2>1, CountedGood DEF Inv, BootTypes
  <2>5. guard.count \in Nat /\ guard'.count \in Nat /\ past.crashes \in Nat
    BY <2>4, BootAssumption DEF Inv, BootTypes, Guard
  <2>6. Seen' = past.crashes /\ cpu.at = "boot"
    BY <2>1, <2>3 DEF Seen
  <2>7. CountIsEarned'
    <3>1. CASE cpu.cause = "crash"
      BY <2>4, <2>5, <2>6, <3>1 DEF Inv, CountIsEarned, CrashHappened, Seen
    <3>2. CASE cpu.cause # "crash"
      BY <2>4, <2>5, <2>6, <3>2 DEF Inv, CountIsEarned, Seen
    <3> QED BY <3>1, <3>2
  <2> QED BY <2>1, <2>2, <2>3, <2>4, <2>7 DEF Inv, BootTypes, CrashHappened, OwedIsMarked
<1> QED BY <1>1, <1>2

\* A restart asked for by software, with the block as it was or initialised
LEMMA RestartInv ==
  ASSUME Inv, Up, Restarted, UNCHANGED past, NEW g \in {guard, Cleared},
         NEW r \in BOOLEAN, guard' = [g EXCEPT !.reset = r] \/ guard' = g
  PROVE  BootTypes' /\ CrashHappened' /\ CountIsEarned'
<1>1. guard' \in Guard /\ guard'.count = g.count /\ guard'.timed = g.timed
  BY ClearedTypes DEF Inv, BootTypes, Guard
<1>2. cpu' \in [at : At, cause : Cause] /\ cpu'.cause = "soft"
  BY DEF Restarted, At, Cause
<1>3. Seen' = past.crashes /\ Seen = past.crashes /\ past.crashes \in Nat
  BY <1>2 DEF Seen, Up, Inv, BootTypes
<1>4. CountIsEarned'
  BY <1>1, <1>3 DEF Inv, CountIsEarned, Cleared
<1> QED BY <1>1, <1>2, <1>4 DEF Inv, BootTypes, CrashHappened

LEMMA NextInv == Inv /\ [Next]_vars => Inv'
<1> SUFFICES ASSUME Inv, [Next]_vars PROVE Inv'
  OBVIOUS
<1> cpu \in [at : At, cause : Cause] /\ cpu.at \in At
  BY DEF Inv, BootTypes
<1>1. CASE Boot
  BY <1>1, BootInv
<1>2. CASE Wipe
  <2>1. cpu' = [cpu EXCEPT !.at = "unflag"] /\ past' = [past EXCEPT !.owed = FALSE] /\ UNCHANGED guard
    BY <1>2 DEF Wipe
  <2>2. cpu'.at = "unflag" /\ past'.owed = FALSE /\ past'.crashes = past.crashes /\ cpu.at = "wipe"
    BY <1>2, <2>1 DEF Wipe, Inv, BootTypes
  <2>3. BootTypes'
    BY <2>1 DEF Inv, BootTypes, At, Cause
  <2>4. Seen' = Seen
    BY <2>2 DEF Seen
  <2> QED BY <2>1, <2>2, <2>3, <2>4 DEF Inv, CrashHappened, CountIsEarned, OwedIsMarked
<1>3. CASE Unflag
  <2>1. Clear /\ Restarted /\ cpu.at = "unflag"
    BY <1>3 DEF Unflag
  <2> QED BY <2>1, ClearInv DEF Restarted, At, Cause, Inv, OwedIsMarked
<1>4. CASE LoadConfig
  <2>1. cpu.at = "heal" /\ cpu' = [cpu EXCEPT !.at = "load"] /\ UNCHANGED <<guard, past>>
    BY <1>4 DEF LoadConfig, Healthy
  <2> QED BY <2>1, KeepInv DEF Inv, OwedIsMarked, At, Cause
<1>5. CASE DropCache \/ FormatAll
  <2>1. cpu.at = "heal" /\ Restarted /\ UNCHANGED <<guard, past>>
    BY <1>5 DEF DropCache, FormatAll, Level1, Level2
  <2> QED BY <2>1, KeepInv DEF Inv, OwedIsMarked, Restarted, At, Cause
<1>6. CASE CoolDown
  <2>1. cpu.at = "heal" /\ Restarted /\ (Clear \/ UNCHANGED <<guard, past>>)
    BY <1>6 DEF CoolDown, Level3
  <2>2. ~past.owed
    BY <2>1 DEF Inv, OwedIsMarked
  <2> QED BY <2>1, <2>2, KeepInv, ClearInv DEF Restarted, At, Cause
<1>7. CASE ConfigStep \/ CacheRecord \/ UseConfig \/ UNCHANGED vars
  <2>1. UNCHANGED <<guard, cpu, past>>
    BY <1>7 DEF ConfigStep, CacheRecord, UseConfig, vars, bootVars
  <2> QED
    BY <2>1 DEF Inv, BootTypes, CrashHappened, CountIsEarned, OwedIsMarked, Seen
<1>8. CASE ComeUp
  <2>1. /\ cpu.at = "load" /\ UNCHANGED <<guard, past>>
        /\ (cpu' = [cpu EXCEPT !.at = "safe"] \/ cpu' = [cpu EXCEPT !.at = "up"])
    BY <1>8 DEF ComeUp
  <2> QED BY <2>1, KeepInv DEF Inv, OwedIsMarked, At, Cause
<1>9. CASE Stable
  <2>1. Clear /\ UNCHANGED cpu /\ cpu.at \in {"up", "safe"}
    BY <1>9 DEF Stable, Up
  <2> QED BY <2>1, ClearInv DEF Inv, OwedIsMarked
<1>10. CASE Restart
  <2>1. Up /\ Restarted /\ UNCHANGED past /\ guard' \in {guard, Cleared} /\ ~past.owed
    BY <1>10 DEF Restart, Up, Inv, OwedIsMarked
  <2>2. BootTypes' /\ CrashHappened' /\ CountIsEarned'
    BY <2>1, RestartInv
  <2> QED BY <2>1, <2>2 DEF Inv, OwedIsMarked
<1>11. CASE RequestReset
  <2>1. /\ Up /\ Restarted /\ past' = [past EXCEPT !.owed = TRUE]
        /\ guard' = [IF guard.ok THEN guard ELSE Cleared EXCEPT !.reset = TRUE]
    BY <1>11 DEF RequestReset
  <2>2. guard' \in Guard /\ guard'.ok /\ guard'.reset
    BY <2>1, ClearedTypes DEF Inv, BootTypes, Guard, Cleared
  <2>3. \/ guard'.count = guard.count /\ guard'.timed = guard.timed
        \/ guard'.count = 0 /\ guard'.timed = FALSE
    <3>1. CASE guard.ok
      BY <2>1, <3>1 DEF Inv, BootTypes, Guard
    <3>2. CASE ~guard.ok
      BY <2>1, <3>2 DEF Cleared
    <3> QED BY <3>1, <3>2
  <2>4. /\ cpu' \in [at : At, cause : Cause]
        /\ cpu'.at = "boot" /\ cpu'.cause = "soft"
    BY <2>1 DEF Restarted, At, Cause
  <2>5. past' \in [crashes : Nat, owed : BOOLEAN] /\ past'.crashes = past.crashes
    BY <2>1 DEF Inv, BootTypes
  <2>6. Seen' = past.crashes /\ Seen = past.crashes
    BY <2>1, <2>4, <2>5 DEF Seen, Up
  <2>7. CountIsEarned'
    BY <2>3, <2>6 DEF Inv, CountIsEarned
  <2> QED BY <2>2, <2>4, <2>5, <2>7 DEF Inv, BootTypes, CrashHappened, OwedIsMarked
<1>12. CASE ResetNow
  <2>1. ~past.owed
    BY <1>12 DEF ResetNow, Up, Inv, OwedIsMarked
  <2>2. CASE Clear /\ Restarted
    BY <2>1, <2>2, ClearInv DEF Restarted, At, Cause
  <2>3. CASE UNCHANGED <<guard, cpu, past>>
    BY <2>3 DEF Inv, BootTypes, CrashHappened, CountIsEarned, OwedIsMarked, Seen
  <2> QED BY <1>12, <2>2, <2>3 DEF ResetNow
<1>13. CASE Crash
  <2>1. /\ past' = [past EXCEPT !.crashes = @ + 1] /\ UNCHANGED guard
        /\ cpu' = [at |-> "boot", cause |-> "crash"]
    BY <1>13 DEF Crash
  <2>2. past' \in [crashes : Nat, owed : BOOLEAN] /\ past'.crashes = past.crashes + 1 /\ past'.owed = past.owed
    BY <2>1 DEF Inv, BootTypes
  <2>3. past.crashes \in Nat /\ guard.count \in Nat /\ Seen \in Int /\ Seen <= past.crashes
    BY BootAssumption DEF Inv, BootTypes, Guard, Seen
  <2>4. Seen' = past.crashes
    BY <2>1, <2>2, <2>3 DEF Seen
  <2>5. CountIsEarned'
    BY <2>1, <2>3, <2>4 DEF Inv, CountIsEarned
  <2> QED BY <2>1, <2>2, <2>3, <2>5 DEF Inv, BootTypes, CrashHappened, OwedIsMarked, At, Cause
<1>14. CASE PowerLoss
  <2>1. cpu' = [at |-> "boot", cause |-> "power"]
    BY <1>14 DEF PowerLoss
  <2>2. CASE UNCHANGED <<guard, past>>
    BY <2>1, <2>2, KeepInv DEF Inv, OwedIsMarked, At, Cause
  <2>3. CASE guard' = Lost /\ past' = [crashes |-> 0, owed |-> FALSE]
    BY <2>1, <2>3, ClearedTypes
    DEF Inv, BootTypes, CrashHappened, CountIsEarned, OwedIsMarked, Lost, At, Cause
  <2> QED BY <1>14, <2>2, <2>3 DEF PowerLoss
<1> QED
  BY <1>1, <1>2, <1>3, <1>4, <1>5, <1>6, <1>7, <1>8, <1>9, <1>10, <1>11, <1>12, <1>13, <1>14
  DEF Next, BootStep

THEOREM CounterInvariant == Spec => []Inv
  BY InitInv, NextInv, PTL DEF Spec

-----------------------------------------------------------------------------
\* A factory reset that was asked for comes before the node is up again
\* (BootManager::run looks at the flag before it counts the crash).
THEOREM ResetIsNotForgotten == Spec => []ResetComesFirst
<1>1. Inv => ResetComesFirst
  BY DEF Inv, OwedIsMarked, ResetComesFirst
<1> QED BY <1>1, CounterInvariant, PTL

LEMMA LevelsAreEarned ==
  Inv => (DropCache => past.crashes >= 3) /\ (FormatAll => past.crashes >= 5)
<1> SUFFICES ASSUME Inv
             PROVE  (DropCache => past.crashes >= 3) /\ (FormatAll => past.crashes >= 5)
  OBVIOUS
<1>1. guard.count \in Nat /\ past.crashes \in Nat
  BY BootAssumption DEF Inv, BootTypes, Guard
<1>2. cpu.at = "heal" /\ guard.count >= 4 => 2 * past.crashes >= guard.count + 1
  BY <1>1 DEF Inv, CountIsEarned, Seen
<1>3. DropCache => cpu.at = "heal" /\ guard.count >= 4
  BY <1>1 DEF DropCache, Level1
<1>4. FormatAll => cpu.at = "heal" /\ guard.count >= 8
  BY <1>1 DEF FormatAll, Level2
<1> QED BY <1>1, <1>2, <1>3, <1>4

\* Self-healing deletes the cache after no fewer than three crashes, and formats
\* LittleFS after no fewer than five, all since the counter was last cleared
\* (incrementCrashCount counts a crash twice at most, and the first one once).
THEOREM HealingEarned == Spec => HealingIsEarned
  BY CounterInvariant, LevelsAreEarned, PTL DEF HealingIsEarned

-----------------------------------------------------------------------------
(* The files of the configuration                                          *)

\* What a save has left to do once config.tmp is open, written, and so on.
Opened == <<"write", "unback", "backup", "promote">>
Written == <<"unback", "backup", "promote">>
Rotating == <<"backup", "promote">>
Promoting == <<"promote">>
Moving == <<"move">>

\* The files never need the backup: before config.dat makes room, config.tmp is
\* whole, and it is never in an old layout.
FilesInv ==
  /\ IsGood(flash.dat) \/ flash.dat = Absent
  /\ IsGood(flash.tmp) => ~flash.tmp.old
  /\ IsGood(flash.bak) => IsGood(flash.dat) \/ IsGood(flash.tmp)

\* The configuration as the next save or getter is going to see it
Current == [cfg |-> ram.cfg, str |-> Strings]

\* No save has begun to write: there is no newer config.tmp beside a missing
\* config.dat, and what RAM and config.dat make together is what was asked for.
Settled ==
  /\ job.steps \in {<<>>, Save}
  /\ IsGood(flash.dat) \/ ~IsGood(flash.tmp)
  /\ asked = Current

\* A save has opened config.tmp, but not written it.
Emptied ==
  /\ job.steps = Opened
  /\ ~IsGood(flash.tmp)
  /\ ram.str # None
  /\ asked = ram

\* config.tmp holds what was asked for.
Complete ==
  /\ job.steps \in {Written, Rotating, Promoting}
  /\ ram.str # None
  /\ flash.tmp = Good(ram, FALSE)
  /\ asked = ram

\* load has found config.tmp in place of config.dat.
Found ==
  /\ job.client = "load"
  /\ job.steps = Moving
  /\ IsGood(flash.tmp)
  /\ ~IsGood(flash.dat)
  /\ asked = flash.tmp.config
  /\ ram = [cfg |-> asked.cfg, str |-> None]

\* The running call
Call ==
  \/ job = Off
  \/ /\ job.client \in {"load", "command", "uplink"}
     /\ Settled \/ Emptied \/ Complete \/ Found

\* Until load runs, nobody uses the configuration.
Place == cpu.at \in {"boot", "wipe", "unflag", "heal"} => job = Off

StoreTypes ==
  /\ flash \in Flash
  /\ ram \in [cfg : Values, str : Values \cup {None}]
  /\ job.client \in Client
  /\ job = [client |-> job.client, steps |-> job.steps]
  /\ asked \in Config
  /\ faults \in 0 .. MaxFaults

BootBounds == cache \in BOOLEAN /\ past.crashes \in 0 .. MaxCrashes

StoreInv == StoreTypes /\ FilesInv /\ Call /\ Place /\ BootBounds

-----------------------------------------------------------------------------
(* Files and steps.                                                        *)

LEMMA Kinds ==
  /\ Absent \in File /\ ~IsGood(Absent) /\ Absent.config = Factory /\ Absent.old = FALSE
  /\ Bad \in File /\ ~IsGood(Bad) /\ Bad.config = Factory /\ Bad.old = FALSE
  /\ Bad # Absent
  /\ Factory \in Config /\ Factory.cfg = Default /\ Factory.str = Default
  BY ConfigAssumption DEF Absent, Bad, IsGood, File, Factory, Config

LEMMA GoodFiles ==
  ASSUME NEW c \in Config, NEW old \in BOOLEAN
  PROVE  /\ Good(c, old) \in File /\ IsGood(Good(c, old)) /\ Good(c, old) # Absent
         /\ Good(c, old).config = c /\ Good(c, old).old = old
<1>1. Good(c, old) \in File
  BY DEF File
<1> QED BY <1>1 DEF Good, IsGood, Absent

LEMMA FileShape ==
  ASSUME NEW f \in File
  PROVE  f.config \in Config /\ f.old \in BOOLEAN /\ (f = Absent => ~IsGood(f))
<1>1. CASE f \in {Absent, Bad}
  BY <1>1, Kinds
<1>2. CASE f \notin {Absent, Bad}
  <2>1. PICK c \in Config, old \in BOOLEAN : f = Good(c, old)
    BY <1>2 DEF File
  <2> QED BY <2>1, GoodFiles
<1> QED BY <1>1, <1>2

LEMMA Steps ==
  /\ Save # <<>> /\ Head(Save) = "open" /\ Tail(Save) = Opened /\ SubSeq(Save, 6, Len(Save)) = <<>>
  /\ Opened # <<>> /\ Head(Opened) = "write" /\ Tail(Opened) = Written
  /\ SubSeq(Opened, 5, Len(Opened)) = <<>>
  /\ Written # <<>> /\ Head(Written) = "unback" /\ Tail(Written) = Rotating
  /\ Rotating # <<>> /\ Head(Rotating) = "backup" /\ Tail(Rotating) = Promoting
  /\ Promoting # <<>> /\ Head(Promoting) = "promote" /\ Tail(Promoting) = <<>>
  /\ Moving # <<>> /\ Head(Moving) = "move" /\ Tail(Moving) = <<>>
  BY DEF Save, Opened, Written, Rotating, Promoting, Moving

LEMMA Migrations == <<>> \o Moving = Moving
  BY DEF Moving

\* The three files, one by one
LEMMA FlashShape ==
  ASSUME NEW fl \in Flash
  PROVE  fl.dat \in File /\ fl.bak \in File /\ fl.tmp \in File
  BY DEF Flash

LEMMA RecoverableTyped ==
  ASSUME NEW fl \in Flash
  PROVE  Recoverable(fl) \in Config
  BY FlashShape, FileShape, Kinds DEF Recoverable

LEMMA EmptyShape ==
  /\ Empty \in Flash
  /\ Empty.dat = Absent /\ Empty.bak = Absent /\ Empty.tmp = Absent
  BY Kinds DEF Empty, Flash

LEMMA FormattedShape ==
  ASSUME flash \in Flash
  PROVE  /\ Formatted \in Flash
         /\ Formatted.dat = Absent /\ Formatted.bak = Absent /\ Formatted.tmp = Absent
         /\ Formatted.format = ~flash.format
         /\ Recoverable(Formatted) = Factory
<1>1. /\ Formatted \in Flash
      /\ Formatted.dat = Absent /\ Formatted.bak = Absent /\ Formatted.tmp = Absent
      /\ Formatted.format = ~flash.format
  BY EmptyShape DEF Formatted, Flash
<1> QED BY <1>1, Kinds DEF Recoverable

-----------------------------------------------------------------------------
(* Steps of the register.                                                  *)

RegisterStep == [Register!Next]_(Register!vars)

LEMMA Stutters ==
  ASSUME flash'.format = flash.format,
         Recoverable(flash)' = Recoverable(flash), asked' = asked
  PROVE  RegisterStep
  BY DEF RegisterStep, Register!vars

LEMMA Commits ==
  ASSUME flash'.format = flash.format,
         Recoverable(flash)' = asked, asked' = asked
  PROVE  RegisterStep
  BY DEF RegisterStep, Register!Next, Register!Commit

LEMMA Restarts ==
  ASSUME flash'.format = flash.format,
         Recoverable(flash)' = Recoverable(flash), asked' = Recoverable(flash)
  PROVE  RegisterStep
  BY DEF RegisterStep, Register!Next, Register!Restart

LEMMA Forgets ==
  ASSUME flash'.format = flash.format,
         Recoverable(flash)' = Recoverable(flash),
         asked' = [asked EXCEPT !.str = Recoverable(flash).str]
  PROVE  RegisterStep
  BY DEF RegisterStep, Register!Next, Register!Forget

LEMMA Wipes ==
  ASSUME flash'.format = ~flash.format,
         Recoverable(flash)' = Factory,
         asked' \in {Factory, asked, [asked EXCEPT !.str = Factory.str]}
  PROVE  RegisterStep
  BY DEF RegisterStep, Register!Next, Register!Wipe

LEMMA Changes ==
  ASSUME flash'.format = flash.format,
         Recoverable(flash)' = Recoverable(flash), NEW v \in Values,
         asked' = [asked EXCEPT !.cfg = v] \/ asked' = [asked EXCEPT !.str = v]
  PROVE  RegisterStep
  BY DEF RegisterStep, Register!Next, Register!Change

-----------------------------------------------------------------------------
(* The steps of save and load.                                             *)

\* Which call a step belongs to
LEMMA RunningCall ==
  ASSUME StoreInv
  PROVE  /\ job.steps # <<>> => job.client \in {"load", "command", "uplink"}
         /\ Running("open") => Settled /\ job.steps = Save
         /\ Running("write") => Emptied
         /\ Running("unback") => Complete /\ job.steps = Written
         /\ Running("backup") => Complete /\ job.steps = Rotating
         /\ Running("promote") => Complete /\ job.steps = Promoting
         /\ Running("move") => Found
<1>1. job.steps # <<>> => job # Off
  BY DEF Off
<1>2. job.steps \in {<<>>, Save, Opened, Written, Rotating, Promoting, Moving}
  <2>1. CASE job = Off
    BY <2>1 DEF Off
  <2>2. CASE job # Off
    BY <2>2 DEF StoreInv, Call, Settled, Emptied, Complete, Found
  <2> QED BY <2>1, <2>2
<1>3. job.steps # <<>> => job.client \in {"load", "command", "uplink"} /\ (Settled \/ Emptied \/ Complete \/ Found)
  BY <1>1 DEF StoreInv, Call
<1>4. Running("open") => job.steps = Save
  BY <1>2, Steps DEF Running
<1>5. Running("write") => job.steps = Opened
  BY <1>2, Steps DEF Running
<1>6. Running("unback") => job.steps = Written
  BY <1>2, Steps DEF Running
<1>7. Running("backup") => job.steps = Rotating
  BY <1>2, Steps DEF Running
<1>8. Running("promote") => job.steps = Promoting
  BY <1>2, Steps DEF Running
<1>9. Running("move") => job.steps = Moving
  BY <1>2, Steps DEF Running
<1>10. /\ Settled => job.steps \in {<<>>, Save}
       /\ Emptied => job.steps = Opened
       /\ Complete => job.steps \in {Written, Rotating, Promoting}
       /\ Found => job.steps = Moving
  BY DEF Settled, Emptied, Complete, Found
<1>11. /\ Save \notin {<<>>, Opened, Written, Rotating, Promoting, Moving}
       /\ Opened \notin {<<>>, Written, Rotating, Promoting, Moving}
       /\ Written \notin {<<>>, Rotating, Promoting, Moving}
       /\ Rotating \notin {<<>>, Promoting, Moving}
       /\ Promoting # <<>> /\ Moving # <<>>
       /\ Promoting # Moving
  BY Steps
<1>12. job.steps = Save => Settled
  BY <1>3, <1>10, <1>11
<1>13. job.steps = Opened => Emptied
  BY <1>3, <1>10, <1>11
<1>14. job.steps \in {Written, Rotating, Promoting} => Complete
  BY <1>3, <1>10, <1>11
<1>15. job.steps = Moving => Found
  BY <1>3, <1>10, <1>11
<1> QED
  BY <1>3, <1>4, <1>5, <1>6, <1>7, <1>8, <1>9, <1>12, <1>13, <1>14, <1>15

\* What a step of a call leaves as it is
LEMMA CallFrame ==
  ASSUME StoreInv, UNCHANGED bootVars, job.steps # <<>>
  PROVE  Place' /\ BootBounds'
<1>1. job # Off
  BY DEF Off
<1> QED BY <1>1 DEF StoreInv, Place, BootBounds, bootVars

LEMMA FaultTyped ==
  ASSUME StoreTypes, NEW k, Fault(k)
  PROVE  faults' \in 0 .. MaxFaults
  BY ConfigAssumption DEF Fault, StoreTypes

LEMMA StringsTyped ==
  ASSUME StoreTypes
  PROVE  Strings \in Values /\ Strings # None /\ Current \in Config
<1>1. flash.dat.config \in Config
  BY FlashShape, FileShape DEF StoreTypes
<1>2. Strings \in Values
  BY <1>1, ConfigAssumption DEF Strings, StoreTypes, Config
<1> QED BY <1>2, ConfigAssumption DEF Current, StoreTypes, Config

\* The strings that are read when RAM has none are those a restart would find.
LEMMA SettledStrings ==
  ASSUME StoreTypes, FilesInv, IsGood(flash.dat) \/ ~IsGood(flash.tmp)
  PROVE  Recoverable(flash).str = IF IsGood(flash.dat) THEN flash.dat.config.str ELSE Default
  BY Kinds DEF FilesInv, Recoverable

\* A save that gives up before it has written config.tmp
LEMMA GivesUp ==
  ASSUME StoreInv, UNCHANGED bootVars, faults' \in 0 .. MaxFaults, job.steps # <<>>,
         NEW n \in Nat, SaveFails(n), Skip(n) = <<>>,
         ~IsGood(flash.tmp) \/ IsGood(flash.dat), asked = Current
  PROVE  StoreInv' /\ RegisterStep
<1>1. /\ job'.steps = <<>> /\ job'.client = job.client /\ flash' = flash
      /\ job' = [client |-> job'.client, steps |-> job'.steps]
      /\ job.client \in {"load", "command", "uplink"}
  BY RunningCall DEF SaveFails, StoreInv, StoreTypes
<1>2. FilesInv'
  BY <1>1 DEF StoreInv, FilesInv
<1>3. Recoverable(flash)' = Recoverable(flash) /\ Recoverable(flash) \in Config
  BY <1>1, RecoverableTyped DEF StoreInv, StoreTypes, Recoverable
<1>4. CASE job.client = "command"
  <2>1. /\ ram' = [ram EXCEPT !.str = None]
        /\ asked' = [asked EXCEPT !.str = Recoverable(flash).str]
    BY <1>4 DEF SaveFails, Release
  <2>2. asked' \in Config /\ asked'.cfg = ram.cfg /\ asked'.str = Recoverable(flash).str
    BY <2>1, <1>3 DEF StoreInv, StoreTypes, Config, Current
  <2>3. ram' \in [cfg : Values, str : Values \cup {None}] /\ ram'.cfg = ram.cfg /\ ram'.str = None
    BY <2>1 DEF StoreInv, StoreTypes
  <2>4. Strings' = Recoverable(flash).str
    BY <2>3, <1>1, SettledStrings DEF Strings, StoreInv
  <2>5. asked' = Current'
    BY <2>2, <2>3, <2>4 DEF Current, Config
  <2> QED
    BY <1>1, <1>2, <1>3, <2>1, <2>2, <2>3, <2>5, CallFrame, Forgets
    DEF StoreInv, StoreTypes, Call, Settled
<1>5. CASE job.client # "command"
  <2>1. ram' = [ram EXCEPT !.str = Strings] /\ asked' = asked
    BY <1>5 DEF SaveFails
  <2>2. /\ ram' \in [cfg : Values, str : Values \cup {None}]
        /\ ram'.cfg = ram.cfg /\ ram'.str = Strings /\ ram'.str # None
    BY <2>1, StringsTyped DEF StoreInv, StoreTypes
  <2>3. asked' = Current'
    BY <2>1, <2>2 DEF Current, Strings
  <2> QED
    BY <1>1, <1>2, <1>3, <2>1, <2>2, <2>3, CallFrame, Stutters
    DEF StoreInv, StoreTypes, Call, Settled
<1> QED BY <1>4, <1>5

LEMMA OpenTmpKeeps ==
  ASSUME StoreInv, OpenTmp, UNCHANGED bootVars
  PROVE  StoreInv' /\ RegisterStep
<1>1. Settled /\ job.steps = Save /\ job.steps # <<>> /\ job.client \in {"load", "command", "uplink"}
  BY RunningCall, Steps DEF OpenTmp
<1>2. CASE Fault("write") /\ SaveFails(5)
  <2>1. Skip(5) = <<>>
    BY <1>1, Steps DEF Skip
  <2>2. faults' \in 0 .. MaxFaults
    BY <1>2, FaultTyped DEF StoreInv
  <2> QED BY <1>1, <1>2, <2>1, <2>2, GivesUp DEF Settled
<1>3. CASE /\ Done([flash EXCEPT !.tmp = Bad])
           /\ ram' = [ram EXCEPT !.str = Strings]
           /\ UNCHANGED <<asked, faults>>
  <2>1. /\ flash' \in Flash /\ flash'.dat = flash.dat /\ flash'.bak = flash.bak /\ flash'.tmp = Bad
        /\ flash'.format = flash.format
    BY <1>3, Kinds DEF Done, StoreInv, StoreTypes, Flash
  <2>2. /\ job'.steps = Opened /\ job'.client = job.client
        /\ job' = [client |-> job'.client, steps |-> job'.steps]
    BY <1>1, <1>3, Steps DEF Done, StoreInv, StoreTypes
  <2>3. /\ ram' \in [cfg : Values, str : Values \cup {None}]
        /\ ram'.cfg = ram.cfg /\ ram'.str = Strings /\ ram'.str # None
    BY <1>3, StringsTyped DEF StoreInv, StoreTypes
  <2>4. asked' = ram'
    BY <1>1, <1>3, <2>3 DEF Settled, Current
  <2>5. FilesInv'
    BY <1>1, <2>1, Kinds DEF StoreInv, FilesInv, Settled
  <2>6. Recoverable(flash)' = Recoverable(flash)
    BY <1>1, <2>1, Kinds DEF Recoverable, Settled, StoreInv, FilesInv
  <2> QED
    BY <1>1, <1>3, <2>1, <2>2, <2>3, <2>4, <2>5, <2>6, Kinds, CallFrame, Stutters
    DEF StoreInv, StoreTypes, Call, Emptied
<1> QED BY <1>2, <1>3 DEF OpenTmp

LEMMA WriteTmpKeeps ==
  ASSUME StoreInv, WriteTmp, UNCHANGED bootVars
  PROVE  StoreInv' /\ RegisterStep
<1>1. Emptied /\ job.steps # <<>> /\ job.client \in {"load", "command", "uplink"}
  BY RunningCall, Steps DEF WriteTmp, Emptied
<1>2. CASE Fault("write") /\ SaveFails(4)
  <2>1. Skip(4) = <<>>
    BY <1>1, Steps DEF Skip, Emptied
  <2>2. faults' \in 0 .. MaxFaults
    BY <1>2, FaultTyped DEF StoreInv
  <2>3. asked = Current
    BY <1>1 DEF Emptied, Current, Strings, StoreInv, StoreTypes
  <2> QED BY <1>1, <1>2, <2>1, <2>2, <2>3, GivesUp DEF Emptied
<1>3. CASE Done([flash EXCEPT !.tmp = Good(ram, FALSE)]) /\ UNCHANGED <<ram, asked, faults>>
  <2>1. ram = asked /\ ram \in Config /\ ram.str # None
    BY <1>1 DEF Emptied, StoreInv, StoreTypes
  <2>2. Good(ram, FALSE) \in File /\ IsGood(Good(ram, FALSE)) /\ Good(ram, FALSE).config = ram /\ Good(ram, FALSE).old = FALSE
    BY <2>1, GoodFiles
  <2>3. /\ flash' \in Flash /\ flash'.dat = flash.dat /\ flash'.bak = flash.bak
        /\ flash'.tmp = Good(ram, FALSE) /\ flash'.format = flash.format
    BY <1>3, <2>2 DEF Done, StoreInv, StoreTypes, Flash
  <2>4. /\ job'.steps = Written /\ job'.client = job.client
        /\ job' = [client |-> job'.client, steps |-> job'.steps]
    BY <1>1, <1>3, Steps DEF Done, StoreInv, StoreTypes, Emptied
  <2>5. FilesInv'
    BY <2>2, <2>3 DEF StoreInv, FilesInv
  <2>6. Complete'
    BY <1>3, <2>1, <2>3, <2>4 DEF Complete
  <2>7. StoreInv'
    BY <1>1, <1>3, <2>3, <2>4, <2>5, <2>6, CallFrame DEF StoreInv, StoreTypes, Call
  <2>8. CASE IsGood(flash.dat)
    <3>1. Recoverable(flash)' = Recoverable(flash)
      BY <2>3, <2>8 DEF Recoverable
    <3> QED BY <1>3, <2>3, <2>7, <3>1, Stutters
  <2>9. CASE ~IsGood(flash.dat)
    <3>1. Recoverable(flash)' = asked
      BY <2>1, <2>2, <2>3, <2>9 DEF Recoverable
    <3> QED BY <1>3, <2>3, <2>7, <3>1, Commits
  <2> QED BY <2>8, <2>9
<1> QED BY <1>2, <1>3 DEF WriteTmp

\* While config.tmp is complete, every restart finds it unless config.dat is good.
LEMMA CompleteFiles ==
  ASSUME StoreInv, Complete
  PROVE  /\ ram = asked /\ ram \in Config /\ ram.str # None
         /\ IsGood(flash.tmp) /\ flash.tmp.config = asked /\ flash.tmp.old = FALSE
         /\ flash.tmp # Absent
         /\ Recoverable(flash) = IF IsGood(flash.dat) THEN flash.dat.config ELSE asked
<1>1. ram = asked /\ ram \in Config /\ ram.str # None /\ flash.tmp = Good(ram, FALSE)
  BY DEF StoreInv, StoreTypes, Complete
<1>2. /\ IsGood(flash.tmp) /\ flash.tmp.config = asked /\ flash.tmp.old = FALSE
      /\ flash.tmp # Absent
  BY <1>1, GoodFiles
<1> QED BY <1>1, <1>2 DEF Recoverable

LEMMA RemoveBackupKeeps ==
  ASSUME StoreInv, RemoveBackup, UNCHANGED bootVars
  PROVE  StoreInv' /\ RegisterStep
<1>1. Complete /\ job.steps = Written /\ job.steps # <<>> /\ job.client \in {"load", "command", "uplink"}
  BY RunningCall, Steps DEF RemoveBackup
<1>2. /\ job'.steps = Rotating /\ job'.client = job.client
      /\ job' = [client |-> job'.client, steps |-> job'.steps]
  BY <1>1, Steps DEF RemoveBackup, Done, StoreInv, StoreTypes
<1>3. /\ flash' \in Flash /\ flash'.dat = flash.dat /\ flash'.tmp = flash.tmp
      /\ flash'.bak \in {flash.bak, Absent} /\ flash'.format = flash.format
  BY Kinds DEF RemoveBackup, Done, StoreInv, StoreTypes, Flash
<1>4. faults' \in 0 .. MaxFaults /\ ram' = ram /\ asked' = asked
  BY FaultTyped DEF RemoveBackup, StoreInv, StoreTypes
<1>5. FilesInv' /\ Recoverable(flash)' = Recoverable(flash)
  BY <1>1, <1>3, Kinds, CompleteFiles DEF StoreInv, FilesInv, Recoverable
<1>6. Complete'
  BY <1>1, <1>2, <1>3, <1>4 DEF Complete
<1> QED
  BY <1>1, <1>2, <1>3, <1>4, <1>5, <1>6, CallFrame, Stutters DEF StoreInv, StoreTypes, Call

LEMMA KeepBackupKeeps ==
  ASSUME StoreInv, KeepBackup, UNCHANGED bootVars
  PROVE  StoreInv' /\ RegisterStep
<1>1. Complete /\ job.steps = Rotating /\ job.steps # <<>> /\ job.client \in {"load", "command", "uplink"}
  BY RunningCall, Steps DEF KeepBackup
<1>2. /\ job'.steps = Promoting /\ job'.client = job.client
      /\ job' = [client |-> job'.client, steps |-> job'.steps]
  BY <1>1, Steps DEF KeepBackup, Done, StoreInv, StoreTypes
<1>3. \/ flash' = flash
      \/ /\ flash.dat # Absent
         /\ flash' = [flash EXCEPT !.bak = flash.dat, !.dat = Absent]
  BY DEF KeepBackup, Done
<1>4. /\ flash' \in Flash /\ flash'.tmp = flash.tmp /\ flash'.format = flash.format
      /\ \/ flash'.dat = flash.dat /\ flash'.bak = flash.bak
         \/ flash'.dat = Absent
  BY <1>3, Kinds DEF StoreInv, StoreTypes, Flash
<1>5. faults' \in 0 .. MaxFaults /\ ram' = ram /\ asked' = asked
  BY FaultTyped DEF KeepBackup, StoreInv, StoreTypes
<1>6. FilesInv'
  BY <1>1, <1>4, CompleteFiles DEF StoreInv, FilesInv
<1>7. Complete'
  BY <1>1, <1>2, <1>4, <1>5 DEF Complete
<1>8. StoreInv'
  BY <1>1, <1>2, <1>4, <1>5, <1>6, <1>7, CallFrame DEF StoreInv, StoreTypes, Call
<1>9. CASE flash'.dat = flash.dat
  <2>1. Recoverable(flash)' = Recoverable(flash)
    BY <1>1, <1>4, <1>9, CompleteFiles DEF Recoverable
  <2> QED BY <1>4, <1>5, <1>8, <2>1, Stutters
<1>10. CASE flash'.dat = Absent
  <2>1. Recoverable(flash)' = asked
    BY <1>1, <1>4, <1>10, Kinds, CompleteFiles DEF Recoverable
  <2> QED BY <1>4, <1>5, <1>8, <2>1, Commits
<1> QED BY <1>4, <1>9, <1>10

\* config.tmp takes the place of config.dat.
LEMMA PromotedFiles ==
  ASSUME StoreTypes, FilesInv, IsGood(flash.tmp), flash' = Promoted
  PROVE  /\ flash' \in Flash /\ FilesInv'
         /\ flash'.dat = flash.tmp /\ IsGood(flash'.dat) /\ ~IsGood(flash'.tmp)
         /\ Recoverable(flash)' = flash.tmp.config /\ flash'.format = flash.format
<1>1. /\ flash' \in Flash /\ flash'.dat = flash.tmp /\ flash'.tmp = Absent /\ flash'.bak = flash.bak
      /\ flash'.format = flash.format
  BY Kinds DEF Promoted, StoreTypes, Flash
<1> QED BY <1>1, Kinds DEF FilesInv, Recoverable

LEMMA PromoteTmpKeeps ==
  ASSUME StoreInv, PromoteTmp, UNCHANGED bootVars
  PROVE  StoreInv' /\ RegisterStep
<1>1. Complete /\ job.steps = Promoting /\ job.steps # <<>> /\ job.client \in {"load", "command", "uplink"}
  BY RunningCall, Steps DEF PromoteTmp
<1>2. /\ job'.steps = <<>> /\ job'.client = job.client
      /\ job' = [client |-> job'.client, steps |-> job'.steps]
  BY <1>1, Steps DEF PromoteTmp, Done, StoreInv, StoreTypes
<1>3. /\ flash' \in Flash /\ FilesInv'
      /\ IsGood(flash'.dat) /\ flash'.dat.config = asked
      /\ Recoverable(flash)' = asked /\ flash'.format = flash.format
  BY <1>1, PromotedFiles, CompleteFiles DEF PromoteTmp, Done, StoreInv
<1>4. faults' = faults /\ asked' = asked
  BY DEF PromoteTmp
<1>5. /\ ram' \in [cfg : Values, str : Values \cup {None}]
      /\ ram'.cfg = asked.cfg
      /\ ram'.str = None \/ (ram'.str = asked.str /\ ram'.str # None)
  <2>1. ram = asked /\ ram.str # None
    BY <1>1, CompleteFiles
  <2>2. ram' = ram \/ ram' = [ram EXCEPT !.str = None]
    BY DEF PromoteTmp, Release
  <2> QED BY <2>1, <2>2 DEF StoreInv, StoreTypes
<1>6. Strings' = asked.str
  BY <1>3, <1>5 DEF Strings
<1>7. asked' = Current'
  BY <1>4, <1>5, <1>6 DEF Current, StoreInv, StoreTypes, Config
<1>8. Settled'
  BY <1>2, <1>3, <1>7 DEF Settled
<1> QED
  BY <1>1, <1>2, <1>3, <1>4, <1>5, <1>8, CallFrame, Commits DEF StoreInv, StoreTypes, Call

LEMMA FinishMoveKeeps ==
  ASSUME StoreInv, FinishMove, UNCHANGED bootVars
  PROVE  StoreInv' /\ RegisterStep
<1>1. Found /\ job.steps = Moving /\ job.steps # <<>> /\ job.client = "load"
  BY RunningCall, Steps DEF FinishMove, Found
<1>2. /\ job'.steps = <<>> /\ job'.client = job.client
      /\ job' = [client |-> job'.client, steps |-> job'.steps]
  BY <1>1, Steps DEF FinishMove, Done, StoreInv, StoreTypes
<1>3. flash.tmp # Absent /\ IsGood(flash.tmp)
  BY <1>1, Kinds DEF Found
<1>4. /\ flash' \in Flash /\ FilesInv'
      /\ IsGood(flash'.dat) /\ flash'.dat.config = asked
      /\ Recoverable(flash)' = asked /\ flash'.format = flash.format
  BY <1>1, <1>3, PromotedFiles DEF FinishMove, Done, StoreInv, Found
<1>5. faults' = faults /\ asked' = asked /\ ram' = ram
  BY DEF FinishMove
<1>6. ram'.cfg = asked.cfg /\ ram'.str = None
  BY <1>1, <1>5 DEF Found
<1>7. asked' = Current'
  BY <1>4, <1>5, <1>6 DEF Current, Strings, StoreInv, StoreTypes, Config
<1>8. Settled'
  BY <1>2, <1>4, <1>7 DEF Settled
<1> QED
  BY <1>1, <1>2, <1>4, <1>5, <1>8, CallFrame, Commits DEF StoreInv, StoreTypes, Call

LEMMA FileStepKeeps ==
  ASSUME StoreInv, FileStep, UNCHANGED bootVars
  PROVE  StoreInv' /\ RegisterStep
  BY OpenTmpKeeps, WriteTmpKeeps, RemoveBackupKeeps, KeepBackupKeeps, PromoteTmpKeeps, FinishMoveKeeps
  DEF FileStep

-----------------------------------------------------------------------------
(* Resets, formats and what is found at boot.                              *)

LEMMA OffTyped == Off.client = "off" /\ Off = [client |-> Off.client, steps |-> Off.steps]
  BY DEF Off

\* A new file system promises nothing to anybody.
LEMMA FormattedFiles ==
  ASSUME flash \in Flash, flash' = Formatted
  PROVE  /\ flash' \in Flash /\ FilesInv' /\ Recoverable(flash)' = Factory
         /\ flash'.format = ~flash.format
  BY FormattedShape, Kinds DEF FilesInv, Recoverable

LEMMA SameFiles ==
  ASSUME StoreInv, flash' = flash
  PROVE  /\ flash' \in Flash /\ FilesInv'
         /\ Recoverable(flash)' = Recoverable(flash) /\ Recoverable(flash) \in Config
  BY RecoverableTyped DEF StoreInv, StoreTypes, FilesInv, Recoverable

LEMMA ResetKeeps ==
  ASSUME StoreInv, Reset, faults' = faults, BootBounds'
  PROVE  StoreInv' /\ RegisterStep
<1>1. job' = Off /\ ram' = NoRam /\ asked' = Recoverable(flash)
  BY DEF Reset
<1>2. NoRam \in [cfg : Values, str : Values \cup {None}]
  BY ConfigAssumption DEF NoRam
<1>3. StoreTypes'
  BY <1>1, <1>2, OffTyped, SameFiles DEF StoreInv, StoreTypes, Reset, Client
<1> QED
  BY <1>1, <1>3, SameFiles, Restarts DEF StoreInv, Reset, Call, Place

\* The mount at boot finds the files as they were, or has formatted them.
LEMMA MountedFiles ==
  ASSUME StoreInv, NEW fl, NEW c, Mount(fl, c), flash' = fl, asked' = Recoverable(fl)
  PROVE  /\ flash' \in Flash /\ FilesInv' /\ asked' \in Config
         /\ faults' \in 0 .. MaxFaults
         /\ RegisterStep
<1>1. CASE fl = flash /\ UNCHANGED faults
  BY <1>1, SameFiles, Restarts DEF StoreInv, StoreTypes
<1>2. CASE fl = Formatted /\ Fault("mount")
  BY <1>2, FormattedFiles, FormattedShape, FaultTyped, Kinds, Wipes DEF StoreInv, StoreTypes
<1> QED BY <1>1, <1>2 DEF Mount

\* Before load nobody has a call to finish.
LEMMA OffKeeps ==
  ASSUME StoreInv, job = Off, UNCHANGED <<ram, job>>, BootBounds',
         flash' \in Flash, FilesInv', asked' \in Config, faults' \in 0 .. MaxFaults
  PROVE  StoreInv'
  BY DEF StoreInv, StoreTypes, Call, Place

\* load leaves itself the steps that fit what it found.
LEMMA LoadSettles ==
  ASSUME NEW fl \in Flash, Load(fl), FilesInv', faults' \in 0 .. MaxFaults
  PROVE  StoreTypes' /\ Call'
<1> USE DEF Load
<1>1. /\ flash' = fl /\ job'.client = "load" /\ job'.steps = StepsAfter(fl)
      /\ job' = [client |-> job'.client, steps |-> job'.steps]
      /\ asked' = Recoverable(fl) /\ asked' \in Config
      /\ ram' = RamAfter(fl)
  BY RecoverableTyped
<1>2. /\ IsGood(fl.dat) \/ fl.dat = Absent
      /\ IsGood(fl.tmp) => ~fl.tmp.old
      /\ IsGood(fl.bak) => IsGood(fl.dat) \/ IsGood(fl.tmp)
  BY <1>1 DEF FilesInv
<1>3. /\ Source(fl) \in File
      /\ asked' = Source(fl).config
  BY <1>1, FlashShape, Kinds DEF Source, Recoverable
<1>4. /\ ram'.cfg = asked'.cfg /\ asked'.cfg \in Values /\ asked'.str \in Values
      /\ ram' \in [cfg : Values, str : Values \cup {None}]
      /\ ram'.str = IF Source(fl).old \/ ~IsGood(Source(fl)) THEN asked'.str ELSE None
  BY <1>1, <1>3 DEF RamAfter, Config
<1>5. asked'.str # None /\ asked' = [cfg |-> asked'.cfg, str |-> asked'.str]
  BY <1>1, <1>4, ConfigAssumption DEF Config
<1>6. CASE IsGood(fl.dat)
  <2>1. Source(fl) = fl.dat
    BY <1>6 DEF Source
  <2>2. job'.steps \in {<<>>, Save}
    BY <1>1, <1>6 DEF StepsAfter
  <2>3. Strings' = asked'.str
    BY <1>1, <1>3, <1>4, <1>5, <1>6, <2>1 DEF Strings
  <2>4. asked' = Current'
    BY <1>4, <1>5, <2>3 DEF Current
  <2> QED
    BY <1>1, <1>4, <1>6, <2>2, <2>4 DEF Call, Settled, StoreTypes, Client
<1>7. CASE ~IsGood(fl.dat) /\ IsGood(fl.tmp)
  <2>1. Source(fl) = fl.tmp /\ fl.tmp.old = FALSE
    BY <1>2, <1>7, FlashShape, FileShape DEF Source
  <2>2. job'.steps = Moving
    BY <1>1, <1>7, <2>1, Migrations DEF StepsAfter, Moving
  <2>3. ram'.str = None
    BY <1>4, <1>7, <2>1
  <2>4. ram' = [cfg |-> asked'.cfg, str |-> None]
    BY <1>4, <2>3
  <2> QED
    BY <1>1, <1>3, <1>4, <1>7, <2>1, <2>2, <2>4 DEF Call, Found, StoreTypes, Client
<1>8. CASE ~IsGood(fl.dat) /\ ~IsGood(fl.tmp)
  <2>1. Source(fl) = Absent /\ ~IsGood(fl.bak) /\ ~IsGood(Absent)
    BY <1>2, <1>8, Kinds DEF Source
  <2>2. job'.steps = Save
    BY <1>1, <1>8, <2>1 DEF StepsAfter
  <2>3. ram'.str = asked'.str
    BY <1>4, <2>1
  <2>4. Strings' = asked'.str
    BY <1>5, <2>3 DEF Strings
  <2>5. asked' = Current'
    BY <1>4, <1>5, <2>4 DEF Current
  <2> QED
    BY <1>1, <1>4, <1>8, <2>2, <2>5 DEF Call, Settled, StoreTypes, Client
<1> QED BY <1>6, <1>7, <1>8

LEMMA FormatKeeps ==
  ASSUME StoreInv, job = Off, Format
  PROVE  /\ flash' \in Flash /\ FilesInv' /\ asked' \in Config /\ faults' \in 0 .. MaxFaults
         /\ UNCHANGED <<ram, job>> /\ cache' \in BOOLEAN
         /\ RegisterStep
<1>1. CASE flash' = Formatted /\ cache' = FALSE /\ asked' = Factory /\ UNCHANGED <<ram, job, faults>>
  BY <1>1, FormattedFiles, Kinds, Wipes DEF StoreInv, StoreTypes
<1>2. CASE Fault("format") /\ UNCHANGED <<flash, cache, asked, ram, job>>
  BY <1>2, SameFiles, FaultTyped, Stutters DEF StoreInv, StoreTypes, BootBounds
<1> QED BY <1>1, <1>2 DEF Format

-----------------------------------------------------------------------------
(* What the main loop does with the configuration.                         *)

LEMMA UpCall ==
  ASSUME StoreInv, Idle
  PROVE  Settled /\ job.client \in {"command", "uplink"}
<1>1. job.client \in {"command", "uplink"} /\ job.steps = <<>>
  BY DEF Idle
<1>2. job # Off
  BY <1>1, OffTyped
<1> QED
  BY <1>1, <1>2, Steps DEF StoreInv, Call, Settled, Emptied, Complete, Found

LEMMA UpFrame ==
  ASSUME StoreInv, Up, UNCHANGED <<cpu, past>>, cache' \in BOOLEAN
  PROVE  Place' /\ BootBounds'
  BY DEF StoreInv, Up, Place, BootBounds

LEMMA CommandKeeps ==
  ASSUME StoreInv, Up, Command, UNCHANGED <<cpu, past, cache>>
  PROVE  StoreInv' /\ RegisterStep
<1>1. Idle /\ Settled
  BY UpCall DEF Up
<1>2. PICK v \in Values, client \in {"command", "uplink"} :
        /\ \/ ram' = [ram EXCEPT !.cfg = v] /\ asked' = [asked EXCEPT !.cfg = v]
           \/ /\ client = "command"
              /\ ram' = [ram EXCEPT !.str = v]
              /\ asked' = [asked EXCEPT !.str = v]
        /\ job' = [client |-> client, steps |-> Save]
  BY DEF Command
<1>3. flash' = flash /\ faults' = faults
  BY DEF Command
<1>4. /\ job'.steps = Save /\ job'.client \in {"command", "uplink"}
      /\ job' = [client |-> job'.client, steps |-> job'.steps]
  BY <1>2
<1>5. /\ asked.cfg = ram.cfg /\ asked.str = Strings /\ v # None
      /\ asked = [cfg |-> asked.cfg, str |-> asked.str]
  BY <1>1, ConfigAssumption DEF Settled, Current, StoreInv, StoreTypes, Config
<1>6. /\ ram' \in [cfg : Values, str : Values \cup {None}] /\ asked' \in Config
      /\ asked'.cfg = ram'.cfg
      /\ asked'.str = IF ram'.str # None THEN ram'.str ELSE asked.str
      /\ ram'.str = None => ram.str = None
  <2>1. CASE ram' = [ram EXCEPT !.cfg = v] /\ asked' = [asked EXCEPT !.cfg = v]
    BY <1>5, <2>1 DEF StoreInv, StoreTypes, Config, Strings
  <2>2. CASE ram' = [ram EXCEPT !.str = v] /\ asked' = [asked EXCEPT !.str = v]
    BY <1>5, <2>2 DEF StoreInv, StoreTypes, Config
  <2> QED BY <1>2, <2>1, <2>2
<1>7. Strings' = asked'.str
  BY <1>3, <1>5, <1>6 DEF Strings
<1>8. asked' = Current'
  BY <1>6, <1>7 DEF Current, Config
<1>9. Settled'
  BY <1>1, <1>3, <1>4, <1>8 DEF Settled
<1>10. RegisterStep
  BY <1>2, <1>3, SameFiles, Changes
<1>11. StoreTypes' /\ FilesInv'
  BY <1>3, <1>4, <1>6, SameFiles DEF StoreInv, StoreTypes, Client
<1>12. Place' /\ BootBounds'
  BY UpFrame DEF StoreInv, BootBounds
<1> QED BY <1>4, <1>9, <1>10, <1>11, <1>12 DEF StoreInv, Call

LEMMA ReadStringsKeeps ==
  ASSUME StoreInv, Up, ReadStrings, UNCHANGED <<cpu, past, cache>>
  PROVE  StoreInv' /\ RegisterStep
<1>1. Idle /\ Settled /\ job.client \in {"command", "uplink"}
  BY UpCall DEF Up
<1>2. /\ flash' = flash /\ faults' = faults /\ job' = job
      /\ ram' = [ram EXCEPT !.str = None]
      /\ asked' = [asked EXCEPT !.str = Recoverable(flash).str]
  BY DEF ReadStrings, Release
<1>3. asked.cfg = ram.cfg
  BY <1>1 DEF Settled, Current
<1>4. /\ ram' \in [cfg : Values, str : Values \cup {None}]
      /\ ram'.cfg = ram.cfg /\ ram'.str = None
  BY <1>2 DEF StoreInv, StoreTypes
<1>5. asked' \in Config /\ asked'.cfg = ram.cfg /\ asked'.str = Recoverable(flash).str
  BY <1>2, <1>3, SameFiles DEF StoreInv, StoreTypes, Config
<1>6. Strings' = Recoverable(flash).str
  BY <1>1, <1>2, <1>4, SettledStrings DEF Strings, StoreInv, Settled
<1>7. asked' = Current'
  BY <1>4, <1>5, <1>6 DEF Current, Config
<1>8. Settled'
  BY <1>1, <1>2, <1>7 DEF Settled
<1>9. RegisterStep
  BY <1>2, SameFiles, Forgets
<1>10. StoreTypes' /\ FilesInv'
  BY <1>2, <1>4, <1>5, SameFiles DEF StoreInv, StoreTypes
<1>11. Place' /\ BootBounds'
  BY UpFrame DEF StoreInv, BootBounds
<1> QED BY <1>1, <1>2, <1>8, <1>9, <1>10, <1>11 DEF StoreInv, Call

LEMMA FormatFsKeeps ==
  ASSUME StoreInv, Up, FormatFs, UNCHANGED <<cpu, past>>, cache' \in BOOLEAN
  PROVE  StoreInv' /\ RegisterStep
<1>1. Idle /\ Settled /\ job.client \in {"command", "uplink"}
  BY UpCall DEF Up
<1>2. /\ flash' = Formatted /\ UNCHANGED <<ram, job, faults>>
      /\ asked' = [asked EXCEPT !.str = IF ram.str = None THEN Default ELSE @]
  BY DEF FormatFs
<1>3. /\ asked.cfg = ram.cfg /\ asked.str = Strings
      /\ asked = [cfg |-> asked.cfg, str |-> asked.str]
  BY <1>1 DEF Settled, Current, StoreInv, StoreTypes, Config
<1>4. asked' = [asked EXCEPT !.str = IF ram.str = None THEN Default ELSE ram.str]
  BY <1>2, <1>3 DEF Strings
<1>5. /\ asked' \in Config /\ asked'.cfg = ram.cfg
      /\ asked'.str = IF ram.str = None THEN Default ELSE ram.str
  BY <1>3, <1>4, ConfigAssumption DEF StoreInv, StoreTypes, Config
<1>6. ~IsGood(flash'.dat) /\ ~IsGood(flash'.tmp)
  BY <1>2, FormattedShape, Kinds DEF StoreInv, StoreTypes
<1>7. Strings' = asked'.str
  BY <1>2, <1>5, <1>6 DEF Strings
<1>8. asked' = Current'
  BY <1>2, <1>5, <1>7 DEF Current, Config
<1>9. Settled'
  BY <1>1, <1>2, <1>6, <1>8 DEF Settled
<1>10. asked' \in {asked, [asked EXCEPT !.str = Factory.str]}
  <2>1. CASE ram.str = None
    BY <1>2, <2>1, Kinds
  <2>2. CASE ram.str # None
    BY <1>2, <1>3, <2>2
  <2> QED BY <2>1, <2>2
<1>11. RegisterStep
  BY <1>2, <1>10, FormattedFiles, Wipes DEF StoreInv, StoreTypes
<1>12. StoreTypes' /\ FilesInv'
  BY <1>2, <1>5, FormattedFiles DEF StoreInv, StoreTypes
<1> QED BY <1>1, <1>2, <1>9, <1>11, <1>12, UpFrame DEF StoreInv, Call

-----------------------------------------------------------------------------
(* Every step.                                                             *)

LEMMA InitStore == Init => StoreInv /\ Register!Init
<1> SUFFICES ASSUME Init PROVE StoreInv /\ Register!Init
  OBVIOUS
<1>1. /\ ram = NoRam /\ job = Off /\ asked = Recoverable(flash) /\ faults = 0
      /\ cache = FALSE /\ past.crashes = 0
  BY DEF Init, ConfigInit
<1>2. NoRam \in [cfg : Values, str : Values \cup {None}]
  BY ConfigAssumption DEF NoRam
<1>3. flash \in Flash /\ FilesInv
  <2>1. CASE flash = Empty
    BY <2>1, EmptyShape, Kinds DEF FilesInv
  <2>2. CASE flash # Empty
    <3>1. PICK old \in BOOLEAN : flash = [Empty EXCEPT !.dat = Good(Factory, old)]
      BY <2>2 DEF Init, ConfigInit
    <3>2. Good(Factory, old) \in File /\ IsGood(Good(Factory, old))
      BY Kinds, GoodFiles
    <3>3. /\ flash \in Flash /\ flash.dat = Good(Factory, old)
          /\ flash.tmp = Absent /\ flash.bak = Absent
      BY <3>1, <3>2, EmptyShape DEF Flash
    <3> QED BY <3>2, <3>3, Kinds DEF FilesInv
  <2> QED BY <2>1, <2>2
<1>4. asked \in Config
  BY <1>1, <1>3, RecoverableTyped
<1>5. faults \in 0 .. MaxFaults /\ BootBounds
  <2>1. 0 \in 0 .. MaxFaults /\ 0 \in 0 .. MaxCrashes
    BY ConfigAssumption, BootAssumption
  <2> QED BY <1>1, <2>1, Zenon DEF BootBounds
<1>6. StoreTypes
  BY <1>1, <1>2, <1>3, <1>4, <1>5, OffTyped DEF StoreTypes, Client
<1>7. Register!Init
  BY <1>1, <1>3 DEF Register!Init, Flash
<1> QED BY <1>1, <1>3, <1>5, <1>6, <1>7 DEF StoreInv, Call, Place

LEMMA NextStore == StoreInv /\ BootTypes /\ [Next]_vars => StoreInv' /\ RegisterStep
<1> SUFFICES ASSUME StoreInv, BootTypes, [Next]_vars PROVE StoreInv' /\ RegisterStep
  OBVIOUS
<1> cpu \in [at : At, cause : Cause] /\ past \in [crashes : Nat, owed : BOOLEAN]
  BY DEF BootTypes
<1> BootBounds /\ 0 \in 0 .. MaxCrashes
  BY BootAssumption DEF StoreInv
<1>1. CASE Boot \/ Unflag
  <2>1. UNCHANGED <<configVars, cache>> /\ cpu.at \in {"boot", "unflag"} /\ past'.crashes \in {0, past.crashes}
    BY <1>1 DEF Boot, Unflag, Clear
  <2>2. job = Off /\ BootBounds' /\ UNCHANGED <<flash, ram, job, asked, faults>>
    BY <2>1 DEF StoreInv, Place, BootBounds, configVars
  <2> QED BY <2>2, SameFiles, OffKeeps, Stutters DEF StoreInv, StoreTypes
<1>2. CASE Wipe
  <2>1. /\ Format /\ job = Off /\ past'.crashes = past.crashes
    BY <1>2 DEF Wipe, StoreInv, Place
  <2> QED BY <2>1, FormatKeeps, OffKeeps DEF BootBounds
<1>3. CASE LoadConfig
  <2>1. PICK fl \in {flash, Formatted}, c \in {cache, FALSE} : Mount(fl, c) /\ Load(fl) /\ cache' = c
    BY <1>3 DEF LoadConfig
  <2>2. fl \in Flash /\ flash' = fl /\ asked' = Recoverable(fl)
    BY <2>1, FormattedShape DEF Load, StoreInv, StoreTypes
  <2>3. FilesInv' /\ faults' \in 0 .. MaxFaults /\ RegisterStep
    BY <2>1, <2>2, MountedFiles
  <2>4. StoreTypes' /\ Call'
    BY <2>1, <2>2, <2>3, LoadSettles
  <2>5. cpu'.at = "load" /\ BootBounds'
    BY <1>3, <2>1 DEF LoadConfig, BootBounds
  <2> QED BY <2>3, <2>4, <2>5 DEF StoreInv, Place
<1>4. CASE DropCache
  <2>1. /\ job = Off /\ UNCHANGED <<ram, job, past>> /\ cache' = FALSE
    BY <1>4 DEF DropCache, Level1, StoreInv, Place
  <2>2. PICK fl \in {flash, Formatted}, c \in {cache, FALSE} :
          Mount(fl, c) /\ flash' = fl /\ asked' = Recoverable(fl)
    BY <1>4 DEF DropCache
  <2> QED BY <2>1, <2>2, MountedFiles, OffKeeps DEF BootBounds
<1>5. CASE FormatAll
  <2>1. Format /\ job = Off /\ past' = past
    BY <1>5 DEF FormatAll, Level2, StoreInv, Place
  <2> QED BY <2>1, FormatKeeps, OffKeeps DEF BootBounds
<1>6. CASE CoolDown
  <2>1. job = Off /\ UNCHANGED <<ram, job>> /\ past'.crashes \in {0, past.crashes}
    BY <1>6 DEF CoolDown, Level3, StoreInv, Place, Clear
  <2>2. PICK fl \in {flash, Formatted}, c \in {cache, FALSE} :
          Mount(fl, c) /\ flash' = fl /\ cache' = c /\ asked' = Recoverable(fl)
    BY <1>6 DEF CoolDown
  <2> QED BY <2>1, <2>2, MountedFiles, OffKeeps DEF BootBounds
<1>7. CASE ConfigStep
  BY <1>7, FileStepKeeps DEF ConfigStep
<1>8. CASE ComeUp
  <2>1. /\ job = [client |-> "load", steps |-> <<>>] /\ job' = [job EXCEPT !.client = "command"]
        /\ UNCHANGED <<flash, ram, asked, faults, cache, past>>
    BY <1>8 DEF ComeUp, Loaded
  <2>2. Settled
    <3>1. job.client = "load" /\ job.steps = <<>> /\ job # Off
      BY <2>1, OffTyped
    <3> QED BY <3>1, Steps DEF StoreInv, Call, Settled, Emptied, Complete, Found
  <2>3. job'.client = "command" /\ job'.steps = <<>> /\ job' = [client |-> job'.client, steps |-> job'.steps]
    BY <2>1
  <2>4. Settled'
    BY <2>1, <2>2, <2>3 DEF Settled, Current, Strings
  <2>5. cpu'.at \in {"safe", "up"}
    BY <1>8 DEF ComeUp
  <2> QED
    BY <2>1, <2>3, <2>4, <2>5, SameFiles, Stutters
    DEF StoreInv, StoreTypes, Call, Place, BootBounds, Client
<1>9. CASE Stable \/ CacheRecord
  <2>1. /\ UNCHANGED <<flash, ram, job, asked, faults, cpu>>
        /\ cache' \in BOOLEAN /\ past'.crashes \in {0, past.crashes}
    BY <1>9 DEF Stable, CacheRecord, configVars, Clear, BootBounds
  <2>2. Settled' = Settled
    BY <2>1 DEF Settled, Current, Strings
  <2>3. Call'
    BY <1>9, <2>1, <2>2, UpCall DEF Stable, CacheRecord, Up, Call
  <2> QED
    BY <2>1, <2>3, SameFiles, Stutters DEF StoreInv, StoreTypes, Place, BootBounds
<1>10. CASE UseConfig
  <2>1. Up /\ UNCHANGED <<cpu, past>> /\ FALSE \in BOOLEAN
    BY <1>10 DEF UseConfig
  <2>2. \/ Command /\ cache' = cache
        \/ ReadStrings /\ cache' = cache
        \/ FormatFs /\ cache' = FALSE
    BY <1>10 DEF UseConfig
  <2> QED BY <2>1, <2>2, CommandKeeps, ReadStringsKeeps, FormatFsKeeps
<1>11. CASE Restart \/ RequestReset \/ Crash \/ PowerLoss
  <2>1. Reset /\ UNCHANGED <<cache, faults>>
    BY <1>11 DEF Restart, RequestReset, Crash, PowerLoss
  <2>2. past'.crashes \in 0 .. MaxCrashes
    <3>1. CASE Restart \/ RequestReset
      BY <3>1 DEF Restart, RequestReset, BootBounds
    <3>2. CASE Crash
      BY <3>2, BootAssumption DEF Crash, BootBounds
    <3>3. CASE PowerLoss
      BY <3>3 DEF PowerLoss, BootBounds
    <3> QED BY <1>11, <3>1, <3>2, <3>3
  <2> QED BY <2>1, <2>2, ResetKeeps DEF BootBounds
<1>12. CASE ResetNow
  <2>1. CASE /\ Clear /\ flash' = Formatted /\ ram' = NoRam /\ job' = Off /\ asked' = Factory
             /\ UNCHANGED faults
    <3>1. NoRam \in [cfg : Values, str : Values \cup {None}]
      BY ConfigAssumption DEF NoRam
    <3>2. BootBounds'
      BY <1>12, <2>1 DEF ResetNow, BootBounds, Clear
    <3> QED
      BY <2>1, <3>1, <3>2, FormattedFiles, OffTyped, Kinds, Wipes
      DEF StoreInv, StoreTypes, Call, Place, Client
  <2>2. CASE Fault("format") /\ UNCHANGED <<flash, ram, job, asked, guard, cpu, past>>
    <3>1. Settled' = Settled
      BY <2>2 DEF Settled, Current, Strings
    <3>2. Call' /\ cache' = FALSE
      BY <1>12, <2>2, <3>1, UpCall DEF ResetNow, Up, Call
    <3> QED
      BY <2>2, <3>2, SameFiles, FaultTyped, Stutters
      DEF StoreInv, StoreTypes, Place, BootBounds
  <2> QED BY <1>12, <2>1, <2>2 DEF ResetNow
<1>13. CASE UNCHANGED vars
  <2>1. UNCHANGED <<flash, ram, job, asked, faults, cpu, cache, past>>
    BY <1>13 DEF vars, configVars, bootVars
  <2>2. Settled' = Settled /\ Emptied' = Emptied /\ Complete' = Complete /\ Found' = Found
    BY <2>1 DEF Settled, Emptied, Complete, Found, Current, Strings
  <2> QED
    BY <2>1, <2>2, SameFiles, Stutters DEF StoreInv, StoreTypes, Call, Place, BootBounds
<1> QED
  BY <1>1, <1>2, <1>3, <1>4, <1>5, <1>6, <1>7, <1>8, <1>9, <1>10, <1>11, <1>12, <1>13
  DEF Next, BootStep

THEOREM StoreInvariant == Spec => []StoreInv
<1>1. Inv => BootTypes
  BY DEF Inv
<1> QED BY <1>1, CounterInvariant, InitStore, NextStore, PTL DEF Spec

-----------------------------------------------------------------------------
\* The state of the boot and of the configuration's files is well typed
\* (ConfigManager, BootGuard and BootManager).
THEOREM BootTypeCorrect == Spec => []TypeOK
<1>1. StoreInv /\ Inv => TypeOK
  <2> SUFFICES ASSUME StoreInv, Inv PROVE TypeOK
    OBVIOUS
  <2>1. Len(job.steps) <= 2 * Len(Save)
    <3>1. Len(Save) = 5 /\ Len(<<>>) = 0 /\ Len(Opened) = 4 /\ Len(Written) = 3
      BY DEF Save, Opened, Written
    <3>2. Len(Rotating) = 2 /\ Len(Promoting) = 1 /\ Len(Moving) = 1
      BY DEF Rotating, Promoting, Moving
    <3>3. CASE job = Off
      BY <3>1, <3>3 DEF Off
    <3>4. CASE job # Off
      <4>1. job.steps \in {<<>>, Save, Opened, Written, Rotating, Promoting, Moving}
        BY <3>4 DEF StoreInv, Call, Settled, Emptied, Complete, Found
      <4>2. Len(job.steps) \in {0, 1, 2, 3, 4, 5}
        BY <3>1, <3>2, <4>1, Zenon
      <4>3. \A n \in {0, 1, 2, 3, 4, 5} : n <= 2 * 5
        OBVIOUS
      <4> QED BY <3>1, <4>2, <4>3, Zenon
    <3> QED BY <3>3, <3>4
  <2>2. ConfigTypeOK
    BY <2>1 DEF StoreInv, StoreTypes, ConfigTypeOK
  <2>3. past \in [crashes : 0 .. MaxCrashes, owed : BOOLEAN]
    BY DEF StoreInv, BootBounds, Inv, BootTypes
  <2> QED BY <2>2, <2>3 DEF TypeOK, StoreInv, BootBounds, Inv, BootTypes
<1> QED BY <1>1, StoreInvariant, CounterInvariant, PTL

\* Whatever step of a save, a load, a boot or a format a reset interrupts, the
\* next boot finds the old configuration or the one that was asked for, as a
\* whole (ConfigManager::save and load).
THEOREM FilesImplementRegister == Spec => ImplementsRegister
<1>1. Inv => BootTypes
  BY DEF Inv
<1> QED
  BY <1>1, CounterInvariant, InitStore, NextStore, StoreInvariant, PTL
  DEF Spec, ImplementsRegister, Register!Spec, RegisterStep
=============================================================================
