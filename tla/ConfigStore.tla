---------------------------- MODULE ConfigStore ----------------------------
(***************************************************************************)
(* How ConfigManager keeps the configuration in LittleFS: save writes      *)
(* config.tmp and rotates config.dat to config.bak, load falls back from   *)
(* config.dat to config.tmp, config.bak and the factory defaults, and the  *)
(* strings of the configuration are in RAM only while someone needs them.  *)
(*                                                                         *)
(* A configuration has two parts: the numbers and flags of m_config, which *)
(* stay in RAM, and the strings, tokens and URLs of m_strings, which       *)
(* releaseStrings drops and ensureStringsLoaded reads back. An action is   *)
(* one operation on the file system, because the node can be reset between *)
(* any two of them; LittleFS makes each of them atomic.                    *)
(***************************************************************************)
EXTENDS Naturals, Sequences

CONSTANTS
  Values,   \* values of each part of the configuration
  Default,  \* the value a part has in FactoryDefaults
  None,     \* m_strings is null
  Faults,   \* what may go wrong, a subset of FaultKinds
  MaxFaults \* bound: faults

\* Writing config.tmp fails; its header alone is cut short, which save does not
\* check; rotating the backup fails; renaming config.tmp fails; config.dat gets
\* damaged; LittleFS cannot be formatted; LittleFS cannot be mounted.
FaultKinds == {"write", "header", "rotate", "promote", "rot", "format", "mount"}

ASSUME ConfigAssumption ==
  /\ Default \in Values
  /\ None \notin Values
  /\ Faults \subseteq FaultKinds
  /\ MaxFaults \in Nat

VARIABLES
  flash,  \* config.dat, config.bak and config.tmp, see Flash
  ram,    \* m_config and m_strings
  job,    \* the file operations that the running call has left, see Job
  asked,  \* history: the configuration the user has asked for
  faults  \* faults so far

configVars == <<flash, ram, job, asked, faults>>

Config == [cfg : Values, str : Values]
Factory == [cfg |-> Default, str |-> Default]

\* A file is missing, fails its checks, or holds a configuration, in the
\* present layout or in one of an older firmware.
Absent == [kind |-> "absent", config |-> Factory, old |-> FALSE]
Bad == [kind |-> "bad", config |-> Factory, old |-> FALSE]
Good(c, old) == [kind |-> "good", config |-> c, old |-> old]
IsGood(f) == f.kind = "good"

File == {Absent, Bad} \cup {Good(c, old) : c \in Config, old \in BOOLEAN}
Flash ==
  [dat : File, bak : File, tmp : File,
   format : BOOLEAN] \* history: flips when LittleFS is formatted
Empty == [dat |-> Absent, bak |-> Absent, tmp |-> Absent, format |-> FALSE]

\* LittleFS.format(), whoever calls it
Formatted == [Empty EXCEPT !.format = ~flash.format]

NoRam == [cfg |-> Default, str |-> None]

\* Mutant of Save: the files are rotated before there is a new one.
SaveRotatesFirst == <<"backup", "unback", "open", "write", "promote">>

\* The steps of save, in their order; "move" finishes a save found interrupted.
Save == <<"open", "write", "unback", "backup", "promote">>
Step == {"open", "write", "unback", "backup", "promote", "move"}
Client == {"off", "load", "command", "uplink"}
Job == [client : Client, steps : Seq(Step)]
Off == [client |-> "off", steps |-> <<>>]
Idle == job.client \in {"command", "uplink"} /\ job.steps = <<>>

-----------------------------------------------------------------------------
(* Reading.                                                                *)

\* load: the first file that can be read, or FactoryDefaults.
Source(fl) ==
  IF IsGood(fl.dat) THEN fl.dat
  ELSE IF IsGood(fl.tmp) THEN fl.tmp
  ELSE IF IsGood(fl.bak) THEN fl.bak
  ELSE Absent

\* The configuration that a restart is going to find.
Recoverable(fl) ==
  IF IsGood(fl.dat) THEN fl.dat.config
  ELSE IF IsGood(fl.tmp) THEN fl.tmp.config
  ELSE IF IsGood(fl.bak) THEN fl.bak.config
  ELSE Factory

\* ensureStringsLoaded, which looks at config.dat only
Strings == IF ram.str # None THEN ram.str
           ELSE IF IsGood(flash.dat) THEN flash.dat.config.str ELSE Default

\* What load has left to do with what it found: a file in an old layout is
\* saved in the new one, config.tmp is renamed, and a backup or the factory
\* defaults are saved. Only what is saved at once keeps its strings in RAM.
StepsAfter(fl) ==
  LET found == Source(fl)
      migrate == IF found.old THEN Save ELSE <<>>
  IN  IF IsGood(fl.dat) THEN migrate
      ELSE IF IsGood(fl.tmp) THEN migrate \o <<"move">>
      ELSE IF IsGood(fl.bak) THEN migrate \o Save
      ELSE Save

RamAfter(fl) ==
  LET found == Source(fl)
  IN  [cfg |-> found.config.cfg,
       str |-> IF found.old \/ ~IsGood(found) THEN found.config.str ELSE None]

\* load finds the files fl.
Load(fl) ==
  /\ job.client = "off"
  /\ flash' = fl
  /\ ram' = RamAfter(fl)
  /\ job' = [client |-> "load", steps |-> StepsAfter(fl)]
  /\ asked' = Recoverable(fl)

-----------------------------------------------------------------------------
(* Saving.                                                                 *)

\* The steps that are left when the save that is running returns early.
Skip(n) == SubSeq(job.steps, n + 1, Len(job.steps))

Fault(kind) == kind \in Faults /\ faults < MaxFaults /\ faults' = faults + 1

Release == ram' = [ram EXCEPT !.str = None]

\* save returns an error with n of its steps left. Every command then drops the
\* strings, changed or not, but uplink, which changes none; load keeps them.
SaveFails(n) ==
  /\ job' = [job EXCEPT !.steps = Skip(n)]
  /\ IF job.client = "command"
     THEN Release /\ asked' = [asked EXCEPT !.str = Recoverable(flash).str]
     ELSE ram' = [ram EXCEPT !.str = Strings] /\ UNCHANGED asked
  /\ UNCHANGED flash

Running(step) == job.steps # <<>> /\ Head(job.steps) = step

\* The step is done, and left the files fl.
Done(fl) ==
  /\ flash' = fl
  /\ job' = [job EXCEPT !.steps = Tail(job.steps)]

\* ensureStringsLoaded, and open for writing
OpenTmp ==
  /\ Running("open")
  /\ \/ /\ Done([flash EXCEPT !.tmp = Bad])
        /\ ram' = [ram EXCEPT !.str = Strings]
        /\ UNCHANGED <<asked, faults>>
     \/ Fault("write") /\ SaveFails(5)

\* Header and payload
WriteTmp ==
  /\ Running("write")
  /\ \/ Done([flash EXCEPT !.tmp = Good(ram, FALSE)]) /\ UNCHANGED <<ram, asked, faults>>
     \/ Fault("write") /\ SaveFails(4)

RemoveBackup ==
  /\ Running("unback")
  /\ \/ Done([flash EXCEPT !.bak = Absent]) /\ UNCHANGED faults
     \/ Fault("rotate") /\ Done(flash)
  /\ UNCHANGED <<ram, asked>>

KeepBackup ==
  /\ Running("backup")
  /\ \/ /\ Done(IF flash.dat = Absent THEN flash
                ELSE [flash EXCEPT !.bak = flash.dat, !.dat = Absent])
        /\ UNCHANGED faults
     \/ Fault("rotate") /\ Done(flash)
  /\ UNCHANGED <<ram, asked>>

Promoted == [flash EXCEPT !.dat = flash.tmp, !.tmp = Absent]

PromoteTmp ==
  /\ Running("promote")
  /\ Done(Promoted)
  /\ IF job.client = "uplink" THEN UNCHANGED ram ELSE Release
  /\ UNCHANGED <<asked, faults>>

\* load renames config.tmp, if it is still there.
FinishMove ==
  /\ Running("move")
  /\ Done(IF flash.tmp = Absent THEN flash ELSE Promoted)
  /\ UNCHANGED <<ram, asked, faults>>

FileStep ==
  \/ OpenTmp
  \/ WriteTmp
  \/ RemoveBackup
  \/ KeepBackup
  \/ PromoteTmp
  \/ FinishMove

\* load returns.
Loaded ==
  /\ job = [client |-> "load", steps |-> <<>>]
  /\ job' = [job EXCEPT !.client = "command"]
  /\ UNCHANGED <<flash, ram, asked, faults>>

-----------------------------------------------------------------------------
(* What others do with the configuration.                                  *)

\* A command sets a part of the configuration and calls save.
Command ==
  /\ Idle
  /\ \E v \in Values, client \in {"command", "uplink"} :
       /\ \/ ram' = [ram EXCEPT !.cfg = v] /\ asked' = [asked EXCEPT !.cfg = v]
          \/ /\ client = "command"
             /\ ram' = [ram EXCEPT !.str = v]
             /\ asked' = [asked EXCEPT !.str = v]
       /\ job' = [client |-> client, steps |-> Save]
  /\ UNCHANGED <<flash, faults>>

\* Whoever needs the strings loads them and then releases them.
ReadStrings ==
  /\ Idle
  /\ ram.str # None
  /\ Release
  /\ asked' = [asked EXCEPT !.str = Recoverable(flash).str]
  /\ UNCHANGED <<flash, job, faults>>

\* The format command, which leaves RAM alone
FormatFs ==
  /\ Idle
  /\ flash' = Formatted
  /\ asked' = [asked EXCEPT !.str = IF ram.str = None THEN Default ELSE @]
  /\ UNCHANGED <<ram, job, faults>>

\* The node is reset, at any moment.
Reset ==
  /\ ram' = NoRam
  /\ job' = Off
  /\ asked' = Recoverable(flash)
  /\ UNCHANGED flash

-----------------------------------------------------------------------------
(* Faults that save and load do not notice, or not in time.                *)

\* The header is cut short: config.tmp stays unreadable, and save goes on.
HeaderCutShort ==
  /\ Running("write")
  /\ Fault("header")
  /\ Done(flash)
  /\ UNCHANGED <<ram, asked>>

\* config.tmp cannot be renamed, after config.dat has been.
PromoteFails ==
  /\ Fault("promote")
  /\ \/ Running("promote") /\ SaveFails(1)
     \/ Running("move") /\ Done(flash) /\ UNCHANGED <<ram, asked>>

\* The payload of config.dat changes, so that its CRC is wrong.
Rot ==
  /\ job.steps = <<>>
  /\ IsGood(flash.dat)
  /\ Fault("rot")
  /\ flash' = [flash EXCEPT !.dat = Bad]
  /\ UNCHANGED <<ram, job, asked>>

Unnoticed == HeaderCutShort \/ PromoteFails \/ Rot

-----------------------------------------------------------------------------
\* A new node, one with a configuration, or one with that of an old firmware.
ConfigInit ==
  /\ flash \in {Empty} \cup {[Empty EXCEPT !.dat = Good(Factory, old)] : old \in BOOLEAN}
  /\ ram = NoRam
  /\ job = Off
  /\ asked = Recoverable(flash)
  /\ faults = 0

-----------------------------------------------------------------------------
(* Properties.                                                             *)

\* The files, m_config and m_strings have their types, and a call has only the
\* steps of its saves before it.
ConfigTypeOK ==
  /\ flash \in Flash
  /\ ram \in [cfg : Values, str : Values \cup {None}]
  /\ job.client \in Client /\ Len(job.steps) <= 2 * Len(Save)
  /\ asked \in Config
  /\ faults \in 0 .. MaxFaults

Register == INSTANCE ConfigRegister WITH
  stored <- Recoverable(flash),
  wanted <- asked,
  format <- flash.format

\* Whatever step of a save a reset or a fault that save notices interrupts, the
\* next boot finds the old configuration or the one that was asked for, as a
\* whole. Only a format of LittleFS (by self-healing, a factory reset, the
\* format command or a mount that fails) takes it back to the factory's: no
\* order of removing, renaming and writing the three files loses it.
ImplementsRegister == Register!Spec

\* What load finds it leaves as it is: it saves a backup, or a file of an older
\* firmware, to keep it, not to change it. ("Option: Save back to main to keep
\* in sync", ConfigManager.cpp:234.)
LoadKeepsConfig ==
  [][job.client = "load" /\ FileStep => Recoverable(flash') = Recoverable(flash)]_configVars
=============================================================================
