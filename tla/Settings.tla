------------------------------ MODULE Settings ------------------------------
(***************************************************************************)
(* The settings an operator changes from the terminal: the commands of     *)
(* lib/NodeCore/commands that write the configuration, the setters and     *)
(* getters of ConfigManager they call, and its strings, which are loaded   *)
(* from flash when somebody asks for one and freed again afterwards.       *)
(*                                                                         *)
(* ConfigManager::save is one step here, which succeeds or fails: its      *)
(* files, and what a crash does to them, are in ConfigStore.               *)
(***************************************************************************)
EXTENDS Integers

CONSTANTS
  Headers,     \* groups of fields of AppConfig, kept in RAM
  Strings,     \* fields of AppConfigStrings, see KnownStrings
  MaxRefusals  \* bound: saves that fail

KnownHeaders == {"timing", "calibration", "uplink"}
KnownStrings == {"upload", "ota", "token", "otaToken", "host", "ip", "portal"}

ASSUME SettingsAssumption ==
  /\ Headers \subseteq KnownHeaders
  /\ Strings \subseteq KnownStrings
  /\ MaxRefusals \in Nat

VARIABLES
  hdr,      \* m_config: what the node runs with
  strs,     \* m_strings, Unloaded when it is null
  disk,     \* the configuration file: [hdr, str]
  told,     \* history: the values the commands have said are set and saved
  refusals  \* the saves that failed

settings == <<hdr, strs, disk, told, refusals>>

\* "loose" is a URL that seturl takes and the check at loading does not: its
\* https:// is not in lower case, or it has less than 12 characters.
\* "short" is an interval setconfig takes and the limits of the field do not.
StringValues == {"factory", "empty", "set", "loose"}
HeaderValues == {"factory", "set", "short", "least"}
Unloaded == << >>

-----------------------------------------------------------------------------
(* ConfigManager                                                           *)

\* validateAndSanitizeStrings, without insecure HTTPS
Clean(f, v) == IF f \in {"upload", "ota"} /\ v = "loose" THEN "factory" ELSE v

\* validateAndSanitize
Clamp(h, v) == IF h = "timing" /\ v = "short" THEN "least" ELSE v

\* ensureStringsLoaded: the strings a getter hands out
InForce ==
  IF strs # Unloaded THEN strs ELSE [f \in Strings |-> Clean(f, disk.str[f])]

\* setAuthToken, setDataUploadUrl, ...: the strings with the change c in them
With(c) == [f \in Strings |-> IF f \in DOMAIN c THEN c[f] ELSE InForce[f]]

-----------------------------------------------------------------------------
(* What the commands ask for: functions from the fields they name          *)

Change(fields, v) == [f \in fields |-> v]

Urls == {Change(s, v) : s \in SUBSET {"upload", "ota"} \ {{}}, v \in StringValues}

\* The default of the OTA slot is no token of its own.
Tokens ==
  {[f \in s |-> IF f = "otaToken" /\ v = "factory" THEN "empty" ELSE v] :
     s \in SUBSET {"token", "otaToken"} \ {{}}, v \in {"factory", "empty", "set"}}

Gateways == {Change({f}, v) : f \in {"host", "ip"}, v \in {"factory", "empty", "set"}}
PortalPass == {Change({"portal"}, "set")}
Timings == {Change({"timing"}, v) : v \in {"set", "short"}}
Calibrations == {Change({"calibration"}, v) : v \in {"factory", "set"}}
Uplinks == {Change({"uplink"}, v) : v \in {"factory", "set"}}

Refused == refusals < MaxRefusals /\ refusals' = refusals + 1

\* Mutant of ChangeStrings: a failed save leaves the new strings loaded.
ChangeStringsKeepsLoaded(c) ==
  /\ DOMAIN c \subseteq Strings
  /\ \/ /\ disk' = [hdr |-> hdr, str |-> With(c)]
        /\ told' = [told EXCEPT !.str = [f \in Strings |-> IF f \in DOMAIN c THEN c[f] ELSE @[f]]]
        /\ strs' = Unloaded
        /\ UNCHANGED refusals
     \/ Refused /\ strs' = With(c) /\ UNCHANGED <<disk, told>>
  /\ UNCHANGED hdr

\* seturl, settoken, setgateway, setportalpass: set, save, free the strings,
\* and say how it went
ChangeStrings(c) ==
  /\ DOMAIN c \subseteq Strings
  /\ \/ /\ disk' = [hdr |-> hdr, str |-> With(c)]
        /\ told' = [told EXCEPT !.str = [f \in Strings |-> IF f \in DOMAIN c THEN c[f] ELSE @[f]]]
        /\ UNCHANGED refusals
     \/ Refused /\ UNCHANGED <<disk, told>>
  /\ strs' = Unloaded
  /\ UNCHANGED hdr

\* setconfig, setcal, resetcal, zerocal, uplink: m_config changes before the
\* save, and stays changed when it fails. uplink leaves the strings loaded.
ChangeHeader(c) ==
  LET new == [h \in Headers |-> IF h \in DOMAIN c THEN Clamp(h, c[h]) ELSE hdr[h]]
  IN /\ DOMAIN c \subseteq Headers
     /\ hdr' = new
     /\ strs' = IF "uplink" \in DOMAIN c THEN InForce ELSE Unloaded
     /\ \/ /\ disk' = [hdr |-> new, str |-> InForce]
           /\ told' = [told EXCEPT !.hdr = [h \in Headers |-> IF h \in DOMAIN c THEN c[h] ELSE @[h]]]
           /\ UNCHANGED refusals
        \/ Refused /\ UNCHANGED <<disk, told>>

Set ==
  \/ \E c \in Urls \cup Tokens \cup Gateways \cup PortalPass : ChangeStrings(c)
  \/ \E c \in Timings \cup Calibrations \cup Uplinks : ChangeHeader(c)

\* netconfig, getconfig and the show forms load the strings; so do the upload
\* cycle and the check of a password.
Load == strs = Unloaded /\ strs' = InForce /\ UNCHANGED <<hdr, disk, told, refusals>>

\* releaseStrings, by the command itself or by a callback while it prints
Release == strs # Unloaded /\ strs' = Unloaded /\ UNCHANGED <<hdr, disk, told, refusals>>

Factory ==
  [hdr |-> [h \in Headers |-> "factory"],
   str |-> [f \in Strings |-> IF f = "otaToken" THEN "empty" ELSE "factory"]]

SettingsInit ==
  /\ disk = Factory
  /\ hdr = Factory.hdr
  /\ strs = Unloaded
  /\ told = Factory
  /\ refusals = 0

\* A restart: load() reads the header again.
Reload ==
  /\ hdr' = [h \in Headers |-> Clamp(h, disk.hdr[h])]
  /\ strs' = Unloaded
  /\ UNCHANGED <<disk, told, refusals>>

SettingsNext == Set \/ Load \/ Release \/ Reload
SettingsSpec == SettingsInit /\ [][SettingsNext]_settings

-----------------------------------------------------------------------------
SettingsTypeOK ==
  /\ hdr \in [Headers -> HeaderValues]
  /\ strs \in {Unloaded} \cup [Strings -> StringValues]
  /\ disk \in [hdr : [Headers -> HeaderValues], str : [Strings -> StringValues]]
  /\ told \in [hdr : [Headers -> HeaderValues], str : [Strings -> StringValues]]
  /\ refusals \in 0 .. MaxRefusals

\* Whatever was refused, saved, freed and loaded again: the strings the node
\* works with are those of the last command that said they were saved, as
\* the check at loading passes them. A setter writes the very buffer the
\* getters read, so a failed save has to take it back.
StringsInForce == \A f \in Strings : InForce[f] = Clean(f, told.str[f])

\* "Upload URL updated and saved." and "[SUCCESS] ... set to ... ms." say that
\* the value given is the one set (SetUrlCommand.cpp:195, SetConfigCommand.cpp:60).
AnswersAreTrue == \A f \in Strings : InForce[f] = told.str[f]
=============================================================================
