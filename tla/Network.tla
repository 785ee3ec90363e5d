------------------------------- MODULE Network -------------------------------
(***************************************************************************)
(* WifiManager with its list of known networks (WifiCredentialStore) and   *)
(* the captive portal (PortalServer), over the WiFi library.               *)
(*                                                                         *)
(* A pass of the main loop runs PortalServer::handle and then              *)
(* WifiManager::handle. Neither lets the library or a web request run in   *)
(* between, so a pass is one step; the library, the user and the requests  *)
(* act between two passes. The handlers are operators from one value of    *)
(* net to the set of values they may lead to.                              *)
(***************************************************************************)
EXTENDS Integers, Sequences, FiniteSets

CONSTANTS
  BuiltIns,  \* the networks of the greenhouse, the primary one first
  Saved,     \* the networks a user may add
  Hidden,    \* those of them that do not show their name
  None,
  Strengths, \* how strong networks may be, see Sightings
  MaxSaved,  \* MAX_SAVED_NETWORKS
  Channels,  \* length of LITE_SCAN_CHANNELS
  MaxFaults, \* bound: scans that fail
  MaxEdits   \* bound: requests of users

GH == {BuiltIns[i] : i \in DOMAIN BuiltIns}
Creds == GH \cup Saved

\* How strong a network was in the last scan. A hidden one is assumed to be in
\* range, at -95 dBm; Strong is more than 10 dB above Weak.
Away == 0
Assumed == 1
Weak == 2
Strong == 3

ASSUME NetworkAssumption ==
  /\ BuiltIns \in Seq(GH) /\ Strengths \subseteq Away .. Strong
  /\ GH \cap Saved = {} /\ Hidden \subseteq Saved /\ None \notin Creds
  /\ MaxSaved \in Nat \ {0} /\ Channels \in Nat \ {0}
  /\ MaxFaults \in Nat /\ MaxEdits \in Nat

VARIABLES
  net,    \* the state of the three components and of the radio, see NetType
  faults, \* scans that failed so far
  edits   \* requests so far

vars == <<net, faults, edits>>

Sightings == [Creds \ Hidden -> Strengths]

States == {"INITIALIZING", "SCANNING", "CONNECTING_STA", "CONNECTED_STA", "PORTAL_MODE"}
Index == 1 .. MaxSaved

NetType ==
  [state : States,
   scan : BOOLEAN, roam : BOOLEAN,        \* m_scanInProgress, m_roamingScanInProgress
   lite : BOOLEAN, forced : BOOLEAN,      \* m_liteScan..., m_forcePortalScanInProgress
   force : BOOLEAN,                       \* m_forcePortalScan
   snapReq : BOOLEAN, snapRun : BOOLEAN,  \* m_snapshotScanRequested, ...InProgress
   channel : 0 .. Channels,               \* m_liteScanChannelIndex
   ram : [Index -> Saved \cup {None}], loaded : BOOLEAN, \* m_savedCredentials
   level : [Creds -> Away .. Strong],
   tried : SUBSET GH, index : 0 .. MaxSaved,
   file : [Index -> Saved \cup {None}],   \* Paths::WIFI_LIST
   up : BOOLEAN, asked : BOOLEAN, reboot : BOOLEAN,      \* PortalServer
   status : {"idle", "testing", "success", "fail"}, temp : Saved \cup {None},
   radio : {"idle", "async", "lite"},     \* what the radio is scanning for
   results : BOOLEAN,                     \* scanComplete() >= 0
   link : Creds \cup {None}, target : Creds \cup {None},
   ap : BOOLEAN, sta : BOOLEAN,           \* the access point and the station
   due : SUBSET Creds,                    \* history: in range and not tried yet
   roamed : BOOLEAN,                      \* history: the attempts began with roaming
   late : BOOLEAN,                        \* history: see LiteScanDone
   told : SUBSET Saved,                   \* history: stored, as users were told
   unsaved : BOOLEAN]                     \* history: a save failed

NoSaved == [i \in Index |-> None]

Stored(list) == {list[i] : i \in Index} \ {None}

\* The state after a reset, with the list that was on flash.
Booted(file) ==
  [state |-> "INITIALIZING", scan |-> FALSE, roam |-> FALSE, lite |-> FALSE,
   forced |-> FALSE, force |-> FALSE, snapReq |-> FALSE, snapRun |-> FALSE,
   channel |-> 0, ram |-> NoSaved, loaded |-> FALSE,
   level |-> [c \in Creds |-> Away], tried |-> {}, index |-> 0, file |-> file,
   up |-> FALSE, asked |-> FALSE, reboot |-> FALSE, status |-> "idle", temp |-> None,
   radio |-> "idle", results |-> FALSE, link |-> None, target |-> None,
   ap |-> FALSE, sta |-> TRUE, due |-> {}, roamed |-> FALSE, late |-> FALSE,
   told |-> Stored(file), unsaved |-> FALSE]

Reset(n) == [Booted(n.file) EXCEPT !.told = n.told, !.unsaved = n.unsaved]

-----------------------------------------------------------------------------
(* The list of known networks                                              *)

\* restore_runtime_state
Restored(c) == IF c \in Hidden THEN Assumed ELSE Away

\* savedSpan: the list is read from flash when it is not in memory.
Loaded(n) ==
  IF n.loaded THEN n
  ELSE [n EXCEPT !.loaded = TRUE, !.ram = n.file,
                 !.level = [c \in Creds |-> IF c \in Saved THEN Restored(c) ELSE @[c]]]

\* releaseSavedCredentials
Released(n) ==
  IF n.loaded
  THEN [n EXCEPT !.loaded = FALSE, !.ram = NoSaved,
                 !.level = [c \in Creds |-> IF c \in Saved THEN Away ELSE @[c]]]
  ELSE n

\* The networks of a list at its front, in the order that `before' gives their
\* places: the i-th is the one that i - 1 others come before.
Ranked(list, before) ==
  LET full == {j \in Index : list[j] # None}
      At(i) == {j \in full : Cardinality({k \in full : <<k, j>> \in before}) = i - 1}
  IN [i \in Index |-> IF At(i) = {} THEN None ELSE list[CHOOSE j \in At(i) : TRUE]]

Packed(list) == Ranked(list, {p \in Index \X Index : p[1] < p[2]})

\* sortByRssi: insertion sort, strongest first.
Sorted(list, level) ==
  LET Level(i) == IF list[i] = None THEN Away ELSE level[list[i]]
  IN Ranked(list, {p \in Index \X Index : \/ Level(p[1]) > Level(p[2])
                                          \/ Level(p[1]) = Level(p[2]) /\ p[1] < p[2]})

\* updateFromScan, updateFromScanList
UpdateFromScan(n, seen) ==
  LET m == Loaded(n)
      known == GH \cup Stored(m.ram)
      level == [c \in Creds |-> IF c \notin known THEN m.level[c]
                                ELSE IF c \in DOMAIN seen THEN seen[c] ELSE Restored(c)]
  IN [m EXCEPT !.level = level, !.ram = Sorted(m.ram, level)]

InRange(n) == {c \in GH \cup Stored(n.ram) : n.level[c] # Away}

\* Mutant of ResetConnectionAttempt: the place in the list is kept.
ResetBuiltInsOnly(n) == [n EXCEPT !.tried = {}, !.due = InRange(n), !.roamed = FALSE]

\* resetConnectionAttempt
ResetConnectionAttempt(n) ==
  [n EXCEPT !.tried = {}, !.index = 0, !.due = InRange(n), !.roamed = FALSE]

\* getNextCredential, where the place after the i-th of the list is After[i].
NextWith(n, After) ==
  LET gh == {i \in DOMAIN BuiltIns : BuiltIns[i] \notin n.tried /\ n.level[BuiltIns[i]] # Away}
      m == Loaded(n)
      rest == {i \in Index : i > m.index /\ m.ram[i] # None /\ m.level[m.ram[i]] # Away}
      First(S) == CHOOSE i \in S : \A j \in S : i <= j
  IN IF gh # {}
     THEN [cred |-> BuiltIns[First(gh)], net |-> [n EXCEPT !.tried = @ \cup {BuiltIns[First(gh)]}]]
     ELSE IF rest # {}
     THEN [cred |-> m.ram[First(rest)], net |-> [m EXCEPT !.index = After[First(rest)]]]
     ELSE [cred |-> None, net |-> [m EXCEPT !.index = MaxSaved]]

NextCredential(n) == NextWith(n, [i \in Index |-> i])

\* Mutant of SaveToFile: the file ends before an empty place in the list.
SaveToFileCut(n) ==
  {[n EXCEPT !.file = [i \in Index |-> IF \E j \in 1 .. i : n.ram[j] = None
                                        THEN None ELSE n.ram[i]]],
   [n EXCEPT !.unsaved = TRUE]}

\* saveToFile writes a new file and renames it over the list, or leaves the
\* list as it was; its callers do not learn which.
SaveToFile(n) == {[n EXCEPT !.file = Packed(n.ram)], [n EXCEPT !.unsaved = TRUE]}

\* addCredential
AddCredential(n, c) ==
  LET m == Loaded(n)
      places == {i \in Index : m.ram[i] = c}
      empty == {i \in Index : m.ram[i] = None}
      First(S) == CHOOSE i \in S : \A j \in S : i <= j
      At(i) == [m EXCEPT !.ram[i] = c, !.level[c] = Restored(c),
                         !.due = @ \ {c}, !.told = @ \cup {c}]
  IN IF places # {} THEN SaveToFile(At(First(places)))
     ELSE IF empty # {} THEN SaveToFile(At(First(empty)))
     ELSE {m}

\* removeCredential
RemoveCredential(n, c) ==
  LET m == Loaded(n)
  IN IF c \notin Stored(m.ram) THEN {m}
     ELSE SaveToFile([m EXCEPT !.ram = [i \in Index |-> IF @[i] = c THEN None ELSE @[i]],
                               !.level[c] = Away, !.due = @ \ {c}, !.told = @ \ {c}])

-----------------------------------------------------------------------------
(* The WiFi library                                                        *)

\* WiFi.scanNetworksAsync, which drops old results; a radio that is busy
\* does not start again.
StartAsync(n) ==
  [n EXCEPT !.results = FALSE, !.radio = IF @ = "idle" THEN "async" ELSE @]

ScanDelete(n) == [n EXCEPT !.results = FALSE]

\* WiFi.begin
Connect(n, c) == [n EXCEPT !.target = c, !.link = None]

Disconnect(n) == Connect(n, None)

\* configurePortalAp: with little memory the station is switched off.
PortalAp(n) ==
  {[n EXCEPT !.ap = TRUE, !.sta = TRUE],
   [Disconnect(n) EXCEPT !.ap = TRUE, !.sta = FALSE]}

-----------------------------------------------------------------------------
(* WifiManager: steps the handlers share                                   *)

\* setState, and what PortalServer does when it is told.
SetState(n, s) ==
  IF s = n.state THEN n
  ELSE IF s = "PORTAL_MODE"
  THEN [n EXCEPT !.state = s, !.up = TRUE, !.status = "idle", !.reboot = FALSE,
                 !.due = {}, !.roamed = FALSE]
  ELSE [n EXCEPT !.state = s, !.up = FALSE, !.due = IF s = "CONNECTED_STA" THEN {} ELSE @,
                 !.roamed = @ /\ s # "CONNECTED_STA"]

\* startPortal
StartPortal(n) ==
  IF n.state = "PORTAL_MODE" THEN {n}
  ELSE {SetState([m EXCEPT !.results = FALSE, !.scan = FALSE, !.roam = FALSE,
                           !.lite = FALSE, !.forced = FALSE,
                           !.snapReq = FALSE, !.snapRun = FALSE], "PORTAL_MODE") :
          m \in PortalAp(n)}

\* startScan: with little memory the portal opens instead.
StartScan(n) ==
  IF n.scan THEN {n}
  ELSE StartPortal(n) \cup {SetState(StartAsync([n EXCEPT !.scan = TRUE]), "SCANNING")}

\* startConnectionAttempt
StartConnectionAttempt(n, c) ==
  SetState([Connect(n, c) EXCEPT !.ap = FALSE, !.sta = TRUE, !.due = @ \ {c}],
           "CONNECTING_STA")

\* tryNextCredential
TryNext(n) ==
  LET next == NextCredential(n)
  IN IF next.cred = None THEN StartPortal(next.net)
     ELSE {StartConnectionAttempt(next.net, next.cred)}

\* Mutant of FinalizeLiteScan: the access point stays off.
FinalizeLiteScanOff(n) ==
  LET m == [n EXCEPT !.lite = FALSE, !.forced = FALSE, !.scan = FALSE, !.channel = 0]
  IN {m} \cup {UpdateFromScan(m, seen) : seen \in Sightings}

\* finalizeLiteScan, with the networks found or with none
FinalizeLiteScan(n) ==
  LET m == [n EXCEPT !.lite = FALSE, !.forced = FALSE, !.scan = FALSE, !.channel = 0]
  IN UNION {PortalAp(k) : k \in {m} \cup {UpdateFromScan(m, seen) : seen \in Sightings}}

\* startLiteScanChannel: nothing happens without memory for the results; the
\* library may refuse to scan.
StartLiteScanChannel(n) ==
  LET m == [n EXCEPT !.force = FALSE, !.forced = TRUE, !.lite = TRUE,
                     !.ap = FALSE, !.sta = TRUE]
  IN IF n.scan \/ (n.forced /\ ~n.lite) THEN {n}
     ELSE {n} \cup FinalizeLiteScan(m)
          \cup (IF n.radio = "idle" THEN {[m EXCEPT !.scan = TRUE, !.radio = "lite"]} ELSE {})

ScanBusy(n) == n.scan \/ n.roam \/ n.lite \/ n.forced \/ n.snapReq \/ n.snapRun

-----------------------------------------------------------------------------
(* PortalServer::handle                                                    *)

\* handleTestResult: the network under test is stored once the station is
\* connected, to whatever network.
TestResult(n) ==
  IF n.status # "testing" THEN {n}
  ELSE IF n.link # None
  THEN {[m EXCEPT !.status = "success", !.temp = None, !.reboot = TRUE] :
          m \in IF n.temp = None THEN {n} ELSE AddCredential(n, n.temp)}
  ELSE {n} \cup (IF n.asked THEN {}
                 ELSE {[m EXCEPT !.status = "fail", !.temp = None] :
                         m \in PortalAp(Disconnect(n))})

\* handle: the connection starts 50 ms after it was asked for.
PortalHandle(n) ==
  IF ~n.up THEN {n}
  ELSE UNION {TestResult(m) :
                m \in {n} \cup (IF n.asked
                                THEN {[Connect(n, n.temp) EXCEPT !.asked = FALSE, !.sta = TRUE]}
                                ELSE {})}

-----------------------------------------------------------------------------
(* WifiManager::handle, one operator for each way through it               *)

\* handle in INITIALIZING
Initialize(n) == IF n.state = "INITIALIZING" THEN StartScan(n) ELSE {}

\* processScanResults: a scan that takes too long or fails starts again.
ScanAgain(n) ==
  IF n.state = "SCANNING" /\ ~n.results
  THEN StartScan([n EXCEPT !.scan = FALSE]) ELSE {}

ScanResults(n) ==
  IF n.state = "SCANNING" /\ n.results
  THEN UNION {TryNext(ScanDelete(ResetConnectionAttempt(UpdateFromScan(
                                    [n EXCEPT !.scan = FALSE], seen)))) : seen \in Sightings}
  ELSE {}

\* handleConnecting
Connected(n) ==
  IF n.state = "CONNECTING_STA" /\ n.link # None
  THEN {SetState([n EXCEPT !.ap = FALSE, !.sta = TRUE], "CONNECTED_STA")} ELSE {}

\* Mutant of ConnectTimeout: every failure starts a new scan.
ConnectTimeoutRescans(n) ==
  IF n.state = "CONNECTING_STA" /\ n.link = None THEN StartScan(Disconnect(n)) ELSE {}

ConnectTimeout(n) ==
  IF n.state = "CONNECTING_STA" /\ n.link = None THEN TryNext(Disconnect(n)) ELSE {}

\* Mutant of ConnectionLost: the scan for roaming is not forgotten.
ConnectionLostRoaming(n) ==
  IF n.state = "CONNECTED_STA" /\ n.link = None
  THEN StartScan([n EXCEPT !.snapReq = FALSE, !.snapRun = FALSE]) ELSE {}

\* handleConnected
ConnectionLost(n) ==
  IF n.state = "CONNECTED_STA" /\ n.link = None
  THEN StartScan([n EXCEPT !.snapReq = FALSE, !.snapRun = FALSE, !.roam = FALSE]) ELSE {}

Online(n) == n.state = "CONNECTED_STA" /\ n.link # None

SnapshotScan(n) ==
  IF ~Online(n) THEN {}
  ELSE LET m == Released(n)
           over == ScanDelete([m EXCEPT !.snapRun = FALSE])
       IN IF n.snapRun
          THEN IF n.results THEN {UpdateFromScan(over, seen) : seen \in Sightings} ELSE {over}
          ELSE IF n.snapReq
          THEN {[m EXCEPT !.snapReq = FALSE],
                StartAsync([m EXCEPT !.snapReq = FALSE, !.snapRun = TRUE])}
          ELSE {}

\* processRoamingScanResults: the first network much stronger than the current.
\* The attempts begin without resetConnectionAttempt, where the last ones ended.
Roam(n) ==
  LET gh == {i \in DOMAIN BuiltIns : n.level[BuiltIns[i]] = Strong}
      saved == {i \in Index : n.ram[i] # None /\ n.level[n.ram[i]] = Strong}
      First(S) == CHOOSE i \in S : \A j \in S : i <= j
      m == [Disconnect(n) EXCEPT !.due = InRange(n), !.roamed = TRUE]
  IN IF gh # {} THEN StartConnectionAttempt(m, BuiltIns[First(gh)])
     ELSE IF saved # {} THEN Released(StartConnectionAttempt(m, n.ram[First(saved)]))
     ELSE Released(n)

\* A scan for roaming has no time limit.
RoamingScan(n) ==
  IF ~Online(n) \/ n.snapRun \/ n.snapReq THEN {}
  ELSE LET m == Released(n)
           over == ScanDelete([m EXCEPT !.roam = FALSE])
       IN IF ~n.roam THEN {StartAsync([m EXCEPT !.roam = TRUE])}
          ELSE IF n.results THEN {Roam(UpdateFromScan(over, seen)) : seen \in Sightings}
          ELSE IF n.radio = "async" THEN {} ELSE {over}

StayOnline(n) == IF Online(n) /\ ~n.snapRun /\ ~n.snapReq THEN {Released(n)} ELSE {}

\* handlePortalMode
PortalConnected(n) ==
  IF n.state = "PORTAL_MODE" /\ n.link # None
  THEN {[SetState(n, "CONNECTED_STA") EXCEPT
           !.ap = FALSE, !.sta = TRUE, !.scan = FALSE, !.lite = FALSE, !.forced = FALSE,
           !.snapReq = FALSE, !.snapRun = FALSE]}
  ELSE {}

InPortal(n) == n.state = "PORTAL_MODE" /\ n.link = None

\* disconnectWatchdog, after half an hour without a connection
Watchdog(n) == IF InPortal(n) /\ ~(n.lite /\ n.sta) THEN {Reset(n)} ELSE {}

LiteTimeout(n) == IF InPortal(n) /\ n.sta /\ n.lite THEN FinalizeLiteScan(n) ELSE {}

\* A scan the portal asked for starts when no other scan is under way.
ThenForced(n) ==
  {n} \cup (IF n.force /\ ~n.forced /\ ~n.scan /\ ~n.roam
            THEN StartLiteScanChannel([n EXCEPT !.channel = 0]) ELSE {})

\* The first known network in range is tried while the portal stays open.
BackgroundScanned(n) ==
  LET m == ResetConnectionAttempt(n)
      next == NextCredential(m)
  IN IF InRange(n) = {} THEN n ELSE [Connect(next.net, next.cred) EXCEPT !.due = {}]

BackgroundScan(n) ==
  IF ~(InPortal(n) /\ n.sta /\ ~n.lite) THEN {}
  ELSE LET over == ScanDelete([n EXCEPT !.scan = FALSE])
       IN IF ~n.scan
          THEN UNION {ThenForced(n), 
                      IF n.radio = "async" THEN {}
                      ELSE StartLiteScanChannel([n EXCEPT !.channel = 0])
                           \cup ThenForced(StartAsync([n EXCEPT !.scan = TRUE]))}
          ELSE IF n.results
          THEN UNION {ThenForced(BackgroundScanned(UpdateFromScan(over, seen))) :
                        seen \in Sightings}
          ELSE IF n.radio = "async" THEN {over} ELSE ThenForced(over)

\* A timer or the library is not there yet.
Waiting(n) ==
  IF \/ n.state = "INITIALIZING"
     \/ n.state = "SCANNING" /\ ~n.results /\ n.radio = "async"
     \/ n.state \in {"CONNECTING_STA", "PORTAL_MODE"} /\ n.link = None
  THEN {n} ELSE {}

WifiHandle(n) ==
  UNION {Initialize(n), ScanAgain(n), ScanResults(n), Connected(n), ConnectTimeout(n),
         ConnectionLost(n), SnapshotScan(n), RoamingScan(n), StayOnline(n),
         PortalConnected(n), Watchdog(n), LiteTimeout(n), BackgroundScan(n), Waiting(n)}

-----------------------------------------------------------------------------
(* Actions                                                                 *)

Become(S) == net' \in S /\ UNCHANGED <<faults, edits>>

\* A pass of the main loop, as far as these components go.
Handle == Become(UNION {WifiHandle(n) : n \in PortalHandle(net)})

\* PortalServer::handle: the reset 3 s after a success or a rescan.
Reboot == net.up /\ net.reboot /\ Become({Reset(net)})

\* Power fails, or the watchdogs reset the processor.
Crash == faults < MaxFaults /\ faults' = faults + 1 /\ net' = Reset(net) /\ UNCHANGED edits

ScanDone == net.radio = "async" /\ Become({[net EXCEPT !.radio = "idle", !.results = TRUE]})

ScanFails ==
  /\ net.radio = "async" /\ faults < MaxFaults
  /\ net' = [net EXCEPT !.radio = "idle"]
  /\ faults' = faults + 1
  /\ UNCHANGED edits

\* handleLiteScanDone goes on with the next channel, also when the scan it
\* belongs to was given up in the meantime.
LiteScanDone ==
  LET m == [net EXCEPT !.radio = "idle", !.scan = FALSE, !.late = @ \/ ~net.lite,
                       !.channel = IF @ < Channels THEN @ + 1 ELSE @]
  IN /\ net.radio = "lite"
     /\ Become(FinalizeLiteScan(m)
               \cup (IF m.channel < Channels THEN StartLiteScanChannel(m) ELSE {}))

LinkUp ==
  /\ net.sta /\ net.target # None /\ net.link = None
  /\ Become({[net EXCEPT !.link = net.target]})

LinkDown == net.link # None /\ Become({[net EXCEPT !.link = None]})

Request(S) == edits < MaxEdits /\ edits' = edits + 1 /\ net' \in S /\ UNCHANGED faults

\* The web page of the node and the terminal, while connected.
AddNetwork == Online(net) /\ \E c \in Saved : Request(AddCredential(net, c))

RequestNetworkScan ==
  Online(net) /\ ~ScanBusy(net) /\ Request({[net EXCEPT !.snapReq = TRUE]})

OpenWifi == Online(net) /\ Request(StartPortal(Disconnect(net)))

RemoveNetwork ==
  (Online(net) \/ net.up) /\ \E c \in Saved : Request(RemoveCredential(net, c))

\* The pages of the portal.
SubmitNetwork ==
  net.up /\ \E c \in Saved :
    Request({[net EXCEPT !.temp = c, !.status = "testing", !.asked = TRUE]})

\* With little memory the manager is asked to scan instead. Reading the result
\* of a scan drops it.
ScanFromPortal ==
  /\ net.up /\ net.sta /\ net.radio # "async"
  /\ Request({[net EXCEPT !.force = TRUE], StartAsync(net), ScanDelete(net)})

Rescan == net.up /\ Request({[net EXCEPT !.reboot = TRUE]})

Init ==
  /\ net \in {Booted([i \in Index |-> IF i <= Len(list) THEN list[i] ELSE None]) :
                 list \in UNION {{l \in [1 .. k -> Saved] : \A i, j \in 1 .. k : i # j => l[i] # l[j]} :
                                   k \in 0 .. MaxSaved}}
  /\ faults = 0
  /\ edits = 0

Next ==
  \/ Handle \/ Reboot \/ Crash
  \/ ScanDone \/ ScanFails \/ LiteScanDone \/ LinkUp \/ LinkDown
  \/ AddNetwork \/ RequestNetworkScan \/ OpenWifi \/ RemoveNetwork
  \/ SubmitNetwork \/ ScanFromPortal \/ Rescan

Spec == Init /\ [][Next]_vars

\* The main loop runs for ever, its timers run out, and the library ends its
\* scans: weak fairness of the passes that scan, connect or give up, and of
\* the end of a scan, written out with the states in which such a step is due
\* and the steps that are one.
Overdue ==
  \/ net.state \in {"INITIALIZING", "SCANNING", "CONNECTING_STA"}
  \/ net.state = "PORTAL_MODE" /\ (net.lite \/ net.link # None)
PassTaken ==
  \/ net'.state # net.state
  \/ net.state = "CONNECTING_STA" /\ net'.target # net.target
  \/ net.lite /\ ~net'.lite
TimersRunOut == \/ []<> (~Overdue)
                \/ []<> <<PassTaken>>_vars

ScanTaken == net'.radio # net.radio \/ net'.channel # net.channel
ScansEnd == \/ []<> (net.radio = "idle")
            \/ []<> <<ScanTaken>>_vars

FairSpec == Spec /\ TimersRunOut /\ ScansEnd

-----------------------------------------------------------------------------
(* Properties                                                              *)

TypeOK == net \in NetType /\ faults \in 0 .. MaxFaults /\ edits \in 0 .. MaxEdits

\* The list of known networks is what the users were told it is, through
\* sorting, holes, releasing and reloading, as long as no save failed.
KnownAreKept ==
  ~net.unsaved => /\ Stored(net.file) = net.told
                  /\ net.loaded => Stored(net.ram) = net.told

\* No scan of one state of the manager is still marked as running in another,
\* where nobody would end it and every later scan would be refused as busy.
NoOrphanScan ==
  /\ net.roam \/ net.snapReq \/ net.snapRun => net.state = "CONNECTED_STA"
  /\ ~net.late => /\ net.lite \/ net.forced => net.state = "PORTAL_MODE"
                  /\ net.scan => net.state \in {"SCANNING", "PORTAL_MODE"}

\* The access point is open in the portal only, unless the last channel of a
\* scan that was given up ends late.
ApMeansPortal == net.ap /\ ~net.late => net.state = "PORTAL_MODE"

\* Every state is well typed, and the scans and the access point are those of
\* the manager's state.
Coherent == TypeOK /\ NoOrphanScan /\ ApMeansPortal

\* After a scan the portal opens only when every known network that the scan
\* found in range had its try. This is not so of the attempts that begin with
\* roaming (see NoneLeftUntried): the manager does not start its list over.
PortalIsLastResort ==
  [][net.state = "CONNECTING_STA" /\ net'.state = "PORTAL_MODE" =>
       net.roamed \/ net.due = {}]_vars

\* The same of all attempts. When a network fails that the node roamed to, the
\* place in the list and the flags of what was tried are those of attempts long
\* past, and the list has been read again without its levels: networks that the
\* roaming scan found in range are passed over. ("No more credentials
\* available", WifiManager.cpp:262)
NoneLeftUntried ==
  [][net.state = "CONNECTING_STA" /\ net'.state = "PORTAL_MODE" => net.due = {}]_vars

\* To its observers the manager looks for a network, never for ever, is
\* connected or keeps the portal open, which it leaves only by connecting or
\* by a reset.
Phases ==
  INSTANCE WifiPhases
  WITH phase <- IF net.state \in {"SCANNING", "CONNECTING_STA"} THEN "SEEKING" ELSE net.state
ImplementsPhases == Phases!PhaseSpec

\* The access point that a scan switches off comes back.
PortalApReturns ==
  net.state = "PORTAL_MODE" /\ ~net.ap ~> net.ap \/ net.state # "PORTAL_MODE"

\* "Connection successful, device will restart" (PortalServer.Routes.cpp:358):
\* the station is connected to the network that was submitted.
SuccessWasTested ==
  [][net.status = "testing" /\ net'.status = "success" => net.link = net.temp]_vars
=============================================================================
