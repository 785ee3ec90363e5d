----------------------------- MODULE Supervisor -----------------------------
(***************************************************************************)
(* The main loop (Application), what it runs in turn (WifiManager, the     *)
(* sensors, OtaManager, ApiClient, AppServer, ArduinoOTA), and the three   *)
(* ways new firmware gets in: a page of the web server, the cloud, and the *)
(* Arduino IDE, all through the one Updater of the library.                *)
(*                                                                         *)
(* Requests to the web server are served whenever the loop gives way, also *)
(* while it waits for the cloud or for the IDE, so they come between any   *)
(* two steps of the loop. WifiManager is as WifiPhases describes it.       *)
(***************************************************************************)
EXTENDS Integers, FiniteSets

CONSTANTS
  Sensors,   \* the two sensors on the bus
  MaxFails,  \* SENSOR_MAX_FAILURES
  Uploads,   \* connections to /update
  Chunks     \* bound: chunks of an image

ASSUME SupervisorAssumption ==
  /\ MaxFails \in Nat \ {0} /\ Chunks \in Nat /\ Chunks >= 2
  /\ {"cloud", "arduino"} \cap Uploads = {}

VARIABLES
  wifi,     \* the phase of WifiManager, see WifiPhases, from SEEKING on
  mode,     \* WifiMemoryModeObserver: "UNKNOWN", "PORTAL_MODE", "CONNECTED_STA"
  app,      \* the state of Application
  safe,     \* it started in safe mode: no callbacks for ArduinoOTA
  pc,       \* what the loop is at
  server,   \* m_isRunning of AppServer
  session,  \* m_webOtaActive
  late,     \* that session has taken too long
  reboot,   \* m_rebootRequired
  format,   \* m_formatFsPending
  chunk,    \* per connection, the chunks received: 0 if there is none
  updater,  \* Update: whether it runs, who began, whether another wrote to it
  staged,   \* history: the image the boot loader will take
  paused,   \* isSystemPaused of ApiClient
  http,     \* a request of ApiClient is under way
  sampler,  \* the state of SensorManager
  sensor,   \* per sensor: works, failures, valid reading, last sample (history)
  force     \* m_force_check

wifiVars == <<wifi, mode, server>>
webVars == <<session, late, chunk>>
apiVars == <<paused, http>>
sensorVars == <<sampler, sensor>>
otaVars == <<updater, staged>>
appVars == <<app, safe>>
flags == <<reboot, format, force>>
vars == <<wifiVars, webVars, apiVars, sensorVars, otaVars, appVars, flags, pc>>

Phase == INSTANCE WifiPhases WITH phase <- wifi

Nobody == "nobody"
Writers == Uploads \cup {"cloud", "arduino"}
NoUpdate == [on |-> FALSE, by |-> Nobody, foreign |-> FALSE]
NoChunks == [r \in Uploads |-> 0]
Broken == [ok |-> FALSE, fails |-> 0, valid |-> FALSE, last |-> "none"]

Places == {"wifi", "sensors", "ota", "check", "download", "api", "server",
           "terminal", "arduino", "flash"}

TypeOK ==
  /\ wifi \in Phase!Phases \ {"INITIALIZING"} /\ mode \in {"UNKNOWN", "PORTAL_MODE", "CONNECTED_STA"}
  /\ app \in {"SENSOR_STABILIZATION", "CONNECTING", "RUNNING", "UPDATING"}
  /\ pc \in Places
  /\ {safe, server, session, late, reboot, format, paused, http, force} \subseteq BOOLEAN
  /\ chunk \in [Uploads -> 0 .. Chunks - 1]
  /\ updater \in [on : BOOLEAN, by : Writers \cup {Nobody}, foreign : BOOLEAN]
  /\ staged \in {"none", "whole", "torn"}
  /\ sampler \in {"INITIALIZING", "RUNNING", "RECOVERY", "PAUSED"}
  /\ sensor \in [Sensors -> [ok : BOOLEAN, fails : 0 .. MaxFails, valid : BOOLEAN,
                             last : {"none", "good", "bad"}]]

-----------------------------------------------------------------------------
(* Pausing and resuming                                                    *)

\* ApiClient::pause drops the request under way.
Pause == paused' = TRUE /\ http' = FALSE

\* SensorManager::resume
Resumed == IF sampler = "PAUSED" THEN "INITIALIZING" ELSE sampler

\* m_otaStartCallback
OtaStarts == Pause /\ sampler' = "PAUSED"

\* m_otaEndCallback, then finishWebOtaSession
OtaEnds ==
  /\ paused' = FALSE /\ sampler' = Resumed
  /\ session' = FALSE /\ late' = FALSE

-----------------------------------------------------------------------------
(* The states of WifiManager and their observers                           *)

\* AppServer::stop ends the session, WifiMemoryModeObserver comes after it.
\* The routes are removed and the connections go with the station.
Stopping(new) == server /\ session /\ new # "CONNECTED_STA"

\* Mutant of Observe: the observers in the other order.
ObserveMemoryFirst(new) ==
  /\ server' = (new = "CONNECTED_STA")
  /\ mode' = IF new = "SEEKING" THEN mode ELSE new
  /\ paused' = IF Stopping(new) THEN FALSE
               ELSE IF new = "SEEKING" \/ new = mode THEN paused
               ELSE new = "PORTAL_MODE"
  /\ http' = (http /\ ~paused')
  /\ sampler' = IF Stopping(new) THEN Resumed ELSE sampler
  /\ session' = (session /\ ~Stopping(new))
  /\ late' = (late /\ ~Stopping(new))
  /\ updater' = IF Stopping(new) THEN NoUpdate ELSE updater
  /\ chunk' = IF new = "CONNECTED_STA" THEN chunk ELSE NoChunks

Observe(new) ==
  /\ server' = (new = "CONNECTED_STA")
  /\ mode' = IF new = "SEEKING" THEN mode ELSE new
  /\ paused' = IF new = "SEEKING" \/ new = mode THEN paused /\ ~Stopping(new)
               ELSE new = "PORTAL_MODE"
  /\ http' = (http /\ ~paused')
  /\ sampler' = IF Stopping(new) THEN Resumed ELSE sampler
  /\ session' = (session /\ ~Stopping(new))
  /\ late' = (late /\ ~Stopping(new))
  /\ updater' = IF Stopping(new) THEN NoUpdate ELSE updater
  /\ chunk' = IF new = "CONNECTED_STA" THEN chunk ELSE NoChunks

\* WifiManager::handle. With little memory a lost connection opens the portal
\* instead of a scan.
WifiMoves == Phase!Settle \/ Phase!Lose \/ Phase!OpenPortal \/ Phase!Return

WifiHandles ==
  \/ WifiMoves /\ Observe(wifi')
  \/ UNCHANGED <<wifiVars, webVars, apiVars, sampler, updater>>

-----------------------------------------------------------------------------
(* Boot                                                                    *)

\* The boot loader has taken the image that was staged.
Fresh ==
  /\ app' = "SENSOR_STABILIZATION" /\ safe' = FALSE /\ pc' = "wifi"
  /\ wifi' = "SEEKING" /\ mode' = "UNKNOWN" /\ server' = FALSE
  /\ session' = FALSE /\ late' = FALSE /\ chunk' = NoChunks
  /\ reboot' = FALSE /\ format' = FALSE /\ force' = FALSE
  /\ updater' = NoUpdate /\ staged' = "none"
  /\ paused' = FALSE /\ http' = FALSE
  /\ sampler' = "INITIALIZING" /\ sensor' = [x \in Sensors |-> Broken]

\* More than five crashes: the portal opens, and the rest of the start is left out.
SafeMode ==
  /\ app' = "RUNNING" /\ safe' = TRUE /\ pc' = "wifi"
  /\ wifi' = "PORTAL_MODE" /\ mode' = "PORTAL_MODE" /\ server' = FALSE
  /\ session' = FALSE /\ late' = FALSE /\ chunk' = NoChunks
  /\ reboot' = FALSE /\ format' = FALSE /\ force' = FALSE
  /\ updater' = NoUpdate /\ staged' = "none"
  /\ paused' = TRUE /\ http' = FALSE
  /\ sampler' = "INITIALIZING" /\ sensor' = [x \in Sensors |-> Broken]

Restart == Fresh \/ SafeMode

-----------------------------------------------------------------------------
(* The passes before the node runs                                         *)

Stabilized ==
  /\ pc = "wifi" /\ app = "SENSOR_STABILIZATION"
  /\ app' = "CONNECTING"
  /\ UNCHANGED <<wifiVars, webVars, apiVars, sensorVars, otaVars, safe, flags, pc>>

Connecting ==
  /\ pc = "wifi" /\ app = "CONNECTING"
  /\ WifiHandles
  /\ app' = IF wifi' = "SEEKING" THEN app ELSE "RUNNING"
  /\ UNCHANGED <<sensor, staged, safe, flags, pc>>

-----------------------------------------------------------------------------
(* A pass of handleRunning                                                 *)

HandleWifi ==
  /\ pc = "wifi" /\ app = "RUNNING" /\ pc' = "sensors"
  /\ WifiHandles
  /\ UNCHANGED <<sensor, staged, appVars, flags>>

Working(s) == \A x \in Sensors : s[x].ok

\* Sensors that do not work are initialised again, some successfully.
Revived(good) ==
  [x \in Sensors |-> IF x \in good THEN [sensor[x] EXCEPT !.ok = TRUE, !.fails = 0]
                     ELSE sensor[x]]

Initialize ==
  /\ sampler = "INITIALIZING"
  /\ \E good \in SUBSET {x \in Sensors : ~sensor[x].ok} : sensor' = Revived(good)
  /\ sampler' = IF Working(sensor') THEN "RUNNING" ELSE sampler

Recover ==
  /\ sampler = "RECOVERY"
  /\ \E good \in SUBSET {x \in Sensors : ~sensor[x].ok} : sensor' = Revived(good)
  /\ sampler' = IF Working(sensor') THEN "RUNNING" ELSE sampler

Sampled(s, good) ==
  IF good THEN [s EXCEPT !.fails = 0, !.valid = TRUE, !.last = "good"]
  ELSE [s EXCEPT !.fails = @ + 1, !.ok = s.fails + 1 < MaxFails,
                 !.valid = FALSE, !.last = "bad"]

Sample ==
  /\ sampler = "RUNNING"
  /\ \E due \in SUBSET {x \in Sensors : sensor[x].ok} : \E good \in SUBSET due :
       sensor' = [x \in Sensors |-> IF x \in due THEN Sampled(sensor[x], x \in good)
                                    ELSE sensor[x]]
  /\ sampler' = IF Working(sensor') THEN sampler ELSE "RECOVERY"

HandleSensors ==
  /\ pc = "sensors" /\ pc' = "ota"
  /\ Initialize \/ Recover \/ Sample \/ UNCHANGED sensorVars
  /\ UNCHANGED <<wifiVars, webVars, apiVars, otaVars, appVars, flags>>

Goto(place) ==
  pc' = place /\ UNCHANGED <<wifiVars, webVars, apiVars, sensorVars, appVars, reboot, format>>

\* Mutant of MayCheck: setUploadInProgress is ignored.
MayCheckAlways == wifi = "CONNECTED_STA"

\* OtaManager::handle, after setUploadInProgress(isUploadActive())
MayCheck == wifi = "CONNECTED_STA" /\ ~http

\* checkForUpdates: a scan, the TLS buffers or the heap may be in the way.
CheckDue ==
  /\ pc = "ota" /\ MayCheck
  /\ force' = FALSE
  /\ Goto("check") \/ Goto("api")
  /\ UNCHANGED otaVars

NoCheck ==
  /\ pc = "ota"
  /\ force => ~MayCheck
  /\ Goto("api") /\ UNCHANGED <<otaVars, force>>

\* The answer of the cloud: nothing new, or an update that begins unless the
\* Updater is busy with another.
Checked ==
  /\ pc = "check"
  /\ \/ Goto("api") /\ UNCHANGED updater
     \/ /\ ~updater.on
        /\ updater' = [on |-> TRUE, by |-> "cloud", foreign |-> FALSE]
        /\ Goto("download")
  /\ UNCHANGED <<staged, force>>

\* The library writes to whatever update runs.
Download ==
  /\ pc \in {"download", "flash"} /\ updater.on
  /\ updater' = [updater EXCEPT !.foreign = @ \/ updater.by \in Uploads]
  /\ Goto(pc) /\ UNCHANGED <<staged, force>>

DownloadFails ==
  /\ pc = "download"
  /\ updater' = NoUpdate
  /\ Goto("api") /\ UNCHANGED <<staged, force>>

\* HTTP_UPDATE_OK, or the cloud OTA watchdog: both restart.
DownloadEnds == pc = "download" /\ Restart

\* ApiClient::handle, as far as it matters here: a request starts or ends.
HandleApi ==
  /\ pc = "api" /\ pc' = "server"
  /\ http' \in {FALSE, ~paused}
  /\ UNCHANGED <<wifiVars, webVars, paused, sensorVars, otaVars, appVars, flags>>

\* AppServer::handle: a format, the reset 3 s after an update, a session that
\* has taken too long.
ServerRestarts == pc = "server" /\ server /\ (reboot \/ format) /\ Restart

ServerWaits ==
  /\ pc = "server" /\ pc' = "terminal"
  /\ server => ~format /\ ~(session /\ late)
  /\ UNCHANGED <<wifiVars, webVars, apiVars, sensorVars, otaVars, appVars, flags>>

AbortSession ==
  /\ pc = "server" /\ pc' = "terminal"
  /\ server /\ ~format /\ session /\ late
  /\ updater' = NoUpdate
  /\ OtaEnds
  /\ UNCHANGED <<wifiVars, chunk, http, sensor, staged, appVars, flags>>

\* DiagnosticsTerminal::handle: CHECKUPDATE, REBOOT and FORMATFS, OPENWIFI
Commands ==
  /\ pc = "terminal" /\ pc' = "arduino"
  /\ force' \in {force, TRUE}
  /\ UNCHANGED <<wifiVars, webVars, apiVars, sensorVars, otaVars, appVars, reboot, format>>

RebootCommand == pc = "terminal" /\ server /\ Restart

OpenWifi ==
  /\ pc = "terminal" /\ pc' = "arduino"
  /\ Phase!OpenPortal /\ Observe(wifi')
  /\ UNCHANGED <<sensor, staged, appVars, flags>>

NoArduino ==
  /\ pc = "arduino" /\ Goto("wifi") /\ UNCHANGED <<otaVars, force>>

\* ArduinoOTA::handle is invited by the IDE; onStart is set unless in safe mode.
ArduinoStarts ==
  /\ pc = "arduino" /\ pc' = "flash"
  /\ server /\ ~updater.on
  /\ updater' = [on |-> TRUE, by |-> "arduino", foreign |-> FALSE]
  /\ app' = IF safe THEN app ELSE "UPDATING"
  /\ UNCHANGED <<wifiVars, webVars, apiVars, sensorVars, staged, safe, flags>>

ArduinoFails ==
  /\ pc = "flash" /\ pc' = "wifi"
  /\ updater' = NoUpdate
  /\ app' = "RUNNING"
  /\ UNCHANGED <<wifiVars, webVars, apiVars, sensorVars, staged, safe, flags>>

\* The update is done, or the watchdog of the Arduino session: both restart.
ArduinoEnds == pc = "flash" /\ Restart

-----------------------------------------------------------------------------
(* Requests to the web server                                              *)

Receive(r, n) ==
  /\ server /\ chunk' = [chunk EXCEPT ![r] = n]
  /\ UNCHANGED <<wifiVars, sensor, appVars, flags, pc>>

\* handleOtaInit refuses: locked, wrong password, no room, Updater busy. The
\* connection goes on sending.
FirstRefused(r) ==
  /\ chunk[r] = 0 /\ Receive(r, 1)
  /\ UNCHANGED <<session, late, paused, http, sampler, otaVars>>

\* handleOtaInit, and the first chunk is written. A new image takes the place
\* of one that waits for the restart.
First(r) ==
  /\ chunk[r] = 0 /\ ~updater.on /\ Receive(r, 1)
  /\ updater' = [on |-> TRUE, by |-> r, foreign |-> FALSE]
  /\ staged' = IF staged = "none" THEN "none" ELSE "torn"
  /\ session' = TRUE /\ late' = FALSE
  /\ OtaStarts

\* Mutant of Touch: every chunk starts both limits again.
TouchAll == late' = FALSE

\* touchWebOtaSession: the limit of the whole session stays.
Touch == UNCHANGED late

\* handleOtaWrite does not know whose update runs.
Write(r) ==
  /\ updater.on
  /\ updater' = [updater EXCEPT !.foreign = @ \/ updater.by # r]

Middle(r) ==
  /\ chunk[r] \in 1 .. Chunks - 2 /\ Receive(r, chunk[r] + 1)
  /\ Write(r) /\ Touch
  /\ UNCHANGED <<session, paused, http, sampler, staged>>

Ignored(r) ==
  /\ chunk[r] # 0 /\ ~updater.on
  /\ \E n \in {0, chunk[r] + 1} : n < Chunks /\ Receive(r, n)
  /\ UNCHANGED <<session, late, paused, http, sampler, otaVars>>

\* A chunk cannot be written.
WriteFails(r) ==
  /\ chunk[r] # 0 /\ updater.on
  /\ \E n \in {0, chunk[r] + 1} : n < Chunks /\ Receive(r, n)
  /\ updater' = NoUpdate
  /\ OtaEnds
  /\ UNCHANGED <<http, staged>>

\* The last chunk: Update.end(true) accepts what was written, however little.
Final(r) ==
  /\ chunk[r] = Chunks - 1 /\ server /\ updater.on
  /\ chunk' = [chunk EXCEPT ![r] = 0]
  /\ updater' = NoUpdate
  /\ \/ /\ staged' = IF updater.by = r /\ ~updater.foreign THEN "whole" ELSE "torn"
        /\ reboot' = TRUE
     \/ UNCHANGED <<staged, reboot>>
  /\ OtaEnds
  /\ UNCHANGED <<wifiVars, http, sensor, appVars, format, force, pc>>

\* A last chunk without data ends a session that is not its own, or none.
FinalEmpty(r) ==
  /\ chunk[r] = Chunks - 1 /\ ~updater.on /\ Receive(r, 0)
  /\ OtaEnds
  /\ UNCHANGED <<http, otaVars>>

\* The client goes away without a word; the node notices by its own limits.
HangUp(r) ==
  /\ chunk[r] # 0 /\ Receive(r, 0)
  /\ UNCHANGED <<session, late, paused, http, sampler, otaVars>>

\* handleFormatFsRequest
FormatFs ==
  /\ server /\ ~format /\ format' = TRUE
  /\ UNCHANGED <<wifiVars, webVars, apiVars, sensorVars, otaVars, appVars, reboot, force, pc>>

\* The session is longer than its limit, or got no chunk for too long.
TimeOut ==
  /\ session /\ ~late /\ late' = TRUE
  /\ UNCHANGED <<wifiVars, session, chunk, apiVars, sensorVars, otaVars, appVars, flags, pc>>

\* A watchdog or the power.
Crash == Restart

-----------------------------------------------------------------------------
Init ==
  /\ app = "SENSOR_STABILIZATION" /\ safe = FALSE /\ pc = "wifi"
  /\ wifi = "SEEKING" /\ mode = "UNKNOWN" /\ server = FALSE
  /\ session = FALSE /\ late = FALSE /\ chunk = NoChunks
  /\ reboot = FALSE /\ format = FALSE /\ force = FALSE
  /\ updater = NoUpdate /\ staged = "none"
  /\ paused = FALSE /\ http = FALSE
  /\ sampler = "INITIALIZING" /\ sensor = [x \in Sensors |-> Broken]

Loop ==
  \/ Stabilized \/ Connecting \/ HandleWifi \/ HandleSensors
  \/ CheckDue \/ NoCheck \/ Checked \/ Download \/ DownloadFails \/ DownloadEnds
  \/ HandleApi \/ ServerRestarts \/ ServerWaits \/ AbortSession
  \/ Commands \/ RebootCommand \/ OpenWifi
  \/ NoArduino \/ ArduinoStarts \/ ArduinoFails \/ ArduinoEnds

Web ==
  \/ FormatFs
  \/ \E r \in Uploads : \/ FirstRefused(r) \/ First(r) \/ Middle(r) \/ Ignored(r)
                        \/ WriteFails(r) \/ Final(r) \/ FinalEmpty(r) \/ HangUp(r)

Next == Loop \/ Web \/ TimeOut \/ Crash

Spec == Init /\ [][Next]_vars

\* The loop goes round: what blocks it, the cloud and the IDE, has time limits
\* and a watchdog. Time passes.
Proceed == Loop /\ pc' # pc
LoopRuns == WF_vars(Proceed)
TimePasses == WF_vars(TimeOut)

FairSpec == Spec /\ LoopRuns /\ TimePasses

-----------------------------------------------------------------------------
(* Properties                                                              *)

\* The uploads are stopped in the portal and during an update by the web page,
\* the sensors during such an update, and never else: no order of sessions,
\* connections, failures and aborts leaves a component paused for good.
PausedForAReason ==
  /\ paused <=> session \/ mode = "PORTAL_MODE"
  /\ sampler = "PAUSED" <=> session
  /\ paused => ~http

\* "Never run OTA while an upload is active" (Application.cpp:167).
NeverBoth == pc \in {"check", "download"} => ~http

\* A reading counts as valid only if the last sample succeeded, also after
\* failures, recovery and pauses.
SensorsTellTheTruth == \A x \in Sensors : sensor[x].valid => sensor[x].last = "good"

\* Every state is well typed, its readings are true, and an update never shares
\* the network with an upload.
Coherent == TypeOK /\ SensorsTellTheTruth /\ NeverBoth

\* An upload that stalls, or whose client never ends, is given up.
StalledUploadEnds == session ~> ~session

\* isValid is "true jika valid, false jika tidak" (SensorData.h:17, true if
\* valid, false if not): a reading that stays valid is sampled again and again,
\* whatever the other sensor does.
StaysFresh ==
  \A x \in Sensors : \/ []<>(~sensor[x].valid)
                     \/ []<><<pc = "sensors" /\ sampler = "RUNNING" /\ pc' # pc>>_vars

\* "Success! Rebooting..." (AppServer.Routes.cpp:563): what is booted then is the
\* image of one upload.
SuccessIsWhole == staged # "torn"
=============================================================================
