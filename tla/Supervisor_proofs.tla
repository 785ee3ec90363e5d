-------------------------- MODULE Supervisor_proofs --------------------------
(***************************************************************************)
(* What Supervisor promises for any number of sensors, connections, chunks *)
(* and failures: every state is well typed, an update never meets an       *)
(* upload, readings tell the truth, and nothing is paused without a        *)
(* reason. The last needs to know that a session belongs to a running web  *)
(* server, and that the observers of WifiManager are up to date (Ties).    *)
(***************************************************************************)
EXTENDS Supervisor, TLAPS

\* The web server runs while the node is connected, sessions belong to it, and
\* the memory mode is that of the last state that has one.
Ties ==
  /\ server <=> wifi = "CONNECTED_STA"
  /\ session => server
  /\ wifi # "SEEKING" => mode = wifi

\* A sensor that is used has failed fewer times than it takes to give it up.
Counts == \A x \in Sensors : sensor[x].ok => sensor[x].fails < MaxFails

IInv ==
  /\ TypeOK /\ Counts /\ SensorsTellTheTruth
  /\ Ties /\ PausedForAReason /\ NeverBoth

-----------------------------------------------------------------------------
(* The invariant in the three parts the actions disturb                    *)

SensorType == [ok : BOOLEAN, fails : 0 .. MaxFails, valid : BOOLEAN, last : {"none", "good", "bad"}]

Sound(s) == (s.ok => s.fails < MaxFails) /\ (s.valid => s.last = "good")

Readings == sensor \in [Sensors -> SensorType] /\ \A x \in Sensors : Sound(sensor[x])

UpdateType == [on : BOOLEAN, by : Writers \cup {Nobody}, foreign : BOOLEAN]

Images ==
  /\ chunk \in [Uploads -> 0 .. Chunks - 1]
  /\ updater \in UpdateType
  /\ staged \in {"none", "whole", "torn"}

Control ==
  /\ wifi \in {"SEEKING", "CONNECTED_STA", "PORTAL_MODE"}
  /\ mode \in {"UNKNOWN", "PORTAL_MODE", "CONNECTED_STA"}
  /\ app \in {"SENSOR_STABILIZATION", "CONNECTING", "RUNNING", "UPDATING"}
  /\ pc \in Places
  /\ safe \in BOOLEAN /\ server \in BOOLEAN /\ session \in BOOLEAN /\ late \in BOOLEAN
  /\ reboot \in BOOLEAN /\ format \in BOOLEAN /\ force \in BOOLEAN
  /\ paused \in BOOLEAN /\ http \in BOOLEAN
  /\ sampler \in {"INITIALIZING", "RUNNING", "RECOVERY", "PAUSED"}
  /\ Ties /\ PausedForAReason /\ NeverBoth

LEMMA Parts == IInv <=> Readings /\ Images /\ Control
<1>1. (Counts /\ SensorsTellTheTruth) <=> \A x \in Sensors : Sound(sensor[x])
  BY DEF Counts, SensorsTellTheTruth, Sound
<1>2. {safe, server, session, late, reboot, format, paused, http, force} \subseteq BOOLEAN
      <=> /\ safe \in BOOLEAN /\ server \in BOOLEAN /\ session \in BOOLEAN /\ late \in BOOLEAN
          /\ reboot \in BOOLEAN /\ format \in BOOLEAN /\ force \in BOOLEAN
          /\ paused \in BOOLEAN /\ http \in BOOLEAN
  BY Zenon
<1> QED
  BY <1>1, <1>2 DEF IInv, TypeOK, Readings, Images, Control, SensorType, UpdateType, Phase!Phases

-----------------------------------------------------------------------------
(* Starting                                                                *)

LEMMA Starts ==
  ASSUME SupervisorAssumption
  PROVE /\ NoChunks \in [Uploads -> 0 .. Chunks - 1]
        /\ NoUpdate \in UpdateType
        /\ Broken \in SensorType /\ Sound(Broken)
        /\ \A w \in Writers : [on |-> TRUE, by |-> w, foreign |-> FALSE] \in UpdateType
        /\ "cloud" \in Writers /\ "arduino" \in Writers
<1>1. NoChunks \in [Uploads -> 0 .. Chunks - 1]
  BY DEF SupervisorAssumption, NoChunks
<1>2. NoUpdate \in UpdateType
  BY DEF NoUpdate, UpdateType
<1>3. Broken \in SensorType /\ Sound(Broken)
  BY DEF SupervisorAssumption, Broken, SensorType, Sound
<1>4. \A w \in Writers : [on |-> TRUE, by |-> w, foreign |-> FALSE] \in UpdateType
  BY DEF UpdateType
<1>5. "cloud" \in Writers /\ "arduino" \in Writers
  BY DEF Writers
<1> QED
  BY <1>1, <1>2, <1>3, <1>4, <1>5

LEMMA InitHolds == SupervisorAssumption /\ Init => IInv
<1> SUFFICES ASSUME SupervisorAssumption, Init PROVE Readings /\ Images /\ Control
  BY Parts
<1>1. Readings
  BY Starts DEF Init, Readings
<1>2. Images
  BY Starts DEF Init, Images
<1>3. Control
  BY DEF Init, Control, Places, Ties, PausedForAReason, NeverBoth
<1> QED
  BY <1>1, <1>2, <1>3

LEMMA RestartKeeps == SupervisorAssumption /\ Restart => Readings' /\ Images' /\ Control'
<1> SUFFICES ASSUME SupervisorAssumption, Restart PROVE Readings' /\ Images' /\ Control'
  OBVIOUS
<1>1. Readings'
  BY Starts DEF Restart, Fresh, SafeMode, Readings
<1>2. Images'
  BY Starts DEF Restart, Fresh, SafeMode, Images
<1>3. Control'
  BY DEF Restart, Fresh, SafeMode, Control, Places, Ties, PausedForAReason, NeverBoth
<1> QED
  BY <1>1, <1>2, <1>3

-----------------------------------------------------------------------------
(* Sensors                                                                 *)

LEMMA RevivedSensor ==
  ASSUME NEW s \in SensorType, Sound(s), NEW n \in 0 .. MaxFails, n < MaxFails
  PROVE [s EXCEPT !.ok = TRUE, !.fails = n] \in SensorType
        /\ Sound([s EXCEPT !.ok = TRUE, !.fails = n])
<1> DEFINE r == [s EXCEPT !.ok = TRUE, !.fails = n]
<1>1. r \in SensorType
  BY DEF SensorType
<1>2. r.fails = n /\ r.valid = s.valid /\ r.last = s.last
  BY DEF SensorType
<1> QED
  BY <1>1, <1>2, Zenon DEF Sound

LEMMA RevivedIsSound ==
  ASSUME SupervisorAssumption, Readings, NEW good \in SUBSET Sensors
  PROVE Revived(good) \in [Sensors -> SensorType]
        /\ \A x \in Sensors : Sound(Revived(good)[x])
<1> SUFFICES ASSUME NEW x \in Sensors
             PROVE Revived(good)[x] \in SensorType /\ Sound(Revived(good)[x])
  BY DEF Revived
<1>1. sensor[x] \in SensorType /\ Sound(sensor[x])
  BY DEF Readings
<1>2. CASE x \in good
  <2>1. Revived(good)[x] = [sensor[x] EXCEPT !.ok = TRUE, !.fails = 0]
    BY <1>2 DEF Revived
  <2>2. 0 \in 0 .. MaxFails /\ 0 < MaxFails
    BY DEF SupervisorAssumption
  <2> QED
    BY <1>1, <2>1, <2>2, RevivedSensor
<1>3. CASE x \notin good
  BY <1>1, <1>3 DEF Revived
<1> QED
  BY <1>2, <1>3

LEMMA SampledIsSound ==
  ASSUME SupervisorAssumption, NEW s \in SensorType, s.ok, Sound(s), NEW good \in BOOLEAN
  PROVE Sampled(s, good) \in SensorType /\ Sound(Sampled(s, good))
<1>1. CASE good
  <2>1. Sampled(s, good) = [ok |-> TRUE, fails |-> 0, valid |-> TRUE, last |-> "good"]
    BY <1>1 DEF Sampled, SensorType
  <2>2. 0 \in 0 .. MaxFails /\ 0 < MaxFails
    BY DEF SupervisorAssumption
  <2> QED
    BY <2>1, <2>2 DEF SensorType, Sound
<1>2. CASE ~good
  <2>1. s.fails + 1 \in 0 .. MaxFails
    BY DEF SensorType, Sound, SupervisorAssumption
  <2>2. CASE s.fails + 1 < MaxFails
    <3>1. Sampled(s, good)
          = [ok |-> TRUE, fails |-> s.fails + 1, valid |-> FALSE, last |-> "bad"]
      BY <1>2, <2>2 DEF Sampled, SensorType
    <3> QED
      BY <2>1, <2>2, <3>1 DEF SensorType, Sound
  <2>3. CASE ~(s.fails + 1 < MaxFails)
    <3>1. (s.fails + 1 < MaxFails) = FALSE
      BY <2>3
    <3>2. Sampled(s, good) = [s EXCEPT !.fails = s.fails + 1, !.ok = FALSE,
                                       !.valid = FALSE, !.last = "bad"]
      BY <1>2, <3>1, Zenon DEF Sampled
    <3>3. Sampled(s, good)
          = [ok |-> FALSE, fails |-> s.fails + 1, valid |-> FALSE, last |-> "bad"]
      BY <3>2 DEF SensorType
    <3> QED
      BY <2>1, <3>3 DEF SensorType, Sound
  <2> QED
    BY <2>2, <2>3
<1> QED
  BY <1>1, <1>2

LEMMA SensorsKeep ==
  ASSUME SupervisorAssumption, Readings, Images, Control, HandleSensors
  PROVE Readings' /\ Images' /\ Control'
<1>1. Images'
  BY DEF HandleSensors, Images, wifiVars, webVars, otaVars
<1>2. Readings'
  <2>1. CASE Initialize
    BY <2>1, RevivedIsSound DEF Initialize, Readings
  <2>2. CASE Recover
    BY <2>2, RevivedIsSound DEF Recover, Readings
  <2>3. CASE Sample
    <3>1. PICK due \in SUBSET {x \in Sensors : sensor[x].ok} : \E good \in SUBSET due :
            sensor' = [x \in Sensors |-> IF x \in due THEN Sampled(sensor[x], x \in good)
                                         ELSE sensor[x]]
      BY <2>3 DEF Sample
    <3>2. PICK good \in SUBSET due :
            sensor' = [x \in Sensors |-> IF x \in due THEN Sampled(sensor[x], x \in good)
                                         ELSE sensor[x]]
      BY <3>1
    <3>3. ASSUME NEW x \in Sensors
          PROVE sensor'[x] \in SensorType /\ Sound(sensor'[x])
      <4>1. sensor[x] \in SensorType /\ Sound(sensor[x])
        BY DEF Readings
      <4>2. CASE x \in due
        <5>1. sensor[x].ok /\ (x \in good) \in BOOLEAN
          BY <4>2
        <5>2. sensor'[x] = Sampled(sensor[x], x \in good)
          BY <3>2, <4>2
        <5> QED
          BY <4>1, <5>1, <5>2, SampledIsSound
      <4>3. CASE x \notin due
        BY <3>2, <4>1, <4>3
      <4> QED
        BY <4>2, <4>3
    <3> QED
      BY <3>2, <3>3 DEF Readings
  <2>4. CASE UNCHANGED sensorVars
    BY <2>4 DEF sensorVars, Readings
  <2> QED
    BY <2>1, <2>2, <2>3, <2>4 DEF HandleSensors
<1>3. sampler' \in {"INITIALIZING", "RUNNING", "RECOVERY", "PAUSED"}
      /\ (sampler' = "PAUSED" <=> sampler = "PAUSED")
  BY DEF HandleSensors, Initialize, Recover, Sample, sensorVars, Control
<1>4. Control'
  BY <1>3 DEF HandleSensors, Control, Places, Ties, PausedForAReason, NeverBoth,
              wifiVars, webVars, apiVars, appVars, flags
<1> QED
  BY <1>1, <1>2, <1>4

-----------------------------------------------------------------------------
(* WifiManager and its observers                                           *)

\* A session ends with the station, and the memory mode decides for the rest.
LEMMA ObserveKeeps ==
  ASSUME SupervisorAssumption, Images, Control, UNCHANGED staged,
         \/ WifiMoves \/ Phase!OpenPortal,
         Observe(wifi')
  PROVE /\ Images'
        /\ wifi' \in {"SEEKING", "CONNECTED_STA", "PORTAL_MODE"}
        /\ mode' \in {"UNKNOWN", "PORTAL_MODE", "CONNECTED_STA"}
        /\ server' \in BOOLEAN /\ session' \in BOOLEAN /\ late' \in BOOLEAN
        /\ paused' \in BOOLEAN /\ http' \in BOOLEAN
        /\ sampler' \in {"INITIALIZING", "RUNNING", "RECOVERY", "PAUSED"}
        /\ Ties' /\ PausedForAReason' /\ (http' => http)
<1>1. /\ wifi' \in {"SEEKING", "CONNECTED_STA", "PORTAL_MODE"}
      /\ wifi' = "SEEKING" => wifi = "CONNECTED_STA"
  BY DEF WifiMoves, Phase!Settle, Phase!Lose, Phase!Return, Phase!OpenPortal
<1>2. Images'
  BY Starts DEF Observe, Images
<1>3. session' = (session /\ wifi' = "CONNECTED_STA")
  BY DEF Observe, Stopping, Control, Ties
<1>4. Ties'
  BY <1>1, <1>3 DEF Observe, Control, Ties
<1>5. sampler' \in {"INITIALIZING", "RUNNING", "RECOVERY", "PAUSED"}
      /\ (sampler' = "PAUSED" <=> session')
  BY <1>3 DEF Observe, Stopping, Resumed, Control, Ties, PausedForAReason
<1>6. paused' \in BOOLEAN /\ (paused' <=> session' \/ mode' = "PORTAL_MODE")
  BY <1>1, <1>3 DEF Observe, Stopping, Control, Ties, PausedForAReason
<1> QED
  BY <1>1, <1>2, <1>3, <1>4, <1>5, <1>6 DEF Observe, Control, PausedForAReason

LEMMA WifiKeeps ==
  ASSUME SupervisorAssumption, Readings, Images, Control,
         Connecting \/ HandleWifi \/ OpenWifi
  PROVE Readings' /\ Images' /\ Control'
<1>1. Readings'
  BY DEF Connecting, HandleWifi, OpenWifi, Readings
<1>2. /\ pc' \in Places /\ pc' \notin {"check", "download"}
      /\ app' \in {"SENSOR_STABILIZATION", "CONNECTING", "RUNNING", "UPDATING"}
      /\ UNCHANGED <<staged, safe, reboot, format, force>>
  BY DEF Connecting, HandleWifi, OpenWifi, Places, Control, appVars, flags
<1>3. CASE WifiMoves \/ Phase!OpenPortal
  <2>1. CASE Observe(wifi')
    BY <1>1, <1>2, <1>3, <2>1, ObserveKeeps DEF Control, NeverBoth
  <2>2. CASE UNCHANGED <<wifiVars, webVars, apiVars, sampler, updater>>
    BY <1>1, <1>2, <2>2
       DEF wifiVars, webVars, apiVars, Images, Control, Ties, PausedForAReason, NeverBoth
  <2> QED
    BY <2>1, <2>2 DEF Connecting, HandleWifi, OpenWifi, WifiHandles
<1>4. CASE UNCHANGED <<wifiVars, webVars, apiVars, sampler, updater>>
  BY <1>1, <1>2, <1>4
     DEF wifiVars, webVars, apiVars, Images, Control, Ties, PausedForAReason, NeverBoth
<1> QED
  BY <1>3, <1>4 DEF Connecting, HandleWifi, OpenWifi, WifiHandles

-----------------------------------------------------------------------------
(* The other steps of the loop                                             *)

LEMMA LoopKeeps ==
  ASSUME SupervisorAssumption, Readings, Images, Control, Loop
  PROVE Readings' /\ Images' /\ Control'
<1> USE DEF wifiVars, webVars, apiVars, sensorVars, otaVars, appVars, flags
<1>1. CASE Connecting \/ HandleWifi \/ OpenWifi
  BY <1>1, WifiKeeps
<1>2. CASE HandleSensors
  BY <1>2, SensorsKeep
<1>3. CASE DownloadEnds \/ ServerRestarts \/ RebootCommand \/ ArduinoEnds
  BY <1>3, RestartKeeps DEF DownloadEnds, ServerRestarts, RebootCommand, ArduinoEnds
<1>4. CASE Stabilized \/ HandleApi \/ ServerWaits \/ Commands
  <2>1. Readings' /\ Images'
    BY <1>4 DEF Stabilized, HandleApi, ServerWaits, Commands, Readings, Images
  <2>2. http' \in BOOLEAN /\ (http' => ~paused) /\ pc' \in Places \ {"check", "download"}
    <3>1. CASE HandleApi
      <4>1. http' = FALSE \/ http' = ~paused
        BY <3>1, Zenon DEF HandleApi
      <4> QED
        BY <3>1, <4>1 DEF HandleApi, Places
    <3>2. CASE Stabilized \/ ServerWaits \/ Commands
      <4>1. UNCHANGED http
        BY <3>2 DEF Stabilized, ServerWaits, Commands
      <4>2. pc' \in {"wifi", "terminal", "arduino"}
        BY <3>2 DEF Stabilized, ServerWaits, Commands
      <4> QED
        BY <4>1, <4>2 DEF Control, Places, PausedForAReason
    <3> QED
      BY <1>4, <3>1, <3>2
  <2>3. force' \in BOOLEAN /\ app' \in {"SENSOR_STABILIZATION", "CONNECTING", "RUNNING", "UPDATING"}
    BY <1>4 DEF Stabilized, HandleApi, ServerWaits, Commands, Control
  <2>4. UNCHANGED <<wifi, mode, server, session, late, paused, sampler, safe, reboot, format>>
    BY <1>4 DEF Stabilized, HandleApi, ServerWaits, Commands
  <2>5. Control'
    BY <2>2, <2>3, <2>4 DEF Control, Ties, PausedForAReason, NeverBoth
  <2> QED
    BY <2>1, <2>5
<1>5. CASE CheckDue \/ NoCheck \/ NoArduino
  <2>1. Readings' /\ Images'
    BY <1>5 DEF CheckDue, NoCheck, NoArduino, Goto, Readings, Images
  <2>2. pc' \in Places /\ (pc' \in {"check", "download"} => ~http)
    BY <1>5 DEF CheckDue, NoCheck, NoArduino, Goto, MayCheck, Places
  <2>3. force' \in BOOLEAN
    BY <1>5 DEF CheckDue, NoCheck, NoArduino, Control
  <2>4. UNCHANGED <<wifiVars, webVars, apiVars, sampler, appVars, reboot, format>>
    BY <1>5 DEF CheckDue, NoCheck, NoArduino, Goto
  <2>5. Control'
    BY <2>2, <2>3, <2>4 DEF Control, Ties, PausedForAReason, NeverBoth
  <2> QED
    BY <2>1, <2>5
<1>6. CASE Checked \/ Download \/ DownloadFails
  <2>1. Readings'
    BY <1>6 DEF Checked, Download, DownloadFails, Goto, Readings
  <2>2. updater' \in UpdateType
    <3>1. CASE Download
      BY <1>6, <3>1 DEF Download, Images, UpdateType
    <3>2. CASE Checked
      BY <3>2, Starts DEF Checked, Images
    <3>3. CASE DownloadFails
      BY <3>3, Starts DEF DownloadFails
    <3> QED
      BY <1>6, <3>1, <3>2, <3>3
  <2>3. Images'
    BY <1>6, <2>2 DEF Checked, Download, DownloadFails, Goto, Images
  <2>4. Control'
    BY <1>6 DEF Checked, Download, DownloadFails, Goto, Control, Places,
                Ties, PausedForAReason, NeverBoth
  <2> QED
    BY <2>1, <2>3, <2>4
<1>7. CASE AbortSession
  <2>1. Readings' /\ Images'
    BY <1>7, Starts DEF AbortSession, OtaEnds, Readings, Images
  <2>2. mode = "CONNECTED_STA" /\ ~session' /\ ~paused' /\ ~late' /\ pc' = "terminal"
    BY <1>7 DEF AbortSession, OtaEnds, Control, Ties
  <2>3. sampler' \in {"INITIALIZING", "RUNNING", "RECOVERY"}
    BY <1>7 DEF AbortSession, OtaEnds, Resumed, Control
  <2>4. Control'
    BY <1>7, <2>2, <2>3 DEF AbortSession, OtaEnds, Control, Places, Ties,
                            PausedForAReason, NeverBoth
  <2> QED
    BY <2>1, <2>4
<1>8. CASE ArduinoStarts \/ ArduinoFails
  <2>1. Readings'
    BY <1>8 DEF ArduinoStarts, ArduinoFails, Readings
  <2>2. Images'
    BY <1>8, Starts DEF ArduinoStarts, ArduinoFails, Images
  <2>3. Control'
    BY <1>8 DEF ArduinoStarts, ArduinoFails, Control, Places, Ties, PausedForAReason, NeverBoth
  <2> QED
    BY <2>1, <2>2, <2>3
<1> QED
  BY <1>1, <1>2, <1>3, <1>4, <1>5, <1>6, <1>7, <1>8 DEF Loop

-----------------------------------------------------------------------------
(* Requests to the web server                                              *)

LEMMA ReceiveKeeps ==
  ASSUME SupervisorAssumption, Images, NEW r \in Uploads, NEW n \in 0 .. Chunks - 1,
         Receive(r, n)
  PROVE chunk' \in [Uploads -> 0 .. Chunks - 1]
  BY DEF Receive, Images

\* What the end of a session leaves behind.
LEMMA EndKeeps ==
  ASSUME Control, server, OtaEnds,
         UNCHANGED <<wifi, mode, server, app, safe, pc, format, force, http>>,
         reboot' \in BOOLEAN
  PROVE Control'
<1>1. mode = "CONNECTED_STA" /\ ~session' /\ ~paused' /\ ~late'
  BY DEF OtaEnds, Control, Ties
<1>2. sampler' \in {"INITIALIZING", "RUNNING", "RECOVERY"}
  BY DEF OtaEnds, Resumed, Control
<1> QED
  BY <1>1, <1>2 DEF OtaEnds, Control, Ties, PausedForAReason, NeverBoth

LEMMA RequestKeeps ==
  ASSUME SupervisorAssumption, Readings, Images, Control, NEW r \in Uploads,
         \/ FirstRefused(r) \/ First(r) \/ Middle(r) \/ Ignored(r)
         \/ WriteFails(r) \/ Final(r) \/ FinalEmpty(r) \/ HangUp(r)
  PROVE Readings' /\ Images' /\ Control'
<1> USE DEF wifiVars, webVars, apiVars, sensorVars, otaVars, appVars, flags
<1>0. chunk[r] \in 0 .. Chunks - 1 /\ Chunks \in Nat /\ Chunks >= 2
  BY DEF Images, SupervisorAssumption
<1>1. CASE FirstRefused(r) \/ HangUp(r)
  <2>1. chunk' \in [Uploads -> 0 .. Chunks - 1]
    BY <1>0, <1>1, ReceiveKeeps DEF FirstRefused, HangUp
  <2>2. Readings' /\ Images'
    BY <1>1, <2>1 DEF FirstRefused, HangUp, Receive, Readings, Images
  <2>3. Control'
    BY <1>1 DEF FirstRefused, HangUp, Receive, Control, Ties, PausedForAReason, NeverBoth
  <2> QED
    BY <2>2, <2>3
<1>2. CASE First(r)
  <2>1. chunk' \in [Uploads -> 0 .. Chunks - 1]
    BY <1>0, <1>2, ReceiveKeeps DEF First
  <2>2. Readings' /\ Images'
    BY <1>2, <2>1 DEF First, Receive, Readings, Images, UpdateType, Writers
  <2>3. Control'
    BY <1>2 DEF First, Receive, OtaStarts, Pause, Control, Ties, PausedForAReason, NeverBoth
  <2> QED
    BY <2>2, <2>3
<1>3. CASE Middle(r)
  <2>1. chunk' \in [Uploads -> 0 .. Chunks - 1]
    <3>1. chunk[r] + 1 \in 0 .. Chunks - 1
      BY <1>0, <1>3 DEF Middle
    <3> QED
      BY <1>3, <3>1, ReceiveKeeps DEF Middle
  <2>2. updater' \in UpdateType
    BY <1>3 DEF Middle, Write, Images, UpdateType
  <2>3. Readings' /\ Images'
    BY <1>3, <2>1, <2>2 DEF Middle, Receive, Readings, Images
  <2>4. Control'
    BY <1>3 DEF Middle, Receive, Touch, Control, Ties, PausedForAReason, NeverBoth
  <2> QED
    BY <2>3, <2>4
<1>4. CASE Ignored(r)
  <2>1. PICK n \in {0, chunk[r] + 1} : n < Chunks /\ Receive(r, n)
    BY <1>4 DEF Ignored
  <2>2. n \in 0 .. Chunks - 1
    BY <1>0, <2>1
  <2>3. Readings' /\ Images'
    BY <1>4, <2>1, <2>2, ReceiveKeeps DEF Ignored, Receive, Readings, Images
  <2>4. Control'
    BY <1>4, <2>1 DEF Ignored, Receive, Control, Ties, PausedForAReason, NeverBoth
  <2> QED
    BY <2>3, <2>4
<1>5. CASE WriteFails(r)
  <2>1. PICK n \in {0, chunk[r] + 1} : n < Chunks /\ Receive(r, n)
    BY <1>5 DEF WriteFails
  <2>2. n \in 0 .. Chunks - 1
    BY <1>0, <2>1
  <2>3. Readings' /\ Images'
    BY <1>5, <2>1, <2>2, ReceiveKeeps, Starts DEF WriteFails, Receive, Readings, Images
  <2>4. Control'
    BY <1>5, <2>1, EndKeeps DEF WriteFails, Receive, Control
  <2> QED
    BY <2>3, <2>4
<1>6. CASE Final(r)
  <2>1. chunk' \in [Uploads -> 0 .. Chunks - 1]
    BY <1>0, <1>6 DEF Final, Images
  <2>2. Readings' /\ Images'
    BY <1>6, <2>1, Starts DEF Final, Readings, Images
  <2>3. Control'
    BY <1>6, EndKeeps DEF Final, Control
  <2> QED
    BY <2>2, <2>3
<1>7. CASE FinalEmpty(r)
  <2>1. chunk' \in [Uploads -> 0 .. Chunks - 1]
    BY <1>0, <1>7, ReceiveKeeps DEF FinalEmpty
  <2>2. Readings' /\ Images'
    BY <1>7, <2>1 DEF FinalEmpty, Receive, Readings, Images
  <2>3. Control'
    BY <1>7, EndKeeps DEF FinalEmpty, Receive, Control
  <2> QED
    BY <2>2, <2>3
<1> QED
  BY <1>1, <1>2, <1>3, <1>4, <1>5, <1>6, <1>7

-----------------------------------------------------------------------------
(* The theorems                                                            *)

LEMMA NextKeeps ==
  ASSUME SupervisorAssumption, IInv, [Next]_vars
  PROVE IInv'
<1> USE DEF wifiVars, webVars, apiVars, sensorVars, otaVars, appVars, flags
<1>0. Readings /\ Images /\ Control
  BY Parts
<1>1. CASE Loop
  BY <1>0, <1>1, LoopKeeps, Parts, PTL
<1>2. CASE Web
  <2>1. CASE FormatFs
    <3>1. Readings' /\ Images'
      BY <1>0, <2>1 DEF FormatFs, Readings, Images
    <3>2. Control'
      BY <1>0, <2>1 DEF FormatFs, Control, Ties, PausedForAReason, NeverBoth
    <3> QED
      BY <3>1, <3>2, Parts, PTL
  <2>2. ASSUME NEW r \in Uploads,
               \/ FirstRefused(r) \/ First(r) \/ Middle(r) \/ Ignored(r)
               \/ WriteFails(r) \/ Final(r) \/ FinalEmpty(r) \/ HangUp(r)
        PROVE IInv'
    <3>1. Readings' /\ Images' /\ Control'
      BY <1>0, <2>2, RequestKeeps
    <3> QED
      BY <3>1, Parts, PTL
  <2> QED
    BY <1>2, <2>1, <2>2 DEF Web
<1>3. CASE TimeOut
  <2>1. Readings' /\ Images'
    BY <1>0, <1>3 DEF TimeOut, Readings, Images
  <2>2. Control'
    BY <1>0, <1>3 DEF TimeOut, Control, Ties, PausedForAReason, NeverBoth
  <2> QED
    BY <2>1, <2>2, Parts, PTL
<1>4. CASE Crash
  BY <1>4, RestartKeeps, Parts, PTL DEF Crash
<1>5. CASE UNCHANGED vars
  <2>1. Readings' /\ Images'
    BY <1>0, <1>5 DEF vars, Readings, Images
  <2>2. Control'
    BY <1>0, <1>5 DEF vars, Control, Ties, PausedForAReason, NeverBoth
  <2> QED
    BY <2>1, <2>2, Parts, PTL
<1> QED
  BY <1>1, <1>2, <1>3, <1>4, <1>5 DEF Next

\* The inductive invariant holds in every state.
THEOREM Invariance == Spec => []IInv
<1>1. Init => IInv
  BY InitHolds, SupervisorAssumption
<1>2. IInv /\ [Next]_vars => IInv'
  BY NextKeeps, SupervisorAssumption
<1> QED
  BY <1>1, <1>2, PTL DEF Spec

\* For any number of sensors, connections and chunks: nothing is paused without
\* a reason, and nothing with a reason runs on (Application.cpp, AppServer.cpp).
THEOREM NothingStaysPaused == Spec => []PausedForAReason
<1>1. IInv => PausedForAReason
  BY DEF IInv
<1> QED
  BY <1>1, Invariance, PTL

\* Every state is well typed, no update meets an upload (Application.cpp:167),
\* and a reading that counts as valid was measured (SensorData.h:17).
THEOREM StaysCoherent == Spec => []Coherent
<1>1. IInv => Coherent
  BY DEF IInv, Coherent
<1> QED
  BY <1>1, Invariance, PTL
=============================================================================
