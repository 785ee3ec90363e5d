------------------------------- MODULE Uplink -------------------------------
(***************************************************************************)
(* Where ApiClient sends its records, and when: the cloud directly, the    *)
(* cloud through a relay, or a gateway in the greenhouse; the request and  *)
(* its steps; what a failure changes; immediate uploads and measurements   *)
(* (QoS), which keep the upload timers waiting; and the clock, without     *)
(* which nothing is sent to the cloud.                                     *)
(*                                                                         *)
(* There is always a record to send (StoreForward models the queues). An   *)
(* action is one part of ApiClient::handle, or one call from outside; the  *)
(* timers, the heap, a running scan or update are read as they may be.     *)
(***************************************************************************)
EXTENDS Integers

CONSTANTS
  Threshold, \* LOCAL_GATEWAY_FALLBACK_THRESHOLD (3)
  Reset,     \* failures after which the WiFi is reset (5)
  Samples,   \* kQosSamples (5)
  Uplinks,   \* uplinks that may be configured
  Answers,   \* what a gateway may answer: 0 CLOUD, 1 LOCAL, -1 nothing
  Happens,   \* what is modelled to happen, a subset of Events
  MaxEdits   \* bound: calls of the user

\* Calls of the user: a change of the mode, of the uplink, a measurement, an
\* immediate upload. A pause; the WiFi is lost; a record is sent at once because
\* it cannot be stored; the device boots without a saved time.
Events == {"mode", "config", "qos", "sendnow", "pause", "lost", "direct", "noclock"}

ASSUME UplinkAssumption ==
  /\ {Threshold, Reset, Samples} \subseteq Nat \ {0} /\ MaxEdits \in Nat
  /\ Threshold <= Reset
  /\ Uplinks \subseteq {"AUTO", "DIRECT", "RELAY"} /\ Happens \subseteq Events
  /\ -1 \in Answers /\ Answers \subseteq {-1, 0, 1}

VARIABLES
  route,   \* where records go, see Route
  conn,    \* httpState, and what the connection was made to, or "cut"
  up,      \* uploadState, consecutiveUploadFailures
  now,     \* the immediate upload: requested, warmup, what the gateway said
  qos,     \* the measurement: asked for, samples left, whether its client is there
  clock,   \* the system clock is plausible, isTimeSynced
  online,  \* WifiManager is in CONNECTED_STA
  gateway, \* what the gateway answers
  edits    \* bound: the calls of the user so far

vars == <<route, conn, up, now, qos, clock, online, gateway, edits>>

Unasked == -2

\* pin: relayPinnedUntil is not set, lies ahead, or has passed.
\* retry: CLOUD_RETRY_INTERVAL_MS has passed since lastCloudRetryAttempt.
\* failed: history, an upload to the cloud failed, and none sent to it
\* directly has succeeded since, nor was the uplink changed.
Route ==
  [mode : {"AUTO", "CLOUD", "EDGE"}, local : BOOLEAN, cached : Answers, retry : BOOLEAN,
   uplink : {"AUTO", "DIRECT", "RELAY"}, force : BOOLEAN,
   pin : {"none", "set", "over"}, relay : BOOLEAN, edge : BOOLEAN, failed : BOOLEAN]

TypeOK ==
  /\ route \in Route
  /\ conn \in [at : {"IDLE", "CONNECTING", "SENDING", "WAITING", "READING"},
               via : {"none", "edge", "direct", "relay", "cut"}]
  /\ up \in [state : {"IDLE", "UPLOADING", "PAUSED"}, fails : 0 .. Reset + 1]
  /\ now \in [requested : BOOLEAN, warmup : 0 .. 1, poll : Answers \cup {Unasked}]
  /\ qos \in [asked : BOOLEAN, left : 0 .. Samples, client : BOOLEAN]
  /\ clock \in [good : BOOLEAN, synced : BOOLEAN]
  /\ online \in BOOLEAN /\ gateway \in Answers /\ edits \in 0 .. MaxEdits

Closed == [at |-> "IDLE", via |-> "none"]
Paused == up.state = "PAUSED"

-----------------------------------------------------------------------------
(* The route to the cloud                                                  *)

\* shouldUseRelayForCloudUpload
UsesRelay(r) ==
  \/ r.uplink = "RELAY"
  \/ r.uplink = "AUTO" /\ (r.force \/ r.pin = "set")

\* updateCloudTargetCache
Retargeted(r) == [r EXCEPT !.relay = UsesRelay(r)]

\* Mutant of Aimed: the attempt does not use the force flag up.
AimedStillForced(r) == Retargeted(r)

\* An attempt starts: the one over the relay that was armed is used up.
Aimed(r) ==
  [Retargeted(r) EXCEPT !.force = @ /\ ~(UsesRelay(r) /\ r.uplink = "AUTO")]

\* activateRelayFallback
RelayArmed(r) == [r EXCEPT !.force = TRUE, !.pin = "set", !.relay = TRUE]

\* clearRelayFallback
RelayCleared(r) ==
  [r EXCEPT !.force = FALSE, !.pin = "none", !.relay = @ /\ r.uplink = "RELAY"]

\* Mutant of FallsBack: an answer that refuses the record counts as well.
FallsBackOnRefusal(r, result) ==
  r.uplink = "AUTO" /\ ~r.edge /\ ~r.relay /\ result \in {"failed", "refused"}

\* shouldFallbackToRelay: a result is "ok"; "failed", see
\* shouldTreatAsCloudFailure; "lowram", TOO_LESS_RAM; or "refused", any other.
FallsBack(r, result) ==
  r.uplink = "AUTO" /\ ~r.edge /\ ~r.relay /\ result = "failed"

\* The history after an attempt over via.
Noted(r, via, result) ==
  [r EXCEPT !.failed = (result = "failed") \/ (@ /\ ~(result = "ok" /\ via = "direct"))]

Way(r) == IF r.relay THEN "relay" ELSE "direct"

\* The gateway gets the records, as far as this side knows.
ToGateway(r) == r.mode = "EDGE" \/ (r.mode = "AUTO" /\ (r.local \/ r.cached = 1))

-----------------------------------------------------------------------------
(* What the end of an upload changes                                       *)

Counted == IF up.fails > Reset THEN up.fails ELSE up.fails + 1

\* handleSuccessfulUpload. The cycle goes on at once unless the record cannot
\* be popped.
Succeeds(r) ==
  LET s == IF r.uplink = "AUTO" /\ ~r.relay /\ (r.pin # "none" \/ r.force)
           THEN RelayCleared(r) ELSE r
  IN  /\ route' = [Noted(s, conn.via, "ok") EXCEPT !.local = FALSE]
      /\ \E state \in {up.state, "IDLE"} : up' = [state |-> state, fails |-> 0]
      /\ UNCHANGED online

\* handleFailedUpload. trackUploadFailure resets the WiFi at exactly one count.
Fails(r, via, result) ==
  LET s == Noted(r, via, result)
      local == s.mode = "AUTO" /\ ~s.local /\ Counted >= Threshold
  IN  IF FallsBack(r, result)
      THEN /\ route' = RelayArmed(s)
           /\ up' = [up EXCEPT !.state = "IDLE"]
           /\ UNCHANGED online
      ELSE /\ route' = [s EXCEPT !.local = @ \/ local, !.retry = @ /\ ~local]
           /\ up' = [state |-> "IDLE", fails |-> Counted]
           /\ online' = (online /\ Counted # Reset)

\* The end of a request in handle. What goes to a gateway is a live snapshot,
\* for which processGatewayResult changes nothing here.
Ends(r, via, result) ==
  /\ conn' = Closed
  /\ \/ r.edge /\ route' = r /\ UNCHANGED <<up, online>>
     \/ ~r.edge /\ result = "ok" /\ Succeeds(r)
     \/ ~r.edge /\ result # "ok" /\ Fails(r, via, result)

-----------------------------------------------------------------------------
(* The request, one step in each pass of handle                            *)

Others == <<now, qos, gateway, edits>>
Cut == conn.via = "cut"

\* handleStateConnecting
Connect ==
  LET r == IF route.edge THEN route ELSE Retargeted(route)
      via == IF r.edge THEN "edge" ELSE Way(r)
  IN  /\ conn.at = "CONNECTING"
      /\ \/ /\ conn' = [at |-> "SENDING", via |-> via] /\ route' = r
            /\ UNCHANGED <<up, online>>
         \/ Ends(r, via, "failed")
         \/ ~r.edge /\ Ends(r, via, "lowram")
      /\ UNCHANGED <<Others, clock>>

\* handleStateSending: a request whose connection or payload is gone fails
\* before it looks at the route again.
Send ==
  LET r == IF route.edge THEN route ELSE Retargeted(route)
  IN  /\ conn.at = "SENDING"
      /\ \/ /\ ~Cut
            /\ conn' = [conn EXCEPT !.at = "WAITING"] /\ route' = r
            /\ UNCHANGED <<up, online>>
         \/ \E s \in {r, route} : Ends(s, conn.via, "failed")
      /\ UNCHANGED <<Others, clock>>

\* handleStateWaiting
Wait ==
  /\ conn.at = "WAITING"
  /\ \/ ~Cut /\ conn' = [conn EXCEPT !.at = "READING"] /\ UNCHANGED <<route, up, online>>
     \/ Ends(route, conn.via, "failed")
  /\ UNCHANGED <<Others, clock>>

\* NtpClient::setManualTime
SetByHand == [good |-> TRUE, synced |-> TRUE]

\* sync_time_from_http_date: the answer may carry a date.
Dated == {clock} \cup (IF clock.synced THEN {} ELSE {SetByHand})

\* handleStateReading
Read ==
  /\ conn.at = "READING"
  /\ \/ Ends(route, conn.via, "failed")
     \/ ~Cut /\ \E result \in {"ok", "refused"} : Ends(route, conn.via, result)
  /\ clock' \in Dated
  /\ UNCHANGED Others

Request == Connect \/ Send \/ Wait \/ Read

-----------------------------------------------------------------------------
(* A blocking upload                                                       *)

Result(r, x) == [route |-> r, result |-> x]

\* There is no memory for TLS: refused at once, or found out a moment later.
Unready(r) == {Result(r, "failed"), Result(r, "lowram")}

Attempts(r) ==
  LET s == Aimed(r)
  IN  {Result(Noted(s, Way(s), x), x) : x \in {"ok", "refused", "failed"}}

\* performSingleUpload: a failure without the relay is followed by an attempt
\* over it. (targetIsEdge is that of the last request of startUpload.)
Single(r) ==
  LET Retried(a) == Unready(RelayArmed(a.route)) \cup Attempts(RelayArmed(a.route))
  IN  Unready(r) \cup UNION {IF FallsBack(a.route, a.result) THEN Retried(a) ELSE {a} :
                               a \in Attempts(r)}

\* performLocalGatewayUpload
AtGateway(r) == {Result(r, "ok"), Result(r, "failed")}

\* createAndCachePayload can store the record nowhere and sends it at once
\* (tryDirectSendEmergencyRecord), which takes the clients from whoever uses
\* them.
DirectSend ==
  LET edge == ToGateway(route)
      cut == [conn EXCEPT !.via = "cut"]
      taken == IF edge THEN conn.via = "edge" ELSE conn.via \in {"direct", "relay"}
  IN  /\ "direct" \in Happens
      /\ \E a \in IF edge THEN AtGateway(route) ELSE Single(route) :
           /\ route' = a.route
           /\ up' = IF a.result = "ok" THEN [up EXCEPT !.fails = 0] ELSE up
           /\ clock' \in IF edge \/ a.result = "lowram" THEN {clock} ELSE Dated
           /\ conn' \in {IF taken THEN cut ELSE conn}
                        \cup {c \in {conn} : ~edge /\ a = Result(route, "failed")}
      /\ qos' = [qos EXCEPT !.client = FALSE]

-----------------------------------------------------------------------------
(* Measurements: while one is asked for or runs, handle ends here          *)

Measuring == qos.asked \/ qos.left > 0

\* handlePendingTask: it does not start without memory, else it takes the
\* first sample at once.
StartQos ==
  /\ ~Paused /\ conn.at = "IDLE"
  /\ qos.asked /\ qos.left = 0
  /\ \E left \in {0, Samples - 1} :
       qos' = [asked |-> FALSE, left |-> left, client |-> left > 0]
  /\ UNCHANGED <<route, conn, up, now, clock, online, gateway, edits>>

\* handlePendingTask: another sample, or the end because the client is gone
Sample ==
  /\ ~Paused /\ conn.at = "IDLE"
  /\ qos.left > 0
  /\ LET left == IF qos.client THEN qos.left - 1 ELSE 0
     IN  qos' = [qos EXCEPT !.left = left, !.client = left > 0]
  /\ UNCHANGED <<route, conn, up, now, clock, online, gateway, edits>>

-----------------------------------------------------------------------------
(* The immediate upload: while it is asked for, handle ends here           *)

ImmediateRuns == ~Paused /\ ~Measuring /\ now.requested /\ conn.at = "IDLE"

Warm ==
  /\ ImmediateRuns /\ now.warmup > 0
  /\ now' = [now EXCEPT !.warmup = 0]
  /\ UNCHANGED <<route, conn, up, qos, clock, online, gateway, edits>>

\* performImmediateUpload finds a pop owed or on hold, a scan, or no record.
GiveUp ==
  /\ ImmediateRuns /\ now.warmup = 0
  /\ now' = [now EXCEPT !.requested = FALSE]
  /\ UNCHANGED <<route, conn, up, qos, clock, online, gateway, edits>>

\* resolveImmediateUploadTarget: what the gateway says, or has said; with
\* little memory it is not asked.
Polled == IF route.mode # "AUTO" THEN {Unasked}
          ELSE IF now.poll # Unasked THEN {now.poll} ELSE {gateway, -1}

Later(poll) == [requested |-> TRUE, warmup |-> 1, poll |-> poll]
Done == [requested |-> FALSE, warmup |-> 0, poll |-> Unasked]

\* Mutant of PutOff: it forgets what the gateway has said.
PutOffForgetful ==
  /\ ImmediateRuns /\ now.warmup = 0
  /\ route.mode = "AUTO" /\ now.poll = Unasked
  /\ \E poll \in Polled \ {1} : now' = Later(Unasked)
  /\ UNCHANGED <<route, conn, up, qos, clock, online, gateway, edits>>

\* The gateway has just said something else than LOCAL: put off once.
PutOff ==
  /\ ImmediateRuns /\ now.warmup = 0
  /\ route.mode = "AUTO" /\ now.poll = Unasked
  /\ \E poll \in Polled \ {1} : now' = Later(poll)
  /\ UNCHANGED <<route, conn, up, qos, clock, online, gateway, edits>>

\* finalizeImmediateUploadResult
Finished(result) ==
  /\ now' = Done
  /\ up' = [up EXCEPT !.fails = IF result = "ok" THEN 0 ELSE Counted]

\* performImmediateUpload sends: to a gateway and, if that fails and the record
\* is still there, to the cloud; or to the cloud.
Immediate ==
  /\ ImmediateRuns /\ now.warmup = 0
  /\ \E poll \in Polled :
       /\ route.mode = "AUTO" => (now.poll # Unasked \/ poll = 1)
       /\ \/ /\ route.mode = "EDGE" \/ poll = 1
             /\ \E result \in {"ok", "failed"} : Finished(result)
             /\ UNCHANGED <<route, clock>>
          \/ \E a \in Single(route) :
               /\ route' = a.route
               /\ IF a.result = "lowram" THEN now' = Later(poll) /\ UNCHANGED up
                  ELSE Finished(a.result)
               /\ clock' \in IF a.result = "lowram" THEN {clock} ELSE Dated
  /\ UNCHANGED <<conn, qos, online, gateway, edits>>

-----------------------------------------------------------------------------
(* The rest of handle                                                      *)

\* What is asked for immediately keeps the timers from running, except that
\* nothing is started during an OTA update.
TimersRun == ~Paused /\ ~Measuring /\ (now.requested => conn.at = "IDLE")

WifiLost ==
  /\ TimersRun /\ ~online
  /\ up.state = "UPLOADING"
  /\ up' = [up EXCEPT !.state = "IDLE"]
  /\ UNCHANGED <<route, conn, now, qos, clock, online, gateway, edits>>

\* tryNtpFallbackProbe: the date of an answer of the server, if it comes.
Probe(clk) ==
  /\ TimersRun /\ online /\ ~now.requested
  /\ conn.at = "IDLE" /\ ~clock.synced
  /\ route' = Retargeted(route)
  /\ clock' = clk
  /\ UNCHANGED <<conn, up, now, qos, online, gateway, edits>>

\* createAndCachePayload sends at once: called by the data creation timer, or
\* as the first thing an immediate upload does.
CreateAndSend ==
  /\ TimersRun /\ (online \/ now.requested)
  /\ DirectSend
  /\ UNCHANGED <<now, online, gateway, edits>>

\* trySendLiveSnapshotToGateway
SendSnapshot ==
  /\ TimersRun /\ online /\ ~now.requested
  /\ ToGateway(route)
  /\ conn.at = "IDLE" /\ up.state = "IDLE"
  /\ conn' = [at |-> "CONNECTING", via |-> "none"]
  /\ route' = [route EXCEPT !.edge = TRUE]
  /\ UNCHANGED <<up, now, qos, clock, online, gateway, edits>>

\* The cache send timer of handleTimerTasks
StartCycle ==
  /\ TimersRun /\ online
  /\ conn.at = "IDLE" /\ up.state = "IDLE"
  /\ up' = [up EXCEPT !.state = "UPLOADING"]
  /\ UNCHANGED <<route, conn, now, qos, clock, online, gateway, edits>>

CycleRuns == TimersRun /\ online /\ ~now.requested /\ conn.at = "IDLE" /\ up.state = "UPLOADING"

\* handleUploadCycle has no memory, no record, or a pop owed or on hold.
CycleDeferred ==
  /\ CycleRuns
  /\ up' = [up EXCEPT !.state = "IDLE"]
  /\ UNCHANGED <<route, conn, now, qos, clock, online, gateway, edits>>

\* resolveQueuedUploadTarget: what the gateway said last, or what it says now
Decided ==
  IF route.mode # "AUTO" THEN {route}
  ELSE {[route EXCEPT !.cached = g, !.local = (g = 1) \/ (g = -1 /\ @)] :
          g \in ({route.cached} \ {-1}) \cup {gateway}}

Held(r) == r.mode = "EDGE" \/ (r.mode = "AUTO" /\ r.local /\ r.cached = 1)
Gateways(r) == r.mode = "AUTO" /\ r.local
Waits(r) == Gateways(r) /\ ~r.retry

\* A retry of the cloud starts the wait for the next one.
Proceeds(r) == [r EXCEPT !.retry = @ /\ ~Gateways(r)]

\* handleUploadCycle sends nothing: the gateway gets the records, or the clock
\* is not set.
CycleEnds ==
  /\ CycleRuns
  /\ \E r \in Decided :
       \/ (Held(r) \/ Waits(r)) /\ route' = r
       \/ ~Held(r) /\ ~Waits(r) /\ ~clock.synced /\ route' = Proceeds(r)
  /\ up' = [up EXCEPT !.state = "IDLE"]
  /\ UNCHANGED <<conn, now, qos, clock, online, gateway, edits>>

\* handleUploadCycle starts an upload to the cloud (startUpload).
Dispatch ==
  /\ CycleRuns /\ clock.synced
  /\ \E r \in Decided :
       /\ ~Held(r) /\ ~Waits(r)
       /\ route' = [Aimed(Proceeds(r)) EXCEPT !.edge = FALSE]
  /\ conn' = [at |-> "CONNECTING", via |-> "none"]
  /\ UNCHANGED <<up, now, qos, clock, online, gateway, edits>>

-----------------------------------------------------------------------------
(* NtpClient: until its time is verified it asks the server again and again *)

\* checkSyncStatus: any plausible time counts as the answer.
CheckSync ==
  /\ online /\ clock.good /\ ~clock.synced
  /\ clock' = [clock EXCEPT !.synced = TRUE]
  /\ UNCHANGED <<route, conn, up, now, qos, online, gateway, edits>>

\* The time server answers a startSync.
TimeAnswered ==
  /\ online /\ ~clock.good
  /\ clock' = [clock EXCEPT !.good = TRUE]
  /\ UNCHANGED <<route, conn, up, now, qos, online, gateway, edits>>

-----------------------------------------------------------------------------
(* The world                                                               *)

LinkUp ==
  /\ ~online /\ online' = TRUE
  /\ UNCHANGED <<route, conn, up, now, qos, clock, gateway, edits>>

LinkDown ==
  /\ "lost" \in Happens
  /\ online /\ online' = FALSE
  /\ UNCHANGED <<route, conn, up, now, qos, clock, gateway, edits>>

GatewayTurns ==
  /\ gateway' \in Answers \ {gateway}
  /\ UNCHANGED <<route, conn, up, now, qos, clock, online, edits>>

PinRunsOut ==
  /\ route.pin = "set"
  /\ route' = [route EXCEPT !.pin = "over"]
  /\ UNCHANGED <<conn, up, now, qos, clock, online, gateway, edits>>

RetryDue ==
  /\ ~route.retry
  /\ route' = [route EXCEPT !.retry = TRUE]
  /\ UNCHANGED <<conn, up, now, qos, clock, online, gateway, edits>>

-----------------------------------------------------------------------------
(* Calls from outside                                                      *)

Pause ==
  /\ "pause" \in Happens
  /\ ~Paused
  /\ conn' = Closed
  /\ up' = [up EXCEPT !.state = "PAUSED"]
  /\ qos' = [qos EXCEPT !.client = FALSE]
  /\ UNCHANGED <<route, now, clock, online, gateway, edits>>

Resume ==
  /\ Paused
  /\ up' = [state |-> "IDLE", fails |-> 0]
  /\ UNCHANGED <<route, conn, now, qos, clock, online, gateway, edits>>

Edit(event) == event \in Happens /\ edits < MaxEdits /\ edits' = edits + 1

SetUploadMode(mode) ==
  /\ Edit("mode")
  /\ route' = [route EXCEPT !.mode = mode, !.local = (mode = "EDGE") \/ (mode = "AUTO" /\ @)]
  /\ UNCHANGED <<conn, up, now, qos, clock, online, gateway>>

\* Mutant of ApplyConfig: the pin outlives the mode it belongs to.
ApplyConfigKeepsPin(uplink) ==
  /\ Edit("config")
  /\ route' = Retargeted([route EXCEPT !.uplink = uplink, !.cached = -1,
                            !.failed = @ /\ uplink = route.uplink])
  /\ UNCHANGED <<conn, up, now, qos, clock, online, gateway>>

ApplyConfig(uplink) ==
  LET kept == uplink = "AUTO" /\ uplink = route.uplink
  IN  /\ Edit("config")
      /\ route' = Retargeted([route EXCEPT !.uplink = uplink, !.cached = -1,
                                !.force = @ /\ kept, !.pin = IF kept THEN @ ELSE "none",
                                !.failed = @ /\ uplink = route.uplink])
      /\ UNCHANGED <<conn, up, now, qos, clock, online, gateway>>

RequestQos ==
  /\ Edit("qos")
  /\ qos' = [qos EXCEPT !.asked = TRUE]
  /\ UNCHANGED <<route, conn, up, now, clock, online, gateway>>

\* requestImmediateUpload: the record it makes may be sent on the spot, or may
\* find no room, and then nothing is asked for.
SendNow ==
  /\ Edit("sendnow")
  /\ now' \in {now, Later(Unasked)}
  /\ DirectSend \/ UNCHANGED <<route, conn, up, qos, clock>>
  /\ UNCHANGED <<online, gateway>>

-----------------------------------------------------------------------------
\* After a boot: the configuration is applied, and the time saved before it may
\* be taken over.
Init ==
  /\ route \in {Retargeted([mode |-> "AUTO", local |-> FALSE, cached |-> -1, retry |-> FALSE,
                            uplink |-> u, force |-> FALSE, pin |-> "none", relay |-> FALSE,
                            edge |-> FALSE, failed |-> FALSE]) : u \in Uplinks}
  /\ conn = Closed
  /\ up = [state |-> "IDLE", fails |-> 0]
  /\ now = Done
  /\ qos = [asked |-> FALSE, left |-> 0, client |-> FALSE]
  /\ \E saved \in {TRUE, "noclock" \notin Happens} : clock = [good |-> saved, synced |-> saved]
  /\ online = FALSE /\ gateway = -1 /\ edits = 0

Handle ==
  \/ Request \/ StartQos \/ Sample \/ Warm \/ GiveUp \/ PutOff \/ Immediate
  \/ WifiLost \/ (\E clk \in Dated : Probe(clk)) \/ CreateAndSend \/ SendSnapshot
  \/ StartCycle \/ CycleDeferred \/ CycleEnds \/ Dispatch

Calls ==
  \/ Pause \/ Resume \/ RequestQos \/ SendNow
  \/ \E m \in {"AUTO", "CLOUD", "EDGE"} : SetUploadMode(m)
  \/ \E u \in Uplinks : ApplyConfig(u)

World == LinkUp \/ LinkDown \/ GatewayTurns \/ PinRunsOut \/ RetryDue

Next == Handle \/ CheckSync \/ TimeAnswered \/ World \/ Calls

Spec == Init /\ [][Next]_vars

Fairness ==
  /\ WF_vars(Request) /\ SF_vars(StartQos \/ Sample \/ Warm \/ GiveUp \/ PutOff \/ Immediate)
  /\ SF_vars(Immediate /\ ~now'.requested)
  /\ SF_vars(Probe(SetByHand)) /\ SF_vars(StartCycle) /\ SF_vars(Dispatch)
  /\ SF_vars(PinRunsOut /\ conn.at = "IDLE")
  /\ WF_vars(LinkUp) /\ WF_vars(RetryDue) /\ WF_vars(Resume)

FairSpec == Spec /\ Fairness

-----------------------------------------------------------------------------
(* Properties                                                              *)

\* The relay is forced or pinned only while the uplink is AUTO, and forced only
\* while it is pinned.
FallbackIsAuto ==
  /\ route.uplink # "AUTO" => ~route.force /\ route.pin = "none"
  /\ route.force => route.pin # "none"

\* One user of the network at a time: no request during a measurement or while
\* the API is paused.
OneAtATime == conn.at # "IDLE" => qos.left = 0 /\ ~Paused

\* The state is of its type and consistent: the fallback to the relay belongs
\* to the AUTO uplink, and requests and measurements exclude each other.
Coherent == TypeOK /\ FallbackIsAuto /\ OneAtATime

\* Under the AUTO uplink a request goes over the relay only after an upload to
\* the cloud has failed since that uplink was chosen, and none sent to it
\* directly has succeeded since.
RelayHasReason ==
  [][conn.at = "CONNECTING" /\ conn'.via = "relay" /\ route.uplink = "AUTO"
     => route.failed]_vars

Trying == conn.at = "CONNECTING" /\ ~route.edge

\* Unless the user sends the records to the gateways or the gateway insists on
\* having them, the cloud is tried again and again while there is WiFi and no
\* pause now and then: whatever fails, and whatever measurements and immediate
\* uploads came in between.
CloudIsTried ==
  /\ <>[](route.mode # "EDGE" /\ (route.mode = "AUTO" => gateway # 1))
  /\ []<>(online /\ ~Paused)
  => []<>Trying

\* Under the AUTO uplink the relay is not for good: if the cloud is tried again
\* and again, some attempts go to it directly. (Those of records that cannot be
\* stored aside: they try both ways each time.)
DirectIsTried ==
  /\ <>[](route.uplink = "AUTO") /\ []<>Trying /\ <>[][~CreateAndSend]_vars
  => []<>(Trying /\ ~UsesRelay(route))
=============================================================================
