---------------------------- MODULE Uplink_proofs ----------------------------
(***************************************************************************)
(* What Uplink promises for any thresholds, numbers of samples, uplinks    *)
(* and gateways: its state is well typed, requests and measurements        *)
(* exclude each other, and under the AUTO uplink the relay is used only    *)
(* after a failure. The last needs to know that whatever arms the relay    *)
(* notes a failure first (Reasoned), and that no request that went to the  *)
(* cloud directly is still open when the relay is armed (Open).            *)
(***************************************************************************)
EXTENDS Uplink, TLAPS

\* The relay is forced or pinned under the AUTO uplink only, after a failure.
Reasoned(r) ==
  /\ r \in Route
  /\ r.uplink # "AUTO" => ~r.force /\ r.pin = "none"
  /\ r.force => r.pin # "none"
  /\ r.force \/ r.pin = "set" => r.failed

\* A request has no connection before it is made, and none that was made to
\* the cloud directly outlives the arming of the relay.
Open(c, r) ==
  /\ c.at \in {"IDLE", "CONNECTING"} => c.via = "none"
  /\ c.via = "direct" => ~r.force /\ r.pin # "set"

ConnType == [at : {"IDLE", "CONNECTING", "SENDING", "WAITING", "READING"},
             via : {"none", "edge", "direct", "relay", "cut"}]
UpType == [state : {"IDLE", "UPLOADING", "PAUSED"}, fails : 0 .. Reset + 1]
NowType == [requested : BOOLEAN, warmup : 0 .. 1, poll : Answers \cup {Unasked}]
QosType == [asked : BOOLEAN, left : 0 .. Samples, client : BOOLEAN]
ClockType == [good : BOOLEAN, synced : BOOLEAN]

Typed ==
  /\ conn \in ConnType /\ up \in UpType /\ now \in NowType /\ qos \in QosType
  /\ clock \in ClockType /\ online \in BOOLEAN /\ gateway \in Answers /\ edits \in 0 .. MaxEdits

IInv == Typed /\ Reasoned(route) /\ Open(conn, route) /\ OneAtATime

-----------------------------------------------------------------------------
(* What is done to a route                                                 *)

\* The parts of the route the relay depends on.
SameRelay(r, s) ==
  s.uplink = r.uplink /\ s.force = r.force /\ s.pin = r.pin /\ s.failed = r.failed

LEMMA SameReasoned ==
  ASSUME NEW r, NEW s \in Route, Reasoned(r), SameRelay(r, s)
  PROVE Reasoned(s)
  BY Zenon DEF Reasoned, SameRelay

LEMMA UsesRelayBoolean == \A r : UsesRelay(r) \in BOOLEAN
  BY DEF UsesRelay

LEMMA SetRelay ==
  ASSUME NEW r \in Route, NEW b \in BOOLEAN
  PROVE LET s == [r EXCEPT !.relay = b]
        IN  s \in Route /\ SameRelay(r, s) /\ s.relay = b /\ s.edge = r.edge
  BY DEF Route, SameRelay

LEMMA RetargetedKeeps ==
  ASSUME NEW r \in Route
  PROVE LET s == Retargeted(r)
        IN  s \in Route /\ SameRelay(r, s) /\ s.relay = UsesRelay(r) /\ s.edge = r.edge
  BY SetRelay, UsesRelayBoolean, Zenon DEF Retargeted

LEMMA SetForce ==
  ASSUME NEW r \in Route, NEW b \in BOOLEAN
  PROVE LET s == [r EXCEPT !.force = b]
        IN  /\ s \in Route /\ s.uplink = r.uplink /\ s.force = b /\ s.pin = r.pin
            /\ s.failed = r.failed /\ s.relay = r.relay /\ s.edge = r.edge
  BY DEF Route

LEMMA AimedKeeps ==
  ASSUME NEW r, Reasoned(r)
  PROVE Reasoned(Aimed(r)) /\ Aimed(r).relay = UsesRelay(r)
        /\ Aimed(r).uplink = r.uplink /\ Aimed(r).pin = r.pin /\ Aimed(r).failed = r.failed
        /\ (Aimed(r).force => r.force)
<1> DEFINE t == Retargeted(r)
           b == t.force /\ ~(UsesRelay(r) /\ r.uplink = "AUTO")
<1>1. t \in Route /\ SameRelay(r, t) /\ t.relay = UsesRelay(r)
  BY RetargetedKeeps DEF Reasoned
<1>2. b \in BOOLEAN
  OBVIOUS
<1>3. Aimed(r) = [t EXCEPT !.force = b]
  BY Zenon DEF Aimed
<1> HIDE DEF b, t
<1>4. /\ Aimed(r) \in Route /\ Aimed(r).uplink = t.uplink /\ Aimed(r).force = b
      /\ Aimed(r).pin = t.pin /\ Aimed(r).failed = t.failed /\ Aimed(r).relay = t.relay
  BY <1>1, <1>2, <1>3, SetForce
<1>5. b => r.force
  BY <1>1, Zenon DEF b, SameRelay
<1> QED
  BY <1>1, <1>4, <1>5, Zenon DEF Reasoned, SameRelay

LEMMA NotedKeeps ==
  ASSUME NEW r, Reasoned(r), NEW via, NEW result,
         result = "ok" /\ via = "direct" => ~r.force /\ r.pin # "set"
  PROVE LET s == Noted(r, via, result)
        IN  /\ Reasoned(s) /\ s.uplink = r.uplink /\ s.force = r.force /\ s.pin = r.pin
            /\ s.relay = r.relay /\ s.edge = r.edge /\ (result = "failed" => s.failed)
<1> DEFINE b == (result = "failed") \/ (r.failed /\ ~(result = "ok" /\ via = "direct"))
           s == Noted(r, via, result)
<1>1. b \in BOOLEAN
  OBVIOUS
<1>2. s = [r EXCEPT !.failed = b]
  BY Zenon DEF Noted
<1>3. ASSUME NEW c \in BOOLEAN
      PROVE LET q == [r EXCEPT !.failed = c]
            IN  /\ q \in Route /\ q.uplink = r.uplink /\ q.force = r.force /\ q.pin = r.pin
                /\ q.failed = c /\ q.relay = r.relay /\ q.edge = r.edge
  BY DEF Reasoned, Route
<1>4. /\ s \in Route /\ s.uplink = r.uplink /\ s.force = r.force /\ s.pin = r.pin
      /\ s.failed = b /\ s.relay = r.relay /\ s.edge = r.edge
  BY <1>1, <1>2, <1>3, Zenon
<1>5. (result = "failed" => b) /\ (r.force \/ r.pin = "set" => b)
  BY Zenon DEF Reasoned
<1> HIDE DEF b, s
<1>6. Reasoned(s) /\ (result = "failed" => s.failed)
  BY <1>4, <1>5, Zenon DEF Reasoned
<1> QED
  BY <1>4, <1>6 DEF s

LEMMA ArmedKeeps ==
  ASSUME NEW r, Reasoned(r), r.failed, r.uplink = "AUTO"
  PROVE Reasoned(RelayArmed(r)) /\ RelayArmed(r).failed /\ RelayArmed(r).uplink = "AUTO"
        /\ RelayArmed(r).edge = r.edge
  BY DEF Reasoned, Route, RelayArmed

LEMMA ClearedKeeps ==
  ASSUME NEW r, Reasoned(r)
  PROVE LET s == RelayCleared(r)
        IN  Reasoned(s) /\ ~s.force /\ s.pin = "none" /\ s.uplink = r.uplink /\ s.edge = r.edge
<1> DEFINE b == r.relay /\ r.uplink = "RELAY"
<1>1. ASSUME NEW c \in BOOLEAN
      PROVE LET q == [r EXCEPT !.force = FALSE, !.pin = "none", !.relay = c]
            IN  q \in Route /\ q.force = FALSE /\ q.pin = "none" /\ q.uplink = r.uplink
                /\ q.edge = r.edge
  BY DEF Reasoned, Route
<1>2. b \in BOOLEAN /\ RelayCleared(r) = [r EXCEPT !.force = FALSE, !.pin = "none", !.relay = b]
  BY Zenon DEF RelayCleared
<1>3. /\ RelayCleared(r) \in Route /\ RelayCleared(r).force = FALSE
      /\ RelayCleared(r).pin = "none" /\ RelayCleared(r).uplink = r.uplink
      /\ RelayCleared(r).edge = r.edge
  BY <1>1, <1>2, Zenon
<1> QED
  BY <1>3 DEF Reasoned

-----------------------------------------------------------------------------
(* A blocking upload                                                       *)

Results == {"ok", "refused", "failed", "lowram"}

\* An outcome leaves a route that is reasoned, and a failure is noted in it.
Outcome(a) ==
  /\ Reasoned(a.route) /\ a.result \in Results
  /\ a.result = "failed" => a.route.failed

LEMMA AttemptsKeep ==
  ASSUME NEW r, Reasoned(r)
  PROVE \A a \in Attempts(r) : Outcome(a)
<1> DEFINE s == Aimed(r)
<1>1. Reasoned(s) /\ s.relay = UsesRelay(r) /\ s.uplink = r.uplink /\ s.pin = r.pin
      /\ (s.force => r.force)
  BY AimedKeeps
<1> SUFFICES ASSUME NEW x \in {"ok", "refused", "failed"}
             PROVE Outcome(Result(Noted(s, Way(s), x), x))
  BY DEF Attempts
<1> HIDE DEF s
<1>2. Way(s) = "direct" => ~UsesRelay(r)
  BY <1>1 DEF Way
<1>3. ~UsesRelay(r) => ~s.force /\ s.pin # "set"
  BY <1>1, Zenon DEF UsesRelay, Reasoned
<1>4. Reasoned(Noted(s, Way(s), x)) /\ (x = "failed" => Noted(s, Way(s), x).failed)
  BY <1>1, <1>2, <1>3, NotedKeeps
<1>5. Result(Noted(s, Way(s), x), x).route = Noted(s, Way(s), x)
      /\ Result(Noted(s, Way(s), x), x).result = x
  BY DEF Result
<1> QED
  BY <1>4, <1>5 DEF Outcome, Results

LEMMA SingleKeeps ==
  ASSUME NEW r, Reasoned(r)
  PROVE \A a \in Single(r) : Reasoned(a.route) /\ a.result \in Results
<1>1. ASSUME NEW q, Reasoned(q)
      PROVE \A a \in Unready(q) : Reasoned(a.route) /\ a.result \in Results
  BY <1>1 DEF Unready, Result, Results
<1>2. ASSUME NEW a \in Attempts(r), FallsBack(a.route, a.result)
      PROVE \A c \in Unready(RelayArmed(a.route)) \cup Attempts(RelayArmed(a.route)) :
              Reasoned(c.route) /\ c.result \in Results
  <2>1. Reasoned(RelayArmed(a.route))
    BY <1>2, AttemptsKeep, ArmedKeeps DEF Outcome, FallsBack
  <2> QED
    BY <2>1, <1>1, AttemptsKeep DEF Outcome
<1>3. ASSUME NEW a \in Attempts(r)
      PROVE Reasoned(a.route) /\ a.result \in Results
  BY AttemptsKeep DEF Outcome
<1> QED
  BY <1>1, <1>2, <1>3 DEF Single

-----------------------------------------------------------------------------
(* The end of a request                                                    *)

LEMMA CountedType ==
  ASSUME UplinkAssumption, up \in UpType
  PROVE Counted \in 0 .. Reset + 1
  BY DEF UplinkAssumption, Counted, UpType

LEMMA SucceedsKeeps ==
  ASSUME UplinkAssumption, up \in UpType, online \in BOOLEAN, NEW r, Reasoned(r), ~r.edge,
         conn.via = "direct" => ~r.force /\ r.pin # "set", Succeeds(r)
  PROVE Reasoned(route') /\ up' \in UpType /\ up'.state \in {up.state, "IDLE"}
        /\ online' \in BOOLEAN
<1> DEFINE s == IF r.uplink = "AUTO" /\ ~r.relay /\ (r.pin # "none" \/ r.force)
                THEN RelayCleared(r) ELSE r
           n == Noted(s, conn.via, "ok")
<1>1. Reasoned(s) /\ (conn.via = "direct" => ~s.force /\ s.pin # "set")
  BY ClearedKeeps
<1>2. route' = [n EXCEPT !.local = FALSE]
  BY DEF Succeeds
<1>3. up' \in UpType /\ up'.state \in {up.state, "IDLE"} /\ online' \in BOOLEAN
  BY DEF Succeeds, UpType, UplinkAssumption
<1> HIDE DEF s
<1>4. Reasoned(n)
  BY <1>1, NotedKeeps
<1> HIDE DEF n
<1>5. [n EXCEPT !.local = FALSE] \in Route /\ SameRelay(n, [n EXCEPT !.local = FALSE])
  BY <1>4 DEF Reasoned, Route, SameRelay
<1> QED
  BY <1>2, <1>3, <1>4, <1>5, SameReasoned

LEMMA FailsKeeps ==
  ASSUME UplinkAssumption, up \in UpType, online \in BOOLEAN, NEW r, Reasoned(r),
         NEW via, NEW result, result # "ok", Fails(r, via, result)
  PROVE Reasoned(route') /\ up' \in UpType /\ up'.state \in {up.state, "IDLE"}
        /\ online' \in BOOLEAN
<1> DEFINE s == Noted(r, via, result)
           local == s.mode = "AUTO" /\ ~s.local /\ Counted >= Threshold
<1>1. Reasoned(s) /\ s.uplink = r.uplink /\ (result = "failed" => s.failed)
  BY NotedKeeps
<1>2. CASE FallsBack(r, result)
  <2>1. route' = RelayArmed(s) /\ up' = [up EXCEPT !.state = "IDLE"] /\ UNCHANGED online
    BY <1>2 DEF Fails
  <2>2. s.failed /\ s.uplink = "AUTO"
    BY <1>1, <1>2 DEF FallsBack
  <2>3. Reasoned(route')
    BY <1>1, <2>1, <2>2, ArmedKeeps
  <2> QED
    BY <2>1, <2>3 DEF UpType
<1>3. CASE ~FallsBack(r, result)
  <2>1. /\ route' = [s EXCEPT !.local = s.local \/ local, !.retry = s.retry /\ ~local]
        /\ up' = [state |-> "IDLE", fails |-> Counted]
        /\ online' = (online /\ Counted # Reset)
    BY <1>3, Zenon DEF Fails
  <2>2. (s.local \/ local) \in BOOLEAN /\ (s.retry /\ ~local) \in BOOLEAN
    OBVIOUS
  <2> HIDE DEF local, s
  <2>3. ASSUME NEW b \in BOOLEAN, NEW c \in BOOLEAN
        PROVE LET q == [s EXCEPT !.local = b, !.retry = c]
              IN  q \in Route /\ SameRelay(s, q)
    BY <1>1 DEF Reasoned, Route, SameRelay
  <2>4. route' \in Route /\ SameRelay(s, route')
    BY <2>1, <2>2, <2>3, Zenon
  <2>5. Reasoned(route')
    BY <1>1, <2>4, SameReasoned
  <2>6. up' \in UpType /\ up'.state = "IDLE"
    BY <2>1, CountedType DEF UpType
  <2>7. online' \in BOOLEAN
    BY <2>1
  <2> QED
    BY <2>5, <2>6, <2>7
<1> QED
  BY <1>2, <1>3

LEMMA EndsKeeps ==
  ASSUME UplinkAssumption, up \in UpType, online \in BOOLEAN, NEW r, Reasoned(r),
         NEW via, NEW result,
         result = "ok" => (conn.via = "direct" => ~r.force /\ r.pin # "set"),
         Ends(r, via, result)
  PROVE Reasoned(route') /\ conn' = Closed /\ up' \in UpType
        /\ up'.state \in {up.state, "IDLE"} /\ online' \in BOOLEAN
<1>1. conn' = Closed
  BY DEF Ends
<1>2. CASE r.edge /\ route' = r /\ UNCHANGED <<up, online>>
  BY <1>1, <1>2
<1>3. CASE ~r.edge /\ result = "ok" /\ Succeeds(r)
  BY <1>1, <1>3, SucceedsKeeps
<1>4. CASE ~r.edge /\ result # "ok" /\ Fails(r, via, result)
  BY <1>1, <1>4, FailsKeeps
<1> QED
  BY <1>2, <1>3, <1>4 DEF Ends

-----------------------------------------------------------------------------
(* The steps of a request                                                  *)

LEMMA DatedType ==
  ASSUME clock \in ClockType
  PROVE Dated \subseteq ClockType
<1>1. SetByHand \in ClockType
  BY DEF SetByHand, ClockType
<1>2. \A c \in Dated : c = clock \/ c = SetByHand
  BY DEF Dated
<1> QED
  BY <1>1, <1>2

LEMMA ClosedType == Closed \in ConnType /\ Closed.at = "IDLE" /\ \A r : Open(Closed, r)
  BY DEF Closed, ConnType, Open

LEMMA NotRelayed ==
  ASSUME NEW r, Reasoned(r), ~UsesRelay(r)
  PROVE ~r.force /\ r.pin # "set"
  BY Zenon DEF UsesRelay, Reasoned

\* A request ends.
LEMMA EndKeeps ==
  ASSUME UplinkAssumption, IInv, NEW r, Reasoned(r), SameRelay(route, r), NEW via, NEW result,
         Ends(r, via, result), UNCHANGED Others, clock' \in ClockType
  PROVE IInv'
<1>1. Reasoned(route') /\ conn' = Closed /\ up' \in UpType /\ online' \in BOOLEAN
  BY EndsKeeps DEF IInv, Typed, Open, SameRelay
<1>2. Typed'
  BY <1>1, ClosedType DEF IInv, Typed, Others
<1>3. Open(conn', route') /\ OneAtATime'
  BY <1>1, ClosedType DEF OneAtATime
<1> QED
  BY <1>1, <1>2, <1>3 DEF IInv

\* A request goes on.
LEMMA StepKeeps ==
  ASSUME IInv, conn.at # "IDLE", NEW r, Reasoned(r), conn' \in ConnType, route' = r,
         conn'.at \notin {"IDLE", "CONNECTING"}, conn'.via = "direct" => ~r.force /\ r.pin # "set",
         UNCHANGED <<Others, up, online>>, clock' \in ClockType
  PROVE IInv'
<1>1. Typed'
  BY DEF IInv, Typed, Others
<1>2. Open(conn', route') /\ OneAtATime'
  BY DEF IInv, Open, OneAtATime, Others, Paused
<1> QED
  BY <1>1, <1>2 DEF IInv

LEMMA RequestKeeps ==
  ASSUME UplinkAssumption, IInv, Request
  PROVE IInv'
<1> DEFINE r == IF route.edge THEN route ELSE Retargeted(route)
<1>0. /\ Reasoned(route) /\ conn \in ConnType /\ clock \in ClockType
      /\ SameRelay(route, route)
  BY DEF IInv, Typed, SameRelay
<1>1. Reasoned(r) /\ SameRelay(route, r) /\ (~route.edge => r.relay = UsesRelay(route))
  BY <1>0, RetargetedKeeps, SameReasoned DEF Reasoned
<1>2. CASE Connect
  <2> DEFINE via == IF r.edge THEN "edge" ELSE Way(r)
  <2>0. conn.at = "CONNECTING" /\ UNCHANGED <<Others, clock>>
    BY <1>2 DEF Connect
  <2>1. CASE conn' = [at |-> "SENDING", via |-> via] /\ route' = r /\ UNCHANGED <<up, online>>
    <3>1. via \in {"edge", "direct", "relay"} /\ (via = "direct" => ~UsesRelay(route))
      BY <1>1, RetargetedKeeps, <1>0 DEF Way, Reasoned
    <3>2. conn' \in ConnType /\ conn'.at = "SENDING" /\ conn'.via = via
      BY <2>1, <3>1 DEF ConnType
    <3>3. via = "direct" => ~r.force /\ r.pin # "set"
      BY <1>0, <1>1, <3>1, NotRelayed DEF SameRelay
    <3> HIDE DEF r, via
    <3> QED
      BY <1>0, <1>1, <2>0, <2>1, <3>2, <3>3, StepKeeps
  <2>2. ASSUME NEW result, Ends(r, via, result)
        PROVE IInv'
    <3> HIDE DEF r, via
    <3> QED
      BY <1>0, <1>1, <2>0, <2>2, EndKeeps
  <2> QED
    BY <1>2, <2>1, <2>2 DEF Connect
<1>3. CASE Send
  <2>0. conn.at = "SENDING" /\ UNCHANGED <<Others, clock>>
    BY <1>3 DEF Send
  <2>1. CASE conn' = [conn EXCEPT !.at = "WAITING"] /\ route' = r /\ UNCHANGED <<up, online>>
    <3>1. conn' \in ConnType /\ conn'.at = "WAITING" /\ conn'.via = conn.via
      BY <1>0, <2>1 DEF ConnType
    <3>2. conn.via = "direct" => ~r.force /\ r.pin # "set"
      BY <1>1 DEF IInv, Open, SameRelay
    <3> HIDE DEF r
    <3> QED
      BY <1>0, <1>1, <2>0, <2>1, <3>1, <3>2, StepKeeps
  <2>2. ASSUME NEW s \in {r, route}, Ends(s, conn.via, "failed")
        PROVE IInv'
    <3> HIDE DEF r
    <3> QED
      BY <1>0, <1>1, <2>0, <2>2, EndKeeps
  <2> QED
    BY <1>3, <2>1, <2>2 DEF Send
<1>4. CASE Wait
  <2>0. conn.at = "WAITING" /\ UNCHANGED <<Others, clock>>
    BY <1>4 DEF Wait
  <2>1. CASE conn' = [conn EXCEPT !.at = "READING"] /\ UNCHANGED <<route, up, online>>
    <3>1. conn' \in ConnType /\ conn'.at = "READING" /\ conn'.via = conn.via
      BY <1>0, <2>1 DEF ConnType
    <3>2. conn.via = "direct" => ~route.force /\ route.pin # "set"
      BY DEF IInv, Open
    <3> QED
      BY <1>0, <2>0, <2>1, <3>1, <3>2, StepKeeps
  <2>2. CASE Ends(route, conn.via, "failed")
    BY <1>0, <2>0, <2>2, EndKeeps
  <2> QED
    BY <1>4, <2>1, <2>2 DEF Wait
<1>5. CASE Read
  <2>1. clock' \in ClockType /\ UNCHANGED Others
    BY <1>0, <1>5, DatedType DEF Read
  <2>2. \E result : Ends(route, conn.via, result)
    BY <1>5 DEF Read
  <2> QED
    BY <1>0, <2>1, <2>2, EndKeeps
<1> QED
  BY <1>2, <1>3, <1>4, <1>5 DEF Request

-----------------------------------------------------------------------------
(* Records sent at once, measurements, immediate uploads                   *)

LEMMA DirectSendKeeps ==
  ASSUME UplinkAssumption, IInv, DirectSend
  PROVE /\ Reasoned(route') /\ Open(conn', route') /\ conn' \in ConnType /\ conn'.at = conn.at
        /\ up' \in UpType /\ up'.state = up.state /\ clock' \in ClockType
        /\ qos' \in QosType /\ qos'.left = qos.left
<1> DEFINE edge == ToGateway(route)
           cut == [conn EXCEPT !.via = "cut"]
           taken == IF edge THEN conn.via = "edge" ELSE conn.via \in {"direct", "relay"}
<1>0. /\ Reasoned(route) /\ Open(conn, route) /\ conn \in ConnType /\ up \in UpType
      /\ clock \in ClockType /\ qos \in QosType
  BY DEF IInv, Typed
<1>1. PICK a \in IF edge THEN AtGateway(route) ELSE Single(route) :
        /\ route' = a.route
        /\ up' = IF a.result = "ok" THEN [up EXCEPT !.fails = 0] ELSE up
        /\ clock' \in IF edge \/ a.result = "lowram" THEN {clock} ELSE Dated
        /\ conn' \in {IF taken THEN cut ELSE conn}
                     \cup {c \in {conn} : ~edge /\ a = Result(route, "failed")}
  BY DEF DirectSend
<1>2. Reasoned(route') /\ (edge => route' = route)
  BY <1>0, <1>1, SingleKeeps DEF AtGateway, Result
<1>3. up' \in UpType /\ up'.state = up.state
  BY <1>0, <1>1 DEF UpType, UplinkAssumption
<1>4. clock' \in ClockType
  BY <1>0, <1>1, DatedType
<1>5. qos' \in QosType /\ qos'.left = qos.left
  BY <1>0 DEF DirectSend, QosType
<1>6. \/ taken /\ conn' = cut
      \/ ~taken /\ conn' = conn
      \/ conn' = conn /\ ~edge /\ a = Result(route, "failed")
  BY <1>1, Zenon
<1>7. cut \in ConnType /\ cut.at = conn.at /\ cut.via = "cut"
  BY <1>0 DEF ConnType
<1>8. CASE taken /\ conn' = cut
  <2>1. conn.at \notin {"IDLE", "CONNECTING"}
    BY <1>0, <1>8 DEF Open
  <2>2. Open(conn', route')
    BY <1>7, <1>8, <2>1 DEF Open
  <2> QED
    BY <1>2, <1>3, <1>4, <1>5, <1>7, <1>8, <2>2
<1>9. CASE ~taken /\ conn' = conn
  <2>1. conn.via = "direct" => route' = route
    BY <1>2, <1>9
  <2>2. Open(conn', route')
    BY <1>0, <1>9, <2>1 DEF Open
  <2> QED
    BY <1>0, <1>2, <1>3, <1>4, <1>5, <1>9, <2>2
<1>10. CASE conn' = conn /\ a = Result(route, "failed")
  <2>1. route' = route
    BY <1>1, <1>10 DEF Result
  <2> QED
    BY <1>0, <1>2, <1>3, <1>4, <1>5, <1>10, <2>1
<1> QED
  BY <1>6, <1>8, <1>9, <1>10

LEMMA MeasureKeeps ==
  ASSUME UplinkAssumption, IInv, StartQos \/ Sample
  PROVE IInv'
<1>1. conn.at = "IDLE" /\ UNCHANGED <<route, conn, up, now, clock, online, gateway, edits>>
  BY DEF StartQos, Sample
<1>2. qos' \in QosType
  <2>1. CASE StartQos
    <3>1. Samples - 1 \in 0 .. Samples /\ 0 \in 0 .. Samples
      BY DEF UplinkAssumption
    <3>2. PICK left \in {0, Samples - 1} : qos' = [asked |-> FALSE, left |-> left, client |-> left > 0]
      BY <2>1 DEF StartQos
    <3>3. left > 0 \/ ~(left > 0)
      OBVIOUS
    <3>4. (left > 0) \in BOOLEAN /\ left \in 0 .. Samples
      BY <3>1
    <3> QED
      BY <3>2, <3>4, Zenon DEF QosType
  <2>2. CASE Sample
    <3> DEFINE left == IF qos.client THEN qos.left - 1 ELSE 0
    <3>1. left \in 0 .. Samples /\ (left > 0) \in BOOLEAN
      BY <2>2 DEF Sample, IInv, Typed, QosType, UplinkAssumption
    <3>2. qos' = [qos EXCEPT !.left = left, !.client = left > 0]
      BY <2>2, Zenon DEF Sample
    <3> HIDE DEF left
    <3>3. ASSUME NEW b \in BOOLEAN
          PROVE [qos EXCEPT !.left = left, !.client = b] \in QosType
      BY <3>1 DEF IInv, Typed, QosType
    <3> QED
      BY <3>1, <3>2, <3>3, Zenon
  <2> QED
    BY <2>1, <2>2
<1> QED
  BY <1>1, <1>2 DEF IInv, Typed, Open, OneAtATime

\* Nothing is open, and neither a pause nor a measurement begins.
LEMMA IdleKeeps ==
  ASSUME IInv, conn.at = "IDLE", UNCHANGED <<conn, qos, gateway, edits>>,
         Reasoned(route'), Open(conn, route'), up' \in UpType, now' \in NowType,
         clock' \in ClockType, online' \in BOOLEAN
  PROVE IInv'
  BY DEF IInv, Typed, OneAtATime

LEMMA ImmediateKeeps ==
  ASSUME UplinkAssumption, IInv, Warm \/ GiveUp \/ PutOff \/ Immediate
  PROVE IInv'
<1>0. /\ Reasoned(route) /\ Open(conn, route) /\ conn.via = "none" /\ conn.at = "IDLE"
      /\ up \in UpType /\ now \in NowType /\ clock \in ClockType /\ online \in BOOLEAN
  BY DEF IInv, Typed, Open, Warm, GiveUp, PutOff, Immediate, ImmediateRuns
<1>1. Done \in NowType
  BY DEF Done, NowType
<1>2. \A poll \in Polled : poll \in Answers \cup {Unasked} /\ Later(poll) \in NowType
  BY DEF Polled, Later, NowType, IInv, Typed, UplinkAssumption
<1>3. CASE Warm \/ GiveUp
  <2>1. now' \in NowType
    <3>1. [now EXCEPT !.warmup = 0] \in NowType
      BY <1>0 DEF NowType
    <3>2. [now EXCEPT !.requested = FALSE] \in NowType
      BY <1>0 DEF NowType
    <3> QED
      BY <1>3, <3>1, <3>2, Zenon DEF Warm, GiveUp
  <2>2. UNCHANGED <<route, conn, up, qos, clock, online, gateway, edits>>
    BY <1>3 DEF Warm, GiveUp
  <2> QED
    BY <1>0, <2>1, <2>2, IdleKeeps
<1>4. CASE PutOff
  BY <1>0, <1>2, <1>4, IdleKeeps DEF PutOff
<1>5. CASE Immediate
  <2>0. UNCHANGED <<conn, qos, online, gateway, edits>>
    BY <1>5 DEF Immediate
  <2>1. ASSUME NEW result, Finished(result)
        PROVE now' \in NowType /\ up' \in UpType
    BY <1>0, <1>1, <2>1, CountedType DEF Finished, UpType, UplinkAssumption
  <2>2. PICK poll \in Polled :
          \/ /\ route.mode = "EDGE" \/ poll = 1
             /\ \E result \in {"ok", "failed"} : Finished(result)
             /\ UNCHANGED <<route, clock>>
          \/ \E a \in Single(route) :
               /\ route' = a.route
               /\ IF a.result = "lowram" THEN now' = Later(poll) /\ UNCHANGED up
                  ELSE Finished(a.result)
               /\ clock' \in IF a.result = "lowram" THEN {clock} ELSE Dated
    BY <1>5 DEF Immediate
  <2>3. CASE (\E result \in {"ok", "failed"} : Finished(result)) /\ UNCHANGED <<route, clock>>
    BY <1>0, <2>0, <2>1, <2>3, IdleKeeps
  <2>4. ASSUME NEW a \in Single(route), route' = a.route,
               IF a.result = "lowram" THEN now' = Later(poll) /\ UNCHANGED up
               ELSE Finished(a.result),
               clock' \in IF a.result = "lowram" THEN {clock} ELSE Dated
        PROVE IInv'
    <3>1. Reasoned(route') /\ Open(conn, route')
      BY <1>0, <2>4, SingleKeeps DEF Open
    <3>2. clock' \in ClockType
      BY <1>0, <2>4, DatedType
    <3>3. now' \in NowType /\ up' \in UpType
      BY <1>0, <1>2, <2>1, <2>4
    <3> QED
      BY <1>0, <2>0, <3>1, <3>2, <3>3, IdleKeeps
  <2> QED
    BY <2>2, <2>3, <2>4
<1> QED
  BY <1>3, <1>4, <1>5

-----------------------------------------------------------------------------
(* The cycle                                                               *)

LEMMA DecidedKeeps ==
  ASSUME UplinkAssumption, IInv, NEW r \in Decided
  PROVE Reasoned(r) /\ SameRelay(route, r)
<1>0. Reasoned(route) /\ route \in Route
  BY DEF IInv, Reasoned
<1>1. CASE r = route
  BY <1>0, <1>1 DEF SameRelay
<1>2. ASSUME NEW g \in Answers, NEW b \in BOOLEAN, r = [route EXCEPT !.cached = g, !.local = b]
      PROVE Reasoned(r) /\ SameRelay(route, r)
  <2>1. r \in Route /\ SameRelay(route, r)
    BY <1>0, <1>2 DEF Route, SameRelay
  <2> QED
    BY <1>0, <2>1, SameReasoned
<1>3. CASE route.mode = "AUTO"
  <2>1. PICK g \in ({route.cached} \ {-1}) \cup {gateway} :
          r = [route EXCEPT !.cached = g, !.local = (g = 1) \/ (g = -1 /\ route.local)]
    BY <1>3 DEF Decided
  <2>2. g \in Answers
    BY <1>0, <2>1 DEF IInv, Typed, Route
  <2>3. ((g = 1) \/ (g = -1 /\ route.local)) \in BOOLEAN
    OBVIOUS
  <2> QED
    BY <1>2, <2>1, <2>2, <2>3, Zenon
<1> QED
  BY <1>1, <1>3 DEF Decided

LEMMA ProceedsKeeps ==
  ASSUME UplinkAssumption, IInv, NEW r \in Decided
  PROVE Reasoned(Proceeds(r)) /\ SameRelay(route, Proceeds(r))
<1>0. Reasoned(r) /\ SameRelay(route, r)
  BY DecidedKeeps
<1>1. ASSUME NEW b \in BOOLEAN
      PROVE LET q == [r EXCEPT !.retry = b] IN q \in Route /\ SameRelay(r, q)
  BY <1>0 DEF Reasoned, Route, SameRelay
<1>2. (r.retry /\ ~Gateways(r)) \in BOOLEAN
  OBVIOUS
<1>3. Proceeds(r) = [r EXCEPT !.retry = (r.retry /\ ~Gateways(r))]
  BY Zenon DEF Proceeds
<1>4. Proceeds(r) \in Route /\ SameRelay(r, Proceeds(r))
  BY <1>1, <1>2, <1>3, Zenon
<1> QED
  BY <1>0, <1>4, SameReasoned DEF SameRelay

\* A request starts.
LEMMA StartKeeps ==
  ASSUME UplinkAssumption, IInv, TimersRun, Reasoned(route'),
         conn' = [at |-> "CONNECTING", via |-> "none"],
         UNCHANGED <<up, now, qos, clock, online, gateway, edits>>
  PROVE IInv'
<1>1. conn' \in ConnType /\ Open(conn', route')
  BY DEF ConnType, Open
<1>2. qos.left = 0 /\ ~Paused
  BY DEF TimersRun, Measuring, IInv, Typed, QosType, UplinkAssumption
<1>3. Typed'
  BY <1>1 DEF IInv, Typed
<1>4. OneAtATime'
  BY <1>2 DEF OneAtATime, Paused
<1> QED
  BY <1>1, <1>3, <1>4 DEF IInv

LEMMA CycleKeeps ==
  ASSUME UplinkAssumption, IInv,
         \/ WifiLost \/ (\E clk \in Dated : Probe(clk)) \/ CreateAndSend \/ SendSnapshot
         \/ StartCycle \/ CycleDeferred \/ CycleEnds \/ Dispatch
  PROVE IInv'
<1>0. /\ Reasoned(route) /\ Open(conn, route) /\ conn \in ConnType /\ route \in Route
      /\ up \in UpType /\ now \in NowType /\ clock \in ClockType /\ online \in BOOLEAN
  BY DEF IInv, Typed, Reasoned
<1>1. CASE WifiLost \/ StartCycle \/ CycleDeferred
  <2>1. up' \in UpType /\ up'.state # "PAUSED"
    BY <1>0, <1>1 DEF WifiLost, StartCycle, CycleDeferred, UpType
  <2>2. UNCHANGED <<route, conn, now, qos, clock, online, gateway, edits>>
    BY <1>1 DEF WifiLost, StartCycle, CycleDeferred
  <2> QED
    BY <2>1, <2>2 DEF IInv, Typed, OneAtATime, Paused
<1>2. ASSUME NEW clk \in Dated, Probe(clk) PROVE IInv'
  <2>1. /\ conn.at = "IDLE" /\ route' = Retargeted(route) /\ clock' = clk
        /\ UNCHANGED <<conn, up, now, qos, online, gateway, edits>>
    BY <1>2 DEF Probe
  <2>2. Reasoned(route') /\ SameRelay(route, route')
    BY <1>0, <2>1, RetargetedKeeps, SameReasoned
  <2>3. Open(conn, route') /\ clock' \in ClockType
    BY <1>0, <1>2, <2>1, <2>2, DatedType DEF Open, SameRelay
  <2> QED
    BY <1>0, <2>1, <2>2, <2>3, IdleKeeps
<1>3. CASE CreateAndSend
  <2>1. DirectSend /\ UNCHANGED <<now, online, gateway, edits>>
    BY <1>3 DEF CreateAndSend
  <2> QED
    BY <2>1, DirectSendKeeps DEF IInv, Typed, OneAtATime, Paused
<1>4. CASE SendSnapshot
  <2>1. route' \in Route /\ SameRelay(route, route')
    BY <1>0, <1>4 DEF SendSnapshot, Route, SameRelay
  <2>2. Reasoned(route')
    BY <1>0, <2>1, SameReasoned
  <2> QED
    BY <1>4, <2>2, StartKeeps DEF SendSnapshot
<1>5. CASE CycleEnds
  <2>1. PICK r \in Decided : route' = r \/ route' = Proceeds(r)
    BY <1>5 DEF CycleEnds
  <2>2. Reasoned(route') /\ SameRelay(route, route')
    BY <2>1, DecidedKeeps, ProceedsKeeps
  <2>3. Open(conn, route')
    BY <1>0, <2>2 DEF Open, SameRelay
  <2>4. up' \in UpType
    BY <1>0, <1>5 DEF CycleEnds, UpType
  <2> QED
    BY <1>0, <1>5, <2>2, <2>3, <2>4, IdleKeeps DEF CycleEnds, CycleRuns
<1>6. CASE Dispatch
  <2>1. PICK r \in Decided : route' = [Aimed(Proceeds(r)) EXCEPT !.edge = FALSE]
    BY <1>6 DEF Dispatch
  <2> DEFINE s == Aimed(Proceeds(r))
  <2>2. Reasoned(s)
    BY ProceedsKeeps, AimedKeeps
  <2> HIDE DEF s
  <2>3. [s EXCEPT !.edge = FALSE] \in Route /\ SameRelay(s, [s EXCEPT !.edge = FALSE])
    BY <2>2 DEF Reasoned, Route, SameRelay
  <2>4. Reasoned([s EXCEPT !.edge = FALSE])
    BY <2>2, <2>3, SameReasoned
  <2>5. Reasoned(route')
    BY <2>1, <2>4 DEF s
  <2> QED
    BY <1>6, <2>5, StartKeeps DEF Dispatch, CycleRuns
<1> QED
  BY <1>1, <1>2, <1>3, <1>4, <1>5, <1>6

-----------------------------------------------------------------------------
(* The clock, the world, and calls from outside                            *)

\* The parts of the route the relay depends on stay, and so does the request.
LEMMA RouteKeeps ==
  ASSUME IInv, route' \in Route, SameRelay(route, route'), UNCHANGED <<conn, up, qos>>,
         now' \in NowType, clock' \in ClockType, online' \in BOOLEAN,
         gateway' \in Answers, edits' \in 0 .. MaxEdits
  PROVE IInv'
<1>1. Reasoned(route') /\ Open(conn', route')
  BY SameReasoned DEF IInv, Open, SameRelay
<1> QED
  BY <1>1 DEF IInv, Typed, OneAtATime, Paused

LEMMA WorldKeeps ==
  ASSUME UplinkAssumption, IInv, CheckSync \/ TimeAnswered \/ World
  PROVE IInv'
<1>0. /\ Reasoned(route) /\ route \in Route /\ SameRelay(route, route) /\ now \in NowType
      /\ clock \in ClockType /\ online \in BOOLEAN /\ gateway \in Answers
      /\ edits \in 0 .. MaxEdits /\ Open(conn, route)
  BY DEF IInv, Typed, Reasoned, SameRelay
<1>1. CASE CheckSync \/ TimeAnswered
  <2>1. clock' \in ClockType
    BY <1>0, <1>1 DEF CheckSync, TimeAnswered, ClockType
  <2>2. UNCHANGED <<route, conn, up, now, qos, online, gateway, edits>>
    BY <1>1 DEF CheckSync, TimeAnswered
  <2> QED
    BY <1>0, <2>1, <2>2, RouteKeeps
<1>2. CASE LinkUp \/ LinkDown
  BY <1>0, <1>2, RouteKeeps DEF LinkUp, LinkDown
<1>3. CASE GatewayTurns
  BY <1>0, <1>3, RouteKeeps DEF GatewayTurns
<1>4. CASE PinRunsOut
  <2>1. /\ route' \in Route /\ route'.uplink = route.uplink /\ route'.force = route.force
        /\ route'.pin = "over" /\ route'.failed = route.failed /\ route.pin = "set"
        /\ UNCHANGED <<conn, up, now, qos, clock, online, gateway, edits>>
    BY <1>0, <1>4 DEF PinRunsOut, Route
  <2>2. Reasoned(route')
    BY <1>0, <2>1 DEF Reasoned
  <2>3. Open(conn, route')
    BY <1>0, <2>1 DEF Open
  <2> QED
    BY <2>1, <2>2, <2>3 DEF IInv, Typed, OneAtATime, Paused
<1>5. CASE RetryDue
  <2>1. /\ route' \in Route /\ SameRelay(route, route')
        /\ UNCHANGED <<conn, up, now, qos, clock, online, gateway, edits>>
    BY <1>0, <1>5 DEF RetryDue, Route, SameRelay
  <2> QED
    BY <1>0, <2>1, RouteKeeps
<1> QED
  BY <1>1, <1>2, <1>3, <1>4, <1>5 DEF World

LEMMA EditKeeps ==
  ASSUME UplinkAssumption, IInv, NEW event, Edit(event)
  PROVE edits' \in 0 .. MaxEdits
  BY DEF Edit, IInv, Typed, UplinkAssumption

LEMMA ApplyConfigKeeps ==
  ASSUME UplinkAssumption, IInv, NEW uplink \in Uplinks, ApplyConfig(uplink)
  PROVE IInv'
<1> DEFINE kept == uplink = "AUTO" /\ uplink = route.uplink
           force == route.force /\ kept
           pin == IF kept THEN route.pin ELSE "none"
           failed == route.failed /\ uplink = route.uplink
           r == [route EXCEPT !.uplink = uplink, !.cached = -1, !.force = force, !.pin = pin,
                              !.failed = failed]
<1>0. Reasoned(route) /\ route \in Route /\ Open(conn, route) /\ edits' \in 0 .. MaxEdits
  BY EditKeeps DEF IInv, Reasoned, ApplyConfig
<1>1. /\ route' = Retargeted(r)
      /\ UNCHANGED <<conn, up, now, qos, clock, online, gateway>>
  BY Zenon DEF ApplyConfig
<1>2. force \in BOOLEAN /\ failed \in BOOLEAN /\ pin \in {"none", "set", "over"}
      /\ uplink \in {"AUTO", "DIRECT", "RELAY"} /\ -1 \in Answers
  BY <1>0 DEF Route, UplinkAssumption
<1>4. r \in Route /\ r.uplink = uplink /\ r.force = force /\ r.pin = pin /\ r.failed = failed
  <2> HIDE DEF force, pin, failed
  <2> QED
    BY <1>0, <1>2 DEF Route
<1>5. /\ uplink # "AUTO" => ~force /\ pin = "none"
      /\ force => pin # "none"
      /\ force \/ pin = "set" => failed
      /\ force => route.force
      /\ pin = "set" => route.pin = "set"
  BY <1>0 DEF Reasoned
<1> HIDE DEF r, force, pin, failed
<1>6. Reasoned(r) /\ (r.force => route.force) /\ (r.pin = "set" => route.pin = "set")
  BY <1>4, <1>5, Zenon DEF Reasoned
<1>7. Retargeted(r) \in Route /\ SameRelay(r, Retargeted(r))
  BY <1>4, RetargetedKeeps
<1>8. Reasoned(route') /\ Open(conn, route')
  BY <1>0, <1>1, <1>6, <1>7, SameReasoned DEF Open, SameRelay
<1> QED
  BY <1>0, <1>1, <1>8 DEF IInv, Typed, OneAtATime, Paused

LEMMA CallsKeep ==
  ASSUME UplinkAssumption, IInv, Calls
  PROVE IInv'
<1>0. /\ Reasoned(route) /\ route \in Route /\ SameRelay(route, route) /\ now \in NowType
      /\ conn \in ConnType /\ up \in UpType /\ qos \in QosType
      /\ clock \in ClockType /\ online \in BOOLEAN /\ gateway \in Answers
      /\ edits \in 0 .. MaxEdits /\ Open(conn, route)
  BY DEF IInv, Typed, Reasoned, SameRelay
<1>1. CASE Pause
  <2>1. up' \in UpType /\ qos' \in QosType /\ conn' = Closed
        /\ UNCHANGED <<route, now, clock, online, gateway, edits>>
    BY <1>0, <1>1 DEF Pause, UpType, QosType
  <2> QED
    BY <2>1, ClosedType DEF IInv, Typed, OneAtATime
<1>2. CASE Resume
  <2>1. up' \in UpType /\ up'.state = "IDLE"
        /\ UNCHANGED <<route, conn, now, qos, clock, online, gateway, edits>>
    BY <1>2 DEF Resume, UpType, UplinkAssumption
  <2>2. conn.at = "IDLE"
    BY <1>2 DEF Resume, IInv, OneAtATime
  <2> QED
    BY <2>1, <2>2 DEF IInv, Typed, OneAtATime
<1>3. CASE RequestQos
  <2>1. edits' \in 0 .. MaxEdits
    BY <1>3, EditKeeps DEF RequestQos
  <2>2. qos' \in QosType /\ qos'.left = qos.left
        /\ UNCHANGED <<route, conn, up, now, clock, online, gateway>>
    BY <1>0, <1>3 DEF RequestQos, QosType
  <2> QED
    BY <2>1, <2>2 DEF IInv, Typed, OneAtATime, Paused
<1>4. CASE SendNow
  <2>1. edits' \in 0 .. MaxEdits /\ UNCHANGED <<online, gateway>>
    BY <1>4, EditKeeps DEF SendNow
  <2>2. Later(Unasked) \in NowType
    BY DEF Later, NowType
  <2>3. now' \in NowType
    BY <1>0, <1>4, <2>2 DEF SendNow
  <2>4. CASE DirectSend
    BY <2>1, <2>3, <2>4, DirectSendKeeps DEF IInv, Typed, OneAtATime, Paused
  <2>5. CASE UNCHANGED <<route, conn, up, qos, clock>>
    BY <1>0, <2>1, <2>3, <2>5, RouteKeeps
  <2> QED
    BY <1>4, <2>4, <2>5 DEF SendNow
<1>5. ASSUME NEW m \in {"AUTO", "CLOUD", "EDGE"}, SetUploadMode(m) PROVE IInv'
  <2>1. edits' \in 0 .. MaxEdits /\ UNCHANGED <<conn, up, now, qos, clock, online, gateway>>
    BY <1>5, EditKeeps DEF SetUploadMode
  <2>2. ASSUME NEW b \in BOOLEAN
        PROVE LET q == [route EXCEPT !.mode = m, !.local = b]
              IN  q \in Route /\ SameRelay(route, q)
    BY <1>0 DEF Route, SameRelay
  <2> DEFINE b == (m = "EDGE") \/ (m = "AUTO" /\ route.local)
  <2>3. b \in BOOLEAN /\ route' = [route EXCEPT !.mode = m, !.local = b]
    BY <1>5, Zenon DEF SetUploadMode
  <2>4. route' \in Route /\ SameRelay(route, route')
    BY <2>2, <2>3, Zenon
  <2> QED
    BY <1>0, <2>1, <2>4, RouteKeeps
<1>6. ASSUME NEW u \in Uplinks, ApplyConfig(u) PROVE IInv'
  BY <1>6, ApplyConfigKeeps
<1> QED
  BY <1>1, <1>2, <1>3, <1>4, <1>5, <1>6 DEF Calls

-----------------------------------------------------------------------------
(* The theorems                                                            *)

LEMMA InitHolds == UplinkAssumption /\ Init => IInv
<1> SUFFICES ASSUME UplinkAssumption, Init PROVE IInv
  OBVIOUS
<1>1. PICK u \in Uplinks :
        route = Retargeted([mode |-> "AUTO", local |-> FALSE, cached |-> -1, retry |-> FALSE,
                            uplink |-> u, force |-> FALSE, pin |-> "none", relay |-> FALSE,
                            edge |-> FALSE, failed |-> FALSE])
  BY DEF Init
<1> DEFINE r == [mode |-> "AUTO", local |-> FALSE, cached |-> -1, retry |-> FALSE,
                 uplink |-> u, force |-> FALSE, pin |-> "none", relay |-> FALSE,
                 edge |-> FALSE, failed |-> FALSE]
<1>2. r \in Route /\ Reasoned(r)
  BY DEF Route, Reasoned, UplinkAssumption
<1> HIDE DEF r
<1>3. Retargeted(r) \in Route /\ SameRelay(r, Retargeted(r))
  BY <1>2, RetargetedKeeps
<1>4. Reasoned(route)
  BY <1>1, <1>2, <1>3, SameReasoned DEF r
<1>5. clock \in ClockType
  <2>1. PICK saved \in {TRUE, "noclock" \notin Happens} : clock = [good |-> saved, synced |-> saved]
    BY DEF Init
  <2>2. saved \in BOOLEAN
    BY Zenon
  <2> QED
    BY <2>1, <2>2, Zenon DEF ClockType
<1>6. up \in UpType /\ now \in NowType /\ qos \in QosType
  BY DEF Init, UpType, NowType, QosType, Done, UplinkAssumption
<1>7. conn \in ConnType /\ online \in BOOLEAN
  BY ClosedType DEF Init
<1>8. gateway \in Answers /\ edits \in 0 .. MaxEdits
  BY DEF Init, UplinkAssumption
<1>9. Open(conn, route) /\ OneAtATime
  BY ClosedType DEF Init, OneAtATime
<1> QED
  BY <1>4, <1>5, <1>6, <1>7, <1>8, <1>9 DEF IInv, Typed

LEMMA NextKeeps ==
  ASSUME UplinkAssumption, IInv, [Next]_vars
  PROVE IInv'
<1>1. CASE Handle
  BY <1>1, RequestKeeps, MeasureKeeps, ImmediateKeeps, CycleKeeps DEF Handle
<1>2. CASE CheckSync \/ TimeAnswered \/ World
  BY <1>2, WorldKeeps
<1>3. CASE Calls
  BY <1>3, CallsKeep
<1>4. CASE UNCHANGED vars
  BY <1>4 DEF vars, IInv, Typed, OneAtATime, Paused
<1> QED
  BY <1>1, <1>2, <1>3, <1>4 DEF Next

\* The inductive invariant holds in every state.
THEOREM Invariance == Spec => []IInv
<1>1. Init => IInv
  BY InitHolds, UplinkAssumption
<1>2. IInv /\ [Next]_vars => IInv'
  BY NextKeeps, UplinkAssumption
<1> QED
  BY <1>1, <1>2, PTL DEF Spec

\* Every state is well typed, the fallback belongs to the AUTO uplink, and
\* requests and measurements exclude each other (ApiClient.Control.cpp,
\* ApiClient.Lifecycle.cpp), for any thresholds, gateways and calls.
THEOREM StaysCoherent == Spec => []Coherent
<1>1. IInv => Coherent
  BY DEF IInv, Typed, ConnType, UpType, NowType, QosType, ClockType, Coherent, TypeOK,
         OneAtATime, FallbackIsAuto, Reasoned
<1> QED
  BY <1>1, Invariance, PTL

\* A connection is made over the relay in Connect only, with the route renewed.
LEMMA OnlyConnectRelays ==
  ASSUME IInv, Next, conn.at = "CONNECTING", conn'.via = "relay"
  PROVE Connect /\ conn' # Closed /\ ~route.edge
<1>1. conn.via = "none" /\ conn \in ConnType
  BY DEF IInv, Typed, Open
<1>2. conn' # conn /\ conn' # Closed
  BY <1>1 DEF Closed
<1>3. ~DirectSend
  <2> SUFFICES ASSUME DirectSend PROVE FALSE
    OBVIOUS
  <2>1. conn' \in {conn, [conn EXCEPT !.via = "cut"]}
    BY DEF DirectSend
  <2> QED
    BY <1>1, <2>1 DEF ConnType
<1>4. Connect
  <2>1. ~StartQos /\ ~Sample /\ ~Warm /\ ~GiveUp /\ ~PutOff /\ ~Immediate
    BY DEF StartQos, Sample, Warm, GiveUp, PutOff, Immediate, ImmediateRuns
  <2>2. ~WifiLost /\ ~CreateAndSend /\ ~SendSnapshot /\ ~StartCycle
        /\ ~(\E clk \in Dated : Probe(clk))
    BY <1>2, <1>3 DEF WifiLost, CreateAndSend, SendSnapshot, StartCycle, Probe
  <2>3. ~CycleDeferred /\ ~CycleEnds /\ ~Dispatch
    BY DEF CycleDeferred, CycleEnds, Dispatch, CycleRuns
  <2>4. ~CheckSync /\ ~TimeAnswered /\ ~World
    BY <1>2 DEF CheckSync, TimeAnswered, World, LinkUp, LinkDown, GatewayTurns, PinRunsOut, RetryDue
  <2>5. ~Calls
    BY <1>2, <1>3 DEF Calls, Pause, Resume, RequestQos, SendNow, SetUploadMode, ApplyConfig
  <2>6. ~Send /\ ~Wait /\ ~Read
    BY DEF Send, Wait, Read
  <2> QED
    BY <2>1, <2>2, <2>3, <2>4, <2>5, <2>6 DEF Next, Handle, Request
<1>5. ~route.edge
  BY <1>2, <1>4 DEF Connect, Ends
<1> QED
  BY <1>2, <1>4, <1>5

\* Under the AUTO uplink a request goes over the relay only after a failure
\* that no direct success has made up for (ApiClient.UploadRuntimePolicy.cpp).
THEOREM RelayNeedsAFailure == Spec => RelayHasReason
<1>1. ASSUME IInv, [Next]_vars
      PROVE [conn.at = "CONNECTING" /\ conn'.via = "relay" /\ route.uplink = "AUTO"
             => route.failed]_vars
  <2> SUFFICES ASSUME Next, conn.at = "CONNECTING", conn'.via = "relay",
                      route.uplink = "AUTO"
               PROVE route.failed
    BY <1>1
  <2>1. Connect /\ conn' # Closed /\ ~route.edge
    BY <1>1, OnlyConnectRelays
  <2>2. conn' = [at |-> "SENDING", via |-> Way(Retargeted(route))]
    <3>1. Reasoned(route)
      BY <1>1 DEF IInv
    <3>2. ~Retargeted(route).edge
      BY <2>1, <3>1, RetargetedKeeps DEF Reasoned
    <3> QED
      BY <2>1, <3>2 DEF Connect, Ends
  <2>3. Retargeted(route).relay
    BY <2>2 DEF Way
  <2>4. UsesRelay(route) /\ Reasoned(route)
    BY <1>1, <2>3, RetargetedKeeps DEF IInv, Reasoned
  <2> QED
    BY <2>4, Zenon DEF UsesRelay, Reasoned
<1> QED
  BY <1>1, Invariance, PTL DEF Spec, RelayHasReason
=============================================================================
