---------------------------- MODULE StoreForward ----------------------------
(***************************************************************************)
(* How ApiClient keeps the sensor records until the server has them: the   *)
(* ring in RTC memory, the ring in LittleFS behind it, the emergency queue *)
(* in RAM behind both, the cycle that uploads the front record of one of   *)
(* the rings step by step while new records come in, and the commands and  *)
(* resets that interfere.                                                  *)
(*                                                                         *)
(* The device has one thread. An action is one call that runs to its end;  *)
(* calls of one pass of the main loop are separate actions, because which  *)
(* of their timers have run out is arbitrary. A record is the number of    *)
(* the createAndCachePayload call that made it. RtcRing and CacheRing      *)
(* model the two rings in detail; here they are sequences whose calls may  *)
(* fail and whose front may be found damaged.                              *)
(***************************************************************************)
EXTENDS Integers, Sequences, Functions

CONSTANTS
  RtcCap,     \* RTC_MAX_RECORDS (17)
  LfsCap,     \* records that fit into LittleFS
  EmergCap,   \* kEmergencyQueueCapacity (16)
  DrainMax,   \* records drained before an ingest (2)
  StreakMax,  \* popFailStreak stops counting here (8)
  Commands,   \* the calls from outside, a subset of {"mode", "sendnow", "pause"}
  Faults,     \* what may go wrong, a subset of FaultKinds
  MaxFaults,  \* bound: faults
  MaxRecords  \* bound: records

\* A ring call fails; the front of a ring is found damaged; a pop fails; a
\* reset.
FaultKinds == {"write", "damage", "pop", "reset"}

ASSUME StoreForwardAssumption ==
  /\ {RtcCap, LfsCap, EmergCap, DrainMax, StreakMax} \subseteq Nat \ {0}
  /\ Commands \subseteq {"mode", "sendnow", "pause"}
  /\ Faults \subseteq FaultKinds
  /\ MaxFaults \in Nat /\ MaxRecords \in Nat

VARIABLES
  node,  \* the three queues and what happened to the records, see Node
  up,    \* the upload in progress, see Upload
  route, \* where records go: the mode, localGatewayMode, cachedGatewayMode
  live   \* the live snapshot: the record, whether it is pending or in flight

vars == <<node, up, route, live>>

Mode == {"AUTO", "CLOUD", "EDGE"}
NoRecord == 0
Record == 1 .. MaxRecords

Node ==
  [rtc : Seq(Record), lfs : Seq(Record), emergency : Seq(Record),
   saved : Seq(Record),         \* lfs as of the header last written to the file
   backpressure : BOOLEAN,
   cooling : BOOLEAN,           \* rtcFallbackFsRetryAfter is set
   buf : {NoRecord} \cup Record, \* whose payload the shared buffer holds
   made : 0 .. MaxRecords,
   faults : 0 .. MaxFaults,
   received : SUBSET Record,    \* history: the cloud, or a gateway in its place, has them
   excused : SUBSET Record,     \* history: overwritten, damaged or reset
   strays : SUBSET Record]      \* history: popped under a known hazard

Upload ==
  [state : {"IDLE", "UPLOADING", "PAUSED"},
   http : {"IDLE", "CONNECTING", "SENDING", "WAITING", "READING"},
   edge : BOOLEAN,                        \* targetIsEdge
   sent : {NoRecord} \cup Record,         \* what the request carried
   source : {"NONE", "RTC", "LITTLEFS"},  \* loadedRecordSource
   streak : 0 .. StreakMax,               \* popFailStreak
   requested : BOOLEAN,                   \* immediate.requested
   stale : BOOLEAN,     \* history: loaded while an old streak was pending
   disturbed : BOOLEAN] \* history: an ingest used the buffer or moved the queue

-----------------------------------------------------------------------------
(* Outcomes of calls on the queues: whether the call succeeded, and the    *)
(* node after it.                                                          *)

Ok(d) == [ok |-> TRUE, node |-> d]
No(d) == [ok |-> FALSE, node |-> d]

\* The node d hit by a fault, if such a fault may happen now.
Hit(d, kind) ==
  IF kind \in Faults /\ d.faults < MaxFaults THEN {[d EXCEPT !.faults = @ + 1]} ELSE {}

Excuse(d, lost) == [d EXCEPT !.excused = @ \cup lost]

\* CacheManager::trimCacheForWrite for one record
Trimmed(d) ==
  IF Len(d.lfs) < LfsCap THEN d
  ELSE Excuse([d EXCEPT !.lfs = Tail(@)], {Head(d.lfs)})

\* appendEmergencyRecordToRtc, three attempts in all
AppendToRtc(d, r) ==
  IF Len(d.rtc) >= RtcCap THEN {No(d)}
  ELSE {Ok([d EXCEPT !.rtc = Append(@, r), !.cooling = FALSE])}
       \cup {No(e) : e \in Hit(d, "write")}

\* appendEmergencyRecordToLittleFs, two attempts in all
AppendToLfs(d, r) ==
  LET b == [d EXCEPT !.buf = r]
  IN  {Ok([Trimmed(b) EXCEPT !.lfs = Append(@, r), !.cooling = FALSE])}
      \cup {No(e) : e \in Hit(b, "write") \cup Hit(Trimmed(b), "write")}

ToEdge == \/ route.mode = "EDGE"
          \/ route.mode = "AUTO" /\ (route.cached = 1 \/ route.local)

\* tryDirectSendEmergencyRecord: a blocking request, whose answer may get lost
DirectSend(d, r) ==
  LET b == [d EXCEPT !.buf = IF ToEdge THEN r ELSE NoRecord]
      got == [b EXCEPT !.received = @ \cup {r}]
  IN  {Ok([got EXCEPT !.cooling = FALSE]), No(got), No(b)}

\* persistEmergencyRecord
Persist(d, r, allowDirectSend) ==
  LET Fallback(p) == IF p.ok THEN {p}
                     ELSE IF ~allowDirectSend THEN {No([p.node EXCEPT !.cooling = TRUE])}
                     ELSE {IF q.ok THEN q ELSE No([q.node EXCEPT !.cooling = TRUE]) :
                             q \in DirectSend(p.node, r)}
  IN  UNION {IF o.ok THEN {o}
             ELSE (IF o.node.cooling THEN {o} ELSE {})
                  \cup UNION {Fallback(p) : p \in AppendToLfs(o.node, r)} :
               o \in AppendToRtc(d, r)}

\* One round of the loop of drainEmergencyQueueToStorage
DrainOne(o) ==
  IF ~o.ok \/ o.node.emergency = <<>> THEN {No(o.node)}
  ELSE {IF p.ok THEN Ok([p.node EXCEPT !.emergency = Tail(@)]) ELSE p :
          p \in Persist(o.node, Head(o.node.emergency), FALSE)}

DrainRounds[n \in 0 .. DrainMax] ==
  IF n = 0 THEN {Ok(node)} ELSE UNION {DrainOne(o) : o \in DrainRounds[n - 1]}

\* Mutant of Release: a drain leaves the flag as it is.
ReleaseNothing(d) == d

Release(d) ==
  [d EXCEPT !.backpressure = @ /\ Len(d.emergency) >= EmergCap]

\* drainEmergencyQueueToStorage
Drained ==
  {IF node.emergency = <<>> THEN o.node ELSE Release(o.node) : o \in DrainRounds[DrainMax]}

\* flushRtcToLittleFs after it moved k records
Moved(d, k) ==
  LET all == d.lfs \o SubSeq(d.rtc, 1, k)
      cut == IF Len(all) > LfsCap THEN Len(all) - LfsCap ELSE 0
  IN  Excuse([d EXCEPT !.rtc = SubSeq(@, k + 1, Len(@)),
                       !.lfs = SubSeq(all, cut + 1, Len(all)),
                       !.buf = IF k = 0 THEN @ ELSE d.rtc[k]],
             {all[i] : i \in 1 .. cut})

\* Mutant of FlushRtc: it pops a record before it writes it.
FlushPopsFirst(d) ==
  {Moved(d, Len(d.rtc))}
  \cup UNION {Hit([Moved(d, k) EXCEPT !.rtc = Tail(@)], "write") : k \in 0 .. Len(d.rtc) - 1}

\* flushRtcToLittleFs: it moves everything, or it stops at a ring call that
\* fails, which may be the pop of a record it has just copied.
FlushRtc(d) ==
  LET Stops(m) ==
        LET b == [m EXCEPT !.buf = Head(m.rtc)]
        IN  Hit(m, "write") \cup Hit(b, "write") \cup Hit(Trimmed(b), "write")
            \cup Hit([Trimmed(b) EXCEPT !.lfs = Append(@, Head(m.rtc))], "pop")
  IN  {Moved(d, Len(d.rtc))} \cup UNION {Stops(Moved(d, k)) : k \in 0 .. Len(d.rtc) - 1}

\* Mutant of StoreNew: it does not flush a full RTC ring first.
StoreWithoutFlush(d) ==
  LET r == d.made + 1
      Enqueue(f) == [f EXCEPT !.emergency = Append(@, r),
                              !.backpressure = Len(f.emergency) + 1 >= EmergCap]
  IN  {IF o.ok THEN Release(o.node) ELSE Enqueue(o.node) :
         o \in Persist([d EXCEPT !.made = r], r, TRUE)}

\* The rest of createAndCachePayload, once there is room for a record.
StoreNew(d) ==
  LET r == d.made + 1
      e == [d EXCEPT !.made = r]
      flushed == IF Len(d.rtc) >= RtcCap THEN FlushRtc(e) ELSE {e}
      Enqueue(f) == [f EXCEPT !.emergency = Append(@, r),
                              !.backpressure = Len(f.emergency) + 1 >= EmergCap]
  IN  UNION {{IF o.ok THEN Release(o.node) ELSE Enqueue(o.node) : o \in Persist(f, r, TRUE)} :
               f \in flushed}

\* createAndCachePayload
Ingest ==
  UNION {IF Len(d.emergency) >= EmergCap THEN {[d EXCEPT !.backpressure = TRUE]}
         ELSE IF d.made < MaxRecords THEN StoreNew(d) ELSE {} : d \in Drained}

-----------------------------------------------------------------------------
(* Loading the record to upload, and popping it.                           *)

Loaded(result, d, source) == [result |-> result, node |-> d, source |-> source]

RingOf == [RTC |-> "rtc", LITTLEFS |-> "lfs"]

\* The node without the front record of a ring, which turned out to be
\* damaged, and without the n records behind it.
Damaged(d, ring, n) ==
  LET behind == {d[ring][i] : i \in (2 .. n + 1) \cap DOMAIN d[ring]}
  IN  [Excuse(d, {Head(d[ring])}) EXCEPT
         ![ring] = SubSeq(@, n + 2, Len(@)), !.strays = @ \cup behind]

\* loadRecordFromRtc, loadRecordFromLittleFs. Either ring has dropped a damaged
\* front record when it says so; for LittleFS the code then calls pop_one once
\* more, and loses the record behind it, unless the ring is still scanning for
\* that one, or there is none.
LoadFrom(d, from, source) ==
  LET ring == RingOf[from]
      behind == IF from = "RTC" THEN 0 ELSE 1
  IN  IF d[ring] = <<>> THEN {Loaded("EMPTY", d, source)}
      ELSE {Loaded("READY", [d EXCEPT !.buf = Head(d[ring])], from)}
           \cup {Loaded("FATAL", e, source) : e \in Hit(d, "write")}
           \cup {Loaded("RETRY", Damaged(e, ring, behind),
                        IF source = from THEN "NONE" ELSE source) : e \in Hit(d, "damage")}
           \cup {Loaded(result, Damaged(e, ring, 0), source) :
                   result \in {r \in {"RETRY", "EMPTY"} :
                                 from = "LITTLEFS" /\ (r = "EMPTY" => Len(d.lfs) = 1)},
                   e \in Hit(d, "damage")}

\* loadRecordForUpload without a loaded record
LoadUnlocked(d) ==
  UNION {IF r.result = "READY" THEN {r}
         ELSE {IF l.result = "READY" THEN l
               ELSE Loaded(IF "FATAL" \in {r.result, l.result} THEN "FATAL"
                           ELSE IF "RETRY" \in {r.result, l.result} THEN "RETRY"
                           ELSE "EMPTY", l.node, "NONE") :
                 l \in LoadFrom(r.node, "LITTLEFS", "NONE")} :
           r \in LoadFrom(d, "RTC", "NONE")}

\* loadRecordForUpload
Load(d, source) ==
  IF source = "NONE" THEN LoadUnlocked(d)
  ELSE UNION {IF l.result \in {"READY", "RETRY"} THEN {l} ELSE LoadUnlocked(l.node) :
                l \in LoadFrom(d, source, source)}

FrontOf(d, source) == IF source = "NONE" \/ d[RingOf[source]] = <<>> THEN NoRecord
                    ELSE Head(d[RingOf[source]])

\* The node without the front record of a ring, once the upload u has carried
\* that record, or another one.
WithoutFront(d, ring, u) ==
  [d EXCEPT ![ring] = Tail(@),
            !.strays = IF u.stale \/ u.disturbed THEN @ \cup {Head(d[ring])} ELSE @]

\* popLoadedRecord. A front record found damaged only now is dropped, and the
\* retry, or the scan for the next marker if it gets that far, goes on to pop
\* the one behind it.
PopLoaded(d, u) ==
  LET ring == RingOf[u.source]
  IN  IF u.source = "NONE" THEN {No(d)}
      ELSE IF d[ring] = <<>> THEN {Ok(d)}
      ELSE {Ok(WithoutFront(d, ring, u))} \cup {No(e) : e \in Hit(d, "pop")}
           \cup {Ok(Damaged(e, ring, behind)) :
                   behind \in IF ring = "rtc" THEN {1} ELSE {0, 1}, e \in Hit(d, "damage")}

-----------------------------------------------------------------------------
(* Making records.                                                         *)

\* What an ingest that leads to node d did to the upload in progress.
Disturb(d) ==
  \/ up.disturbed
  \/ up.http \in {"CONNECTING", "SENDING"} /\ d.buf # node.buf
  \/ up.source # "NONE" /\ FrontOf(d, up.source) # FrontOf(node, up.source)

\* The part of handle that an immediate upload does not put off.
TimersRun == up.state # "PAUSED" /\ (up.requested => up.http = "IDLE")

\* The data creation timer of handleTimerTasks, which runs after handle has
\* connected a new request. Unless records go to a gateway,
\* trySendLiveSnapshotToGateway forgets the snapshot at once.
CreateRecord ==
  /\ TimersRun
  /\ up.http # "CONNECTING"
  /\ \E d \in Ingest :
       /\ node' = IF /\ up.http = "IDLE" /\ up.state = "IDLE"
                     /\ ~up.requested /\ ~live.inFlight
                  THEN [d EXCEPT !.buf = NoRecord] ELSE d
       /\ up' = [up EXCEPT !.disturbed = Disturb(d)]
       /\ live' = [live EXCEPT !.pending = ToEdge /\ (@ \/ d.made # node.made)]
  /\ UNCHANGED route

\* An ingest that leads to node d and makes a record makes it the live snapshot.
SnapshotOf(d) == live' = [live EXCEPT !.pending = @ \/ d.made # node.made]

\* requestImmediateUpload, called by the sendnow command
SendNow ==
  /\ "sendnow" \in Commands
  /\ \E d \in Ingest :
       /\ node' = IF up.http = "IDLE" THEN [d EXCEPT !.buf = NoRecord] ELSE d
       /\ up' = [up EXCEPT !.disturbed = Disturb(d), !.requested = TRUE]
       /\ SnapshotOf(d)
  /\ UNCHANGED route

-----------------------------------------------------------------------------
(* The upload cycle.                                                       *)

\* Mutant of StartCycle: it does not look at LittleFS.
StartCycleForRtc ==
  /\ TimersRun
  /\ up.http = "IDLE" /\ up.state = "IDLE"
  /\ node.rtc # <<>>
  /\ up' = [up EXCEPT !.state = "UPLOADING"]
  /\ UNCHANGED <<node, route, live>>

\* The cache send timer of handleTimerTasks
StartCycle ==
  /\ TimersRun
  /\ up.http = "IDLE" /\ up.state = "IDLE"
  /\ node.rtc # <<>> \/ node.lfs # <<>>
  /\ up' = [up EXCEPT !.state = "UPLOADING"]
  /\ UNCHANGED <<node, route, live>>

\* handleUploadCycle gets past its first tests. (A pending immediate upload lets
\* it run only during an OTA update, and then it changes nothing.)
CycleRuns ==
  /\ TimersRun /\ ~up.requested
  /\ up.http = "IDLE" /\ up.state = "UPLOADING"

Idle(d) == [d EXCEPT !.buf = NoRecord]

\* handleUploadCycle finds little memory or a pop cooldown in its way. (When it
\* finds an OTA update or a WiFi scan it changes nothing.)
CycleDeferred ==
  /\ CycleRuns
  /\ node' = Idle(node)
  /\ up' = [up EXCEPT !.state = "IDLE"]
  /\ UNCHANGED <<route, live>>

\* handle finds the WiFi disconnected, maybe with a request in progress.
WifiLost ==
  /\ TimersRun
  /\ up.state = "UPLOADING"
  /\ up' = [up EXCEPT !.state = "IDLE"]
  /\ UNCHANGED <<node, route, live>>

PopPending == up.streak > 0 /\ up.source # "NONE"

\* The upload u when the pop of its record ended with o.
AfterPop(u, o) ==
  IF o.ok THEN [u EXCEPT !.streak = 0, !.source = "NONE", !.stale = FALSE, !.disturbed = FALSE]
  ELSE [u EXCEPT !.streak = IF @ < StreakMax THEN @ + 1 ELSE @]

\* recoverPendingQueuePop
RecoverPop ==
  /\ CycleRuns
  /\ PopPending
  /\ \E o \in PopLoaded(node, up) :
       /\ node' = Idle(o.node)
       /\ up' = [AfterPop(up, o) EXCEPT !.state = "IDLE"]
  /\ UNCHANGED <<route, live>>

\* The upload u after a load that ended with l.
AfterLoad(u, l) ==
  IF l.result = "READY"
  THEN [u EXCEPT !.source = l.source, !.stale = u.streak > 0, !.disturbed = FALSE]
  ELSE [u EXCEPT !.source = IF l.result = "EMPTY" THEN "NONE" ELSE l.source]

\* The routes resolveQueuedUploadTarget may find in AUTO mode: what the gateway
\* said last, what it says now, or that it does not answer.
Routes ==
  IF route.mode # "AUTO" THEN {route}
  ELSE {[route EXCEPT !.cached = g, !.local = (g = 1) \/ (g = -1 /\ @)] : g \in {-1, 0, 1}}

Held(r) == r.mode = "EDGE" \/ (r.mode = "AUTO" /\ r.local /\ r.cached = 1)

\* handleUploadCycle finds nothing to upload, or nothing to upload now.
CycleEnds ==
  /\ CycleRuns
  /\ ~PopPending
  /\ \E l \in Load(node, up.source) :
       /\ node' = Idle(l.node)
       /\ up' = [AfterLoad(up, l) EXCEPT !.state = "IDLE"]
       /\ route' \in IF l.result = "READY" THEN Routes ELSE {route}
  /\ UNCHANGED live

\* handleUploadCycle loads a record and starts to upload it.
Dispatch ==
  /\ CycleRuns
  /\ ~PopPending
  /\ \E l \in Load(node, up.source) :
       /\ l.result = "READY"
       /\ node' = l.node
       /\ route' \in {r \in Routes : ~Held(r)}
       /\ up' = [AfterLoad(up, l) EXCEPT !.http = "CONNECTING", !.edge = FALSE]
  /\ UNCHANGED live

\* trySendLiveSnapshotToGateway
SendSnapshot ==
  /\ TimersRun /\ ~up.requested
  /\ live.pending /\ ~live.inFlight
  /\ ToEdge
  /\ up.http = "IDLE" /\ up.state = "IDLE"
  /\ node' = [node EXCEPT !.buf = node.made]
  /\ up' = [up EXCEPT !.http = "CONNECTING", !.edge = TRUE]
  /\ live' = [pending |-> FALSE, inFlight |-> TRUE]
  /\ UNCHANGED route

ForgetSnapshot ==
  /\ TimersRun
  /\ live.pending /\ ~ToEdge
  /\ live' = [live EXCEPT !.pending = FALSE]
  /\ UNCHANGED <<node, up, route>>

-----------------------------------------------------------------------------
(* The request, one step in each pass of handle.                           *)

Connected ==
  /\ up.http = "CONNECTING"
  /\ up' = [up EXCEPT !.http = "SENDING"]
  /\ UNCHANGED <<node, route, live>>

\* handleStateSending: what goes out is what the shared buffer holds by now.
Sent ==
  /\ up.http = "SENDING"
  /\ node.buf # NoRecord
  /\ up' = [up EXCEPT !.http = "WAITING", !.sent = node.buf]
  /\ node' = Idle(node)
  /\ UNCHANGED <<route, live>>

Responding ==
  /\ up.http = "WAITING"
  /\ up' = [up EXCEPT !.http = "READING"]
  /\ UNCHANGED <<node, route, live>>

Over(u) == [u EXCEPT !.http = "IDLE", !.sent = NoRecord, !.edge = FALSE]

Take(d, r) == [d EXCEPT !.received = @ \cup {r}]
Taken(d) == Take(d, up.sent)

\* A 2xx answer from the cloud: handleSuccessfulUpload
Accepted ==
  /\ up.http = "READING" /\ ~up.edge
  /\ \E o \in PopLoaded(Taken(node), up) :
       /\ node' = Idle(o.node)
       /\ up' = [Over(AfterPop(up, o)) EXCEPT !.state = IF o.ok THEN @ ELSE "IDLE"]
  /\ route' = [route EXCEPT !.local = FALSE]
  /\ UNCHANGED live

\* Mutant of Failed: a failed upload counts as a failed pop.
FailedOwesPop ==
  /\ up.http # "IDLE" /\ ~up.edge
  /\ node' \in {Idle(node)} \cup (IF up.sent # NoRecord THEN {Idle(Taken(node))} ELSE {})
  /\ up' = [Over(AfterPop(up, No(node))) EXCEPT !.state = "IDLE"]
  /\ route' \in {route} \cup (IF route.mode = "AUTO" THEN {[route EXCEPT !.local = TRUE]} ELSE {})
  /\ UNCHANGED live

\* Any other answer, no connection, no buffer, a lost connection or a timeout:
\* handleFailedUpload. The server may have taken the record all the same.
Failed ==
  /\ up.http # "IDLE" /\ ~up.edge
  /\ node' \in {Idle(node)} \cup (IF up.sent # NoRecord THEN {Idle(Taken(node))} ELSE {})
  /\ up' = [Over(up) EXCEPT !.state = "IDLE"]
  /\ route' \in {route} \cup (IF route.mode = "AUTO" THEN {[route EXCEPT !.local = TRUE]} ELSE {})
  /\ UNCHANGED live

\* The end of the request that carried a snapshot: processGatewayResult. The
\* record itself waits for the cloud.
SnapshotOver ==
  /\ up.http # "IDLE" /\ up.edge
  /\ node' = Idle(node)
  /\ up' = Over(up)
  /\ live' = [live EXCEPT !.inFlight = FALSE]
  /\ UNCHANGED route

-----------------------------------------------------------------------------
(* The immediate upload: blocking, so nothing comes between its steps.     *)

ImmediateRuns == up.requested /\ up.state # "PAUSED" /\ up.http = "IDLE"

Served(u) == [u EXCEPT !.requested = FALSE]

\* performImmediateUpload returns before it made a record: a pop cooldown or a
\* WiFi scan.
ImmediateRefused ==
  /\ ImmediateRuns
  /\ node' = Idle(node)
  /\ up' = Served(up)
  /\ UNCHANGED <<route, live>>

ImmediateRecoverPop ==
  /\ ImmediateRuns
  /\ PopPending
  /\ \E o \in PopLoaded(node, up) :
       /\ node' = Idle(o.node)
       /\ up' = Served(AfterPop(up, o))
  /\ UNCHANGED <<route, live>>

\* Mutant of Send: it pops whatever the answer was.
SendPopsAlways(l, u) ==
  {<<o.node, AfterPop(Served(u), o)>> : o \in PopLoaded(l.node, u)}

\* The record performImmediateUpload has loaded goes out: it is taken and
\* popped, it may have been taken or not, or the request is put off.
Send(l, u) ==
  LET got == Take(l.node, l.node.buf)
  IN  {<<l.node, Served(u)>>, <<got, Served(u)>>, <<l.node, u>>}
      \cup {<<o.node, AfterPop(Served(u), o)>> : o \in PopLoaded(got, u)}

\* performImmediateUpload: it makes a record, and loads and sends one. A
\* gateway that fails makes it load the same record again for the cloud.
ImmediateUpload ==
  /\ ImmediateRuns
  /\ ~PopPending
  /\ \E d \in Ingest : \E l \in Load(d, up.source) :
       LET u == AfterLoad(up, l)
       IN  /\ \E s \in IF l.result = "READY" THEN Send(l, u)
                       ELSE {<<l.node, Served(u)>>} :
                node' = Idle(s[1]) /\ up' = s[2]
           /\ SnapshotOf(d)
  /\ UNCHANGED route

-----------------------------------------------------------------------------
(* Calls from outside, the cache header and resets.                        *)

\* setUploadMode, called by the mode command
SetUploadMode ==
  /\ "mode" \in Commands
  /\ \E m \in Mode :
       route' = [route EXCEPT !.mode = m,
                              !.local = (m = "EDGE") \/ (m = "AUTO" /\ @)]
  /\ up' = [up EXCEPT !.source = "NONE"]
  /\ UNCHANGED <<node, live>>

\* pause, called when the portal opens or a local OTA update starts
Pause ==
  /\ "pause" \in Commands
  /\ up.state # "PAUSED"
  /\ up' = [Over(up) EXCEPT !.state = "PAUSED"]
  /\ UNCHANGED <<node, route, live>>

\* resume
Resume ==
  /\ up.state = "PAUSED"
  /\ up' = [up EXCEPT !.state = "IDLE"]
  /\ UNCHANGED <<node, route, live>>

\* The header of the LittleFS ring is written: by the flush timer of
\* handleTimerTasks, or by any change of the ring.
SaveCache ==
  /\ "reset" \in Faults
  /\ node.saved # node.lfs
  /\ node' = [node EXCEPT !.saved = node.lfs]
  /\ UNCHANGED <<up, route, live>>

NoUpload ==
  [state |-> "IDLE", http |-> "IDLE", edge |-> FALSE, sent |-> NoRecord,
   source |-> "NONE", streak |-> 0, requested |-> FALSE, stale |-> FALSE,
   disturbed |-> FALSE]
FirstRoute == [mode |-> "AUTO", local |-> FALSE, cached |-> -1]
NoSnapshot == [pending |-> FALSE, inFlight |-> FALSE]

\* A reset: what was in RAM is gone, RTC memory stays, and LittleFS is back at
\* the header last written.
Reset ==
  /\ \E d \in Hit(node, "reset") :
       node' = [Excuse(d, Range(d.emergency) \cup (Range(d.lfs) \ Range(d.saved)))
                  EXCEPT !.lfs = d.saved, !.emergency = <<>>,
                         !.backpressure = FALSE, !.cooling = FALSE, !.buf = NoRecord]
  /\ up' = NoUpload
  /\ route' = FirstRoute
  /\ live' = NoSnapshot

-----------------------------------------------------------------------------
Init ==
  /\ node = [rtc |-> <<>>, lfs |-> <<>>, emergency |-> <<>>, saved |-> <<>>,
             backpressure |-> FALSE, cooling |-> FALSE, buf |-> NoRecord,
             made |-> 0, faults |-> 0, received |-> {}, excused |-> {}, strays |-> {}]
  /\ up = NoUpload
  /\ route = FirstRoute
  /\ live = NoSnapshot

Next ==
  \/ CreateRecord
  \/ SendNow
  \/ StartCycle
  \/ CycleDeferred
  \/ WifiLost
  \/ RecoverPop
  \/ CycleEnds
  \/ Dispatch
  \/ SendSnapshot
  \/ ForgetSnapshot
  \/ Connected
  \/ Sent
  \/ Responding
  \/ Accepted
  \/ Failed
  \/ SnapshotOver
  \/ ImmediateRefused
  \/ ImmediateRecoverPop
  \/ ImmediateUpload
  \/ SetUploadMode
  \/ Pause
  \/ Resume
  \/ SaveCache
  \/ Reset

Spec == Init /\ [][Next]_vars

\* The main loop runs forever, so timers run out and a request ends within its
\* timeouts (WF); memory, the clock, the connection and the server are good
\* enough again and again for an upload to start and to succeed (SF).
FairSpec ==
  /\ Spec
  /\ WF_vars(StartCycle)
  /\ SF_vars(RecoverPop)
  /\ SF_vars(Dispatch)
  /\ SF_vars(Connected)
  /\ SF_vars(Sent)
  /\ SF_vars(Responding)
  /\ SF_vars(Accepted)
  /\ WF_vars(Failed)
  /\ WF_vars(SnapshotOver)

-----------------------------------------------------------------------------
(* Properties.                                                             *)

\* The queues keep within their capacities, and the upload and the snapshot
\* have the shapes of their C++ structures.
TypeOK ==
  /\ node \in Node
  /\ Len(node.rtc) <= RtcCap
  /\ Len(node.lfs) <= LfsCap
  /\ Len(node.emergency) <= EmergCap
  /\ up \in Upload
  /\ route \in [mode : Mode, local : BOOLEAN, cached : {-1, 0, 1}]
  /\ live \in [pending : BOOLEAN, inFlight : BOOLEAN]

Stored(d) == Range(d.rtc) \cup Range(d.lfs) \cup Range(d.emergency)

\* A record that was accepted is in one of the queues until a server has it,
\* unless it became the oldest one in a full LittleFS, its storage was damaged,
\* or a reset took the RAM it was in. ("No-Drop Ingress", README.md:40.)
NoDrop == 1 .. node.made \subseteq Stored(node) \cup node.received \cup node.excused

\* Records are dropped otherwise only by a pop that takes the record behind a
\* damaged one, or by one that follows the upload of a record which an ingest
\* has moved or overwritten in the meantime, or which was loaded while the
\* streak of an earlier failed pop was pending.
NoOtherDrop ==
  1 .. node.made \subseteq Stored(node) \cup node.received \cup node.excused \cup node.strays

\* The node reports backpressure exactly while its emergency queue is full:
\* every path that fills or drains the queue keeps the flag.
BackpressureMeansFull == node.backpressure <=> Len(node.emergency) = EmergCap

\* Every state is well typed, and the flag is that of the queue.
Coherent == TypeOK /\ BackpressureMeansFull

\* A pop that is still owed, because it failed after an upload, is owed for a
\* record that a server has, if no ingest moved or overwrote it and it was not
\* loaded while the streak of an older failed pop was pending, which a mode
\* command makes possible.
\* (recoverPendingQueuePop: "[QUEUE] Recovery OK: pop %s succeeded.")
PopIsOwed ==
  PopPending /\ ~up.disturbed /\ ~up.stale =>
    FrontOf(node, up.source) \in node.received \cup {NoRecord}

\* Unless a call failed, what is in LittleFS is older than what is in RTC
\* memory, and both are in the order of the measurements.
Ascending(s) == \A i, j \in DOMAIN s : i < j => s[i] < s[j]
OldestInFlash == node.faults = 0 => Ascending(node.lfs \o node.rtc)

\* The lock that keeps further snapshots from being sent is taken only while one
\* is on its way. pause, which drops the request, keeps it: no snapshot goes out
\* after that until the node is reset.
LockHasRequest == live.inFlight => up.edge

\* Once records are no longer made, the rings are emptied, whatever failed
\* before.
RingsDrain == []<>(node.rtc = <<>> /\ node.lfs = <<>>)
=============================================================================
