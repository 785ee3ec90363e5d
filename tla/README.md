# Verification of the ESP8266 sensor node

TLA+ models of the sensor-node firmware in `src/`, the TLC configurations that
check them and the theorems TLAPS proves about them. The node samples two
sensors, keeps the records in three places until a server has them, and uploads
them over WiFi to a cloud server, directly, through a relay, or to a local
gateway. What it promises (`src/README.md`, "No-Drop Ingress") is that a record
is not lost between the sensor and the server. That path is the core of the
project; around it are the parts that decide whether it can work at all: the
boot and its self-healing, the configuration, the WiFi manager, the choice of
the uplink, the terminal, and the main loop with its firmware updates.

Paths below are relative to `src/lib/NodeCore` unless they say otherwise.

## 1. The system

The firmware has one thread, the main loop (`src/src/main.cpp`,
`Application::loop`), which calls the `handle()` of every component in turn.
Handlers are short state machines driven by interval timers. Only the callbacks
of the asynchronous web server and of the WiFi library run outside the loop, at
its yields. Concurrency therefore means: a request that takes many passes of the
loop, while other handlers run between its steps; a callback at a yield in the
middle of a handler; and resets (watchdog, exception, power loss,
`ESP.restart()`) at any moment.

| Component | State | Operations | Interacts with | Hard behaviour | What makes it correct | Module |
|---|---|---|---|---|---|---|
| RtcManager (`storage/RtcManager`) | 17 records and a header in RTC memory, which survives a reset but not the loss of power | init, append, peek/peekEx, pop/popEx, isFull, getCount, clear; each reads, heals, works and writes back | ApiClient's queues | decaying memory, failing and torn writes, salvage by sequence numbers that wrap, migration from an older layout | head, tail and count agree; FIFO; nothing popped comes back; damage costs one record; polling gets past damage | `RtcRing` |
| CacheManager (`storage/CacheManager`) | a ring of bytes in `/cache.dat`: head, tail, size in RAM and in the file's header | write (trimming the oldest), read_one, pop_one, flush, reset, init | ApiClient's queues; the flush timer | deferred header writes and crashes, file errors in the middle of a call, damaged bytes, bounded scans for the next marker, deep recovery | tail, head and size agree; whole records leave in order; a crash undoes few changes; a damaged record is contained | `CacheRing` |
| ApiClient, queues (`api/ApiClient.Queue*`, `UploadRecords`) | the emergency queue in RAM, a backpressure flag, the shared payload buffer, the locked source | createAndCachePayload, flushRtcToLittleFs, drain, load, pop | both rings, the upload cycle | an ingest in the middle of an upload; queues at their limits; ring calls that fail half way | no record dropped; backpressure means full; older records are in flash | `StoreForward` |
| ApiClient, upload (`Lifecycle`, `UploadRuntimeCycle`, `UploadFlow`, `Immediate`, `TransportState`, `Control`) | upload state, HTTP state, target, pop streak, requested immediate upload, live snapshot | handle, handleUploadCycle, performImmediateUpload, pause/resume, setUploadMode | queues, server, gateway, terminal commands, WifiManager | lost answers, failed pops after a success, commands between two steps | only an uploaded record is popped; every request ends; rings drain | `StoreForward`, `Uplink` |
| ApiClient, routing (`UploadRuntimePolicy`, `UploadRuntime`, `Transport*`) | failure counters, relay pin and force flag, gateway cache, retry timer | handleSuccessful/FailedUpload, checkGatewayMode, performSingleUpload, applyConfig | upload, measurements, clock | thresholds and timers that interact; two clients shared by several users | the cloud is tried again and again; the relay is used with a reason and not for good | `Uplink` |
| ApiClient, QoS (`Qos`) | pending task, samples | handlePendingQosTask | upload | suspends the upload timers | ends; never during a request | `Uplink` |
| BootGuard, BootManager, safe mode (`ota/BootGuard`, `src/src/BootManager.cpp`, `src/src/Application.cpp`) | crash count, time and reason in RTC memory | incrementCrashCount, markStable, clear; the healing levels of `BootManager::run` | file system, portal | healing itself restarts the node | a crash loop ends in the portal; a working node keeps its files | `BootHeal` |
| ConfigManager (`system/ConfigManager`) | the configuration, `config.dat`, `.bak`, `.tmp`; strings loaded on demand | load, save, setters, getters, releaseStrings | everything | resets between the renames, short writes; a setter writes the buffer the getters read | one readable configuration survives; what is in force is what was confirmed | `ConfigStore`, `Settings` |
| WifiManager, WifiCredentialStore, PortalServer's test (`net/`, `web/`) | connection state, five scan flags, the list of networks in RAM and flash, the connection test | handle, scans of three kinds, portal, add and remove | ApiClient (pause), AppServer, terminal | a scan that ends in another state than it began; lists that are released and reloaded; late callbacks | every known network is tried before the portal opens; no scan is left behind; the access point comes back | `Network` |
| Application, main loop, AppServer's updates, OtaManager, ArduinoOTA, SensorManager | state of the loop, session of the web update, Updater, pauses, two sensors | loop, the observers of WiFi, update callbacks, handle of each | all of the above | a pause by one and a resume by another; two uploads at once; one of two sensors fails | nothing stays paused; no update during an upload; valid means measured; a stalled session ends | `Supervisor` |
| DiagnosticsTerminal, commands (`terminal/`, `commands/`) | client table, lockout, command queue | callbacks, handle | every component | callbacks at every yield of the pass, slots that are used again, a full queue | a command runs for the client that sent it, logged in and in order | `Terminal` |
| NtpClient (`net/NtpClient`) | sync state, source of time | handle, setManualTime, saved snapshot | uploads wait for it | a clock set by something else | uploads get a clock in the end | part of `Uplink` |
| CrashHandler, SystemHealth, Logger, CryptoUtils, Crc32, Utils | logs, a score; none | formatting, pure functions | | | | - |

## 2. The plan

In this order, the most important first, and done:

1. `RtcRing`, with its abstract specification `RecordFifo`;
2. `CacheRing`, with its abstract specification `DurableFifo`;
3. `StoreForward`, which composes the two rings (as bounded queues whose calls
   can fail and whose front can be damaged, which is what 1 and 2 justify) with
   the emergency queue, the upload cycle and the commands;
4. `ConfigStore`, the files of the configuration, with its abstract
   specification `ConfigRegister`; and `BootHeal`, which extends it with the
   crash counter, the healing levels, factory resets and safe mode;
5. `Uplink`, the routing, with measurements, immediate uploads and the clock;
6. `Network`, WifiManager with its list of networks and the portal, with its
   abstract specification `WifiPhases`; and `Supervisor`, which composes
   `WifiPhases` with the main loop, the sensors and the three ways of an update;
7. `Settings`, the values the commands set, and `Terminal`, which extends it
   with sessions and the command queue.

The theorems follow the same order (section 6). Left for later: an at-least-once
queue as the abstract specification of `StoreForward`; that `RtcRing` without
torn writes implements `RecordFifo`, step by step, as a theorem; the lengths of
the upload intervals over a clock that wraps.

## 3. The modules

### RtcRing, MCRtcRing: `storage/RtcManager`

State: `rtc`, the block in RTC memory (its layout, `head`, `tail`, `count`,
`nextSeq` and the slots), since every public call starts by reading it and ends
by writing it: the copy in RAM carries nothing from one call to the next.
`appended` and `faults` count what the run bounds. A slot whose CRC or magic is
wrong is `Blank`. A record is the number of the append call that made it.

| Action | Code |
|---|---|
| `AppendRecord` | `append` |
| `PopRecord` | `popEx`, `pop` |
| `Inspect` | `peekEx`, `peek`, `isFull`, `getCount`, `getRawData`: only their healing changes anything |
| `Boot` | `init` after a reset |
| `Clear` | `clear` |
| `Decay`, `PowerLoss` | the memory itself (external) |

`LoadAndHeal` is `loadAndHeal`: header check, migration of the V1 layout
(`Migrate`), salvage of valid slots in sequence order (`Salvage`), removal of
damaged slots at the front (`Sanitize`). Every write has the outcomes of
`Write`: done, failed, or cut short by a reset, which leaves a prefix of the
new block over the old one (`Torn`).

### CacheRing, MCCacheRing: `storage/CacheManager`

State: `cells`, the bytes of the open file at the grain of markers (two cells,
so that a marker can be split by the ring's end or by a scan), lengths, payload
units and CRCs; `hdr` (head, tail, size); `durable`, the file a reset goes back
to; `pending`, the unflushed changes; `job`, the write whose trimming loop is
running; `peeked`, the record the caller has just read.

| Action | Code |
|---|---|
| `BeginWrite`, `TrimStep`, `TrimReadError`, `StoreRecord`, `StoreError` | `write`: the trimming loop step by step, since a reset or a file error can hit between two iterations |
| `ReadOne` | `read_one`, deep recovery and the drop of a damaged front included |
| `PopOne`, `PopReadError` | `pop_one` |
| `Flush` | `flush`, from the timer of `handleTimerTasks` |
| `Reset` | `reset`, from the clear-cache and factory-reset commands |
| `Crash`, `Restart` | a reset at any moment, `ESP.restart()` between two calls; then `init` |
| `Rot`, `HeaderRot` | damaged flash (external) |

### StoreForward, MCStoreForward: ApiClient

State: `node` (the two rings, the emergency queue, the saved image of the
LittleFS ring, the flags, whose payload the shared buffer holds, and three
history sets: records a server has `received`, records `excused` because a full
flash, damage or a reset took them, and `strays` that a pop took under a
hazard listed in section 4), `up` (upload and HTTP state, locked source, pop
streak, what the request carried), `route`, `live` (the live snapshot).

An action is one call that runs to its end; calls of one pass of the main loop
are separate actions because which of their timers has run out is arbitrary.
`CreateRecord` and `SendNow` are `createAndCachePayload` with everything it
calls (drain, flush, persist, direct send); `StartCycle`, `CycleDeferred`,
`RecoverPop`, `CycleEnds`, `Dispatch` are `handleUploadCycle`; `Connected`,
`Sent`, `Responding`, `Accepted`, `Failed`, `SnapshotOver` are the states of the
transport and what follows each end of a request; `SendSnapshot`,
`ForgetSnapshot` are `trySendLiveSnapshotToGateway`; `Immediate*` is
`performImmediateUpload`, which blocks; `SetUploadMode`, `Pause`, `Resume` are
the calls from outside; `SaveCache` and `Reset` are the cache header and a
reset. The rings appear as sequences with the outcomes the detailed modules
allow: a call that fails, a damaged front that is dropped, with or without the
record behind it.

### ConfigStore: `system/ConfigManager`

State: `flash`, the three files, each missing, unreadable, or a configuration in
the present or an older layout; `ram`, the numbers of `m_config` and the
strings, which are `None` while nobody has loaded them; `job`, the caller of the
`load` or `save` that is running and the file operations it has left. A step is
one file operation, because a reset can come between any two.

| Action | Code |
|---|---|
| `Load`, `FinishMove`, `Loaded` | `load`: the order of the files, the migration of old layouts, what is saved again |
| `OpenTmp`, `WriteTmp`, `RemoveBackup`, `KeepBackup`, `PromoteTmp` | `save`, an early return after each of them included (`SaveFails`) |
| `Command`, `ReadStrings`, `FormatFs` | a setter with the `save` that follows it, a user of the strings, the format command |
| `Reset` | a reset at any moment |
| `HeaderCutShort`, `PromoteFails`, `Rot` (`Unnoticed`) | faults that the code does not notice, or too late |

`asked` is a history variable: the configuration the user has asked for and been
told of no failure. `flash.format` is another: it flips at each format of LittleFS
(self-healing, a factory reset, the format command, a mount that fails), so that
a configuration that is gone can be told from one that was wiped.

### BootHeal, MCBootHeal: boot and self-healing

Extends `ConfigStore`. State: `guard`, BootGuard's block of RTC memory; `cpu`,
the stage of the boot and the cause of the last reset, until the boot is past
the place that asks; `cache`, whether LittleFS
holds records; `past`, a history of crashes and of a requested factory reset.

| Action | Code |
|---|---|
| `Boot` | the factory reset flag, then `incrementCrashCount` |
| `Wipe`, `Unflag` | the factory reset in `BootManager::run` |
| `DropCache`, `FormatAll`, `CoolDown` | levels 1, 2 and 3; each mounts LittleFS first (`Mount`) |
| `LoadConfig`, `ConfigStep`, `ComeUp` | `setup` and `Application::init`: load, then safe mode or not |
| `Stable` | `loop` after a minute: `markStable` and `clear` |
| `CacheRecord`, `UseConfig` | whatever writes to LittleFS from the main loop |
| `Restart`, `RequestReset`, `ResetNow` | `ESP.restart()` of many callers, the two factory resets over a flag, the factory reset command |
| `Crash`, `PowerLoss` | external |

### Uplink, MCUplink: where ApiClient sends, and when

State: `route` (mode, local mode and its cached answer, uplink, the relay's force
flag and pin, the retry timer, the target of the last request), `conn` (the HTTP
state and what the connection was made to, or `cut` when somebody took its
client), `up` (upload state and count of failures), `now` (the immediate
upload), `qos`, `clock`, and the world: `online`, `gateway`.

| Action | Code |
|---|---|
| `Connect`, `Send`, `Wait`, `Read` | the handlers of the HTTP states (`TransportState`); each may end the request with what `handleSuccessfulUpload` or `handleFailedUpload` does (`Ends`) |
| `StartCycle`, `CycleDeferred`, `CycleEnds`, `Dispatch` | the cache send timer and `handleUploadCycle`, with `resolveQueuedUploadTarget` (`Decided`) and `startUpload` (`Aimed`) |
| `SendSnapshot` | `trySendLiveSnapshotToGateway` |
| `Warm`, `GiveUp`, `PutOff`, `Immediate` | the immediate upload; `Single` is `performSingleUpload` with its second attempt over the relay |
| `CreateAndSend`, `SendNow` | a record that can be stored nowhere is sent at once (`DirectSend`), whoever uses the clients |
| `StartQos`, `Sample` | `handlePendingQosTask` |
| `Probe`, `CheckSync`, `TimeAnswered` | the date of an answer, and `NtpClient` |
| `SetUploadMode`, `ApplyConfig`, `RequestQos`, `Pause`, `Resume` | calls from outside |
| `LinkUp`, `LinkDown`, `GatewayTurns`, `PinRunsOut`, `RetryDue`, `WifiLost` | the world and the timers |

`failed` is a history variable: an upload to the cloud failed, and none sent to
it directly has succeeded since, nor was the uplink changed.

### Network, MCNetwork: WifiManager, WifiCredentialStore, PortalServer

A pass of the main loop calls `PortalServer::handle` and `WifiManager::handle`;
neither yields, so a pass is one step. The handlers are operators from one value
of `net`, the state of the three components and of the radio, to the set of
values they may lead to; `WifiHandle` has one for each way through
`WifiManager::handle`, and `Handle` composes them. `ScanDone`, `ScanFails`,
`LiteScanDone`, `LinkUp` and `LinkDown` are the WiFi library; `LiteScanDone` is
a callback that goes on with the next channel whatever has become of the scan it
belongs to. `AddNetwork`, `RemoveNetwork`, `RequestNetworkScan`, `OpenWifi` are
the terminal and the node's web page, `SubmitNetwork`, `ScanFromPortal`,
`Rescan` the portal's pages. Histories: `due`, the networks in range that were
not tried since the last scan; `roamed`, the attempts began with a roaming scan,
which refreshes the strengths but keeps the old place in the list; `late`, the
callback of a scan that was given up came afterwards; `told`, the list as the
users were told it is; `unsaved`.

### Supervisor, MCSupervisor: the main loop and its updates

`pc` is what the loop is at: a pass goes from `wifi` over `sensors`, `ota`, `api`,
`server`, `terminal` and `arduino` back to `wifi`; a check or a download of the
cloud and an upload by the IDE are places in which it blocks while requests to
the web server come in.

| Action | Code |
|---|---|
| `Stabilized`, `Connecting`, `HandleWifi` | the states of `Application`; `Observe` is what its two observers of WifiManager do, `AppServer::stop` first |
| `HandleSensors` | `SensorManager::handle` in its four states |
| `CheckDue`, `NoCheck`, `Checked`, `Download*` | `OtaManager::handle` and the library's updater |
| `HandleApi` | whether `ApiClient::handle` has a request under way: `Uplink` and `StoreForward` have the rest |
| `ServerRestarts`, `ServerWaits`, `AbortSession` | `AppServer::handle` |
| `Commands`, `RebootCommand`, `OpenWifi` | what the terminal's commands ask for |
| `Arduino*`, `NoArduino` | ArduinoOTA and its callbacks |
| `First`, `Middle`, `Final`, `FirstRefused`, `Ignored`, `WriteFails`, `FinalEmpty`, `HangUp` | the upload handler of `/update`, per chunk and connection: it does not know whose update runs |
| `TimeOut`, `FormatFs`, `Crash` | the limits of a session, the format request, a reset |

The module takes WifiManager as `WifiPhases` describes it, which `Network` is
checked to implement.

### Settings, Terminal, MCTerminal: commands

`Settings` has the configuration in RAM, its strings while they are loaded, the
file, and `told`, the values the commands have confirmed. `ChangeStrings` and
`ChangeHeader` are the setting commands with the setters and the `save` they call;
`Load` and `Release` are the getters and `releaseStrings`, at any time.

`Terminal` adds the client table (`slot`), the count of clients, the queue of
commands, and `loop`: where the pass of the main loop has yielded, with what it
keeps across the yield (a client's number, a reference into the table that may
be stale). `OnConnect`, `OnData`, `OnDisconnect` are the callbacks; `TurnAway` is
a connection refused because its buffers cannot be allocated, `OnStrayData` a
frame it sends before it is closed, which allocates them after all; `Begin`,
`Greet`, `Greeted`, `FlushOutput`, `Pop`, `Execute` the parts of
`DiagnosticsTerminal::handle` between two yields; `Login`, `Logout`, `SetCommand`,
`Help`, `SendNow`, `Decline` the commands by what they do to the terminal, with
their answers (`Queued`).

### RecordFifo, DurableFifo, ConfigRegister, WifiPhases

The abstract specifications: a FIFO with holes that overwrites only when full; a
durable FIFO of a given room that a crash takes back by fewer than `Lag` changes; a
configuration that a restart finds as it was last saved, or as it was being
saved, never a mixture, and that is lost only in a format (`Wipe` needs one in the
same step); and a WiFi manager that starts, looks for a network,
never for ever, is connected, or keeps the portal open, which it leaves only by
connecting or by a reset (`Moves` is the safety of it, `PhaseSpec` adds that it
does not look for ever). `RtcRing`, `CacheRing`, `ConfigStore` and `Network` refine
them by `INSTANCE ... WITH` (`ImplementsFifo`, `ImplementsRegister`,
`ImplementsPhases`). `Supervisor` takes a manager that is starting for one that
looks for a network, as its observers do.

## 4. The runs

| Run | Question and result |
|---|---|
| `RtcRing` | Two faults of any kind (failing and torn writes, decay, power loss) and V1 blocks at boot: is the ring a FIFO, is its header consistent, can nothing come back from the dead, does each call lose at most one record, does polling get past damage at the front? Yes. |
| `CacheRing` | One fault (a failing read or write, a damaged byte, a damaged header) at any point of any call, and resets: is an undamaged file a durable FIFO of whole records, with fewer than `FlushEvery` changes undone by a crash? Is a damaged one read between tail and head, popped as it was read, passed in the end, and is the loss contained? Yes. |
| `StoreForward` | One fault of any kind, and sendnow, mode and pause commands between any two steps: are records lost only in the ways listed below, is a pop that is owed owed for a record a server has, are older records in flash? Yes. |
| `StoreForwardDrains` | Two faults: is backpressure exact, and are both rings emptied in the end? Yes, under the fairness of section 5. |
| `StoreForwardFlush` | Is no record dropped, without any fault? No: an ingest that flushes a full RTC ring during an upload makes the pop take a record no server has. |
| `BootHeal` | Crashes, resets and power losses at every step, with one fault the code notices: is the configuration replaced as a whole or not at all, and lost only in a format, does healing delete data only after three crashes (the cache) or five (everything) since the last stable minute, does a requested factory reset come before the node is up, and does the node come up? Yes, the last unless it has counted 4 to 15 crashes. |
| `BootHealLoop` | After more than five crashes, does the node reach safe mode? No: from the fourth on it restarts at every boot. |
| `Terminal` | Three connections over two slots and a queue of one command, with disconnects at every yield: do the sessions follow the clients, is only a connection obeyed that logged in itself, do commands run in order and once, is the newest not lost, and are the strings in force those last confirmed? Yes. |
| `Network` | Scans that fail, end late or report any strength, links that go, a user's request, a crash: does the manager do what its observers rely on (`WifiPhases`), are all known networks in range tried before the portal opens (but for attempts that begin with roaming), is the list kept, is no scan left marked as running where nobody ends it, does the access point come back? Yes, but for a late callback of a scan that was given up (`late`). |
| `Supervisor` | Two connections that upload, updates from the cloud and the IDE, WiFi that comes and goes, formats, crashes: is nothing paused without a reason, does no update share the network with an upload, does a valid reading mean a successful last sample, does a stalled session end? Yes. |
| `SupervisorFrozen` | Does a reading that stays valid get sampled again and again? No: while one sensor is broken, the other is not sampled and its last value stays valid. |
| `Uplink` | Failures, measurements, immediate uploads, pauses, a gateway, a clock that is not set, a change of mode or uplink: is the relay used only after a failure, is the cloud tried again and again, and now and then without the relay? Yes. |

The three disagreements above are findings in `PROJECT.json`, each a violation run
of its own. `NoOtherDrop` is `NoDrop` with the known paths excused by name
(`strays`), so that the passing runs show there is no other one. `strays` marks
a record only when it is popped in one of these situations: its upload was
disturbed by an ingest that moved the front of its ring or reused the buffer
before the body was sent; it was loaded while the streak of an older failed pop
was pending; or it stood behind a record found damaged. In the same way
`PopIsOwed` leaves out a record loaded under an older streak: a mode command
after a failed pop forgets the record and keeps the streak, and the next cycle
pops a record it has not sent (the hazards in `PROJECT.json` name the line).

TLC also checks that no state is a dead end, but for `StoreForwardDrains`,
`Terminal` and some of the violation runs: without commands, and with every
record made and uploaded, or with every connection gone, there is nothing left
to do there but stutter.

### Bounds

| Constant | In the code | In the runs | Why it is enough |
|---|---|---|---|
| `Slots` (RTC) | 17 | 3 | wrap, full, empty and damage in the middle all occur with three |
| `SeqSpace` | 2^16 | 8 | the code needs more than twice the slots; every starting number is tried, so the wrap happens |
| `Budget` | 4 | 1 | smaller than the ring, so one call may not be enough |
| `Cap`, `MaxLen` | 100 KB, 256 bytes | 16 cells / 2 | three records, two sizes; a record that wraps at every offset; a bad length can reach over a neighbour |
| `ScanBudget` | 1024 bytes | 4 | less than a record, so scans end in between |
| `FlushEvery` | 32 | 2 | crash with none, some and all changes saved |
| `RtcCap`, `LfsCap`, `EmergCap` | 17, hundreds, 16 | 1 or 2, 2, 1 | each queue becomes full and the next one takes over |
| `DrainMax` | 2 | 2 | the code's |
| `StreakMax` | 8 | 1, 2 | the streak saturates |
| `MaxCount` | 999 | 16 | above 15, the last number the code compares with; the cap is reached |
| `MaxCrashes` | - | 9 | every level is reached, with crashes that count once or twice |
| `Values` | - | two | old and new differ in either part |
| `Ids`, `Slots`, `QueueSize` (terminal) | many, 1 (the code allows 1 to 8), 2 | 3, 2, 2 | a connection too many; a slot used again while its old client is greeted; two clients at once; a queue that drops |
| `MaxCommands`, `MaxFails`, `FailWrap` | -, `MAX_FAILED_AUTH_ATTEMPTS`, 256 | 2, 1, 2 | two commands follow each other, one failure locks out, the count of failures wraps |
| `Headers`, `Strings` | 3, 7 groups of fields | `uplink`; `upload`, `portal` | each kind of field is treated alike: one that is checked at loading, one that is not |
| `Saved`, `BuiltIns`, `MaxSaved`, `Strengths` | 5 places, 2 built-in networks | one visible and one hidden, none, 2, away/weak/strong | order, holes, roaming and the assumed strength of hidden networks; the networks built in are tried by the same loop |
| `Channels` | 6 | 2 | a scan that is given up between two channels |
| `Sensors`, `MaxFails` | 2, 20 | 2, 2 | one works while the other fails |
| `Uploads`, `Chunks` | any | 2, 3 | two uploads whose first, middle and last chunks interleave |
| `Threshold`, `Reset`, `Samples` | 3, 5, 5 | 1, 2, 2 | counts below, at and above each threshold |
| `MaxFaults`, `MaxEdits`, `MaxRefusals` | - | 1 or 2, 1, 1 | one or two faults in a history, one request of a user on top of everything that happens by itself |
| `MaxRecords`, `MaxAppends`, `MaxWrites` | - | 2 to 6 | enough to fill the queues |

Timers, cool-downs and time-outs have no clock in these modules: an action that
waits for one may happen at any time its other guards allow, so every order the
timers can produce is covered, and some they cannot.

The largest runs visit 2.9 million (`StoreForward`), 640,000 (`Supervisor`),
570,000 (`Terminal`), 440,000 (`Network`) and 180,000 states (`Uplink`, whose
time goes into its liveness properties).

### Counterexamples outside the list of runs

These configurations are kept beside the runs. TLC finds each property violated;
they document behaviour the properties of the runs leave out.

| Configuration | Property | What it shows |
|---|---|---|
| `RtcRingUpgrade` (`MCRtcRing`) | `NothingFabricated` | `tryMigrateFromLegacy` reads the old block through a pointer into `data`, which `resetDataInMemory` has just cleared (`RtcManager.cpp:147`): the migrated records are zeros, though the log says "Legacy RTC migrated: %u records" (`:167`). |
| `CacheRingSalvage` (`MCCacheRing`) | `PopTakesWhatWasRead` | `read_oneImpl` returns a front record with a damaged marker (`CacheManager.cpp:608-656`), `pop_oneImpl` (`:728`) takes it and the record behind. |
| `ConfigBackup` (`MCBootHeal`) | `LoadKeepsConfig` | `load` restores `config.bak` and saves it again (`ConfigManager.cpp:234-235`), but its strings are read from the damaged `config.dat`: they become the factory's. Checked under `LossySpec`, the specification with the faults that `save` and `load` do not notice. |
| `StoreForwardPause` (`MCStoreForward`) | `LockHasRequest` | A pause (`ApiClient.Control.cpp:183`) drops the request of a live snapshot and keeps its lock `liveSnapshotInFlight`, which only the end of that request clears: no snapshot is sent to the gateway again until the node is reset. |
| `NetworkRoam` (`MCNetwork`) | `NoneLeftUntried` | A roaming scan (`WifiManager.cpp:492-544`) refreshes the strengths and starts an attempt without `resetConnectionAttempt`. If the network roamed to fails, the place in the list and the flags are those of attempts long past: networks in range are passed over and the portal opens with "No more credentials available" (`:262`). |
| `NetworkTest` (`MCNetwork`) | `SuccessWasTested` | The portal says "Connection successful, device will restart" (`PortalServer.Routes.cpp:358`) when the station is connected to any network: a background scan during the test may connect to a known one, and the untested network is stored. The announced restart may fail to come, too: the manager leaves the portal and `stop()` ends the handler that would do it. |
| `SupervisorImage` (`MCSupervisor`) | `SuccessIsWhole` | "Success! Rebooting..." (`AppServer.Routes.cpp:563`): the later chunks of a second upload, whose first was refused, go into the first one's image. |
| `SettingsAnswers` (`Settings`) | `AnswersAreTrue` | `SetUrlCommand` (`:37-40`) and `SetConfigCommand` confirm values that `isValidHttpsUrl` (`ConfigManager.cpp:130-133`) and the limits (`:877-890`) replace. |

## 5. Fairness

- `RtcRing`, `CacheRing`: the upload cycle polls the ring (`WF` on `Inspect`
  and `ReadOne`); the trimming loop of a write runs to its end (`WF` on
  `TrimStep` and `StoreRecord`). `CacheRing`'s `FrontHeals` supposes that resets
  stop: a node that resets after every read makes no progress, whatever the
  ring does.
- `StoreForward`: the main loop runs for ever, so a timer that has run out is
  served and a request that holds the snapshot's lock ends within its time-outs
  (`WF` on `StartCycle`, `SnapshotOver`, `Failed`). That memory, the clock, the
  connection and the server are good enough again and again for an upload to
  start and to succeed is assumed by `SF` on `Dispatch`, the steps of the
  request, `Accepted` and `RecoverPop`: each can be disabled again and again by
  a failure, which weak fairness would not cover. Nothing is assumed of records
  being made, of resets or of commands.
- `BootHeal`: the code of the boot runs on until it restarts or is up
  (`WF` on `BootStep`), and a node that stays up for a minute clears the counter
  (`WF` on `Stable`). Crashes and losses of power are not assumed to stop:
  `ComesUp` says what follows if they do.
- `Terminal`: the main loop never stops calling `handle` (`WF` on `Handle`);
  nothing is assumed of clients.
- `Network`: the timers of a pass that has to give something up run out, and
  the library ends its scans. Both are weak fairness of steps inside the one
  action `Handle`, so they are written out (`TimersRunOut`, `ScansEnd`): such a
  step is not due again and again, or it is taken again and again.
- `Supervisor`: the loop goes round, since what blocks it has time limits or a
  watchdog that restarts the node (`LoopRuns`), and time passes, so a session
  that does not end gets too long (`TimePasses`).
- `Uplink`: the loop serves a request, and a pause ends, since each pause in
  `Supervisor` does (`WF` on `Request`, `Resume`, `RetryDue`, `LinkUp`).
  Measurements, the immediate upload and the start of a cycle wait for each
  other, so they need strong fairness; so does an immediate upload that is not
  put off for lack of memory for ever, an upload that finds memory and a record
  (`Dispatch`), and a server whose answer carries a date (`Probe`).
  `SF` on `PinRunsOut` while no request is open says that uploads do not always
  happen to be under way when the pin ends. That the WiFi is there again and
  again is a premise of `CloudIsTried` itself, not of the specification.

## 6. The proofs

`RtcRing_proofs`, `CacheRing_proofs`, `BootHeal_proofs` (with `ConfigStore`),
`StoreForward_proofs`, `Supervisor_proofs`, `Uplink_proofs`, `Terminal_proofs`
(with `Settings`) and `Network_proofs` hold theorems TLAPS checks for every
value of the constants that satisfies `RtcAssumption`, `CacheAssumption`,
`StoreForwardAssumption`, `ConfigAssumption`, `BootAssumption`,
`SupervisorAssumption`, `UplinkAssumption`, `SettingsAssumption`,
`TerminalAssumption` and `NetworkAssumption` (`Slots`, `Cap`, the capacities of
the queues, budgets and bounds positive; a record fits into the ring; no value
of a setting is the mark for none; the cap on the counter is above 15; an image
has at least two chunks; the threshold is at most the count that resets the
WiFi; a slot and two places in the queue at least, a finite number of clients
and slots, and a count of failed logins that wraps above its limit; strengths in
the range that the code tells apart, and networks of the greenhouse and saved
ones that do not overlap).

- `RtcRing`: `TypeCorrect` (`TypeOK`), `RingStaysConsistent` (`RingShape`),
  `NothingToResurrect` (`NothingLeftBehind`) and `LosesOneAtMost`
  (`RetainsRecords`). The inductive invariant `Inv` of the first three is their
  conjunction; none but the first is inductive alone: `append`
  and `popEx` compute each of head, tail and count on its own, so the shape is
  needed to know which slots are in use, and that is needed to know a new slot
  was blank before. `Healed(b)` collects
  what holds of every block a call works on; one lemma for each helper
  (`DropFrontHealed`, `CompactedHealed`, `MigratedHealed`, `WithNewestHealed`,
  `WithoutOldestHealed`, `TornGood`) says it preserves it, `LoadAndHealGood` and
  `FinishGood` lift that to sets of outcomes, and `NextInv` has one step per
  action. The arithmetic modulo `Slots` rests on the lemma `Wrap`, stated once.
  For `LosesOneAtMost` each helper also has a lemma about the records that can
  still be read (`DropFrontKeeps` and its like), and the invariant says that a
  block in the V1 layout has no valid slot (`NothingToMigrate`): its migration
  loses nothing because there is nothing in it that can be read.
- `CacheRing`: `CacheTypeCorrect` (`TypeOK`) and `CacheStaysAligned`
  (`RingShape`), for damaged cells, failing reads and writes, and resets. The
  inductive invariant is the conjunction of the two: the alignment of a header
  says nothing unless its fields are in range, in RAM and in the file
  (`GoodHeader`, `GoodFile`); `AdvanceGood`, `ScanGood`, `PopGood` and `ReadGood`
  carry it through the calls. `ReadsTheRing` (`ReadsInsideRing`),
  `PopsWhatWasRead` (`WholePopTakesWhatWasRead`) and `ReadsContainDamage`
  (`DamageIsContained`) say what the three action properties say, and none follows
  from the header alone. They rest on `Laid`: wherever the ring has the first half
  of a marker, a whole record was written from there, some of its cells damaged
  since. It holds in RAM and in the file; a write that fails half-way keeps it,
  because it stays outside the ring (`WrittenAt`, by way of `FromHead`), and so do
  an advanced tail (`AdvanceLaid`), damage (`RotLaid`) and a stored record
  (`StoredLaid`). From it follows that no record begins inside another
  (`LaidApart`) and that a front that reads as a record has the length it was
  written with (`FrontAsLaid`: any other length puts the CRC where a payload is).
  `LInv` adds that a record just read is still the front (`PeekedIsFront`). The
  bound of `DamageIsContained` counts: what is lost began before the end of one
  bad length, and beginnings are at least five cells apart (`FewBeforeOffset`, an
  injection into an interval).
  `CacheImplementsFifo` (`ImplementsFifo`) is the refinement of `DurableFifo`, for
  every step but with nothing promised after a fault. Its invariant `FInv` adds
  `Clean`: until then the ring and the file it falls back to are chains of whole
  records, one beginning where the other ends (`Whole`), and a write under way is
  of the next record. The abstract queue has no variable of its own in the code:
  its k-th record is the one at the k-th offset with a marker (`Records`, by
  `Rank` and `Nth`). That these offsets are a sequence at all, and what a new
  last or a missing first one does to it, are facts about finite sets of numbers
  (`NthMember`, by an injection between sets of one size; `NthAppended`,
  `NthShifted`). `AdvanceWhole` and `StoredWhole` lift them to the tail and the
  append of the sequence, `WholeFront` shows that the calls take none of their
  ways through damage, and `CleanStep` names the abstract step of each action.
- `StoreForward`: `NodeCoherent` (`Coherent`), `RecordsAccountedFor`
  (`NoOtherDrop`), `OwedPopsReceived` (`PopIsOwed`) and `OldestStayInFlash`
  (`OldestInFlash`), all from `NodeInvariant`. The inductive invariant `Inv` has
  two halves. `Sound(node)` is about the queues: their shape (`Shaped`), where
  the records are (`Kept`), the flag (`Flagged`) and, while no call has failed,
  the order (`Ordered`, which adds to `OldestInFlash` that nothing waits in RAM,
  that no cool-down sends a record past a ring, and that no record is newer than
  the last one made). `Good(node, up)` is about the upload: `Owed` is
  `PopIsOwed`, and is not inductive without `SendsFront`, that what is in the
  buffer or on its way is the front of the ring it was read from unless an
  ingest has disturbed it; and `Requests`: a request that was sent has a record,
  and one with a snapshot is open. A call is a composition of helpers, each with
  a set of outcomes, so there is a relation for what a helper may do to the node
  (`Keeps`, `KeepsQueue`, `Settles`, `Drains`, `Orderly`), shown transitive, and
  a lemma per helper that each of its outcomes is so related to what it started
  from; `IngestKeeps`, `LoadLoads` and `PopLoadedKeeps` are what the actions
  use, and `NextInv` has a lemma for each action. `DrainRoundsDefined` shows
  that the recursive function of the bounded drain exists, by a least number of
  rounds for which it would not.
- `BootHeal`: `ResetIsNotForgotten` (`ResetComesFirst`) and `HealingEarned`
  (`HealingIsEarned`), from `CounterInvariant`. The inductive invariant `Inv`
  says that the count is at most `2 * Seen - 1`, where `Seen` leaves out a crash
  that the boot has not got to counting yet (`CountIsEarned`; without `timed` it
  is not inductive, because the first crash must count once), and that an owed
  factory reset is marked in RTC memory with the node still before the place
  that looks for the mark (`OwedIsMarked`). It mentions no file: the healing
  levels depend on the counter alone.
- `ConfigStore` (under `BootHeal`'s specification): `FilesImplementRegister`
  (`ImplementsRegister`), the refinement of `ConfigRegister`, and
  `BootTypeCorrect` (`TypeOK`). The inductive invariant `StoreInv` says where a
  call can be (`Call`): nothing written yet (`Settled`), `config.tmp` opened
  (`Emptied`), `config.tmp` complete (`Complete`), or found complete by a load
  (`Found`); and what the files are then: the backup is never the only readable
  one (`FilesInv`). That is why `load` may prefer `config.tmp` to `config.bak`,
  and why a save that gives up early can be taken back. It needs `Place`: until
  `load` runs nobody has a call open. `Stutters`, `Commits`, `Restarts`,
  `Forgets`, `Wipes` and `Changes` say which step of the register a step is;
  `GivesUp` is the early return of a save, for each of its callers. A wipe is a
  format in that very step, so no order of the file operations may leave `load`
  without a configuration to find. The commit is
  not where one looks for it: it is the rename of `config.dat`, or, without one,
  the last byte of `config.tmp`.
- `Supervisor`: `NothingStaysPaused` (`PausedForAReason`) and `StaysCoherent`
  (`Coherent`). Neither is inductive. A session's end resumes the uploads
  whatever the portal says, so one has to know that a session belongs to a
  running web server, and that this runs while the node is connected; and that
  the memory mode is the manager's last state that has one (`Ties`). `Counts`
  bounds the failures of a sensor in use. `Parts` splits the invariant into what
  the sensors, the images and the control of the loop hold, `ObserveKeeps` is
  the step of the two observers, `EndKeeps` the end of a session, and each
  request has its case in `RequestKeeps`.
- `Uplink`: `StaysCoherent` (`Coherent`) and `RelayNeedsAFailure`
  (`RelayHasReason`). The inductive invariant `IInv` adds two facts: what arms
  the relay has noted a failure (`Reasoned`), and no request that was sent
  directly is open while the relay is armed (`Open`), since its success would
  make the failure undone with the relay still pinned. One lemma for each thing
  that is done to a route (`RetargetedKeeps`, `AimedKeeps`, `NotedKeeps`,
  `ArmedKeeps`, `ClearedKeeps`) says it stays reasoned; `SingleKeeps` lifts them
  to a blocking upload with its second attempt, `EndsKeeps` to the end of a
  request, and the actions follow. `OnlyConnectRelays` shows that a connection
  over the relay is made in one place.

- `Terminal`: `SettingsHold` for `Settings` alone, `StringsStay`
  (`StringsInForce`), `OnlyOwnLogin` (`OnlyLoggedInAreObeyed`) and `NeverBackwards`
  (`CommandsInOrder`) with sessions and callbacks. The inductive invariant `TInv`
  has a part for each: what is loaded is what is on flash, and what is on flash is
  what was confirmed (`SInv`; a setter writes before it knows whether the save
  succeeds, so the two together are needed); a slot that is marked as logged in
  belongs to a client that has logged in itself (`LoggedIn`), whoever had the slot
  before and whatever the pass of the loop still holds of it; the numbers in the
  queue ascend, and all are greater than the last one run (`InOrder`).
  `SessionsStay` (`Coherent`) has the invariant `CInv`, which adds
  `SessionsMatchClients`. That needs `TInv`'s types and what the pass of the loop
  holds, because the last disconnect frees the table while the loop walks it; that
  the count of sessions stays their number rests on a few lemmas about the
  cardinality of the slots in use when one is taken, freed or kept.
- `Network`: `AlwaysCoherent` (`Coherent`), `KeepsWhatUsersWereTold`
  (`KnownAreKept`), `TriesAllFirst` (`PortalIsLastResort`) and `MovesByPhases`, the
  safety of `ImplementsPhases`. Its handlers are operators on one record, so the
  invariant is a predicate over such a record, `Good`, and each operator has a
  lemma that each of its outcomes is good again. `Good` has four parts: the types;
  `Kept`, which is `KnownAreKept`; `Tidy`, the scans and the access point of each
  state, with two facts that `Coherent` does not have, that the portal's server
  runs in the portal only and that a scan for a connection does not find the
  results of one of the portal's channel scans; and `Hopeful`, which makes
  `PortalIsLastResort` inductive: while networks are tried, each of those due is
  still in front of the place in the list, its strength is known, and no scan of
  a channel is still running that could change the strengths. Attempts that begin
  with roaming are exempt, as the code does not keep it there
  (`NetworkRoam`). Sorting
  and packing are defined by the rank of each entry (`Ranked`), so that what they
  keep is a fact about a bijection and needs no induction over the list.

Only model-checked, not proved: the refinement of `RecordFifo`, `NewestRuns`,
and every liveness property, `RingsDrain` and that of `ImplementsPhases` among
them. Liveness under fairness is beyond the prover used, as are `ENABLED` and
induction over data; so the sequence of records is defined by rank and not by a
walk, and `DurableFifo` keeps what its records take instead of adding it up.
The modules have no `RECURSIVE` operator: recursion is written as functions.

## 7. Not modelled

Payload text, compression, HTTP and TLS, JSON and the web assets: no property
is about their content. Checksums are modelled by whether they match; a
damaged record that passes its CRC by chance is left out. Formatting and logging
(CrashHandler, SystemHealth, Logger), the functions over bytes (CryptoUtils,
Crc32, Utils), and the parsing of a command's text are left out, as are scripts
and tools.

What the models leave out of the parts they have:

- `Uplink`: the lengths of intervals and the backoff. Three things in that
  arithmetic are worth knowing: the product that is capped at five minutes can
  wrap in 32 bits first; the 5 s interval an armed relay sets, and a resume or
  an immediate success, leave the send interval as it was, though the log says
  "Backoff reset to normal interval." (`UploadRuntimePolicy.cpp:76`); and the
  pin is compared by a signed difference, which turns after 24.8 days. A clock
  beyond a fixed date counts as the answer of a time server (`NtpClient.cpp:92`):
  `CheckSync` says so. The reset of the WiFi at exactly five failures is skipped
  when an immediate upload counts the fifth: `Finished` says so. A stale target
  of the last request suppresses the relay in a blocking upload: `FallsBack`
  reads it. Left out: the reboot on low memory (while an immediate upload is put
  off for lack of memory, `handle` returns before it), `scheduleImmediateUpload`,
  which nothing calls, and the time set by hand.
- `Supervisor`: the flashing of an image from LittleFS, which nothing starts; the
  override of certificates; the recovery of the sensors' bus, of which only the
  outcome is there. Requests that are open die with the server; the library's
  updater is taken to be idle after a download that failed.
- `Network`: passwords and the networks built in; TLC takes an empty list of
  them, the definitions do not.
- `StoreForward`: `rtcFallbackFsRetryAfter` is a time that may come, not a
  number: its comparison by `<` (`QueueEmergency.cpp:135`) fails for a while
  when `millis()` wraps. A pause leaves the lock of a live snapshot in place
  until the next reset (`StoreForwardPause`). The emergency queue needs two
  faults to be used, so only `StoreForwardDrains` exercises it.
- `BootHeal`: the crash report. `Terminal`: encryption and rate limits, which drop
  a frame and change nothing else.
