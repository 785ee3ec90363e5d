------------------------------ MODULE Terminal ------------------------------
(***************************************************************************)
(* DiagnosticsTerminal: the sessions of the WebSocket clients, the queue   *)
(* of their commands, and the pass of the main loop that runs them.        *)
(*                                                                         *)
(* The callbacks of the web server (OnConnect, OnData, OnDisconnect) run   *)
(* only when the main loop yields. It yields between two passes and while  *)
(* it sends (Utils::ws_send_encrypted), so a step of the loop goes from    *)
(* one place where it yields to the next.                                  *)
(***************************************************************************)
EXTENDS Settings, Sequences, FiniteSets

CONSTANTS
  Ids,        \* numbers of the connections, in the order they are made
  Slots,      \* the client states: 1 .. MAX_WS_CLIENTS
  QueueSize,  \* CMD_QUEUE_SIZE; one slot of the ring stays free
  MaxFails,   \* MAX_FAILED_AUTH_ATTEMPTS
  FailWrap,   \* where failedAttempts wraps: 256 in the code
  MaxCommands \* bound: commands that arrive

ASSUME TerminalAssumption ==
  /\ IsFiniteSet(Ids) /\ Ids = 1 .. Cardinality(Ids)
  /\ IsFiniteSet(Slots) /\ Slots = 1 .. Cardinality(Slots) /\ Slots # {}
  /\ QueueSize \in Nat /\ QueueSize > 1
  /\ MaxFails \in Nat \ {0}
  /\ FailWrap \in Nat /\ FailWrap > MaxFails
  /\ MaxCommands \in Nat

VARIABLES
  net,    \* AsyncWebSocket's clients
  ready,  \* m_buffersReady
  slot,   \* m_clientStates
  active, \* m_activeClientCount
  queue,  \* m_cmdQueue from m_tail to m_head
  loop,   \* where the main loop is, see Places
  ws,     \* g_wsEnabled
  seen    \* history, see TypeOK

term == <<net, ready, slot, active, queue, loop, ws, seen>>
vars == <<settings, term>>

None == 0
Commands == {"login", "wrong", "logout", "set", "help", "sendnow", "unknown"}
NeedsAuth == {"set", "sendnow"}
Places == {"idle", "init", "greet", "pop", "echo"}

Idle == [at |-> "idle", id |-> None, cmd |-> "none", slot |-> None, fresh |-> TRUE]
Free ==
  [id |-> None, auth |-> FALSE, fails |-> 0, recent |-> FALSE, init |-> FALSE, out |-> FALSE]

InUse(s) == slot[s].id # None
Open(id) == id \in Ids /\ net[id] = "open"

\* findClientState
SlotsOf(id) == {s \in Slots : InUse(s) /\ slot[s].id = id}

\* isClientLockedOutImpl
Locked(s) == slot[s].fails >= MaxFails /\ slot[s].recent

-----------------------------------------------------------------------------
(* Callbacks of the web server                                             *)

\* allocateClientState
Session(id) == [Free EXCEPT !.id = id, !.init = TRUE]

\* The connections are made one after the other.
Arrives(id) == net[id] = "new" /\ \A i \in Ids : i < id => net[i] # "new"

\* handleConnect: with no slot left the client is closed again.
OnConnect(id) ==
  LET free == {s \in Slots : ~InUse(s)}
      s == CHOOSE t \in free : \A u \in free : t <= u
  IN /\ Arrives(id)
     /\ ready' = TRUE
     /\ queue' = IF ready THEN queue ELSE << >>
     /\ ws' = TRUE
     /\ IF free = {}
        THEN net' = [net EXCEPT ![id] = "closing"] /\ UNCHANGED <<slot, active>>
        ELSE /\ net' = [net EXCEPT ![id] = "open"]
             /\ slot' = [slot EXCEPT ![s] = Session(id)]
             /\ active' = active + 1
     /\ UNCHANGED <<settings, loop, seen>>

\* handleConnect without memory for the buffers: the client is closed again.
TurnAway(id) ==
  /\ ~ready /\ Arrives(id)
  /\ net' = [net EXCEPT ![id] = "closing"]
  /\ UNCHANGED <<settings, ready, slot, active, queue, loop, ws, seen>>

\* Mutant of ReleaseBuffers: the count of the clients stays.
ReleaseBuffersOnly ==
  /\ ready' = FALSE
  /\ slot' = [s \in Slots |-> Free]
  /\ UNCHANGED active
  /\ queue' = << >>
  /\ loop' = [loop EXCEPT !.fresh = FALSE]

\* releaseBuffers: the table and the queue go, and a reference the loop has
\* into the table is stale.
ReleaseBuffers ==
  /\ ready' = FALSE
  /\ slot' = [s \in Slots |-> Free]
  /\ active' = 0
  /\ queue' = << >>
  /\ loop' = [loop EXCEPT !.fresh = FALSE]

\* freeClientState
FreeState(s) == [slot[s] EXCEPT !.id = None, !.auth = FALSE, !.fails = 0, !.init = FALSE, !.out = FALSE]

\* The last client takes the buffers with it.
OnDisconnect(id) ==
  /\ net[id] \in {"open", "closing"}
  /\ net' = [net EXCEPT ![id] = "gone"]
  /\ IF ~ready \/ SlotsOf(id) = {}
     THEN UNCHANGED <<ready, slot, active, queue, loop>>
     ELSE IF active = 1 THEN ReleaseBuffers
     ELSE /\ \E s \in SlotsOf(id) : slot' = [slot EXCEPT ![s] = FreeState(s)]
          /\ active' = active - 1
          /\ UNCHANGED <<ready, queue, loop>>
  /\ UNCHANGED <<settings, ws, seen>>

\* Mutant of Pushed: a full queue turns the newest command away.
PushedIfRoom(entry) == IF Len(queue) = QueueSize - 1 THEN queue ELSE Append(queue, entry)

\* pushCommandToQueue drops the oldest command when the ring is full.
Pushed(entry) ==
  Append(IF Len(queue) = QueueSize - 1 THEN Tail(queue) ELSE queue, entry)

\* handleDataFrame. A frame that is not whole, comes too fast or cannot be
\* decrypted is dropped: that changes nothing and is not a step here. The
\* frame of a client without a slot never passes the rate limit.
OnData(id, cmd) ==
  /\ net[id] \in {"open", "closing"}
  /\ ready
  /\ SlotsOf(id) # {}
  /\ seen.sent < MaxCommands
  /\ queue' = Pushed([id |-> id, cmd |-> cmd, n |-> seen.sent + 1])
  /\ seen' = [seen EXCEPT !.sent = @ + 1, !.last = id]
  /\ UNCHANGED <<settings, net, ready, slot, active, loop, ws>>

\* handleDataFrame: the frame of a client that was closed again brings the
\* buffers back, if there is memory for them, before it is dropped.
OnStrayData(id) ==
  /\ net[id] \in {"open", "closing"}
  /\ ~ready /\ ready' = TRUE
  /\ UNCHANGED <<settings, net, slot, active, queue, loop, ws, seen>>

\* AUTH_LOCKOUT_DURATION_MS have passed since the last failure.
Cool(s) ==
  /\ InUse(s) /\ slot[s].recent
  /\ slot' = [slot EXCEPT ![s].recent = FALSE]
  /\ UNCHANGED <<settings, net, ready, active, queue, loop, ws, seen>>

-----------------------------------------------------------------------------
(* handle, the pass of the main loop                                       *)

Goto(at) == loop' = [Idle EXCEPT !.at = at]

\* checkSessionTimeouts closes the sessions that were idle for half an hour.
Begin ==
  /\ loop.at = "idle" /\ ready
  /\ \E late \in SUBSET {id \in Ids : net[id] = "open" /\ SlotsOf(id) # {}} :
       net' = [id \in Ids |-> IF id \in late THEN "closing" ELSE net[id]]
  /\ Goto("init")
  /\ UNCHANGED <<settings, ready, slot, active, queue, ws, seen>>

\* flushPendingInitFrames looks at one slot after the other, and passes over a
\* client that cannot take a message now.
Greet(s) ==
  /\ loop.at = "init" /\ s > loop.slot
  /\ InUse(s) /\ slot[s].init
  /\ loop' = [Idle EXCEPT !.at = "greet", !.id = slot[s].id, !.slot = s]
  /\ UNCHANGED <<settings, net, ready, slot, active, queue, ws, seen>>

\* The frame is sent, or dropped, and the flag of the slot it was sent for is
\* cleared: of whoever has the slot by now. A table that was freed takes the
\* write with it.
Greeted ==
  /\ loop.at = "greet"
  /\ slot' = IF loop.fresh THEN [slot EXCEPT ![loop.slot].init = FALSE] ELSE slot
  /\ loop' = [Idle EXCEPT !.at = "init", !.slot = loop.slot]
  /\ UNCHANGED <<settings, net, ready, active, queue, ws, seen>>

\* flushPendingClientOutput sends lines without a yield, as many as the
\* clients take.
Flushed ==
  \E done \in SUBSET {s \in Slots : slot[s].out} :
    slot' = [s \in Slots |-> IF s \in done THEN [slot[s] EXCEPT !.out = FALSE] ELSE slot[s]]

FlushOutput ==
  /\ loop.at = "init"
  /\ Flushed
  /\ Goto("pop")
  /\ UNCHANGED <<settings, net, ready, active, queue, ws, seen>>

\* Mutant of Taken: the tail of the ring stays where it is.
TakenButKept == queue

\* The command is copied and the tail of the ring moves on.
Taken == Tail(queue)

\* The sender may have gone, or be about to: then the command is dropped.
Pop ==
  /\ loop.at = "pop"
  /\ IF queue = << >>
     THEN Goto("idle") /\ Flushed /\ UNCHANGED <<queue, seen>>
     ELSE LET q == Head(queue)
          IN /\ queue' = Taken
             /\ IF Open(q.id)
                THEN /\ loop' = [Idle EXCEPT !.at = "echo", !.id = q.id, !.cmd = q.cmd]
                     /\ seen' = [seen EXCEPT !.run = q.n]
                ELSE UNCHANGED <<loop, seen>>
             /\ UNCHANGED slot
  /\ UNCHANGED <<settings, net, ready, active, ws>>

Mine == SlotsOf(loop.id)

\* isAuthenticated, asked after the command was echoed
Authorized == \E s \in Mine : slot[s].auth

Put(s, new) == slot' = [slot EXCEPT ![s] = new]

\* LoginCommand: a client that failed too often is not even compared.
Login(right) ==
  /\ loop.cmd = (IF right THEN "login" ELSE "wrong")
  /\ \/ /\ \A s \in Mine : Locked(s)
        /\ UNCHANGED <<slot, seen>>
     \/ \E s \in Mine :
          /\ ~Locked(s)
          /\ Put(s, IF right
                        THEN [slot[s] EXCEPT !.auth = TRUE, !.fails = 0, !.recent = FALSE]
                        ELSE [slot[s] EXCEPT !.fails = (@ + 1) % FailWrap, !.recent = TRUE])
          /\ seen' = [seen EXCEPT !.in = IF right THEN @ \cup {loop.id} ELSE @]
  /\ UNCHANGED <<settings, net, ws>>

\* LogoutCommand
Logout ==
  /\ loop.cmd = "logout"
  /\ slot' = [s \in Slots |-> IF s \in Mine THEN [slot[s] EXCEPT !.auth = FALSE, !.fails =
                                IF slot[s].auth THEN 0 ELSE @, !.recent = @ /\ ~slot[s].auth]
                              ELSE slot[s]]
  /\ seen' = [seen EXCEPT !.in = @ \ {loop.id}]
  /\ UNCHANGED <<settings, net, ws>>

\* Mutant of Allowed: nobody asks for the login.
AllowedAlways(cmd) == TRUE

\* executeTerminalCommand
Allowed(cmd) == cmd \in NeedsAuth => Authorized

\* A command that writes the configuration, see Settings
SetCommand ==
  /\ loop.cmd = "set" /\ Allowed("set")
  /\ Set
  /\ UNCHANGED <<slot, net, ws, seen>>

\* queueClientOutput: lines wait in the slot until the client takes them.
Queued == [s \in Slots |-> IF s \in Mine THEN [slot[s] EXCEPT !.out = TRUE] ELSE slot[s]]

\* help, and status
Help ==
  /\ loop.cmd = "help"
  /\ slot' = Queued
  /\ UNCHANGED <<settings, net, ws, seen>>

\* SendNowCommand: with little memory left it closes the client and stops the
\* sender, until the upload is over.
SendNow ==
  /\ loop.cmd = "sendnow" /\ Allowed("sendnow")
  /\ \/ UNCHANGED <<net, ws>>
     \/ /\ ws' = FALSE
        /\ net' = [id \in Ids |-> IF id = loop.id /\ net[id] = "open" THEN "closing" ELSE net[id]]
  /\ UNCHANGED <<settings, slot, seen>>

\* An unknown command, or one that needs a login: an error is all there is.
Decline ==
  /\ \/ loop.cmd = "unknown"
     \/ ~Allowed(loop.cmd)
  /\ UNCHANGED <<settings, slot, net, ws, seen>>

\* dispatchCommand
Execute ==
  /\ loop.at = "echo"
  /\ \/ Login(TRUE) \/ Login(FALSE) \/ Logout
     \/ SetCommand \/ Help \/ SendNow \/ Decline
  /\ Goto("pop")
  /\ UNCHANGED <<ready, active, queue>>

\* ApiClient turns the sender on again after the upload of sendnow.
RestoreWs ==
  /\ ~ws /\ ws' = TRUE
  /\ UNCHANGED <<settings, net, ready, slot, active, queue, loop, seen>>

\* The upload cycle and the web server load and free the strings.
Others == (Load \/ Release) /\ UNCHANGED term

-----------------------------------------------------------------------------
Init ==
  /\ SettingsInit
  /\ net = [id \in Ids |-> "new"]
  /\ ready = FALSE
  /\ slot = [s \in Slots |-> Free]
  /\ active = 0
  /\ queue = << >>
  /\ loop = Idle
  /\ ws = FALSE
  /\ seen = [sent |-> 0, last |-> None, run |-> 0, in |-> {}]

Handle ==
  \/ Begin \/ FlushOutput \/ Greeted \/ Pop \/ Execute
  \/ \E s \in Slots : Greet(s)

Next ==
  \/ Handle
  \/ \E id \in Ids : OnConnect(id) \/ OnDisconnect(id) \/ \E c \in Commands : OnData(id, c)
  \/ \E id \in Ids : TurnAway(id) \/ OnStrayData(id)
  \/ \E s \in Slots : Cool(s)
  \/ RestoreWs
  \/ Others

Spec == Init /\ [][Next]_vars

\* The main loop never stops calling handle.
FairSpec == Spec /\ WF_vars(Handle)

-----------------------------------------------------------------------------
Count == 0 .. MaxCommands
Entry == [id : Ids, cmd : Commands, n : Count]

TypeOK ==
  /\ SettingsTypeOK
  /\ net \in [Ids -> {"new", "open", "closing", "gone"}]
  /\ ready \in BOOLEAN /\ ws \in BOOLEAN
  /\ slot \in [Slots -> [id : Ids \cup {None}, auth : BOOLEAN, fails : 0 .. FailWrap - 1,
                         recent : BOOLEAN, init : BOOLEAN, out : BOOLEAN]]
  /\ active \in 0 .. Cardinality(Slots)
  /\ queue \in Seq(Entry) /\ Len(queue) < QueueSize
  /\ loop \in [at : Places, id : Ids \cup {None}, cmd : Commands \cup {"none"}, slot : Slots \cup {None}, fresh : BOOLEAN]
  /\ seen \in [sent : Count,            \* commands that arrived
               last : Ids \cup {None},  \* who sent the last one
               run : Count,             \* the last command that was taken to be run
               in : SUBSET Ids]         \* who logged in and did not log out

\* The table of sessions follows the list of clients through every order of
\* connects, closes and disconnects: a session belongs to one client that is
\* still there, the count is the number of sessions, and without buffers
\* there is neither a session nor a command.
SessionsMatchClients ==
  /\ active = Cardinality({s \in Slots : InUse(s)})
  /\ \A s, t \in Slots : InUse(s) /\ slot[s].id = slot[t].id => s = t
  /\ \A s \in Slots : InUse(s) => net[slot[s].id] \in {"open", "closing"}
  /\ \A id \in Ids : net[id] = "open" => SlotsOf(id) # {}
  /\ ~ready => active = 0 /\ queue = << >>

\* Every state is well typed, and the sessions are those of the clients.
Coherent == TypeOK /\ SessionsMatchClients

\* The configuration is written and the sender stopped only for a connection
\* that itself has logged in and not logged out again, whoever had its slot
\* before and whatever happened while the command was echoed.
OnlyLoggedInAreObeyed == [][disk' # disk \/ (ws /\ ~ws') => loop.id \in seen.in]_vars

\* A command is run once at most, and never after one that came later, though
\* the queue drops its oldest when it is full.
CommandsInOrder == [][loop.at # "echo" /\ loop'.at = "echo" => seen'.run > seen.run]_vars

\* The newest command is run, unless its sender goes or another one follows:
\* a full queue loses older commands, never the newest.
NewestRuns ==
  \A k \in 1 .. MaxCommands :
    seen.sent = k ~> seen.sent > k \/ seen.run = k \/ ~Open(seen.last)
=============================================================================
