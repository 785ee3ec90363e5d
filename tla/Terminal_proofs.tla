--------------------------- MODULE Terminal_proofs ---------------------------
(***************************************************************************)
(* Proofs about Terminal and Settings, for every number of connections,    *)
(* slots and commands: the strings in force are those last confirmed, only *)
(* a connection that logged in is obeyed, commands run in order, and the   *)
(* sessions are those of the clients.                                      *)
(***************************************************************************)
EXTENDS Terminal, FiniteSetTheorems, WellFoundedInduction, TLAPS

-----------------------------------------------------------------------------
(* Settings                                                                *)

\* The strings in RAM are those of the file, as the check at loading passes them.
LoadedFromDisk == strs # Unloaded => strs = [f \in Strings |-> Clean(f, disk.str[f])]

\* The file has what was confirmed, but for what the check will replace.
DiskAsTold == \A f \in Strings : Clean(f, disk.str[f]) = Clean(f, told.str[f])

SInv == SettingsTypeOK /\ LoadedFromDisk /\ DiskAsTold

\* What the check has passed, it passes again.
LEMMA CleanTwice ==
  ASSUME NEW f, NEW v \in StringValues
  PROVE  Clean(f, v) \in StringValues /\ Clean(f, Clean(f, v)) = Clean(f, v)
BY DEF Clean, StringValues

\* The getters hand out the strings of the file, loaded before or now.
LEMMA InForceIsDisk ==
  ASSUME SInv
  PROVE  /\ InForce = [f \in Strings |-> Clean(f, disk.str[f])]
         /\ InForce \in [Strings -> StringValues]
         /\ StringsInForce
<1>1. \A f \in Strings : disk.str[f] \in StringValues
  BY DEF SInv, SettingsTypeOK
<1>2. InForce = [f \in Strings |-> Clean(f, disk.str[f])]
  BY DEF SInv, LoadedFromDisk, InForce
<1>3. InForce \in [Strings -> StringValues]
  BY <1>1, <1>2, CleanTwice
<1>4. StringsInForce
  BY <1>2 DEF SInv, DiskAsTold, StringsInForce
<1> QED BY <1>2, <1>3, <1>4

\* A command gives a field one of the values a field can have.
LEMMA StringChangeTyped ==
  ASSUME NEW c \in Urls \cup Tokens \cup Gateways \cup PortalPass
  PROVE  \A f \in DOMAIN c : c[f] \in StringValues
<1>1. CASE c \in Urls
  <2>1. PICK s \in SUBSET {"upload", "ota"}, v \in StringValues : c = [f \in s |-> v]
    BY <1>1 DEF Urls, Change
  <2> QED BY <2>1
<1>2. CASE c \in Tokens
  <2>1. PICK s \in SUBSET {"token", "otaToken"}, v \in {"factory", "empty", "set"} :
          c = [f \in s |-> IF f = "otaToken" /\ v = "factory" THEN "empty" ELSE v]
    BY <1>2 DEF Tokens
  <2> QED BY <2>1 DEF StringValues
<1>3. CASE c \in Gateways
  <2>1. PICK f \in {"host", "ip"}, v \in {"factory", "empty", "set"} : c = [g \in {f} |-> v]
    BY <1>3 DEF Gateways, Change
  <2> QED BY <2>1 DEF StringValues
<1>4. CASE c \in PortalPass
  <2>1. c = [g \in {"portal"} |-> "set"]
    BY <1>4 DEF PortalPass, Change
  <2> QED BY <2>1 DEF StringValues
<1> QED BY <1>1, <1>2, <1>3, <1>4

LEMMA HeaderChangeTyped ==
  ASSUME NEW c \in Timings \cup Calibrations \cup Uplinks
  PROVE  \A h \in DOMAIN c : c[h] \in HeaderValues
<1>1. PICK h \in KnownHeaders, v \in {"factory", "set", "short"} : c = [g \in {h} |-> v]
  <2>1. CASE c \in Timings
    BY <2>1 DEF Timings, Change, KnownHeaders
  <2>2. CASE c \in Calibrations
    BY <2>2 DEF Calibrations, Change, KnownHeaders
  <2>3. CASE c \in Uplinks
    BY <2>3 DEF Uplinks, Change, KnownHeaders
  <2> QED BY <2>1, <2>2, <2>3
<1> QED BY <1>1 DEF HeaderValues

LEMMA ClampTyped ==
  ASSUME NEW h, NEW v \in HeaderValues
  PROVE  Clamp(h, v) \in HeaderValues
BY DEF Clamp, HeaderValues

\* Refused, one save more has failed.
LEMMA RefusedTyped ==
  ASSUME SettingsTypeOK, Refused
  PROVE  refusals' \in 0 .. MaxRefusals
BY SettingsAssumption DEF SettingsTypeOK, Refused

\* A command that sets strings: saved, they are those told; refused, they are
\* read from the file again.
LEMMA ChangeStringsKeeps ==
  ASSUME SInv, NEW c \in Urls \cup Tokens \cup Gateways \cup PortalPass, ChangeStrings(c)
  PROVE  SInv'
<1>1. \A f \in DOMAIN c : c[f] \in StringValues
  BY StringChangeTyped
<1>2. /\ strs' = Unloaded /\ hdr' = hdr
  BY DEF ChangeStrings
<1>3. CASE Refused /\ UNCHANGED <<disk, told>>
  <2>1. SettingsTypeOK'
    BY <1>2, <1>3, RefusedTyped DEF SInv, SettingsTypeOK
  <2>2. LoadedFromDisk' /\ DiskAsTold'
    BY <1>2, <1>3 DEF SInv, LoadedFromDisk, DiskAsTold
  <2> QED BY <2>1, <2>2 DEF SInv
<1>4. CASE /\ disk' = [hdr |-> hdr, str |-> With(c)]
           /\ told' = [told EXCEPT !.str = [f \in Strings |-> IF f \in DOMAIN c THEN c[f] ELSE @[f]]]
           /\ UNCHANGED refusals
  <2> DEFINE said == [f \in Strings |-> IF f \in DOMAIN c THEN c[f] ELSE told.str[f]]
  <2>1. With(c) \in [Strings -> StringValues]
    BY <1>1, InForceIsDisk DEF With
  <2>2. said \in [Strings -> StringValues]
    BY <1>1 DEF SInv, SettingsTypeOK
  <2>3. told' = [told EXCEPT !.str = said]
    BY <1>4
  <2>4. told'.str = said /\ disk'.str = With(c)
    BY <1>4, <2>3 DEF SInv, SettingsTypeOK
  <2>5. SettingsTypeOK'
    <3> HIDE DEF said
    <3> QED BY <1>2, <1>4, <2>1, <2>2, <2>3 DEF SInv, SettingsTypeOK
  <2>6. LoadedFromDisk'
    BY <1>2 DEF LoadedFromDisk
  <2>7. ASSUME NEW f \in Strings
        PROVE  Clean(f, disk'.str[f]) = Clean(f, told'.str[f])
    <3>1. CASE f \in DOMAIN c
      BY <2>4, <3>1 DEF With
    <3>2. CASE f \notin DOMAIN c
      <4>1. told'.str[f] = told.str[f]
        BY <2>4, <3>2
      <4>2. disk'.str[f] = Clean(f, disk.str[f])
        BY <2>4, <3>2, InForceIsDisk DEF With
      <4>3. disk.str[f] \in StringValues
        BY DEF SInv, SettingsTypeOK
      <4> QED BY <4>1, <4>2, <4>3, CleanTwice DEF SInv, DiskAsTold
    <3> QED BY <3>1, <3>2
  <2>8. DiskAsTold'
    BY <2>7 DEF DiskAsTold, Clean
  <2> QED BY <2>5, <2>6, <2>8 DEF SInv
<1> QED BY <1>3, <1>4 DEF ChangeStrings

\* A command that sets values in the header: the strings go to the file again
\* as they are in force.
LEMMA ChangeHeaderKeeps ==
  ASSUME SInv, NEW c \in Timings \cup Calibrations \cup Uplinks, ChangeHeader(c)
  PROVE  SInv'
<1> DEFINE new == [h \in Headers |-> IF h \in DOMAIN c THEN Clamp(h, c[h]) ELSE hdr[h]]
           said == [h \in Headers |-> IF h \in DOMAIN c THEN c[h] ELSE told.hdr[h]]
<1>1. /\ hdr' = new
      /\ strs' = InForce \/ strs' = Unloaded
      /\ \/ /\ disk' = [hdr |-> new, str |-> InForce]
            /\ told' = [told EXCEPT !.hdr = said]
            /\ UNCHANGED refusals
         \/ Refused /\ UNCHANGED <<disk, told>>
  BY DEF ChangeHeader
<1>2. new \in [Headers -> HeaderValues] /\ said \in [Headers -> HeaderValues]
  BY HeaderChangeTyped, ClampTyped DEF SInv, SettingsTypeOK
<1> HIDE DEF new, said
<1>3. strs' \in {Unloaded} \cup [Strings -> StringValues]
  BY <1>1, InForceIsDisk
<1>4. CASE /\ disk' = [hdr |-> new, str |-> InForce]
           /\ told' = [told EXCEPT !.hdr = said]
           /\ UNCHANGED refusals
  <2>1. disk'.str = InForce /\ told'.str = told.str
    BY <1>4 DEF SInv, SettingsTypeOK
  <2>2. SettingsTypeOK'
    BY <1>1, <1>2, <1>3, <1>4, InForceIsDisk DEF SInv, SettingsTypeOK
  <2>3. \A f \in Strings : InForce[f] = Clean(f, disk.str[f]) /\ disk.str[f] \in StringValues
    BY InForceIsDisk DEF SInv, SettingsTypeOK
  <2>4. \A f \in Strings : Clean(f, InForce[f]) = Clean(f, disk.str[f])
    BY <2>3, CleanTwice
  <2>5. \A f \in Strings : Clean(f, InForce[f]) = InForce[f]
    BY <2>3, CleanTwice
  <2>6. LoadedFromDisk'
    <3>1. [f \in Strings |-> Clean(f, disk'.str[f])] = InForce
      BY <2>1, <2>5, InForceIsDisk
    <3>2. [f \in Strings |-> Clean(f, disk.str[f])]' = [f \in Strings |-> Clean(f, disk'.str[f])]
      BY DEF Clean
    <3> QED BY <1>1, <3>1, <3>2 DEF LoadedFromDisk
  <2>7. \A f \in Strings : Clean(f, disk'.str[f]) = Clean(f, told'.str[f])
    BY <2>1, <2>4 DEF SInv, DiskAsTold
  <2>8. DiskAsTold'
    BY <2>7 DEF DiskAsTold, Clean
  <2> QED BY <2>2, <2>6, <2>8 DEF SInv
<1>5. CASE Refused /\ UNCHANGED <<disk, told>>
  <2>1. SettingsTypeOK'
    BY <1>1, <1>2, <1>3, <1>5, RefusedTyped DEF SInv, SettingsTypeOK
  <2>2. LoadedFromDisk'
    BY <1>1, <1>5, InForceIsDisk DEF LoadedFromDisk
  <2>3. DiskAsTold'
    BY <1>5 DEF SInv, DiskAsTold
  <2> QED BY <2>1, <2>2, <2>3 DEF SInv
<1> QED BY <1>1, <1>4, <1>5

\* Whatever is done to the settings keeps them coherent.
LEMMA SettingsKept ==
  ASSUME SInv, Set \/ Load \/ Release \/ UNCHANGED settings
  PROVE  SInv'
<1>1. CASE Set
  <2>1. CASE \E c \in Urls \cup Tokens \cup Gateways \cup PortalPass : ChangeStrings(c)
    BY <2>1, ChangeStringsKeeps
  <2>2. CASE \E c \in Timings \cup Calibrations \cup Uplinks : ChangeHeader(c)
    BY <2>2, ChangeHeaderKeeps
  <2> QED BY <1>1, <2>1, <2>2 DEF Set
<1>2. CASE Load
  <2>1. strs' = InForce /\ UNCHANGED <<hdr, disk, told, refusals>>
    BY <1>2 DEF Load
  <2> QED BY <2>1, InForceIsDisk DEF SInv, SettingsTypeOK, LoadedFromDisk, DiskAsTold
<1>3. CASE Release
  BY <1>3 DEF Release, SInv, SettingsTypeOK, LoadedFromDisk, DiskAsTold
<1>4. CASE UNCHANGED settings
  BY <1>4 DEF settings, SInv, SettingsTypeOK, LoadedFromDisk, DiskAsTold
<1> QED BY <1>1, <1>2, <1>3, <1>4

LEMMA SettingsStart ==
  ASSUME SettingsInit
  PROVE  SInv
<1>1. Factory.hdr \in [Headers -> HeaderValues] /\ Factory.str \in [Strings -> StringValues]
  BY DEF Factory, HeaderValues, StringValues
<1>2. Factory \in [hdr : [Headers -> HeaderValues], str : [Strings -> StringValues]]
  BY <1>1 DEF Factory
<1>3. refusals \in 0 .. MaxRefusals
  BY SettingsAssumption DEF SettingsInit
<1> QED BY <1>1, <1>2, <1>3 DEF SettingsInit, SInv, SettingsTypeOK, LoadedFromDisk, DiskAsTold

\* The strings the node works with are those of the last command that said they
\* were saved, whatever was refused, saved, freed and loaded again in between.
THEOREM SettingsHold == SettingsSpec => []StringsInForce
<1>1. SettingsInit => SInv
  BY SettingsStart
<1>2. ASSUME SInv, [SettingsNext]_settings PROVE SInv'
  <2>1. CASE Reload
    <3>1. \A h \in Headers : disk.hdr[h] \in HeaderValues
      BY <1>2 DEF SInv, SettingsTypeOK
    <3>2. hdr' \in [Headers -> HeaderValues]
      BY <2>1, <3>1, ClampTyped DEF Reload
    <3> QED BY <1>2, <2>1, <3>2 DEF Reload, SInv, SettingsTypeOK, LoadedFromDisk, DiskAsTold
  <2> QED BY <1>2, <2>1, SettingsKept DEF SettingsNext
<1>3. SInv => StringsInForce
  BY InForceIsDisk
<1> QED BY <1>1, <1>2, <1>3, PTL DEF SettingsSpec

-----------------------------------------------------------------------------
(* Terminal                                                                *)

SlotState ==
  [id : Ids \cup {None}, auth : BOOLEAN, fails : 0 .. FailWrap - 1,
   recent : BOOLEAN, init : BOOLEAN, out : BOOLEAN]

LoopState ==
  [at : Places, id : Ids \cup {None}, cmd : Commands \cup {"none"},
   slot : Slots \cup {None}, fresh : BOOLEAN]

SeenState == [sent : Count, last : Ids \cup {None}, run : Count, in : SUBSET Ids]

Typed ==
  /\ slot \in [Slots -> SlotState]
  /\ queue \in Seq(Entry)
  /\ loop \in LoopState
  /\ seen \in SeenState

\* A session that is logged in is its client's doing.
LoggedIn == \A s \in Slots : slot[s].id # None /\ slot[s].auth => slot[s].id \in seen.in

\* The queue q has commands that came after the command run, up to the
\* command sent, in that order.
Ordered(q, run, sent) ==
  /\ run <= sent
  /\ \A i \in 1 .. Len(q) : run < q[i].n /\ q[i].n <= sent
  /\ \A i, j \in 1 .. Len(q) : i < j => q[i].n < q[j].n

InOrder == Ordered(queue, seen.run, seen.sent)

TInv == SInv /\ Typed /\ LoggedIn /\ InOrder

\* Nobody gets logged in by the new table of sessions.
Tamer(new) ==
  \A s \in Slots : \/ new[s].id = None
                   \/ ~new[s].auth
                   \/ (new[s].id = slot[s].id /\ new[s].auth = slot[s].auth)

LEMMA TamerKeeps ==
  ASSUME LoggedIn, Tamer(slot'), seen.in \subseteq seen'.in
  PROVE  LoggedIn'
BY DEF LoggedIn, Tamer

LEMMA FreeTyped == Free \in SlotState /\ Idle \in LoopState
BY TerminalAssumption DEF Free, Idle, SlotState, LoopState, Places

LEMMA FreedTyped ==
  ASSUME NEW r \in SlotState
  PROVE  LET new == [r EXCEPT !.id = None, !.auth = FALSE, !.fails = 0, !.init = FALSE, !.out = FALSE]
         IN new \in SlotState /\ new.id = None
<1>1. 0 \in 0 .. FailWrap - 1
  BY TerminalAssumption
<1> QED BY <1>1 DEF SlotState

-----------------------------------------------------------------------------
(* The queue                                                               *)

LEMMA TailOrdered ==
  ASSUME NEW q \in Seq(Entry), q # << >>, NEW run \in Count, NEW sent \in Count,
         Ordered(q, run, sent)
  PROVE  /\ Tail(q) \in Seq(Entry) /\ Head(q) \in Entry
         /\ Head(q).n > run
         /\ Ordered(Tail(q), run, sent) /\ Ordered(Tail(q), Head(q).n, sent)
<1>1. Len(q) \in Nat /\ Len(q) >= 1
  OBVIOUS
<1>2. Head(q) = q[1] /\ Head(q) \in Entry /\ Tail(q) \in Seq(Entry)
  OBVIOUS
<1>3. /\ Len(Tail(q)) = Len(q) - 1
      /\ \A i \in 1 .. Len(q) - 1 : Tail(q)[i] = q[i + 1]
  OBVIOUS
<1>4. run < q[1].n /\ q[1].n <= sent
  BY <1>1 DEF Ordered
<1>5. \A i \in 1 .. Len(Tail(q)) :
        /\ i + 1 \in 1 .. Len(q) /\ Tail(q)[i] = q[i + 1] /\ 1 < i + 1
  BY <1>1, <1>3
<1>6. \A i \in 1 .. Len(Tail(q)) :
        /\ q[1].n < Tail(q)[i].n /\ run < Tail(q)[i].n /\ Tail(q)[i].n <= sent
  BY <1>1, <1>5 DEF Ordered
<1>7. \A i, j \in 1 .. Len(Tail(q)) : i < j => Tail(q)[i].n < Tail(q)[j].n
  BY <1>1, <1>5 DEF Ordered
<1>8. run <= sent
  BY DEF Ordered
<1> QED BY <1>2, <1>4, <1>6, <1>7, <1>8 DEF Ordered

LEMMA AppendOrdered ==
  ASSUME NEW q \in Seq(Entry), NEW run \in Count, NEW sent \in Count,
         NEW e \in Entry, e.n = sent + 1, Ordered(q, run, sent)
  PROVE  Append(q, e) \in Seq(Entry) /\ Ordered(Append(q, e), run, sent + 1)
<1>1. Len(q) \in Nat /\ run \in Nat /\ sent \in Nat
  BY TerminalAssumption DEF Count
<1>2. /\ Append(q, e) \in Seq(Entry) /\ Len(Append(q, e)) = Len(q) + 1
      /\ Append(q, e)[Len(q) + 1] = e
      /\ \A i \in 1 .. Len(q) : Append(q, e)[i] = q[i]
  OBVIOUS
<1>3. \A i \in 1 .. Len(q) : q[i].n \in Nat
  <2>1. \A i \in 1 .. Len(q) : q[i] \in Entry
    OBVIOUS
  <2>2. \A f \in Entry : f.n \in Nat
    BY TerminalAssumption DEF Entry, Count
  <2> QED BY <2>1, <2>2
<1>4. run <= sent + 1
  BY <1>1 DEF Ordered
<1>5. \A i \in 1 .. Len(q) + 1 : run < Append(q, e)[i].n /\ Append(q, e)[i].n <= sent + 1
  <2>1. \A i \in 1 .. Len(q) : run < q[i].n /\ q[i].n <= sent + 1
    BY <1>1, <1>3 DEF Ordered
  <2>2. run < e.n /\ e.n <= sent + 1
    BY <1>1 DEF Ordered
  <2>3. \A i \in 1 .. Len(q) + 1 : i \in 1 .. Len(q) \/ i = Len(q) + 1
    BY <1>1
  <2> QED BY <1>2, <2>1, <2>2, <2>3
<1>6. ASSUME NEW i \in 1 .. Len(q) + 1, NEW j \in 1 .. Len(q) + 1, i < j
      PROVE  Append(q, e)[i].n < Append(q, e)[j].n
  <2>1. i \in 1 .. Len(q)
    BY <1>1, <1>6
  <2>2. CASE j \in 1 .. Len(q)
    BY <1>2, <1>6, <2>1, <2>2 DEF Ordered
  <2>3. CASE j = Len(q) + 1
    <3>1. q[i].n <= sent /\ q[i].n \in Nat
      BY <1>3, <2>1 DEF Ordered
    <3> QED BY <1>1, <1>2, <2>1, <2>3, <3>1
  <2> QED BY <1>1, <2>2, <2>3
<1> QED BY <1>2, <1>4, <1>5, <1>6 DEF Ordered

LEMMA EmptyOrdered ==
  ASSUME NEW run \in Count, NEW sent \in Count, run <= sent
  PROVE  << >> \in Seq(Entry) /\ Ordered(<< >>, run, sent)
BY DEF Ordered

-----------------------------------------------------------------------------
(* The callbacks and the passes                                            *)

LEMMA InOrderPrime ==
  ASSUME Ordered(queue', seen'.run, seen'.sent)
  PROVE  InOrder'
BY DEF InOrder, Ordered

\* One slot gets a state that logs nobody in.
LEMMA OneSlot ==
  ASSUME Typed, NEW s, NEW new \in SlotState,
         s \in Slots => (new.id = None \/ ~new.auth
                         \/ (new.id = slot[s].id /\ new.auth = slot[s].auth)),
         slot' = [slot EXCEPT ![s] = new]
  PROVE  slot' \in [Slots -> SlotState] /\ Tamer(slot')
<1>1. slot \in [Slots -> SlotState]
  BY DEF Typed
<1>2. \A t \in Slots : slot'[t] = IF t = s THEN new ELSE slot[t]
  BY <1>1
<1>3. slot' \in [Slots -> SlotState]
  BY <1>1
<1>4. ASSUME NEW t \in Slots
      PROVE  \/ slot'[t].id = None
             \/ ~slot'[t].auth
             \/ (slot'[t].id = slot[t].id /\ slot'[t].auth = slot[t].auth)
  <2>1. CASE t = s
    BY <1>2, <2>1
  <2>2. CASE t # s
    BY <1>2, <2>2
  <2> QED BY <2>1, <2>2
<1> QED BY <1>3, <1>4 DEF Tamer

LEMMA Unchanged ==
  ASSUME Typed, slot' = slot
  PROVE  slot' \in [Slots -> SlotState] /\ Tamer(slot')
BY DEF Typed, Tamer

\* The fields of a slot.
LEMMA SlotFields ==
  ASSUME Typed, NEW s \in Slots
  PROVE  /\ slot[s] \in SlotState /\ slot[s].id \in Ids \cup {None}
         /\ slot[s].auth \in BOOLEAN /\ slot[s].fails \in 0 .. FailWrap - 1
         /\ slot[s].recent \in BOOLEAN /\ slot[s].init \in BOOLEAN /\ slot[s].out \in BOOLEAN
BY DEF Typed, SlotState

LEMMA ReleaseBuffersKeeps ==
  ASSUME Typed, ReleaseBuffers
  PROVE  slot' \in [Slots -> SlotState] /\ Tamer(slot') /\ queue' = << >> /\ loop' \in LoopState
<1>1. slot' = [s \in Slots |-> Free]
  BY DEF ReleaseBuffers
<1>2. slot' \in [Slots -> SlotState]
  BY <1>1, FreeTyped
<1>3. Tamer(slot')
  <2>1. \A s \in Slots : slot'[s] = Free
    BY <1>1
  <2>2. Free.id = None
    BY DEF Free
  <2> QED BY <2>1, <2>2 DEF Tamer
<1>4. queue' = << >> /\ loop' \in LoopState
  BY DEF ReleaseBuffers, Typed, LoopState
<1> QED BY <1>2, <1>3, <1>4

\* A step of the web server, or of a timer, that does not touch the settings.
LEMMA Assemble ==
  ASSUME TInv, UNCHANGED settings,
         slot' \in [Slots -> SlotState], Tamer(slot'), seen.in \subseteq seen'.in,
         queue' \in Seq(Entry), loop' \in LoopState, seen' \in SeenState,
         Ordered(queue', seen'.run, seen'.sent)
  PROVE  TInv'
<1>1. SInv'
  BY SettingsKept DEF TInv
<1>2. LoggedIn'
  BY TamerKeeps DEF TInv
<1> QED BY <1>1, <1>2, InOrderPrime DEF TInv, Typed

LEMMA OnConnectKeeps ==
  ASSUME TInv, NEW id \in Ids, OnConnect(id)
  PROVE  TInv'
<1> DEFINE free == {s \in Slots : ~InUse(s)}
           s == CHOOSE t \in free : \A u \in free : t <= u
<1>1. UNCHANGED <<settings, loop, seen>> /\ queue' = IF ready THEN queue ELSE << >>
  BY DEF OnConnect
<1>2. slot' = slot \/ slot' = [slot EXCEPT ![s] = Session(id)]
  BY DEF OnConnect
<1> HIDE DEF s
<1>3. Session(id) \in SlotState /\ ~Session(id).auth
  BY FreeTyped DEF Session, SlotState, Free
<1>4. slot' \in [Slots -> SlotState] /\ Tamer(slot')
  BY <1>2, <1>3, OneSlot, Unchanged DEF TInv
<1>5. seen.run \in Count /\ seen.sent \in Count /\ seen.run <= seen.sent
  BY DEF TInv, Typed, SeenState, InOrder, Ordered
<1>6. queue' \in Seq(Entry) /\ Ordered(queue', seen'.run, seen'.sent)
  BY <1>1, <1>5, EmptyOrdered DEF TInv, Typed, InOrder
<1> QED BY <1>1, <1>4, <1>6, Assemble DEF TInv, Typed

LEMMA OnDisconnectKeeps ==
  ASSUME TInv, NEW id \in Ids, OnDisconnect(id)
  PROVE  TInv'
<1>1. UNCHANGED <<settings, seen>>
  BY DEF OnDisconnect
<1>2. seen.run \in Count /\ seen.sent \in Count /\ seen.run <= seen.sent
  BY DEF TInv, Typed, SeenState, InOrder, Ordered
<1>3. CASE UNCHANGED <<ready, slot, active, queue, loop>>
  BY <1>1, <1>3, Unchanged, Assemble DEF TInv, Typed, InOrder
<1>4. CASE ReleaseBuffers
  <2>1. queue' \in Seq(Entry) /\ Ordered(queue', seen'.run, seen'.sent)
    BY <1>1, <1>2, <1>4, ReleaseBuffersKeeps, EmptyOrdered DEF TInv
  <2> QED BY <1>1, <1>4, <2>1, ReleaseBuffersKeeps, Assemble DEF TInv, Typed
<1>5. CASE /\ \E s \in SlotsOf(id) : slot' = [slot EXCEPT ![s] = FreeState(s)]
           /\ active' = active - 1
           /\ UNCHANGED <<ready, queue, loop>>
  <2>1. PICK s \in SlotsOf(id) : slot' = [slot EXCEPT ![s] = FreeState(s)]
    BY <1>5
  <2>2. s \in Slots
    BY DEF SlotsOf
  <2>3. FreeState(s) \in SlotState /\ FreeState(s).id = None
    BY <2>2, SlotFields, FreedTyped DEF TInv, FreeState
  <2>4. slot' \in [Slots -> SlotState] /\ Tamer(slot')
    BY <2>1, <2>3, OneSlot DEF TInv
  <2> QED BY <1>1, <1>5, <2>4, Assemble DEF TInv, Typed, InOrder
<1> QED BY <1>3, <1>4, <1>5 DEF OnDisconnect

LEMMA OnDataKeeps ==
  ASSUME TInv, NEW id \in Ids, NEW cmd \in Commands, OnData(id, cmd)
  PROVE  TInv'
<1> DEFINE e == [id |-> id, cmd |-> cmd, n |-> seen.sent + 1]
<1>1. seen.run \in Count /\ seen.sent \in Count /\ seen.sent < MaxCommands
  BY DEF TInv, Typed, SeenState, OnData
<1>2. seen.sent + 1 \in Count
  BY <1>1, TerminalAssumption DEF Count
<1>3. e \in Entry
  BY <1>2 DEF Entry
<1>4. PICK q \in {queue, Tail(queue)} : /\ q = queue \/ Len(queue) = QueueSize - 1
                                        /\ queue' = Append(q, e)
  BY DEF OnData, Pushed
<1>5. q \in Seq(Entry) /\ Ordered(q, seen.run, seen.sent)
  <2>1. CASE q = queue
    BY <2>1 DEF TInv, Typed, InOrder
  <2>2. CASE q # queue
    <3>1. q = Tail(queue) /\ Len(queue) >= 1
      BY <1>4, <2>2, TerminalAssumption
    <3>2. queue # << >> /\ queue \in Seq(Entry)
      BY <3>1 DEF TInv, Typed
    <3> QED BY <1>1, <3>1, <3>2, TailOrdered DEF TInv, InOrder
  <2> QED BY <2>1, <2>2
<1>6. seen' = [seen EXCEPT !.sent = @ + 1, !.last = id]
  BY DEF OnData
<1>7. /\ seen' \in SeenState /\ seen'.sent = seen.sent + 1
      /\ seen'.run = seen.run /\ seen'.in = seen.in
  BY <1>2, <1>6 DEF TInv, Typed, SeenState
<1>8. e.n = seen.sent + 1
  OBVIOUS
<1> HIDE DEF e
<1>9. queue' \in Seq(Entry) /\ Ordered(queue', seen'.run, seen'.sent)
  BY <1>1, <1>3, <1>4, <1>5, <1>7, <1>8, AppendOrdered
<1>10. slot' = slot /\ UNCHANGED settings /\ loop' = loop
  BY DEF OnData
<1> QED BY <1>7, <1>9, <1>10, Unchanged, Assemble DEF TInv, Typed

LEMMA CoolKeeps ==
  ASSUME TInv, NEW s \in Slots, Cool(s)
  PROVE  TInv'
<1>1. slot' = [slot EXCEPT ![s] = [slot[s] EXCEPT !.recent = FALSE]]
  BY DEF Cool, TInv, Typed
<1>2. /\ [slot[s] EXCEPT !.recent = FALSE] \in SlotState
      /\ [slot[s] EXCEPT !.recent = FALSE].id = slot[s].id
      /\ [slot[s] EXCEPT !.recent = FALSE].auth = slot[s].auth
  BY SlotFields DEF TInv, SlotState
<1>3. slot' \in [Slots -> SlotState] /\ Tamer(slot')
  BY <1>1, <1>2, OneSlot DEF TInv
<1>4. UNCHANGED <<settings, queue, loop, seen>>
  BY DEF Cool
<1> QED BY <1>3, <1>4, Assemble DEF TInv, Typed, InOrder

\* The greeting is sent, or dropped, for the slot it was meant for.
LEMMA GreetedKeeps ==
  ASSUME TInv, Greeted
  PROVE  TInv'
<1>1. /\ UNCHANGED <<settings, queue, seen>>
      /\ loop' = [Idle EXCEPT !.at = "init", !.slot = loop.slot]
      /\ slot' = IF loop.fresh THEN [slot EXCEPT ![loop.slot].init = FALSE] ELSE slot
  BY DEF Greeted
<1>2. loop' \in LoopState
  BY <1>1, FreeTyped DEF TInv, Typed, LoopState, Places
<1>3. slot' \in [Slots -> SlotState] /\ Tamer(slot')
  <2>1. CASE loop.fresh /\ loop.slot \in Slots
    <3> DEFINE new == [slot[loop.slot] EXCEPT !.init = FALSE]
    <3>1. slot' = [slot EXCEPT ![loop.slot] = new]
      BY <1>1, <2>1 DEF TInv, Typed
    <3>2. new \in SlotState /\ new.id = slot[loop.slot].id /\ new.auth = slot[loop.slot].auth
      BY <2>1, SlotFields DEF TInv, SlotState
    <3> HIDE DEF new
    <3> QED BY <3>1, <3>2, OneSlot DEF TInv
  <2>2. CASE ~(loop.fresh /\ loop.slot \in Slots)
    <3>1. slot' = slot
      BY <1>1, <2>2 DEF TInv, Typed
    <3> QED BY <3>1, Unchanged DEF TInv
  <2> QED BY <2>1, <2>2
<1> QED BY <1>1, <1>2, <1>3, Assemble DEF TInv, Typed, InOrder

LEMMA FlushedKeeps ==
  ASSUME Typed, Flushed
  PROVE  slot' \in [Slots -> SlotState] /\ Tamer(slot')
<1>1. PICK done \in SUBSET {s \in Slots : slot[s].out} :
        slot' = [s \in Slots |-> IF s \in done THEN [slot[s] EXCEPT !.out = FALSE] ELSE slot[s]]
  BY DEF Flushed
<1>2. ASSUME NEW s \in Slots
      PROVE  slot'[s] \in SlotState /\ slot'[s].id = slot[s].id /\ slot'[s].auth = slot[s].auth
  <2>1. CASE s \in done
    <3>1. slot'[s] = [slot[s] EXCEPT !.out = FALSE]
      BY <1>1, <2>1
    <3> QED BY <3>1, SlotFields DEF SlotState
  <2>2. CASE s \notin done
    BY <1>1, <2>2, SlotFields
  <2> QED BY <2>1, <2>2
<1>3. slot' \in [Slots -> SlotState]
  <2>1. slot' = [s \in Slots |-> slot'[s]]
    BY <1>1
  <2> QED BY <1>2, <2>1
<1> QED BY <1>2, <1>3 DEF Tamer

\* The pass begins, greets, or sends what waits: only places change.
LEMMA PassKeeps ==
  ASSUME TInv, Begin \/ FlushOutput \/ \E s \in Slots : Greet(s)
  PROVE  TInv'
<1>1. UNCHANGED <<settings, queue, seen>>
  BY DEF Begin, FlushOutput, Greet
<1>2. loop' \in LoopState
  <2>1. CASE Begin \/ FlushOutput
    BY <2>1, FreeTyped DEF Begin, FlushOutput, Goto, LoopState, Places
  <2>2. CASE \E s \in Slots : Greet(s)
    <3>1. PICK s \in Slots : loop' = [Idle EXCEPT !.at = "greet", !.id = slot[s].id, !.slot = s]
      BY <2>2 DEF Greet
    <3>2. slot[s].id \in Ids \cup {None}
      BY SlotFields DEF TInv
    <3> QED BY <3>1, <3>2, FreeTyped DEF LoopState, Places
  <2> QED BY <2>1, <2>2
<1>3. slot' \in [Slots -> SlotState] /\ Tamer(slot')
  <2>1. CASE FlushOutput
    BY <2>1, FlushedKeeps DEF TInv, FlushOutput
  <2>2. CASE slot' = slot
    BY <2>2, Unchanged DEF TInv
  <2> QED BY <2>1, <2>2 DEF Begin, Greet
<1> QED BY <1>1, <1>2, <1>3, Assemble DEF TInv, Typed, InOrder

\* The command that is taken to be run came after the last one that was.
LEMMA PopKeeps ==
  ASSUME TInv, Pop
  PROVE  TInv' /\ (loop.at # "echo" /\ loop'.at = "echo" => seen'.run > seen.run)
<1>1. UNCHANGED settings /\ loop.at = "pop"
  BY DEF Pop
<1>2. seen.run \in Count /\ seen.sent \in Count /\ Ordered(queue, seen.run, seen.sent)
  BY DEF TInv, Typed, SeenState, InOrder
<1>3. CASE queue = << >>
  <2>1. Goto("idle") /\ Flushed /\ UNCHANGED <<queue, seen>>
    BY <1>3 DEF Pop
  <2>2. loop' \in LoopState /\ loop'.at = "idle"
    BY <2>1, FreeTyped DEF Goto, LoopState, Places
  <2> QED BY <1>1, <1>2, <2>1, <2>2, FlushedKeeps, Assemble DEF TInv, Typed
<1>4. CASE queue # << >>
  <2> DEFINE q == Head(queue)
  <2>1. /\ queue' = Tail(queue) /\ slot' = slot
        /\ \/ /\ loop' = [Idle EXCEPT !.at = "echo", !.id = q.id, !.cmd = q.cmd]
              /\ seen' = [seen EXCEPT !.run = q.n]
           \/ UNCHANGED <<loop, seen>>
    BY <1>4 DEF Pop, Taken
  <2>2. /\ q \in Entry /\ q.n > seen.run
        /\ Tail(queue) \in Seq(Entry)
        /\ Ordered(Tail(queue), seen.run, seen.sent) /\ Ordered(Tail(queue), q.n, seen.sent)
    BY <1>2, <1>4, TailOrdered DEF TInv, Typed
  <2> HIDE DEF q
  <2>3. slot' \in [Slots -> SlotState] /\ Tamer(slot')
    BY <2>1, Unchanged DEF TInv
  <2>4. CASE /\ loop' = [Idle EXCEPT !.at = "echo", !.id = q.id, !.cmd = q.cmd]
             /\ seen' = [seen EXCEPT !.run = q.n]
    <3>1. loop' \in LoopState
      BY <2>2, <2>4, FreeTyped DEF LoopState, Places, Entry
    <3>2. /\ seen' \in SeenState /\ seen'.run = q.n
          /\ seen'.sent = seen.sent /\ seen'.in = seen.in
      BY <2>2, <2>4 DEF TInv, Typed, SeenState, Entry
    <3>3. Ordered(queue', seen'.run, seen'.sent) /\ queue' \in Seq(Entry)
      BY <2>1, <2>2, <3>2
    <3> QED BY <1>1, <2>2, <2>3, <3>1, <3>2, <3>3, Assemble
  <2>5. CASE UNCHANGED <<loop, seen>>
    BY <1>1, <2>1, <2>2, <2>3, <2>5, Assemble DEF TInv, Typed
  <2> QED BY <2>1, <2>4, <2>5
<1> QED BY <1>3, <1>4

-----------------------------------------------------------------------------
(* The commands                                                            *)

LEMMA MineFields ==
  ASSUME TInv, NEW s \in Mine
  PROVE  s \in Slots /\ slot[s].id = loop.id /\ loop.id \in Ids
<1>1. s \in Slots /\ slot[s].id # None /\ slot[s].id = loop.id
  BY DEF Mine, SlotsOf, InUse
<1>2. slot[s].id \in Ids \cup {None}
  BY <1>1, SlotFields DEF TInv
<1> QED BY <1>1, <1>2

\* Whoever may run a command has logged in.
LEMMA AuthorizedLoggedIn ==
  ASSUME TInv, Authorized
  PROVE  loop.id \in seen.in
<1>1. PICK s \in Mine : slot[s].auth
  BY DEF Authorized
<1>2. s \in Slots /\ slot[s].id # None /\ slot[s].id = loop.id
  BY DEF Mine, SlotsOf, InUse
<1> QED BY <1>1, <1>2 DEF TInv, LoggedIn

\* A command takes its place in the pass, and leaves the queue alone.
LEMMA Executed ==
  ASSUME TInv, Goto("pop"), queue' = queue, SInv', LoggedIn',
         slot' \in [Slots -> SlotState], seen' \in SeenState,
         seen'.run = seen.run, seen'.sent = seen.sent
  PROVE  TInv'
<1>1. loop' \in LoopState
  BY FreeTyped DEF Goto, LoopState, Places
<1>2. Ordered(queue', seen'.run, seen'.sent)
  BY DEF TInv, InOrder
<1> QED BY <1>1, <1>2, InOrderPrime DEF TInv, Typed

\* The right word logs in, the wrong one counts.
LEMMA RightWord ==
  ASSUME NEW r \in SlotState
  PROVE  LET new == [r EXCEPT !.auth = TRUE, !.fails = 0, !.recent = FALSE]
         IN new \in SlotState /\ new.id = r.id
<1>1. 0 \in 0 .. FailWrap - 1
  BY TerminalAssumption
<1> QED BY <1>1 DEF SlotState

LEMMA WrongWord ==
  ASSUME NEW r \in SlotState
  PROVE  LET new == [r EXCEPT !.fails = (@ + 1) % FailWrap, !.recent = TRUE]
         IN new \in SlotState /\ new.id = r.id /\ new.auth = r.auth
<1>1. r.fails \in 0 .. FailWrap - 1
  BY DEF SlotState
<1>2. (r.fails + 1) % FailWrap \in 0 .. FailWrap - 1
  BY <1>1, TerminalAssumption
<1> DEFINE f == (r.fails + 1) % FailWrap
<1>3. [r EXCEPT !.fails = (@ + 1) % FailWrap, !.recent = TRUE] = [r EXCEPT !.fails = f, !.recent = TRUE]
  OBVIOUS
<1>4. f \in 0 .. FailWrap - 1
  BY <1>2
<1> HIDE DEF f
<1>5. LET new == [r EXCEPT !.fails = f, !.recent = TRUE]
      IN new \in SlotState /\ new.id = r.id /\ new.auth = r.auth
  BY <1>4 DEF SlotState
<1> QED BY <1>3, <1>5

LEMMA LoginKeeps ==
  ASSUME TInv, NEW right \in BOOLEAN, Login(right)
  PROVE  /\ UNCHANGED <<settings, ws>> /\ LoggedIn'
         /\ slot' \in [Slots -> SlotState] /\ seen' \in SeenState
         /\ seen'.run = seen.run /\ seen'.sent = seen.sent
<1>1. UNCHANGED <<settings, ws>>
  BY DEF Login
<1>2. CASE UNCHANGED <<slot, seen>>
  BY <1>1, <1>2 DEF TInv, Typed, LoggedIn
<1>3. CASE ~UNCHANGED <<slot, seen>>
  <2>1. PICK s \in Mine :
          /\ Put(s, IF right
                    THEN [slot[s] EXCEPT !.auth = TRUE, !.fails = 0, !.recent = FALSE]
                    ELSE [slot[s] EXCEPT !.fails = (@ + 1) % FailWrap, !.recent = TRUE])
          /\ seen' = [seen EXCEPT !.in = IF right THEN @ \cup {loop.id} ELSE @]
    BY <1>3, ZenonT(30) DEF Login
  <2>2. s \in Slots /\ slot[s].id = loop.id /\ loop.id \in Ids
    BY MineFields
  <2>3. CASE right
    <3> DEFINE new == [slot[s] EXCEPT !.auth = TRUE, !.fails = 0, !.recent = FALSE]
    <3>1. slot' = [slot EXCEPT ![s] = new]
      BY <2>1, <2>3 DEF Put
    <3>2. new \in SlotState /\ new.id = loop.id
      BY <2>2, SlotFields, RightWord DEF TInv
    <3> HIDE DEF new
    <3>3. seen' = [seen EXCEPT !.in = seen.in \cup {loop.id}]
      BY <2>1, <2>3
    <3>4. /\ seen' \in SeenState /\ seen'.in = seen.in \cup {loop.id}
          /\ seen'.run = seen.run /\ seen'.sent = seen.sent
      BY <2>2, <3>3 DEF TInv, Typed, SeenState
    <3>5. slot' \in [Slots -> SlotState]
      BY <3>1, <3>2 DEF TInv, Typed
    <3>6. ASSUME NEW t \in Slots, slot'[t].id # None, slot'[t].auth
          PROVE  slot'[t].id \in seen'.in
      <4>1. CASE t = s
        BY <2>2, <3>1, <3>2, <3>4, <4>1 DEF TInv, Typed
      <4>2. CASE t # s
        BY <3>1, <3>4, <3>6, <4>2 DEF TInv, Typed, LoggedIn
      <4> QED BY <4>1, <4>2
    <3> QED BY <1>1, <3>4, <3>5, <3>6 DEF LoggedIn
  <2>4. CASE ~right
    <3> DEFINE new == [slot[s] EXCEPT !.fails = (@ + 1) % FailWrap, !.recent = TRUE]
    <3>1. slot' = [slot EXCEPT ![s] = new]
      BY <2>1, <2>4 DEF Put
    <3>2. new \in SlotState /\ new.id = slot[s].id /\ new.auth = slot[s].auth
      BY <2>2, SlotFields, WrongWord DEF TInv
    <3> HIDE DEF new
    <3>3. slot' \in [Slots -> SlotState] /\ Tamer(slot')
      BY <3>1, <3>2, OneSlot DEF TInv
    <3>4. seen' = seen
      BY <2>1, <2>4 DEF TInv, Typed, SeenState
    <3> QED BY <1>1, <3>3, <3>4, TamerKeeps DEF TInv, Typed
  <2> QED BY <2>3, <2>4
<1> QED BY <1>2, <1>3

\* Whoever logs out loses every session of its own, and no other.
LEMMA LogoutState ==
  ASSUME NEW r \in SlotState
  PROVE  LET new == [r EXCEPT !.auth = FALSE, !.fails = IF r.auth THEN 0 ELSE @, !.recent = @ /\ ~r.auth]
         IN new \in SlotState /\ ~new.auth
<1> DEFINE f == IF r.auth THEN 0 ELSE r.fails
           b == r.recent /\ ~r.auth
<1>1. f \in 0 .. FailWrap - 1
  BY TerminalAssumption DEF SlotState
<1>2. b \in BOOLEAN
  OBVIOUS
<1>3. [r EXCEPT !.auth = FALSE, !.fails = IF r.auth THEN 0 ELSE @, !.recent = @ /\ ~r.auth]
        = [r EXCEPT !.auth = FALSE, !.fails = f, !.recent = b]
  OBVIOUS
<1> HIDE DEF f, b
<1>4. /\ [r EXCEPT !.auth = FALSE, !.fails = f, !.recent = b] \in SlotState
      /\ ~[r EXCEPT !.auth = FALSE, !.fails = f, !.recent = b].auth
  BY <1>1, <1>2 DEF SlotState
<1> QED BY <1>3, <1>4

LEMMA LogoutKeeps ==
  ASSUME TInv, Logout
  PROVE  /\ UNCHANGED <<settings, ws>> /\ LoggedIn'
         /\ slot' \in [Slots -> SlotState] /\ seen' \in SeenState
         /\ seen'.run = seen.run /\ seen'.sent = seen.sent
<1> DEFINE out(s) == [slot[s] EXCEPT !.auth = FALSE, !.fails = IF slot[s].auth THEN 0 ELSE @,
                                     !.recent = @ /\ ~slot[s].auth]
<1>1. /\ UNCHANGED <<settings, ws>>
      /\ slot' = [s \in Slots |-> IF s \in Mine THEN out(s) ELSE slot[s]]
      /\ seen' = [seen EXCEPT !.in = @ \ {loop.id}]
  BY DEF Logout
<1>2. \A s \in Slots : out(s) \in SlotState /\ ~out(s).auth
  BY SlotFields, LogoutState DEF TInv
<1> HIDE DEF out
<1>3. slot' \in [Slots -> SlotState]
  BY <1>1, <1>2, SlotFields DEF TInv
<1>4. /\ seen' \in SeenState /\ seen'.in = seen.in \ {loop.id}
      /\ seen'.run = seen.run /\ seen'.sent = seen.sent
  BY <1>1 DEF TInv, Typed, SeenState
<1>5. ASSUME NEW s \in Slots, slot'[s].id # None, slot'[s].auth
      PROVE  slot'[s].id \in seen'.in
  <2>1. CASE s \in Mine
    BY <1>1, <1>2, <1>5, <2>1
  <2>2. CASE s \notin Mine
    <3>1. slot'[s] = slot[s] /\ slot[s].id # loop.id
      BY <1>1, <1>5, <2>2 DEF Mine, SlotsOf, InUse
    <3> QED BY <1>4, <1>5, <3>1 DEF TInv, LoggedIn
  <2> QED BY <2>1, <2>2
<1> QED BY <1>1, <1>3, <1>4, <1>5 DEF LoggedIn

\* What help and status say waits in the client's slot.
LEMMA HelpKeeps ==
  ASSUME TInv, Help
  PROVE  slot' \in [Slots -> SlotState] /\ Tamer(slot')
<1>1. slot' = [s \in Slots |-> IF s \in Mine THEN [slot[s] EXCEPT !.out = TRUE] ELSE slot[s]]
  BY DEF Help, Queued
<1>2. ASSUME NEW s \in Slots
      PROVE  slot'[s] \in SlotState /\ slot'[s].id = slot[s].id /\ slot'[s].auth = slot[s].auth
  <2>1. CASE s \in Mine
    <3>1. slot'[s] = [slot[s] EXCEPT !.out = TRUE]
      BY <1>1, <2>1
    <3> QED BY <3>1, SlotFields DEF TInv, SlotState
  <2>2. CASE s \notin Mine
    BY <1>1, <2>2, SlotFields DEF TInv
  <2> QED BY <2>1, <2>2
<1>3. slot' \in [Slots -> SlotState]
  <2>1. slot' = [s \in Slots |-> slot'[s]]
    BY <1>1
  <2> QED BY <1>2, <2>1
<1> QED BY <1>2, <1>3 DEF Tamer

Obeyed == disk' # disk \/ (ws /\ ~ws') => loop.id \in seen.in

LEMMA ExecuteKeeps ==
  ASSUME TInv, Execute
  PROVE  TInv' /\ Obeyed
<1>1. Goto("pop") /\ queue' = queue
  BY DEF Execute
<1>2. CASE \E right \in BOOLEAN : Login(right)
  <2>1. PICK right \in BOOLEAN : Login(right)
    BY <1>2
  <2>2. SInv' /\ Obeyed
    BY <2>1, LoginKeeps, SettingsKept DEF TInv, Obeyed, settings
  <2> QED BY <1>1, <2>1, <2>2, LoginKeeps, Executed
<1>3. CASE Logout
  <2>1. SInv' /\ Obeyed
    BY <1>3, LogoutKeeps, SettingsKept DEF TInv, Obeyed, settings
  <2> QED BY <1>1, <1>3, <2>1, LogoutKeeps, Executed
<1>4. CASE SetCommand
  <2>1. /\ Set /\ UNCHANGED <<slot, seen, ws>>
        /\ Authorized
    BY <1>4 DEF SetCommand, Allowed, NeedsAuth
  <2>2. SInv'
    BY <2>1, SettingsKept DEF TInv
  <2>3. LoggedIn'
    BY <2>1 DEF TInv, LoggedIn
  <2> QED BY <1>1, <2>1, <2>2, <2>3, Executed, AuthorizedLoggedIn DEF TInv, Typed, Obeyed
<1>5. CASE Help
  <2>1. UNCHANGED <<settings, seen, ws>>
    BY <1>5 DEF Help
  <2>2. SInv' /\ LoggedIn'
    BY <1>5, <2>1, SettingsKept, HelpKeeps, TamerKeeps DEF TInv
  <2> QED BY <1>1, <1>5, <2>1, <2>2, HelpKeeps, Executed DEF TInv, Typed, Obeyed, settings
<1>6. CASE SendNow
  <2>1. UNCHANGED <<settings, slot, seen>> /\ Authorized
    BY <1>6 DEF SendNow, Allowed, NeedsAuth
  <2>2. SInv' /\ LoggedIn'
    BY <2>1, SettingsKept DEF TInv, LoggedIn
  <2> QED BY <1>1, <2>1, <2>2, Executed, AuthorizedLoggedIn DEF TInv, Typed, Obeyed
<1>7. CASE Decline
  <2>1. UNCHANGED <<settings, slot, seen, ws>>
    BY <1>7 DEF Decline
  <2>2. SInv' /\ LoggedIn'
    BY <2>1, SettingsKept DEF TInv, LoggedIn
  <2> QED BY <1>1, <2>1, <2>2, Executed DEF TInv, Typed, Obeyed, settings
<1> QED BY <1>2, <1>3, <1>4, <1>5, <1>6, <1>7 DEF Execute

-----------------------------------------------------------------------------
(* The theorems                                                            *)

OneAfterTheOther == loop.at # "echo" /\ loop'.at = "echo" => seen'.run > seen.run

LEMMA InitTInv == Init => TInv
<1> SUFFICES ASSUME Init PROVE TInv
  OBVIOUS
<1>1. SInv
  BY SettingsStart DEF Init
<1>2. 0 \in Count
  BY TerminalAssumption DEF Count
<1>3. seen \in SeenState /\ seen.run = 0 /\ seen.sent = 0
  BY <1>2 DEF Init, SeenState
<1>4. slot \in [Slots -> SlotState] /\ \A s \in Slots : slot[s].id = None
  BY FreeTyped DEF Init, Free
<1>5. queue \in Seq(Entry) /\ Ordered(queue, seen.run, seen.sent)
  BY <1>2, <1>3, EmptyOrdered DEF Init
<1>6. loop \in LoopState
  BY FreeTyped DEF Init
<1> QED BY <1>1, <1>3, <1>4, <1>5, <1>6 DEF TInv, Typed, LoggedIn, InOrder

\* What every step keeps, and what no step may do.
LEMMA StepKeeps ==
  ASSUME TInv, [Next]_vars
  PROVE  TInv' /\ Obeyed /\ OneAfterTheOther
<1>1. CASE Pop
  <2>1. UNCHANGED <<disk, ws>>
    BY <1>1 DEF Pop, settings
  <2> QED BY <1>1, <2>1, PopKeeps DEF Obeyed, OneAfterTheOther
<1>2. CASE Execute
  <2>1. loop.at = "echo"
    BY <1>2 DEF Execute
  <2> QED BY <1>2, <2>1, ExecuteKeeps DEF OneAfterTheOther
<1>3. CASE Greeted
  <2>1. loop'.at = "init" /\ UNCHANGED <<disk, ws>>
    BY <1>3 DEF Greeted, Idle, settings
  <2> QED BY <1>3, <2>1, GreetedKeeps DEF Obeyed, OneAfterTheOther
<1>4. CASE Begin \/ FlushOutput \/ \E s \in Slots : Greet(s)
  <2>1. loop'.at # "echo" /\ UNCHANGED <<disk, ws>>
    BY <1>4 DEF Begin, FlushOutput, Greet, Goto, Idle, settings
  <2> QED BY <1>4, <2>1, PassKeeps DEF Obeyed, OneAfterTheOther
<1>5. CASE \E id \in Ids : OnConnect(id) \/ OnDisconnect(id) \/ \E c \in Commands : OnData(id, c)
  <2>1. PICK id \in Ids : OnConnect(id) \/ OnDisconnect(id) \/ \E c \in Commands : OnData(id, c)
    BY <1>5
  <2>2. CASE OnConnect(id)
    <3>1. UNCHANGED <<disk, loop>> /\ ws'
      BY <2>2 DEF OnConnect, settings
    <3> QED BY <2>2, <3>1, OnConnectKeeps DEF Obeyed, OneAfterTheOther
  <2>3. CASE OnDisconnect(id)
    <3>1. UNCHANGED <<disk, ws>>
      BY <2>3 DEF OnDisconnect, settings
    <3>2. loop'.at = loop.at
      BY <2>3 DEF OnDisconnect, ReleaseBuffers, TInv, Typed, LoopState
    <3> QED BY <2>3, <3>1, <3>2, OnDisconnectKeeps DEF Obeyed, OneAfterTheOther
  <2>4. CASE \E c \in Commands : OnData(id, c)
    <3>1. UNCHANGED <<disk, loop, ws>>
      BY <2>4 DEF OnData, settings
    <3> QED BY <2>4, <3>1, OnDataKeeps DEF Obeyed, OneAfterTheOther
  <2> QED BY <2>1, <2>2, <2>3, <2>4
<1>10. CASE \E id \in Ids : TurnAway(id) \/ OnStrayData(id)
  <2>1. UNCHANGED <<settings, slot, queue, loop, seen, ws, disk>>
    BY <1>10 DEF TurnAway, OnStrayData, settings
  <2> QED BY <2>1, Unchanged, Assemble DEF TInv, Typed, InOrder, Obeyed, OneAfterTheOther
<1>6. CASE \E s \in Slots : Cool(s)
  <2>1. UNCHANGED <<disk, loop, ws>>
    BY <1>6 DEF Cool, settings
  <2> QED BY <1>6, <2>1, CoolKeeps DEF Obeyed, OneAfterTheOther
<1>7. CASE RestoreWs
  <2>1. UNCHANGED <<settings, slot, queue, loop, seen>> /\ ws' /\ disk' = disk
    BY <1>7 DEF RestoreWs, settings
  <2> QED BY <2>1, Unchanged, Assemble DEF TInv, Typed, InOrder, Obeyed, OneAfterTheOther
<1>8. CASE Others
  <2>1. (Load \/ Release) /\ UNCHANGED <<slot, queue, loop, seen, ws, disk>>
    BY <1>8 DEF Others, term, Load, Release
  <2>2. SInv'
    BY <2>1, SettingsKept DEF TInv
  <2>3. Typed' /\ LoggedIn'
    BY <2>1 DEF TInv, Typed, LoggedIn
  <2>4. Ordered(queue', seen'.run, seen'.sent)
    BY <2>1 DEF TInv, InOrder
  <2> QED BY <2>1, <2>2, <2>3, <2>4, InOrderPrime DEF TInv, Obeyed, OneAfterTheOther
<1>9. CASE UNCHANGED vars
  <2>1. UNCHANGED <<settings, slot, queue, loop, seen, ws, disk>>
    BY <1>9 DEF vars, term, settings
  <2> QED BY <2>1, Unchanged, Assemble DEF TInv, Typed, InOrder, Obeyed, OneAfterTheOther
<1> QED BY <1>1, <1>2, <1>3, <1>4, <1>5, <1>6, <1>7, <1>8, <1>9, <1>10 DEF Next, Handle

\* The strings in force are those last confirmed, also while clients come and
\* go and others load and free them between two commands.
THEOREM StringsStay == Spec => []StringsInForce
<1>1. TInv => StringsInForce
  BY InForceIsDisk DEF TInv
<1> QED BY <1>1, InitTInv, StepKeeps, PTL DEF Spec

\* The configuration changes and the sender stops only for a connection that
\* has itself logged in and not out again, for any number of clients, slots
\* that are used again and disconnects while a command is echoed.
THEOREM OnlyOwnLogin == Spec => OnlyLoggedInAreObeyed
<1>1. ASSUME TInv, [Next]_vars
      PROVE  [disk' # disk \/ (ws /\ ~ws') => loop.id \in seen.in]_vars
  BY <1>1, StepKeeps DEF Obeyed
<1> QED BY <1>1, InitTInv, StepKeeps, PTL DEF Spec, OnlyLoggedInAreObeyed

\* No command runs twice, or after one that came later, whatever the queue drops.
THEOREM NeverBackwards == Spec => CommandsInOrder
<1>1. ASSUME TInv, [Next]_vars
      PROVE  [loop.at # "echo" /\ loop'.at = "echo" => seen'.run > seen.run]_vars
  BY <1>1, StepKeeps DEF OneAfterTheOther
<1> QED BY <1>1, InitTInv, StepKeeps, PTL DEF Spec, CommandsInOrder

-----------------------------------------------------------------------------
(* The table of sessions                                                   *)

NetState == [Ids -> {"new", "open", "closing", "gone"}]

\* The part of the types that TInv leaves out
Sized ==
  /\ net \in NetState /\ ready \in BOOLEAN /\ ws \in BOOLEAN
  /\ Len(queue) < QueueSize

CInv == TInv /\ Sized /\ SessionsMatchClients

Used == {s \in Slots : InUse(s)}

\* The slots are a finite set of numbers, and those in use are some of them.
LEMMA UsedFinite ==
  /\ Slots \subseteq Nat /\ Ids \subseteq Nat \ {0}
  /\ IsFiniteSet(Used) /\ Cardinality(Used) \in 0 .. Cardinality(Slots)
<1>1. IsFiniteSet(Slots) /\ IsFiniteSet(Ids)
  BY TerminalAssumption
<1>2. Cardinality(Slots) \in Nat /\ Cardinality(Ids) \in Nat
  BY <1>1, FS_CardinalityType
<1>3. Slots \subseteq Nat /\ Ids \subseteq Nat \ {0}
  BY <1>2, TerminalAssumption
<1>4. Used \in SUBSET Slots
  BY DEF Used
<1>5. IsFiniteSet(Used) /\ Cardinality(Used) <= Cardinality(Slots)
  BY <1>1, <1>4, FS_Subset
<1>6. Cardinality(Used) \in Nat
  BY <1>5, FS_CardinalityType
<1> QED BY <1>2, <1>3, <1>5, <1>6

\* Every set of numbers has a least one.
LEMMA Least ==
  ASSUME NEW S \in SUBSET Nat, S # {}
  PROVE  (CHOOSE t \in S : \A u \in S : t <= u) \in S
<1> DEFINE R == {p \in Nat \X Nat : p[1] < p[2]}
<1>1. IsWellFoundedOn(R, Nat)
  BY NatLessThanWellFounded, Zenon DEF OpToRel
<1>2. \E k \in S : \A j \in S : ~(<<j, k>> \in R)
  <2> HIDE DEF R
  <2> QED BY <1>1, WFMin
<1>3. \E k \in S : \A j \in S : k <= j
  <2>1. PICK k \in S : \A j \in S : ~(j < k)
    BY <1>2
  <2> QED BY <2>1
<1> QED BY <1>3

\* The sessions as the table shows them
LEMMA Sessions ==
  ASSUME CInv
  PROVE  /\ slot \in [Slots -> SlotState] /\ net \in NetState
         /\ active = Cardinality(Used) /\ active \in 0 .. Cardinality(Slots)
         /\ \A s \in Used : s \in Slots /\ slot[s].id \in Ids /\ net[slot[s].id] \in {"open", "closing"}
         /\ \A s, t \in Used : slot[s].id = slot[t].id => s = t
         /\ \A id \in Ids : SlotsOf(id) = {s \in Used : slot[s].id = id}
         /\ \A id \in Ids : net[id] = "open" => SlotsOf(id) # {}
         /\ ~ready => Used = {}
<1>1. slot \in [Slots -> SlotState] /\ net \in NetState
  BY DEF CInv, TInv, Typed, Sized
<1>2. \A s \in Used : s \in Slots /\ slot[s].id \in Ids
  BY SlotFields DEF CInv, TInv, Used, InUse
<1>3. active = Cardinality(Used)
  BY DEF CInv, SessionsMatchClients, Used
<1>4. ~ready => Used = {}
  <2>1. ~ready => Cardinality(Used) = 0
    BY <1>3 DEF CInv, SessionsMatchClients
  <2> QED BY <2>1, UsedFinite, FS_EmptySet
<1>5. /\ \A s \in Used : net[slot[s].id] \in {"open", "closing"}
      /\ \A s, t \in Used : slot[s].id = slot[t].id => s = t
      /\ \A id \in Ids : net[id] = "open" => SlotsOf(id) # {}
  BY DEF CInv, SessionsMatchClients, Used
<1>6. \A id \in Ids : SlotsOf(id) = {s \in Used : slot[s].id = id}
  BY DEF SlotsOf, Used
<1> QED BY <1>1, <1>2, <1>3, <1>4, <1>5, <1>6, UsedFinite

\* The same facts of the next state give the invariant of the next state.
LEMMA SessionsPrime ==
  ASSUME active' = Cardinality(Used'),
         \A s, t \in Used' : slot'[s].id = slot'[t].id => s = t,
         \A s \in Used' : net'[slot'[s].id] \in {"open", "closing"},
         \A id \in Ids : net'[id] = "open" => \E s \in Used' : slot'[s].id = id,
         ready' \/ (Used' = {} /\ queue' = << >>)
  PROVE  SessionsMatchClients'
<1>1. Used' = {s \in Slots : slot'[s].id # None}
  BY DEF Used, InUse
<1>2. ~ready' => active' = 0
  BY FS_EmptySet
<1>3. \A id \in Ids : net'[id] = "open" => {s \in Slots : slot'[s].id # None /\ slot'[s].id = id} # {}
  BY <1>1
<1>4. active' = Cardinality({s \in Slots : slot'[s].id # None})
  BY <1>1
<1>5. /\ \A s, t \in Slots : slot'[s].id # None /\ slot'[s].id = slot'[t].id => s = t
      /\ \A s \in Slots : slot'[s].id # None => net'[slot'[s].id] \in {"open", "closing"}
  BY <1>1
<1> QED BY <1>2, <1>3, <1>4, <1>5 DEF SessionsMatchClients, SlotsOf, InUse

\* A step that leaves every session with its client, and only begins to close
\* some clients
LEMMA SameSessions ==
  ASSUME CInv, \A s \in Slots : slot'[s].id = slot[s].id,
         \A id \in Ids : net'[id] = net[id] \/ (net[id] = "open" /\ net'[id] = "closing"),
         active' = active, ready' = ready, ready \/ queue' = queue
  PROVE  SessionsMatchClients'
<1>1. Used' = Used
  BY DEF Used, InUse
<1>2. \A s \in Used : s \in Slots /\ slot'[s].id = slot[s].id /\ slot[s].id \in Ids
  BY Sessions
<1>3. active' = Cardinality(Used')
  BY <1>1, Sessions
<1>4. \A s, t \in Used' : slot'[s].id = slot'[t].id => s = t
  BY <1>1, <1>2, Sessions
<1>5. \A s \in Used' : net'[slot'[s].id] \in {"open", "closing"}
  BY <1>1, <1>2, Sessions
<1>6. ASSUME NEW id \in Ids, net'[id] = "open"
      PROVE  \E s \in Used' : slot'[s].id = id
  <2>1. net[id] = "open"
    BY <1>6
  <2>2. PICK s \in Used : slot[s].id = id
    BY <2>1, Sessions
  <2> QED BY <1>1, <1>2, <2>2
<1>7. ready' \/ (Used' = {} /\ queue' = << >>)
  BY <1>1, Sessions DEF CInv, SessionsMatchClients
<1> QED BY <1>3, <1>4, <1>5, <1>6, <1>7, SessionsPrime

LEMMA ConnectSessions ==
  ASSUME CInv, NEW id \in Ids, OnConnect(id), TInv'
  PROVE  CInv'
<1> DEFINE free == {s \in Slots : ~InUse(s)}
           s == CHOOSE t \in free : \A u \in free : t <= u
<1>1. /\ net[id] = "new" /\ ready' = TRUE /\ ws' = TRUE
      /\ queue' = IF ready THEN queue ELSE << >>
  BY DEF OnConnect, Arrives
<1>2. Sized' \/ net' \notin NetState
  <2>1. Len(queue') < QueueSize
    BY <1>1, TerminalAssumption DEF CInv, Sized
  <2> QED BY <1>1, <2>1 DEF Sized, NetState
<1>3. CASE free = {}
  <2>1. net' = [net EXCEPT ![id] = "closing"] /\ UNCHANGED <<slot, active>>
    BY <1>3 DEF OnConnect
  <2>2. net' \in NetState
    BY <2>1, Sessions DEF NetState
  <2>3. Used' = Used
    BY <2>1 DEF Used, InUse
  <2>4. \A i \in Ids : net'[i] = IF i = id THEN "closing" ELSE net[i]
    BY <2>1, Sessions DEF NetState
  <2>5. \A t \in Used' : net'[slot'[t].id] \in {"open", "closing"}
    BY <2>1, <2>3, <2>4, Sessions
  <2>6. \A i \in Ids : net'[i] = "open" => \E t \in Used' : slot'[t].id = i
    BY <2>1, <2>3, <2>4, Sessions
  <2>7. SessionsMatchClients'
    BY <1>1, <2>1, <2>3, <2>5, <2>6, Sessions, SessionsPrime
  <2> QED BY <1>2, <2>2, <2>7 DEF CInv
<1>4. CASE free # {}
  <2>1. /\ net' = [net EXCEPT ![id] = "open"]
        /\ slot' = [slot EXCEPT ![s] = Session(id)]
        /\ active' = active + 1
    BY <1>4 DEF OnConnect
  <2>2. s \in Slots \ Used
    <3>1. free \in SUBSET Nat
      BY UsedFinite
    <3>2. s \in free
      <4> HIDE DEF free
      <4> QED BY <1>4, <3>1, Least
    <3> QED BY <3>2 DEF Used
  <2> HIDE DEF s, free
  <2>3. net' \in NetState
    BY <2>1, Sessions DEF NetState
  <2>4. Session(id).id = id /\ id # None
    BY UsedFinite DEF Session, Free, None
  <2>5. \A t \in Slots : slot'[t] = IF t = s THEN Session(id) ELSE slot[t]
    BY <2>1, Sessions
  <2>6. Used' = Used \cup {s}
    BY <2>2, <2>4, <2>5 DEF Used, InUse
  <2>7. Cardinality(Used') = Cardinality(Used) + 1
    BY <2>2, <2>6, UsedFinite, FS_AddElement
  <2>8. \A i \in Ids : net'[i] = IF i = id THEN "open" ELSE net[i]
    BY <2>1, Sessions DEF NetState
  <2>9. \A t \in Used : slot[t].id # id
    BY <1>1, Sessions
  <2>10. \A t \in Used' : slot'[t].id = IF t = s THEN id ELSE slot[t].id
    BY <2>2, <2>4, <2>5, <2>6, Sessions
  <2>11. \A t, u \in Used' : slot'[t].id = slot'[u].id => t = u
    BY <2>6, <2>9, <2>10, Sessions
  <2>12. \A t \in Used' : net'[slot'[t].id] \in {"open", "closing"}
    BY <2>6, <2>8, <2>10, Sessions
  <2>13. ASSUME NEW i \in Ids, net'[i] = "open"
         PROVE  \E t \in Used' : slot'[t].id = i
    <3>1. CASE i = id
      BY <2>6, <2>10, <3>1
    <3>2. CASE i # id
      <4>1. PICK t \in Used : slot[t].id = i
        BY <2>8, <2>13, <3>2, Sessions
      <4> QED BY <2>2, <2>6, <2>10, <4>1
    <3> QED BY <3>1, <3>2
  <2>14. SessionsMatchClients'
    BY <1>1, <2>1, <2>7, <2>11, <2>12, <2>13, Sessions, SessionsPrime
  <2> QED BY <1>2, <2>3, <2>14 DEF CInv
<1> QED BY <1>3, <1>4

\* A client that is turned away has no session, and the buffers it brings back
\* hold none.
LEMMA StraySessions ==
  ASSUME CInv, NEW id \in Ids, TurnAway(id) \/ OnStrayData(id), TInv'
  PROVE  CInv'
<1>1. /\ UNCHANGED <<slot, active, queue, ws>>
      /\ \/ ready' = ready /\ net[id] = "new" /\ net' = [net EXCEPT ![id] = "closing"]
         \/ ready' = TRUE /\ net' = net
  BY DEF TurnAway, OnStrayData, Arrives
<1>2. net' \in NetState /\ ready' \in BOOLEAN
  BY <1>1, Sessions DEF NetState, CInv, Sized
<1>3. Used' = Used
  BY <1>1 DEF Used, InUse
<1>4. \A i \in Ids : net'[i] = net[i] \/ (net[i] = "new" /\ net'[i] = "closing")
  BY <1>1, Sessions DEF NetState
<1>5. ASSUME NEW t \in Used' PROVE net'[slot'[t].id] \in {"open", "closing"}
  <2>1. slot'[t].id = slot[t].id /\ slot[t].id \in Ids /\ net[slot[t].id] \in {"open", "closing"}
    BY <1>1, <1>3, Sessions
  <2>2. net'[slot[t].id] = net[slot[t].id]
    BY <1>4, <2>1
  <2> QED BY <2>1, <2>2
<1>6. \A i \in Ids : net'[i] = "open" => \E t \in Used' : slot'[t].id = i
  BY <1>1, <1>3, <1>4, Sessions
<1>7. ready' \/ (Used' = {} /\ queue' = << >>)
  BY <1>1, <1>3, Sessions DEF CInv, SessionsMatchClients
<1>8. SessionsMatchClients'
  BY <1>1, <1>3, <1>5, <1>6, <1>7, Sessions, SessionsPrime
<1> QED BY <1>1, <1>2, <1>8 DEF CInv, Sized

LEMMA DisconnectSessions ==
  ASSUME CInv, NEW id \in Ids, OnDisconnect(id), TInv'
  PROVE  CInv'
<1>1. /\ net[id] \in {"open", "closing"} /\ net' = [net EXCEPT ![id] = "gone"]
      /\ ws' = ws
  BY DEF OnDisconnect
<1>2. net' \in NetState
  BY <1>1, Sessions DEF NetState
<1>3. \A i \in Ids : net'[i] = IF i = id THEN "gone" ELSE net[i]
  BY <1>1, Sessions DEF NetState
<1>4. CASE ~ready \/ SlotsOf(id) = {}
  <2>1. UNCHANGED <<ready, slot, active, queue, loop>>
    BY <1>4 DEF OnDisconnect
  <2>2. \A s \in Used : slot[s].id # id
    BY <1>4, Sessions
  <2>3. Used' = Used
    BY <2>1 DEF Used, InUse
  <2>4. \A t \in Used' : net'[slot'[t].id] \in {"open", "closing"}
    BY <1>3, <2>1, <2>2, <2>3, Sessions
  <2>5. \A i \in Ids : net'[i] = "open" => \E t \in Used' : slot'[t].id = i
    BY <1>3, <2>1, <2>3, Sessions
  <2>6. ready' \/ (Used' = {} /\ queue' = << >>)
    BY <2>1, <2>3, Sessions DEF CInv, SessionsMatchClients
  <2>7. SessionsMatchClients'
    BY <2>1, <2>3, <2>4, <2>5, <2>6, Sessions, SessionsPrime
  <2> QED BY <1>1, <1>2, <2>1, <2>7 DEF CInv, Sized
<1>5. CASE ready /\ SlotsOf(id) # {} /\ active = 1
  <2>1. ReleaseBuffers
    BY <1>5 DEF OnDisconnect
  <2>2. ready' = FALSE /\ slot' = [s \in Slots |-> Free] /\ active' = 0 /\ queue' = << >>
    BY <2>1 DEF ReleaseBuffers
  <2>3. Used' = {}
    BY <2>2 DEF Used, InUse, Free
  <2>4. PICK s \in Used : slot[s].id = id
    BY <1>5, Sessions
  <2>5. Used = {s}
    BY <1>5, <2>4, Sessions, UsedFinite, FS_Singleton
  <2>6. \A i \in Ids : net'[i] # "open"
    BY <1>3, <2>4, <2>5, Sessions
  <2>7. SessionsMatchClients'
    BY <2>2, <2>3, <2>6, SessionsPrime, FS_EmptySet
  <2>8. Len(queue') < QueueSize
    BY <2>2, TerminalAssumption
  <2>9. Sized'
    BY <1>1, <1>2, <2>2, <2>8 DEF CInv, Sized, NetState
  <2> QED BY <2>7, <2>9 DEF CInv
<1>6. CASE ready /\ SlotsOf(id) # {} /\ active # 1
  <2>1. PICK s \in SlotsOf(id) : slot' = [slot EXCEPT ![s] = FreeState(s)]
    BY <1>6 DEF OnDisconnect
  <2>2. active' = active - 1 /\ UNCHANGED <<ready, queue, loop>>
    BY <1>6 DEF OnDisconnect
  <2>3. s \in Used /\ slot[s].id = id
    BY Sessions
  <2>4. FreeState(s).id = None
    <3>1. slot[s] \in SlotState
      BY <2>3, Sessions
    <3> QED BY <3>1 DEF FreeState, SlotState
  <2>5. \A t \in Slots : slot'[t] = IF t = s THEN FreeState(s) ELSE slot[t]
    BY <2>1, Sessions
  <2>6. Used' = Used \ {s}
    BY <2>4, <2>5 DEF Used, InUse
  <2>7. Cardinality(Used') = Cardinality(Used) - 1
    BY <2>3, <2>6, UsedFinite, FS_RemoveElement
  <2>8. \A t \in Used' : t \in Used /\ slot'[t] = slot[t] /\ slot[t].id # id
    BY <2>3, <2>5, <2>6, Sessions
  <2>9. \A t, u \in Used' : slot'[t].id = slot'[u].id => t = u
    BY <2>8, Sessions
  <2>10. \A t \in Used' : net'[slot'[t].id] \in {"open", "closing"}
    BY <1>3, <2>8, Sessions
  <2>11. ASSUME NEW i \in Ids, net'[i] = "open"
         PROVE  \E t \in Used' : slot'[t].id = i
    <3>1. i # id /\ net[i] = "open"
      BY <1>3, <2>11
    <3>2. PICK t \in Used : slot[t].id = i
      BY <3>1, Sessions
    <3>3. t \in Used'
      BY <2>3, <2>6, <3>1, <3>2
    <3> QED BY <2>8, <3>2, <3>3
  <2>12. SessionsMatchClients'
    BY <1>6, <2>2, <2>7, <2>9, <2>10, <2>11, Sessions, SessionsPrime
  <2> QED BY <1>1, <1>2, <2>2, <2>12 DEF CInv, Sized
<1> QED BY <1>4, <1>5, <1>6

\* The queue never fills its ring.
LEMMA DataSessions ==
  ASSUME CInv, NEW id \in Ids, NEW cmd \in Commands, OnData(id, cmd), TInv'
  PROVE  CInv'
<1>1. /\ UNCHANGED <<net, ready, slot, active, ws>> /\ ready
      /\ queue' = Pushed([id |-> id, cmd |-> cmd, n |-> seen.sent + 1])
  BY DEF OnData
<1>2. queue \in Seq(Entry) /\ Len(queue) < QueueSize /\ Len(queue) \in Nat
  BY DEF CInv, TInv, Typed, Sized
<1>3. PICK q \in {queue, Tail(queue)} :
        /\ queue' = Append(q, [id |-> id, cmd |-> cmd, n |-> seen.sent + 1])
        /\ IF Len(queue) = QueueSize - 1 THEN q = Tail(queue) ELSE q = queue
  BY <1>1 DEF Pushed
<1>4. q \in Seq(Entry) /\ Len(q) < QueueSize - 1
  <2>1. CASE Len(queue) = QueueSize - 1
    <3>1. queue # << >> /\ q = Tail(queue)
      BY <1>2, <1>3, <2>1, TerminalAssumption
    <3>2. q \in Seq(Entry) /\ Len(q) = Len(queue) - 1
      BY <1>2, <3>1
    <3> QED BY <1>2, <2>1, <3>2, TerminalAssumption
  <2>2. CASE Len(queue) # QueueSize - 1
    BY <1>2, <1>3, <2>2, TerminalAssumption
  <2> QED BY <2>1, <2>2
<1>5. Len(queue') = Len(q) + 1
  BY <1>3, <1>4
<1>6. Len(queue') < QueueSize
  BY <1>4, <1>5, TerminalAssumption
<1>7. Sized'
  BY <1>1, <1>6 DEF CInv, Sized
<1> QED BY <1>1, <1>7, SameSessions DEF CInv

\* Every other step: no session starts or ends, and the queue only gets shorter.
LEMMA OtherSessions ==
  ASSUME CInv, TInv', active' = active, ready' = ready, ws' \in BOOLEAN,
         \A s \in Slots : slot'[s].id = slot[s].id,
         net' \in NetState,
         \A id \in Ids : net'[id] = net[id] \/ (net[id] = "open" /\ net'[id] = "closing"),
         queue' = queue \/ (queue # << >> /\ queue' = Tail(queue))
  PROVE  CInv'
<1>1. queue \in Seq(Entry) /\ Len(queue) < QueueSize
  BY DEF CInv, TInv, Typed, Sized
<1>2. Len(queue') < QueueSize
  BY <1>1, TerminalAssumption
<1>3. ready \/ queue' = queue
  BY DEF CInv, SessionsMatchClients
<1>4. Sized'
  BY <1>2 DEF CInv, Sized
<1> QED BY <1>3, <1>4, SameSessions DEF CInv

\* A slot that gets one of its fields changed, but not its id
LEMMA SameIds ==
  ASSUME Typed
  PROVE  /\ \A s : slot' = [slot EXCEPT ![s].recent = FALSE] => \A t \in Slots : slot'[t].id = slot[t].id
         /\ \A s : slot' = [slot EXCEPT ![s].init = FALSE] => \A t \in Slots : slot'[t].id = slot[t].id
         /\ Flushed => \A t \in Slots : slot'[t].id = slot[t].id
         /\ \A right \in BOOLEAN : Login(right) => \A t \in Slots : slot'[t].id = slot[t].id
         /\ Logout => \A t \in Slots : slot'[t].id = slot[t].id
         /\ Help => \A t \in Slots : slot'[t].id = slot[t].id
<1>1. \A t \in Slots : slot[t] \in SlotState
  BY SlotFields
<1>2. \A s : slot' = [slot EXCEPT ![s].recent = FALSE] => \A t \in Slots : slot'[t].id = slot[t].id
  BY <1>1 DEF Typed, SlotState
<1>3. \A s : slot' = [slot EXCEPT ![s].init = FALSE] => \A t \in Slots : slot'[t].id = slot[t].id
  BY <1>1 DEF Typed, SlotState
<1>4. Flushed => \A t \in Slots : slot'[t].id = slot[t].id
  BY <1>1 DEF Flushed, SlotState
<1>5. ASSUME NEW right \in BOOLEAN, Login(right), NEW t \in Slots
      PROVE  slot'[t].id = slot[t].id
  <2>1. CASE slot' = slot
    BY <2>1
  <2>2. CASE slot' # slot
    <3>1. PICK s \in Mine :
            Put(s, IF right
                   THEN [slot[s] EXCEPT !.auth = TRUE, !.fails = 0, !.recent = FALSE]
                   ELSE [slot[s] EXCEPT !.fails = (@ + 1) % FailWrap, !.recent = TRUE])
      BY <1>5, <2>2, ZenonT(30) DEF Login
    <3>2. s \in Slots
      BY DEF Mine, SlotsOf
    <3>3. \A r \in SlotState : /\ [r EXCEPT !.auth = TRUE, !.fails = 0, !.recent = FALSE].id = r.id
                              /\ [r EXCEPT !.fails = (@ + 1) % FailWrap, !.recent = TRUE].id = r.id
      BY RightWord, WrongWord
    <3>4. PICK new : slot' = [slot EXCEPT ![s] = new] /\ new.id = slot[s].id
      BY <1>1, <3>1, <3>2, <3>3 DEF Put
    <3> QED BY <3>4 DEF Typed
  <2> QED BY <2>1, <2>2
<1>6. ASSUME Logout, NEW t \in Slots
      PROVE  slot'[t].id = slot[t].id
  <2>1. slot' = [s \in Slots |-> IF s \in Mine
                    THEN [slot[s] EXCEPT !.auth = FALSE, !.fails =
                            IF slot[s].auth THEN 0 ELSE @, !.recent = @ /\ ~slot[s].auth]
                    ELSE slot[s]]
    BY <1>6 DEF Logout
  <2>2. \A r \in SlotState :
           [r EXCEPT !.auth = FALSE, !.fails = IF r.auth THEN 0 ELSE @,
                     !.recent = @ /\ ~r.auth].id = r.id
    BY DEF SlotState
  <2> QED BY <1>1, <2>1, <2>2
<1>7. Help => \A t \in Slots : slot'[t].id = slot[t].id
  BY <1>1 DEF Help, Queued, SlotState
<1> QED BY <1>2, <1>3, <1>4, <1>5, <1>6, <1>7

LEMMA ExecuteSessions ==
  ASSUME CInv, Execute, TInv'
  PROVE  CInv'
<1>1. UNCHANGED <<ready, active, queue>>
  BY DEF Execute
<1>2. \A s \in Slots : slot'[s].id = slot[s].id
  <2>1. Typed
    BY DEF CInv, TInv
  <2>2. (\E right \in BOOLEAN : Login(right)) \/ Logout \/ Help \/ slot' = slot
    BY DEF Execute, SetCommand, SendNow, Decline
  <2> QED BY <2>1, <2>2, SameIds
<1>3. /\ ws' \in BOOLEAN /\ net' \in NetState
      /\ \A id \in Ids : net'[id] = net[id] \/ (net[id] = "open" /\ net'[id] = "closing")
  <2>1. CASE SendNow
    <3>1. CASE UNCHANGED <<net, ws>>
      BY <3>1 DEF CInv, Sized
    <3>2. CASE /\ ws' = FALSE
               /\ net' = [id \in Ids |-> IF id = loop.id /\ net[id] = "open" THEN "closing" ELSE net[id]]
      BY <3>2, Sessions DEF NetState
    <3> QED BY <2>1, <3>1, <3>2 DEF SendNow
  <2>2. CASE UNCHANGED <<net, ws>>
    BY <2>2 DEF CInv, Sized
  <2>3. SendNow \/ UNCHANGED <<net, ws>>
    BY DEF Execute, Login, Logout, SetCommand, Help, Decline
  <2> QED BY <2>1, <2>2, <2>3
<1> QED BY <1>1, <1>2, <1>3, OtherSessions

LEMMA InitCInv == Init => CInv
<1> SUFFICES ASSUME Init PROVE CInv
  OBVIOUS
<1>1. TInv
  BY InitTInv
<1>2. Sized
  <2>1. Len(queue) < QueueSize
    BY TerminalAssumption DEF Init
  <2> QED BY <2>1 DEF Init, Sized, NetState
<1>3. Used = {} /\ \A s \in Slots : ~InUse(s)
  BY DEF Init, Used, InUse, Free
<1>4. active = Cardinality({s \in Slots : InUse(s)})
  BY <1>3, FS_EmptySet DEF Init, Used
<1>5. \A id \in Ids : net[id] # "open"
  BY DEF Init
<1> QED BY <1>1, <1>2, <1>3, <1>4, <1>5 DEF CInv, SessionsMatchClients, Init

LEMMA StepKeepsSessions ==
  ASSUME CInv, [Next]_vars
  PROVE  CInv'
<1>1. TInv' /\ Typed
  BY StepKeeps DEF CInv, TInv
<1>2. ws \in BOOLEAN /\ net \in NetState
  BY DEF CInv, Sized
<1>3. CASE Execute
  BY <1>1, <1>3, ExecuteSessions
<1>4. CASE Begin
  <2>1. PICK late \in SUBSET {id \in Ids : net[id] = "open" /\ SlotsOf(id) # {}} :
          net' = [id \in Ids |-> IF id \in late THEN "closing" ELSE net[id]]
    BY <1>4 DEF Begin
  <2>2. UNCHANGED <<ready, slot, active, queue, ws>>
    BY <1>4 DEF Begin
  <2>3. net' \in NetState
    BY <1>2, <2>1 DEF NetState
  <2> QED BY <1>1, <1>2, <2>1, <2>2, <2>3, OtherSessions
<1>5. CASE FlushOutput
  <2>1. UNCHANGED <<net, ready, active, queue, ws>> /\ Flushed
    BY <1>5 DEF FlushOutput
  <2> QED BY <1>1, <1>2, <2>1, SameIds, OtherSessions
<1>6. CASE Greeted
  <2>1. /\ UNCHANGED <<net, ready, active, queue, ws>>
        /\ slot' = slot \/ slot' = [slot EXCEPT ![loop.slot].init = FALSE]
    BY <1>6 DEF Greeted
  <2>2. \A s \in Slots : slot'[s].id = slot[s].id
    BY <1>1, <2>1, SameIds
  <2> QED BY <1>1, <1>2, <2>1, <2>2, OtherSessions
<1>7. CASE Pop
  <2>1. UNCHANGED <<net, ready, active, ws>>
    BY <1>7 DEF Pop
  <2>2. \A s \in Slots : slot'[s].id = slot[s].id
    <3>1. Flushed \/ slot' = slot
      BY <1>7 DEF Pop
    <3> QED BY <1>1, <3>1, SameIds
  <2>3. queue' = queue \/ (queue # << >> /\ queue' = Tail(queue))
    BY <1>7 DEF Pop, Taken
  <2> QED BY <1>1, <1>2, <2>1, <2>2, <2>3, OtherSessions
<1>8. CASE \E s \in Slots : Greet(s)
  <2>1. UNCHANGED <<net, ready, slot, active, queue, ws>>
    BY <1>8 DEF Greet
  <2> QED BY <1>1, <1>2, <2>1, OtherSessions
<1>9. CASE \E id \in Ids : OnConnect(id) \/ OnDisconnect(id) \/ \E c \in Commands : OnData(id, c)
  BY <1>1, <1>9, ConnectSessions, DisconnectSessions, DataSessions
<1>12. CASE \E id \in Ids : TurnAway(id) \/ OnStrayData(id)
  BY <1>1, <1>12, StraySessions
<1>10. CASE \E s \in Slots : Cool(s)
  <2>1. PICK s \in Slots : slot' = [slot EXCEPT ![s].recent = FALSE]
    BY <1>10 DEF Cool
  <2>2. UNCHANGED <<net, ready, active, queue, ws>>
    BY <1>10 DEF Cool
  <2>3. \A t \in Slots : slot'[t].id = slot[t].id
    BY <1>1, <2>1, SameIds
  <2> QED BY <1>1, <1>2, <2>2, <2>3, OtherSessions
<1>11. CASE RestoreWs \/ Others \/ UNCHANGED vars
  <2>1. UNCHANGED <<net, ready, slot, active, queue>> /\ ws' \in BOOLEAN
    BY <1>2, <1>11 DEF RestoreWs, Others, term, vars
  <2> QED BY <1>1, <1>2, <2>1, OtherSessions
<1> QED BY <1>3, <1>4, <1>5, <1>6, <1>7, <1>8, <1>9, <1>10, <1>11, <1>12 DEF Next, Handle

\* In every order of connects, closes, disconnects, commands and passes, for any
\* number of connections and slots and any queue, a session is that of one client
\* which is still there, the count of sessions is exact, every open client has a
\* session, and without buffers there is neither a session nor a command.
THEOREM SessionsStay == Spec => []Coherent
<1>1. CInv => Coherent
  <2> SUFFICES ASSUME CInv PROVE Coherent
    OBVIOUS
  <2>1. SettingsTypeOK /\ Typed /\ Sized /\ SessionsMatchClients
    BY DEF CInv, TInv, SInv
  <2>2. active \in 0 .. Cardinality(Slots)
    BY Sessions
  <2>3. TypeOK
    BY <2>1, <2>2 DEF TypeOK, Typed, Sized, SlotState, LoopState, SeenState, NetState
  <2> QED BY <2>1, <2>3 DEF Coherent
<1> QED BY <1>1, InitCInv, StepKeepsSessions, PTL DEF Spec
=============================================================================
