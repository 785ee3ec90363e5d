--------------------------- MODULE Network_proofs ---------------------------
(***************************************************************************)
(* What Network promises for any networks, any length of the list and any  *)
(* number of failures and requests: every state is well typed, no scan     *)
(* outlives the state it belongs to, the list keeps what users were told,  *)
(* the portal is the last resort, and observers see the phases they rely   *)
(* on. The handlers are operators on one record, so the invariant is a     *)
(* predicate over such a record (Good), and each operator has a lemma that *)
(* says what it keeps.                                                     *)
(***************************************************************************)
EXTENDS Network, FiniteSetTheorems, WellFoundedInduction, TLAPS

Lists == [Index -> Saved \cup {None}]

\* KnownAreKept
Kept(n) ==
  ~n.unsaved => /\ Stored(n.file) = n.told
                /\ n.loaded => Stored(n.ram) = n.told

\* NoOrphanScan, ApMeansPortal, the portal's server runs in the portal only,
\* and the results a scan of the manager finds are not those of the portal's
\* scan, which goes on channel by channel.
Tidy(n) ==
  /\ n.roam \/ n.snapReq \/ n.snapRun => n.state = "CONNECTED_STA"
  /\ ~n.late => /\ n.lite \/ n.forced => n.state = "PORTAL_MODE"
                /\ n.scan => n.state \in {"SCANNING", "PORTAL_MODE"}
                /\ n.ap => n.state = "PORTAL_MODE"
  /\ n.up => n.state = "PORTAL_MODE"
  /\ n.state = "SCANNING" /\ n.results => n.radio # "lite"

\* A network that getNextCredential has still to return.
Waits(n, c) ==
  \/ c \in GH /\ c \notin n.tried /\ n.level[c] # Away
  \/ \E i \in Index : i > n.index /\ n.ram[i] = c /\ n.level[c] # Away

\* What is due is still waiting, and no late scan can change that, unless the
\* attempts began with roaming.
Eager(n) == ~n.roamed => \A c \in n.due : n.loaded /\ n.radio # "lite" /\ Waits(n, c)

Hopeful(n) == n.state = "CONNECTING_STA" => Eager(n)

Good(n) == n \in NetType /\ Kept(n) /\ Tidy(n) /\ Hopeful(n)

IInv == Good(net) /\ faults \in 0 .. MaxFaults /\ edits \in 0 .. MaxEdits

\* What Tidy and Hopeful read apart from the list is the same.
SameControl(n, m) ==
  /\ m.state = n.state /\ m.up = n.up /\ m.late = n.late /\ m.ap = n.ap
  /\ m.scan = n.scan /\ m.lite = n.lite /\ m.forced = n.forced
  /\ m.roam = n.roam /\ m.snapReq = n.snapReq /\ m.snapRun = n.snapRun
  /\ m.radio = n.radio /\ m.results = n.results

\* What Kept reads is the same.
SameList(n, m) ==
  /\ m.file = n.file /\ m.told = n.told /\ m.unsaved = n.unsaved
  /\ m.loaded = n.loaded /\ m.ram = n.ram

\* The place in the list and what is due are the same.
SameAttempt(n, m) ==
  m.tried = n.tried /\ m.index = n.index /\ m.due = n.due /\ m.roamed = n.roamed

\* What an operation on the list leads to.
Listed(n, m) == m \in NetType /\ Kept(m) /\ SameControl(n, m)

-----------------------------------------------------------------------------
(* Packing and sorting lose nothing                                        *)

StrictOrder(before) ==
  /\ \A i \in Index : <<i, i>> \notin before
  /\ \A i, j \in Index : i # j => <<i, j>> \in before \/ <<j, i>> \in before
  /\ \A i, j, k \in Index : <<i, j>> \in before /\ <<j, k>> \in before => <<i, k>> \in before

LEMMA IndexFinite == IsFiniteSet(Index) /\ Cardinality(Index) = MaxSaved /\ Index \subseteq Nat
BY NetworkAssumption, FS_Interval DEF NetworkAssumption, Index

LEMMA Smaller ==
  ASSUME NEW T, IsFiniteSet(T), NEW S \in SUBSET T, NEW x \in T, x \notin S
  PROVE /\ IsFiniteSet(S) /\ Cardinality(S) \in Nat
        /\ Cardinality(T) \in Nat /\ Cardinality(S) < Cardinality(T)
<1>1. S # T
  OBVIOUS
<1> QED
  BY <1>1, FS_Subset, FS_CardinalityType

LEMMA Places ==
  /\ 0 \in 0 .. MaxSaved /\ MaxSaved \in 0 .. MaxSaved /\ Index \subseteq 0 .. MaxSaved
  /\ 0 \in 0 .. Channels
BY NetworkAssumption DEF NetworkAssumption, Index

LEMMA RankedKeeps ==
  ASSUME NEW list \in Lists, NEW before, StrictOrder(before)
  PROVE /\ Ranked(list, before) \in Lists
        /\ Stored(Ranked(list, before)) = Stored(list)
<1> DEFINE full == {j \in Index : list[j] # None}
           Ahead(j) == {k \in full : <<k, j>> \in before}
           At(i) == {j \in full : Cardinality(Ahead(j)) = i - 1}
           r == Ranked(list, before)
<1>1. r = [i \in Index |-> IF At(i) = {} THEN None ELSE list[CHOOSE j \in At(i) : TRUE]]
  BY DEF Ranked
<1>2. \A i \in Index : At(i) # {} => (CHOOSE j \in At(i) : TRUE) \in At(i)
  OBVIOUS
<1>3. r \in Lists
  BY <1>1, <1>2 DEF Lists
<1>4. IsFiniteSet(full) /\ Cardinality(full) <= MaxSaved
  BY IndexFinite, FS_Subset
<1>5. ASSUME NEW j \in full
      PROVE /\ IsFiniteSet(Ahead(j)) /\ Cardinality(Ahead(j)) \in Nat
            /\ Cardinality(Ahead(j)) < MaxSaved
  <2>1. Ahead(j) \subseteq full /\ j \in full /\ j \notin Ahead(j)
    BY DEF StrictOrder
  <2> HIDE DEF Ahead, full
  <2>2. /\ IsFiniteSet(Ahead(j)) /\ Cardinality(Ahead(j)) \in Nat
        /\ Cardinality(full) \in Nat /\ Cardinality(Ahead(j)) < Cardinality(full)
    BY <1>4, <2>1, Smaller
  <2> QED
    BY <1>4, <2>2, NetworkAssumption DEF NetworkAssumption
<1>6. ASSUME NEW j \in full, NEW k \in full, <<k, j>> \in before
      PROVE Cardinality(Ahead(k)) < Cardinality(Ahead(j))
  <2>1. Ahead(k) \subseteq Ahead(j) /\ k \in Ahead(j) /\ k \notin Ahead(k)
    BY <1>6 DEF StrictOrder
  <2>2. IsFiniteSet(Ahead(j))
    BY <1>5
  <2> HIDE DEF Ahead
  <2> QED
    BY <2>1, <2>2, Smaller
<1>7. ASSUME NEW j \in full, NEW k \in full, Cardinality(Ahead(k)) = Cardinality(Ahead(j))
      PROVE k = j
  <2>1. k # j => <<k, j>> \in before \/ <<j, k>> \in before
    BY DEF StrictOrder
  <2>2. Cardinality(Ahead(j)) \in Nat /\ Cardinality(Ahead(k)) \in Nat
    BY <1>5
  <2>3. /\ <<k, j>> \in before => Cardinality(Ahead(k)) < Cardinality(Ahead(j))
        /\ <<j, k>> \in before => Cardinality(Ahead(j)) < Cardinality(Ahead(k))
    BY <1>6
  <2> QED
    BY <1>7, <2>1, <2>2, <2>3
<1>8. ASSUME NEW j \in full PROVE list[j] \in Stored(r)
  <2> DEFINE i == Cardinality(Ahead(j)) + 1
  <2>1. i \in Index /\ Cardinality(Ahead(j)) = i - 1
    <3>1. Cardinality(Ahead(j)) \in Nat /\ Cardinality(Ahead(j)) < MaxSaved
      BY <1>5
    <3> HIDE DEF Ahead
    <3> QED
      BY <3>1, NetworkAssumption DEF NetworkAssumption, Index
  <2>2. j \in At(i)
    BY <2>1
  <2>3. \A k \in At(i) : k = j
    <3> SUFFICES ASSUME NEW k \in At(i) PROVE k = j
      OBVIOUS
    <3>1. k \in full /\ Cardinality(Ahead(k)) = i - 1
      OBVIOUS
    <3> QED
      BY <2>1, <3>1, <1>7
  <2>4. r[i] = list[j]
    <3> HIDE DEF At, i
    <3> QED
      BY <1>1, <2>1, <2>2, <2>3
  <2> QED
    BY <2>1, <2>4 DEF Stored
<1>9. ASSUME NEW i \in Index, r[i] # None PROVE r[i] \in Stored(list)
  BY <1>1, <1>2, <1>9 DEF Stored
<1>10. Stored(list) \subseteq Stored(r)
  BY <1>8 DEF Stored
<1>11. Stored(r) \subseteq Stored(list)
  BY <1>9 DEF Stored
<1> QED
  BY <1>3, <1>10, <1>11

LEMMA PackedKeeps ==
  ASSUME NEW list \in Lists
  PROVE Packed(list) \in Lists /\ Stored(Packed(list)) = Stored(list)
<1> DEFINE before == {p \in Index \X Index : p[1] < p[2]}
<1>1. \A i, j \in Index : <<i, j>> \in before <=> i < j
  OBVIOUS
<1>2. StrictOrder(before)
  <2> HIDE DEF before
  <2> QED
    BY <1>1, IndexFinite DEF StrictOrder
<1> QED
  BY <1>2, RankedKeeps DEF Packed

LEMMA SortedKeeps ==
  ASSUME NEW list \in Lists, NEW level \in [Creds -> Away .. Strong]
  PROVE Sorted(list, level) \in Lists /\ Stored(Sorted(list, level)) = Stored(list)
<1> DEFINE Level(i) == IF list[i] = None THEN Away ELSE level[list[i]]
           before == {p \in Index \X Index : \/ Level(p[1]) > Level(p[2])
                                             \/ Level(p[1]) = Level(p[2]) /\ p[1] < p[2]}
<1>1. \A i, j \in Index : <<i, j>> \in before <=> \/ Level(i) > Level(j)
                                                  \/ Level(i) = Level(j) /\ i < j
  OBVIOUS
<1>2. \A i \in Index : Level(i) \in Away .. Strong
  BY DEF Lists, Creds, Away, Strong
<1>3. StrictOrder(before)
  <2> HIDE DEF before, Level
  <2> QED
    BY <1>1, <1>2, IndexFinite DEF StrictOrder, Away, Strong
<1> QED
  BY <1>3, RankedKeeps DEF Sorted

LEMMA NoSavedIsList == NoSaved \in Lists
BY DEF NoSaved, Lists

-----------------------------------------------------------------------------
(* The list of known networks                                              *)

LEMMA LevelOfRestored == \A c : Restored(c) \in Away .. Strong
BY DEF Restored, Away, Assumed, Strong

LEMMA LoadedKeeps ==
  ASSUME NEW n \in NetType, Kept(n)
  PROVE /\ Listed(n, Loaded(n)) /\ SameAttempt(n, Loaded(n)) /\ Loaded(n).loaded
        /\ n.loaded => Loaded(n) = n
<1>1. CASE n.loaded
  BY <1>1 DEF Loaded, Listed, SameControl, SameAttempt, NetType
<1>2. CASE ~n.loaded
  <2> DEFINE level == [c \in Creds |-> IF c \in Saved THEN Restored(c) ELSE n.level[c]]
             m == [n EXCEPT !.loaded = TRUE, !.ram = n.file, !.level = level]
  <2>1. Loaded(n) = m
    BY <1>2 DEF Loaded
  <2>2. level \in [Creds -> Away .. Strong]
    BY LevelOfRestored DEF NetType
  <2> HIDE DEF level
  <2>3. m \in NetType
    BY <2>2, ZenonT(100) DEF NetType
  <2>4. m.ram = n.file /\ m.file = n.file /\ m.unsaved = n.unsaved /\ m.told = n.told /\ m.loaded
    BY DEF NetType
  <2>5. Kept(m)
    BY <2>4 DEF Kept
  <2>6. SameControl(n, m) /\ SameAttempt(n, m)
    BY DEF NetType, SameControl, SameAttempt
  <2> HIDE DEF m
  <2> QED
    BY <1>2, <2>1, <2>3, <2>4, <2>5, <2>6 DEF Listed
<1> QED
  BY <1>1, <1>2

LEMMA ReleasedKeeps ==
  ASSUME NEW n \in NetType, Kept(n)
  PROVE /\ Listed(n, Released(n))
        /\ Released(n).due = n.due /\ Released(n).roamed = n.roamed
<1>1. CASE ~n.loaded
  BY <1>1 DEF Released, Listed, SameControl, NetType
<1>2. CASE n.loaded
  <2> DEFINE level == [c \in Creds |-> IF c \in Saved THEN Away ELSE n.level[c]]
             m == [n EXCEPT !.loaded = FALSE, !.ram = NoSaved, !.level = level]
  <2>1. Released(n) = m
    BY <1>2 DEF Released
  <2>2. level \in [Creds -> Away .. Strong]
    BY DEF NetType, Away, Strong
  <2> HIDE DEF level
  <2>3. m \in NetType
    BY <2>2, NoSavedIsList, ZenonT(100) DEF NetType, Lists
  <2>4. /\ m.file = n.file /\ m.unsaved = n.unsaved /\ m.told = n.told /\ ~m.loaded
        /\ SameControl(n, m) /\ m.due = n.due /\ m.roamed = n.roamed
    BY DEF NetType, SameControl
  <2>5. Kept(m)
    BY <2>4 DEF Kept
  <2> HIDE DEF m
  <2> QED
    BY <2>1, <2>3, <2>4, <2>5 DEF Listed
<1> QED
  BY <1>1, <1>2

LEMMA UpdateFromScanKeeps ==
  ASSUME NEW n \in NetType, Kept(n), NEW seen \in Sightings
  PROVE /\ Listed(n, UpdateFromScan(n, seen)) /\ SameAttempt(n, UpdateFromScan(n, seen))
        /\ UpdateFromScan(n, seen).loaded
<1> DEFINE m == Loaded(n)
           known == GH \cup Stored(m.ram)
           level == [c \in Creds |-> IF c \notin known THEN m.level[c]
                                     ELSE IF c \in DOMAIN seen THEN seen[c] ELSE Restored(c)]
           k == [m EXCEPT !.level = level, !.ram = Sorted(m.ram, level)]
<1>1. UpdateFromScan(n, seen) = k
  BY DEF UpdateFromScan
<1>2. Listed(n, m) /\ SameAttempt(n, m) /\ m.loaded
  BY LoadedKeeps
<1> HIDE DEF m
<1>3. m \in NetType /\ Kept(m)
  BY <1>2 DEF Listed
<1>4. level \in [Creds -> Away .. Strong]
  <2>1. \A c \in DOMAIN seen : seen[c] \in Away .. Strong
    BY NetworkAssumption DEF NetworkAssumption, Sightings
  <2> QED
    BY <1>3, <2>1, LevelOfRestored DEF NetType
<1> HIDE DEF level
<1>5. m.ram \in Lists
  BY <1>3 DEF NetType, Lists
<1>6. Sorted(m.ram, level) \in Lists /\ Stored(Sorted(m.ram, level)) = Stored(m.ram)
  BY <1>4, <1>5, SortedKeeps
<1>7. k \in NetType
  BY <1>3, <1>4, <1>6, ZenonT(100) DEF NetType, Lists
<1>8. /\ k.file = m.file /\ k.unsaved = m.unsaved /\ k.told = m.told /\ k.loaded = m.loaded
      /\ k.ram = Sorted(m.ram, level) /\ SameControl(m, k) /\ SameAttempt(m, k)
  BY <1>3 DEF NetType, SameControl, SameAttempt
<1> HIDE DEF k
<1>9. Kept(k)
  BY <1>3, <1>6, <1>8 DEF Kept
<1> QED
  BY <1>1, <1>2, <1>7, <1>8, <1>9 DEF Listed, SameControl, SameAttempt

\* All that is due after a reset of the attempt waits for its try.
LEMMA ResetKeeps ==
  ASSUME NEW n \in NetType, Kept(n)
  PROVE /\ Listed(n, ResetConnectionAttempt(n))
        /\ n.loaded => \A c \in ResetConnectionAttempt(n).due :
                          /\ ResetConnectionAttempt(n).loaded
                          /\ Waits(ResetConnectionAttempt(n), c)
<1> DEFINE m == [n EXCEPT !.tried = {}, !.index = 0, !.due = InRange(n), !.roamed = FALSE]
<1>1. ResetConnectionAttempt(n) = m
  BY DEF ResetConnectionAttempt
<1>2. InRange(n) \subseteq Creds
  BY DEF InRange, Stored, NetType, Creds
<1>3. m \in NetType
  BY <1>2, Places, ZenonT(100) DEF NetType
<1>4. /\ SameList(n, m) /\ SameControl(n, m)
      /\ m.tried = {} /\ m.index = 0 /\ m.due = InRange(n) /\ ~m.roamed /\ m.level = n.level
  BY DEF NetType, SameList, SameControl
<1> HIDE DEF m
<1>5. Kept(m)
  BY <1>4 DEF Kept, SameList
<1>6. ASSUME NEW c \in m.due PROVE Waits(m, c)
  <2>1. c \in GH \cup Stored(n.ram) /\ n.level[c] # Away
    BY <1>4 DEF InRange
  <2>2. CASE c \in GH
    BY <1>4, <2>1, <2>2 DEF Waits
  <2>3. CASE c \in Stored(n.ram)
    <3>1. PICK i \in Index : n.ram[i] = c
      BY <2>3 DEF Stored
    <3>2. i > m.index
      BY <1>4, NetworkAssumption DEF Index, NetworkAssumption
    <3> QED
      BY <1>4, <2>1, <3>1, <3>2 DEF Waits, SameList
  <2> QED
    BY <2>1, <2>2, <2>3
<1> QED
  BY <1>1, <1>3, <1>4, <1>5, <1>6 DEF Listed, SameList

LEMMA First ==
  ASSUME NEW S \in SUBSET Nat, S # {}
  PROVE /\ (CHOOSE i \in S : \A j \in S : i <= j) \in S
        /\ \A j \in S : (CHOOSE i \in S : \A k \in S : i <= k) <= j
<1> DEFINE R == {p \in Nat \X Nat : p[1] < p[2]}
<1>1. IsWellFoundedOn(R, Nat)
  BY NatLessThanWellFounded, Zenon DEF OpToRel
<1>2. \E k \in S : \A j \in S : ~(<<j, k>> \in R)
  <2> HIDE DEF R
  <2> QED
    BY <1>1, WFMin
<1>3. \E k \in S : \A j \in S : k <= j
  <2>1. PICK k \in S : \A j \in S : ~(j < k)
    BY <1>2
  <2>2. \A j \in S : k \in Nat /\ j \in Nat /\ k <= j
    <3> HIDE DEF R
    <3> QED
      BY <2>1
  <2> QED
    BY <2>2
<1> QED
  BY <1>3

\* The networks of the greenhouse, by their places.
LEMMA Greenhouse ==
  /\ DOMAIN BuiltIns \subseteq Nat
  /\ \A i \in DOMAIN BuiltIns : BuiltIns[i] \in GH
  /\ GH \subseteq Creds /\ Saved \subseteq Creds /\ None \notin Creds
BY NetworkAssumption DEF NetworkAssumption, GH, Creds

\* Nothing that is due is passed over.
Tries(n, next) ==
  /\ Listed(n, next.net) /\ next.net.due = n.due /\ next.net.roamed = n.roamed
  /\ next.cred \in Creds \cup {None}
  /\ Eager(n) /\ next.cred = None => n.roamed \/ n.due = {}
  /\ Eager(n) /\ ~n.roamed => \A c \in n.due \ {next.cred} : next.net.loaded /\ Waits(next.net, c)

LEMMA NextKeeps ==
  ASSUME NEW n \in NetType, Kept(n)
  PROVE Tries(n, NextCredential(n))
<1> DEFINE gh == {i \in DOMAIN BuiltIns : BuiltIns[i] \notin n.tried /\ n.level[BuiltIns[i]] # Away}
           m == Loaded(n)
           rest == {i \in Index : i > m.index /\ m.ram[i] # None /\ m.level[m.ram[i]] # Away}
           FirstOf(S) == CHOOSE i \in S : \A j \in S : i <= j
           next == NextCredential(n)
           After == [i \in Index |-> i]
<1>1. next = IF gh # {}
             THEN [cred |-> BuiltIns[FirstOf(gh)], net |-> [n EXCEPT !.tried = @ \cup {BuiltIns[FirstOf(gh)]}]]
             ELSE IF rest # {}
             THEN [cred |-> m.ram[FirstOf(rest)], net |-> [m EXCEPT !.index = After[FirstOf(rest)]]]
             ELSE [cred |-> None, net |-> [m EXCEPT !.index = MaxSaved]]
  BY DEF NextCredential, NextWith
<1>2. /\ Listed(n, m) /\ SameAttempt(n, m) /\ m.loaded /\ (n.loaded => m = n)
      /\ m \in NetType /\ Kept(m)
  BY LoadedKeeps DEF Listed
<1> SUFFICES Tries(n, next)
  OBVIOUS
<1> HIDE DEF m, next, After
<1>3. CASE gh # {}
  <2> DEFINE c0 == BuiltIns[FirstOf(gh)]
             k == [n EXCEPT !.tried = @ \cup {c0}]
  <2>1. FirstOf(gh) \in gh
    BY <1>3, First, Greenhouse
  <2>2. c0 \in GH /\ c0 # None /\ c0 \in Creds
    BY <2>1, Greenhouse
  <2>3. next.cred = c0 /\ next.net = k
    BY <1>1, <1>3
  <2> HIDE DEF c0, gh
  <2>4. k \in NetType
    BY <2>2 DEF NetType
  <2>5. /\ SameList(n, k) /\ SameControl(n, k) /\ k.due = n.due /\ k.roamed = n.roamed
        /\ k.tried = n.tried \cup {c0} /\ k.index = n.index /\ k.level = n.level
    BY DEF NetType, SameList, SameControl
  <2> HIDE DEF k
  <2>6. Kept(k)
    BY <2>5 DEF Kept, SameList
  <2>7. ASSUME Eager(n), ~n.roamed, NEW c \in n.due \ {c0} PROVE k.loaded /\ Waits(k, c)
    BY <2>5, <2>7 DEF Eager, Waits, SameList
  <2> QED
    BY <2>2, <2>3, <2>4, <2>5, <2>6, <2>7 DEF Listed, Tries
<1>4. CASE gh = {} /\ rest # {}
  <2> DEFINE i0 == FirstOf(rest)
             c0 == m.ram[i0]
             k == [m EXCEPT !.index = i0]
  <2>1. i0 \in rest /\ \A j \in rest : i0 <= j
    BY <1>4, First, IndexFinite
  <2> HIDE DEF i0
  <2>2. i0 \in Index /\ c0 \in Saved /\ c0 # None /\ c0 \in Creds
    BY <1>2, <2>1, Greenhouse DEF NetType
  <2>3. next.cred = c0 /\ next.net = k
    <3>1. After[i0] = i0
      BY <2>2 DEF After
    <3> QED
      BY <1>1, <1>4, <3>1 DEF i0
  <2>4. k \in NetType
    BY <1>2, <2>2, Places DEF NetType
  <2>5. /\ SameList(m, k) /\ SameControl(m, k) /\ k.due = m.due /\ k.roamed = m.roamed
        /\ k.tried = m.tried /\ k.index = i0 /\ k.level = m.level
    BY <1>2, ZenonT(100) DEF NetType, SameList, SameControl
  <2>6. Kept(k)
    BY <1>2, <2>5 DEF Kept, SameList
  <2>7. ASSUME Eager(n), ~n.roamed, NEW c \in n.due \ {c0} PROVE k.loaded /\ Waits(k, c)
    <3>1. n.loaded /\ m = n /\ Waits(n, c)
      BY <1>2, <2>7 DEF Eager
    <3>2. ~(c \in GH /\ c \notin n.tried /\ n.level[c] # Away)
      BY <1>4 DEF GH
    <3>3. PICK i \in Index : i > n.index /\ n.ram[i] = c /\ n.level[c] # Away
      BY <3>1, <3>2 DEF Waits
    <3>4. c # None
      BY Greenhouse DEF NetType
    <3>5. i \in rest
      BY <3>1, <3>3, <3>4
    <3>6. i # i0
      BY <3>1, <3>3
    <3>7. i > i0
      BY <2>1, <2>2, <3>5, <3>6, IndexFinite
    <3> QED
      BY <2>5, <3>1, <3>3, <3>7 DEF Waits, SameList
  <2> HIDE DEF k
  <2>8. SameControl(n, k) /\ k.due = n.due /\ k.roamed = n.roamed
    BY <1>2, <2>5 DEF Listed, SameControl, SameAttempt
  <2> QED
    BY <2>2, <2>3, <2>4, <2>6, <2>7, <2>8 DEF Listed, Tries
<1>5. CASE gh = {} /\ rest = {}
  <2> DEFINE k == [m EXCEPT !.index = MaxSaved]
  <2>1. next.cred = None /\ next.net = k
    BY <1>1, <1>5
  <2>2. k \in NetType
    BY <1>2, Places DEF NetType
  <2>3. SameList(m, k) /\ SameControl(m, k) /\ k.due = m.due /\ k.roamed = m.roamed
    BY <1>2, ZenonT(100) DEF NetType, SameList, SameControl
  <2>4. Kept(k)
    BY <1>2, <2>3 DEF Kept, SameList
  <2>5. ASSUME Eager(n), ~n.roamed, NEW c \in n.due PROVE FALSE
    <3>1. n.loaded /\ m = n /\ Waits(n, c)
      BY <1>2, <2>5 DEF Eager
    <3>2. ~(c \in GH /\ c \notin n.tried /\ n.level[c] # Away)
      BY <1>5 DEF GH
    <3>3. c # None
      BY Greenhouse DEF NetType
    <3> QED
      BY <1>5, <3>1, <3>2, <3>3 DEF Waits
  <2> HIDE DEF k
  <2>6. SameControl(n, k) /\ k.due = n.due /\ k.roamed = n.roamed
    BY <1>2, <2>3 DEF Listed, SameControl, SameAttempt
  <2> QED
    BY <2>1, <2>2, <2>4, <2>5, <2>6 DEF Listed, Tries
<1> QED
  BY <1>3, <1>4, <1>5

LEMMA UnsavedIsTyped ==
  ASSUME NEW n \in NetType
  PROVE  [n EXCEPT !.unsaved = TRUE] \in NetType
BY ZenonT(100) DEF NetType

\* The file takes over the list, or it is known that it did not.
LEMMA SaveKeeps ==
  ASSUME NEW n \in NetType, ~n.unsaved => n.loaded /\ Stored(n.ram) = n.told,
         NEW k \in SaveToFile(n)
  PROVE Listed(n, k)
<1> DEFINE p == Packed(n.ram)
           a == [n EXCEPT !.file = p]
           b == [n EXCEPT !.unsaved = TRUE]
<1>1. p \in Lists /\ Stored(p) = Stored(n.ram)
  BY PackedKeeps DEF NetType, Lists
<1> HIDE DEF p
<1>2. a \in NetType /\ b \in NetType
  <2>1. a \in NetType
    BY <1>1 DEF NetType, Lists
  <2>2. b \in NetType
    BY UnsavedIsTyped
  <2> QED
    BY <2>1, <2>2
<1>3. /\ a.file = p /\ a.ram = n.ram /\ a.told = n.told /\ a.unsaved = n.unsaved
      /\ SameControl(n, a) /\ SameControl(n, b) /\ b.unsaved
  BY DEF NetType, SameControl
<1>4. k = a \/ k = b
  BY DEF SaveToFile, p
<1> HIDE DEF a, b
<1>5. Kept(a) /\ Kept(b)
  BY <1>1, <1>3 DEF Kept
<1> QED
  BY <1>2, <1>3, <1>4, <1>5 DEF Listed

LEMMA AddKeeps ==
  ASSUME NEW n \in NetType, Kept(n), NEW c \in Saved, NEW k \in AddCredential(n, c)
  PROVE Listed(n, k)
<1> DEFINE m == Loaded(n)
           At(i) == [m EXCEPT !.ram[i] = c, !.level[c] = Restored(c),
                              !.due = @ \ {c}, !.told = @ \cup {c}]
<1>1. Listed(n, m) /\ m.loaded /\ m \in NetType /\ Kept(m)
  BY LoadedKeeps DEF Listed
<1>2. k = m \/ \E i \in Index : m.ram[i] \in {None, c} /\ k \in SaveToFile(At(i))
  <2> DEFINE places == {i \in Index : m.ram[i] = c}
             empty == {i \in Index : m.ram[i] = None}
             FirstOf(S) == CHOOSE i \in S : \A j \in S : i <= j
  <2>1. /\ places # {} => FirstOf(places) \in places
        /\ empty # {} => FirstOf(empty) \in empty
    BY First, IndexFinite
  <2>2. \/ places # {} /\ k \in SaveToFile(At(FirstOf(places)))
        \/ empty # {} /\ k \in SaveToFile(At(FirstOf(empty)))
        \/ k = m
    BY DEF AddCredential
  <2> HIDE DEF m, At, FirstOf
  <2> QED
    BY <2>1, <2>2
<1> HIDE DEF m
<1>3. ASSUME NEW i \in Index, m.ram[i] \in {None, c}, k \in SaveToFile(At(i))
      PROVE Listed(n, k)
  <2>1. At(i).level = [m.level EXCEPT ![c] = Restored(c)] /\ At(i).ram = [m.ram EXCEPT ![i] = c]
    BY <1>1 DEF NetType
  <2>2. [m.level EXCEPT ![c] = Restored(c)] \in [Creds -> Away .. Strong]
    BY <1>1, LevelOfRestored DEF NetType
  <2>3. [m.ram EXCEPT ![i] = c] \in Lists
    BY <1>1 DEF NetType, Lists
  <2>4. At(i) \in NetType
    <3> DEFINE ram == [m.ram EXCEPT ![i] = c]
               level == [m.level EXCEPT ![c] = Restored(c)]
               due == m.due \ {c}
               told == m.told \cup {c}
    <3>1. At(i) = [m EXCEPT !.ram = ram, !.level = level, !.due = due, !.told = told]
      OBVIOUS
    <3>2. ram \in Lists /\ level \in [Creds -> Away .. Strong]
      BY <2>2, <2>3
    <3>3. due \in SUBSET Creds /\ told \in SUBSET Saved
      BY <1>1 DEF NetType
    <3> HIDE DEF ram, level, due, told, At
    <3>4. [m EXCEPT !.ram = ram, !.level = level, !.due = due, !.told = told] \in NetType
      BY <1>1, <3>2, <3>3, ZenonT(100) DEF NetType, Lists
    <3> QED
      BY <3>1, <3>4
  <2>5. /\ At(i).told = m.told \cup {c} /\ At(i).unsaved = m.unsaved /\ At(i).loaded
        /\ SameControl(m, At(i))
    BY <1>1 DEF NetType, SameControl
  <2>6. Stored(At(i).ram) = Stored(m.ram) \cup {c}
    <3>1. m.ram \in Lists /\ c # None
      BY <1>1, NetworkAssumption, ZenonT(100) DEF NetType, Lists, NetworkAssumption, Creds
    <3> QED
      BY <1>3, <2>1, <3>1 DEF Stored, Lists
  <2>7. ~m.unsaved => Stored(m.ram) = m.told
    BY <1>1 DEF Kept
  <2> HIDE DEF At
  <2>8. Listed(At(i), k)
    BY <1>3, <2>4, <2>5, <2>6, <2>7, SaveKeeps
  <2> QED
    BY <1>1, <2>5, <2>8 DEF Listed, SameControl
<1> QED
  BY <1>1, <1>2, <1>3

LEMMA RemoveKeeps ==
  ASSUME NEW n \in NetType, Kept(n), NEW c \in Saved, NEW k \in RemoveCredential(n, c)
  PROVE Listed(n, k)
<1> DEFINE m == Loaded(n)
           ram == [i \in Index |-> IF m.ram[i] = c THEN None ELSE m.ram[i]]
           level == [m.level EXCEPT ![c] = Away]
           a == [m EXCEPT !.ram = ram, !.level = level, !.due = @ \ {c}, !.told = @ \ {c}]
<1>1. Listed(n, m) /\ m.loaded /\ m \in NetType /\ Kept(m)
  BY LoadedKeeps DEF Listed
<1>2. k = m \/ k \in SaveToFile(a)
  BY DEF RemoveCredential
<1> HIDE DEF m
<1>3. ASSUME k \in SaveToFile(a) PROVE Listed(n, k)
  <2>1. ram \in Lists
    BY <1>1 DEF NetType, Lists
  <2>2. level \in [Creds -> Away .. Strong]
    <3>1. m.level \in [Creds -> Away .. Strong] /\ Away \in Away .. Strong
      BY <1>1 DEF NetType, Away, Strong
    <3> QED
      BY <3>1
  <2>3. Stored(ram) = Stored(m.ram) \ {c}
    BY DEF Stored
  <2> HIDE DEF ram, level
  <2>4. a \in NetType
    BY <1>1, <2>1, <2>2, ZenonT(100) DEF NetType, Lists
  <2>5. /\ a.told = m.told \ {c} /\ a.unsaved = m.unsaved /\ a.loaded /\ a.ram = ram
        /\ SameControl(m, a)
    BY <1>1 DEF NetType, SameControl
  <2>6. ~m.unsaved => Stored(m.ram) = m.told
    BY <1>1 DEF Kept
  <2> HIDE DEF a
  <2>7. Listed(a, k)
    BY <1>3, <2>3, <2>4, <2>5, <2>6, SaveKeeps
  <2> QED
    BY <1>1, <2>5, <2>7 DEF Listed, SameControl
<1> QED
  BY <1>1, <1>2, <1>3

-----------------------------------------------------------------------------
(* Steps that leave the list alone                                         *)

\* A step that leaves the list alone keeps it.
LEMMA KeptIsOfList == ASSUME NEW n, NEW m, Kept(n), SameList(n, m) PROVE Kept(m)
BY DEF Kept, SameList

\* Of the control, an operation on the list changes nothing.
LEMMA TidyIsOfControl == ASSUME NEW n, NEW m, Tidy(n), SameControl(n, m) PROVE Tidy(m)
BY DEF Tidy, SameControl

\* What a step that leaves the list alone leads to.
Stepped(n, m) == m \in NetType /\ SameList(n, m)

LEMMA ConnectSteps ==
  ASSUME NEW n \in NetType, NEW c \in Creds \cup {None}
  PROVE /\ Stepped(n, Connect(n, c)) /\ SameControl(n, Connect(n, c))
        /\ SameAttempt(n, Connect(n, c)) /\ Connect(n, c).level = n.level
<1>1. None \in Creds \cup {None}
  OBVIOUS
<1> QED
  BY <1>1, ZenonT(100) DEF NetType, Connect, Stepped, SameList, SameControl, SameAttempt

\* The state changes, and with it the portal's server and what is due.
Changed(n, s, m) ==
  /\ m \in NetType /\ SameList(n, m) /\ m.state = s
  /\ m.late = n.late /\ m.ap = n.ap
  /\ m.scan = n.scan /\ m.lite = n.lite /\ m.forced = n.forced
  /\ m.roam = n.roam /\ m.snapReq = n.snapReq /\ m.snapRun = n.snapRun
  /\ m.radio = n.radio /\ m.results = n.results
  /\ m.up => s = "PORTAL_MODE"
  /\ m.tried = n.tried /\ m.index = n.index /\ m.level = n.level
  /\ s = "CONNECTING_STA" => m.due = n.due /\ m.roamed = n.roamed

LEMMA SetStateSteps ==
  ASSUME NEW n \in NetType, NEW s \in States, n.up => n.state = "PORTAL_MODE"
  PROVE  Changed(n, s, SetState(n, s))
<1>1. CASE s = n.state
  BY <1>1 DEF SetState, Changed, SameList
<1>2. CASE s # n.state /\ s = "PORTAL_MODE"
  <2> DEFINE m == [n EXCEPT !.state = s, !.up = TRUE, !.status = "idle", !.reboot = FALSE,
                         !.due = {}, !.roamed = FALSE]
  <2>1. m \in NetType
    BY ZenonT(100) DEF NetType
  <2>2. Changed(n, s, m)
    BY <1>2, <2>1 DEF NetType, Changed, SameList
  <2> QED
    BY <1>2, <2>2 DEF SetState
<1>3. CASE s # n.state /\ s # "PORTAL_MODE"
  <2> DEFINE due == IF s = "CONNECTED_STA" THEN {} ELSE n.due
             roamed == n.roamed /\ s # "CONNECTED_STA"
             m == [n EXCEPT !.state = s, !.up = FALSE, !.due = due, !.roamed = roamed]
  <2>1. /\ due \in SUBSET Creds /\ roamed \in BOOLEAN
        /\ s = "CONNECTING_STA" => due = n.due /\ roamed = n.roamed
    BY DEF NetType
  <2>2. SetState(n, s) = m
    BY <1>3 DEF SetState
  <2> HIDE DEF due, roamed
  <2>3. m \in NetType
    BY <2>1, ZenonT(100) DEF NetType
  <2>4. Changed(n, s, m)
    BY <1>3, <2>1, <2>3 DEF NetType, Changed, SameList
  <2> QED
    BY <2>2, <2>4
<1> QED
  BY <1>1, <1>2, <1>3

LEMMA StartAsyncSteps ==
  ASSUME NEW n \in NetType
  PROVE  LET m == StartAsync(n)
         IN /\ Stepped(n, m) /\ SameAttempt(n, m) /\ ~m.results
            /\ m.radio = IF n.radio = "idle" THEN "async" ELSE n.radio
            /\ m.state = n.state /\ m.up = n.up /\ m.late = n.late /\ m.ap = n.ap
            /\ m.scan = n.scan /\ m.lite = n.lite /\ m.forced = n.forced
            /\ m.roam = n.roam /\ m.snapReq = n.snapReq /\ m.snapRun = n.snapRun
<1> DEFINE radio == IF n.radio = "idle" THEN "async" ELSE n.radio
           m == [n EXCEPT !.results = FALSE, !.radio = radio]
<1>1. radio \in {"idle", "async", "lite"}
  BY DEF NetType
<1>2. StartAsync(n) = m
  BY DEF StartAsync
<1> HIDE DEF radio
<1>3. m \in NetType
  BY <1>1, ZenonT(100) DEF NetType
<1> QED
  BY <1>2, <1>3 DEF NetType, Stepped, SameList, SameAttempt, radio

LEMMA ScanDeleteSteps ==
  ASSUME NEW n \in NetType
  PROVE  LET m == ScanDelete(n)
         IN /\ Stepped(n, m) /\ SameAttempt(n, m) /\ ~m.results /\ m.radio = n.radio
            /\ m.state = n.state /\ m.up = n.up /\ m.late = n.late /\ m.ap = n.ap
            /\ m.scan = n.scan /\ m.lite = n.lite /\ m.forced = n.forced
            /\ m.roam = n.roam /\ m.snapReq = n.snapReq /\ m.snapRun = n.snapRun
            /\ m.level = n.level
<1> DEFINE m == [n EXCEPT !.results = FALSE]
<1>1. ScanDelete(n) = m
  BY DEF ScanDelete
<1>2. m \in NetType
  BY ZenonT(100) DEF NetType
<1> QED
  BY <1>1, <1>2 DEF NetType, Stepped, SameList, SameAttempt

\* The access point is open, and nothing else has changed for the manager.
Opened(n, m) ==
  /\ Stepped(n, m) /\ SameAttempt(n, m) /\ m.radio = n.radio /\ m.results = n.results
  /\ m.state = n.state /\ m.up = n.up /\ m.late = n.late
  /\ m.scan = n.scan /\ m.lite = n.lite /\ m.forced = n.forced
  /\ m.roam = n.roam /\ m.snapReq = n.snapReq /\ m.snapRun = n.snapRun

LEMMA PortalApSteps ==
  ASSUME NEW n \in NetType, NEW k \in PortalAp(n)
  PROVE  Opened(n, k)
<1>1. CASE k = [n EXCEPT !.ap = TRUE, !.sta = TRUE]
  BY <1>1, ZenonT(100) DEF NetType, Opened, Stepped, SameList, SameAttempt
<1>2. CASE k = [Disconnect(n) EXCEPT !.ap = TRUE, !.sta = FALSE]
  <2> DEFINE d == Connect(n, None)
  <2>1. Stepped(n, d) /\ SameControl(n, d) /\ SameAttempt(n, d)
    BY ConnectSteps
  <2>2. k = [d EXCEPT !.ap = TRUE, !.sta = FALSE]
    BY <1>2 DEF Disconnect
  <2> HIDE DEF d
  <2>3. d \in NetType
    BY <2>1 DEF Stepped
  <2>4. Opened(d, k)
    BY <2>2, <2>3, ZenonT(100) DEF NetType, Opened, Stepped, SameList, SameAttempt
  <2> QED
    BY <2>1, <2>4 DEF Opened, Stepped, SameList, SameControl, SameAttempt
<1> QED
  BY <1>1, <1>2 DEF PortalAp

LEMMA ClearedIsTyped ==
  ASSUME NEW n \in NetType
  PROVE  [n EXCEPT !.results = FALSE, !.scan = FALSE, !.roam = FALSE,
                   !.lite = FALSE, !.forced = FALSE,
                   !.snapReq = FALSE, !.snapRun = FALSE] \in NetType
BY ZenonT(100) DEF NetType

LEMMA StartPortalKeeps ==
  ASSUME NEW n \in NetType, Kept(n), n.up => n.state = "PORTAL_MODE",
         n.state = "PORTAL_MODE" => Tidy(n), NEW k \in StartPortal(n)
  PROVE  Good(k) /\ k.state = "PORTAL_MODE"
<1>1. CASE n.state = "PORTAL_MODE"
  BY <1>1 DEF StartPortal, Good, Hopeful
<1>2. CASE n.state # "PORTAL_MODE"
  <2> DEFINE F(m) == [m EXCEPT !.results = FALSE, !.scan = FALSE, !.roam = FALSE,
                               !.lite = FALSE, !.forced = FALSE,
                               !.snapReq = FALSE, !.snapRun = FALSE]
  <2>1. PICK m \in PortalAp(n) : k = SetState(F(m), "PORTAL_MODE")
    BY <1>2 DEF StartPortal
  <2>2. Opened(n, m) /\ m \in NetType
    BY PortalApSteps DEF Opened, Stepped
  <2>3. F(m) \in NetType
    BY <2>2, ClearedIsTyped
  <2> DEFINE f == F(m)
  <2>4. /\ f \in NetType /\ SameList(m, f) /\ f.state = m.state /\ f.up = m.up
        /\ ~f.roam /\ ~f.snapReq /\ ~f.snapRun
    BY <2>2, <2>3 DEF NetType, SameList
  <2> HIDE DEF F, f
  <2>5. Changed(f, "PORTAL_MODE", k)
    BY <2>1, <2>2, <2>4, SetStateSteps DEF Opened, States, f
  <2>6. Kept(k)
    BY <2>2, <2>4, <2>5 DEF Changed, Opened, Stepped, Kept, SameList
  <2>7. Tidy(k)
    BY <2>4, <2>5 DEF Changed, Tidy
  <2> QED
    BY <2>5, <2>6, <2>7 DEF Good, Hopeful, Changed
<1> QED
  BY <1>1, <1>2

LEMMA StartScanKeeps ==
  ASSUME NEW n, Good(n), n.state # "PORTAL_MODE", ~n.roam, ~n.snapReq, ~n.snapRun,
         NEW k \in StartScan(n)
  PROVE  Good(k) /\ k.state \in {n.state, "SCANNING", "PORTAL_MODE"}
<1> DEFINE f == [n EXCEPT !.scan = TRUE]
           a == StartAsync(f)
<1>1. (n.scan /\ k = n) \/ k \in StartPortal(n) \/ k = SetState(a, "SCANNING")
  BY DEF StartScan
<1>2. ASSUME k \in StartPortal(n) PROVE Good(k) /\ k.state = "PORTAL_MODE"
  BY <1>2, StartPortalKeeps DEF Good, Tidy
<1>3. ASSUME k = SetState(a, "SCANNING") PROVE Good(k) /\ k.state = "SCANNING"
  <2>1. n \in NetType /\ Kept(n) /\ Tidy(n)
    BY DEF Good
  <2>2. /\ f \in NetType /\ SameList(n, f) /\ f.state = n.state /\ f.up = n.up
        /\ f.late = n.late /\ f.ap = n.ap /\ f.lite = n.lite /\ f.forced = n.forced
        /\ ~f.roam /\ ~f.snapReq /\ ~f.snapRun
    BY <2>1, ZenonT(100) DEF NetType, SameList
  <2> HIDE DEF f
  <2>3. /\ Stepped(f, a) /\ ~a.results
        /\ a.state = f.state /\ a.up = f.up /\ a.late = f.late /\ a.ap = f.ap
        /\ a.lite = f.lite /\ a.forced = f.forced
        /\ a.roam = f.roam /\ a.snapReq = f.snapReq /\ a.snapRun = f.snapRun
    BY <2>2, StartAsyncSteps
  <2> HIDE DEF a
  <2>4. Changed(a, "SCANNING", k)
    BY <1>3, <2>1, <2>2, <2>3, SetStateSteps DEF States, Stepped, Tidy
  <2>5. Kept(k)
    BY <2>1, <2>2, <2>3, <2>4 DEF Changed, Stepped, Kept, SameList
  <2>6. Tidy(k)
    BY <2>1, <2>2, <2>3, <2>4 DEF Changed, Tidy
  <2> QED
    BY <2>4, <2>5, <2>6 DEF Good, Hopeful, Changed
<1> QED
  BY <1>1, <1>2, <1>3

\* No scan is under way, unless it is one that goes on from the portal.
Quiet(n) ==
  /\ ~n.roam /\ ~n.snapReq /\ ~n.snapRun
  /\ n.up => n.state = "PORTAL_MODE"
  /\ ~n.late => ~n.lite /\ ~n.forced /\ ~n.scan

LEMMA StartConnectionAttemptKeeps ==
  ASSUME NEW n \in NetType, Kept(n), Quiet(n), NEW c \in Creds,
         ~n.roamed => \A d \in n.due \ {c} : n.loaded /\ n.radio # "lite" /\ Waits(n, d)
  PROVE  /\ Good(StartConnectionAttempt(n, c))
         /\ StartConnectionAttempt(n, c).state = "CONNECTING_STA"
         /\ StartConnectionAttempt(n, c).roamed = n.roamed
<1> DEFINE m == Connect(n, c)
           f == [m EXCEPT !.ap = FALSE, !.sta = TRUE, !.due = @ \ {c}]
           k == SetState(f, "CONNECTING_STA")
<1>1. StartConnectionAttempt(n, c) = k
  BY DEF StartConnectionAttempt
<1>2. /\ Stepped(n, m) /\ SameControl(n, m) /\ SameAttempt(n, m) /\ m.level = n.level
      /\ m \in NetType
  BY ConnectSteps DEF Stepped
<1> HIDE DEF m
<1>3. m.due \ {c} \in SUBSET Creds
  BY <1>2 DEF NetType
<1>4. f \in NetType
  BY <1>2, <1>3, ZenonT(100) DEF NetType
<1>5. /\ SameList(m, f) /\ f.tried = m.tried /\ f.index = m.index /\ f.due = m.due \ {c}
      /\ f.roamed = m.roamed /\ f.level = m.level /\ f.state = m.state /\ f.up = m.up /\ f.late = m.late /\ ~f.ap
      /\ f.scan = m.scan /\ f.lite = m.lite /\ f.forced = m.forced
      /\ f.roam = m.roam /\ f.snapReq = m.snapReq /\ f.snapRun = m.snapRun
      /\ f.radio = m.radio
  BY <1>2 DEF NetType, SameList
<1> HIDE DEF f
<1>6. Changed(f, "CONNECTING_STA", k)
  BY <1>2, <1>4, <1>5, SetStateSteps DEF States, Quiet, SameControl
<1> HIDE DEF k
<1>7. Kept(k)
  BY <1>2, <1>5, <1>6 DEF Kept, Stepped, SameList, Changed
<1>8. Tidy(k)
  BY <1>2, <1>5, <1>6 DEF Tidy, Quiet, SameControl, Changed
<1>9. Eager(k)
  <2> SUFFICES ASSUME ~k.roamed, NEW d \in k.due PROVE k.loaded /\ k.radio # "lite" /\ Waits(k, d)
    BY DEF Eager
  <2>1. d \in n.due \ {c} /\ ~n.roamed
    BY <1>2, <1>5, <1>6 DEF Changed, SameAttempt
  <2>2. n.loaded /\ n.radio # "lite" /\ Waits(n, d)
    BY <2>1
  <2>3. /\ k.loaded = n.loaded /\ k.radio = n.radio /\ k.tried = n.tried
        /\ k.index = n.index /\ k.level = n.level /\ k.ram = n.ram
    BY <1>2, <1>5, <1>6 DEF Changed, SameAttempt, SameControl, Stepped, SameList
  <2> QED
    BY <2>2, <2>3 DEF Waits
<1>10. k.roamed = n.roamed
  BY <1>2, <1>5, <1>6 DEF Changed, SameAttempt
<1> QED
  BY <1>1, <1>6, <1>7, <1>8, <1>9, <1>10 DEF Good, Hopeful, Changed

LEMMA TryNextKeeps ==
  ASSUME NEW n \in NetType, Kept(n), Quiet(n), n.state # "PORTAL_MODE", Eager(n),
         NEW k \in TryNext(n)
  PROVE  Good(k) /\ (k.state = "PORTAL_MODE" => n.roamed \/ n.due = {})
<1> DEFINE next == NextCredential(n)
           m == next.net
<1>1. Tries(n, next)
  BY NextKeeps
<1>2. IF next.cred = None THEN k \in StartPortal(m) ELSE k = StartConnectionAttempt(m, next.cred)
  BY DEF TryNext
<1> HIDE DEF next
<1>3. m \in NetType /\ Kept(m) /\ SameControl(n, m) /\ m.due = n.due /\ m.roamed = n.roamed
  BY <1>1 DEF Tries, Listed
<1>4. CASE next.cred = None
  <2>1. Good(k)
    BY <1>2, <1>3, <1>4, StartPortalKeeps DEF SameControl, Quiet
  <2> QED
    BY <1>1, <1>4, <2>1 DEF Tries
<1>5. CASE next.cred # None
  <2>1. next.cred \in Creds
    BY <1>1, <1>5 DEF Tries
  <2>2. Quiet(m)
    BY <1>3 DEF Quiet, SameControl
  <2>3. ~m.roamed => \A d \in m.due \ {next.cred} : m.loaded /\ m.radio # "lite" /\ Waits(m, d)
    BY <1>1, <1>3 DEF Tries, Eager, SameControl
  <2> HIDE DEF m
  <2>4. Good(k) /\ k.state = "CONNECTING_STA"
    BY <1>2, <1>3, <1>5, <2>1, <2>2, <2>3, StartConnectionAttemptKeeps
  <2> QED
    BY <2>4
<1> QED
  BY <1>4, <1>5

\* The end of a scan in the portal, or of one that goes on from there.
Portal(n) == n.late \/ n.state = "PORTAL_MODE"

LEMMA FinalizeLiteScanKeeps ==
  ASSUME NEW n \in NetType, Kept(n), Tidy(n), Portal(n),
         n.state = "CONNECTING_STA" => n.roamed \/ n.due = {}, NEW k \in FinalizeLiteScan(n)
  PROVE  Good(k) /\ k.state = n.state
<1> DEFINE m == [n EXCEPT !.lite = FALSE, !.forced = FALSE, !.scan = FALSE, !.channel = 0]
<1>1. PICK j \in {m} \cup {UpdateFromScan(m, seen) : seen \in Sightings} : k \in PortalAp(j)
  BY DEF FinalizeLiteScan
<1>2. m \in NetType
  BY Places, ZenonT(100) DEF NetType
<1>3. /\ SameList(n, m) /\ m.state = n.state /\ m.up = n.up /\ m.late = n.late
      /\ m.due = n.due /\ m.roamed = n.roamed
      /\ ~m.lite /\ ~m.forced /\ ~m.scan
      /\ m.roam = n.roam /\ m.snapReq = n.snapReq /\ m.snapRun = n.snapRun
      /\ m.radio = n.radio /\ m.results = n.results
  BY DEF NetType, SameList
<1> HIDE DEF m
<1>4. Kept(m)
  BY <1>3, KeptIsOfList
<1>5. Listed(m, j) /\ j.due = m.due /\ j.roamed = m.roamed
  <2>1. CASE j = m
    BY <1>2, <1>4, <2>1 DEF Listed, SameControl
  <2>2. ASSUME NEW seen \in Sightings, j = UpdateFromScan(m, seen)
        PROVE Listed(m, j) /\ j.due = m.due /\ j.roamed = m.roamed
    BY <1>2, <1>4, <2>2, UpdateFromScanKeeps DEF SameAttempt
  <2> QED
    BY <1>1, <2>1, <2>2
<1>6. Opened(j, k)
  BY <1>1, <1>5, PortalApSteps DEF Listed
<1>7. k \in NetType /\ Kept(k) /\ k.due = n.due /\ k.roamed = n.roamed /\ k.state = n.state
  BY <1>3, <1>5, <1>6, KeptIsOfList DEF Listed, Opened, Stepped, SameControl, SameAttempt
<1>8. Tidy(k)
  BY <1>3, <1>5, <1>6 DEF Tidy, Portal, Listed, Opened, SameControl
<1>9. Hopeful(k)
  BY <1>7 DEF Hopeful, Eager
<1> QED
  BY <1>7, <1>8, <1>9 DEF Good

LEMMA LiteScanIsTyped ==
  ASSUME NEW n \in NetType
  PROVE  [n EXCEPT !.scan = TRUE, !.radio = "lite"] \in NetType
BY ZenonT(100) DEF NetType

LEMMA StartLiteScanChannelKeeps ==
  ASSUME NEW n, Good(n), Portal(n), n.state = "CONNECTING_STA" => n.roamed \/ n.due = {},
         n.state = "SCANNING" => ~n.results, NEW k \in StartLiteScanChannel(n)
  PROVE  Good(k) /\ k.state = n.state
<1> DEFINE m == [n EXCEPT !.force = FALSE, !.forced = TRUE, !.lite = TRUE,
                          !.ap = FALSE, !.sta = TRUE]
           s == [m EXCEPT !.scan = TRUE, !.radio = "lite"]
<1>1. k = n \/ k \in FinalizeLiteScan(m) \/ k = s
  BY DEF StartLiteScanChannel
<1>2. n \in NetType /\ Kept(n) /\ Tidy(n)
  BY DEF Good
<1>3. m \in NetType
  BY <1>2, ZenonT(100) DEF NetType
<1>4. /\ SameList(n, m) /\ m.state = n.state /\ m.up = n.up /\ m.late = n.late
      /\ m.due = n.due /\ m.roamed = n.roamed
      /\ m.scan = n.scan /\ ~m.ap /\ m.roam = n.roam /\ m.snapReq = n.snapReq
      /\ m.snapRun = n.snapRun /\ m.radio = n.radio /\ m.results = n.results
  BY <1>2 DEF NetType, SameList
<1> HIDE DEF m
<1>5. s \in NetType
  BY <1>3, LiteScanIsTyped
<1>6. /\ SameList(m, s) /\ s.state = m.state /\ s.up = m.up /\ s.late = m.late
      /\ s.due = m.due /\ s.roamed = m.roamed
      /\ ~s.ap /\ s.roam = m.roam /\ s.snapReq = m.snapReq
      /\ s.snapRun = m.snapRun /\ s.results = m.results
  BY <1>3, <1>4 DEF NetType, SameList
<1> HIDE DEF s
<1>7. Kept(m) /\ Kept(s)
  BY <1>2, <1>4, <1>6, KeptIsOfList
<1>8. Tidy(m) /\ Tidy(s)
  BY <1>2, <1>4, <1>6 DEF Tidy, Portal
<1>9. ASSUME k \in FinalizeLiteScan(m) PROVE Good(k) /\ k.state = n.state
  <2>1. Portal(m) /\ (m.state = "CONNECTING_STA" => m.roamed \/ m.due = {})
    BY <1>4 DEF Portal
  <2> QED
    BY <1>3, <1>4, <1>7, <1>8, <1>9, <2>1, FinalizeLiteScanKeeps
<1>10. ASSUME k = s PROVE Good(k) /\ k.state = n.state
  <2>1. Hopeful(s)
    BY <1>4, <1>6 DEF Hopeful, Eager
  <2> QED
    BY <1>4, <1>5, <1>6, <1>7, <1>8, <1>10, <2>1 DEF Good
<1> QED
  BY <1>1, <1>9, <1>10

-----------------------------------------------------------------------------
(* PortalServer::handle                                                    *)

\* A pass keeps the state of the manager.
LEMMA GoodOfPortal ==
  ASSUME NEW n, n \in NetType, Kept(n), Tidy(n), n.state # "CONNECTING_STA" PROVE Good(n)
BY DEF Good, Hopeful

LEMMA TestResultKeeps ==
  ASSUME NEW n, Good(n), n.state = "PORTAL_MODE", NEW k \in TestResult(n)
  PROVE  Good(k) /\ k.state = "PORTAL_MODE"
<1>1. n \in NetType /\ Kept(n) /\ Tidy(n)
  BY DEF Good
<1> DEFINE T(m) == [m EXCEPT !.status = "success", !.temp = None, !.reboot = TRUE]
           F(m) == [m EXCEPT !.status = "fail", !.temp = None]
<1>2. \/ k = n
      \/ \E m \in (IF n.temp = None THEN {n} ELSE AddCredential(n, n.temp)) : k = T(m)
      \/ \E m \in PortalAp(Disconnect(n)) : k = F(m)
  BY DEF TestResult
<1>3. ASSUME NEW m \in NetType
      PROVE /\ T(m) \in NetType /\ F(m) \in NetType
            /\ SameList(m, T(m)) /\ SameList(m, F(m))
            /\ SameControl(m, T(m)) /\ SameControl(m, F(m))
  <2>1. T(m) \in NetType
    BY ZenonT(100) DEF NetType
  <2>2. F(m) \in NetType
    BY ZenonT(100) DEF NetType
  <2> QED
    BY <2>1, <2>2 DEF NetType, SameList, SameControl
<1> HIDE DEF T, F
<1>4. ASSUME NEW m \in (IF n.temp = None THEN {n} ELSE AddCredential(n, n.temp)), k = T(m)
      PROVE Good(k) /\ k.state = "PORTAL_MODE"
  <2>1. Listed(n, m)
    <3>1. CASE n.temp = None
      BY <1>1, <3>1 DEF Listed, SameControl
    <3>2. CASE n.temp # None
      <4>1. n.temp \in Saved
        BY <1>1, <3>2 DEF NetType
      <4> QED
        BY <1>1, <3>2, <4>1, AddKeeps
    <3> QED
      BY <3>1, <3>2
  <2>2. m \in NetType /\ Kept(m) /\ Tidy(m) /\ m.state = "PORTAL_MODE"
    BY <1>1, <2>1, TidyIsOfControl DEF Listed, SameControl
  <2>3. T(m) \in NetType /\ Kept(T(m)) /\ Tidy(T(m)) /\ T(m).state = "PORTAL_MODE"
    BY <1>3, <2>2, KeptIsOfList, TidyIsOfControl DEF SameControl
  <2> QED
    BY <1>4, <2>3, GoodOfPortal
<1>5. ASSUME NEW m \in PortalAp(Disconnect(n)), k = F(m)
      PROVE Good(k) /\ k.state = "PORTAL_MODE"
  <2> DEFINE d == Disconnect(n)
  <2>1. Stepped(n, d) /\ SameControl(n, d) /\ d \in NetType
    BY <1>1, ConnectSteps DEF Disconnect, Stepped
  <2> HIDE DEF d
  <2>2. Opened(d, m)
    BY <1>5, <2>1, PortalApSteps DEF d
  <2>3. m \in NetType /\ Kept(m) /\ m.state = "PORTAL_MODE"
    BY <1>1, <2>1, <2>2, KeptIsOfList DEF Stepped, Opened, SameControl
  <2>4. Tidy(m)
    BY <1>1, <2>1, <2>2 DEF Tidy, Opened, SameControl
  <2>5. F(m) \in NetType /\ Kept(F(m)) /\ Tidy(F(m)) /\ F(m).state = "PORTAL_MODE"
    BY <1>3, <2>3, <2>4, KeptIsOfList, TidyIsOfControl DEF SameControl
  <2> QED
    BY <1>5, <2>5, GoodOfPortal
<1> QED
  BY <1>2, <1>4, <1>5

LEMMA PortalHandleKeeps ==
  ASSUME NEW n, Good(n), NEW k \in PortalHandle(n)
  PROVE  Good(k) /\ k.state = n.state /\ (n.state # "PORTAL_MODE" => k = n)
<1>1. n \in NetType /\ Kept(n) /\ Tidy(n)
  BY DEF Good
<1>2. CASE ~n.up
  BY <1>2 DEF PortalHandle
<1>3. CASE n.up
  <2> DEFINE d == Connect(n, n.temp)
             f == [d EXCEPT !.asked = FALSE, !.sta = TRUE]
  <2>1. n.state = "PORTAL_MODE"
    BY <1>1, <1>3 DEF Tidy
  <2>2. PICK m \in {n, f} : k \in TestResult(m)
    BY <1>3 DEF PortalHandle
  <2>3. n.temp \in Creds \cup {None}
    BY <1>1, Greenhouse DEF NetType
  <2>4. Stepped(n, d) /\ SameControl(n, d) /\ d \in NetType
    BY <1>1, <2>3, ConnectSteps DEF Stepped
  <2> HIDE DEF d
  <2>5. f \in NetType
    BY <2>4, ZenonT(100) DEF NetType
  <2>6. SameList(d, f) /\ SameControl(d, f)
    BY <2>4 DEF NetType, SameList, SameControl
  <2> HIDE DEF f
  <2>7. Kept(f) /\ Tidy(f) /\ f.state = "PORTAL_MODE"
    BY <1>1, <2>1, <2>4, <2>6, KeptIsOfList, TidyIsOfControl DEF Stepped, SameControl
  <2>8. Good(m) /\ m.state = "PORTAL_MODE"
    BY <2>1, <2>2, <2>5, <2>7, GoodOfPortal
  <2> QED
    BY <2>1, <2>2, <2>8, TestResultKeeps
<1> QED
  BY <1>2, <1>3

-----------------------------------------------------------------------------
(* WifiManager::handle                                                     *)

\* The portal is left by connecting or by a reset, and a connection takes a
\* scan and an attempt.
Returns(n, k) ==
  /\ n.state = "PORTAL_MODE" => k.state \in {"PORTAL_MODE", "CONNECTED_STA", "INITIALIZING"}
  /\ n.state = "INITIALIZING" => k.state # "CONNECTED_STA"

\* What one way through handle leads to, PortalIsLastResort included.
Passed(n, k) ==
  /\ Good(k) /\ Returns(n, k)
  /\ n.state = "CONNECTING_STA" /\ k.state = "PORTAL_MODE" => n.roamed \/ n.due = {}

LEMMA InitializeKeeps ==
  ASSUME NEW n, Good(n), NEW k \in Initialize(n) PROVE Passed(n, k)
<1>1. n.state = "INITIALIZING" /\ k \in StartScan(n)
  BY DEF Initialize
<1>2. ~n.roam /\ ~n.snapReq /\ ~n.snapRun
  BY <1>1 DEF Good, Tidy
<1> QED
  BY <1>1, <1>2, StartScanKeeps DEF Passed, Returns

\* m_scanInProgress is cleared.
LEMMA ScanOver ==
  ASSUME NEW n \in NetType
  PROVE  LET m == [n EXCEPT !.scan = FALSE]
         IN /\ m \in NetType /\ SameList(n, m) /\ SameAttempt(n, m) /\ m.level = n.level
            /\ m.state = n.state /\ m.up = n.up /\ m.late = n.late /\ m.ap = n.ap
            /\ ~m.scan /\ m.lite = n.lite /\ m.forced = n.forced
            /\ m.roam = n.roam /\ m.snapReq = n.snapReq /\ m.snapRun = n.snapRun
            /\ m.radio = n.radio /\ m.results = n.results
<1> DEFINE m == [n EXCEPT !.scan = FALSE]
<1>1. m \in NetType
  BY ZenonT(100) DEF NetType
<1> QED
  BY <1>1 DEF NetType, SameList, SameAttempt

LEMMA ScanAgainKeeps ==
  ASSUME NEW n, Good(n), NEW k \in ScanAgain(n) PROVE Passed(n, k)
<1> DEFINE m == [n EXCEPT !.scan = FALSE]
<1>1. n.state = "SCANNING" /\ k \in StartScan(m)
  BY DEF ScanAgain
<1>2. /\ m \in NetType /\ SameList(n, m)
      /\ m.state = n.state /\ m.up = n.up /\ m.late = n.late /\ m.ap = n.ap
      /\ ~m.scan /\ m.lite = n.lite /\ m.forced = n.forced
      /\ m.roam = n.roam /\ m.snapReq = n.snapReq /\ m.snapRun = n.snapRun
      /\ m.radio = n.radio /\ m.results = n.results
  BY ScanOver DEF Good
<1> HIDE DEF m
<1>3. Kept(m) /\ Tidy(m) /\ Hopeful(m) /\ ~m.roam /\ ~m.snapReq /\ ~m.snapRun
  BY <1>1, <1>2, KeptIsOfList DEF Good, Tidy, Hopeful
<1> QED
  BY <1>1, <1>2, <1>3, StartScanKeeps DEF Passed, Returns, Good

LEMMA ScanResultsKeeps ==
  ASSUME NEW n, Good(n), NEW k \in ScanResults(n) PROVE Passed(n, k)
<1> DEFINE m == [n EXCEPT !.scan = FALSE]
<1>1. /\ n.state = "SCANNING" /\ n.results
      /\ \E seen \in Sightings :
           k \in TryNext(ScanDelete(ResetConnectionAttempt(UpdateFromScan(m, seen))))
  BY DEF ScanResults
<1>2. PICK seen \in Sightings :
        k \in TryNext(ScanDelete(ResetConnectionAttempt(UpdateFromScan(m, seen))))
  BY <1>1
<1>3. /\ m \in NetType /\ SameList(n, m)
      /\ m.state = n.state /\ m.up = n.up /\ m.late = n.late
      /\ ~m.scan /\ m.lite = n.lite /\ m.forced = n.forced
      /\ m.roam = n.roam /\ m.snapReq = n.snapReq /\ m.snapRun = n.snapRun
      /\ m.radio = n.radio
  BY ScanOver DEF Good
<1> DEFINE u == UpdateFromScan(m, seen)
           r == ResetConnectionAttempt(u)
           d == ScanDelete(r)
<1> HIDE DEF m
<1>4. Listed(m, u) /\ u.loaded
  BY <1>3, KeptIsOfList, UpdateFromScanKeeps DEF Good
<1> HIDE DEF u
<1>5. Listed(u, r) /\ \A c \in r.due : r.loaded /\ Waits(r, c)
  BY <1>4, ResetKeeps DEF Listed
<1> HIDE DEF r
<1>6. /\ Stepped(r, d) /\ SameAttempt(r, d) /\ d.radio = r.radio
      /\ d.state = r.state /\ d.up = r.up /\ d.late = r.late
      /\ d.scan = r.scan /\ d.lite = r.lite /\ d.forced = r.forced
      /\ d.roam = r.roam /\ d.snapReq = r.snapReq /\ d.snapRun = r.snapRun
      /\ d.level = r.level
  BY <1>5, ScanDeleteSteps DEF Listed
<1> HIDE DEF d
<1>7. d \in NetType /\ Kept(d)
  BY <1>5, <1>6, KeptIsOfList DEF Listed, Stepped
<1>8. Quiet(d) /\ d.state = "SCANNING" /\ d.radio # "lite"
  BY <1>1, <1>3, <1>4, <1>5, <1>6 DEF Good, Tidy, Quiet, Listed, SameControl
<1>9. Eager(d)
  BY <1>5, <1>6, <1>8 DEF Eager, Waits, SameAttempt, Stepped, SameList
<1>10. k \in TryNext(d)
  BY <1>2 DEF u, r, d
<1>11. Good(k)
  BY <1>7, <1>8, <1>9, <1>10, TryNextKeeps
<1> QED
  BY <1>1, <1>11 DEF Passed, Returns

\* The station is connected, and the access point is closed.
LEMMA ConnectedKeeps ==
  ASSUME NEW n, Good(n), NEW k \in Connected(n) PROVE Passed(n, k)
<1> DEFINE m == [n EXCEPT !.ap = FALSE, !.sta = TRUE]
<1>1. n.state = "CONNECTING_STA" /\ k = SetState(m, "CONNECTED_STA")
  BY DEF Connected
<1>2. n \in NetType /\ Kept(n) /\ Tidy(n)
  BY DEF Good
<1>3. m \in NetType
  BY <1>2, ZenonT(100) DEF NetType
<1>4. /\ SameList(n, m) /\ m.state = n.state /\ m.up = n.up /\ m.late = n.late /\ ~m.ap
      /\ m.scan = n.scan /\ m.lite = n.lite /\ m.forced = n.forced
      /\ m.roam = n.roam /\ m.snapReq = n.snapReq /\ m.snapRun = n.snapRun
  BY <1>2 DEF NetType, SameList
<1> HIDE DEF m
<1>5. Changed(m, "CONNECTED_STA", k)
  BY <1>1, <1>2, <1>3, <1>4, SetStateSteps DEF States, Tidy
<1>6. Kept(k)
  BY <1>2, <1>4, <1>5 DEF Kept, SameList, Changed
<1>7. Tidy(k)
  BY <1>1, <1>2, <1>4, <1>5 DEF Tidy, Changed
<1> QED
  BY <1>1, <1>5, <1>6, <1>7, GoodOfPortal DEF Passed, Returns, Changed

LEMMA ConnectTimeoutKeeps ==
  ASSUME NEW n, Good(n), NEW k \in ConnectTimeout(n) PROVE Passed(n, k)
<1> DEFINE m == Disconnect(n)
<1>1. n.state = "CONNECTING_STA" /\ k \in TryNext(m)
  BY DEF ConnectTimeout
<1>2. n \in NetType /\ Kept(n) /\ Tidy(n) /\ Eager(n)
  BY <1>1 DEF Good, Hopeful
<1>3. /\ Stepped(n, m) /\ SameControl(n, m) /\ SameAttempt(n, m) /\ m.level = n.level
  BY <1>2, ConnectSteps DEF Disconnect
<1> HIDE DEF m
<1>4. m \in NetType /\ Kept(m)
  BY <1>2, <1>3, KeptIsOfList DEF Stepped
<1>5. Quiet(m) /\ m.state # "PORTAL_MODE"
  BY <1>1, <1>2, <1>3 DEF Tidy, Quiet, SameControl
<1>6. Eager(m)
  BY <1>2, <1>3 DEF Eager, Waits, SameAttempt, SameControl, Stepped, SameList
<1>7. Good(k) /\ (k.state = "PORTAL_MODE" => m.roamed \/ m.due = {})
  BY <1>1, <1>4, <1>5, <1>6, TryNextKeeps
<1> QED
  BY <1>1, <1>3, <1>7 DEF Passed, Returns, SameAttempt

LEMMA ConnectionLostKeeps ==
  ASSUME NEW n, Good(n), NEW k \in ConnectionLost(n) PROVE Passed(n, k)
<1> DEFINE m == [n EXCEPT !.snapReq = FALSE, !.snapRun = FALSE, !.roam = FALSE]
<1>1. n.state = "CONNECTED_STA" /\ k \in StartScan(m)
  BY DEF ConnectionLost
<1>2. n \in NetType /\ Kept(n) /\ Tidy(n)
  BY DEF Good
<1>3. m \in NetType
  BY <1>2, ZenonT(100) DEF NetType
<1>4. /\ SameList(n, m) /\ m.state = n.state /\ m.up = n.up /\ m.late = n.late /\ m.ap = n.ap
      /\ m.scan = n.scan /\ m.lite = n.lite /\ m.forced = n.forced
      /\ ~m.roam /\ ~m.snapReq /\ ~m.snapRun
      /\ m.radio = n.radio /\ m.results = n.results
  BY <1>2 DEF NetType, SameList
<1> HIDE DEF m
<1>5. Kept(m) /\ Tidy(m)
  BY <1>1, <1>2, <1>4, KeptIsOfList DEF Tidy
<1>6. Good(m)
  BY <1>1, <1>3, <1>4, <1>5, GoodOfPortal
<1> QED
  BY <1>1, <1>4, <1>6, StartScanKeeps DEF Passed, Returns

\* An operation on the list, while no network is being tried.
LEMMA ListedIsGood ==
  ASSUME NEW n, Good(n), n.state # "CONNECTING_STA", NEW m, Listed(n, m)
  PROVE  Good(m) /\ m.state = n.state
BY TidyIsOfControl, GoodOfPortal DEF Good, Listed, SameControl

\* Scans start and end in the states that have some of their own.
Settled(n) == Good(n) /\ n.state \in {"CONNECTED_STA", "PORTAL_MODE"}

\* The scans of the connected state are marked the same.
SameMarks(n, m) == m.roam = n.roam /\ m.snapReq = n.snapReq /\ m.snapRun = n.snapRun

LEMMA ScansOfSettled ==
  ASSUME NEW n, Settled(n)
  PROVE  /\ Settled(ScanDelete(n)) /\ ScanDelete(n).state = n.state /\ SameMarks(n, ScanDelete(n))
         /\ Settled(StartAsync(n)) /\ StartAsync(n).state = n.state
<1> DEFINE d == ScanDelete(n)
           a == StartAsync(n)
<1>1. n \in NetType /\ Kept(n) /\ Tidy(n) /\ n.state \in {"CONNECTED_STA", "PORTAL_MODE"}
  BY DEF Settled, Good
<1>2. /\ Stepped(n, d) /\ d.state = n.state /\ d.up = n.up /\ d.late = n.late /\ d.ap = n.ap
      /\ d.scan = n.scan /\ d.lite = n.lite /\ d.forced = n.forced
      /\ d.roam = n.roam /\ d.snapReq = n.snapReq /\ d.snapRun = n.snapRun
  BY <1>1, ScanDeleteSteps
<1>3. /\ Stepped(n, a) /\ a.state = n.state /\ a.up = n.up /\ a.late = n.late /\ a.ap = n.ap
      /\ a.scan = n.scan /\ a.lite = n.lite /\ a.forced = n.forced
      /\ a.roam = n.roam /\ a.snapReq = n.snapReq /\ a.snapRun = n.snapRun
  BY <1>1, StartAsyncSteps
<1> HIDE DEF d, a
<1>4. Tidy(d) /\ Tidy(a)
  BY <1>1, <1>2, <1>3 DEF Tidy
<1>5. Kept(d) /\ Kept(a) /\ d \in NetType /\ a \in NetType
  BY <1>1, <1>2, <1>3, KeptIsOfList DEF Stepped
<1>6. Settled(d) /\ Settled(a)
  BY <1>1, <1>2, <1>3, <1>4, <1>5, GoodOfPortal DEF Settled
<1> QED
  BY <1>2, <1>3, <1>6 DEF SameMarks, d, a

\* The marks of the scans of the connected state are free in that state.
LEMMA MarksOfOnline ==
  ASSUME NEW n, Good(n), n.state = "CONNECTED_STA",
         NEW a \in BOOLEAN, NEW b \in BOOLEAN, NEW c \in BOOLEAN
  PROVE  LET m == [n EXCEPT !.roam = a, !.snapReq = b, !.snapRun = c]
         IN Settled(m) /\ m.state = "CONNECTED_STA" /\ m.roam = a /\ m.snapReq = b /\ m.snapRun = c
<1> DEFINE m == [n EXCEPT !.roam = a, !.snapReq = b, !.snapRun = c]
<1>1. n \in NetType /\ Kept(n) /\ Tidy(n)
  BY DEF Good
<1>2. m \in NetType
  BY <1>1, ZenonT(100) DEF NetType
<1>3. /\ SameList(n, m) /\ m.state = n.state /\ m.up = n.up /\ m.late = n.late /\ m.ap = n.ap
      /\ m.scan = n.scan /\ m.lite = n.lite /\ m.forced = n.forced
      /\ m.roam = a /\ m.snapReq = b /\ m.snapRun = c
      /\ m.radio = n.radio /\ m.results = n.results
  BY <1>1 DEF NetType, SameList
<1> HIDE DEF m
<1>4. Kept(m) /\ Tidy(m)
  BY <1>1, <1>3, KeptIsOfList DEF Tidy
<1>5. Settled(m)
  BY <1>2, <1>3, <1>4, GoodOfPortal DEF Settled
<1> QED
  BY <1>3, <1>5 DEF m

\* A mark that is not mentioned keeps its value.
LEMMA MarkingOne ==
  ASSUME NEW n \in NetType, NEW a \in BOOLEAN
  PROVE  /\ [n EXCEPT !.roam = a]
              = [n EXCEPT !.roam = a, !.snapReq = n.snapReq, !.snapRun = n.snapRun]
         /\ [n EXCEPT !.snapReq = a]
              = [n EXCEPT !.roam = n.roam, !.snapReq = a, !.snapRun = n.snapRun]
         /\ [n EXCEPT !.snapRun = a]
              = [n EXCEPT !.roam = n.roam, !.snapReq = n.snapReq, !.snapRun = a]
         /\ \A b \in BOOLEAN : [n EXCEPT !.snapReq = a, !.snapRun = b]
              = [n EXCEPT !.roam = n.roam, !.snapReq = a, !.snapRun = b]
BY ZenonT(100) DEF NetType

\* Online, with the list out of memory.
LEMMA ReleasedOnline ==
  ASSUME NEW n, Good(n), Online(n)
  PROVE  LET m == Released(n)
         IN /\ m \in NetType /\ Good(m) /\ m.state = "CONNECTED_STA" /\ SameMarks(n, m)
            /\ n.roam \in BOOLEAN /\ n.snapReq \in BOOLEAN /\ n.snapRun \in BOOLEAN
<1>1. n \in NetType /\ Kept(n)
  BY DEF Good
<1>2. Listed(n, Released(n)) /\ n.state = "CONNECTED_STA"
  BY <1>1, ReleasedKeeps DEF Online
<1>3. Good(Released(n))
  BY <1>2, ListedIsGood
<1>4. n.roam \in BOOLEAN /\ n.snapReq \in BOOLEAN /\ n.snapRun \in BOOLEAN
  BY <1>1 DEF NetType
<1> QED
  BY <1>2, <1>3, <1>4 DEF Listed, SameControl, SameMarks

LEMMA UpdateSettled ==
  ASSUME NEW n, Settled(n), NEW seen \in Sightings
  PROVE  /\ Settled(UpdateFromScan(n, seen)) /\ UpdateFromScan(n, seen).state = n.state
         /\ SameMarks(n, UpdateFromScan(n, seen))
<1>1. Listed(n, UpdateFromScan(n, seen))
  BY UpdateFromScanKeeps DEF Settled, Good
<1> QED
  BY <1>1, ListedIsGood DEF Settled, Listed, SameControl, SameMarks

LEMMA SettledPasses ==
  ASSUME NEW n, NEW k, Good(k), n.state # "CONNECTING_STA", Returns(n, k) PROVE Passed(n, k)
BY DEF Passed, Returns

LEMMA SnapshotScanKeeps ==
  ASSUME NEW n, Good(n), NEW k \in SnapshotScan(n) PROVE Passed(n, k)
<1> DEFINE m == Released(n)
           o == [m EXCEPT !.snapRun = FALSE]
           q == [m EXCEPT !.snapReq = FALSE]
           r == [m EXCEPT !.snapReq = FALSE, !.snapRun = TRUE]
           over == ScanDelete(o)
<1>1. /\ Online(n)
      /\ \/ \E seen \in Sightings : k = UpdateFromScan(over, seen)
         \/ k \in {over, q, StartAsync(r)}
  BY DEF SnapshotScan
<1>2. /\ m \in NetType /\ Good(m) /\ m.state = "CONNECTED_STA"
      /\ m.roam \in BOOLEAN /\ m.snapReq \in BOOLEAN /\ m.snapRun \in BOOLEAN
  BY <1>1, ReleasedOnline DEF SameMarks
<1> HIDE DEF m
<1>3. /\ o = [m EXCEPT !.roam = m.roam, !.snapReq = m.snapReq, !.snapRun = FALSE]
      /\ q = [m EXCEPT !.roam = m.roam, !.snapReq = FALSE, !.snapRun = m.snapRun]
      /\ r = [m EXCEPT !.roam = m.roam, !.snapReq = FALSE, !.snapRun = TRUE]
  BY <1>2, MarkingOne
<1> HIDE DEF o, q, r
<1>4. Settled(o) /\ Settled(q) /\ Settled(r)
  BY <1>2, <1>3, MarksOfOnline
<1>5. Settled(over) /\ Settled(StartAsync(r))
  BY <1>4, ScansOfSettled
<1> HIDE DEF over
<1>6. Good(k)
  BY <1>1, <1>4, <1>5, UpdateSettled DEF Settled
<1> QED
  BY <1>1, <1>6, SettledPasses DEF Online, Returns

LEMMA RoamKeeps ==
  ASSUME NEW n, Good(n), n.state = "CONNECTED_STA", Quiet(n)
  PROVE  Good(Roam(n))
<1> DEFINE d == Connect(n, None)
           m == [d EXCEPT !.due = InRange(n), !.roamed = TRUE]
           S(c) == StartConnectionAttempt(m, c)
<1>1. n \in NetType /\ Kept(n) /\ Tidy(n)
  BY DEF Good
<1>2. \/ \E c \in Creds : Roam(n) = S(c) \/ Roam(n) = Released(S(c))
      \/ Roam(n) = Released(n)
  <2> DEFINE gh == {i \in DOMAIN BuiltIns : n.level[BuiltIns[i]] = Strong}
             saved == {i \in Index : n.ram[i] # None /\ n.level[n.ram[i]] = Strong}
             FirstOf(T) == CHOOSE i \in T : \A j \in T : i <= j
  <2>1. gh # {} => FirstOf(gh) \in gh
    BY First, Greenhouse
  <2>2. saved # {} => FirstOf(saved) \in saved
    BY First, IndexFinite
  <2>3. \A i \in gh : BuiltIns[i] \in Creds
    BY Greenhouse
  <2>4. \A i \in saved : n.ram[i] \in Creds
    BY <1>1, Greenhouse DEF NetType
  <2>5. Roam(n) = IF gh # {} THEN S(BuiltIns[FirstOf(gh)])
                  ELSE IF saved # {} THEN Released(S(n.ram[FirstOf(saved)]))
                  ELSE Released(n)
    BY DEF Roam, Disconnect
  <2> HIDE DEF gh, saved, FirstOf, S
  <2> QED
    BY <2>1, <2>2, <2>3, <2>4, <2>5
<1>3. Stepped(n, d) /\ SameControl(n, d) /\ d \in NetType
  BY <1>1, ConnectSteps DEF Stepped
<1> HIDE DEF d
<1>4. m \in NetType
  <2>1. InRange(n) \in SUBSET Creds
    BY <1>1 DEF InRange, Stored, NetType, Creds
  <2> QED
    BY <1>3, <2>1, ZenonT(100) DEF NetType
<1>5. SameList(d, m) /\ SameControl(d, m) /\ m.roamed
  BY <1>3 DEF NetType, SameList, SameControl
<1> HIDE DEF m
<1>6. Kept(m)
  BY <1>1, <1>3, <1>5, KeptIsOfList DEF Stepped
<1>7. Quiet(m)
  BY <1>3, <1>5 DEF Quiet, SameControl
<1>8. ASSUME NEW c \in Creds PROVE Good(S(c)) /\ S(c).roamed
  BY <1>4, <1>5, <1>6, <1>7, StartConnectionAttemptKeeps
<1>9. ASSUME NEW c \in Creds PROVE Good(Released(S(c)))
  <2> DEFINE a == S(c)
  <2>1. a \in NetType /\ Kept(a) /\ Tidy(a) /\ a.roamed
    BY <1>8 DEF Good
  <2> HIDE DEF a
  <2>2. Listed(a, Released(a)) /\ Released(a).roamed
    BY <2>1, ReleasedKeeps
  <2>3. Good(Released(a))
    BY <2>1, <2>2, TidyIsOfControl DEF Good, Hopeful, Eager, Listed
  <2> QED
    BY <2>3 DEF a
<1>10. Good(Released(n))
  BY <1>1, ReleasedKeeps, ListedIsGood
<1> HIDE DEF S
<1> QED
  BY <1>2, <1>8, <1>9, <1>10

LEMMA RoamingScanKeeps ==
  ASSUME NEW n, Good(n), NEW k \in RoamingScan(n) PROVE Passed(n, k)
<1> DEFINE m == Released(n)
           o == [m EXCEPT !.roam = FALSE]
           r == [m EXCEPT !.roam = TRUE]
           over == ScanDelete(o)
<1>1. /\ Online(n) /\ ~n.snapRun /\ ~n.snapReq
      /\ \/ \E seen \in Sightings : k = Roam(UpdateFromScan(over, seen))
         \/ k \in {over, StartAsync(r)}
  BY DEF RoamingScan
<1>2. /\ m \in NetType /\ Good(m) /\ m.state = "CONNECTED_STA"
      /\ m.roam \in BOOLEAN /\ m.snapReq = FALSE /\ m.snapRun = FALSE
  BY <1>1, ReleasedOnline DEF SameMarks
<1> HIDE DEF m
<1>3. /\ o = [m EXCEPT !.roam = FALSE, !.snapReq = FALSE, !.snapRun = FALSE]
      /\ r = [m EXCEPT !.roam = TRUE, !.snapReq = FALSE, !.snapRun = FALSE]
  BY <1>2, MarkingOne
<1> HIDE DEF o, r
<1>4. /\ Settled(o) /\ o.state = "CONNECTED_STA" /\ ~o.roam /\ ~o.snapReq /\ ~o.snapRun
      /\ Settled(r)
  BY <1>2, <1>3, MarksOfOnline
<1>5. /\ Settled(over) /\ over.state = "CONNECTED_STA" /\ SameMarks(o, over)
      /\ Settled(StartAsync(r))
  BY <1>4, ScansOfSettled
<1> HIDE DEF over
<1>6. ASSUME NEW seen \in Sightings PROVE Good(Roam(UpdateFromScan(over, seen)))
  <2> DEFINE u == UpdateFromScan(over, seen)
  <2>1. Settled(u) /\ u.state = "CONNECTED_STA" /\ ~u.roam /\ ~u.snapReq /\ ~u.snapRun
    BY <1>4, <1>5, UpdateSettled DEF SameMarks
  <2> HIDE DEF u
  <2>2. Quiet(u)
    BY <2>1 DEF Settled, Good, Tidy, Quiet
  <2>3. Good(Roam(u))
    BY <2>1, <2>2, RoamKeeps DEF Settled
  <2> QED
    BY <2>3 DEF u
<1>7. Good(k)
  BY <1>1, <1>5, <1>6 DEF Settled
<1> QED
  BY <1>1, <1>7, SettledPasses DEF Online, Returns

LEMMA StayOnlineKeeps ==
  ASSUME NEW n, Good(n), NEW k \in StayOnline(n) PROVE Passed(n, k)
<1>1. Online(n) /\ k = Released(n)
  BY DEF StayOnline
<1> QED
  BY <1>1, ReleasedOnline, SettledPasses DEF Online, Returns

LEMMA PortalLeftIsTyped ==
  ASSUME NEW n \in NetType
  PROVE  [n EXCEPT !.ap = FALSE, !.sta = TRUE, !.scan = FALSE, !.lite = FALSE, !.forced = FALSE,
                   !.snapReq = FALSE, !.snapRun = FALSE] \in NetType
BY ZenonT(100) DEF NetType

LEMMA PortalConnectedKeeps ==
  ASSUME NEW n, Good(n), NEW k \in PortalConnected(n) PROVE Passed(n, k)
<1> DEFINE c == SetState(n, "CONNECTED_STA")
<1>1. /\ n.state = "PORTAL_MODE"
      /\ k = [c EXCEPT !.ap = FALSE, !.sta = TRUE, !.scan = FALSE, !.lite = FALSE, !.forced = FALSE,
                       !.snapReq = FALSE, !.snapRun = FALSE]
  BY DEF PortalConnected
<1>2. n \in NetType /\ Kept(n) /\ Tidy(n)
  BY DEF Good
<1>3. Changed(n, "CONNECTED_STA", c) /\ c \in NetType
  BY <1>2, SetStateSteps DEF States, Tidy, Changed
<1> HIDE DEF c
<1>4. k \in NetType
  BY <1>1, <1>3, PortalLeftIsTyped
<1>5. /\ SameList(c, k) /\ k.state = c.state /\ k.up = c.up /\ ~k.ap /\ ~k.scan /\ ~k.lite /\ ~k.forced
  BY <1>1, <1>3 DEF NetType, SameList
<1>6. Kept(k)
  BY <1>2, <1>3, <1>5, KeptIsOfList DEF Changed
<1>7. Tidy(k)
  BY <1>3, <1>5 DEF Changed, Tidy
<1>8. Good(k) /\ k.state = "CONNECTED_STA"
  BY <1>3, <1>4, <1>5, <1>6, <1>7, GoodOfPortal DEF Changed
<1> QED
  BY <1>1, <1>8, SettledPasses DEF Returns

LEMMA BootedIsGood ==
  ASSUME NEW file \in Lists
  PROVE  /\ Good(Booted(file)) /\ Booted(file).state = "INITIALIZING"
         /\ Booted(file).file = file
<1> DEFINE b == Booted(file)
<1>1. /\ None \in Saved \cup {None} /\ None \in Creds \cup {None}
      /\ [c \in Creds |-> Away] \in [Creds -> Away .. Strong]
      /\ Stored(file) \in SUBSET Saved /\ {} \in SUBSET GH /\ {} \in SUBSET Creds
  BY DEF Lists, Stored, Away, Strong
<1>2. b \in NetType
  BY <1>1, NoSavedIsList, Places DEF Booted, NetType, Lists, States
<1>3. Kept(b) /\ Tidy(b) /\ b.state = "INITIALIZING" /\ b.file = file
  BY DEF Kept, Tidy, Booted
<1> HIDE DEF b
<1>4. Good(b)
  BY <1>2, <1>3, GoodOfPortal
<1> QED
  BY <1>3, <1>4 DEF b

\* A reset forgets all but the file, and what users were told of it.
LEMMA RestartKeeps ==
  ASSUME NEW n, Good(n)
  PROVE  Good(Reset(n)) /\ Reset(n).state = "INITIALIZING"
<1> DEFINE b == Booted(n.file)
           k == [b EXCEPT !.told = n.told, !.unsaved = n.unsaved]
<1>1. n \in NetType /\ Kept(n)
  BY DEF Good
<1>2. n.file \in Lists /\ n.told \in SUBSET Saved /\ n.unsaved \in BOOLEAN
  BY <1>1 DEF NetType, Lists
<1>3. b \in NetType /\ Tidy(b) /\ b.state = "INITIALIZING" /\ b.file = n.file /\ ~b.loaded
  <2>1. Good(b) /\ b.state = "INITIALIZING" /\ b.file = n.file
    BY <1>2, BootedIsGood
  <2>2. ~b.loaded
    BY DEF Booted
  <2> QED
    BY <2>1, <2>2 DEF Good
<1> HIDE DEF b
<1>4. k \in NetType
  BY <1>2, <1>3, ZenonT(100) DEF NetType
<1>5. /\ SameControl(b, k) /\ k.file = b.file /\ k.loaded = b.loaded
      /\ k.told = n.told /\ k.unsaved = n.unsaved
  BY <1>3 DEF NetType, SameControl
<1>6. Reset(n) = k
  BY DEF Reset, b
<1> HIDE DEF k
<1>7. Kept(k)
  BY <1>1, <1>3, <1>5 DEF Kept
<1>8. Tidy(k) /\ k.state = "INITIALIZING"
  BY <1>3, <1>5, TidyIsOfControl DEF SameControl
<1> QED
  BY <1>4, <1>6, <1>7, <1>8, GoodOfPortal

LEMMA WatchdogKeeps ==
  ASSUME NEW n, Good(n), NEW k \in Watchdog(n) PROVE Passed(n, k)
<1>1. n.state = "PORTAL_MODE" /\ k = Reset(n)
  BY DEF Watchdog, InPortal
<1> QED
  BY <1>1, RestartKeeps, SettledPasses DEF Returns

LEMMA LiteTimeoutKeeps ==
  ASSUME NEW n, Good(n), NEW k \in LiteTimeout(n) PROVE Passed(n, k)
<1>1. n.state = "PORTAL_MODE" /\ k \in FinalizeLiteScan(n)
  BY DEF LiteTimeout, InPortal
<1>2. Good(k) /\ k.state = n.state
  BY <1>1, FinalizeLiteScanKeeps DEF Good, Portal
<1> QED
  BY <1>1, <1>2, SettledPasses DEF Returns

LEMMA ForcedKeeps ==
  ASSUME NEW n, Good(n), n.state = "PORTAL_MODE"
  PROVE  \A k \in StartLiteScanChannel([n EXCEPT !.channel = 0]) \cup ThenForced(n) :
           Good(k) /\ k.state = "PORTAL_MODE"
<1> DEFINE m == [n EXCEPT !.channel = 0]
<1>1. n \in NetType /\ Kept(n) /\ Tidy(n)
  BY DEF Good
<1>2. m \in NetType
  BY <1>1, Places DEF NetType
<1>3. SameList(n, m) /\ SameControl(n, m)
  BY <1>1 DEF NetType, SameList, SameControl
<1> HIDE DEF m
<1>4. Kept(m) /\ Tidy(m) /\ m.state = "PORTAL_MODE"
  BY <1>1, <1>3, KeptIsOfList, TidyIsOfControl DEF SameControl
<1>5. Good(m)
  BY <1>2, <1>4, GoodOfPortal
<1>6. \A k \in StartLiteScanChannel(m) : Good(k) /\ k.state = "PORTAL_MODE"
  BY <1>4, <1>5, StartLiteScanChannelKeeps DEF Portal
<1>7. \A k \in ThenForced(n) : k = n \/ k \in StartLiteScanChannel(m)
  BY DEF ThenForced, m
<1> QED
  BY <1>6, <1>7 DEF m

LEMMA BackgroundScannedKeeps ==
  ASSUME NEW n, Good(n), n.state = "PORTAL_MODE"
  PROVE  Good(BackgroundScanned(n)) /\ BackgroundScanned(n).state = "PORTAL_MODE"
<1> DEFINE m == ResetConnectionAttempt(n)
           next == NextCredential(m)
           t == next.net
           d == Connect(t, next.cred)
           k == [d EXCEPT !.due = {}]
<1>1. BackgroundScanned(n) = n \/ BackgroundScanned(n) = k
  BY DEF BackgroundScanned
<1>2. Listed(n, m)
  BY ResetKeeps DEF Good
<1> HIDE DEF m
<1>3. Good(m) /\ m.state = "PORTAL_MODE"
  BY <1>2, ListedIsGood
<1>4. Tries(m, next)
  BY <1>3, NextKeeps DEF Good
<1> HIDE DEF next
<1>5. Good(t) /\ t.state = "PORTAL_MODE" /\ next.cred \in Creds \cup {None}
  BY <1>3, <1>4, ListedIsGood DEF Tries
<1> HIDE DEF t
<1>6. Stepped(t, d) /\ SameControl(t, d) /\ d \in NetType
  BY <1>5, ConnectSteps DEF Good, Stepped
<1> HIDE DEF d
<1>7. k \in NetType
  BY <1>6 DEF NetType
<1>8. SameList(d, k) /\ SameControl(d, k)
  BY <1>6 DEF NetType, SameList, SameControl
<1> HIDE DEF k
<1>9. Kept(k) /\ Tidy(k) /\ k.state = "PORTAL_MODE"
  <2>1. Kept(d) /\ Tidy(d) /\ d.state = "PORTAL_MODE"
    BY <1>5, <1>6, KeptIsOfList, TidyIsOfControl DEF Good, Stepped, SameControl
  <2> QED
    BY <1>8, <2>1, KeptIsOfList, TidyIsOfControl DEF SameControl
<1> QED
  BY <1>1, <1>7, <1>9, GoodOfPortal

LEMMA ScanMark ==
  ASSUME NEW n, Good(n), n.state = "PORTAL_MODE", NEW b \in BOOLEAN
  PROVE  Settled([n EXCEPT !.scan = b]) /\ [n EXCEPT !.scan = b].state = "PORTAL_MODE"
<1> DEFINE m == [n EXCEPT !.scan = b]
<1>1. n \in NetType /\ Kept(n) /\ Tidy(n)
  BY DEF Good
<1>2. m \in NetType
  BY <1>1 DEF NetType
<1>3. /\ SameList(n, m) /\ m.state = n.state /\ m.up = n.up /\ m.late = n.late /\ m.ap = n.ap
      /\ m.lite = n.lite /\ m.forced = n.forced
      /\ m.roam = n.roam /\ m.snapReq = n.snapReq /\ m.snapRun = n.snapRun
  BY <1>1 DEF NetType, SameList
<1> HIDE DEF m
<1>4. Kept(m) /\ Tidy(m)
  BY <1>1, <1>3, KeptIsOfList DEF Tidy
<1>5. Settled(m) /\ m.state = "PORTAL_MODE"
  BY <1>2, <1>3, <1>4, GoodOfPortal DEF Settled
<1> QED
  BY <1>5 DEF m

LEMMA BackgroundScanKeeps ==
  ASSUME NEW n, Good(n), NEW k \in BackgroundScan(n) PROVE Passed(n, k)
<1> DEFINE o == [n EXCEPT !.scan = FALSE]
           over == ScanDelete(o)
           t == [n EXCEPT !.scan = TRUE]
           a == StartAsync(t)
<1>1. /\ InPortal(n)
      /\ \/ k \in ThenForced(n)
         \/ k \in StartLiteScanChannel([n EXCEPT !.channel = 0])
         \/ k \in ThenForced(a)
         \/ \E seen \in Sightings : k \in ThenForced(BackgroundScanned(UpdateFromScan(over, seen)))
         \/ k = over
         \/ k \in ThenForced(over)
  <2> HIDE DEF a, over
  <2> QED
    BY DEF BackgroundScan, over, a
<1>2. n.state = "PORTAL_MODE"
  BY <1>1 DEF InPortal
<1>3. Settled(o) /\ o.state = "PORTAL_MODE" /\ Settled(t) /\ t.state = "PORTAL_MODE"
  BY <1>2, ScanMark
<1> HIDE DEF o, t
<1>4. Settled(over) /\ over.state = "PORTAL_MODE" /\ Settled(a) /\ a.state = "PORTAL_MODE"
  BY <1>3, ScansOfSettled
<1> HIDE DEF over, a
<1>5. ASSUME NEW seen \in Sightings, k \in ThenForced(BackgroundScanned(UpdateFromScan(over, seen)))
      PROVE Good(k) /\ k.state = "PORTAL_MODE"
  <2> DEFINE u == UpdateFromScan(over, seen)
             b == BackgroundScanned(u)
  <2>1. Good(u) /\ u.state = "PORTAL_MODE"
    BY <1>4, UpdateSettled DEF Settled
  <2> HIDE DEF u
  <2>2. Good(b) /\ b.state = "PORTAL_MODE"
    BY <2>1, BackgroundScannedKeeps
  <2>3. k \in ThenForced(b)
    BY <1>5 DEF u
  <2> HIDE DEF b
  <2> QED
    BY <2>2, <2>3, ForcedKeeps
<1>6. Good(k) /\ k.state = "PORTAL_MODE"
  BY <1>1, <1>2, <1>4, <1>5, ForcedKeeps DEF Settled
<1> QED
  BY <1>2, <1>6, SettledPasses DEF Returns

LEMMA WifiHandleKeeps ==
  ASSUME NEW n, Good(n), NEW k \in WifiHandle(n) PROVE Passed(n, k)
<1>1. k \in Waiting(n) => Passed(n, k)
  BY DEF Waiting, Passed, Returns
<1>2. \/ k \in Initialize(n) \/ k \in ScanAgain(n) \/ k \in ScanResults(n) \/ k \in Connected(n)
      \/ k \in ConnectTimeout(n) \/ k \in ConnectionLost(n) \/ k \in SnapshotScan(n)
      \/ k \in RoamingScan(n) \/ k \in StayOnline(n) \/ k \in PortalConnected(n)
      \/ k \in Watchdog(n) \/ k \in LiteTimeout(n) \/ k \in BackgroundScan(n) \/ k \in Waiting(n)
  BY DEF WifiHandle
<1> QED
  BY <1>1, <1>2, InitializeKeeps, ScanAgainKeeps, ScanResultsKeeps, ConnectedKeeps,
     ConnectTimeoutKeeps, ConnectionLostKeeps, SnapshotScanKeeps, RoamingScanKeeps,
     StayOnlineKeeps, PortalConnectedKeeps, WatchdogKeeps, LiteTimeoutKeeps, BackgroundScanKeeps

-----------------------------------------------------------------------------
(* The actions                                                             *)

Counters == faults \in 0 .. MaxFaults /\ edits \in 0 .. MaxEdits

LEMMA InitHolds == Init => IInv
<1> SUFFICES ASSUME Init PROVE IInv
  OBVIOUS
<1>1. PICK k \in 0 .. MaxSaved :
        \E list \in [1 .. k -> Saved] :
          net = Booted([i \in Index |-> IF i <= Len(list) THEN list[i] ELSE None])
  BY DEF Init
<1>1a. PICK list \in [1 .. k -> Saved] :
       net = Booted([i \in Index |-> IF i <= Len(list) THEN list[i] ELSE None])
  BY <1>1
<1>2. list \in Seq(Saved) /\ Len(list) = k
  BY NetworkAssumption DEF NetworkAssumption
<1>3. [i \in Index |-> IF i <= Len(list) THEN list[i] ELSE None] \in Lists
  BY <1>2 DEF Lists, Index
<1>4. Good(net)
  BY <1>1a, <1>3, BootedIsGood
<1>5. faults \in 0 .. MaxFaults /\ edits \in 0 .. MaxEdits
  BY NetworkAssumption DEF NetworkAssumption, Init
<1> QED
  BY <1>4, <1>5 DEF IInv

\* A change that neither the list nor the control of the manager sees.
LEMMA UnseenIsGood ==
  ASSUME NEW n, Good(n), NEW m \in NetType, SameList(n, m), SameControl(n, m),
         SameAttempt(n, m), m.level = n.level
  PROVE  Passed(n, m)
<1>1. Kept(m) /\ Tidy(m)
  BY KeptIsOfList, TidyIsOfControl DEF Good
<1>2. Hopeful(m)
  BY DEF Good, Hopeful, Eager, Waits, SameList, SameControl, SameAttempt
<1> QED
  BY <1>1, <1>2 DEF Good, Passed, Returns, SameControl

LEMMA HandlePasses ==
  ASSUME Good(net), Handle PROVE Passed(net, net') /\ UNCHANGED <<faults, edits>>
<1>1. PICK n \in PortalHandle(net) : net' \in WifiHandle(n)
  BY DEF Handle, Become
<1>2. Good(n) /\ n.state = net.state /\ (net.state # "PORTAL_MODE" => n = net)
  BY PortalHandleKeeps
<1>3. Passed(n, net')
  BY <1>1, <1>2, WifiHandleKeeps
<1> QED
  BY <1>2, <1>3 DEF Passed, Returns, Handle, Become

LEMMA ScanEndPasses ==
  ASSUME NEW n, Good(n), n.radio = "async"
  PROVE  /\ Passed(n, [n EXCEPT !.radio = "idle", !.results = TRUE])
         /\ Passed(n, [n EXCEPT !.radio = "idle"])
<1> DEFINE d == [n EXCEPT !.radio = "idle", !.results = TRUE]
           f == [n EXCEPT !.radio = "idle"]
<1>1. n \in NetType /\ Kept(n) /\ Tidy(n) /\ Hopeful(n)
  BY DEF Good
<1>2. d \in NetType
  BY <1>1, ZenonT(100) DEF NetType
<1>3. f \in NetType
  BY <1>1 DEF NetType
<1>4. /\ SameList(n, d) /\ SameAttempt(n, d) /\ d.level = n.level
      /\ d.state = n.state /\ d.up = n.up /\ d.late = n.late /\ d.ap = n.ap
      /\ d.scan = n.scan /\ d.lite = n.lite /\ d.forced = n.forced
      /\ d.roam = n.roam /\ d.snapReq = n.snapReq /\ d.snapRun = n.snapRun
      /\ d.radio = "idle"
  BY <1>1 DEF NetType, SameList, SameAttempt
<1>5. /\ SameList(n, f) /\ SameAttempt(n, f) /\ f.level = n.level
      /\ f.state = n.state /\ f.up = n.up /\ f.late = n.late /\ f.ap = n.ap
      /\ f.scan = n.scan /\ f.lite = n.lite /\ f.forced = n.forced
      /\ f.roam = n.roam /\ f.snapReq = n.snapReq /\ f.snapRun = n.snapRun
      /\ f.radio = "idle"
  BY <1>1 DEF NetType, SameList, SameAttempt
<1> HIDE DEF d, f
<1>6. Kept(d) /\ Kept(f)
  BY <1>1, <1>4, <1>5, KeptIsOfList
<1>7. Tidy(d) /\ Tidy(f)
  BY <1>1, <1>4, <1>5 DEF Tidy
<1>8. Hopeful(d)
  BY <1>1, <1>4 DEF Hopeful, Eager, Waits, SameList, SameAttempt
<1>9. Hopeful(f)
  BY <1>1, <1>5 DEF Hopeful, Eager, Waits, SameList, SameAttempt
<1>10. Passed(n, d)
  BY <1>2, <1>4, <1>6, <1>7, <1>8 DEF Passed, Returns, Good
<1>11. Passed(n, f)
  BY <1>3, <1>5, <1>6, <1>7, <1>9 DEF Passed, Returns, Good
<1> QED
  BY <1>10, <1>11 DEF d, f

LEMMA LiteScanDonePasses ==
  ASSUME Good(net), LiteScanDone PROVE Passed(net, net') /\ UNCHANGED <<faults, edits>>
<1> DEFINE late == net.late \/ ~net.lite
           channel == IF net.channel < Channels THEN net.channel + 1 ELSE net.channel
           m == [net EXCEPT !.radio = "idle", !.scan = FALSE, !.late = late, !.channel = channel]
<1>1. /\ net.radio = "lite" /\ UNCHANGED <<faults, edits>>
      /\ net' \in FinalizeLiteScan(m) \/ net' \in StartLiteScanChannel(m)
  BY DEF LiteScanDone, Become
<1>2. net \in NetType /\ Kept(net) /\ Tidy(net) /\ Hopeful(net)
  BY DEF Good
<1>3. late \in BOOLEAN
  BY <1>2 DEF NetType
<1>4. channel \in 0 .. Channels
  <2>1. net.channel \in 0 .. Channels
    BY <1>2 DEF NetType
  <2> QED
    BY <2>1, NetworkAssumption DEF NetworkAssumption
<1>5. late = TRUE \/ net.state = "PORTAL_MODE"
  BY <1>2 DEF NetType, Tidy
<1>6. net.late = TRUE => late = TRUE
  OBVIOUS
<1> HIDE DEF late, channel
<1>7. m \in NetType
  BY <1>2, <1>3, <1>4, ZenonT(100) DEF NetType
<1>8. /\ SameList(net, m) /\ m.due = net.due /\ m.roamed = net.roamed
      /\ m.state = net.state /\ m.up = net.up /\ m.late = late /\ m.ap = net.ap
      /\ ~m.scan /\ m.lite = net.lite /\ m.forced = net.forced
      /\ m.roam = net.roam /\ m.snapReq = net.snapReq /\ m.snapRun = net.snapRun
      /\ m.results = net.results /\ m.radio = "idle"
  BY <1>2 DEF NetType, SameList
<1> HIDE DEF m
<1>9. Kept(m) /\ Portal(m)
  BY <1>2, <1>5, <1>8, KeptIsOfList DEF Portal
<1>10. Tidy(m)
  BY <1>2, <1>5, <1>8 DEF Tidy
<1>11. m.state = "CONNECTING_STA" => m.roamed \/ m.due = {}
  BY <1>1, <1>2, <1>8 DEF Hopeful, Eager
<1>12. m.state = "SCANNING" => ~m.results
  BY <1>1, <1>2, <1>8 DEF Tidy
<1>13. Hopeful(m)
  BY <1>11 DEF Hopeful, Eager
<1>14. Good(net') /\ net'.state = m.state
  BY <1>1, <1>7, <1>9, <1>10, <1>11, <1>12, <1>13,
     FinalizeLiteScanKeeps, StartLiteScanChannelKeeps DEF Good
<1> QED
  BY <1>1, <1>8, <1>14 DEF Passed, Returns

LEMMA LinkPasses ==
  ASSUME NEW n, Good(n), NEW c \in Creds \cup {None}
  PROVE  Passed(n, [n EXCEPT !.link = c])
<1> DEFINE m == [n EXCEPT !.link = c]
<1>1. n \in NetType
  BY DEF Good
<1>2. m \in NetType
  BY <1>1 DEF NetType
<1>3. SameList(n, m) /\ SameControl(n, m) /\ SameAttempt(n, m) /\ m.level = n.level
  BY <1>1 DEF NetType, SameList, SameControl, SameAttempt
<1> QED
  BY <1>2, <1>3, UnseenIsGood

LEMMA RequestNetworkScanPasses ==
  ASSUME NEW n, Good(n), Online(n) PROVE Passed(n, [n EXCEPT !.snapReq = TRUE])
<1>1. n \in NetType /\ n.state = "CONNECTED_STA" /\ n.roam \in BOOLEAN /\ n.snapRun \in BOOLEAN
  BY DEF Good, Online, NetType
<1>2. [n EXCEPT !.snapReq = TRUE]
        = [n EXCEPT !.roam = n.roam, !.snapReq = TRUE, !.snapRun = n.snapRun]
  BY <1>1, MarkingOne
<1>3. Settled([n EXCEPT !.roam = n.roam, !.snapReq = TRUE, !.snapRun = n.snapRun])
  BY <1>1, TRUE \in BOOLEAN, MarksOfOnline
<1> QED
  BY <1>1, <1>2, <1>3, SettledPasses DEF Settled, Returns

LEMMA OpenWifiPasses ==
  ASSUME NEW n, Good(n), Online(n), NEW k \in StartPortal(Disconnect(n)) PROVE Passed(n, k)
<1> DEFINE d == Connect(n, None)
<1>1. n \in NetType /\ Kept(n) /\ Tidy(n) /\ n.state = "CONNECTED_STA"
  BY DEF Good, Online
<1>2. Stepped(n, d) /\ SameControl(n, d) /\ d \in NetType
  BY <1>1, ConnectSteps DEF Stepped
<1>3. k \in StartPortal(d)
  BY DEF Disconnect
<1> HIDE DEF d
<1>4. Kept(d) /\ Tidy(d) /\ d.state = "CONNECTED_STA"
  BY <1>1, <1>2, KeptIsOfList, TidyIsOfControl DEF Stepped, SameControl
<1>5. Good(k)
  BY <1>2, <1>3, <1>4, StartPortalKeeps DEF Tidy
<1> QED
  BY <1>1, <1>5, SettledPasses DEF Returns

\* The list is changed while connected or in the portal.
LEMMA EditPasses ==
  ASSUME NEW n, Good(n), Online(n) \/ n.up, NEW c \in Saved,
         NEW k \in AddCredential(n, c) \cup RemoveCredential(n, c)
  PROVE  Passed(n, k)
<1>1. n.state # "CONNECTING_STA"
  BY DEF Online, Good, Tidy
<1>2. Listed(n, k)
  BY AddKeeps, RemoveKeeps DEF Good
<1> QED
  BY <1>1, <1>2, ListedIsGood, SettledPasses DEF Returns

LEMMA SubmitPasses ==
  ASSUME NEW n, Good(n), NEW c \in Saved
  PROVE  Passed(n, [n EXCEPT !.temp = c, !.status = "testing", !.asked = TRUE])
<1> DEFINE m == [n EXCEPT !.temp = c, !.status = "testing", !.asked = TRUE]
<1>1. n \in NetType
  BY DEF Good
<1>2. m \in NetType
  BY <1>1, ZenonT(100) DEF NetType
<1>3. SameList(n, m) /\ SameControl(n, m) /\ SameAttempt(n, m) /\ m.level = n.level
  BY <1>1 DEF NetType, SameList, SameControl, SameAttempt
<1> QED
  BY <1>2, <1>3, UnseenIsGood

LEMMA PortalFlagPasses ==
  ASSUME NEW n, Good(n)
  PROVE  Passed(n, [n EXCEPT !.force = TRUE]) /\ Passed(n, [n EXCEPT !.reboot = TRUE])
<1> DEFINE f == [n EXCEPT !.force = TRUE]
           r == [n EXCEPT !.reboot = TRUE]
<1>1. n \in NetType
  BY DEF Good
<1>2. f \in NetType
  BY <1>1, ZenonT(100) DEF NetType
<1>3. r \in NetType
  BY <1>1, ZenonT(100) DEF NetType
<1>4. /\ SameList(n, f) /\ SameControl(n, f) /\ SameAttempt(n, f) /\ f.level = n.level
      /\ SameList(n, r) /\ SameControl(n, r) /\ SameAttempt(n, r) /\ r.level = n.level
  BY <1>1 DEF NetType, SameList, SameControl, SameAttempt
<1> QED
  BY <1>2, <1>3, <1>4, UnseenIsGood

LEMMA PortalScanPasses ==
  ASSUME NEW n, Good(n), n.up
  PROVE  Passed(n, StartAsync(n)) /\ Passed(n, ScanDelete(n))
<1>1. n.state = "PORTAL_MODE" /\ Settled(n)
  BY DEF Good, Tidy, Settled
<1> QED
  BY <1>1, ScansOfSettled, SettledPasses DEF Settled, Returns

LEMMA NextPasses ==
  ASSUME Good(net), Counters, Next PROVE Passed(net, net') /\ Counters'
<1> USE NetworkAssumption DEF NetworkAssumption
<1>1. CASE Handle
  BY <1>1, HandlePasses DEF Counters
<1>2. CASE Reboot
  <2>1. net' = Reset(net) /\ net.up /\ UNCHANGED <<faults, edits>>
    BY <1>2 DEF Reboot, Become
  <2> QED
    BY <2>1, RestartKeeps DEF Passed, Returns, Counters
<1>3. CASE Crash
  BY <1>3, RestartKeeps DEF Crash, Passed, Returns, Counters
<1>4. CASE ScanDone
  BY <1>4, ScanEndPasses DEF ScanDone, Become, Counters
<1>5. CASE ScanFails
  <2>1. net.radio = "async" /\ net' = [net EXCEPT !.radio = "idle"]
    BY <1>5 DEF ScanFails
  <2>2. Passed(net, net')
    BY <2>1, ScanEndPasses
  <2> QED
    BY <1>5, <2>2 DEF ScanFails, Counters
<1>6. CASE LiteScanDone
  BY <1>6, LiteScanDonePasses DEF Counters
<1>7. CASE LinkUp
  <2>1. net.target \in Creds \cup {None}
    BY DEF Good, NetType
  <2> QED
    BY <1>7, <2>1, LinkPasses DEF LinkUp, Become, Counters
<1>8. CASE LinkDown
  BY <1>8, LinkPasses DEF LinkDown, Become, Counters
<1>9. CASE AddNetwork
  BY <1>9, EditPasses DEF AddNetwork, Request, Counters
<1>10. CASE RequestNetworkScan
  BY <1>10, RequestNetworkScanPasses DEF RequestNetworkScan, Request, Counters
<1>11. CASE OpenWifi
  BY <1>11, OpenWifiPasses DEF OpenWifi, Request, Counters
<1>12. CASE RemoveNetwork
  BY <1>12, EditPasses DEF RemoveNetwork, Request, Counters
<1>13. CASE SubmitNetwork
  <2>1. PICK c \in Saved : net' = [net EXCEPT !.temp = c, !.status = "testing", !.asked = TRUE]
    BY <1>13 DEF SubmitNetwork, Request
  <2>2. Passed(net, net')
    BY <2>1, SubmitPasses
  <2> QED
    BY <1>13, <2>2 DEF SubmitNetwork, Request, Counters
<1>14. CASE ScanFromPortal
  <2>1. /\ net.up
        /\ \/ net' = [net EXCEPT !.force = TRUE]
           \/ net' = StartAsync(net)
           \/ net' = ScanDelete(net)
    BY <1>14 DEF ScanFromPortal, Request
  <2>2. Passed(net, net')
    BY <2>1, PortalFlagPasses, PortalScanPasses
  <2> QED
    BY <1>14, <2>2 DEF ScanFromPortal, Request, Counters
<1>15. CASE Rescan
  <2>1. net' = [net EXCEPT !.reboot = TRUE]
    BY <1>15 DEF Rescan, Request
  <2>2. Passed(net, net')
    BY <2>1, PortalFlagPasses
  <2> QED
    BY <1>15, <2>2 DEF Rescan, Request, Counters
<1> QED
  BY <1>1, <1>2, <1>3, <1>4, <1>5, <1>6, <1>7, <1>8, <1>9, <1>10, <1>11, <1>12, <1>13,
     <1>14, <1>15 DEF Next

-----------------------------------------------------------------------------
(* The theorems                                                            *)

LEMMA Invariant == Spec => []IInv
<1>1. IInv /\ [Next]_vars => IInv'
  <2> SUFFICES ASSUME IInv, [Next]_vars PROVE IInv'
    OBVIOUS
  <2>1. CASE Next
    BY <2>1, NextPasses DEF IInv, Counters, Passed
  <2>2. CASE UNCHANGED vars
    BY <2>2 DEF IInv, vars, Good, Kept, Tidy, Hopeful, Eager, Waits
  <2> QED
    BY <2>1, <2>2
<1> QED
  BY InitHolds, <1>1, PTL DEF Spec

\* Every state is well typed, and no scan and no access point outlives the
\* state of the manager it belongs to.
THEOREM AlwaysCoherent == Spec => []Coherent
<1>1. IInv => Coherent
  BY DEF IInv, Good, Tidy, Coherent, TypeOK, NoOrphanScan, ApMeansPortal
<1> QED
  BY Invariant, <1>1, PTL

\* The list in memory and the one on flash are what users were told, unless a
\* save failed: packing, sorting, releasing and resets lose no network.
THEOREM KeepsWhatUsersWereTold == Spec => []KnownAreKept
<1>1. IInv => KnownAreKept
  BY DEF IInv, Good, Kept, KnownAreKept
<1> QED
  BY Invariant, <1>1, PTL

\* When trying networks ends in the portal, each network that the last scan
\* found in range had its try, unless the attempts began with roaming, which
\* keeps the old place in the list: getNextCredential passes none over.
THEOREM TriesAllFirst == Spec => PortalIsLastResort
<1> DEFINE Resort == net.state = "CONNECTING_STA" /\ net'.state = "PORTAL_MODE" =>
                       net.roamed \/ net.due = {}
<1>1. IInv /\ [Next]_vars => [Resort]_vars
  BY NextPasses DEF IInv, Counters, Passed
<1>2. Spec => [][Resort]_vars
  BY Invariant, <1>1, PTL DEF Spec
<1> QED
  BY <1>2 DEF PortalIsLastResort

\* The manager moves as its observers suppose (WifiPhases): it is connected
\* only after it has looked for a network, and the portal, once open, never goes
\* back to looking for one: it is left when the station is connected, or by a
\* reset, after which the manager starts anew.
THEOREM MovesByPhases == Spec => Phases!Moves
<1> DEFINE Shown == IF net.state \in {"SCANNING", "CONNECTING_STA"} THEN "SEEKING" ELSE net.state
<1>1. Init => Phases!Start
  <2> SUFFICES ASSUME Init PROVE net.state = "INITIALIZING"
    BY DEF Phases!Start
  <2>1. \A file : Booted(file).state = "INITIALIZING"
    BY DEF Booted
  <2>2. \E file : net = Booted(file)
    BY Zenon DEF Init
  <2> QED BY <2>1, <2>2
<1>2. IInv /\ IInv' /\ [Next]_vars => [Phases!Move]_Shown
  <2> SUFFICES ASSUME IInv, IInv', Next PROVE Phases!Move \/ Shown' = Shown
    BY DEF vars
  <2>1. net.state \in States /\ net'.state \in States
    BY DEF IInv, Good, NetType
  <2>2. Returns(net, net')
    BY NextPasses DEF IInv, Counters, Passed
  <2> QED
    BY <2>1, <2>2 DEF Returns, States, Phases!Move, Phases!Begin, Phases!Settle, Phases!Lose,
                      Phases!OpenPortal, Phases!Return, Phases!Restart
<1> QED
  BY Invariant, <1>1, <1>2, PTL DEF Spec, Phases!Moves
=============================================================================
