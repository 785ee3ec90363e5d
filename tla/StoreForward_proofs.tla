------------------------- MODULE StoreForward_proofs -------------------------
(***************************************************************************)
(* Proofs that no record is dropped on its way from the sensor to a server *)
(* but under the hazards that StoreForward names, that the rings stay in   *)
(* the order of the measurements while no call fails, that a pop which is  *)
(* owed is owed for a record some server has, that backpressure means a    *)
(* full queue, and that the lock of the snapshot is released: for every    *)
(* capacity of the three queues, any number of records and any faults.     *)
(***************************************************************************)
EXTENDS StoreForward, SequenceTheorems, WellFoundedInduction, TLAPS

\* The node d has its type, and its queues keep within their capacities.
Shaped(d) ==
  /\ d \in Node
  /\ Len(d.rtc) <= RtcCap
  /\ Len(d.lfs) <= LfsCap
  /\ Len(d.saved) <= LfsCap
  /\ Len(d.emergency) <= EmergCap

\* The records of which the node d can tell what became of them, without and
\* with those that still wait in RAM
Safe(d) == Range(d.rtc) \cup Range(d.lfs) \cup d.received \cup d.excused \cup d.strays
Accounted(d) == Stored(d) \cup d.received \cup d.excused \cup d.strays

Kept(d) == 1 .. d.made \subseteq Accounted(d)

Flagged(d) == d.backpressure <=> Len(d.emergency) = EmergCap

\* The node e comes after d, and no record has got lost on the way.
Keeps(d, e) ==
  /\ Shaped(e)
  /\ e.made = d.made
  /\ Accounted(d) \subseteq Accounted(e)
  /\ d.received \subseteq e.received
  /\ d.faults # 0 => e.faults # 0

\* Nor has the emergency queue changed.
KeepsQueue(d, e) ==
  /\ Keeps(d, e)
  /\ e.emergency = d.emergency
  /\ e.backpressure = d.backpressure

\* Nothing waits in RAM, and the rings are in order.
Ordered(d) ==
  /\ d.emergency = <<>> /\ ~d.cooling
  /\ Ascending(d.lfs) /\ Ascending(d.rtc)
  /\ \A x \in Range(d.lfs), y \in Range(d.rtc) : x < y
  /\ \A x \in Range(d.lfs) \cup Range(d.rtc) : x <= d.made

\* If no call has failed up to e, then none had up to d, and e keeps the order of d.
Orderly(d, e) == e.faults = 0 => d.faults = 0 /\ (Ordered(d) => Ordered(e))

Sound(d) == Shaped(d) /\ Kept(d) /\ Flagged(d) /\ (d.faults = 0 => Ordered(d))

\* A pop that is owed for the upload u is owed for a record some server has.
Owed(d, u) ==
  u.streak > 0 /\ u.source # "NONE" /\ ~u.disturbed /\ ~u.stale =>
    FrontOf(d, u.source) \in d.received \cup {NoRecord}

\* What is going out, or went out, is the front of the ring it was read from.
SendsFront(d, u) ==
  ~u.disturbed /\ ~u.edge /\ u.source # "NONE" =>
    /\ u.http \in {"CONNECTING", "SENDING"} => d.buf = FrontOf(d, u.source)
    /\ u.http \in {"WAITING", "READING"} => u.sent = FrontOf(d, u.source)

\* A request that is out carries a record, and a snapshot has a request.
Requests(u) ==
  /\ u.http \in {"WAITING", "READING"} => u.sent \in Record
  /\ u.edge => u.http # "IDLE"

Good(d, u) == u \in Upload /\ Owed(d, u) /\ SendsFront(d, u) /\ Requests(u)

OtherTypes ==
  /\ route \in [mode : Mode, local : BOOLEAN, cached : {-1, 0, 1}]
  /\ live \in [pending : BOOLEAN, inFlight : BOOLEAN]

Inv == Sound(node) /\ Good(node, up) /\ OtherTypes

-----------------------------------------------------------------------------
(* Sequences.                                                              *)

LEMMA Caps ==
  /\ RtcCap \in Nat /\ LfsCap \in Nat /\ EmergCap \in Nat /\ DrainMax \in Nat /\ StreakMax \in Nat
  /\ RtcCap > 0 /\ LfsCap > 0 /\ EmergCap > 0 /\ DrainMax > 0 /\ StreakMax > 0
  /\ MaxFaults \in Nat /\ MaxRecords \in Nat
  BY StoreForwardAssumption

LEMMA Pushed ==
  ASSUME NEW s \in Seq(Record), NEW r \in Record
  PROVE  /\ Append(s, r) \in Seq(Record)
         /\ Len(Append(s, r)) = Len(s) + 1
         /\ Range(Append(s, r)) = Range(s) \cup {r}
<1>1. /\ Append(s, r) \in Seq(Record) /\ Len(Append(s, r)) = Len(s) + 1
      /\ \A i \in 1 .. Len(s) : Append(s, r)[i] = s[i]
      /\ Append(s, r)[Len(s) + 1] = r
  BY AppendProperties
<1>2. Len(s) \in Nat
  BY LenProperties
<1>3. Range(Append(s, r)) = {Append(s, r)[i] : i \in 1 .. Len(s) + 1}
  BY <1>1, RangeEquality
<1>4. Range(s) = {s[i] : i \in 1 .. Len(s)}
  BY RangeEquality
<1> QED BY <1>1, <1>2, <1>3, <1>4

LEMMA Popped ==
  ASSUME NEW s \in Seq(Record), s # <<>>
  PROVE  /\ Head(s) \in Record /\ Head(s) \in Range(s)
         /\ Tail(s) \in Seq(Record)
         /\ Len(Tail(s)) = Len(s) - 1 /\ Len(s) \in Nat /\ Len(s) > 0
         /\ Range(s) = Range(Tail(s)) \cup {Head(s)}
<1>1. /\ Tail(s) \in Seq(Record) /\ Len(Tail(s)) = Len(s) - 1 /\ Head(s) \in Record
      /\ \A i \in 1 .. Len(Tail(s)) : Tail(s)[i] = s[i + 1]
  BY HeadTailProperties
<1>2. Len(s) \in Nat \ {0} /\ Head(s) = s[1]
  BY EmptySeq
<1>3. Range(Tail(s)) = {Tail(s)[i] : i \in 1 .. Len(Tail(s))}
  BY <1>1, RangeEquality
<1>4. Range(s) = {s[i] : i \in 1 .. Len(s)}
  BY RangeEquality
<1>5. ASSUME NEW x \in Range(s) PROVE x \in Range(Tail(s)) \cup {Head(s)}
  <2>1. PICK i \in 1 .. Len(s) : x = s[i]
    BY <1>4, <1>5
  <2>2. CASE i = 1
    BY <2>1, <2>2, <1>2
  <2>3. CASE i # 1
    <3>1. i - 1 \in 1 .. Len(Tail(s)) /\ Tail(s)[i - 1] = s[(i - 1) + 1] /\ (i - 1) + 1 = i
      BY <2>1, <2>3, <1>1, <1>2
    <3> QED BY <2>1, <3>1, <1>3
  <2> QED BY <2>2, <2>3
<1>6. ASSUME NEW x \in Range(Tail(s)) PROVE x \in Range(s)
  <2>1. PICK i \in 1 .. Len(Tail(s)) : x = Tail(s)[i]
    BY <1>3, <1>6
  <2>2. i + 1 \in 1 .. Len(s) /\ x = s[i + 1]
    BY <2>1, <1>1, <1>2
  <2> QED BY <2>2, <1>4
<1>7. Head(s) \in Range(s)
  BY <1>2, <1>4
<1> QED BY <1>1, <1>2, <1>5, <1>6, <1>7

LEMMA Shorter ==
  ASSUME NEW s \in Seq(Record), s # <<>>, NEW n \in Nat, Len(s) <= n
  PROVE  Len(Tail(s)) <= n
<1>1. Len(Tail(s)) = Len(s) - 1 /\ Len(s) \in Nat
  BY Popped
<1> QED BY <1>1

LEMMA Nothing == <<>> \in Seq(Record) /\ Len(<<>>) = 0 /\ Range(<<>>) = {}
<1>1. <<>> \in Seq(Record) /\ Len(<<>>) = 0
  BY EmptySeq
<1>2. DOMAIN <<>> = {}
  BY <1>1, LenProperties
<1> QED BY <1>1, <1>2 DEF Range

\* The part of a sequence from m to n
LEMMA Part ==
  ASSUME NEW s \in Seq(Record), NEW m \in Nat, m >= 1, NEW n \in Int, n <= Len(s)
  PROVE  /\ SubSeq(s, m, n) \in Seq(Record)
         /\ Len(SubSeq(s, m, n)) = IF m <= n THEN n - m + 1 ELSE 0
         /\ Range(SubSeq(s, m, n)) = {s[i] : i \in m .. n}
<1>1. Len(s) \in Nat /\ \A i \in 1 .. Len(s) : s[i] \in Record
  BY LenProperties, ElementOfSeq
<1>2. \A i \in m .. n : s[i] \in Record
  BY <1>1
<1>3. /\ SubSeq(s, m, n) \in Seq(Record)
      /\ Len(SubSeq(s, m, n)) = IF m <= n THEN n - m + 1 ELSE 0
      /\ \A i \in 1 .. n - m + 1 : SubSeq(s, m, n)[i] = s[m + i - 1]
  BY <1>2, SubSeqProperties
<1>4. Range(SubSeq(s, m, n)) = {SubSeq(s, m, n)[i] : i \in 1 .. Len(SubSeq(s, m, n))}
  BY <1>3, RangeEquality
<1>5. ASSUME NEW x \in Range(SubSeq(s, m, n)) PROVE x \in {s[i] : i \in m .. n}
  <2>1. PICK i \in 1 .. Len(SubSeq(s, m, n)) : x = SubSeq(s, m, n)[i]
    BY <1>4, <1>5
  <2>2. i \in 1 .. n - m + 1 /\ m + i - 1 \in m .. n
    BY <2>1, <1>3
  <2> QED BY <2>1, <2>2, <1>3
<1>6. ASSUME NEW x \in {s[i] : i \in m .. n} PROVE x \in Range(SubSeq(s, m, n))
  <2>1. PICK j \in m .. n : x = s[j]
    BY <1>6
  <2>2. j - m + 1 \in 1 .. n - m + 1 /\ m + (j - m + 1) - 1 = j /\ Len(SubSeq(s, m, n)) = n - m + 1
    BY <2>1, <1>3
  <2>3. SubSeq(s, m, n)[j - m + 1] = s[j]
    BY <2>2, <1>3
  <2> QED BY <2>1, <2>2, <2>3, <1>4
<1> QED BY <1>3, <1>5, <1>6

\* All of a sequence but its first k elements
LEMMA Rest ==
  ASSUME NEW s \in Seq(Record), NEW k \in 0 .. Len(s)
  PROVE  /\ SubSeq(s, k + 1, Len(s)) \in Seq(Record)
         /\ Len(SubSeq(s, k + 1, Len(s))) = Len(s) - k
         /\ Range(s) = Range(SubSeq(s, k + 1, Len(s))) \cup {s[i] : i \in 1 .. k}
<1>1. Len(s) \in Nat /\ k \in Nat /\ k + 1 \in Nat /\ k + 1 >= 1
  BY LenProperties
<1>2. /\ SubSeq(s, k + 1, Len(s)) \in Seq(Record)
      /\ Len(SubSeq(s, k + 1, Len(s))) = IF k + 1 <= Len(s) THEN Len(s) - (k + 1) + 1 ELSE 0
      /\ Range(SubSeq(s, k + 1, Len(s))) = {s[i] : i \in k + 1 .. Len(s)}
  BY <1>1, Part
<1>3. Range(s) = {s[i] : i \in 1 .. Len(s)}
  BY RangeEquality
<1>4. 1 .. Len(s) = (k + 1 .. Len(s)) \cup (1 .. k)
  BY <1>1
<1> QED BY <1>1, <1>2, <1>3, <1>4

LEMMA NothingAscends == Ascending(<<>>)
<1>1. DOMAIN <<>> = {}
  BY Nothing, LenProperties
<1> QED BY <1>1 DEF Ascending

LEMMA AscendingRest ==
  ASSUME NEW s \in Seq(Record), Ascending(s), NEW k \in 0 .. Len(s)
  PROVE  Ascending(SubSeq(s, k + 1, Len(s)))
<1> DEFINE t == SubSeq(s, k + 1, Len(s))
<1>1. Len(s) \in Nat /\ k \in Nat /\ \A i \in 1 .. Len(s) : s[i] \in Record
  BY LenProperties, ElementOfSeq
<1>2. /\ t \in Seq(Record) /\ Len(t) = Len(s) - k
      /\ \A i \in 1 .. Len(s) - (k + 1) + 1 : t[i] = s[k + 1 + i - 1]
  <2>1. \A i \in k + 1 .. Len(s) : s[i] \in Record
    BY <1>1
  <2> QED BY <1>1, <2>1, Rest, SubSeqProperties
<1> HIDE DEF t
<1>3. DOMAIN s = 1 .. Len(s) /\ DOMAIN t = 1 .. Len(t)
  BY <1>2, LenProperties
<1>4. Ascending(t)
  <2>1. SUFFICES ASSUME NEW i \in 1 .. Len(t), NEW j \in 1 .. Len(t), i < j
                 PROVE  t[i] < t[j]
    BY <1>3 DEF Ascending
  <2>2. /\ i \in 1 .. Len(s) - (k + 1) + 1 /\ j \in 1 .. Len(s) - (k + 1) + 1
        /\ k + 1 + i - 1 \in 1 .. Len(s) /\ k + 1 + j - 1 \in 1 .. Len(s)
        /\ k + 1 + i - 1 < k + 1 + j - 1
    BY <1>1, <1>2, <2>1
  <2>3. s[k + 1 + i - 1] < s[k + 1 + j - 1]
    BY <1>3, <2>2 DEF Ascending
  <2> QED BY <1>2, <2>2, <2>3
<1> QED BY <1>4 DEF t

LEMMA AscendingTail ==
  ASSUME NEW s \in Seq(Record), s # <<>>, Ascending(s)
  PROVE  Ascending(Tail(s))
<1>1. Tail(s) = SubSeq(s, 2, Len(s))
  BY TailIsSubSeq
<1>2. Len(s) \in Nat \ {0}
  BY EmptySeq
<1> DEFINE k == 1
<1>3. k \in 0 .. Len(s) /\ k + 1 = 2
  BY <1>2
<1> HIDE DEF k
<1>4. Ascending(SubSeq(s, k + 1, Len(s)))
  BY <1>3, AscendingRest
<1> QED BY <1>1, <1>3, <1>4

LEMMA AscendingAppend ==
  ASSUME NEW s \in Seq(Record), Ascending(s), NEW r \in Record, \A x \in Range(s) : x < r
  PROVE  Ascending(Append(s, r))
<1> DEFINE t == Append(s, r)
<1>1. /\ t \in Seq(Record) /\ Len(t) = Len(s) + 1 /\ Len(s) \in Nat
      /\ \A i \in 1 .. Len(s) : t[i] = s[i]
      /\ t[Len(s) + 1] = r
  BY AppendProperties, LenProperties
<1> HIDE DEF t
<1>2. DOMAIN s = 1 .. Len(s) /\ DOMAIN t = 1 .. Len(t)
  BY <1>1, LenProperties
<1>3. Range(s) = {s[i] : i \in 1 .. Len(s)}
  BY RangeEquality
<1>4. Ascending(t)
  <2>1. SUFFICES ASSUME NEW i \in 1 .. Len(t), NEW j \in 1 .. Len(t), i < j
                 PROVE  t[i] < t[j]
    BY <1>2 DEF Ascending
  <2>2. i \in 1 .. Len(s) /\ t[i] = s[i]
    BY <1>1, <2>1
  <2>3. CASE j = Len(s) + 1
    BY <1>1, <1>3, <2>2, <2>3
  <2>4. CASE j # Len(s) + 1
    <3>1. j \in 1 .. Len(s) /\ t[j] = s[j]
      BY <1>1, <2>1, <2>4
    <3>2. s[i] < s[j]
      BY <1>2, <2>1, <2>2, <3>1 DEF Ascending
    <3> QED BY <2>2, <3>1, <3>2
  <2> QED BY <2>3, <2>4
<1> QED BY <1>4 DEF t

LEMMA AscendingConcat ==
  ASSUME NEW s \in Seq(Record), NEW t \in Seq(Record), Ascending(s), Ascending(t),
         \A x \in Range(s), y \in Range(t) : x < y
  PROVE  Ascending(s \o t)
<1> DEFINE q == s \o t
<1>1. /\ q \in Seq(Record) /\ Len(q) = Len(s) + Len(t) /\ Len(s) \in Nat /\ Len(t) \in Nat
      /\ \A i \in 1 .. Len(s) + Len(t) : q[i] = IF i <= Len(s) THEN s[i] ELSE t[i - Len(s)]
  BY ConcatProperties, LenProperties
<1> HIDE DEF q
<1>2. DOMAIN s = 1 .. Len(s) /\ DOMAIN t = 1 .. Len(t) /\ DOMAIN q = 1 .. Len(q)
  BY <1>1, LenProperties
<1>3. Range(s) = {s[i] : i \in 1 .. Len(s)} /\ Range(t) = {t[i] : i \in 1 .. Len(t)}
  BY RangeEquality
<1>4. Ascending(q)
  <2>1. SUFFICES ASSUME NEW i \in 1 .. Len(q), NEW j \in 1 .. Len(q), i < j
                 PROVE  q[i] < q[j]
    BY <1>2 DEF Ascending
  <2>2. CASE j <= Len(s)
    <3>1. i \in 1 .. Len(s) /\ j \in 1 .. Len(s) /\ q[i] = s[i] /\ q[j] = s[j]
      BY <1>1, <2>1, <2>2
    <3>2. s[i] < s[j]
      BY <1>2, <2>1, <3>1 DEF Ascending
    <3> QED BY <3>1, <3>2
  <2>3. CASE i <= Len(s) /\ ~(j <= Len(s))
    <3>1. i \in 1 .. Len(s) /\ j - Len(s) \in 1 .. Len(t) /\ q[i] = s[i] /\ q[j] = t[j - Len(s)]
      BY <1>1, <2>1, <2>3
    <3>2. q[i] \in Range(s) /\ q[j] \in Range(t)
      BY <1>3, <3>1
    <3> QED BY <3>2
  <2>4. CASE ~(i <= Len(s))
    <3>1. /\ i - Len(s) \in 1 .. Len(t) /\ j - Len(s) \in 1 .. Len(t)
          /\ q[i] = t[i - Len(s)] /\ q[j] = t[j - Len(s)] /\ i - Len(s) < j - Len(s)
      BY <1>1, <2>1, <2>4
    <3>2. t[i - Len(s)] < t[j - Len(s)]
      BY <1>2, <3>1 DEF Ascending
    <3> QED BY <3>1, <3>2
  <2> QED BY <1>1, <2>1, <2>2, <2>3, <2>4
<1> QED BY <1>4 DEF q

-----------------------------------------------------------------------------
(* The queues of a node.                                                   *)

LEMMA Outcome ==
  ASSUME NEW d
  PROVE  /\ Ok(d).ok = TRUE /\ Ok(d).node = d
         /\ No(d).ok = FALSE /\ No(d).node = d
  BY DEF Ok, No

LEMMA Fields ==
  ASSUME NEW d \in Node
  PROVE  /\ d.rtc \in Seq(Record) /\ d.lfs \in Seq(Record)
         /\ d.emergency \in Seq(Record) /\ d.saved \in Seq(Record)
         /\ d.backpressure \in BOOLEAN /\ d.cooling \in BOOLEAN
         /\ d.buf \in {NoRecord} \cup Record
         /\ d.made \in 0 .. MaxRecords /\ d.faults \in 0 .. MaxFaults
         /\ d.received \subseteq Record /\ d.excused \subseteq Record /\ d.strays \subseteq Record
  BY DEF Node

LEMMA KeepsQueueReflexive ==
  ASSUME NEW d, Shaped(d)
  PROVE  KeepsQueue(d, d)
  BY DEF KeepsQueue, Keeps

LEMMA KeepsTransitive ==
  ASSUME NEW d, NEW e, NEW f, Keeps(d, e), Keeps(e, f)
  PROVE  Keeps(d, f)
  BY DEF Keeps

LEMMA KeepsQueueTransitive ==
  ASSUME NEW d, NEW e, NEW f, KeepsQueue(d, e), KeepsQueue(e, f)
  PROVE  KeepsQueue(d, f)
  BY KeepsTransitive DEF KeepsQueue

LEMMA OrderlyTransitive ==
  ASSUME NEW d, NEW e, NEW f, Orderly(d, e), Orderly(e, f)
  PROVE  Orderly(d, f)
  BY DEF Orderly

\* The rings of e are those of d.
LEMMA SameOrder ==
  ASSUME NEW d, NEW e, e.rtc = d.rtc, e.lfs = d.lfs, e.emergency = d.emergency,
         e.cooling = d.cooling, e.made = d.made, e.faults = d.faults
  PROVE  Orderly(d, e)
  BY DEF Orderly, Ordered

\* The node e differs from d in what no property reads.
LEMMA Marked ==
  ASSUME NEW d, Shaped(d), NEW e \in Node,
         e.rtc = d.rtc, e.lfs = d.lfs, e.emergency = d.emergency, e.saved = d.saved,
         e.backpressure = d.backpressure, e.made = d.made,
         d.received \subseteq e.received, d.excused \subseteq e.excused,
         d.strays \subseteq e.strays, d.faults # 0 => e.faults # 0
  PROVE  KeepsQueue(d, e)
  BY DEF KeepsQueue, Keeps, Shaped, Accounted, Stored

LEMMA HitKeeps ==
  ASSUME NEW d, Shaped(d), NEW k, NEW e \in Hit(d, k)
  PROVE  /\ KeepsQueue(d, e)
         /\ e.rtc = d.rtc /\ e.lfs = d.lfs /\ e.buf = d.buf /\ e.saved = d.saved
         /\ e.received = d.received /\ e.excused = d.excused /\ e.strays = d.strays
         /\ e.faults = d.faults + 1 /\ e.faults # 0 /\ Orderly(d, e)
<1>1. e = [d EXCEPT !.faults = @ + 1] /\ d.faults < MaxFaults /\ d \in Node
  BY DEF Hit, Shaped
<1>2. d.faults + 1 \in 0 .. MaxFaults /\ d.faults + 1 # 0
  BY <1>1, Fields, Caps
<1>3. e \in Node /\ e.faults = d.faults + 1
  BY <1>1, <1>2 DEF Node
<1>4. /\ e.rtc = d.rtc /\ e.lfs = d.lfs /\ e.emergency = d.emergency /\ e.saved = d.saved
      /\ e.backpressure = d.backpressure /\ e.made = d.made /\ e.buf = d.buf
      /\ e.received = d.received /\ e.excused = d.excused /\ e.strays = d.strays
  BY <1>1 DEF Node
<1>5. Orderly(d, e)
  BY <1>2, <1>3 DEF Orderly
<1> QED BY <1>2, <1>3, <1>4, <1>5, Marked

LEMMA BufKeeps ==
  ASSUME NEW d, Shaped(d), NEW r \in {NoRecord} \cup Record
  PROVE  /\ KeepsQueue(d, [d EXCEPT !.buf = r])
         /\ [d EXCEPT !.buf = r].buf = r
         /\ [d EXCEPT !.buf = r].rtc = d.rtc /\ [d EXCEPT !.buf = r].lfs = d.lfs
         /\ [d EXCEPT !.buf = r].received = d.received
         /\ [d EXCEPT !.buf = r].faults = d.faults
         /\ Orderly(d, [d EXCEPT !.buf = r])
<1> DEFINE e == [d EXCEPT !.buf = r]
<1>1. /\ e \in Node /\ e.buf = r /\ e.rtc = d.rtc /\ e.lfs = d.lfs /\ e.emergency = d.emergency
      /\ e.saved = d.saved /\ e.backpressure = d.backpressure /\ e.made = d.made
      /\ e.received = d.received /\ e.excused = d.excused /\ e.strays = d.strays
      /\ e.faults = d.faults /\ e.cooling = d.cooling
  BY DEF Node, Shaped
<1> QED BY <1>1, Marked, SameOrder

LEMMA CoolingKeeps ==
  ASSUME NEW d, Shaped(d), NEW b \in BOOLEAN
  PROVE  /\ KeepsQueue(d, [d EXCEPT !.cooling = b])
         /\ [d EXCEPT !.cooling = b].rtc = d.rtc /\ [d EXCEPT !.cooling = b].lfs = d.lfs
         /\ [d EXCEPT !.cooling = b].received = d.received
         /\ [d EXCEPT !.cooling = b].faults = d.faults
<1> DEFINE e == [d EXCEPT !.cooling = b]
<1>1. /\ e \in Node /\ e.rtc = d.rtc /\ e.lfs = d.lfs /\ e.emergency = d.emergency
      /\ e.saved = d.saved /\ e.backpressure = d.backpressure /\ e.made = d.made
      /\ e.received = d.received /\ e.excused = d.excused /\ e.strays = d.strays
      /\ e.faults = d.faults
  BY DEF Node, Shaped
<1> QED BY <1>1, Marked

\* A server gets a record.
LEMMA ReceivedKeeps ==
  ASSUME NEW d, Shaped(d), NEW s \in SUBSET Record
  PROVE  /\ KeepsQueue(d, [d EXCEPT !.received = @ \cup s])
         /\ [d EXCEPT !.received = @ \cup s].received = d.received \cup s
         /\ [d EXCEPT !.received = @ \cup s].rtc = d.rtc
         /\ [d EXCEPT !.received = @ \cup s].lfs = d.lfs
         /\ [d EXCEPT !.received = @ \cup s].buf = d.buf
         /\ [d EXCEPT !.received = @ \cup s].faults = d.faults
         /\ Orderly(d, [d EXCEPT !.received = @ \cup s])
<1> DEFINE e == [d EXCEPT !.received = @ \cup s]
<1>1. d.received \cup s \subseteq Record
  BY Fields DEF Shaped
<1>2. /\ e \in Node /\ e.buf = d.buf /\ e.rtc = d.rtc /\ e.lfs = d.lfs /\ e.emergency = d.emergency
      /\ e.saved = d.saved /\ e.backpressure = d.backpressure /\ e.made = d.made
      /\ e.received = d.received \cup s /\ e.excused = d.excused /\ e.strays = d.strays
      /\ e.faults = d.faults /\ e.cooling = d.cooling
  BY <1>1 DEF Node, Shaped
<1> QED BY <1>2, Marked, SameOrder

\* The oldest record in a full LittleFS makes room.
LEMMA TrimmedKeeps ==
  ASSUME NEW d, Shaped(d)
  PROVE  /\ KeepsQueue(d, Trimmed(d))
         /\ Len(Trimmed(d).lfs) < LfsCap
         /\ Trimmed(d).rtc = d.rtc /\ Trimmed(d).received = d.received
         /\ Trimmed(d).faults = d.faults
         /\ Trimmed(d).lfs = (IF Len(d.lfs) < LfsCap THEN d.lfs ELSE Tail(d.lfs))
         /\ d.lfs = <<>> => Trimmed(d) = d
<1>0. d \in Node /\ d.lfs \in Seq(Record) /\ Len(d.lfs) \in Nat /\ LfsCap \in Nat /\ LfsCap > 0
  BY Fields, Caps, LenProperties DEF Shaped
<1>1. CASE Len(d.lfs) < LfsCap
  BY <1>1, KeepsQueueReflexive DEF Trimmed
<1>2. CASE ~(Len(d.lfs) < LfsCap)
  <2>1. d.lfs # <<>>
    BY <1>0, <1>2, Nothing
  <2>2. /\ Head(d.lfs) \in Record /\ Tail(d.lfs) \in Seq(Record)
        /\ Len(Tail(d.lfs)) = Len(d.lfs) - 1
        /\ Range(d.lfs) = Range(Tail(d.lfs)) \cup {Head(d.lfs)}
    BY <1>0, <2>1, Popped
  <2> DEFINE e == Trimmed(d)
  <2>3. e = [[d EXCEPT !.lfs = Tail(@)] EXCEPT !.excused = @ \cup {Head(d.lfs)}]
    BY <1>2 DEF Trimmed, Excuse
  <2>4. d.excused \cup {Head(d.lfs)} \subseteq Record
    BY <1>0, <2>2, Fields
  <2>5. /\ e \in Node /\ e.lfs = Tail(d.lfs) /\ e.excused = d.excused \cup {Head(d.lfs)}
        /\ e.rtc = d.rtc /\ e.emergency = d.emergency /\ e.saved = d.saved
        /\ e.backpressure = d.backpressure /\ e.made = d.made /\ e.buf = d.buf
        /\ e.received = d.received /\ e.strays = d.strays /\ e.faults = d.faults
    BY <1>0, <2>2, <2>3, <2>4 DEF Node
  <2>6. Accounted(d) \subseteq Accounted(e)
    BY <2>2, <2>5 DEF Accounted, Stored
  <2>7. Shaped(e) /\ Len(e.lfs) < LfsCap
    BY <1>0, <2>2, <2>5 DEF Shaped
  <2> QED BY <1>2, <2>1, <2>5, <2>6, <2>7 DEF KeepsQueue, Keeps
<1> QED BY <1>1, <1>2

\* What becomes of the record r when d goes to the outcome o
Settles(d, r, o) ==
  /\ o \in {Ok(o.node), No(o.node)}
  /\ KeepsQueue(d, o.node)
  /\ o.ok => r \in Safe(o.node)

LEMMA OkSettles ==
  ASSUME NEW d, NEW r, NEW e, KeepsQueue(d, e), r \in Safe(e)
  PROVE  Settles(d, r, Ok(e))
  BY Outcome DEF Settles

LEMMA NoSettles ==
  ASSUME NEW d, NEW r, NEW e, KeepsQueue(d, e)
  PROVE  Settles(d, r, No(e))
  BY Outcome DEF Settles

\* persistEmergencyRecord gives up for a while.
LEMMA CoolsDown ==
  ASSUME NEW d, NEW r, NEW p, KeepsQueue(d, p.node)
  PROVE  Settles(d, r, No([p.node EXCEPT !.cooling = TRUE]))
<1>1. Shaped(p.node)
  BY DEF KeepsQueue, Keeps
<1>2. KeepsQueue(p.node, [p.node EXCEPT !.cooling = TRUE])
  BY <1>1, CoolingKeeps
<1> QED BY <1>2, KeepsQueueTransitive, NoSettles

LEMMA AppendToRtcSettles ==
  ASSUME NEW d, Shaped(d), NEW r \in Record, NEW o \in AppendToRtc(d, r)
  PROVE  Settles(d, r, o)
<1>0. d \in Node /\ d.rtc \in Seq(Record) /\ Len(d.rtc) \in Nat /\ RtcCap \in Nat
  BY Fields, Caps, LenProperties DEF Shaped
<1>1. CASE o = No(d)
  BY <1>1, Outcome, KeepsQueueReflexive DEF Settles
<1>2. CASE \E e \in Hit(d, "write") : o = No(e)
  BY <1>2, HitKeeps, NoSettles
<1>3. CASE ~(Len(d.rtc) >= RtcCap) /\ o = Ok([d EXCEPT !.rtc = Append(@, r), !.cooling = FALSE])
  <2> DEFINE e == [d EXCEPT !.rtc = Append(@, r), !.cooling = FALSE]
  <2>1. o = Ok(e) /\ o.node = e /\ o.ok = TRUE
    BY <1>3, Outcome
  <2>2. /\ Append(d.rtc, r) \in Seq(Record) /\ Len(Append(d.rtc, r)) = Len(d.rtc) + 1
        /\ Range(Append(d.rtc, r)) = Range(d.rtc) \cup {r}
    BY <1>0, Pushed
  <2>3. /\ e \in Node /\ e.rtc = Append(d.rtc, r) /\ e.faults = d.faults
        /\ e.lfs = d.lfs /\ e.emergency = d.emergency /\ e.saved = d.saved
        /\ e.backpressure = d.backpressure /\ e.made = d.made
        /\ e.received = d.received /\ e.excused = d.excused /\ e.strays = d.strays
    BY <1>0, <2>2 DEF Node
  <2> HIDE DEF e
  <2>4. Accounted(d) \subseteq Accounted(e) /\ r \in Safe(e)
    BY <2>2, <2>3 DEF Accounted, Stored, Safe
  <2>5. Shaped(e)
    BY <1>0, <1>3, <2>2, <2>3 DEF Shaped
  <2>6. KeepsQueue(d, e)
    BY <2>3, <2>4, <2>5 DEF KeepsQueue, Keeps
  <2> QED BY <2>1, <2>4, <2>6 DEF Settles
<1> QED BY <1>1, <1>2, <1>3 DEF AppendToRtc

LEMMA AppendToLfsSettles ==
  ASSUME NEW d, Shaped(d), NEW r \in Record, NEW o \in AppendToLfs(d, r)
  PROVE  Settles(d, r, o)
<1> DEFINE b == [d EXCEPT !.buf = r]
           t == Trimmed(b)
           e == [t EXCEPT !.lfs = Append(@, r), !.cooling = FALSE]
<1>1. KeepsQueue(d, b) /\ Shaped(b)
  BY BufKeeps DEF KeepsQueue, Keeps
<1>2. o = Ok(e) \/ \E f \in Hit(b, "write") \cup Hit(t, "write") : o = No(f)
  BY DEF AppendToLfs
<1> HIDE DEF b
<1>3. KeepsQueue(b, t) /\ Shaped(t) /\ Len(t.lfs) < LfsCap
  BY <1>1, TrimmedKeeps DEF KeepsQueue, Keeps
<1>4. KeepsQueue(d, t)
  BY <1>1, <1>3, KeepsQueueTransitive
<1> HIDE DEF t
<1>5. CASE \E f \in Hit(b, "write") \cup Hit(t, "write") : o = No(f)
  <2>1. PICK f \in Hit(b, "write") \cup Hit(t, "write") : o = No(f)
    BY <1>5
  <2>2. KeepsQueue(b, f) \/ KeepsQueue(t, f)
    BY <1>1, <1>3, HitKeeps
  <2>3. KeepsQueue(d, f)
    BY <1>1, <1>4, <2>2, KeepsQueueTransitive
  <2> QED BY <2>1, <2>3, NoSettles
<1>6. CASE o = Ok(e)
  <2>1. /\ t \in Node /\ t.lfs \in Seq(Record) /\ Len(t.lfs) \in Nat /\ LfsCap \in Nat
    BY <1>3, Fields, Caps, LenProperties DEF Shaped
  <2>2. /\ Append(t.lfs, r) \in Seq(Record) /\ Len(Append(t.lfs, r)) = Len(t.lfs) + 1
        /\ Range(Append(t.lfs, r)) = Range(t.lfs) \cup {r}
    BY <2>1, Pushed
  <2>3. /\ e \in Node /\ e.lfs = Append(t.lfs, r) /\ e.faults = t.faults
        /\ e.rtc = t.rtc /\ e.emergency = t.emergency /\ e.saved = t.saved
        /\ e.backpressure = t.backpressure /\ e.made = t.made
        /\ e.received = t.received /\ e.excused = t.excused /\ e.strays = t.strays
    BY <2>1, <2>2 DEF Node
  <2>4. o.node = e /\ o.ok = TRUE
    BY <1>6, Outcome
  <2> HIDE DEF e
  <2>5. Accounted(t) \subseteq Accounted(e) /\ r \in Safe(e)
    BY <2>2, <2>3 DEF Accounted, Stored, Safe
  <2>6. Shaped(e)
    BY <1>3, <2>1, <2>2, <2>3 DEF Shaped
  <2>7. KeepsQueue(t, e)
    BY <2>3, <2>5, <2>6 DEF KeepsQueue, Keeps
  <2>8. KeepsQueue(d, e)
    BY <1>4, <2>7, KeepsQueueTransitive
  <2> QED BY <1>6, <2>4, <2>5, <2>8 DEF Settles
<1> QED BY <1>2, <1>5, <1>6

LEMMA DirectSendSettles ==
  ASSUME NEW d, Shaped(d), NEW r \in Record, NEW o \in DirectSend(d, r)
  PROVE  Settles(d, r, o)
<1> DEFINE v == IF ToEdge THEN r ELSE NoRecord
           b == [d EXCEPT !.buf = v]
           got == [b EXCEPT !.received = @ \cup {r}]
           e == [got EXCEPT !.cooling = FALSE]
<1>1. o \in {Ok(e), No(got), No(b)}
  BY DEF DirectSend
<1>2. v \in {NoRecord} \cup Record
  OBVIOUS
<1> HIDE DEF v
<1>3. KeepsQueue(d, b) /\ Shaped(b)
  BY <1>2, BufKeeps DEF KeepsQueue, Keeps
<1> HIDE DEF b
<1>4. KeepsQueue(b, got) /\ Shaped(got) /\ got.received = b.received \cup {r}
  <2>1. {r} \in SUBSET Record
    OBVIOUS
  <2>2. KeepsQueue(b, got) /\ got.received = b.received \cup {r}
    BY <1>3, <2>1, ReceivedKeeps
  <2> QED BY <2>2 DEF KeepsQueue, Keeps
<1> HIDE DEF got
<1>5. KeepsQueue(got, e) /\ e.received = got.received
  BY <1>4, CoolingKeeps
<1> HIDE DEF e
<1>6. r \in Safe(e)
  BY <1>4, <1>5 DEF Safe
<1>7. KeepsQueue(d, got) /\ KeepsQueue(d, e)
  BY <1>3, <1>4, <1>5, KeepsQueueTransitive
<1> QED BY <1>1, <1>3, <1>6, <1>7, Outcome DEF Settles

LEMMA PersistSettles ==
  ASSUME NEW d, Shaped(d), NEW r \in Record, NEW allow \in BOOLEAN, NEW o \in Persist(d, r, allow)
  PROVE  Settles(d, r, o)
<1> DEFINE Fallback(p) == IF p.ok THEN {p}
                      ELSE IF ~allow THEN {No([p.node EXCEPT !.cooling = TRUE])}
                      ELSE {IF q.ok THEN q ELSE No([q.node EXCEPT !.cooling = TRUE]) :
                              q \in DirectSend(p.node, r)}
           Second(a) == UNION {Fallback(p) : p \in AppendToLfs(a.node, r)}
<1>1. PICK a \in AppendToRtc(d, r) :
        o \in IF a.ok THEN {a} ELSE (IF a.node.cooling THEN {a} ELSE {}) \cup Second(a)
  BY DEF Persist
<1>2. Settles(d, r, a) /\ Shaped(a.node)
  BY AppendToRtcSettles DEF Settles, KeepsQueue, Keeps
<1>3. CASE o = a
  BY <1>2, <1>3
<1>4. CASE o # a
  <2> HIDE DEF Second
  <2>1. o \in Second(a)
    BY <1>1, <1>4, Zenon
  <2> USE DEF Second
  <2> HIDE DEF Fallback
  <2>2. PICK p \in AppendToLfs(a.node, r) : o \in Fallback(p)
    BY <2>1, Zenon
  <2> USE DEF Fallback
  <2>3. Settles(a.node, r, p) /\ Shaped(p.node) /\ KeepsQueue(d, p.node)
    BY <1>2, AppendToLfsSettles, KeepsQueueTransitive DEF Settles, KeepsQueue, Keeps
  <2>4. CASE o = p
    BY <2>3, <2>4 DEF Settles
  <2>5. CASE o = No([p.node EXCEPT !.cooling = TRUE])
    BY <2>3, <2>5, CoolsDown
  <2>6. CASE \E q \in DirectSend(p.node, r) :
               o = q \/ o = No([q.node EXCEPT !.cooling = TRUE])
    <3>1. PICK q \in DirectSend(p.node, r) : o = q \/ o = No([q.node EXCEPT !.cooling = TRUE])
      BY <2>6
    <3>2. Settles(p.node, r, q) /\ Shaped(q.node) /\ KeepsQueue(d, q.node)
      BY <2>3, DirectSendSettles, KeepsQueueTransitive DEF Settles, KeepsQueue, Keeps
    <3>3. CASE o = q
      BY <3>2, <3>3 DEF Settles
    <3>4. CASE o # q
      BY <3>1, <3>2, <3>4, CoolsDown
    <3> QED BY <3>3, <3>4
  <2> QED BY <2>2, <2>4, <2>5, <2>6
<1> QED BY <1>3, <1>4

\* The node with the record r in RTC memory
InRtc(d, r) == [d EXCEPT !.rtc = Append(@, r), !.cooling = FALSE]

\* While RTC memory has room and no call fails, that is where a record goes.
LEMMA PersistOrder ==
  ASSUME NEW d, Shaped(d), Len(d.rtc) < RtcCap, NEW r \in Record, NEW allow \in BOOLEAN,
         NEW o \in Persist(d, r, allow), o.node.faults = 0
  PROVE  o = Ok(InRtc(d, r))
<1> DEFINE Fallback(p) == IF p.ok THEN {p}
                      ELSE IF ~allow THEN {No([p.node EXCEPT !.cooling = TRUE])}
                      ELSE {IF q.ok THEN q ELSE No([q.node EXCEPT !.cooling = TRUE]) :
                              q \in DirectSend(p.node, r)}
           Second(a) == UNION {Fallback(p) : p \in AppendToLfs(a.node, r)}
<1>1. PICK a \in AppendToRtc(d, r) :
        o \in IF a.ok THEN {a} ELSE (IF a.node.cooling THEN {a} ELSE {}) \cup Second(a)
  BY DEF Persist
<1>2. Len(d.rtc) \in Nat /\ RtcCap \in Nat
  BY Fields, Caps, LenProperties DEF Shaped
<1>3. a = Ok(InRtc(d, r)) \/ \E e \in Hit(d, "write") : a = No(e)
  BY <1>2 DEF AppendToRtc, InRtc
<1>4. CASE a = Ok(InRtc(d, r))
  <2>1. a.ok = TRUE
    BY <1>4, Outcome
  <2> HIDE DEF Second
  <2> QED BY <1>1, <1>4, <2>1
<1>5. CASE \E e \in Hit(d, "write") : a = No(e)
  <2>1. a.ok = FALSE /\ a.node.faults # 0 /\ Shaped(a.node)
    <3>1. PICK e \in Hit(d, "write") : a = No(e)
      BY <1>5
    <3>2. e.faults # 0 /\ Shaped(e)
      BY <3>1, HitKeeps DEF KeepsQueue, Keeps
    <3> QED BY <3>1, <3>2, Outcome
  <2>2. o # a
    BY <2>1
  <2>3. o \in Second(a)
    <3> HIDE DEF Second
    <3> QED BY <1>1, <2>1, <2>2, Zenon
  <2> HIDE DEF Fallback
  <2>4. PICK p \in AppendToLfs(a.node, r) : o \in Fallback(p)
    BY <2>3, Zenon
  <2> USE DEF Fallback
  <2>5. Shaped(p.node) /\ p.node.faults # 0
    BY <2>1, AppendToLfsSettles DEF Settles, KeepsQueue, Keeps
  <2>6. ASSUME NEW q, Shaped(q.node), q.node.faults # 0,
               o = q \/ o = No([q.node EXCEPT !.cooling = TRUE])
        PROVE  FALSE
    <3>1. [q.node EXCEPT !.cooling = TRUE].faults = q.node.faults
      BY <2>6, CoolingKeeps
    <3>2. No([q.node EXCEPT !.cooling = TRUE]).node = [q.node EXCEPT !.cooling = TRUE]
      BY Outcome
    <3> QED BY <2>6, <3>1, <3>2
  <2>7. ~(o = p \/ o = No([p.node EXCEPT !.cooling = TRUE]))
    BY <2>5, <2>6
  <2>8. PICK q \in DirectSend(p.node, r) : o = q \/ o = No([q.node EXCEPT !.cooling = TRUE])
    BY <2>4, <2>7
  <2>9. Shaped(q.node) /\ q.node.faults # 0
    BY <2>5, <2>8, DirectSendSettles DEF Settles, KeepsQueue, Keeps
  <2> QED BY <2>6, <2>8, <2>9
<1> QED BY <1>3, <1>4, <1>5

\* A record newer than all others goes behind them.
LEMMA InRtcOrder ==
  ASSUME NEW d, Shaped(d), Ascending(d.lfs), Ascending(d.rtc), d.emergency = <<>>,
         \A x \in Range(d.lfs), y \in Range(d.rtc) : x < y,
         NEW r \in Record, d.made = r, \A x \in Range(d.lfs) \cup Range(d.rtc) : x < r
  PROVE  Ordered(InRtc(d, r))
<1> DEFINE e == InRtc(d, r)
<1>0. d \in Node /\ d.rtc \in Seq(Record) /\ d.lfs \in Seq(Record) /\ r \in Nat
  BY Fields DEF Shaped, Record
<1>1. /\ e.rtc = Append(d.rtc, r) /\ e.lfs = d.lfs /\ e.emergency = d.emergency
      /\ ~e.cooling /\ e.made = d.made
  BY <1>0 DEF InRtc, Node
<1>2. /\ Ascending(Append(d.rtc, r)) /\ Range(Append(d.rtc, r)) = Range(d.rtc) \cup {r}
  BY <1>0, Pushed, AscendingAppend
<1>3. Range(d.lfs) \subseteq Nat /\ Range(d.rtc) \subseteq Nat
  <2>1. Range(d.lfs) \subseteq Record /\ Range(d.rtc) \subseteq Record
    BY <1>0, RangeOfSeq
  <2> QED BY <2>1, Caps DEF Record
<1> HIDE DEF e
<1>4. \A x \in Range(e.lfs) \cup Range(e.rtc) : x <= e.made
  BY <1>0, <1>1, <1>2, <1>3
<1>5. Ordered(e)
  BY <1>1, <1>2, <1>4 DEF Ordered
<1> QED BY <1>5 DEF e

-----------------------------------------------------------------------------
(* The emergency queue is drained.                                         *)

Drains(d, e) ==
  /\ Keeps(d, e)
  /\ e.backpressure = d.backpressure
  /\ Len(e.emergency) <= Len(d.emergency)
  /\ d.emergency = <<>> => e = d

LEMMA DrainOneKeeps ==
  ASSUME NEW o, Shaped(o.node), NEW p \in DrainOne(o)
  PROVE  Drains(o.node, p.node)
<1> DEFINE d == o.node
           r == Head(d.emergency)
<1>0. d \in Node /\ d.emergency \in Seq(Record) /\ Len(d.emergency) \in Nat
  BY Fields, LenProperties DEF Shaped
<1>1. CASE p = No(d)
  <2>1. p.node = d
    BY <1>1, Outcome
  <2>2. KeepsQueue(d, d)
    BY KeepsQueueReflexive
  <2>3. Len(d.emergency) <= Len(d.emergency)
    BY <1>0
  <2>4. Drains(d, d)
    BY <2>2, <2>3, Zenon DEF Drains, KeepsQueue
  <2> QED BY <2>1, <2>4, Zenon
<1>2. CASE p # No(d)
  <2>1. d.emergency # <<>>
    BY <1>2 DEF DrainOne
  <2>2. PICK q \in Persist(d, r, FALSE) :
          p = IF q.ok THEN Ok([q.node EXCEPT !.emergency = Tail(@)]) ELSE q
    BY <1>2 DEF DrainOne
  <2>3. /\ r \in Record /\ Tail(d.emergency) \in Seq(Record)
        /\ Len(Tail(d.emergency)) = Len(d.emergency) - 1
        /\ Range(d.emergency) = Range(Tail(d.emergency)) \cup {r}
    BY <1>0, <2>1, Popped
  <2>4. Settles(d, r, q)
    <3>1. FALSE \in BOOLEAN
      OBVIOUS
    <3> HIDE DEF r
    <3> QED BY <2>2, <2>3, <3>1, PersistSettles
  <2>5. KeepsQueue(d, q.node) /\ Shaped(q.node) /\ q.node \in Node /\ q.node.emergency = d.emergency
    BY <2>4 DEF Settles, KeepsQueue, Keeps, Shaped
  <2>6. CASE ~q.ok
    BY <1>0, <2>1, <2>2, <2>5, <2>6 DEF Drains, KeepsQueue
  <2>7. CASE q.ok
    <3> DEFINE f == q.node
               e == [f EXCEPT !.emergency = Tail(@)]
    <3>1. p.node = e
      BY <2>2, <2>7, Outcome
    <3>2. /\ e \in Node /\ e.emergency = Tail(d.emergency) /\ e.faults = f.faults
          /\ e.rtc = f.rtc /\ e.lfs = f.lfs /\ e.saved = f.saved
          /\ e.backpressure = f.backpressure /\ e.made = f.made
          /\ e.received = f.received /\ e.excused = f.excused /\ e.strays = f.strays
      BY <2>3, <2>5 DEF Node
    <3>3. r \in Safe(f) /\ Accounted(d) \subseteq Accounted(f)
      BY <2>4, <2>7 DEF Settles, KeepsQueue, Keeps
    <3>4. f.emergency = d.emergency
      BY <2>5
    <3>5. Shaped(e)
      BY <1>0, <2>3, <2>5, <3>2, Caps DEF Shaped
    <3>6. /\ f.made = d.made /\ d.received \subseteq f.received /\ f.backpressure = d.backpressure
          /\ d.faults # 0 => f.faults # 0 /\ d.emergency # <<>>
      BY <2>1, <2>5 DEF Keeps, KeepsQueue
    <3> HIDE DEF e, f, r
    <3>7. Safe(e) = Safe(f)
      BY <3>2 DEF Safe
    <3>8. /\ Accounted(f) = Safe(f) \cup Range(d.emergency)
          /\ Accounted(e) = Safe(e) \cup Range(Tail(d.emergency))
      BY <3>2, <3>4 DEF Accounted, Stored, Safe
    <3>9. Accounted(d) \subseteq Accounted(e)
      BY <2>3, <3>3, <3>7, <3>8
    <3> QED BY <1>0, <2>1, <2>3, <3>1, <3>2, <3>5, <3>6, <3>9 DEF Drains, Keeps
  <2> QED BY <2>6, <2>7
<1> QED BY <1>1, <1>2

LEMMA DrainsReflexive ==
  ASSUME NEW d, Shaped(d)
  PROVE  Drains(d, d)
<1>1. Len(d.emergency) \in Nat
  BY Fields, LenProperties DEF Shaped
<1>2. KeepsQueue(d, d) /\ Len(d.emergency) <= Len(d.emergency)
  BY <1>1, KeepsQueueReflexive
<1> QED BY <1>2, Zenon DEF Drains, KeepsQueue

LEMMA DrainsTransitive ==
  ASSUME NEW d, Shaped(d), NEW e, NEW f, Drains(d, e), Drains(e, f)
  PROVE  Drains(d, f)
<1>1. Shaped(e) /\ Shaped(f)
  BY DEF Drains, Keeps
<1>2. Len(d.emergency) \in Nat /\ Len(e.emergency) \in Nat /\ Len(f.emergency) \in Nat
  BY <1>1, Fields, LenProperties DEF Shaped
<1>3. Len(f.emergency) <= Len(d.emergency)
  BY <1>2 DEF Drains
<1> QED BY <1>3, KeepsTransitive DEF Drains

\* A set of numbers has a smallest one.
LEMMA Smallest ==
  ASSUME NEW T \in SUBSET Nat, T # {}
  PROVE  \E k \in T : \A j \in T : ~(j < k)
<1> DEFINE R == {p \in Nat \X Nat : p[1] < p[2]}
<1>1. IsWellFoundedOn(R, Nat)
  BY NatLessThanWellFounded, Zenon DEF OpToRel
<1>2. \E k \in T : \A j \in T : ~(<<j, k>> \in R)
  <2> HIDE DEF R
  <2> QED BY <1>1, WFMin
<1> QED BY <1>2

\* The rounds of the drain are defined, whatever DrainMax is.
LEMMA DrainRoundsDefined ==
  /\ DrainRounds[0] = {Ok(node)}
  /\ \A n \in 1 .. DrainMax : DrainRounds[n] = UNION {DrainOne(o) : o \in DrainRounds[n - 1]}
<1> DEFINE Step(g, n) == IF n = 0 THEN {Ok(node)} ELSE UNION {DrainOne(o) : o \in g[n - 1]}
           Rounds(k, g) == g = [n \in 0 .. k |-> Step(g, n)]
           Bad == {k \in Nat : ~\E g : Rounds(k, g)}
<1>1. Bad = {}
  <2>1. SUFFICES ASSUME Bad # {} PROVE FALSE
    OBVIOUS
  <2>2. PICK k \in Bad : \A j \in Bad : ~(j < k)
    BY <2>1, Smallest
  <2>3. ~\E g : Rounds(k, g)
    BY <2>2
  <2>4. CASE k = 0
    <3> DEFINE g == [n \in 0 .. 0 |-> {Ok(node)}]
    <3>1. Rounds(0, g)
      OBVIOUS
    <3> QED BY <2>3, <2>4, <3>1
  <2>5. CASE k # 0
    <3>1. k - 1 \in Nat /\ k - 1 < k /\ k \in Nat
      BY <2>2, <2>5
    <3>2. PICK g : Rounds(k - 1, g)
      BY <2>2, <3>1
    <3> DEFINE h == [n \in 0 .. k |-> IF n = k THEN UNION {DrainOne(o) : o \in g[k - 1]} ELSE g[n]]
    <3>3. \A n \in 0 .. k : h[n] = Step(h, n)
      <4>1. SUFFICES ASSUME NEW n \in 0 .. k PROVE h[n] = Step(h, n)
        OBVIOUS
      <4>2. CASE n = k
        <5>1. k - 1 \in 0 .. k /\ k - 1 # k /\ k \in 0 .. k
          BY <3>1
        <5>2. h[k - 1] = g[k - 1] /\ h[k] = UNION {DrainOne(o) : o \in g[k - 1]}
          BY <5>1
        <5> HIDE DEF h
        <5> QED BY <2>5, <4>2, <5>2
      <4>3. CASE n # k
        <5>1. n \in 0 .. k - 1
          BY <3>1, <4>3
        <5>2. h[n] = g[n]
          BY <4>3
        <5>3. n # 0 => n - 1 \in 0 .. k /\ n - 1 # k
          BY <3>1, <5>1
        <5>4. n # 0 => h[n - 1] = g[n - 1]
          BY <5>3
        <5>5. g[n] = Step(g, n)
          <6> HIDE DEF Step
          <6>1. g = [m \in 0 .. k - 1 |-> Step(g, m)]
            BY <3>2
          <6> QED BY <5>1, <6>1
        <5> HIDE DEF h
        <5> QED BY <5>2, <5>4, <5>5
      <4> QED BY <4>2, <4>3
    <3>4. Rounds(k, h)
      BY <3>3
    <3> QED BY <2>3, <3>4
  <2> QED BY <2>4, <2>5
<1>2. \E g : Rounds(DrainMax, g)
  BY <1>1, Caps
<1>3. Rounds(DrainMax, DrainRounds)
  BY <1>2 DEF DrainRounds
<1>4. 0 \in 0 .. DrainMax /\ \A n \in 1 .. DrainMax : n \in 0 .. DrainMax /\ n # 0
  BY Caps
<1> QED BY <1>3, <1>4

LEMMA RoundsDrain ==
  ASSUME Shaped(node), NEW n \in 0 .. DrainMax, NEW o \in DrainRounds[n]
  PROVE  Drains(node, o.node)
<1> DEFINE Bad == {k \in 0 .. DrainMax : ~\A p \in DrainRounds[k] : Drains(node, p.node)}
<1>1. Bad = {}
  <2>1. SUFFICES ASSUME Bad # {} PROVE FALSE
    OBVIOUS
  <2>2. Bad \in SUBSET Nat
    BY Caps
  <2>3. PICK k \in Bad : \A j \in Bad : ~(j < k)
    <3> HIDE DEF Bad
    <3> QED BY <2>1, <2>2, Smallest
  <2>4. PICK p \in DrainRounds[k] : ~Drains(node, p.node)
    BY <2>3
  <2>5. CASE k = 0
    <3>1. p.node = node
      BY <2>4, <2>5, DrainRoundsDefined, Outcome
    <3> QED BY <2>4, <3>1, DrainsReflexive
  <2>6. CASE k # 0
    <3>1. k \in 1 .. DrainMax /\ k - 1 \in 0 .. DrainMax /\ k - 1 < k
      BY <2>3, <2>6, Caps
    <3>2. PICK q \in DrainRounds[k - 1] : p \in DrainOne(q)
      BY <2>4, <3>1, DrainRoundsDefined
    <3>3. k - 1 \notin Bad
      BY <2>3, <3>1
    <3>4. Drains(node, q.node)
      BY <3>1, <3>2, <3>3
    <3>5. Shaped(q.node)
      BY <3>4 DEF Drains, Keeps
    <3>6. Drains(q.node, p.node)
      BY <3>2, <3>5, DrainOneKeeps
    <3> QED BY <2>4, <3>4, <3>6, DrainsTransitive
  <2> QED BY <2>5, <2>6
<1> QED BY <1>1

\* The flag is set to v.
LEMMA FlagSet ==
  ASSUME NEW d, Shaped(d), NEW v \in BOOLEAN, v <=> Len(d.emergency) = EmergCap,
         NEW e, e = [d EXCEPT !.backpressure = v]
  PROVE  /\ Keeps(d, e) /\ Flagged(e) /\ e.emergency = d.emergency
         /\ e.received = d.received /\ e.made = d.made
         /\ Accounted(e) = Accounted(d) /\ e.rtc = d.rtc /\ e.lfs = d.lfs
         /\ Orderly(d, e)
<1>0. d \in Node
  BY DEF Shaped
<1>1. /\ e \in Node /\ e.emergency = d.emergency /\ e.rtc = d.rtc /\ e.lfs = d.lfs
      /\ e.saved = d.saved /\ e.made = d.made /\ e.backpressure = v
      /\ e.received = d.received /\ e.excused = d.excused /\ e.strays = d.strays
      /\ e.cooling = d.cooling /\ e.faults = d.faults
  BY <1>0, Zenon DEF Node
<1> QED BY <1>1, SameOrder DEF Keeps, Shaped, Flagged, Accounted, Stored

LEMMA ReleaseKeeps ==
  ASSUME NEW d, Shaped(d), d.backpressure \/ Len(d.emergency) < EmergCap
  PROVE  /\ Keeps(d, Release(d)) /\ Flagged(Release(d)) /\ Release(d).emergency = d.emergency
         /\ Release(d).received = d.received /\ Release(d).made = d.made
         /\ Accounted(Release(d)) = Accounted(d)
         /\ Release(d).rtc = d.rtc /\ Release(d).lfs = d.lfs
         /\ Orderly(d, Release(d))
<1> DEFINE v == d.backpressure /\ Len(d.emergency) >= EmergCap
<1>1. d.emergency \in Seq(Record) /\ Len(d.emergency) \in Nat /\ Len(d.emergency) <= EmergCap
  BY Fields, LenProperties DEF Shaped
<1>2. d.backpressure \in BOOLEAN
  BY Fields DEF Shaped
<1>3. v \in BOOLEAN /\ (v <=> Len(d.emergency) = EmergCap)
  BY <1>1, <1>2, Caps
<1>4. Release(d) = [d EXCEPT !.backpressure = v]
  BY DEF Release
<1> HIDE DEF v
<1> QED BY <1>3, <1>4, FlagSet

LEMMA DrainedKeeps ==
  ASSUME Shaped(node), Flagged(node), NEW d \in Drained
  PROVE  Keeps(node, d) /\ Flagged(d) /\ (node.emergency = <<>> => d = node)
<1>0. Len(node.emergency) \in Nat /\ Len(node.emergency) <= EmergCap
  BY Fields, LenProperties DEF Shaped
<1>1. PICK o \in DrainRounds[DrainMax] :
        d = IF node.emergency = <<>> THEN o.node ELSE Release(o.node)
  BY DEF Drained
<1>2. Drains(node, o.node)
  <2>1. DrainMax \in 0 .. DrainMax
    BY Caps
  <2> QED BY <1>1, <2>1, RoundsDrain
<1>3. Shaped(o.node) /\ Len(o.node.emergency) \in Nat /\ Len(o.node.emergency) <= EmergCap
  BY <1>2, Fields, LenProperties DEF Drains, Keeps, Shaped
<1>4. CASE node.emergency = <<>>
  <2>1. Len(node.emergency) = 0
    BY <1>4, Nothing
  <2>2. Len(o.node.emergency) # EmergCap /\ Len(node.emergency) # EmergCap
    BY <1>2, <1>3, <2>1, Caps DEF Drains
  <2>3. o.node.backpressure = node.backpressure
    BY <1>2 DEF Drains
  <2>4. Flagged(o.node)
    BY <2>2, <2>3 DEF Flagged
  <2> QED BY <1>1, <1>2, <1>4, <2>4 DEF Drains
<1>5. CASE node.emergency # <<>>
  <2>1. o.node.backpressure \/ Len(o.node.emergency) < EmergCap
    BY <1>0, <1>2, <1>3, Caps DEF Drains, Flagged
  <2>2. Keeps(o.node, Release(o.node)) /\ Flagged(Release(o.node))
    BY <1>3, <2>1, ReleaseKeeps
  <2> QED BY <1>1, <1>2, <1>5, <2>2, KeepsTransitive DEF Drains
<1> QED BY <1>4, <1>5

-----------------------------------------------------------------------------
(* A new record comes in.                                                  *)

LEMMA MovedKeeps ==
  ASSUME NEW d, Shaped(d), NEW k \in 0 .. Len(d.rtc)
  PROVE  /\ KeepsQueue(d, Moved(d, k))
         /\ Moved(d, k).rtc = SubSeq(d.rtc, k + 1, Len(d.rtc))
<1> DEFINE part == SubSeq(d.rtc, 1, k)
           all == d.lfs \o part
           cut == IF Len(all) > LfsCap THEN Len(all) - LfsCap ELSE 0
           rest == SubSeq(d.rtc, k + 1, Len(d.rtc))
           flash == SubSeq(all, cut + 1, Len(all))
           v == IF k = 0 THEN d.buf ELSE d.rtc[k]
           lost == {all[i] : i \in 1 .. cut}
           e == [d EXCEPT !.rtc = rest, !.lfs = flash, !.buf = v]
           m == Moved(d, k)
<1>0. /\ d \in Node /\ d.rtc \in Seq(Record) /\ d.lfs \in Seq(Record) /\ d.excused \subseteq Record
      /\ d.buf \in {NoRecord} \cup Record
      /\ Len(d.rtc) \in Nat /\ Len(d.lfs) \in Nat /\ LfsCap \in Nat /\ k \in Nat
      /\ Len(d.rtc) <= RtcCap /\ RtcCap \in Nat
  BY Fields, Caps, LenProperties DEF Shaped
<1>1. /\ part \in Seq(Record) /\ Range(part) = {d.rtc[i] : i \in 1 .. k}
  BY <1>0, Part
<1>2. /\ rest \in Seq(Record) /\ Len(rest) = Len(d.rtc) - k
      /\ Range(d.rtc) = Range(rest) \cup Range(part)
  BY <1>0, <1>1, Rest
<1>3. v \in {NoRecord} \cup Record
  BY <1>0, ElementOfSeq
<1>4. m = [e EXCEPT !.excused = @ \cup lost]
  BY DEF Moved, Excuse
<1> HIDE DEF part, rest, v
<1>5. /\ all \in Seq(Record) /\ Len(all) \in Nat
      /\ Range(all) = Range(d.lfs) \cup Range(part)
  BY <1>0, <1>1, ConcatProperties, RangeConcatenation, LenProperties
<1> HIDE DEF all
<1>6. cut \in 0 .. Len(all) /\ Len(all) - cut <= LfsCap
  BY <1>0, <1>5
<1> HIDE DEF cut
<1>7. /\ flash \in Seq(Record) /\ Len(flash) = Len(all) - cut
      /\ Range(all) = Range(flash) \cup lost
  BY <1>5, <1>6, Rest
<1>8. lost \subseteq Record
  BY <1>5, <1>6, ElementOfSeq
<1> HIDE DEF flash, lost
<1>9. /\ m \in Node /\ m.rtc = rest /\ m.lfs = flash /\ m.excused = d.excused \cup lost
      /\ m.emergency = d.emergency /\ m.saved = d.saved /\ m.backpressure = d.backpressure
      /\ m.made = d.made /\ m.received = d.received /\ m.strays = d.strays
      /\ m.faults = d.faults
  <2>1. d.excused \cup lost \subseteq Record
    BY <1>0, <1>8
  <2> QED BY <1>0, <1>2, <1>3, <1>4, <1>7, <2>1 DEF Node
<1> HIDE DEF m
<1>10. Shaped(m)
  BY <1>0, <1>2, <1>5, <1>6, <1>7, <1>9 DEF Shaped
<1>11. Accounted(d) \subseteq Accounted(m)
  BY <1>2, <1>5, <1>7, <1>9 DEF Accounted, Stored
<1>12. KeepsQueue(d, m)
  BY <1>9, <1>10, <1>11 DEF KeepsQueue, Keeps
<1> QED BY <1>9, <1>12 DEF m, rest

\* A flush that ends well leaves the RTC ring empty, and LittleFS in order.
LEMMA MovedOrder ==
  ASSUME NEW d, Shaped(d), Ordered(d)
  PROVE  LET m == Moved(d, Len(d.rtc))
         IN  /\ m.rtc = <<>> /\ Ascending(m.lfs)
             /\ Range(m.lfs) \subseteq Range(d.lfs) \cup Range(d.rtc)
             /\ m.emergency = <<>> /\ ~m.cooling /\ m.made = d.made
<1> DEFINE k == Len(d.rtc)
           all == d.lfs \o SubSeq(d.rtc, 1, k)
           cut == IF Len(all) > LfsCap THEN Len(all) - LfsCap ELSE 0
           rest == SubSeq(d.rtc, k + 1, Len(d.rtc))
           flash == SubSeq(all, cut + 1, Len(all))
           v == IF k = 0 THEN d.buf ELSE d.rtc[k]
           lost == {all[i] : i \in 1 .. cut}
           e == [d EXCEPT !.rtc = rest, !.lfs = flash, !.buf = v]
           m == Moved(d, k)
<1>0. /\ d \in Node /\ d.rtc \in Seq(Record) /\ d.lfs \in Seq(Record)
      /\ k \in Nat /\ LfsCap \in Nat
  BY Fields, Caps, LenProperties DEF Shaped
<1>1. m = [e EXCEPT !.excused = @ \cup lost]
  BY DEF Moved, Excuse
<1>2. SubSeq(d.rtc, 1, k) = d.rtc
  BY <1>0, SubSeqFull
<1>3. rest = <<>>
  <2>1. k \in 0 .. Len(d.rtc)
    BY <1>0
  <2>2. rest \in Seq(Record) /\ Len(rest) = Len(d.rtc) - k
    BY <1>0, <2>1, Rest
  <2>3. Len(rest) = 0
    BY <1>0, <2>2
  <2> QED BY <2>2, <2>3, EmptySeq
<1>4. /\ all = d.lfs \o d.rtc /\ all \in Seq(Record)
      /\ Range(all) = Range(d.lfs) \cup Range(d.rtc) /\ Ascending(all)
  <2> DEFINE a == d.lfs \o d.rtc
  <2>1. all = a
    BY <1>2
  <2>2. a \in Seq(Record) /\ Range(a) = Range(d.lfs) \cup Range(d.rtc)
    BY <1>0, ConcatProperties, RangeConcatenation
  <2>3. Ascending(a)
    BY <1>0, AscendingConcat DEF Ordered
  <2> HIDE DEF all, a
  <2> QED BY <2>1, <2>2, <2>3 DEF a
<1> HIDE DEF all, rest, k, v
<1>5. cut \in 0 .. Len(all)
  <2>1. Len(all) \in Nat
    BY <1>4, LenProperties
  <2> QED BY <1>0, <2>1
<1> HIDE DEF cut
<1>6. Ascending(flash) /\ Range(flash) \subseteq Range(all)
  BY <1>4, <1>5, AscendingRest, Rest
<1> HIDE DEF flash, lost
<1>7. /\ m.rtc = rest /\ m.lfs = flash /\ m.emergency = d.emergency
      /\ m.cooling = d.cooling /\ m.made = d.made
  BY <1>0, <1>1 DEF Node
<1> HIDE DEF m
<1> QED
  <2>1. /\ m.rtc = <<>> /\ Ascending(m.lfs)
        /\ Range(m.lfs) \subseteq Range(d.lfs) \cup Range(d.rtc)
        /\ m.emergency = <<>> /\ ~m.cooling /\ m.made = d.made
    BY <1>3, <1>4, <1>6, <1>7 DEF Ordered
  <2> QED BY <2>1 DEF m, k

LEMMA LfsAppendKeeps ==
  ASSUME NEW d, Shaped(d), Len(d.lfs) < LfsCap, NEW r \in Record
  PROVE  KeepsQueue(d, [d EXCEPT !.lfs = Append(@, r)])
<1> DEFINE e == [d EXCEPT !.lfs = Append(@, r)]
<1>1. d \in Node /\ d.lfs \in Seq(Record) /\ Len(d.lfs) \in Nat /\ LfsCap \in Nat
  BY Fields, Caps, LenProperties DEF Shaped
<1>2. /\ Append(d.lfs, r) \in Seq(Record) /\ Len(Append(d.lfs, r)) = Len(d.lfs) + 1
      /\ Range(Append(d.lfs, r)) = Range(d.lfs) \cup {r}
  BY <1>1, Pushed
<1>3. /\ e \in Node /\ e.lfs = Append(d.lfs, r) /\ e.faults = d.faults
      /\ e.rtc = d.rtc /\ e.emergency = d.emergency /\ e.saved = d.saved
      /\ e.backpressure = d.backpressure /\ e.made = d.made
      /\ e.received = d.received /\ e.excused = d.excused /\ e.strays = d.strays
  BY <1>1, <1>2 DEF Node
<1> HIDE DEF e
<1>4. Accounted(d) \subseteq Accounted(e)
  BY <1>2, <1>3 DEF Accounted, Stored
<1>5. Shaped(e)
  BY <1>1, <1>2, <1>3 DEF Shaped
<1>6. KeepsQueue(d, e)
  BY <1>3, <1>4, <1>5 DEF KeepsQueue, Keeps
<1> QED BY <1>6 DEF e

LEMMA FlushRtcKeeps ==
  ASSUME NEW d, Shaped(d), NEW f \in FlushRtc(d)
  PROVE  KeepsQueue(d, f) /\ (f.faults = 0 => f = Moved(d, Len(d.rtc)))
<1> DEFINE b(m) == [m EXCEPT !.buf = Head(m.rtc)]
           Stops(m) == Hit(m, "write") \cup Hit(b(m), "write") \cup Hit(Trimmed(b(m)), "write")
                       \cup Hit([Trimmed(b(m)) EXCEPT !.lfs = Append(@, Head(m.rtc))], "pop")
<1>0. d.rtc \in Seq(Record) /\ Len(d.rtc) \in Nat
  BY Fields, LenProperties DEF Shaped
<1>1. CASE f = Moved(d, Len(d.rtc))
  <2>1. Len(d.rtc) \in 0 .. Len(d.rtc)
    BY <1>0
  <2> QED BY <1>1, <2>1, MovedKeeps
<1>2. CASE \E k \in 0 .. Len(d.rtc) - 1 : f \in Stops(Moved(d, k))
  <2>1. PICK k \in 0 .. Len(d.rtc) - 1 : f \in Stops(Moved(d, k))
    BY <1>2
  <2>2. k \in 0 .. Len(d.rtc) /\ k < Len(d.rtc)
    BY <1>0, <2>1
  <2> DEFINE m == Moved(d, k)
             t == Trimmed(b(m))
             a == [t EXCEPT !.lfs = Append(@, Head(m.rtc))]
  <2>3. KeepsQueue(d, m) /\ m.rtc = SubSeq(d.rtc, k + 1, Len(d.rtc))
    BY <2>2, MovedKeeps
  <2>4. f \in Hit(m, "write") \cup Hit(b(m), "write") \cup Hit(t, "write") \cup Hit(a, "pop")
    BY <2>1
  <2> HIDE DEF m
  <2>5. Shaped(m) /\ m.rtc \in Seq(Record) /\ Len(m.rtc) = Len(d.rtc) - k
    BY <1>0, <2>2, <2>3, Rest, Fields DEF KeepsQueue, Keeps, Shaped
  <2>6. m.rtc # <<>>
    BY <1>0, <2>2, <2>5, Nothing
  <2>7. Head(m.rtc) \in Record
    BY <2>5, <2>6, Popped
  <2>8. KeepsQueue(m, b(m)) /\ Shaped(b(m))
    BY <2>5, <2>7, BufKeeps DEF KeepsQueue, Keeps
  <2> DEFINE c == b(m)
  <2>9. KeepsQueue(m, c) /\ Shaped(c) /\ t = Trimmed(c)
    BY <2>8
  <2> HIDE DEF c
  <2>10. KeepsQueue(c, t) /\ Shaped(t) /\ Len(t.lfs) < LfsCap
    BY <2>9, TrimmedKeeps DEF KeepsQueue, Keeps
  <2>11. f \in Hit(m, "write") \cup Hit(c, "write") \cup Hit(t, "write") \cup Hit(a, "pop")
    BY <2>4 DEF c
  <2> HIDE DEF t
  <2>12. KeepsQueue(t, a) /\ Shaped(a)
    BY <2>7, <2>10, LfsAppendKeeps DEF KeepsQueue, Keeps
  <2> HIDE DEF a
  <2>13. KeepsQueue(d, c) /\ KeepsQueue(d, t) /\ KeepsQueue(d, a)
    BY <2>3, <2>9, <2>10, <2>12, KeepsQueueTransitive
  <2>14. /\ KeepsQueue(m, f) \/ KeepsQueue(c, f) \/ KeepsQueue(t, f) \/ KeepsQueue(a, f)
         /\ f.faults # 0
    BY <2>5, <2>9, <2>10, <2>11, <2>12, HitKeeps
  <2> QED BY <2>3, <2>13, <2>14, KeepsQueueTransitive
<1> QED BY <1>1, <1>2 DEF FlushRtc

\* The record r waits in RAM; v is the flag that goes with it.
LEMMA EnqueueKeeps ==
  ASSUME NEW d, Shaped(d), Len(d.emergency) < EmergCap, NEW r \in Record,
         NEW v \in BOOLEAN, v <=> Len(d.emergency) + 1 >= EmergCap,
         NEW e, e = [d EXCEPT !.emergency = Append(@, r), !.backpressure = v]
  PROVE  Keeps(d, e) /\ Flagged(e) /\ r \in Accounted(e)
<1>1. d \in Node /\ d.emergency \in Seq(Record) /\ Len(d.emergency) \in Nat /\ EmergCap \in Nat
  BY Fields, Caps, LenProperties DEF Shaped
<1>2. /\ Append(d.emergency, r) \in Seq(Record)
      /\ Len(Append(d.emergency, r)) = Len(d.emergency) + 1
      /\ Range(Append(d.emergency, r)) = Range(d.emergency) \cup {r}
  BY <1>1, Pushed
<1> DEFINE q == Append(d.emergency, r)
<1>3. q \in Seq(Record) /\ e = [d EXCEPT !.emergency = q, !.backpressure = v]
  BY <1>2
<1> HIDE DEF q
<1>4. /\ e \in Node /\ e.emergency = q /\ e.backpressure = v
      /\ e.rtc = d.rtc /\ e.lfs = d.lfs /\ e.saved = d.saved /\ e.made = d.made
      /\ e.received = d.received /\ e.excused = d.excused /\ e.strays = d.strays
      /\ e.faults = d.faults
  BY <1>1, <1>3, Zenon DEF Node
<1> USE DEF q
<1>5. Shaped(e) /\ Flagged(e)
  BY <1>1, <1>2, <1>4 DEF Shaped, Flagged
<1>6. Accounted(d) \subseteq Accounted(e) /\ r \in Accounted(e)
  BY <1>2, <1>4 DEF Accounted, Stored
<1> QED BY <1>4, <1>5, <1>6 DEF Keeps

LEMMA MadeKeeps ==
  ASSUME NEW d, Shaped(d), d.made < MaxRecords
  PROVE  LET e == [d EXCEPT !.made = d.made + 1]
         IN  /\ Shaped(e) /\ Accounted(e) = Accounted(d) /\ e.made = d.made + 1
             /\ e.received = d.received /\ e.emergency = d.emergency /\ d.made + 1 \in Record
             /\ e.rtc = d.rtc /\ e.lfs = d.lfs /\ e.faults = d.faults /\ Orderly(d, e)
<1> DEFINE r == d.made + 1
           e == [d EXCEPT !.made = r]
<1>0. d \in Node
  BY DEF Shaped
<1>1. r \in 0 .. MaxRecords /\ r \in Record
  BY <1>0, Fields, Caps DEF Record
<1> HIDE DEF r
<1>2. /\ e \in Node /\ e.made = r /\ e.rtc = d.rtc /\ e.lfs = d.lfs /\ e.emergency = d.emergency
      /\ e.saved = d.saved /\ e.backpressure = d.backpressure
      /\ e.received = d.received /\ e.excused = d.excused /\ e.strays = d.strays
      /\ e.faults = d.faults /\ e.cooling = d.cooling
  BY <1>0, <1>1 DEF Node
<1> HIDE DEF e
<1>3. Shaped(e) /\ Accounted(e) = Accounted(d)
  BY <1>2 DEF Shaped, Accounted, Stored
<1>4. Orderly(d, e)
  <2>1. \A x \in Range(d.lfs) \cup Range(d.rtc) : x <= d.made => x <= r
    <3>1. Range(d.lfs) \subseteq Record /\ Range(d.rtc) \subseteq Record
      BY <1>0, Fields, RangeOfSeq
    <3> QED BY <1>0, <3>1, Fields, Caps DEF Record, r
  <2> QED BY <1>2, <2>1 DEF Orderly, Ordered
<1> QED BY <1>1, <1>2, <1>3, <1>4 DEF e, r

LEMMA StoreNewKeeps ==
  ASSUME NEW d, Shaped(d), Kept(d), Len(d.emergency) < EmergCap, d.made < MaxRecords,
         NEW g \in StoreNew(d)
  PROVE  Shaped(g) /\ Kept(g) /\ Flagged(g) /\ d.received \subseteq g.received /\ Orderly(d, g)
<1> DEFINE r == d.made + 1
           e == [d EXCEPT !.made = r]
           Enqueue(h) == [h EXCEPT !.emergency = Append(@, r),
                                   !.backpressure = Len(h.emergency) + 1 >= EmergCap]
<1>1. /\ Shaped(e) /\ Accounted(e) = Accounted(d) /\ e.made = r
      /\ e.received = d.received /\ e.emergency = d.emergency /\ r \in Record
      /\ e.rtc = d.rtc /\ e.lfs = d.lfs /\ e.faults = d.faults /\ Orderly(d, e)
  BY MadeKeeps
<1> DEFINE flushed == IF Len(d.rtc) >= RtcCap THEN FlushRtc(e) ELSE {e}
           Results(f) == {IF o.ok THEN Release(o.node) ELSE Enqueue(o.node) :
                            o \in Persist(f, r, TRUE)}
<1>2. g \in UNION {Results(f) : f \in flushed}
  BY Zenon DEF StoreNew
<1> HIDE DEF Enqueue
<1>3. PICK f \in flushed : g \in Results(f)
  <2> HIDE DEF flushed, Results
  <2> QED BY <1>2
<1>4. PICK o \in Persist(f, r, TRUE) : g = IF o.ok THEN Release(o.node) ELSE Enqueue(o.node)
  BY <1>3
<1> HIDE DEF e
<1>5. KeepsQueue(e, f) /\ Shaped(f)
  BY <1>1, <1>3, FlushRtcKeeps, KeepsQueueReflexive DEF KeepsQueue, Keeps
<1>6. Settles(f, r, o)
  <2>1. TRUE \in BOOLEAN
    OBVIOUS
  <2> HIDE DEF r
  <2> QED BY <1>1, <1>4, <1>5, <2>1, PersistSettles
<1> DEFINE n == o.node
<1>7. KeepsQueue(e, n) /\ Shaped(n)
  BY <1>5, <1>6, KeepsQueueTransitive DEF Settles, KeepsQueue, Keeps
<1>8. Len(n.emergency) < EmergCap /\ n.made = r
  BY <1>1, <1>7 DEF KeepsQueue, Keeps
<1>9. Accounted(d) \subseteq Accounted(n) /\ d.received \subseteq n.received
  BY <1>1, <1>7 DEF KeepsQueue, Keeps
<1>10. d.made \in Nat
  BY Fields, Caps DEF Shaped
<1>11. /\ d.faults # 0 => n.faults # 0
       /\ n.faults = 0 /\ Ordered(d) => o.ok /\ Ordered(n)
  <2>1. /\ d.faults # 0 => n.faults # 0
        /\ f.faults # 0 => n.faults # 0
    BY <1>1, <1>5, <1>6 DEF Settles, KeepsQueue, Keeps
  <2>2. SUFFICES ASSUME n.faults = 0, Ordered(d) PROVE o.ok /\ Ordered(n)
    BY <2>1
  <2>3. f.faults = 0 /\ d.faults = 0 /\ Ordered(e)
    BY <1>1, <2>1, <2>2 DEF Orderly
  <2>4. \A x \in Range(d.lfs) \cup Range(d.rtc) : x < r
    <3>1. Range(d.lfs) \subseteq Record /\ Range(d.rtc) \subseteq Record
      BY Fields, RangeOfSeq DEF Shaped
    <3> QED BY <1>10, <2>2, <3>1 DEF Ordered, Record
  <2>5. /\ Len(f.rtc) < RtcCap /\ Ascending(f.lfs) /\ Ascending(f.rtc) /\ f.emergency = <<>>
        /\ \A x \in Range(f.lfs), y \in Range(f.rtc) : x < y
        /\ Range(f.lfs) \cup Range(f.rtc) \subseteq Range(d.lfs) \cup Range(d.rtc)
    <3>1. CASE Len(d.rtc) >= RtcCap
      <4>1. f = Moved(e, Len(e.rtc))
        BY <1>1, <1>3, <2>3, <3>1, FlushRtcKeeps
      <4>2. /\ f.rtc = <<>> /\ Ascending(f.lfs) /\ f.emergency = <<>>
            /\ Range(f.lfs) \subseteq Range(d.lfs) \cup Range(d.rtc)
        BY <1>1, <2>3, <4>1, MovedOrder
      <4> QED BY <4>2, Nothing, NothingAscends, Caps
    <3>2. CASE ~(Len(d.rtc) >= RtcCap)
      <4>1. f = e
        BY <1>3, <3>2
      <4>2. Len(d.rtc) \in Nat /\ RtcCap \in Nat
        BY Fields, Caps, LenProperties DEF Shaped
      <4> QED BY <1>1, <2>3, <3>2, <4>1, <4>2 DEF Ordered
    <3> QED BY <3>1, <3>2
  <2>6. f.made = r
    BY <1>1, <1>5 DEF KeepsQueue, Keeps
  <2>7. o = Ok(InRtc(f, r))
    <3>1. TRUE \in BOOLEAN
      OBVIOUS
    <3> HIDE DEF r
    <3> QED BY <1>1, <1>4, <1>5, <2>2, <2>5, <3>1, PersistOrder
  <2>8. Ordered(InRtc(f, r))
    <3> HIDE DEF r
    <3> QED BY <1>1, <1>5, <2>4, <2>5, <2>6, InRtcOrder
  <2> QED BY <2>7, <2>8, Outcome
<1>12. ASSUME NEW h, Keeps(n, h), Flagged(h), r \in Accounted(h), g = h, o.ok => Orderly(n, h)
       PROVE  Shaped(g) /\ Kept(g) /\ Flagged(g) /\ d.received \subseteq g.received /\ Orderly(d, g)
  <2>1. /\ h.made = r /\ Shaped(h)
        /\ Accounted(d) \subseteq Accounted(h) /\ d.received \subseteq h.received
    BY <1>8, <1>9, <1>12 DEF Keeps
  <2>2. 1 .. r = 1 .. d.made \cup {r}
    BY <1>10
  <2>3. Kept(h)
    BY <1>12, <2>1, <2>2 DEF Kept
  <2>4. Orderly(d, h)
    BY <1>12, <1>11 DEF Orderly, Keeps
  <2> QED BY <1>12, <2>1, <2>3, <2>4
<1>13. CASE o.ok
  <2>1. g = Release(n)
    BY <1>4, <1>13
  <2>2. r \in Accounted(n)
    BY <1>6, <1>13 DEF Settles, Safe, Accounted, Stored
  <2> HIDE DEF n, r
  <2>3. /\ Keeps(n, Release(n)) /\ Flagged(Release(n)) /\ Accounted(Release(n)) = Accounted(n)
        /\ Orderly(n, Release(n))
    BY <1>7, <1>8, ReleaseKeeps
  <2> QED BY <1>12, <2>1, <2>2, <2>3
<1>14. CASE ~o.ok
  <2> DEFINE v == Len(n.emergency) + 1 >= EmergCap
  <2>1. g = [n EXCEPT !.emergency = Append(@, r), !.backpressure = v]
    BY <1>4, <1>14 DEF Enqueue
  <2>2. v \in BOOLEAN /\ (v <=> Len(n.emergency) + 1 >= EmergCap)
    OBVIOUS
  <2> HIDE DEF n, r, v
  <2>3. Keeps(n, g) /\ Flagged(g) /\ r \in Accounted(g)
    BY <1>1, <1>7, <1>8, <2>1, <2>2, EnqueueKeeps
  <2> QED BY <1>12, <1>14, <2>3
<1> QED BY <1>13, <1>14

LEMMA IngestKeeps ==
  ASSUME Sound(node), NEW d \in Ingest
  PROVE  Sound(d) /\ node.received \subseteq d.received
<1>0. Shaped(node) /\ Kept(node) /\ Flagged(node) /\ (node.faults = 0 => Ordered(node))
  BY DEF Sound
<1>1. PICK c \in Drained :
        d \in IF Len(c.emergency) >= EmergCap THEN {[c EXCEPT !.backpressure = TRUE]}
              ELSE IF c.made < MaxRecords THEN StoreNew(c) ELSE {}
  BY DEF Ingest
<1>2. Keeps(node, c) /\ Shaped(c) /\ Flagged(c) /\ Kept(c) /\ node.received \subseteq c.received
  BY <1>0, DrainedKeeps DEF Keeps, Kept
<1>3. Orderly(node, c)
  <2>1. (node.emergency = <<>> => c = node) /\ (node.faults # 0 => c.faults # 0)
    BY <1>0, DrainedKeeps DEF Keeps
  <2> QED BY <2>1 DEF Orderly, Ordered
<1>4. Len(c.emergency) \in Nat /\ Len(c.emergency) <= EmergCap
  BY <1>2, Fields, LenProperties DEF Shaped
<1> DEFINE Done == /\ Shaped(d) /\ Kept(d) /\ Flagged(d) /\ node.received \subseteq d.received
                   /\ Orderly(node, d)
<1>5. ASSUME Len(c.emergency) >= EmergCap PROVE Done
  <2>1. d = [c EXCEPT !.backpressure = TRUE] /\ TRUE \in BOOLEAN /\ Len(c.emergency) = EmergCap
    BY <1>1, <1>4, <1>5, Caps
  <2>2. Keeps(c, d) /\ Flagged(d) /\ Orderly(c, d)
    BY <1>2, <2>1, FlagSet
  <2>3. Orderly(node, d)
    BY <1>3, <2>2, OrderlyTransitive
  <2> QED BY <1>2, <2>2, <2>3 DEF Keeps, Kept
<1>6. ASSUME ~(Len(c.emergency) >= EmergCap) PROVE Done
  <2>1. Len(c.emergency) < EmergCap /\ c.made < MaxRecords /\ d \in StoreNew(c)
    BY <1>1, <1>4, <1>6, Caps
  <2>2. Shaped(d) /\ Kept(d) /\ Flagged(d) /\ c.received \subseteq d.received /\ Orderly(c, d)
    BY <1>2, <2>1, StoreNewKeeps
  <2>3. Orderly(node, d)
    BY <1>3, <2>2, OrderlyTransitive
  <2> QED BY <1>2, <2>2, <2>3
<1> QED BY <1>0, <1>5, <1>6 DEF Sound, Orderly

-----------------------------------------------------------------------------
(* A record is loaded, and popped.                                         *)

Source == {"NONE", "RTC", "LITTLEFS"}

LEMMA Rings ==
  /\ RingOf["RTC"] = "rtc" /\ RingOf["LITTLEFS"] = "lfs"
  /\ \A s \in Source \ {"NONE"} : RingOf[s] \in {"rtc", "lfs"}
  BY DEF RingOf, Source

LEMMA RingTypes ==
  ASSUME NEW d, Shaped(d), NEW ring \in {"rtc", "lfs"}
  PROVE  d[ring] \in Seq(Record)
  BY Fields DEF Shaped

LEMMA SameFront ==
  ASSUME NEW d, NEW e, e.rtc = d.rtc, e.lfs = d.lfs, NEW s \in Source
  PROVE  FrontOf(e, s) = FrontOf(d, s)
  BY Rings DEF FrontOf, Source

LEMMA IdleKeeps ==
  ASSUME NEW d, Shaped(d), NEW s \in Source
  PROVE  /\ KeepsQueue(d, Idle(d))
         /\ Idle(d).received = d.received
         /\ Orderly(d, Idle(d))
         /\ FrontOf(Idle(d), s) = FrontOf(d, s)
<1>1. NoRecord \in {NoRecord} \cup Record
  OBVIOUS
<1>2. /\ KeepsQueue(d, Idle(d)) /\ Idle(d).received = d.received /\ Orderly(d, Idle(d))
      /\ Idle(d).rtc = d.rtc /\ Idle(d).lfs = d.lfs
  BY <1>1, BufKeeps DEF Idle
<1> QED BY <1>2, SameFront

\* The sequence without its front and the n elements behind it
LEMMA FrontDropped ==
  ASSUME NEW s \in Seq(Record), s # <<>>, NEW n \in {0, 1}
  PROVE  LET rest == SubSeq(s, n + 2, Len(s))
             behind == {s[i] : i \in (2 .. n + 1) \cap DOMAIN s}
         IN  /\ rest \in Seq(Record) /\ Len(rest) <= Len(s)
             /\ Head(s) \in Record /\ behind \subseteq Record
             /\ Range(s) \subseteq Range(rest) \cup {Head(s)} \cup behind
<1> DEFINE rest == SubSeq(s, n + 2, Len(s))
           behind == {s[i] : i \in (2 .. n + 1) \cap DOMAIN s}
<1>1. /\ Len(s) \in Nat /\ Len(s) > 0 /\ DOMAIN s = 1 .. Len(s) /\ Head(s) = s[1]
      /\ \A i \in 1 .. Len(s) : s[i] \in Record
  BY Popped, LenProperties, ElementOfSeq, EmptySeq
<1>2. n + 2 \in Nat /\ n + 2 >= 1 /\ Len(s) \in Int /\ Len(s) <= Len(s)
  BY <1>1
<1>3. /\ rest \in Seq(Record)
      /\ Len(rest) = IF n + 2 <= Len(s) THEN Len(s) - (n + 2) + 1 ELSE 0
      /\ Range(rest) = {s[i] : i \in n + 2 .. Len(s)}
  BY <1>2, Part
<1>4. Range(s) = {s[i] : i \in 1 .. Len(s)}
  BY RangeEquality
<1>5. ASSUME NEW x \in Range(s) PROVE x \in Range(rest) \cup {Head(s)} \cup behind
  <2>1. PICK i \in 1 .. Len(s) : x = s[i]
    BY <1>4, <1>5
  <2>2. CASE i = 1
    BY <1>1, <2>1, <2>2
  <2>3. CASE i \in 2 .. n + 1
    BY <1>1, <2>1, <2>3
  <2>4. CASE i \in n + 2 .. Len(s)
    BY <1>3, <2>1, <2>4
  <2> QED BY <1>1, <2>1, <2>2, <2>3, <2>4
<1>6. Len(rest) <= Len(s)
  BY <1>1, <1>3
<1>7. Head(s) \in Record /\ behind \subseteq Record
  BY <1>1
<1> QED BY <1>3, <1>5, <1>6, <1>7

LEMMA DamagedKeeps ==
  ASSUME NEW d, Shaped(d), NEW ring \in {"rtc", "lfs"}, d[ring] # <<>>, NEW n \in {0, 1}
  PROVE  KeepsQueue(d, Damaged(d, ring, n)) /\ Damaged(d, ring, n).faults = d.faults
<1> DEFINE s == d[ring]
           rest == SubSeq(s, n + 2, Len(s))
           behind == {s[i] : i \in (2 .. n + 1) \cap DOMAIN s}
           x == d.excused \cup {Head(s)}
           y == d.strays \cup behind
           e == Damaged(d, ring, n)
<1>0. s \in Seq(Record) /\ d \in Node
  BY RingTypes DEF Shaped
<1>1. /\ rest \in Seq(Record) /\ Len(rest) <= Len(s)
      /\ Head(s) \in Record /\ behind \subseteq Record
      /\ Range(s) \subseteq Range(rest) \cup {Head(s)} \cup behind
  BY <1>0, FrontDropped
<1>2. x \subseteq Record /\ y \subseteq Record
  BY <1>0, <1>1, Fields
<1>3. e = [[d EXCEPT !.excused = x] EXCEPT ![ring] = rest, !.strays = y]
  BY DEF Damaged, Excuse
<1>4. Len(rest) \in Nat /\ Len(s) \in Nat
  BY <1>0, <1>1, LenProperties
<1> HIDE DEF rest, behind
<1>5. CASE ring = "rtc"
  <2>1. /\ e \in Node /\ e.rtc = rest /\ e.lfs = d.lfs /\ e.emergency = d.emergency
        /\ e.saved = d.saved /\ e.backpressure = d.backpressure /\ e.made = d.made
        /\ e.received = d.received /\ e.excused = x /\ e.strays = y /\ e.faults = d.faults
    <3> HIDE DEF x, y, e
    <3> QED BY <1>0, <1>1, <1>2, <1>3, <1>5 DEF Node
  <2>2. Accounted(d) \subseteq Accounted(e)
    <3> HIDE DEF e
    <3> QED BY <1>1, <1>5, <2>1 DEF Accounted, Stored
  <2>3. Shaped(e)
    <3> HIDE DEF e
    <3>1. RtcCap \in Nat /\ Len(d.rtc) <= RtcCap
      BY Caps DEF Shaped
    <3> QED BY <1>1, <1>4, <1>5, <2>1, <3>1 DEF Shaped
  <2> HIDE DEF e
  <2>4. KeepsQueue(d, e)
    BY <2>1, <2>2, <2>3 DEF KeepsQueue, Keeps
  <2> QED BY <2>1, <2>4 DEF e
<1>6. CASE ring = "lfs"
  <2>1. /\ e \in Node /\ e.lfs = rest /\ e.rtc = d.rtc /\ e.emergency = d.emergency
        /\ e.saved = d.saved /\ e.backpressure = d.backpressure /\ e.made = d.made
        /\ e.received = d.received /\ e.excused = x /\ e.strays = y /\ e.faults = d.faults
    <3> HIDE DEF x, y, e
    <3> QED BY <1>0, <1>1, <1>2, <1>3, <1>6 DEF Node
  <2>2. Accounted(d) \subseteq Accounted(e)
    <3> HIDE DEF e
    <3> QED BY <1>1, <1>6, <2>1 DEF Accounted, Stored
  <2>3. Shaped(e)
    <3> HIDE DEF e
    <3>1. LfsCap \in Nat /\ Len(d.lfs) <= LfsCap
      BY Caps DEF Shaped
    <3> QED BY <1>1, <1>4, <1>6, <2>1, <3>1 DEF Shaped
  <2> HIDE DEF e
  <2>4. KeepsQueue(d, e)
    BY <2>1, <2>2, <2>3 DEF KeepsQueue, Keeps
  <2> QED BY <2>1, <2>4 DEF e
<1> QED BY <1>5, <1>6

\* What a load of d with the source it has so far gives
Loads(d, source, l) ==
  /\ KeepsQueue(d, l.node) /\ Orderly(d, l.node)
  /\ l.source \in Source
  /\ l.result = "READY" =>
       l.source # "NONE" /\ l.node.buf = FrontOf(l.node, l.source) /\ l.node.buf \in Record
  /\ l.result # "READY" /\ source = "NONE" => l.source = "NONE"

LEMMA LoadedFields ==
  ASSUME NEW result, NEW d, NEW source
  PROVE  /\ Loaded(result, d, source).result = result
         /\ Loaded(result, d, source).node = d
         /\ Loaded(result, d, source).source = source
  BY DEF Loaded

LEMMA LoadFromLoads ==
  ASSUME NEW d, Shaped(d), NEW from \in {"RTC", "LITTLEFS"}, NEW source \in Source,
         NEW l \in LoadFrom(d, from, source)
  PROVE  Loads(d, source, l) /\ (l.result = "READY" => l.source = from)
<1> DEFINE ring == RingOf[from]
           behind == IF from = "RTC" THEN 0 ELSE 1
<1>0. /\ ring \in {"rtc", "lfs"} /\ d[ring] \in Seq(Record) /\ behind \in {0, 1}
      /\ from \in Source /\ from # "NONE"
  BY Rings, RingTypes DEF Source
<1>1. CASE l = Loaded("EMPTY", d, source)
  BY <1>1, LoadedFields, KeepsQueueReflexive, SameOrder DEF Loads
<1>2. CASE d[ring] # <<>> /\ l = Loaded("READY", [d EXCEPT !.buf = Head(d[ring])], from)
  <2> DEFINE r == Head(d[ring])
             e == [d EXCEPT !.buf = r]
  <2>1. r \in Record /\ r \in {NoRecord} \cup Record
    BY <1>0, <1>2, Popped
  <2>2. l.result = "READY" /\ l.node = e /\ l.source = from
    BY <1>2, LoadedFields
  <2> HIDE DEF r
  <2>3. KeepsQueue(d, e) /\ Orderly(d, e) /\ e.buf = r /\ e.rtc = d.rtc /\ e.lfs = d.lfs
    BY <2>1, BufKeeps
  <2> HIDE DEF e
  <2>4. FrontOf(e, from) = FrontOf(d, from)
    BY <1>0, <2>3, SameFront
  <2>5. FrontOf(d, from) = r
    BY <1>0, <1>2 DEF FrontOf, r
  <2> QED BY <1>0, <2>1, <2>2, <2>3, <2>4, <2>5 DEF Loads
<1>3. CASE \E e \in Hit(d, "write") : l = Loaded("FATAL", e, source)
  BY <1>3, LoadedFields, HitKeeps DEF Loads
<1>4. CASE \E e \in Hit(d, "damage"), result \in {"RETRY", "EMPTY"}, k \in {0, 1},
             t \in {"NONE", source} : d[ring] # <<>> /\ l = Loaded(result, Damaged(e, ring, k), t)
  <2>1. PICK e \in Hit(d, "damage"), result \in {"RETRY", "EMPTY"}, k \in {0, 1},
             t \in {"NONE", source} : d[ring] # <<>> /\ l = Loaded(result, Damaged(e, ring, k), t)
    BY <1>4
  <2>2. KeepsQueue(d, e) /\ Shaped(e) /\ e.rtc = d.rtc /\ e.lfs = d.lfs /\ e.faults # 0
    BY <2>1, HitKeeps DEF KeepsQueue, Keeps
  <2>3. e[ring] # <<>>
    BY <1>0, <2>1, <2>2
  <2> HIDE DEF ring
  <2>4. KeepsQueue(e, Damaged(e, ring, k)) /\ Orderly(d, Damaged(e, ring, k))
    BY <1>0, <2>1, <2>2, <2>3, DamagedKeeps DEF Orderly
  <2>5. KeepsQueue(d, Damaged(e, ring, k))
    BY <2>2, <2>4, KeepsQueueTransitive
  <2> QED BY <2>1, <2>4, <2>5, LoadedFields DEF Loads, Source
<1> QED
  <2>1. CASE d[ring] = <<>>
    BY <1>1, <2>1 DEF LoadFrom
  <2>2. CASE d[ring] # <<>>
    <3> DEFINE fs == {Loaded("FATAL", e, source) : e \in Hit(d, "write")}
               rs == {Loaded("RETRY", Damaged(e, ring, behind),
                             IF source = from THEN "NONE" ELSE source) : e \in Hit(d, "damage")}
               os == {Loaded(result, Damaged(e, ring, 0), source) :
                        result \in {r \in {"RETRY", "EMPTY"} :
                                      from = "LITTLEFS" /\ (r = "EMPTY" => Len(d.lfs) = 1)},
                        e \in Hit(d, "damage")}
    <3>1. l \in {Loaded("READY", [d EXCEPT !.buf = Head(d[ring])], from)} \cup fs \cup rs \cup os
      <4> DEFINE empty == {Loaded("EMPTY", d, source)}
                  full == {Loaded("READY", [d EXCEPT !.buf = Head(d[ring])], from)}
                          \cup fs \cup rs \cup os
      <4>1. LoadFrom(d, from, source) = IF d[ring] = <<>> THEN empty ELSE full
        BY DEF LoadFrom
      <4>2. l \in full
        <5> HIDE DEF full, empty, ring
        <5> QED BY <2>2, <4>1
      <4> QED BY <4>2
    <3>2. CASE l \in fs
      BY <1>3, <3>2
    <3>3. CASE l \in rs
      BY <1>0, <1>4, <2>2, <3>3
    <3>4. CASE l \in os
      BY <1>0, <1>4, <2>2, <3>4
    <3> HIDE DEF fs, rs, os
    <3> QED BY <1>2, <2>2, <3>1, <3>2, <3>3, <3>4
  <2> QED BY <2>1, <2>2

LEMMA LoadsAfter ==
  ASSUME NEW d, NEW e, KeepsQueue(d, e), Orderly(d, e), NEW source, NEW l, Loads(e, "NONE", l)
  PROVE  Loads(d, source, l)
<1>1. KeepsQueue(d, l.node) /\ Orderly(d, l.node)
  BY KeepsQueueTransitive, OrderlyTransitive DEF Loads
<1> QED BY <1>1 DEF Loads

LEMMA LoadUnlockedLoads ==
  ASSUME NEW d, Shaped(d), NEW l \in LoadUnlocked(d)
  PROVE  Loads(d, "NONE", l)
<1>0. "NONE" \in Source /\ "RTC" \in {"RTC", "LITTLEFS"} /\ "LITTLEFS" \in {"RTC", "LITTLEFS"}
  BY DEF Source
<1>1. PICK r \in LoadFrom(d, "RTC", "NONE") :
        l \in IF r.result = "READY" THEN {r}
              ELSE {IF k.result = "READY" THEN k
                    ELSE Loaded(IF "FATAL" \in {r.result, k.result} THEN "FATAL"
                                ELSE IF "RETRY" \in {r.result, k.result} THEN "RETRY"
                                ELSE "EMPTY", k.node, "NONE") :
                      k \in LoadFrom(r.node, "LITTLEFS", "NONE")}
  BY DEF LoadUnlocked
<1>2. Loads(d, "NONE", r)
  BY <1>0, LoadFromLoads
<1>3. KeepsQueue(d, r.node) /\ Orderly(d, r.node) /\ Shaped(r.node)
  BY <1>2 DEF Loads, KeepsQueue, Keeps
<1>4. CASE l = r
  BY <1>2, <1>4
<1>5. CASE l # r
  <2>1. PICK k \in LoadFrom(r.node, "LITTLEFS", "NONE"), result \in {"FATAL", "RETRY", "EMPTY"} :
          l = k \/ l = Loaded(result, k.node, "NONE")
    BY <1>1, <1>5
  <2>2. Loads(r.node, "NONE", k)
    BY <1>0, <1>3, LoadFromLoads
  <2>3. Loads(d, "NONE", k)
    BY <1>3, <2>2, LoadsAfter
  <2>4. CASE l = Loaded(result, k.node, "NONE")
    BY <1>0, <2>1, <2>3, <2>4, LoadedFields DEF Loads
  <2> QED BY <2>1, <2>3, <2>4
<1> QED BY <1>4, <1>5

LEMMA LoadLoads ==
  ASSUME NEW d, Shaped(d), NEW source \in Source, NEW l \in Load(d, source)
  PROVE  Loads(d, source, l)
<1>1. CASE source = "NONE"
  BY <1>1, LoadUnlockedLoads DEF Load
<1>2. CASE source # "NONE"
  <2>1. PICK k \in LoadFrom(d, source, source) :
          l \in IF k.result \in {"READY", "RETRY"} THEN {k} ELSE LoadUnlocked(k.node)
    BY <1>2 DEF Load
  <2>2. Loads(d, source, k)
    BY <1>2, LoadFromLoads DEF Source
  <2>3. KeepsQueue(d, k.node) /\ Orderly(d, k.node) /\ Shaped(k.node)
    BY <2>2 DEF Loads, KeepsQueue, Keeps
  <2>4. CASE l = k
    BY <2>2, <2>4
  <2>5. CASE l \in LoadUnlocked(k.node)
    BY <2>3, <2>5, LoadUnlockedLoads, LoadsAfter
  <2> QED BY <2>1, <2>4, <2>5
<1> QED BY <1>1, <1>2

LEMMA FrontOfRing ==
  ASSUME NEW d, Shaped(d), NEW s \in Source
  PROVE  /\ s # "NONE" /\ d[RingOf[s]] # <<>> => FrontOf(d, s) = Head(d[RingOf[s]])
         /\ s = "NONE" \/ d[RingOf[s]] = <<>> => FrontOf(d, s) = NoRecord
         /\ FrontOf(d, s) \in {NoRecord} \cup Record
<1>1. CASE s # "NONE" /\ d[RingOf[s]] # <<>>
  <2>1. RingOf[s] \in {"rtc", "lfs"} /\ d[RingOf[s]] \in Seq(Record)
    BY <1>1, Rings, RingTypes
  <2>2. Head(d[RingOf[s]]) \in Record
    BY <1>1, <2>1, Popped
  <2> QED BY <1>1, <2>2 DEF FrontOf
<1>2. CASE s = "NONE" \/ d[RingOf[s]] = <<>>
  BY <1>2 DEF FrontOf
<1> QED BY <1>1, <1>2

\* A ring without its front, which a server has or which became a stray
LEMMA PoppedKeeps ==
  ASSUME NEW d, Shaped(d), NEW ring \in {"rtc", "lfs"}, d[ring] # <<>>,
         NEW y \in SUBSET Record, Head(d[ring]) \in d.received \cup d.strays \cup y,
         NEW e, e = [d EXCEPT ![ring] = Tail(@), !.strays = @ \cup y]
  PROVE  KeepsQueue(d, e) /\ Orderly(d, e)
<1> DEFINE s == d[ring]
           rest == Tail(s)
           z == d.strays \cup y
<1>0. s \in Seq(Record) /\ d \in Node /\ z \subseteq Record
  BY RingTypes, Fields DEF Shaped
<1>1. /\ rest \in Seq(Record) /\ Len(rest) = Len(s) - 1 /\ Len(s) \in Nat /\ Len(s) > 0
      /\ Range(s) = Range(rest) \cup {Head(s)}
  BY <1>0, Popped
<1>2. e = [d EXCEPT ![ring] = rest, !.strays = z]
  OBVIOUS
<1>3. Head(s) \in d.received \cup z
  OBVIOUS
<1>4. /\ ring = "rtc" => Len(rest) <= RtcCap
      /\ ring = "lfs" => Len(rest) <= LfsCap
  BY <1>0, Caps, Shorter DEF Shaped
<1>5. Ascending(s) => Ascending(rest)
  BY <1>0, AscendingTail
<1> HIDE DEF rest, z
<1>6. d.strays \subseteq z
  BY DEF z
<1>7. CASE ring = "rtc"
  <2>1. /\ e \in Node /\ e.rtc = rest /\ e.lfs = d.lfs /\ e.emergency = d.emergency
        /\ e.saved = d.saved /\ e.backpressure = d.backpressure /\ e.made = d.made
        /\ e.received = d.received /\ e.excused = d.excused /\ e.strays = z
        /\ e.faults = d.faults /\ e.cooling = d.cooling
    BY <1>0, <1>1, <1>2, <1>7 DEF Node
  <2>2. Accounted(d) \subseteq Accounted(e)
    BY <1>1, <1>3, <1>6, <1>7, <2>1 DEF Accounted, Stored
  <2>3. Shaped(e)
    BY <1>7, <1>4, <2>1 DEF Shaped
  <2>4. Orderly(d, e)
    BY <1>1, <1>5, <1>7, <2>1 DEF Orderly, Ordered
  <2> QED BY <2>1, <2>2, <2>3, <2>4 DEF KeepsQueue, Keeps
<1>8. CASE ring = "lfs"
  <2>1. /\ e \in Node /\ e.lfs = rest /\ e.rtc = d.rtc /\ e.emergency = d.emergency
        /\ e.saved = d.saved /\ e.backpressure = d.backpressure /\ e.made = d.made
        /\ e.received = d.received /\ e.excused = d.excused /\ e.strays = z
        /\ e.faults = d.faults /\ e.cooling = d.cooling
    BY <1>0, <1>1, <1>2, <1>8 DEF Node
  <2>2. Accounted(d) \subseteq Accounted(e)
    BY <1>1, <1>3, <1>6, <1>8, <2>1 DEF Accounted, Stored
  <2>3. Shaped(e)
    BY <1>8, <1>4, <2>1 DEF Shaped
  <2>4. Orderly(d, e)
    BY <1>1, <1>5, <1>8, <2>1 DEF Orderly, Ordered
  <2> QED BY <2>1, <2>2, <2>3, <2>4 DEF KeepsQueue, Keeps
<1> QED BY <1>7, <1>8

\* The pop of the record of the upload u: it loses nothing, and when it fails
\* the rings are as they were.
LEMMA PopLoadedKeeps ==
  ASSUME NEW d, Shaped(d), NEW u, u.source \in Source,
         ~u.stale /\ ~u.disturbed /\ u.source # "NONE" =>
           FrontOf(d, u.source) \in d.received \cup {NoRecord},
         NEW o \in PopLoaded(d, u)
  PROVE  /\ o \in {Ok(o.node), No(o.node)}
         /\ KeepsQueue(d, o.node) /\ Orderly(d, o.node)
         /\ ~o.ok => /\ FrontOf(o.node, u.source) = FrontOf(d, u.source)
                     /\ o.node.received = d.received
<1> DEFINE ring == RingOf[u.source]
           y == IF u.stale \/ u.disturbed THEN {Head(d[ring])} ELSE {}
           popped == WithoutFront(d, ring, u)
           failed == {No(e) : e \in Hit(d, "pop")}
           damaged == {Ok(Damaged(e, ring, behind)) :
                         behind \in IF ring = "rtc" THEN {1} ELSE {0, 1}, e \in Hit(d, "damage")}
<1>1. CASE o = No(d) \/ o = Ok(d)
  BY <1>1, Outcome, KeepsQueueReflexive, SameOrder
<1>2. CASE u.source # "NONE" /\ d[ring] # <<>>
  <2>0. ring \in {"rtc", "lfs"} /\ d[ring] \in Seq(Record)
    BY <1>2, Rings, RingTypes
  <2>1. o \in {Ok(popped)} \cup failed \cup damaged
    <3> DEFINE full == {Ok(popped)} \cup failed \cup damaged
    <3>1. PopLoaded(d, u) = IF u.source = "NONE" THEN {No(d)}
                            ELSE IF d[ring] = <<>> THEN {Ok(d)} ELSE full
      BY DEF PopLoaded
    <3> HIDE DEF popped, failed, damaged, ring
    <3> QED BY <1>2, <3>1
  <2>2. Head(d[ring]) \in Record /\ Head(d[ring]) = FrontOf(d, u.source)
    BY <1>2, <2>0, Popped, FrontOfRing
  <2>3. CASE o = Ok(popped)
    <3>1. NoRecord \notin Record
      BY Caps DEF NoRecord, Record
    <3>2. y \in SUBSET Record /\ Head(d[ring]) \in d.received \cup d.strays \cup y
      BY <1>2, <2>2, <3>1
    <3> DEFINE z == IF u.stale \/ u.disturbed THEN d.strays \cup {Head(d[ring])} ELSE d.strays
    <3>3. z = d.strays \cup y
      OBVIOUS
    <3>4. popped = [d EXCEPT ![ring] = Tail(@), !.strays = @ \cup y]
      <4>1. popped = [d EXCEPT ![ring] = Tail(@), !.strays = z]
        BY DEF WithoutFront
      <4> HIDE DEF y, z, popped
      <4> QED BY <3>3, <4>1
    <3>5. KeepsQueue(d, popped) /\ Orderly(d, popped)
      <4> HIDE DEF y, popped, ring
      <4> QED BY <1>2, <2>0, <3>2, <3>4, PoppedKeeps
    <3> HIDE DEF popped
    <3> QED BY <2>3, <3>5, Outcome
  <2>4. CASE o \in failed
    <3>1. PICK e \in Hit(d, "pop") : o = No(e)
      BY <2>4
    <3>2. /\ KeepsQueue(d, e) /\ Orderly(d, e)
          /\ e.rtc = d.rtc /\ e.lfs = d.lfs /\ e.received = d.received
      BY <3>1, HitKeeps
    <3>3. FrontOf(e, u.source) = FrontOf(d, u.source)
      BY <3>2, SameFront
    <3> QED BY <3>1, <3>2, <3>3, Outcome
  <2>5. CASE o \in damaged
    <3>1. PICK k \in {0, 1}, e \in Hit(d, "damage") : o = Ok(Damaged(e, ring, k))
      BY <2>5
    <3>2. KeepsQueue(d, e) /\ Shaped(e) /\ e.rtc = d.rtc /\ e.lfs = d.lfs /\ e.faults # 0
      BY <3>1, HitKeeps DEF KeepsQueue, Keeps
    <3>3. e[ring] # <<>>
      BY <1>2, <2>0, <3>2
    <3> HIDE DEF ring
    <3>4. KeepsQueue(e, Damaged(e, ring, k)) /\ Orderly(d, Damaged(e, ring, k))
      BY <2>0, <3>2, <3>3, DamagedKeeps DEF Orderly
    <3>5. KeepsQueue(d, Damaged(e, ring, k))
      BY <3>2, <3>4, KeepsQueueTransitive
    <3> QED BY <3>1, <3>4, <3>5, Outcome
  <2> HIDE DEF popped, failed, damaged
  <2> QED BY <2>1, <2>3, <2>4, <2>5
<1> QED
  <2>1. CASE u.source = "NONE"
    BY <1>1, <2>1 DEF PopLoaded
  <2>2. CASE u.source # "NONE" /\ d[ring] = <<>>
    BY <1>1, <2>2 DEF PopLoaded
  <2> QED BY <1>2, <2>1, <2>2

-----------------------------------------------------------------------------
(* The upload in progress.                                                 *)

LEMMA SoundKept ==
  ASSUME NEW d, Sound(d), NEW e, KeepsQueue(d, e), Orderly(d, e)
  PROVE  Sound(e) /\ d.received \subseteq e.received
  BY DEF Sound, KeepsQueue, Keeps, Kept, Flagged, Orderly

LEMMA UploadFields ==
  ASSUME NEW u \in Upload
  PROVE  /\ u.state \in {"IDLE", "UPLOADING", "PAUSED"}
         /\ u.http \in {"IDLE", "CONNECTING", "SENDING", "WAITING", "READING"}
         /\ u.edge \in BOOLEAN /\ u.sent \in {NoRecord} \cup Record /\ u.source \in Source
         /\ u.streak \in 0 .. StreakMax /\ u.requested \in BOOLEAN
         /\ u.stale \in BOOLEAN /\ u.disturbed \in BOOLEAN
  BY DEF Upload, Source

\* Two uploads that differ in the state and in what was requested
Alike(u, v) ==
  /\ v.http = u.http /\ v.edge = u.edge /\ v.sent = u.sent /\ v.source = u.source
  /\ v.streak = u.streak /\ v.stale = u.stale /\ v.disturbed = u.disturbed

LEMMA AlikeGood ==
  ASSUME NEW d, NEW u, Good(d, u), NEW v \in Upload, Alike(u, v)
  PROVE  Good(d, v)
  BY DEF Good, Owed, SendsFront, Requests, Alike

LEMMA StateSet ==
  ASSUME NEW u \in Upload, NEW s \in {"IDLE", "UPLOADING", "PAUSED"}
  PROVE  /\ [u EXCEPT !.state = s] \in Upload /\ Alike(u, [u EXCEPT !.state = s])
         /\ [u EXCEPT !.state = s].state = s
  BY DEF Upload, Alike

LEMMA ServedAlike ==
  ASSUME NEW u \in Upload
  PROVE  Served(u) \in Upload /\ Alike(u, Served(u))
  BY Zenon DEF Served, Upload, Alike

LEMMA OverGood ==
  ASSUME NEW u \in Upload, NEW d, Owed(d, u)
  PROVE  Good(d, Over(u)) /\ Over(u).source = u.source
<1> DEFINE v == Over(u)
<1>1. /\ v \in Upload /\ v.http = "IDLE" /\ v.edge = FALSE /\ v.source = u.source
      /\ v.streak = u.streak /\ v.stale = u.stale /\ v.disturbed = u.disturbed
  BY DEF Over, Upload
<1> HIDE DEF v
<1>2. Owed(d, v)
  BY <1>1 DEF Owed
<1>3. Good(d, v)
  BY <1>1, <1>2 DEF Good, SendsFront, Requests
<1> QED BY <1>1, <1>3 DEF v

LEMMA IdleHttpGood ==
  ASSUME NEW u \in Upload, u.http = "IDLE", u.edge = FALSE, NEW d, Owed(d, u)
  PROVE  Good(d, u)
  BY DEF Good, SendsFront, Requests

LEMMA AfterPopFields ==
  ASSUME NEW u \in Upload, NEW o, o.ok \in BOOLEAN
  PROVE  LET v == AfterPop(u, o)
         IN  /\ v \in Upload /\ v.http = u.http /\ v.edge = u.edge /\ v.sent = u.sent
             /\ v.state = u.state
             /\ o.ok => v.source = "NONE"
             /\ ~o.ok => v.source = u.source /\ v.stale = u.stale /\ v.disturbed = u.disturbed
<1> DEFINE v == AfterPop(u, o)
           n == IF u.streak < StreakMax THEN u.streak + 1 ELSE u.streak
<1>1. CASE o.ok
  <2>1. 0 \in 0 .. StreakMax
    BY Caps
  <2>2. v = [u EXCEPT !.streak = 0, !.source = "NONE", !.stale = FALSE, !.disturbed = FALSE]
    BY <1>1 DEF AfterPop
  <2> QED BY <1>1, <2>1, <2>2 DEF Upload
<1>2. CASE ~o.ok
  <2>1. n \in 0 .. StreakMax
    BY Caps, UploadFields
  <2>2. v = [u EXCEPT !.streak = n]
    BY <1>2 DEF AfterPop
  <2> HIDE DEF n
  <2> QED BY <1>2, <2>1, <2>2 DEF Upload
<1> QED BY <1>1, <1>2

\* After a pop of a record that a server has, no other pop is owed.
LEMMA PopGood ==
  ASSUME NEW d, Sound(d), NEW u \in Upload,
         ~u.stale /\ ~u.disturbed /\ u.source # "NONE" =>
           FrontOf(d, u.source) \in d.received \cup {NoRecord},
         NEW o \in PopLoaded(d, u)
  PROVE  LET v == AfterPop(u, o)
         IN  /\ Sound(o.node) /\ d.received \subseteq o.node.received
             /\ Owed(o.node, v) /\ v \in Upload
             /\ v.http = u.http /\ v.edge = u.edge /\ v.sent = u.sent /\ v.state = u.state
             /\ o.ok \in BOOLEAN
<1> DEFINE v == AfterPop(u, o)
<1>1. /\ o \in {Ok(o.node), No(o.node)}
      /\ KeepsQueue(d, o.node) /\ Orderly(d, o.node)
      /\ ~o.ok => /\ FrontOf(o.node, u.source) = FrontOf(d, u.source)
                  /\ o.node.received = d.received
  <2>1. Shaped(d) /\ u.source \in Source
    BY UploadFields DEF Sound
  <2> QED BY <2>1, PopLoadedKeeps
<1>2. Sound(o.node) /\ d.received \subseteq o.node.received
  BY <1>1, SoundKept
<1>3. o.ok \in BOOLEAN
  BY <1>1, Outcome
<1>4. /\ v \in Upload /\ v.http = u.http /\ v.edge = u.edge /\ v.sent = u.sent
      /\ v.state = u.state
      /\ o.ok => v.source = "NONE"
      /\ ~o.ok => v.source = u.source /\ v.stale = u.stale /\ v.disturbed = u.disturbed
  BY <1>3, AfterPopFields
<1> HIDE DEF v
<1>5. Owed(o.node, v)
  BY <1>1, <1>4 DEF Owed
<1> QED BY <1>2, <1>3, <1>4, <1>5 DEF v

\* A load leaves no pop owed but for a stale record.
LEMMA LoadGood ==
  ASSUME NEW d, Sound(d), NEW u \in Upload, ~(u.streak > 0 /\ u.source # "NONE"),
         NEW l \in Load(d, u.source)
  PROVE  LET v == AfterLoad(u, l)
         IN  /\ Sound(l.node) /\ d.received \subseteq l.node.received
             /\ v \in Upload /\ v.http = u.http /\ v.edge = u.edge /\ v.sent = u.sent
             /\ v.state = u.state
             /\ v.streak > 0 /\ v.source # "NONE" => v.stale
             /\ l.result = "READY" => /\ v.source = l.source /\ v.source # "NONE"
                                      /\ l.node.buf = FrontOf(l.node, l.source)
                                      /\ l.node.buf \in Record
<1> DEFINE v == AfterLoad(u, l)
<1>0. Shaped(d) /\ u.source \in Source /\ u.streak \in 0 .. StreakMax
  BY UploadFields DEF Sound
<1>1. Loads(d, u.source, l)
  BY <1>0, LoadLoads
<1>2. Sound(l.node) /\ d.received \subseteq l.node.received
  BY <1>1, SoundKept DEF Loads
<1>3. CASE l.result = "READY"
  <2> DEFINE b == u.streak > 0
             t == l.source
  <2>1. b \in BOOLEAN /\ t \in {"NONE", "RTC", "LITTLEFS"}
    BY <1>1 DEF Loads, Source
  <2>2. v = [u EXCEPT !.source = t, !.stale = b, !.disturbed = FALSE]
    BY <1>3 DEF AfterLoad
  <2> HIDE DEF b, t
  <2>3. /\ v \in Upload /\ v.http = u.http /\ v.edge = u.edge /\ v.sent = u.sent
        /\ v.state = u.state /\ v.streak = u.streak /\ v.source = t /\ v.stale = b
    BY <2>1, <2>2, Zenon DEF Upload
  <2> HIDE DEF v
  <2>4. v.streak > 0 => v.stale
    BY <2>3 DEF b
  <2> USE DEF v, t
  <2> QED BY <1>1, <1>2, <1>3, <2>3, <2>4 DEF Loads
<1>4. CASE l.result # "READY"
  <2> DEFINE t == IF l.result = "EMPTY" THEN "NONE" ELSE l.source
  <2>1. t \in {"NONE", "RTC", "LITTLEFS"} /\ (u.source = "NONE" => t = "NONE")
    BY <1>1, <1>4 DEF Loads, Source
  <2>2. v = [u EXCEPT !.source = t]
    BY <1>4 DEF AfterLoad
  <2> HIDE DEF t
  <2>3. /\ v \in Upload /\ v.http = u.http /\ v.edge = u.edge /\ v.sent = u.sent
        /\ v.state = u.state /\ v.streak = u.streak /\ v.source = t
    BY <2>1, <2>2 DEF Upload
  <2> HIDE DEF v
  <2>4. ~(v.streak > 0 /\ v.source # "NONE")
    BY <1>0, <2>1, <2>3
  <2> USE DEF v
  <2> QED BY <1>2, <1>4, <2>3, <2>4
<1> QED BY <1>3, <1>4

\* The node goes on to e, and the upload stays as it is.
LEMMA NodeGoesOn ==
  ASSUME NEW d, NEW e, NEW u, Good(d, u), d.received \subseteq e.received,
         FrontOf(e, u.source) = FrontOf(d, u.source),
         u.http \in {"CONNECTING", "SENDING"} => e.buf = d.buf
  PROVE  Good(e, u)
  BY DEF Good, Owed, SendsFront

LEMMA IdleGood ==
  ASSUME NEW d, Sound(d), NEW s \in Source
  PROVE  /\ Sound(Idle(d)) /\ Idle(d).received = d.received
         /\ FrontOf(Idle(d), s) = FrontOf(d, s)
  BY IdleKeeps, SoundKept DEF Sound

LEMMA OwedIdle ==
  ASSUME NEW d, Sound(d), NEW u \in Upload, Owed(d, u)
  PROVE  Owed(Idle(d), u)
<1>1. Idle(d).received = d.received /\ FrontOf(Idle(d), u.source) = FrontOf(d, u.source)
  BY IdleGood, UploadFields
<1> QED BY <1>1 DEF Owed

-----------------------------------------------------------------------------
(* Every action keeps the invariant, one lemma for each group.             *)

LEMMA DisturbSet ==
  ASSUME up \in Upload, NEW d,
         NEW v, \/ v = [up EXCEPT !.disturbed = Disturb(d)]
                \/ v = [up EXCEPT !.disturbed = Disturb(d), !.requested = TRUE]
  PROVE  /\ v \in Upload
         /\ v.http = up.http /\ v.edge = up.edge /\ v.sent = up.sent /\ v.source = up.source
         /\ v.streak = up.streak /\ v.stale = up.stale /\ v.disturbed = Disturb(d)
<1> DEFINE b == Disturb(d)
<1>1. b \in BOOLEAN
  BY UploadFields DEF Disturb
<1> HIDE DEF b
<1>2. v = [up EXCEPT !.disturbed = b] \/ v = [up EXCEPT !.disturbed = b, !.requested = TRUE]
  BY DEF b
<1>3. /\ v \in Upload
      /\ v.http = up.http /\ v.edge = up.edge /\ v.sent = up.sent /\ v.source = up.source
      /\ v.streak = up.streak /\ v.stale = up.stale /\ v.disturbed = b
  BY <1>1, <1>2, Zenon DEF Upload
<1> QED BY <1>3 DEF b

LEMMA IngestGood ==
  ASSUME Inv, NEW d \in Ingest, NEW e \in {d, Idle(d)}, e = Idle(d) => up.http = "IDLE" \/ e = d,
         NEW v, \/ v = [up EXCEPT !.disturbed = Disturb(d)]
                \/ v = [up EXCEPT !.disturbed = Disturb(d), !.requested = TRUE]
  PROVE  Sound(e) /\ Good(e, v) /\ v.edge = up.edge
<1>0. Sound(node) /\ Good(node, up) /\ up \in Upload /\ up.source \in Source
  BY UploadFields DEF Inv, Good
<1>1. Sound(d) /\ node.received \subseteq d.received
  BY <1>0, IngestKeeps
<1>2. Sound(e) /\ e.received = d.received /\ FrontOf(e, up.source) = FrontOf(d, up.source)
  BY <1>0, <1>1, IdleGood
<1>3. /\ v \in Upload
      /\ v.http = up.http /\ v.edge = up.edge /\ v.sent = up.sent /\ v.source = up.source
      /\ v.streak = up.streak /\ v.stale = up.stale /\ v.disturbed = Disturb(d)
  BY <1>0, DisturbSet, Zenon
<1>4. ~v.disturbed =>
        /\ ~up.disturbed
        /\ up.http \in {"CONNECTING", "SENDING"} => d.buf = node.buf
        /\ up.source # "NONE" => FrontOf(d, up.source) = FrontOf(node, up.source)
  BY <1>3 DEF Disturb
<1>5. Owed(e, v)
  BY <1>0, <1>1, <1>2, <1>4, <1>3 DEF Good, Owed
<1>6. up.http \in {"CONNECTING", "SENDING"} => e = d
  OBVIOUS
<1>7. SendsFront(e, v)
  BY <1>0, <1>2, <1>4, <1>3, <1>6 DEF Good, SendsFront
<1>8. Requests(v)
  BY <1>0, <1>3 DEF Good, Requests
<1> QED BY <1>2, <1>3, <1>5, <1>7, <1>8 DEF Good

LEMMA CreateRecordStep ==
  ASSUME Inv, CreateRecord
  PROVE  Inv'
<1>1. PICK d \in Ingest :
        /\ node' = IF /\ up.http = "IDLE" /\ up.state = "IDLE"
                      /\ ~up.requested /\ ~live.inFlight
                   THEN [d EXCEPT !.buf = NoRecord] ELSE d
        /\ up' = [up EXCEPT !.disturbed = Disturb(d)]
        /\ live' = [live EXCEPT !.pending = ToEdge /\ (@ \/ d.made # node.made)]
  BY DEF CreateRecord
<1>2. node' \in {d, Idle(d)} /\ (node' = d \/ up.http = "IDLE")
  BY <1>1 DEF Idle
<1>3. Sound(node') /\ Good(node', up') /\ up'.edge = up.edge
  <2>1. \/ up' = [up EXCEPT !.disturbed = Disturb(d)]
        \/ up' = [up EXCEPT !.disturbed = Disturb(d), !.requested = TRUE]
    BY <1>1, Zenon
  <2> QED BY <1>2, <2>1, IngestGood, Zenon
<1>4. OtherTypes'
  <2> DEFINE b == ToEdge /\ (live.pending \/ d.made # node.made)
  <2>1. b \in BOOLEAN
    BY DEF Inv, OtherTypes, ToEdge
  <2>2. live' = [live EXCEPT !.pending = b]
    BY <1>1, Zenon
  <2> HIDE DEF b
  <2>3. route' = route
    BY DEF CreateRecord
  <2> QED BY <2>1, <2>2, <2>3 DEF Inv, OtherTypes
<1> QED BY <1>3, <1>4 DEF Inv

LEMMA SendNowStep ==
  ASSUME Inv, SendNow
  PROVE  Inv'
<1>1. PICK d \in Ingest :
        /\ node' = IF up.http = "IDLE" THEN [d EXCEPT !.buf = NoRecord] ELSE d
        /\ up' = [up EXCEPT !.disturbed = Disturb(d), !.requested = TRUE]
        /\ SnapshotOf(d)
  BY DEF SendNow
<1>2. node' \in {d, Idle(d)} /\ (node' = d \/ up.http = "IDLE")
  BY <1>1 DEF Idle
<1>3. Sound(node') /\ Good(node', up') /\ up'.edge = up.edge
  <2>1. \/ up' = [up EXCEPT !.disturbed = Disturb(d)]
        \/ up' = [up EXCEPT !.disturbed = Disturb(d), !.requested = TRUE]
    BY <1>1, Zenon
  <2> QED BY <1>2, <2>1, IngestGood, Zenon
<1>4. OtherTypes'
  <2> DEFINE b == live.pending \/ d.made # node.made
  <2>1. b \in BOOLEAN
    BY DEF Inv, OtherTypes
  <2>2. live' = [live EXCEPT !.pending = b]
    BY <1>1, Zenon DEF SnapshotOf
  <2> HIDE DEF b
  <2>3. route' = route
    BY DEF SendNow
  <2> QED BY <2>1, <2>2, <2>3 DEF Inv, OtherTypes
<1> QED BY <1>3, <1>4 DEF Inv

\* StartCycle, WifiLost and Resume
LEMMA StateStep ==
  ASSUME Inv, StartCycle \/ WifiLost \/ Resume
  PROVE  Inv'
<1>0. up \in Upload
  BY DEF Inv, Good
<1>1. PICK s \in {"IDLE", "UPLOADING", "PAUSED"} :
        up' = [up EXCEPT !.state = s] /\ node' = node /\ route' = route /\ live' = live
  BY DEF StartCycle, WifiLost, Resume
<1>2. up' \in Upload /\ Alike(up, up')
  BY <1>0, <1>1, StateSet
<1>3. Good(node', up')
  BY <1>1, <1>2, AlikeGood DEF Inv
<1> QED BY <1>1, <1>3 DEF Inv, OtherTypes

\* An upload between requests
LEMMA CycleIdle ==
  ASSUME Inv, up.http = "IDLE"
  PROVE  up \in Upload /\ up.edge = FALSE /\ Sound(node) /\ Owed(node, up)
  BY UploadFields DEF Inv, Good, Requests

LEMMA CycleDeferredStep ==
  ASSUME Inv, CycleDeferred
  PROVE  Inv'
<1>1. /\ up.http = "IDLE" /\ node' = Idle(node) /\ up' = [up EXCEPT !.state = "IDLE"]
      /\ route' = route /\ live' = live
  BY DEF CycleDeferred, CycleRuns
<1>2. up \in Upload /\ up.edge = FALSE /\ Sound(node) /\ Owed(node, up)
  BY <1>1, CycleIdle
<1>3. Good(Idle(node), up) /\ Sound(Idle(node))
  BY <1>1, <1>2, OwedIdle, IdleHttpGood, IdleGood, UploadFields
<1>4. up' \in Upload /\ Alike(up, up')
  BY <1>1, <1>2, StateSet
<1>5. Good(node', up')
  BY <1>1, <1>3, <1>4, AlikeGood
<1> QED BY <1>1, <1>3, <1>5 DEF Inv, OtherTypes

LEMMA ImmediateRefusedStep ==
  ASSUME Inv, ImmediateRefused
  PROVE  Inv'
<1>1. /\ up.http = "IDLE" /\ node' = Idle(node) /\ up' = Served(up)
      /\ route' = route /\ live' = live
  BY DEF ImmediateRefused, ImmediateRuns
<1>2. up \in Upload /\ up.edge = FALSE /\ Sound(node) /\ Owed(node, up)
  BY <1>1, CycleIdle
<1>3. Good(Idle(node), up) /\ Sound(Idle(node))
  BY <1>1, <1>2, OwedIdle, IdleHttpGood, IdleGood, UploadFields
<1>4. up' \in Upload /\ Alike(up, up')
  BY <1>1, <1>2, ServedAlike
<1>5. Good(node', up')
  BY <1>1, <1>3, <1>4, AlikeGood
<1> QED BY <1>1, <1>3, <1>5 DEF Inv, OtherTypes

\* A pop between requests that ends with o
LEMMA RecoveredGood ==
  ASSUME Inv, up.http = "IDLE", PopPending, NEW o \in PopLoaded(node, up)
  PROVE  LET v == AfterPop(up, o)
         IN  /\ Sound(Idle(o.node)) /\ Good(Idle(o.node), v)
             /\ v \in Upload /\ v.edge = up.edge
<1> DEFINE v == AfterPop(up, o)
<1>1. up \in Upload /\ up.edge = FALSE /\ Sound(node) /\ Owed(node, up)
  BY CycleIdle
<1>2. ~up.stale /\ ~up.disturbed /\ up.source # "NONE" =>
        FrontOf(node, up.source) \in node.received \cup {NoRecord}
  BY <1>1 DEF Owed, PopPending
<1>3. /\ Sound(o.node) /\ Owed(o.node, v) /\ v \in Upload
      /\ v.http = up.http /\ v.edge = up.edge
  BY <1>1, <1>2, PopGood
<1> HIDE DEF v
<1>4. Sound(Idle(o.node)) /\ Owed(Idle(o.node), v)
  BY <1>3, IdleGood, OwedIdle, UploadFields
<1>5. Good(Idle(o.node), v)
  BY <1>1, <1>3, <1>4, IdleHttpGood
<1> QED BY <1>3, <1>4, <1>5 DEF v

LEMMA RecoverPopStep ==
  ASSUME Inv, RecoverPop
  PROVE  Inv'
<1>1. PICK o \in PopLoaded(node, up) :
        node' = Idle(o.node) /\ up' = [AfterPop(up, o) EXCEPT !.state = "IDLE"]
  BY DEF RecoverPop
<1>2. up.http = "IDLE" /\ PopPending /\ route' = route /\ live' = live
  BY DEF RecoverPop, CycleRuns
<1> DEFINE v == AfterPop(up, o)
<1>3. /\ Sound(Idle(o.node)) /\ Good(Idle(o.node), v) /\ v \in Upload /\ v.edge = up.edge
  BY <1>2, RecoveredGood
<1>4. up' = [v EXCEPT !.state = "IDLE"]
  BY <1>1
<1> HIDE DEF v
<1>5. up' \in Upload /\ Alike(v, up')
  BY <1>3, <1>4, StateSet
<1>6. Good(node', up')
  BY <1>1, <1>3, <1>5, AlikeGood
<1> QED BY <1>1, <1>2, <1>3, <1>6 DEF Inv, OtherTypes

LEMMA ImmediateRecoverPopStep ==
  ASSUME Inv, ImmediateRecoverPop
  PROVE  Inv'
<1>1. PICK o \in PopLoaded(node, up) :
        node' = Idle(o.node) /\ up' = Served(AfterPop(up, o))
  BY DEF ImmediateRecoverPop
<1>2. up.http = "IDLE" /\ PopPending /\ route' = route /\ live' = live
  BY DEF ImmediateRecoverPop, ImmediateRuns
<1> DEFINE v == AfterPop(up, o)
<1>3. /\ Sound(Idle(o.node)) /\ Good(Idle(o.node), v) /\ v \in Upload /\ v.edge = up.edge
  BY <1>2, RecoveredGood
<1>4. up' = Served(v)
  BY <1>1
<1> HIDE DEF v
<1>5. up' \in Upload /\ Alike(v, up')
  BY <1>3, <1>4, ServedAlike
<1>6. Good(node', up')
  BY <1>1, <1>3, <1>5, AlikeGood
<1> QED BY <1>1, <1>2, <1>3, <1>6 DEF Inv, OtherTypes

LEMMA RoutesTyped ==
  ASSUME Inv, NEW r \in Routes \cup {route}
  PROVE  r \in [mode : Mode, local : BOOLEAN, cached : {-1, 0, 1}]
<1>1. route \in [mode : Mode, local : BOOLEAN, cached : {-1, 0, 1}]
  BY DEF Inv, OtherTypes
<1>2. CASE r = route
  BY <1>1, <1>2
<1>3. CASE r # route
  <2>1. PICK g \in {-1, 0, 1} :
          r = [route EXCEPT !.cached = g, !.local = (g = 1) \/ (g = -1 /\ @)]
    BY <1>3 DEF Routes
  <2> DEFINE b == (g = 1) \/ (g = -1 /\ route.local)
  <2>2. b \in BOOLEAN
    BY <1>1
  <2>3. r = [route EXCEPT !.cached = g, !.local = b]
    BY <2>1, Zenon
  <2> HIDE DEF b
  <2> QED BY <1>1, <2>2, <2>3
<1> QED BY <1>2, <1>3

LEMMA CycleEndsStep ==
  ASSUME Inv, CycleEnds
  PROVE  Inv'
<1>1. /\ up.http = "IDLE" /\ live' = live
      /\ ~(up.streak > 0 /\ up.source # "NONE")
  BY DEF CycleEnds, CycleRuns, PopPending
<1>2. PICK l \in Load(node, up.source) :
        /\ node' = Idle(l.node)
        /\ up' = [AfterLoad(up, l) EXCEPT !.state = "IDLE"]
        /\ route' \in IF l.result = "READY" THEN Routes ELSE {route}
  BY DEF CycleEnds
<1>3. up \in Upload /\ up.edge = FALSE /\ Sound(node)
  BY <1>1, CycleIdle
<1> DEFINE v == AfterLoad(up, l)
<1>4. /\ Sound(l.node) /\ v \in Upload /\ v.http = up.http /\ v.edge = up.edge
      /\ v.streak > 0 /\ v.source # "NONE" => v.stale
  BY <1>1, <1>3, LoadGood
<1>5. up' = [v EXCEPT !.state = "IDLE"]
  BY <1>2
<1> HIDE DEF v
<1>6. Owed(node', v)
  BY <1>4 DEF Owed
<1>7. Good(node', v)
  BY <1>1, <1>3, <1>4, <1>6, IdleHttpGood
<1>8. up' \in Upload /\ Alike(v, up')
  BY <1>4, <1>5, StateSet
<1>9. Good(node', up')
  BY <1>7, <1>8, AlikeGood
<1>11. Sound(node')
  <2>1. "NONE" \in Source
    BY DEF Source
  <2> QED BY <1>2, <1>4, <2>1, IdleGood
<1>12. route' \in Routes \cup {route}
  BY <1>2
<1>13. route' \in [mode : Mode, local : BOOLEAN, cached : {-1, 0, 1}]
  BY <1>12, RoutesTyped
<1> QED BY <1>1, <1>9, <1>11, <1>13 DEF Inv, OtherTypes

LEMMA DispatchStep ==
  ASSUME Inv, Dispatch
  PROVE  Inv'
<1>1. /\ up.http = "IDLE" /\ live' = live
      /\ ~(up.streak > 0 /\ up.source # "NONE")
  BY DEF Dispatch, CycleRuns, PopPending
<1>2. PICK l \in Load(node, up.source) :
        /\ l.result = "READY"
        /\ node' = l.node
        /\ route' \in {r \in Routes : ~Held(r)}
        /\ up' = [AfterLoad(up, l) EXCEPT !.http = "CONNECTING", !.edge = FALSE]
  BY DEF Dispatch
<1>3. up \in Upload /\ up.edge = FALSE /\ Sound(node)
  BY <1>1, CycleIdle
<1> DEFINE v == AfterLoad(up, l)
<1>4. /\ Sound(l.node) /\ v \in Upload
      /\ v.streak > 0 /\ v.source # "NONE" => v.stale
      /\ v.source = l.source /\ l.node.buf = FrontOf(l.node, l.source)
  BY <1>1, <1>2, <1>3, LoadGood
<1>5. up' = [v EXCEPT !.http = "CONNECTING", !.edge = FALSE]
  BY <1>2
<1> HIDE DEF v
<1>6. /\ up' \in Upload /\ up'.http = "CONNECTING" /\ up'.edge = FALSE
      /\ up'.source = v.source /\ up'.streak = v.streak /\ up'.stale = v.stale
  BY <1>4, <1>5 DEF Upload
<1>7. Good(node', up')
  BY <1>2, <1>4, <1>6 DEF Good, Owed, SendsFront, Requests
<1>8. route' \in [mode : Mode, local : BOOLEAN, cached : {-1, 0, 1}]
  BY <1>2, RoutesTyped
<1> QED BY <1>1, <1>2, <1>3, <1>4, <1>7, <1>8 DEF Inv, OtherTypes

LEMMA SendSnapshotStep ==
  ASSUME Inv, SendSnapshot
  PROVE  Inv'
<1>1. /\ up.http = "IDLE"
      /\ node' = [node EXCEPT !.buf = node.made]
      /\ up' = [up EXCEPT !.http = "CONNECTING", !.edge = TRUE]
      /\ live' = [pending |-> FALSE, inFlight |-> TRUE] /\ route' = route
  BY DEF SendSnapshot
<1>2. up \in Upload /\ up.edge = FALSE /\ Sound(node) /\ Owed(node, up) /\ up.source \in Source
  BY <1>1, CycleIdle, UploadFields
<1>3. /\ Sound(node') /\ node'.received = node.received
      /\ FrontOf(node', up.source) = FrontOf(node, up.source)
  <2> DEFINE r == node.made
             e == [node EXCEPT !.buf = r]
  <2>1. r \in {NoRecord} \cup Record /\ Shaped(node)
    BY <1>2, Fields, Caps DEF Sound, Shaped, Record, NoRecord
  <2>2. node' = e
    BY <1>1
  <2> HIDE DEF r
  <2>3. /\ KeepsQueue(node, e) /\ Orderly(node, e)
        /\ e.received = node.received /\ e.rtc = node.rtc /\ e.lfs = node.lfs
    BY <2>1, BufKeeps
  <2> HIDE DEF e
  <2> QED BY <1>2, <2>2, <2>3, SoundKept, SameFront
<1>4. /\ up' \in Upload /\ up'.http = "CONNECTING" /\ up'.edge = TRUE
      /\ up'.source = up.source /\ up'.streak = up.streak
      /\ up'.stale = up.stale /\ up'.disturbed = up.disturbed
  BY <1>1, <1>2 DEF Upload
<1>5. Good(node', up')
  BY <1>2, <1>3, <1>4 DEF Good, Owed, SendsFront, Requests
<1> QED BY <1>1, <1>2, <1>3, <1>5 DEF Inv, OtherTypes

LEMMA ForgetSnapshotStep ==
  ASSUME Inv, ForgetSnapshot
  PROVE  Inv'
  BY DEF Inv, OtherTypes, ForgetSnapshot

LEMMA ConnectedStep ==
  ASSUME Inv, Connected
  PROVE  Inv'
<1>1. /\ up.http = "CONNECTING" /\ up' = [up EXCEPT !.http = "SENDING"]
      /\ node' = node /\ route' = route /\ live' = live
  BY DEF Connected
<1>2. up \in Upload /\ Owed(node, up) /\ SendsFront(node, up) /\ Requests(up)
  BY DEF Inv, Good
<1>3. /\ up' \in Upload /\ up'.http = "SENDING" /\ up'.edge = up.edge
      /\ up'.source = up.source /\ up'.streak = up.streak
      /\ up'.stale = up.stale /\ up'.disturbed = up.disturbed
  BY <1>1, <1>2 DEF Upload
<1>4. Good(node', up')
  BY <1>1, <1>2, <1>3 DEF Good, Owed, SendsFront, Requests
<1> QED BY <1>1, <1>3, <1>4 DEF Inv, OtherTypes

LEMMA SentStep ==
  ASSUME Inv, Sent
  PROVE  Inv'
<1>1. /\ up.http = "SENDING" /\ node.buf # NoRecord
      /\ up' = [up EXCEPT !.http = "WAITING", !.sent = node.buf]
      /\ node' = Idle(node) /\ route' = route /\ live' = live
  BY DEF Sent
<1>2. /\ up \in Upload /\ Owed(node, up) /\ SendsFront(node, up) /\ Requests(up) /\ Sound(node)
      /\ up.source \in Source
  BY UploadFields DEF Inv, Good
<1> DEFINE r == node.buf
<1>3. r \in Record
  BY <1>1, <1>2, Fields DEF Sound, Shaped
<1>4. up' = [up EXCEPT !.http = "WAITING", !.sent = r]
  BY <1>1
<1>5. up.disturbed \/ up.edge \/ up.source = "NONE" \/ r = FrontOf(node, up.source)
  BY <1>1, <1>2 DEF SendsFront
<1> HIDE DEF r
<1>6. /\ up' \in Upload /\ up'.http = "WAITING" /\ up'.edge = up.edge /\ up'.sent = r
      /\ up'.source = up.source /\ up'.streak = up.streak
      /\ up'.stale = up.stale /\ up'.disturbed = up.disturbed
  BY <1>2, <1>3, <1>4 DEF Upload
<1>7. /\ Sound(node') /\ node'.received = node.received
      /\ FrontOf(node', up.source) = FrontOf(node, up.source)
  BY <1>1, <1>2, IdleGood
<1>8. Good(node', up')
  BY <1>2, <1>3, <1>5, <1>6, <1>7 DEF Good, Owed, SendsFront, Requests
<1> QED BY <1>1, <1>6, <1>7, <1>8 DEF Inv, OtherTypes

LEMMA RespondingStep ==
  ASSUME Inv, Responding
  PROVE  Inv'
<1>1. /\ up.http = "WAITING" /\ up' = [up EXCEPT !.http = "READING"]
      /\ node' = node /\ route' = route /\ live' = live
  BY DEF Responding
<1>2. up \in Upload /\ Owed(node, up) /\ SendsFront(node, up) /\ Requests(up)
  BY DEF Inv, Good
<1>3. /\ up' \in Upload /\ up'.http = "READING" /\ up'.edge = up.edge /\ up'.sent = up.sent
      /\ up'.source = up.source /\ up'.streak = up.streak
      /\ up'.stale = up.stale /\ up'.disturbed = up.disturbed
  BY <1>1, <1>2 DEF Upload
<1>4. Good(node', up')
  BY <1>1, <1>2, <1>3 DEF Good, Owed, SendsFront, Requests
<1> QED BY <1>1, <1>3, <1>4 DEF Inv, OtherTypes

\* What a server has taken
LEMMA TakenGood ==
  ASSUME Inv, up.sent \in Record
  PROVE  /\ Sound(Taken(node)) /\ Taken(node).received = node.received \cup {up.sent}
         /\ FrontOf(Taken(node), up.source) = FrontOf(node, up.source)
         /\ Owed(Taken(node), up)
<1> DEFINE s == {up.sent}
           e == [node EXCEPT !.received = @ \cup s]
<1>1. Sound(node) /\ Shaped(node) /\ up.source \in Source /\ s \in SUBSET Record /\ Owed(node, up)
  BY UploadFields DEF Inv, Good, Sound
<1>2. Taken(node) = e
  BY DEF Taken, Take
<1> HIDE DEF s
<1>3. /\ KeepsQueue(node, e) /\ Orderly(node, e) /\ e.received = node.received \cup s
      /\ e.rtc = node.rtc /\ e.lfs = node.lfs
  BY <1>1, ReceivedKeeps
<1> HIDE DEF e
<1>4. Sound(e) /\ FrontOf(e, up.source) = FrontOf(node, up.source)
  BY <1>1, <1>3, SoundKept, SameFront
<1>5. Owed(e, up)
  BY <1>1, <1>3, <1>4 DEF Owed
<1> QED BY <1>2, <1>3, <1>4, <1>5 DEF s

LEMMA AcceptedStep ==
  ASSUME Inv, Accepted
  PROVE  Inv'
<1>1. up.http = "READING" /\ ~up.edge /\ live' = live /\ route' = [route EXCEPT !.local = FALSE]
  BY DEF Accepted
<1>2. PICK o \in PopLoaded(Taken(node), up) :
        /\ node' = Idle(o.node)
        /\ up' = [Over(AfterPop(up, o)) EXCEPT !.state = IF o.ok THEN @ ELSE "IDLE"]
  BY DEF Accepted
<1>3. /\ up \in Upload /\ SendsFront(node, up) /\ up.sent \in Record /\ up.edge = FALSE
  BY <1>1, UploadFields DEF Inv, Good, Requests
<1> DEFINE d == Taken(node)
           v == AfterPop(up, o)
           w == Over(v)
<1>4. /\ Sound(d) /\ d.received = node.received \cup {up.sent}
      /\ FrontOf(d, up.source) = FrontOf(node, up.source)
  BY <1>3, TakenGood
<1>5. ~up.stale /\ ~up.disturbed /\ up.source # "NONE" =>
        FrontOf(d, up.source) \in d.received \cup {NoRecord}
  BY <1>1, <1>3, <1>4 DEF SendsFront
<1> HIDE DEF d
<1>6. /\ Sound(o.node) /\ Owed(o.node, v) /\ v \in Upload
  BY <1>2, <1>3, <1>4, <1>5, PopGood DEF d
<1> HIDE DEF v
<1>7. Sound(node') /\ Owed(node', v)
  BY <1>2, <1>6, IdleGood, OwedIdle, UploadFields
<1>8. Good(node', w) /\ w \in Upload
  BY <1>6, <1>7, OverGood DEF Good
<1> DEFINE s == IF o.ok THEN w.state ELSE "IDLE"
<1>9. s \in {"IDLE", "UPLOADING", "PAUSED"}
  BY <1>8, UploadFields
<1>10. up' = [w EXCEPT !.state = s]
  BY <1>2 DEF v
<1> HIDE DEF w, s
<1>11. up' \in Upload /\ Alike(w, up')
  BY <1>8, <1>9, <1>10, StateSet
<1>12. Good(node', up')
  BY <1>8, <1>11, AlikeGood
<1> QED BY <1>1, <1>3, <1>7, <1>12 DEF Inv, OtherTypes

LEMMA FailedStep ==
  ASSUME Inv, Failed
  PROVE  Inv'
<1>1. /\ ~up.edge /\ up' = [Over(up) EXCEPT !.state = "IDLE"] /\ live' = live
      /\ node' \in {Idle(node)} \cup (IF up.sent # NoRecord THEN {Idle(Taken(node))} ELSE {})
      /\ route' \in {route} \cup (IF route.mode = "AUTO" THEN {[route EXCEPT !.local = TRUE]}
                                 ELSE {})
  BY DEF Failed
<1>2. /\ up \in Upload /\ up.edge = FALSE /\ Sound(node) /\ Owed(node, up)
      /\ up.sent \in {NoRecord} \cup Record
  BY <1>1, UploadFields DEF Inv, Good
<1>3. PICK d : d \in {node, Taken(node)} /\ node' = Idle(d) /\ Sound(d) /\ Owed(d, up)
  <2>1. CASE node' = Idle(node)
    BY <1>2, <2>1
  <2>2. CASE node' # Idle(node)
    BY <1>1, <1>2, <2>2, TakenGood
  <2> QED BY <2>1, <2>2
<1>4. Sound(node') /\ Owed(node', up)
  BY <1>2, <1>3, IdleGood, OwedIdle, UploadFields
<1> DEFINE w == Over(up)
<1>5. Good(node', w) /\ w \in Upload
  BY <1>2, <1>4, OverGood DEF Good
<1>6. up' = [w EXCEPT !.state = "IDLE"]
  BY <1>1
<1> HIDE DEF w
<1>7. up' \in Upload /\ Alike(w, up')
  BY <1>5, <1>6, StateSet
<1>8. Good(node', up')
  BY <1>5, <1>7, AlikeGood
<1>9. route' \in [mode : Mode, local : BOOLEAN, cached : {-1, 0, 1}]
  BY <1>1 DEF Inv, OtherTypes
<1> QED BY <1>1, <1>2, <1>4, <1>8, <1>9 DEF Inv, OtherTypes

LEMMA SnapshotOverStep ==
  ASSUME Inv, SnapshotOver
  PROVE  Inv'
<1>1. /\ up' = Over(up) /\ live' = [live EXCEPT !.inFlight = FALSE]
      /\ node' = Idle(node) /\ route' = route
  BY DEF SnapshotOver
<1>2. up \in Upload /\ Sound(node) /\ Owed(node, up)
  BY DEF Inv, Good
<1>3. Sound(node') /\ Owed(node', up)
  BY <1>1, <1>2, IdleGood, OwedIdle, UploadFields
<1>4. Good(node', up')
  BY <1>1, <1>2, <1>3, OverGood
<1> QED BY <1>1, <1>3, <1>4 DEF Inv, OtherTypes

LEMMA PauseStep ==
  ASSUME Inv, Pause
  PROVE  Inv'
<1>1. up' = [Over(up) EXCEPT !.state = "PAUSED"] /\ node' = node /\ route' = route /\ live' = live
  BY DEF Pause
<1>2. up \in Upload /\ Owed(node, up)
  BY DEF Inv, Good
<1> DEFINE w == Over(up)
<1>3. Good(node, w) /\ w \in Upload
  BY <1>2, OverGood DEF Good
<1>4. up' = [w EXCEPT !.state = "PAUSED"]
  BY <1>1
<1> HIDE DEF w
<1>5. up' \in Upload /\ Alike(w, up') /\ up'.state = "PAUSED"
  BY <1>3, <1>4, StateSet
<1>6. Good(node', up')
  BY <1>1, <1>3, <1>5, AlikeGood
<1> QED BY <1>1, <1>5, <1>6 DEF Inv, OtherTypes

LEMMA SetUploadModeStep ==
  ASSUME Inv, SetUploadMode
  PROVE  Inv'
<1>1. /\ up' = [up EXCEPT !.source = "NONE"] /\ node' = node /\ live' = live
  BY DEF SetUploadMode
<1>2. up \in Upload /\ Requests(up)
  BY DEF Inv, Good
<1>3. /\ up' \in Upload /\ up'.http = up.http /\ up'.edge = up.edge /\ up'.sent = up.sent
      /\ up'.source = "NONE"
  BY <1>1, <1>2 DEF Upload
<1>4. Good(node', up')
  BY <1>2, <1>3 DEF Good, Owed, SendsFront, Requests
<1>5. route' \in [mode : Mode, local : BOOLEAN, cached : {-1, 0, 1}]
  <2>1. PICK m \in Mode :
          route' = [route EXCEPT !.mode = m, !.local = (m = "EDGE") \/ (m = "AUTO" /\ @)]
    BY DEF SetUploadMode
  <2> DEFINE b == (m = "EDGE") \/ (m = "AUTO" /\ route.local)
  <2>2. b \in BOOLEAN
    BY DEF Inv, OtherTypes
  <2>3. route' = [route EXCEPT !.mode = m, !.local = b]
    BY <2>1, Zenon
  <2> HIDE DEF b
  <2> QED BY <2>1, <2>2, <2>3 DEF Inv, OtherTypes
<1> QED BY <1>1, <1>3, <1>4, <1>5 DEF Inv, OtherTypes

LEMMA SaveCacheStep ==
  ASSUME Inv, SaveCache
  PROVE  Inv'
<1>1. node' = [node EXCEPT !.saved = node.lfs] /\ up' = up /\ route' = route /\ live' = live
  BY DEF SaveCache
<1>2. Sound(node) /\ node \in Node /\ node.lfs \in Seq(Record) /\ Good(node, up)
  BY Fields DEF Inv, Sound, Shaped
<1>3. /\ node' \in Node /\ node'.rtc = node.rtc /\ node'.lfs = node.lfs
      /\ node'.emergency = node.emergency /\ node'.saved = node.lfs
      /\ node'.backpressure = node.backpressure /\ node'.made = node.made /\ node'.buf = node.buf
      /\ node'.received = node.received /\ node'.excused = node.excused
      /\ node'.strays = node.strays /\ node'.faults = node.faults
      /\ node'.cooling = node.cooling
  BY <1>1, <1>2 DEF Node
<1>4. Sound(node')
  BY <1>2, <1>3 DEF Sound, Shaped, Kept, Flagged, Accounted, Stored, Ordered
<1>5. FrontOf(node', up.source) = FrontOf(node, up.source)
  BY <1>2, <1>3, SameFront, UploadFields DEF Good
<1>6. Good(node', up')
  BY <1>1, <1>2, <1>3, <1>5, NodeGoesOn
<1> QED BY <1>1, <1>4, <1>6 DEF Inv, OtherTypes

LEMMA NothingToDo ==
  ASSUME NEW d
  PROVE  Good(d, NoUpload) /\ NoUpload.edge = FALSE
<1>1. NoUpload \in Upload /\ NoUpload.http = "IDLE" /\ NoUpload.edge = FALSE /\ NoUpload.streak = 0
  BY Caps DEF NoUpload, Upload
<1>2. Owed(d, NoUpload)
  BY <1>1 DEF Owed
<1> QED BY <1>1, <1>2, IdleHttpGood

LEMMA NothingElse ==
  /\ FirstRoute \in [mode : Mode, local : BOOLEAN, cached : {-1, 0, 1}]
  /\ NoSnapshot \in [pending : BOOLEAN, inFlight : BOOLEAN] /\ NoSnapshot.inFlight = FALSE
  BY DEF FirstRoute, Mode, NoSnapshot

LEMMA ResetStep ==
  ASSUME Inv, Reset
  PROVE  Inv'
<1>1. PICK d \in Hit(node, "reset") :
        node' = [Excuse(d, Range(d.emergency) \cup (Range(d.lfs) \ Range(d.saved)))
                   EXCEPT !.lfs = d.saved, !.emergency = <<>>,
                          !.backpressure = FALSE, !.cooling = FALSE, !.buf = NoRecord]
  BY DEF Reset
<1>2. Sound(d) /\ Shaped(d) /\ d \in Node /\ d.faults # 0
  BY <1>1, HitKeeps, SoundKept DEF Inv, Sound, Shaped
<1>3. /\ d.emergency \in Seq(Record) /\ d.lfs \in Seq(Record) /\ d.saved \in Seq(Record)
      /\ d.excused \subseteq Record
  BY <1>2, Fields
<1> DEFINE lost == Range(d.emergency) \cup (Range(d.lfs) \ Range(d.saved))
           x == d.excused \cup lost
<1>4. x \subseteq Record
  <2>1. Range(d.emergency) \subseteq Record /\ Range(d.lfs) \subseteq Record
    BY <1>3, RangeEquality, ElementOfSeq
  <2> QED BY <1>3, <2>1
<1>5. node' = [[d EXCEPT !.excused = x]
                 EXCEPT !.lfs = d.saved, !.emergency = <<>>,
                        !.backpressure = FALSE, !.cooling = FALSE, !.buf = NoRecord]
  BY <1>1 DEF Excuse
<1> HIDE DEF x
<1>6. /\ node' \in Node /\ node'.rtc = d.rtc /\ node'.lfs = d.saved /\ node'.emergency = <<>>
      /\ node'.saved = d.saved /\ node'.backpressure = FALSE /\ node'.made = d.made
      /\ node'.received = d.received /\ node'.excused = x /\ node'.strays = d.strays
      /\ node'.faults = d.faults
  BY <1>2, <1>3, <1>4, <1>5, Nothing DEF Node
<1>7. Accounted(d) \subseteq Accounted(node')
  BY <1>6, Nothing DEF Accounted, Stored, x
<1>8. Sound(node')
  BY <1>2, <1>6, <1>7, Nothing, Caps DEF Sound, Shaped, Kept, Flagged
<1>9. up' = NoUpload /\ route' = FirstRoute /\ live' = NoSnapshot
  BY DEF Reset
<1> QED BY <1>8, <1>9, NothingToDo, NothingElse DEF Inv, OtherTypes

LEMMA AfterPopAlike ==
  ASSUME NEW u \in Upload, NEW v \in Upload, Alike(u, v), NEW o, o.ok \in BOOLEAN
  PROVE  Alike(AfterPop(u, o), AfterPop(v, o))
<1>1. CASE o.ok
  <2>1. /\ AfterPop(u, o) = [u EXCEPT !.streak = 0, !.source = "NONE", !.stale = FALSE,
                                       !.disturbed = FALSE]
        /\ AfterPop(v, o) = [v EXCEPT !.streak = 0, !.source = "NONE", !.stale = FALSE,
                                       !.disturbed = FALSE]
    BY <1>1 DEF AfterPop
  <2> QED BY <2>1 DEF Upload, Alike
<1>2. CASE ~o.ok
  <2> DEFINE n == IF u.streak < StreakMax THEN u.streak + 1 ELSE u.streak
  <2>1. AfterPop(u, o) = [u EXCEPT !.streak = n] /\ AfterPop(v, o) = [v EXCEPT !.streak = n]
    BY <1>2 DEF AfterPop, Alike
  <2> HIDE DEF n
  <2> QED BY <2>1 DEF Upload, Alike
<1> QED BY <1>1, <1>2

\* Where performImmediateUpload ends after it has loaded l
LEMMA SendGood ==
  ASSUME NEW l, Sound(l.node), NEW u \in Upload, u.http = "IDLE", u.edge = FALSE,
         u.streak > 0 /\ u.source # "NONE" => u.stale,
         u.source = l.source,
         l.node.buf = FrontOf(l.node, l.source), l.node.buf \in Record,
         NEW s \in Send(l, u)
  PROVE  Sound(Idle(s[1])) /\ Good(Idle(s[1]), s[2]) /\ s[2].edge = FALSE
<1> DEFINE done == Served(u)
           got == Take(l.node, l.node.buf)
<1>1. \/ \E n \in {l.node, got}, v \in {u, done} : s = <<n, v>>
      \/ \E o \in PopLoaded(got, u) : s = <<o.node, AfterPop(done, o)>>
  BY DEF Send
<1>2. done \in Upload /\ Alike(u, done)
  BY ServedAlike
<1> HIDE DEF done
<1>3. /\ Sound(got) /\ got.received = l.node.received \cup {l.node.buf}
      /\ FrontOf(got, u.source) = FrontOf(l.node, u.source)
  <2> DEFINE t == {l.node.buf}
  <2>1. t \in SUBSET Record /\ Shaped(l.node) /\ u.source \in Source
    BY UploadFields DEF Sound
  <2> HIDE DEF t
  <2> DEFINE e == [l.node EXCEPT !.received = @ \cup t]
  <2>2. /\ KeepsQueue(l.node, e) /\ Orderly(l.node, e) /\ e.received = l.node.received \cup t
        /\ e.rtc = l.node.rtc /\ e.lfs = l.node.lfs
    BY <2>1, ReceivedKeeps
  <2> HIDE DEF e
  <2>3. Sound(e) /\ FrontOf(e, u.source) = FrontOf(l.node, u.source)
    BY <2>1, <2>2, SoundKept, SameFront
  <2> QED BY <2>2, <2>3 DEF e, t, got, Take
<1> HIDE DEF got
<1>4. ASSUME NEW n \in {l.node, got}, NEW v \in {u, done}
      PROVE  Sound(Idle(n)) /\ Good(Idle(n), v) /\ v.edge = FALSE
  <2>1. /\ v \in Upload /\ v.http = "IDLE" /\ v.edge = FALSE
        /\ v.streak > 0 /\ v.source # "NONE" => v.stale
    BY <1>2, <1>4 DEF Alike
  <2>2. Owed(n, v) /\ Sound(n)
    BY <1>3, <1>4, <2>1 DEF Owed
  <2>3. Owed(Idle(n), v) /\ Sound(Idle(n))
    BY <2>1, <2>2, OwedIdle, IdleGood, UploadFields
  <2> QED BY <2>1, <2>3, IdleHttpGood
<1>5. ASSUME NEW o \in PopLoaded(got, u)
      PROVE  LET v == AfterPop(done, o)
             IN  Sound(Idle(o.node)) /\ Good(Idle(o.node), v) /\ v.edge = FALSE
  <2> DEFINE v == AfterPop(done, o)
             w == AfterPop(u, o)
  <2>1. FrontOf(got, u.source) \in got.received
    BY <1>3
  <2>2. /\ Sound(o.node) /\ Owed(o.node, w) /\ w \in Upload /\ w.http = u.http
        /\ w.edge = u.edge /\ o.ok \in BOOLEAN
    BY <1>3, <1>5, <2>1, PopGood
  <2>3. v \in Upload /\ Alike(w, v)
    BY <1>2, <2>2, AfterPopFields, AfterPopAlike
  <2> HIDE DEF v, w
  <2>4. Sound(o.node) /\ Owed(o.node, v) /\ v \in Upload
    BY <2>2, <2>3 DEF Alike, Owed
  <2>5. v.http = "IDLE" /\ v.edge = FALSE
    BY <2>2, <2>3 DEF Alike
  <2>6. Sound(Idle(o.node)) /\ Owed(Idle(o.node), v)
    BY <2>4, IdleGood, OwedIdle, UploadFields
  <2>7. Good(Idle(o.node), v)
    BY <2>4, <2>5, <2>6, IdleHttpGood
  <2> QED BY <2>5, <2>6, <2>7 DEF v
<1>6. CASE \E n \in {l.node, got}, v \in {u, done} : s = <<n, v>>
  <2>1. PICK n \in {l.node, got}, v \in {u, done} : s = <<n, v>>
    BY <1>6
  <2>2. Sound(Idle(n)) /\ Good(Idle(n), v) /\ v.edge = FALSE
    BY <1>4
  <2>3. s[1] = n /\ s[2] = v
    BY <2>1
  <2> QED BY <2>2, <2>3
<1>7. CASE \E o \in PopLoaded(got, u) : s = <<o.node, AfterPop(done, o)>>
  <2>1. PICK o \in PopLoaded(got, u) : s = <<o.node, AfterPop(done, o)>>
    BY <1>7
  <2>2. s[1] = o.node /\ s[2] = AfterPop(done, o)
    BY <2>1
  <2> QED BY <1>5, <2>2
<1> QED BY <1>1, <1>6, <1>7

LEMMA ImmediateUploadStep ==
  ASSUME Inv, ImmediateUpload
  PROVE  Inv'
<1>1. up.http = "IDLE" /\ ~(up.streak > 0 /\ up.source # "NONE") /\ route' = route
  BY DEF ImmediateUpload, ImmediateRuns, PopPending
<1>2. PICK d \in Ingest : \E l \in Load(d, up.source) :
        /\ \E s \in IF l.result = "READY" THEN Send(l, AfterLoad(up, l))
                    ELSE {<<l.node, Served(AfterLoad(up, l))>>} :
             node' = Idle(s[1]) /\ up' = s[2]
        /\ SnapshotOf(d)
  BY DEF ImmediateUpload
<1>3. PICK l \in Load(d, up.source) :
        /\ \E s \in IF l.result = "READY" THEN Send(l, AfterLoad(up, l))
                    ELSE {<<l.node, Served(AfterLoad(up, l))>>} :
             node' = Idle(s[1]) /\ up' = s[2]
        /\ SnapshotOf(d)
  BY <1>2
<1> DEFINE u == AfterLoad(up, l)
<1>4. PICK s \in IF l.result = "READY" THEN Send(l, u)
                 ELSE {<<l.node, Served(u)>>} :
        node' = Idle(s[1]) /\ up' = s[2]
  BY <1>3
<1>5. up \in Upload /\ up.edge = FALSE /\ Sound(node)
  BY <1>1, CycleIdle
<1>6. Sound(d)
  BY <1>5, IngestKeeps
<1>7. /\ Sound(l.node) /\ u \in Upload /\ u.http = up.http /\ u.edge = up.edge
      /\ u.streak > 0 /\ u.source # "NONE" => u.stale
      /\ l.result = "READY" => /\ u.source = l.source
                               /\ l.node.buf = FrontOf(l.node, l.source)
                               /\ l.node.buf \in Record
  BY <1>1, <1>5, <1>6, LoadGood
<1> HIDE DEF u
<1>8. Sound(node') /\ Good(node', up') /\ up'.edge = FALSE
  <2>1. CASE l.result = "READY"
    <3>1. s \in Send(l, u)
      BY <1>4, <2>1
    <3> QED BY <1>1, <1>4, <1>5, <1>7, <2>1, <3>1, SendGood
  <2>2. CASE l.result # "READY"
    <3> DEFINE v == Served(u)
    <3>1. node' = Idle(l.node) /\ up' = v
      BY <1>4, <2>2
    <3>2. v \in Upload /\ Alike(u, v)
      BY <1>7, ServedAlike
    <3> HIDE DEF v
    <3>3. /\ v.http = "IDLE" /\ v.edge = FALSE
          /\ v.streak > 0 /\ v.source # "NONE" => v.stale
      BY <1>1, <1>5, <1>7, <3>2 DEF Alike
    <3>4. Owed(Idle(l.node), v)
      BY <3>3 DEF Owed
    <3>5. Sound(Idle(l.node))
      BY <1>7, <3>2, IdleGood, UploadFields
    <3>6. Good(Idle(l.node), v)
      BY <3>2, <3>3, <3>4, IdleHttpGood
    <3> QED BY <3>1, <3>3, <3>5, <3>6
  <2> QED BY <2>1, <2>2
<1>9. OtherTypes'
  <2> DEFINE b == live.pending \/ d.made # node.made
  <2>1. b \in BOOLEAN
    BY DEF Inv, OtherTypes
  <2>2. live' = [live EXCEPT !.pending = b]
    BY <1>3, Zenon DEF SnapshotOf
  <2> HIDE DEF b
  <2> QED BY <1>1, <2>1, <2>2 DEF Inv, OtherTypes
<1> QED BY <1>5, <1>8, <1>9 DEF Inv

-----------------------------------------------------------------------------
(* The theorems.                                                           *)

LEMMA InitInv == Init => Inv
<1> SUFFICES ASSUME Init PROVE Inv
  OBVIOUS
<1>1. /\ node.rtc = <<>> /\ node.lfs = <<>> /\ node.emergency = <<>> /\ node.saved = <<>>
      /\ node.backpressure = FALSE /\ ~node.cooling /\ node.made = 0 /\ node \in Node
  BY Nothing, Caps DEF Init, Node
<1>2. Sound(node)
  BY <1>1, Nothing, NothingAscends, Caps DEF Sound, Shaped, Kept, Flagged, Ordered
<1>3. up = NoUpload /\ route = FirstRoute /\ live = NoSnapshot
  BY DEF Init
<1> QED BY <1>2, <1>3, NothingToDo, NothingElse DEF Inv, OtherTypes

LEMMA NextInv == Inv /\ [Next]_vars => Inv'
<1> SUFFICES ASSUME Inv, [Next]_vars PROVE Inv'
  OBVIOUS
<1>1. CASE CreateRecord
  BY <1>1, CreateRecordStep
<1>2. CASE SendNow
  BY <1>2, SendNowStep
<1>3. CASE StartCycle \/ WifiLost \/ Resume
  BY <1>3, StateStep
<1>4. CASE CycleDeferred
  BY <1>4, CycleDeferredStep
<1>5. CASE RecoverPop
  BY <1>5, RecoverPopStep
<1>6. CASE CycleEnds
  BY <1>6, CycleEndsStep
<1>7. CASE Dispatch
  BY <1>7, DispatchStep
<1>8. CASE SendSnapshot
  BY <1>8, SendSnapshotStep
<1>9. CASE ForgetSnapshot
  BY <1>9, ForgetSnapshotStep
<1>10. CASE Connected
  BY <1>10, ConnectedStep
<1>11. CASE Sent
  BY <1>11, SentStep
<1>12. CASE Responding
  BY <1>12, RespondingStep
<1>13. CASE Accepted
  BY <1>13, AcceptedStep
<1>14. CASE Failed
  BY <1>14, FailedStep
<1>15. CASE SnapshotOver
  BY <1>15, SnapshotOverStep
<1>16. CASE ImmediateRefused
  BY <1>16, ImmediateRefusedStep
<1>17. CASE ImmediateRecoverPop
  BY <1>17, ImmediateRecoverPopStep
<1>18. CASE ImmediateUpload
  BY <1>18, ImmediateUploadStep
<1>19. CASE SetUploadMode
  BY <1>19, SetUploadModeStep
<1>20. CASE Pause
  BY <1>20, PauseStep
<1>21. CASE SaveCache
  BY <1>21, SaveCacheStep
<1>22. CASE Reset
  BY <1>22, ResetStep
<1>23. CASE UNCHANGED vars
  BY <1>23 DEF vars, Inv, OtherTypes
<1> QED BY <1>1, <1>2, <1>3, <1>4, <1>5, <1>6, <1>7, <1>8, <1>9, <1>10, <1>11, <1>12, <1>13,
           <1>14, <1>15, <1>16, <1>17, <1>18, <1>19, <1>20, <1>21, <1>22, <1>23 DEF Next

\* The strengthened invariant holds of every run: what is out, what is owed and
\* where every record is. (ApiClient as a whole)
THEOREM NodeInvariant == Spec => []Inv
  BY InitInv, NextInv, PTL DEF Spec

\* However large the queues and however often calls fail, the device resets or
\* commands come in: the queues keep within their capacities, and the node
\* reports backpressure exactly while the emergency queue is full.
\* (updateEmergencyBackpressureState and every path to it)
THEOREM NodeCoherent == Spec => []Coherent
<1>1. Inv => Coherent
  BY UploadFields DEF Inv, Sound, Shaped, Flagged, Good, OtherTypes, Coherent, TypeOK,
                      BackpressureMeansFull
<1> QED BY NodeInvariant, <1>1, PTL

\* No record is lost but by the hazards the model names: a full LittleFS, a
\* damaged front, a reset, and a pop after the upload of another record.
\* (createAndCachePayload, flushRtcToLittleFs, drainEmergencyQueueToStorage,
\* popLoadedRecord)
THEOREM RecordsAccountedFor == Spec => []NoOtherDrop
<1>1. Inv => NoOtherDrop
  BY DEF Inv, Sound, Kept, Accounted, NoOtherDrop
<1> QED BY NodeInvariant, <1>1, PTL

\* A pop that is still owed is owed for a record that a server has, but after an
\* ingest or a mode command got in between. (recoverPendingQueuePop)
THEOREM OwedPopsReceived == Spec => []PopIsOwed
<1>1. Inv => PopIsOwed
  BY DEF Inv, Good, Owed, PopIsOwed, PopPending
<1> QED BY NodeInvariant, <1>1, PTL

\* As long as no call has failed, what is in LittleFS is older than what is in
\* RTC memory, both in the order of the measurements: a full RTC ring is flushed
\* as a whole before it takes another record. (createAndCachePayload,
\* flushRtcToLittleFs, persistEmergencyRecord)
THEOREM OldestStayInFlash == Spec => []OldestInFlash
<1>1. Inv => OldestInFlash
  <2>1. SUFFICES ASSUME Inv, node.faults = 0 PROVE Ascending(node.lfs \o node.rtc)
    BY DEF OldestInFlash
  <2>2. node.lfs \in Seq(Record) /\ node.rtc \in Seq(Record) /\ Ordered(node)
    BY <2>1, Fields DEF Inv, Sound, Shaped
  <2> QED BY <2>2, AscendingConcat DEF Ordered
<1> QED BY NodeInvariant, <1>1, PTL
=============================================================================
