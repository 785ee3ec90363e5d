--------------------------- MODULE RtcRing_proofs ---------------------------
(***************************************************************************)
(* Proofs about RtcRing for every number of slots and sequence numbers and *)
(* every set of faults: the block in RTC memory is well formed and its     *)
(* header consistent whenever it checks; unless a reset cut a write short, *)
(* no slot outside the used ones holds a readable record; and no call      *)
(* loses more than one record.                                             *)
(*                                                                         *)
(* The invariant speaks of one block. Each operator that builds a block    *)
(* has a lemma saying that the new block satisfies it, the lemmas on       *)
(* LoadAndHeal collect them for every outcome of healing, and the theorems *)
(* follow from one step per call.                                          *)
(***************************************************************************)
EXTENDS RtcRing, FiniteSetTheorems, TLAPS

\* What every block in memory satisfies, also one torn by a reset.
Shaped(b) == b \in Block /\ Consistent(b)

\* What a block that no reset tore satisfies besides.
Good(b) ==
  /\ Shaped(b)
  /\ ~tainted => NoRemains(b)

\* What the copy satisfies that a call goes on to work with.
Healed(b) == Good(b) /\ b.layout = "v2"

GoodOutcome(o) ==
  /\ o.hit \in BOOLEAN
  /\ Shaped(o.mem)
  /\ o.status # "RESET" => Good(o.mem)
  /\ ~Stopped(o) => Healed(o.data)

\* What a step keeps.
Kept ==
  /\ Shaped(rtc')
  /\ ~tainted' => NoRemains(rtc')
  /\ faults' \in 0 .. MaxFaults
  /\ tainted' \in BOOLEAN

\* Indices wrap around once.
LEMMA Wrap ==
  ASSUME NEW x \in 0 .. 2 * Slots - 1
  PROVE  x % Slots = (IF x < Slots THEN x ELSE x - Slots)
  BY RtcAssumption

LEMMA WrapSeq ==
  ASSUME NEW x \in Nat
  PROVE  x % SeqSpace \in SeqNr
  BY RtcAssumption DEF SeqNr

LEMMA BlankType == Blank \in Slot
  BY RtcAssumption DEF Blank, Slot, SeqNr, Garbage

LEMMA FreshHealed == Healed(Fresh)
  BY RtcAssumption, BlankType
  DEF Healed, Good, Shaped, Fresh, Block, Index, SeqNr, Consistent, NoRemains, InUse, Blank

-----------------------------------------------------------------------------
(* Writing. *)

LEMMA TornShaped ==
  ASSUME NEW old, Good(old), NEW new, Healed(new), NEW t \in Torn(old, new)
  PROVE  Shaped(t)
<1>1. CASE t = [old EXCEPT !.layout = "bad"]
  BY <1>1 DEF Good, Shaped, Block, Consistent
<1>2. ASSUME NEW cut \in Index, NEW mid \in BOOLEAN,
             t = [new EXCEPT !.rec = [i \in Index |->
                    IF i < cut \/ new.rec[i] = old.rec[i] THEN new.rec[i]
                    ELSE IF i = cut /\ mid THEN Blank ELSE old.rec[i]]]
      PROVE  Shaped(t)
  <2>1. t.rec \in [Index -> Slot]
    BY <1>2, BlankType DEF Good, Shaped, Healed, Block
  <2>2. t \in Block
    BY <1>2, <2>1 DEF Good, Shaped, Healed, Block
  <2> QED
    BY <1>2, <2>2 DEF Good, Shaped, Healed, Block, Consistent
<1> QED
  BY <1>1, <1>2 DEF Torn

LEMMA FinishGood ==
  ASSUME NEW status, NEW old, Good(old), NEW new, Healed(new),
         NEW hit \in BOOLEAN, NEW o \in Finish(status, old, new, hit)
  PROVE  GoodOutcome(o)
<1>1. PICK w \in Write(old, new) :
        o = Outcome(CASE w.done = "ok" -> status
                      [] w.done = "failed" -> "FILE_READ_ERROR"
                      [] w.done = "reset" -> "RESET",
                    new, w.mem, hit \/ w.done # "ok")
  BY DEF Finish
<1>2. w.done \in {"ok", "failed", "reset"}
  BY DEF Write
<1>3. Shaped(w.mem) /\ (w.done # "reset" => Good(w.mem))
  <2>1. CASE w.mem = new BY <2>1 DEF Healed, Good, Shaped
  <2>2. CASE w.mem = old BY <2>2 DEF Good, Shaped
  <2>3. CASE w.done = "reset" /\ w.mem \in Torn(old, new) BY <2>3, TornShaped
  <2> QED BY <2>1, <2>2, <2>3 DEF Write
<1>4. /\ o.data = new /\ o.mem = w.mem /\ o.hit \in BOOLEAN
      /\ w.done = "reset" => o.status = "RESET"
  BY <1>1 DEF Outcome
<1> QED
  BY <1>3, <1>4 DEF GoodOutcome

-----------------------------------------------------------------------------
(* Healing. *)

LEMMA BlockFields ==
  ASSUME NEW b \in Block
  PROVE  /\ b.head \in 0 .. Slots - 1
         /\ b.tail \in 0 .. Slots - 1
         /\ b.count \in 0 .. Slots
         /\ b.nextSeq \in SeqNr
         /\ b.rec \in [Index -> Slot]
         /\ b.layout \in {"v2", "v1", "bad"}
         /\ Slots \in Nat \ {0}
  BY RtcAssumption DEF Block, Index

\* A slot in use is at some distance from the tail.
LEMMA Distance ==
  ASSUME NEW b \in Block, NEW s \in Index, InUse(b, s)
  PROVE  \E i \in 0 .. b.count - 1 :
           /\ (b.tail + i) % Slots = s
           /\ i = s - b.tail \/ i = s - b.tail + Slots
<1>0. /\ b.tail \in 0 .. Slots - 1 /\ b.count \in 0 .. Slots
      /\ s \in 0 .. Slots - 1 /\ Slots \in Nat \ {0}
  BY BlockFields DEF Index
<1>1. CASE b.tail <= s
  <2>1. s - b.tail \in 0 .. b.count - 1 /\ s \in 0 .. 2 * Slots - 1
    BY <1>0, <1>1 DEF InUse
  <2>2. s % Slots = s
    BY <2>1, BlockFields, Wrap DEF Index
  <2>3. b.tail + (s - b.tail) = s
    BY BlockFields DEF Index
  <2> QED BY <2>1, <2>2, <2>3
<1>2. CASE s < b.tail
  <2>1. s - b.tail + Slots \in 0 .. b.count - 1 /\ s + Slots \in 0 .. 2 * Slots - 1
    <3>1. ~(b.tail + b.count <= Slots) /\ s < b.tail + b.count - Slots
      BY <1>0, <1>2 DEF InUse
    <3> QED BY <1>0, <1>2, <3>1
  <2>2. (s + Slots) % Slots = s
    <3>1. s + Slots >= Slots /\ (s + Slots) - Slots = s
      BY BlockFields DEF Index
    <3> QED BY <2>1, <3>1, Wrap, BlockFields
  <2>3. b.tail + (s - b.tail + Slots) = s + Slots
    BY BlockFields DEF Index
  <2> QED BY <2>1, <2>2, <2>3
<1> QED
  BY <1>0, <1>1, <1>2

LEMMA DropFrontShaped ==
  ASSUME NEW b \in Block, b.layout = "v2", Consistent(b), NEW k \in 0 .. b.count
  PROVE  LET d == DropFront(b, k)
         IN d \in Block /\ d.layout = "v2" /\ Consistent(d) /\ d.rec = b.rec
<1> DEFINE d == DropFront(b, k)
<1>1. /\ b.tail \in 0 .. Slots - 1 /\ b.count \in 0 .. Slots
      /\ Slots \in Nat \ {0} /\ k \in Nat
  BY BlockFields
<1>2. CASE k = b.count
  <2>1. d = [b EXCEPT !.head = 0, !.tail = 0, !.count = 0]
    BY <1>2 DEF DropFront
  <2>2. d \in Block /\ d.layout = "v2" /\ d.rec = b.rec
        /\ d.head = 0 /\ d.tail = 0 /\ d.count = 0
    <3>1. 0 \in Index /\ 0 \in 0 .. Slots
      BY <1>1 DEF Index
    <3> HIDE DEF d
    <3> QED BY <2>1, <3>1 DEF Block
  <2> QED BY <1>1, <2>2 DEF Consistent
<1>3. CASE k < b.count
  <2> DEFINE x == b.tail + k
             t == IF x < Slots THEN x ELSE x - Slots
  <2>1. d = [b EXCEPT !.tail = t, !.count = b.count - k]
    <3>1. x \in 0 .. 2 * Slots - 1
      BY <1>1, <1>3
    <3>2. x % Slots = t
      <4> HIDE DEF x
      <4> QED BY <3>1, Wrap
    <3>3. k # b.count
      BY <1>1, <1>3
    <3> QED BY <3>2, <3>3 DEF DropFront
  <2>2. t \in 0 .. Slots - 1 /\ b.count - k \in 0 .. Slots
    BY <1>1, <1>3
  <2>3. d \in Block /\ d.layout = "v2" /\ d.rec = b.rec
        /\ d.head = b.head /\ d.tail = t /\ d.count = b.count - k
    BY <2>1, <2>2 DEF Block, Index
  <2>4. Consistent(d)
    BY <1>1, <1>3, <2>3 DEF Consistent
  <2> QED BY <2>3, <2>4
<1> QED BY <1>1, <1>2, <1>3

\* The records of block b that readers can get are still where they were in
\* block c, but for those in the slots S.
Keeps(b, c, S) ==
  \A i \in Index \ S :
    b.rec[i].ok /\ InUse(b, i) => c.rec[i] = b.rec[i] /\ (c.layout = "v2" => InUse(c, i))

\* The slots dropped from the front are damaged: nothing is lost.
LEMMA DropFrontKeeps ==
  ASSUME NEW b \in Block, b.layout = "v2", NEW k \in 0 .. b.count,
         \A i \in 0 .. k - 1 : ~SlotAt(b, i).ok
  PROVE  Keeps(b, DropFront(b, k), {})
<1> DEFINE d == DropFront(b, k)
<1>1. /\ b.tail \in 0 .. Slots - 1 /\ b.count \in 0 .. Slots
      /\ Slots \in Nat \ {0} /\ k \in Nat
  BY BlockFields
<1>2. ASSUME NEW s \in Index, b.rec[s].ok, InUse(b, s)
      PROVE  \E i \in k .. b.count - 1 : i = s - b.tail \/ i = s - b.tail + Slots
  <2>1. PICK i \in 0 .. b.count - 1 : /\ (b.tail + i) % Slots = s
                                      /\ i = s - b.tail \/ i = s - b.tail + Slots
    BY <1>2, Distance
  <2>2. ~(i \in 0 .. k - 1)
    BY <1>2, <2>1 DEF SlotAt
  <2> QED BY <1>1, <2>1, <2>2
<1>3. CASE k = b.count
  BY <1>1, <1>2, <1>3 DEF Keeps
<1>4. CASE k < b.count
  <2> DEFINE x == b.tail + k
             t == IF x < Slots THEN x ELSE x - Slots
  <2>1. x % Slots = t
    <3>1. x \in 0 .. 2 * Slots - 1
      BY <1>1, <1>4
    <3> HIDE DEF x
    <3> QED BY <3>1, Wrap
  <2>2. d = [b EXCEPT !.tail = t, !.count = b.count - k]
    <3>1. k # b.count
      BY <1>1, <1>4
    <3> QED BY <2>1, <3>1 DEF DropFront
  <2>3. d.rec = b.rec /\ d.tail = t /\ d.count = b.count - k
    BY <2>2 DEF Block
  <2>4. ASSUME NEW s \in Index, b.rec[s].ok, InUse(b, s)
        PROVE  InUse(d, s)
    <3>1. s \in 0 .. Slots - 1
      BY DEF Index
    <3>2. PICK i \in k .. b.count - 1 : i = s - b.tail \/ i = s - b.tail + Slots
      BY <1>2, <2>4
    <3> QED BY <1>1, <1>4, <2>3, <2>4, <3>1, <3>2 DEF InUse
  <2> QED BY <2>3, <2>4 DEF Keeps
<1> QED BY <1>1, <1>3, <1>4

LEMMA DropFrontHealed ==
  ASSUME NEW b, Healed(b), NEW k \in 0 .. b.count,
         ~tainted => \A i \in 0 .. k - 1 : ~SlotAt(b, i).ok
  PROVE  Healed(DropFront(b, k))
<1> DEFINE d == DropFront(b, k)
<1>1. b \in Block /\ b.layout = "v2" /\ Consistent(b)
  BY DEF Healed, Good, Shaped
<1>2. d \in Block /\ d.layout = "v2" /\ Consistent(d) /\ d.rec = b.rec
  BY <1>1, DropFrontShaped
<1>3. ~tainted => Keeps(b, d, {})
  BY <1>1, DropFrontKeeps
<1> HIDE DEF d
<1>4. ASSUME ~tainted PROVE NoRemains(d)
  BY <1>1, <1>2, <1>3, <1>4 DEF NoRemains, Keeps, Healed, Good, Shaped
<1> QED BY <1>2, <1>4 DEF Healed, Good, Shaped, d

LEMMA SanitizeGood ==
  ASSUME NEW b, Healed(b), NEW o \in Sanitize(b)
  PROVE  GoodOutcome(o)
<1>1. PICK k \in FrontHoles(b) : o \in SanitizeInto(b, DropFront(b, k))
  BY DEF Sanitize
<1> DEFINE d == DropFront(b, k)
<1>2. Healed(d)
  BY DropFrontHealed DEF FrontHoles
<1>3. PICK status : o \in (IF d = b THEN {Outcome(status, b, b, FALSE)}
                           ELSE Finish(status, b, d, FALSE))
  BY <1>1 DEF SanitizeInto
<1> HIDE DEF d
<1>4. CASE d = b
  <2>1. o = [status |-> status, data |-> b, mem |-> b, hit |-> FALSE]
    BY <1>3, <1>4 DEF Outcome
  <2> QED BY <2>1 DEF GoodOutcome, Healed, Good
<1>5. CASE d # b
  BY <1>2, <1>3, <1>5, FinishGood DEF Healed
<1> QED BY <1>4, <1>5

LEMMA SalvageCountType ==
  ASSUME NEW b \in Block
  PROVE  SalvageCount(b) \in 0 .. Slots
<1> DEFINE seqs == {b.rec[i].seq : i \in ValidSlots(b)}
           seqOf == [i \in ValidSlots(b) |-> b.rec[i].seq]
<1>1. IsFiniteSet(Index) /\ Cardinality(Index) = Slots
  BY FS_Interval, RtcAssumption DEF Index
<1>2. IsFiniteSet(ValidSlots(b)) /\ Cardinality(ValidSlots(b)) <= Slots
  BY <1>1, FS_Subset DEF ValidSlots
<1>3. seqOf \in Surjection(ValidSlots(b), seqs)
  BY DEF Surjection
<1>4. IsFiniteSet(seqs) /\ Cardinality(seqs) <= Cardinality(ValidSlots(b))
  BY <1>2, <1>3, FS_Surjection
<1>5. Cardinality(seqs) \in Nat /\ Cardinality(ValidSlots(b)) \in Nat
  BY <1>2, <1>4, FS_CardinalityType
<1> QED
  BY <1>2, <1>4, <1>5, RtcAssumption DEF SalvageCount

LEMMA CompactedHealed ==
  ASSUME NEW b \in Block, NEW f \in SalvageOrders(b)
  PROVE  Healed(Compacted(b, f))
<1> DEFINE n == SalvageCount(b)
           c == Compacted(b, f)
<1>1. n \in 0 .. Slots /\ Slots \in Nat \ {0}
  BY SalvageCountType, RtcAssumption
<1>2. f \in [0 .. n - 1 -> ValidSlots(b)]
  <2>1. f \in SalvageChoices(b)
    BY Zenon DEF SalvageOrders
  <2> QED BY <2>1 DEF SalvageChoices
<1>3. \A i \in 0 .. n - 1 : b.rec[f[i]] \in Slot
  BY <1>2, BlockFields DEF ValidSlots
<1> HIDE DEF n
<1>4. n % Slots = (IF n < Slots THEN n ELSE 0)
  <2>1. n \in 0 .. 2 * Slots - 1
    BY <1>1
  <2> QED BY <1>1, <2>1, Wrap
<1>5. (IF n = 0 THEN 0 ELSE (b.rec[f[n - 1]].seq + 1) % SeqSpace) \in SeqNr
  <2>1. CASE n = 0
    BY <2>1, RtcAssumption DEF SeqNr
  <2>2. CASE n # 0
    <3>1. n - 1 \in 0 .. n - 1
      BY <1>1, <2>2
    <3>2. b.rec[f[n - 1]].seq \in SeqNr
      BY <1>3, <3>1 DEF Slot
    <3>3. b.rec[f[n - 1]].seq + 1 \in Nat
      BY <3>2, RtcAssumption DEF SeqNr
    <3> QED BY <2>2, <3>3, WrapSeq
  <2> QED BY <2>1, <2>2
<1>6. [i \in Index |-> IF i < n THEN b.rec[f[i]] ELSE Blank] \in [Index -> Slot]
  BY <1>1, <1>3, BlankType DEF Index
<1>7. /\ c.layout = "v2" /\ c.tail = 0 /\ c.count = n
      /\ c.head = (IF n < Slots THEN n ELSE 0)
      /\ c.rec = [i \in Index |-> IF i < n THEN b.rec[f[i]] ELSE Blank]
  BY <1>4 DEF Compacted, n
<1>8. c \in Block
  <2>1. n % Slots \in Index /\ 0 \in Index
    BY <1>1, <1>4 DEF Index
  <2> QED BY <1>1, <1>5, <1>6, <2>1 DEF Compacted, Block, n
<1> HIDE DEF c
<1>9. Consistent(c)
  BY <1>1, <1>7 DEF Consistent
<1>10. NoRemains(c)
  <2>1. SUFFICES ASSUME NEW i \in Index, c.rec[i].ok
                 PROVE  InUse(c, i)
    BY DEF NoRemains
  <2>2. i < n
    BY <1>7, <2>1 DEF Blank
  <2> QED BY <1>1, <1>7, <2>2 DEF InUse, Index
<1> QED BY <1>7, <1>8, <1>9, <1>10 DEF Healed, Good, Shaped, c

LEMMA SalvageGood ==
  ASSUME NEW b \in Block, NEW mem, Good(mem), NEW hit \in BOOLEAN,
         NEW o \in Salvage(b, mem, hit)
  PROVE  GoodOutcome(o)
<1>0. PICK f \in SalvageOrders(b) :
        \E p \in Finish("CORRUPT_DATA", mem, Compacted(b, f), hit) :
          o \in (IF p.status = "FILE_READ_ERROR"
                THEN Finish("CORRUPT_DATA", p.mem, Fresh, TRUE) ELSE {p})
  BY DEF Salvage
<1>1. PICK p \in Finish("CORRUPT_DATA", mem, Compacted(b, f), hit) :
        o \in (IF p.status = "FILE_READ_ERROR"
              THEN Finish("CORRUPT_DATA", p.mem, Fresh, TRUE) ELSE {p})
  BY <1>0
<1>2. GoodOutcome(p)
  BY CompactedHealed, FinishGood
<1>3. CASE p.status = "FILE_READ_ERROR"
  BY <1>1, <1>2, <1>3, FreshHealed, FinishGood DEF GoodOutcome
<1>4. CASE p.status # "FILE_READ_ERROR"
  BY <1>1, <1>2, <1>4
<1> QED BY <1>3, <1>4

LEMMA MigratedHealed ==
  ASSUME NEW n \in 0 .. Slots
  PROVE  Healed(Migrated(n))
<1> DEFINE m == Migrated(n)
<1>1. Slots \in Nat \ {0}
  BY RtcAssumption
<1>2. n % Slots = (IF n < Slots THEN n ELSE 0)
  <2>1. n \in 0 .. 2 * Slots - 1
    BY <1>1
  <2> QED BY <1>1, <2>1, Wrap
<1>3. \A i \in Index : [ok |-> TRUE, seq |-> i % SeqSpace, val |-> Garbage] \in Slot
  BY <1>1, WrapSeq DEF Slot, Index, Garbage
<1>4. /\ m.layout = "v2" /\ m.tail = 0 /\ m.count = n
      /\ m.head = (IF n < Slots THEN n ELSE 0)
      /\ m.nextSeq = n % SeqSpace
      /\ m.rec = [i \in Index |->
                   IF i < n THEN [ok |-> TRUE, seq |-> i % SeqSpace, val |-> Garbage]
                   ELSE Blank]
  BY <1>2 DEF Migrated, Fresh
<1>5. m \in Block
  <2>1. n % Slots \in Index /\ n % SeqSpace \in SeqNr
    BY <1>1, <1>2, WrapSeq DEF Index
  <2>2. m.rec \in [Index -> Slot]
    BY <1>3, <1>4, BlankType
  <2> QED BY <2>1, <2>2, FreshHealed DEF Migrated, Healed, Good, Shaped, Block
<1> HIDE DEF m
<1>6. Consistent(m)
  BY <1>1, <1>4 DEF Consistent
<1>7. NoRemains(m)
  <2>1. SUFFICES ASSUME NEW i \in Index, m.rec[i].ok
                 PROVE  InUse(m, i)
    BY DEF NoRemains
  <2>2. i < n
    BY <1>4, <2>1 DEF Blank
  <2> QED BY <1>1, <1>4, <2>2 DEF InUse, Index
<1> QED BY <1>4, <1>5, <1>6, <1>7 DEF Healed, Good, Shaped, m

LEMMA LoadAndHealGood ==
  ASSUME NEW b, Good(b), NEW o \in LoadAndHeal(b)
  PROVE  GoodOutcome(o)
<1>0. b \in Block /\ b.layout \in {"v2", "v1", "bad"}
  BY BlockFields DEF Good, Shaped
<1>1. CASE o = Outcome("FILE_READ_ERROR", b, b, TRUE)
  BY <1>1 DEF Outcome, GoodOutcome, Stopped, Good
<1>2. CASE b.layout = "v2" /\ o \in Sanitize(b)
  BY <1>2, SanitizeGood DEF Healed
<1>3. CASE b.layout = "v1" /\ o \in Migrate(b)
  <2>1. PICK p \in Finish("CORRUPT_DATA", b, Migrated(b.count), FALSE) :
          o \in (IF p.status = "FILE_READ_ERROR"
                THEN Salvage(p.data, p.mem, TRUE) ELSE {p})
    BY <1>3 DEF Migrate
  <2>2. Healed(Migrated(b.count))
    BY <1>0, BlockFields, MigratedHealed
  <2>3. GoodOutcome(p)
    BY <2>2, FinishGood
  <2>4. p.data = Migrated(b.count)
    BY DEF Finish, Outcome
  <2>5. CASE p.status = "FILE_READ_ERROR"
    BY <2>1, <2>2, <2>3, <2>4, <2>5, SalvageGood DEF GoodOutcome, Healed, Good, Shaped
  <2>6. CASE p.status # "FILE_READ_ERROR"
    BY <2>1, <2>3, <2>6
  <2> QED BY <2>5, <2>6
<1>4. CASE b.layout = "bad" /\ o \in Salvage(b, b, FALSE)
  BY <1>0, <1>4, SalvageGood
<1> QED
  BY <1>0, <1>1, <1>2, <1>3, <1>4 DEF LoadAndHeal

-----------------------------------------------------------------------------
(* The calls. *)

LEMMA WithNewestHealed ==
  ASSUME NEW b, Healed(b), NEW v \in Nat
  PROVE  Healed(WithNewest(b, v))
<1> DEFINE c == WithNewest(b, v)
           new == [ok |-> TRUE, seq |-> b.nextSeq, val |-> v]
<1>1. b \in Block /\ b.layout = "v2" /\ Consistent(b)
  BY DEF Healed, Good, Shaped
<1>2. /\ b.head \in 0 .. Slots - 1 /\ b.tail \in 0 .. Slots - 1
      /\ b.count \in 0 .. Slots /\ b.nextSeq \in SeqNr
      /\ b.rec \in [Index -> Slot] /\ Slots \in Nat \ {0}
  BY <1>1, BlockFields
<1>3. \A x \in 0 .. Slots - 1 :
        (x + 1) % Slots = (IF x = Slots - 1 THEN 0 ELSE x + 1)
  <2>1. SUFFICES ASSUME NEW x \in 0 .. Slots - 1
                 PROVE  (x + 1) % Slots = (IF x = Slots - 1 THEN 0 ELSE x + 1)
    OBVIOUS
  <2>2. x + 1 \in 0 .. 2 * Slots - 1
    BY <1>2
  <2>3. (x + 1) % Slots = (IF x + 1 < Slots THEN x + 1 ELSE (x + 1) - Slots)
    BY <2>2, Wrap
  <2> QED BY <1>2, <2>3
<1>4. new \in Slot
  BY <1>2 DEF Slot
<1>5. /\ c.layout = "v2"
      /\ c.head = (IF b.head = Slots - 1 THEN 0 ELSE b.head + 1)
      /\ c.tail = (IF b.count >= Slots
                   THEN IF b.tail = Slots - 1 THEN 0 ELSE b.tail + 1
                   ELSE b.tail)
      /\ c.count = (IF b.count >= Slots THEN b.count ELSE b.count + 1)
      /\ c.nextSeq = (b.nextSeq + 1) % SeqSpace
      /\ c.rec = [b.rec EXCEPT ![b.head] = new]
  BY <1>1, <1>2, <1>3 DEF WithNewest, Block
<1>6. c \in Block
  <2>1. c.head \in Index /\ c.tail \in Index /\ c.count \in 0 .. Slots
    BY <1>2, <1>5 DEF Index
  <2>2. c.nextSeq \in SeqNr
    BY <1>2, <1>5, WrapSeq DEF SeqNr
  <2>3. c.rec \in [Index -> Slot]
    BY <1>2, <1>4, <1>5
  <2> QED BY <1>1, <1>5, <2>1, <2>2, <2>3 DEF WithNewest, Block
<1> HIDE DEF c
<1>7. Consistent(c)
  BY <1>1, <1>2, <1>5 DEF Consistent
<1>8. ASSUME ~tainted PROVE NoRemains(c)
  <2>1. SUFFICES ASSUME NEW i \in Index, c.rec[i].ok
                 PROVE  InUse(c, i)
    BY DEF NoRemains
  <2>2. CASE i = b.head
    BY <1>1, <1>2, <1>5, <2>2 DEF InUse, Consistent
  <2>3. CASE i # b.head
    <3>1. b.rec[i].ok
      BY <1>2, <1>5, <2>1, <2>3
    <3>2. InUse(b, i)
      BY <1>1, <1>8, <3>1 DEF Healed, Good, Shaped, NoRemains
    <3>3. i \in 0 .. Slots - 1
      BY DEF Index
    <3> QED BY <1>1, <1>2, <1>5, <2>3, <3>2, <3>3 DEF InUse, Consistent
  <2> QED BY <2>2, <2>3
<1> QED BY <1>5, <1>6, <1>7, <1>8 DEF Healed, Good, Shaped, c

LEMMA WithoutOldestHealed ==
  ASSUME NEW b, Healed(b), b.count > 0
  PROVE  Healed(WithoutOldest(b))
<1> DEFINE c == [b EXCEPT !.rec[b.tail] = Blank]
<1>1. b \in Block /\ b.layout = "v2"
  BY DEF Healed, Good, Shaped
<1>2. /\ b.tail \in 0 .. Slots - 1 /\ b.count \in 0 .. Slots
      /\ b.rec \in [Index -> Slot] /\ Slots \in Nat \ {0}
  BY <1>1, BlockFields
<1>3. /\ c.layout = "v2" /\ c.head = b.head /\ c.tail = b.tail
      /\ c.count = b.count /\ c.rec = [b.rec EXCEPT ![b.tail] = Blank]
  BY <1>1 DEF Block
<1>4. c \in Block
  BY <1>1, <1>2, BlankType DEF Block
<1>5. ~c.rec[b.tail].ok
  BY <1>2, <1>3 DEF Blank, Index
<1> HIDE DEF c
<1>6. Healed(c)
  <2>1. Consistent(c)
    BY <1>3 DEF Consistent, Healed, Good, Shaped
  <2>2. ~tainted => NoRemains(c)
    BY <1>1, <1>2, <1>3, <1>5 DEF NoRemains, InUse, Healed, Good, Shaped
  <2> QED BY <1>3, <1>4, <2>1, <2>2 DEF Healed, Good, Shaped
<1>7. ~SlotAt(c, 0).ok
  <2>1. b.tail \in 0 .. 2 * Slots - 1
    BY <1>2
  <2>2. (c.tail + 0) % Slots = b.tail
    BY <1>2, <1>3, <2>1, Wrap
  <2> QED BY <1>5, <2>2 DEF SlotAt
<1>8. 1 \in 0 .. c.count /\ \A i \in 0 .. 1 - 1 : i = 0
  BY <1>2, <1>3
<1> QED
  BY <1>6, <1>7, <1>8, DropFrontHealed DEF WithoutOldest, c

\* What a call leaves behind.
LEMMA SettleKept ==
  ASSUME TypeOK, NEW o, GoodOutcome(o), Settle(o)
  PROVE  Kept
<1>1. rtc' = o.mem /\ Shaped(rtc')
  BY DEF Settle, GoodOutcome
<1>2. tainted' = (tainted \/ o.status = "RESET") /\ tainted' \in BOOLEAN
  BY DEF Settle, TypeOK
<1>3. ~tainted' => NoRemains(rtc')
  BY <1>1, <1>2 DEF GoodOutcome, Good
<1>4. faults' \in 0 .. MaxFaults
  BY RtcAssumption DEF Settle, GoodOutcome, TypeOK
<1> QED BY <1>1, <1>2, <1>3, <1>4 DEF Kept

\* The inductive invariant.
Inv ==
  /\ TypeOK
  /\ RingShape
  /\ NothingLeftBehind

LEMMA InitInv == Init => Inv
<1> SUFFICES ASSUME Init PROVE Inv
  OBVIOUS
<1>0. /\ appended \in 0 .. MaxAppends /\ faults \in 0 .. MaxFaults
      /\ tainted \in BOOLEAN
  <2>1. appended = 0 /\ faults = 0 /\ tainted \in BOOLEAN
    BY ZenonT(30) DEF Init
  <2> QED BY <2>1, RtcAssumption
<1>1. Healed(Fresh)
  BY FreshHealed
<1>2. CASE rtc = [Fresh EXCEPT !.layout = "bad"]
  <2>1. rtc \in Block /\ rtc.layout = "bad"
    BY <1>1, <1>2 DEF Healed, Good, Shaped, Block
  <2> QED BY <1>0, <2>1
    DEF Inv, TypeOK, RingShape, NothingLeftBehind, Consistent, NoRemains
<1>3. ASSUME NEW n \in LegacyCounts,
             rtc = [Fresh EXCEPT !.layout = "v1",
                                 !.count = IF n < Slots THEN n ELSE Slots]
      PROVE  Inv
  <2>1. (IF n < Slots THEN n ELSE Slots) \in 0 .. Slots
    BY RtcAssumption
  <2>2. rtc \in Block /\ rtc.layout = "v1"
    BY <1>1, <1>3, <2>1 DEF Healed, Good, Shaped, Block
  <2> QED BY <1>0, <2>2
    DEF Inv, TypeOK, RingShape, NothingLeftBehind, Consistent, NoRemains
<1>4. ASSUME NEW s \in SeqNr, rtc = [Fresh EXCEPT !.nextSeq = s]
      PROVE  Inv
  <2>1. rtc \in Block /\ rtc.layout = "v2" /\ rtc.rec = Fresh.rec
        /\ rtc.head = Fresh.head /\ rtc.tail = Fresh.tail /\ rtc.count = Fresh.count
    BY <1>1, <1>4 DEF Healed, Good, Shaped, Block
  <2>2. Consistent(rtc) /\ NoRemains(rtc)
    BY <2>1, RtcAssumption DEF Consistent, NoRemains, Fresh, Blank
  <2> QED BY <1>0, <2>1, <2>2
    DEF Inv, TypeOK, RingShape, NothingLeftBehind
<1> QED BY <1>2, <1>3, <1>4 DEF Init

LEMMA NextInv == Inv /\ [Next]_vars => Inv'
<1> SUFFICES ASSUME Inv, [Next]_vars PROVE Inv'
  OBVIOUS
<1>0. Good(rtc) /\ TypeOK
  BY DEF Inv, TypeOK, RingShape, NothingLeftBehind, Good, Shaped
<1>1. SUFFICES Kept /\ appended' \in 0 .. MaxAppends
  BY DEF Inv, TypeOK, RingShape, NothingLeftBehind, Kept, Shaped
<1>2. CASE AppendRecord
  <2>1. appended' \in 0 .. MaxAppends /\ appended + 1 \in Nat
    BY <1>0, <1>2, RtcAssumption DEF AppendRecord, TypeOK
  <2>2. PICK h \in LoadAndHeal(rtc) :
          \/ Settle(h)
          \/ /\ ~Stopped(h)
             /\ \E o \in Finish("NONE", h.mem, WithNewest(h.data, appended + 1), h.hit) :
                  Settle(o)
    BY <1>2 DEF AppendRecord
  <2>3. GoodOutcome(h)
    BY <1>0, LoadAndHealGood
  <2>4. CASE Settle(h)
    BY <1>0, <2>1, <2>3, <2>4, SettleKept
  <2>5. ASSUME ~Stopped(h),
               NEW o \in Finish("NONE", h.mem, WithNewest(h.data, appended + 1), h.hit),
               Settle(o)
        PROVE  Kept
    <3>1. Healed(WithNewest(h.data, appended + 1))
      BY <2>1, <2>3, <2>5, WithNewestHealed DEF GoodOutcome
    <3>2. Good(h.mem) /\ h.hit \in BOOLEAN
      BY <2>3, <2>5 DEF GoodOutcome, Stopped
    <3>3. GoodOutcome(o)
      BY <2>5, <3>1, <3>2, FinishGood
    <3> QED BY <1>0, <2>5, <3>3, SettleKept
  <2> QED BY <2>1, <2>2, <2>4, <2>5
<1>3. CASE PopRecord
  <2>1. appended' \in 0 .. MaxAppends
    BY <1>0, <1>3 DEF PopRecord, TypeOK
  <2>2. PICK h \in LoadAndHeal(rtc) :
          IF h.status = "NONE" /\ h.data.count > 0
          THEN \E o \in Finish("NONE", h.mem, WithoutOldest(h.data), h.hit) : Settle(o)
          ELSE Settle(h)
    BY <1>3 DEF PopRecord
  <2>3. GoodOutcome(h)
    BY <1>0, LoadAndHealGood
  <2>4. CASE Settle(h)
    BY <1>0, <2>1, <2>3, <2>4, SettleKept
  <2>5. ASSUME h.status = "NONE", h.data.count > 0,
               NEW o \in Finish("NONE", h.mem, WithoutOldest(h.data), h.hit),
               Settle(o)
        PROVE  Kept
    <3>1. Healed(WithoutOldest(h.data))
      BY <2>3, <2>5, WithoutOldestHealed DEF GoodOutcome, Stopped
    <3>2. Good(h.mem) /\ h.hit \in BOOLEAN
      BY <2>3, <2>5 DEF GoodOutcome, Stopped
    <3>3. GoodOutcome(o)
      BY <2>5, <3>1, <3>2, FinishGood
    <3> QED BY <1>0, <2>5, <3>3, SettleKept
  <2> QED BY <2>1, <2>2, <2>4, <2>5
<1>4. CASE Inspect
  <2>1. PICK h \in LoadAndHeal(rtc) : Settle(h)
    BY <1>4 DEF Inspect
  <2>2. GoodOutcome(h)
    BY <1>0, LoadAndHealGood
  <2> QED BY <1>0, <1>4, <2>1, <2>2, SettleKept DEF Inspect, TypeOK
<1>5. CASE Boot
  <2>1. appended' \in 0 .. MaxAppends
    BY <1>0, <1>5 DEF Boot, TypeOK
  <2>2. PICK h \in LoadAndHeal(rtc) :
          IF h.status \in {"CORRUPT_DATA", "SCANNING"}
          THEN \E o \in LoadAndHeal(h.mem) : Settle([o EXCEPT !.hit = @ \/ h.hit])
          ELSE Settle(h)
    BY <1>5 DEF Boot
  <2>3. GoodOutcome(h)
    BY <1>0, LoadAndHealGood
  <2>4. CASE Settle(h)
    BY <1>0, <2>1, <2>3, <2>4, SettleKept
  <2>5. ASSUME h.status \in {"CORRUPT_DATA", "SCANNING"},
               NEW o \in LoadAndHeal(h.mem), Settle([o EXCEPT !.hit = @ \/ h.hit])
        PROVE  Kept
    <3>1. GoodOutcome(o)
      <4>1. Good(h.mem)
        BY <1>0, <2>3, <2>5 DEF GoodOutcome
      <4> QED BY <4>1, LoadAndHealGood
    <3>2. /\ rtc' = o.mem /\ Shaped(rtc')
          /\ tainted' = (tainted \/ o.status = "RESET") /\ tainted' \in BOOLEAN
      BY <1>0, <2>5, <3>1 DEF Settle, GoodOutcome, TypeOK
    <3>3. ~tainted' => NoRemains(rtc')
      BY <3>1, <3>2 DEF GoodOutcome, Good
    <3>4. faults' \in 0 .. MaxFaults
      BY <1>0, <2>3, <2>5, <3>1, RtcAssumption DEF Settle, GoodOutcome, TypeOK
    <3> QED BY <3>2, <3>3, <3>4 DEF Kept
  <2> QED BY <2>1, <2>2, <2>4, <2>5
<1>6. CASE Clear
  <2>1. PICK o \in Finish("NONE", rtc, Fresh, FALSE) : Settle(o)
    BY <1>6 DEF Clear
  <2>2. GoodOutcome(o)
    BY <1>0, FreshHealed, FinishGood
  <2> QED BY <1>0, <1>6, <2>1, <2>2, SettleKept DEF Clear, TypeOK
<1>7. CASE Decay
  <2>1. /\ appended' \in 0 .. MaxAppends /\ faults' \in 0 .. MaxFaults
        /\ tainted' = tainted /\ tainted' \in BOOLEAN
    BY <1>0, <1>7, RtcAssumption DEF Decay, TypeOK
  <2>2. CASE rtc' = [rtc EXCEPT !.layout = "bad"]
    BY <1>0, <2>1, <2>2 DEF Good, Shaped, Block, Consistent, NoRemains, Kept
  <2>3. ASSUME NEW i \in ValidSlots(rtc), rtc' = [rtc EXCEPT !.rec[i] = Blank]
        PROVE  Shaped(rtc') /\ (~tainted => NoRemains(rtc'))
    <3>1. rtc.rec \in [Index -> Slot]
      BY <1>0, BlockFields DEF Good, Shaped
    <3>2. /\ rtc'.layout = rtc.layout /\ rtc'.head = rtc.head
          /\ rtc'.tail = rtc.tail /\ rtc'.count = rtc.count
          /\ rtc'.rec = [rtc.rec EXCEPT ![i] = Blank]
      BY <1>0, <2>3 DEF Good, Shaped, Block
    <3>3. rtc' \in Block
      BY <1>0, <2>3, <3>1, BlankType DEF Good, Shaped, Block
    <3>4. \A j \in Index : rtc'.rec[j].ok => rtc.rec[j].ok
      BY <3>1, <3>2 DEF Blank
    <3> QED BY <1>0, <3>2, <3>3, <3>4 DEF Good, Shaped, Consistent, NoRemains, InUse
  <2> QED BY <1>7, <2>1, <2>2, <2>3 DEF Decay, Kept
<1>8. CASE PowerLoss
  <2> DEFINE blank == [Fresh EXCEPT !.layout = "bad"]
  <2>1. Shaped(blank) /\ NoRemains(blank)
    BY FreshHealed DEF Healed, Good, Shaped, Block, Consistent, NoRemains
  <2> HIDE DEF blank
  <2>2. rtc' = blank /\ tainted' = FALSE
    BY <1>8 DEF PowerLoss, blank
  <2>3. appended' \in 0 .. MaxAppends /\ faults' \in 0 .. MaxFaults
    BY <1>0, <1>8, RtcAssumption DEF PowerLoss, TypeOK
  <2> QED BY <2>1, <2>2, <2>3 DEF Kept
<1>9. CASE UNCHANGED vars
  BY <1>0, <1>9 DEF vars, TypeOK, Kept, Good
<1> QED
  BY <1>2, <1>3, <1>4, <1>5, <1>6, <1>7, <1>8, <1>9 DEF Next

\* The block in RTC memory is always one that the code could have written or
\* that decayed from one, and the counters stay within their bounds.
THEOREM TypeCorrect == Spec => []TypeOK
<1>1. Inv => TypeOK
  BY DEF Inv
<1> QED BY InitInv, NextInv, <1>1, PTL DEF Spec

\* A header that checks is consistent: append always writes onto the slot that
\* follows the newest record, whatever failed or was cut short before.
THEOREM RingStaysConsistent == Spec => []RingShape
<1>1. Inv => RingShape
  BY DEF Inv
<1> QED BY InitInv, NextInv, <1>1, PTL DEF Spec

\* As long as no reset cut a write short, salvage after a lost header can only
\* find records that were still waiting to be uploaded.
THEOREM NothingToResurrect == Spec => []NothingLeftBehind
<1>1. Inv => NothingLeftBehind
  BY DEF Inv
<1> QED BY InitInv, NextInv, <1>1, PTL DEF Spec

-----------------------------------------------------------------------------
(* What a call may lose *)

LEMMA KeepsTwice ==
  ASSUME NEW b, NEW c, NEW d, NEW S, c.layout = "v2", Keeps(b, c, {}), Keeps(c, d, S)
  PROVE  Keeps(b, d, S)
BY DEF Keeps

\* With one slot excepted, at most one record is lost.
LEMMA OneIsLost ==
  ASSUME NEW b, b.layout = "v2", NEW c, NEW j, Keeps(b, c, {j})
  PROVE  ~(Cardinality(Held(b) \ Held(c)) > 1)
<1>1. Held(b) \ Held(c) \subseteq {b.rec[j].val}
  <2>1. SUFFICES ASSUME NEW v \in Held(b), v # b.rec[j].val
                 PROVE  v \in Held(c)
    OBVIOUS
  <2>2. PICK i \in Index : b.rec[i].ok /\ InUse(b, i) /\ v = b.rec[i].val
    BY DEF Held, ValidSlots
  <2>3. c.rec[i] = b.rec[i] /\ (c.layout = "v2" => InUse(c, i))
    BY <2>1, <2>2 DEF Keeps
  <2> QED BY <2>2, <2>3 DEF Held, ValidSlots
<1>2. IsFiniteSet({b.rec[j].val}) /\ Cardinality({b.rec[j].val}) = 1
  BY FS_Singleton
<1>3. IsFiniteSet(Held(b) \ Held(c)) /\ Cardinality(Held(b) \ Held(c)) <= 1
  BY <1>1, <1>2, FS_Subset
<1>4. Cardinality(Held(b) \ Held(c)) \in Nat
  BY <1>3, FS_CardinalityType
<1> QED BY <1>3, <1>4

\* A write loses what the new block has not, whether it succeeds, fails, or is
\* cut short.
LEMMA FinishKeeps ==
  ASSUME NEW old \in Block, NEW new \in Block, NEW S, Keeps(old, new, S),
         NEW status, NEW hit \in BOOLEAN, NEW o \in Finish(status, old, new, hit)
  PROVE  Keeps(old, o.mem, S)
<1>1. PICK w \in Write(old, new) : o.mem = w.mem
  BY DEF Finish, Outcome
<1>2. CASE w.mem = new
  BY <1>1, <1>2
<1>3. CASE w.mem = old
  BY <1>1, <1>3 DEF Keeps
<1>4. CASE w.mem = [old EXCEPT !.layout = "bad"]
  BY <1>1, <1>4 DEF Keeps, Block
<1>5. ASSUME NEW cut \in Index, NEW mid \in BOOLEAN,
             w.mem = [new EXCEPT !.rec = [i \in Index |->
                       IF i < cut \/ new.rec[i] = old.rec[i] THEN new.rec[i]
                       ELSE IF i = cut /\ mid THEN Blank ELSE old.rec[i]]]
      PROVE  Keeps(old, w.mem, S)
  <2>1. /\ w.mem.layout = new.layout /\ w.mem.tail = new.tail /\ w.mem.count = new.count
        /\ \A i \in Index : new.rec[i] = old.rec[i] => w.mem.rec[i] = new.rec[i]
    BY <1>5 DEF Block
  <2> QED BY <2>1 DEF Keeps, InUse
<1> QED BY <1>1, <1>2, <1>3, <1>4, <1>5 DEF Write, Torn

\* The block written is the one the call has, when nothing went wrong.
LEMMA FinishWrites ==
  ASSUME NEW old, NEW new, NEW status, NEW hit \in BOOLEAN, NEW o \in Finish(status, old, new, hit)
  PROVE  ~Stopped(o) => o.mem = new /\ o.data = new
<1>1. PICK w \in Write(old, new) :
        o = Outcome(CASE w.done = "ok" -> status
                      [] w.done = "failed" -> "FILE_READ_ERROR"
                      [] w.done = "reset" -> "RESET",
                    new, w.mem, hit \/ w.done # "ok")
  BY DEF Finish
<1>2. (w.done = "ok" /\ w.mem = new) \/ w.done \in {"failed", "reset"}
  BY DEF Write
<1> QED BY <1>1, <1>2 DEF Outcome, Stopped

\* A write that failed left the block as it was.
LEMMA FinishFailed ==
  ASSUME NEW old, NEW new, NEW status, status # "FILE_READ_ERROR",
         NEW hit \in BOOLEAN, NEW o \in Finish(status, old, new, hit), o.status = "FILE_READ_ERROR"
  PROVE  o.mem = old
<1>1. PICK w \in Write(old, new) :
        o = Outcome(CASE w.done = "ok" -> status
                      [] w.done = "failed" -> "FILE_READ_ERROR"
                      [] w.done = "reset" -> "RESET",
                    new, w.mem, hit \/ w.done # "ok")
  BY DEF Finish
<1>2. (w.done = "failed" /\ w.mem = old) \/ w.done \in {"ok", "reset"}
  BY DEF Write
<1> QED BY <1>1, <1>2 DEF Outcome

\* No write brings the previous layout back.
LEMMA FinishOldLayout ==
  ASSUME NEW old \in Block, NEW new \in Block, new.layout # "v1",
         NEW status, NEW hit \in BOOLEAN, NEW o \in Finish(status, old, new, hit), o.mem.layout = "v1"
  PROVE  o.mem = old
<1>1. PICK w \in Write(old, new) : o.mem = w.mem
  BY DEF Finish, Outcome
<1>2. w.mem = old \/ w.mem = new \/ w.mem \in Torn(old, new)
  BY DEF Write
<1>3. \A t \in Torn(old, new) : t.layout = "bad" \/ t.layout = new.layout
  BY DEF Torn, Block
<1> QED BY <1>1, <1>2, <1>3

\* The new record takes the slot at the head, and nothing else.
LEMMA WithNewestKeeps ==
  ASSUME NEW b, b \in Block, b.layout = "v2", Consistent(b), NEW v
  PROVE  Keeps(b, WithNewest(b, v), {b.head})
<1> DEFINE c == WithNewest(b, v)
           new == [ok |-> TRUE, seq |-> b.nextSeq, val |-> v]
<1>1. /\ b.head \in 0 .. Slots - 1 /\ b.tail \in 0 .. Slots - 1
      /\ b.count \in 0 .. Slots /\ b.rec \in [Index -> Slot] /\ Slots \in Nat \ {0}
  BY BlockFields
<1>2. (b.tail + 1) % Slots = (IF b.tail = Slots - 1 THEN 0 ELSE b.tail + 1)
  <2>1. b.tail + 1 \in 0 .. 2 * Slots - 1
    BY <1>1
  <2>2. (b.tail + 1) % Slots = (IF b.tail + 1 < Slots THEN b.tail + 1 ELSE (b.tail + 1) - Slots)
    BY <2>1, Wrap
  <2> QED BY <1>1, <2>2
<1>3. /\ c.tail = (IF b.count >= Slots
                   THEN IF b.tail = Slots - 1 THEN 0 ELSE b.tail + 1
                   ELSE b.tail)
      /\ c.count = (IF b.count >= Slots THEN b.count ELSE b.count + 1)
      /\ c.rec = [b.rec EXCEPT ![b.head] = new]
  BY <1>1, <1>2 DEF WithNewest, Block
<1> HIDE DEF c
<1>4. ASSUME NEW i \in Index, i # b.head, InUse(b, i)
      PROVE  c.rec[i] = b.rec[i] /\ InUse(c, i)
  <2>1. i \in 0 .. Slots - 1
    BY DEF Index
  <2>2. c.rec[i] = b.rec[i]
    BY <1>1, <1>3, <1>4
  <2>3. InUse(c, i)
    BY <1>1, <1>3, <1>4, <2>1 DEF InUse, Consistent
  <2> QED BY <2>2, <2>3
<1> QED BY <1>4 DEF Keeps, c

\* Popping empties the slot at the tail, and no other.
LEMMA WithoutOldestKeeps ==
  ASSUME NEW b, b \in Block, b.layout = "v2", b.count > 0
  PROVE  Keeps(b, WithoutOldest(b), {b.tail})
<1> DEFINE c == [b EXCEPT !.rec[b.tail] = Blank]
<1>1. /\ b.tail \in 0 .. Slots - 1 /\ b.count \in 0 .. Slots
      /\ b.rec \in [Index -> Slot] /\ Slots \in Nat \ {0}
  BY BlockFields
<1>2. /\ c.layout = "v2" /\ c.tail = b.tail /\ c.count = b.count
      /\ c.rec = [b.rec EXCEPT ![b.tail] = Blank]
  BY DEF Block
<1>3. c \in Block
  BY <1>1, BlankType DEF Block
<1>4. ~SlotAt(c, 0).ok
  <2>1. b.tail \in 0 .. 2 * Slots - 1
    BY <1>1
  <2>2. (c.tail + 0) % Slots = b.tail
    BY <1>1, <1>2, <2>1, Wrap
  <2>3. ~c.rec[b.tail].ok
    BY <1>1, <1>2 DEF Blank, Index
  <2> QED BY <2>2, <2>3 DEF SlotAt
<1>5. Keeps(b, c, {b.tail})
  BY <1>1, <1>2 DEF Keeps, InUse
<1> HIDE DEF c
<1>6. Keeps(c, DropFront(c, 1), {})
  <2>1. 1 \in 0 .. c.count /\ \A i \in 0 .. 1 - 1 : i = 0
    BY <1>1, <1>2
  <2> QED BY <1>2, <1>3, <1>4, <2>1, DropFrontKeeps
<1>7. Keeps(b, DropFront(c, 1), {b.tail})
  BY <1>2, <1>5, <1>6 DEF Keeps
<1> QED BY <1>7 DEF WithoutOldest, c

\* Healing a block whose header checks loses nothing, and the call goes on with
\* what it left in memory.
LEMMA HealingKeeps ==
  ASSUME NEW b \in Block, b.layout = "v2", Consistent(b), NEW o \in LoadAndHeal(b)
  PROVE  /\ Keeps(b, o.mem, {})
         /\ ~Stopped(o) => /\ o.mem \in Block /\ o.mem.layout = "v2" /\ Consistent(o.mem)
                           /\ o.data = o.mem
<1>1. CASE o = Outcome("FILE_READ_ERROR", b, b, TRUE)
  BY <1>1 DEF Outcome, Stopped, Keeps
<1>2. ASSUME NEW k \in FrontHoles(b), o \in SanitizeInto(b, DropFront(b, k))
      PROVE  /\ Keeps(b, o.mem, {})
             /\ ~Stopped(o) => /\ o.mem \in Block /\ o.mem.layout = "v2" /\ Consistent(o.mem)
                               /\ o.data = o.mem
  <2> DEFINE d == DropFront(b, k)
  <2>1. k \in 0 .. b.count /\ \A i \in 0 .. k - 1 : ~SlotAt(b, i).ok
    BY DEF FrontHoles
  <2>2. d \in Block /\ d.layout = "v2" /\ Consistent(d)
    BY <2>1, DropFrontShaped
  <2>3. Keeps(b, d, {})
    BY <2>1, DropFrontKeeps
  <2>4. PICK status : o \in (IF d = b THEN {Outcome(status, b, b, FALSE)}
                             ELSE Finish(status, b, d, FALSE))
    BY <1>2 DEF SanitizeInto
  <2> HIDE DEF d
  <2>5. CASE d = b
    BY <2>4, <2>5 DEF Outcome, Keeps
  <2>6. CASE d # b
    <3>1. o \in Finish(status, b, d, FALSE)
      BY <2>4, <2>6
    <3>2. Keeps(b, o.mem, {})
      BY <2>2, <2>3, <3>1, FinishKeeps
    <3>3. ~Stopped(o) => o.mem = d /\ o.data = d
      BY <3>1, FinishWrites
    <3> QED BY <2>2, <3>2, <3>3
  <2> QED BY <2>5, <2>6
<1> QED BY <1>1, <1>2 DEF LoadAndHeal, Sanitize

\* A block of the previous layout stays only where it is not touched at all.
LEMMA OldLayoutUntouched ==
  ASSUME NEW b \in Block, Consistent(b), NEW o \in LoadAndHeal(b), o.mem.layout = "v1"
  PROVE  o.mem = b
<1>1. CASE o = Outcome("FILE_READ_ERROR", b, b, TRUE)
  BY <1>1 DEF Outcome
<1>2. ASSUME NEW c \in Block, NEW mem \in Block, NEW hit \in BOOLEAN, NEW p \in Salvage(c, mem, hit), p.mem.layout = "v1"
      PROVE  p.mem = mem
  <2>0. PICK f \in SalvageOrders(c) :
          \E q \in Finish("CORRUPT_DATA", mem, Compacted(c, f), hit) :
            p \in (IF q.status = "FILE_READ_ERROR"
                   THEN Finish("CORRUPT_DATA", q.mem, Fresh, TRUE) ELSE {q})
    BY <1>2 DEF Salvage
  <2>1. PICK q \in Finish("CORRUPT_DATA", mem, Compacted(c, f), hit) :
          p \in (IF q.status = "FILE_READ_ERROR"
                 THEN Finish("CORRUPT_DATA", q.mem, Fresh, TRUE) ELSE {q})
    BY <2>0
  <2>2. /\ Compacted(c, f) \in Block /\ Compacted(c, f).layout # "v1"
        /\ Fresh \in Block /\ Fresh.layout # "v1"
    BY CompactedHealed, FreshHealed DEF Healed, Good, Shaped
  <2>3. q.mem.layout = "v1" => q.mem = mem
    BY <2>2, FinishOldLayout
  <2>4. CASE q.status = "FILE_READ_ERROR"
    <3>1. q.mem = mem
      BY <2>1, <2>4, FinishFailed
    <3>2. p \in Finish("CORRUPT_DATA", mem, Fresh, TRUE)
      BY <2>1, <2>4, <3>1
    <3>3. p.mem.layout = "v1"
      BY <1>2
    <3>4. PICK harmed \in BOOLEAN : p \in Finish("CORRUPT_DATA", mem, Fresh, harmed)
      BY <3>2, Zenon
    <3> QED BY <2>2, <3>3, <3>4, FinishOldLayout
  <2> QED BY <1>2, <2>1, <2>3, <2>4
<1>3. CASE o \in Sanitize(b) /\ b.layout = "v2"
  <2>1. PICK k \in FrontHoles(b) : o \in SanitizeInto(b, DropFront(b, k))
    BY <1>3 DEF Sanitize
  <2>2. DropFront(b, k) \in Block /\ DropFront(b, k).layout # "v1"
    BY <1>3, DropFrontShaped DEF FrontHoles
  <2>3. PICK status : o \in (IF DropFront(b, k) = b THEN {Outcome(status, b, b, FALSE)}
                             ELSE Finish(status, b, DropFront(b, k), FALSE))
    BY <2>1 DEF SanitizeInto
  <2>4. CASE DropFront(b, k) = b
    BY <2>3, <2>4 DEF Outcome
  <2>5. CASE DropFront(b, k) # b
    <3>1. o \in Finish(status, b, DropFront(b, k), FALSE)
      BY <2>3, <2>5
    <3> QED BY <2>2, <3>1, FinishOldLayout
  <2> QED BY <2>4, <2>5
<1>4. CASE o \in Migrate(b)
  <2>1. PICK p \in Finish("CORRUPT_DATA", b, Migrated(b.count), FALSE) :
          o \in (IF p.status = "FILE_READ_ERROR" THEN Salvage(p.data, p.mem, TRUE) ELSE {p})
    BY <1>4 DEF Migrate
  <2>2. Migrated(b.count) \in Block /\ Migrated(b.count).layout # "v1"
    BY BlockFields, MigratedHealed DEF Healed, Good, Shaped
  <2>3. CASE p.status = "FILE_READ_ERROR"
    <3>1. p.mem = b
      BY <2>1, <2>3, FinishFailed
    <3>2. p.data = Migrated(b.count)
      BY <2>1 DEF Finish, Outcome
    <3> QED BY <1>2, <2>1, <2>2, <2>3, <3>1, <3>2
  <2>4. CASE p.status # "FILE_READ_ERROR"
    <3>1. o \in Finish("CORRUPT_DATA", b, Migrated(b.count), FALSE)
      BY <2>1, <2>4
    <3> QED BY <2>2, <3>1, FinishOldLayout
  <2> QED BY <2>3, <2>4
<1>5. CASE o \in Salvage(b, b, FALSE)
  BY <1>2, <1>5
<1> QED BY <1>1, <1>3, <1>4, <1>5 DEF LoadAndHeal, Block

-----------------------------------------------------------------------------
(* No call loses more than one record *)

\* A block of the previous layout has no record the new code could read.
NothingToMigrate == rtc.layout = "v1" => ValidSlots(rtc) = {}

LossInv == Inv /\ NothingToMigrate

AtMostOneLost ==
  Cardinality(Held(rtc) \ Held(rtc')) > 1 => Clear \/ PowerLoss \/ rtc.layout = "bad"

\* A step that keeps everything but one slot
LEMMA KeptButOne ==
  ASSUME rtc.layout = "v2", NEW j, Keeps(rtc, rtc', {j})
  PROVE  AtMostOneLost
BY OneIsLost DEF AtMostOneLost

LEMMA KeptAll ==
  ASSUME rtc.layout = "v2", Keeps(rtc, rtc', {})
  PROVE  AtMostOneLost
<1>1. Keeps(rtc, rtc', {Slots})
  BY DEF Keeps
<1> QED BY <1>1, KeptButOne

LEMMA AppendLoses ==
  ASSUME Inv, AppendRecord
  PROVE  /\ rtc.layout = "v2" => AtMostOneLost
         /\ rtc'.layout = "v1" => rtc' = rtc
<1>1. rtc \in Block /\ Consistent(rtc) /\ Good(rtc)
  BY DEF Inv, TypeOK, RingShape, NothingLeftBehind, Good, Shaped
<1>2. PICK h \in LoadAndHeal(rtc) :
        \/ rtc' = h.mem
        \/ /\ ~Stopped(h)
           /\ \E o \in Finish("NONE", h.mem, WithNewest(h.data, appended + 1), h.hit) : rtc' = o.mem
  BY DEF AppendRecord, Settle
<1>3. rtc'.layout = "v1" => rtc' = rtc
  <2>1. CASE rtc' = h.mem
    BY <1>1, <2>1, OldLayoutUntouched
  <2>2. ASSUME ~Stopped(h), rtc'.layout = "v1",
               NEW o \in Finish("NONE", h.mem, WithNewest(h.data, appended + 1), h.hit), rtc' = o.mem
        PROVE  rtc' = rtc
    <3>1. GoodOutcome(h)
      BY <1>1, LoadAndHealGood
    <3>2. h.mem \in Block /\ Healed(h.data) /\ h.hit \in BOOLEAN
      BY <2>2, <3>1 DEF GoodOutcome, Shaped
    <3>3. appended + 1 \in Nat
      BY RtcAssumption DEF Inv, TypeOK
    <3>4. Healed(WithNewest(h.data, appended + 1))
      BY <3>2, <3>3, WithNewestHealed
    <3>5. o.mem = h.mem
      BY <2>2, <3>2, <3>4, FinishOldLayout DEF Healed, Good, Shaped
    <3> QED BY <1>1, <2>2, <3>5, OldLayoutUntouched
  <2> QED BY <1>2, <2>1, <2>2
<1>4. ASSUME rtc.layout = "v2" PROVE AtMostOneLost
  <2>1. /\ Keeps(rtc, h.mem, {})
        /\ ~Stopped(h) => /\ h.mem \in Block /\ h.mem.layout = "v2" /\ Consistent(h.mem)
                          /\ h.data = h.mem
    BY <1>1, <1>4, HealingKeeps
  <2>2. CASE rtc' = h.mem
    BY <1>4, <2>1, <2>2, KeptAll
  <2>3. ASSUME ~Stopped(h),
               NEW o \in Finish("NONE", h.mem, WithNewest(h.data, appended + 1), h.hit), rtc' = o.mem
        PROVE  AtMostOneLost
    <3>1. WithNewest(h.mem, appended + 1) \in Block
      <4>1. Healed(h.data)
        BY <1>1, <2>3, LoadAndHealGood DEF GoodOutcome
      <4>2. appended + 1 \in Nat
        BY RtcAssumption DEF Inv, TypeOK
      <4> QED BY <2>1, <2>3, <4>1, <4>2, WithNewestHealed DEF Healed, Good, Shaped
    <3>2. Keeps(h.mem, o.mem, {h.mem.head})
      <4>1. h.hit \in BOOLEAN
        BY <1>1, LoadAndHealGood DEF GoodOutcome
      <4>2. Keeps(h.mem, WithNewest(h.mem, appended + 1), {h.mem.head})
        BY <2>1, <2>3, WithNewestKeeps
      <4> QED BY <2>1, <2>3, <3>1, <4>1, <4>2, FinishKeeps
    <3> QED BY <1>4, <2>1, <2>3, <3>2, KeepsTwice, KeptButOne
  <2> QED BY <1>2, <2>2, <2>3
<1> QED BY <1>3, <1>4

LEMMA PopLoses ==
  ASSUME Inv, PopRecord
  PROVE  /\ rtc.layout = "v2" => AtMostOneLost
         /\ rtc'.layout = "v1" => rtc' = rtc
<1>1. rtc \in Block /\ Consistent(rtc) /\ Good(rtc)
  BY DEF Inv, TypeOK, RingShape, NothingLeftBehind, Good, Shaped
<1>2. PICK h \in LoadAndHeal(rtc) :
        \/ rtc' = h.mem
        \/ /\ ~Stopped(h) /\ h.data.count > 0
           /\ \E o \in Finish("NONE", h.mem, WithoutOldest(h.data), h.hit) : rtc' = o.mem
  BY DEF PopRecord, Settle, Stopped
<1>3. rtc'.layout = "v1" => rtc' = rtc
  <2>1. CASE rtc' = h.mem
    BY <1>1, <2>1, OldLayoutUntouched
  <2>2. ASSUME ~Stopped(h), h.data.count > 0, rtc'.layout = "v1",
               NEW o \in Finish("NONE", h.mem, WithoutOldest(h.data), h.hit), rtc' = o.mem
        PROVE  rtc' = rtc
    <3>1. GoodOutcome(h)
      BY <1>1, LoadAndHealGood
    <3>2. h.mem \in Block /\ Healed(h.data) /\ h.hit \in BOOLEAN
      BY <2>2, <3>1 DEF GoodOutcome, Shaped
    <3>3. Healed(WithoutOldest(h.data))
      BY <2>2, <3>2, WithoutOldestHealed
    <3>4. o.mem = h.mem
      BY <2>2, <3>2, <3>3, FinishOldLayout DEF Healed, Good, Shaped
    <3> QED BY <1>1, <2>2, <3>4, OldLayoutUntouched
  <2> QED BY <1>2, <2>1, <2>2
<1>4. ASSUME rtc.layout = "v2" PROVE AtMostOneLost
  <2>1. /\ Keeps(rtc, h.mem, {})
        /\ ~Stopped(h) => /\ h.mem \in Block /\ h.mem.layout = "v2" /\ Consistent(h.mem)
                          /\ h.data = h.mem
    BY <1>1, <1>4, HealingKeeps
  <2>2. CASE rtc' = h.mem
    BY <1>4, <2>1, <2>2, KeptAll
  <2>3. ASSUME ~Stopped(h), h.data.count > 0,
               NEW o \in Finish("NONE", h.mem, WithoutOldest(h.data), h.hit), rtc' = o.mem
        PROVE  AtMostOneLost
    <3>1. WithoutOldest(h.mem) \in Block
      <4>1. Healed(h.data)
        BY <1>1, <2>3, LoadAndHealGood DEF GoodOutcome
      <4> QED BY <2>1, <2>3, <4>1, WithoutOldestHealed DEF Healed, Good, Shaped
    <3>2. Keeps(h.mem, o.mem, {h.mem.tail})
      <4>1. h.hit \in BOOLEAN
        BY <1>1, LoadAndHealGood DEF GoodOutcome
      <4>2. Keeps(h.mem, WithoutOldest(h.mem), {h.mem.tail})
        BY <2>1, <2>3, WithoutOldestKeeps
      <4> QED BY <2>1, <2>3, <3>1, <4>1, <4>2, FinishKeeps
    <3> QED BY <1>4, <2>1, <2>3, <3>2, KeepsTwice, KeptButOne
  <2> QED BY <1>2, <2>2, <2>3
<1> QED BY <1>3, <1>4

LEMMA LookLoses ==
  ASSUME Inv, Inspect \/ Boot
  PROVE  /\ rtc.layout = "v2" => AtMostOneLost
         /\ rtc'.layout = "v1" => rtc' = rtc
<1>1. rtc \in Block /\ Consistent(rtc) /\ Good(rtc)
  BY DEF Inv, TypeOK, RingShape, NothingLeftBehind, Good, Shaped
<1>2. PICK h \in LoadAndHeal(rtc) :
        rtc' = h.mem \/ (~Stopped(h) /\ \E o \in LoadAndHeal(h.mem) : rtc' = o.mem)
  <2>1. CASE Inspect
    BY <2>1 DEF Inspect, Settle
  <2>2. CASE Boot
    <3>1. PICK h \in LoadAndHeal(rtc) :
            IF h.status \in {"CORRUPT_DATA", "SCANNING"}
            THEN \E o \in LoadAndHeal(h.mem) : Settle([o EXCEPT !.hit = @ \/ h.hit])
            ELSE Settle(h)
      BY <2>2 DEF Boot
    <3>2. \A o \in LoadAndHeal(h.mem) : Settle([o EXCEPT !.hit = @ \/ h.hit]) => rtc' = o.mem
      BY DEF Settle
    <3> QED BY <3>1, <3>2 DEF Stopped, Settle
  <2> QED BY <2>1, <2>2
<1>3. ~Stopped(h) => h.mem \in Block /\ Consistent(h.mem)
  BY <1>1, LoadAndHealGood DEF GoodOutcome, Shaped
<1>4. rtc'.layout = "v1" => rtc' = rtc
  BY <1>1, <1>2, <1>3, OldLayoutUntouched
<1>5. ASSUME rtc.layout = "v2" PROVE AtMostOneLost
  <2>1. /\ Keeps(rtc, h.mem, {})
        /\ ~Stopped(h) => h.mem.layout = "v2"
    BY <1>1, <1>5, HealingKeeps
  <2>2. CASE rtc' = h.mem
    BY <1>5, <2>1, <2>2, KeptAll
  <2>3. ASSUME ~Stopped(h), NEW o \in LoadAndHeal(h.mem), rtc' = o.mem
        PROVE  AtMostOneLost
    <3>1. Keeps(h.mem, o.mem, {})
      BY <1>3, <2>1, <2>3, HealingKeeps
    <3> QED BY <1>5, <2>1, <2>3, <3>1, KeepsTwice, KeptAll
  <2> QED BY <1>2, <2>2, <2>3
<1> QED BY <1>4, <1>5

LEMMA DecayLoses ==
  ASSUME Inv, Decay
  PROVE  /\ rtc.layout = "v2" => AtMostOneLost
         /\ rtc'.layout = "v1" => rtc.layout = "v1" /\ ValidSlots(rtc') \subseteq ValidSlots(rtc)
<1>1. rtc \in Block /\ rtc.rec \in [Index -> Slot]
  BY BlockFields DEF Inv, TypeOK
<1>2. CASE rtc' = [rtc EXCEPT !.layout = "bad"]
  <2>1. Keeps(rtc, rtc', {}) /\ rtc'.layout # "v1"
    BY <1>1, <1>2 DEF Keeps, Block
  <2> QED BY <2>1, KeptAll
<1>3. ASSUME NEW i \in ValidSlots(rtc), rtc' = [rtc EXCEPT !.rec[i] = Blank]
      PROVE  /\ rtc.layout = "v2" => AtMostOneLost
             /\ rtc'.layout = "v1" => rtc.layout = "v1" /\ ValidSlots(rtc') \subseteq ValidSlots(rtc)
  <2>1. /\ rtc'.layout = rtc.layout /\ rtc'.tail = rtc.tail /\ rtc'.count = rtc.count
        /\ rtc'.rec = [rtc.rec EXCEPT ![i] = Blank]
    BY <1>1, <1>3 DEF Block
  <2>2. Keeps(rtc, rtc', {i})
    BY <1>1, <2>1 DEF Keeps, InUse
  <2>3. ValidSlots(rtc') \subseteq ValidSlots(rtc)
    BY <1>1, <2>1 DEF ValidSlots, Blank
  <2> QED BY <2>1, <2>2, <2>3, KeptButOne
<1> QED BY <1>2, <1>3 DEF Decay

LEMMA InitLossInv == Init => LossInv
<1> SUFFICES ASSUME Init PROVE LossInv
  OBVIOUS
<1>1. Inv
  BY InitInv
<1>2. rtc.rec = Fresh.rec
  <2>1. CASE rtc = [Fresh EXCEPT !.layout = "bad"]
    BY <2>1 DEF Fresh
  <2>2. ASSUME NEW n \in LegacyCounts,
               rtc = [Fresh EXCEPT !.layout = "v1", !.count = IF n < Slots THEN n ELSE Slots]
        PROVE  rtc.rec = Fresh.rec
    BY <2>2 DEF Fresh
  <2>3. ASSUME NEW s \in SeqNr, rtc = [Fresh EXCEPT !.nextSeq = s]
        PROVE  rtc.rec = Fresh.rec
    BY <2>3 DEF Fresh
  <2> QED BY <2>1, <2>2, <2>3 DEF Init
<1>3. ValidSlots(rtc) = {}
  BY <1>2 DEF ValidSlots, Fresh, Blank
<1> QED BY <1>1, <1>3 DEF LossInv, NothingToMigrate

LEMMA NextLossInv ==
  ASSUME LossInv, [Next]_vars
  PROVE  LossInv' /\ AtMostOneLost
<1>1. Inv /\ Inv'
  BY NextInv DEF LossInv
<1>2. /\ rtc.layout = "v2" => AtMostOneLost
      /\ rtc'.layout = "v1" => rtc.layout = "v1" /\ ValidSlots(rtc') \subseteq ValidSlots(rtc)
  <2>1. CASE AppendRecord
    BY <1>1, <2>1, AppendLoses
  <2>2. CASE PopRecord
    BY <1>1, <2>2, PopLoses
  <2>3. CASE Inspect \/ Boot
    BY <1>1, <2>3, LookLoses
  <2>4. CASE Clear
    <3>1. PICK o \in Finish("NONE", rtc, Fresh, FALSE) : rtc' = o.mem
      BY <2>4 DEF Clear, Settle
    <3>2. rtc \in Block /\ Fresh \in Block /\ Fresh.layout # "v1"
      BY <1>1, FreshHealed DEF Inv, TypeOK, Healed, Good, Shaped
    <3>3. rtc'.layout = "v1" => rtc' = rtc
      BY <3>1, <3>2, FinishOldLayout
    <3> QED BY <2>4, <3>3 DEF AtMostOneLost
  <2>5. CASE Decay
    BY <1>1, <2>5, DecayLoses
  <2>6. CASE PowerLoss
    BY <2>6 DEF PowerLoss, AtMostOneLost, Fresh
  <2>7. CASE UNCHANGED vars
    <3>1. rtc' = rtc /\ Keeps(rtc, rtc', {})
      BY <2>7 DEF vars, Keeps
    <3> QED BY <3>1, KeptAll
  <2> QED BY <2>1, <2>2, <2>3, <2>4, <2>5, <2>6, <2>7 DEF Next
<1>3. NothingToMigrate'
  <2>1. ValidSlots(rtc)' = ValidSlots(rtc')
    BY DEF ValidSlots
  <2> QED BY <1>2, <2>1 DEF LossInv, NothingToMigrate
<1>4. AtMostOneLost
  <2>1. CASE rtc.layout = "v1"
    <3>1. Held(rtc) = {}
      BY <2>1 DEF LossInv, NothingToMigrate, Held
    <3>2. Held(rtc) \ Held(rtc') = {}
      BY <3>1
    <3>3. Cardinality({}) = 0
      BY FS_EmptySet
    <3> QED BY <3>2, <3>3 DEF AtMostOneLost
  <2>2. rtc.layout \in {"v2", "v1", "bad"}
    BY <1>1, BlockFields DEF Inv, TypeOK
  <2> QED BY <1>2, <2>1, <2>2 DEF AtMostOneLost
<1> QED BY <1>1, <1>3, <1>4 DEF LossInv

\* For every number of slots and every mix of faults: no call on a ring whose
\* header checks loses more than one record, whatever healing it does first
\* and wherever a reset cuts its write short; clear() is the exception.
THEOREM LosesOneAtMost == Spec => RetainsRecords
<1>1. ASSUME LossInv, [Next]_vars
      PROVE  [Cardinality(Held(rtc) \ Held(rtc')) > 1 =>
                Clear \/ PowerLoss \/ rtc.layout = "bad"]_vars
  BY <1>1, NextLossInv DEF AtMostOneLost
<1> QED BY <1>1, InitLossInv, NextLossInv, PTL DEF Spec, RetainsRecords
=============================================================================
