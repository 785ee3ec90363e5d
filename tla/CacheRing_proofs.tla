-------------------------- MODULE CacheRing_proofs --------------------------
(***************************************************************************)
(* Proofs about CacheRing for every size of the ring and of its records,   *)
(* every budget and every set of faults.                                   *)
(*                                                                         *)
(* The header: whatever is damaged, misread or skipped, it stays within    *)
(* the ring and its head stays size cells behind its tail, in RAM and in   *)
(* the file that a reset goes back to. Every change of a header goes       *)
(* through Advance or StoreRecord; a lemma for each operator that returns  *)
(* a header says it is a good one, and there is one step per action.       *)
(*                                                                         *)
(* The records: wherever the ring has the first half of a marker a whole   *)
(* record was written, some of its cells damaged since. Damage makes no    *)
(* markers, so records never overlap and a reader that trusts a marker and *)
(* the CRC behind it meets no remains of others. From this follow what a   *)
(* read returns, what a pop removes and what one damaged record may cost.  *)
(*                                                                         *)
(* The queue: until the first fault the ring and the file it falls back to *)
(* are chains of whole records, one beginning where the other ends. Their  *)
(* sequence is the offsets of the markers in order: a record that leaves   *)
(* the front takes the first of them with it and shifts the others, one    *)
(* that is stored adds the last. From this every step is one of            *)
(* DurableFifo's.                                                          *)
(***************************************************************************)
EXTENDS CacheRing, FiniteSetTheorems, SequenceTheorems, WellFoundedInduction, TLAPS

\* What every header satisfies.
GoodHeader(h) == h \in Header /\ Aligned(h)

\* What the calls that may move the header report.
GoodMove(u) == GoodHeader(u.hdr) /\ u.dirty \in BOOLEAN

GoodFile(f) ==
  /\ f \in [cells : [Pos -> Cell], hdr : Header]
  /\ Aligned(f.hdr)

LEMMA CapPositive == Cap \in Nat /\ Cap > 4
  BY CacheAssumption DEF Overhead

\* Positions wrap around once.
LEMMA Wrap ==
  ASSUME NEW x \in 0 .. 2 * Cap - 1
  PROVE  x % Cap = (IF x < Cap THEN x ELSE x - Cap)
  BY CapPositive

LEMMA ModType ==
  ASSUME NEW x \in Int
  PROVE  x % Cap \in Pos
<1> SUFFICES x % Cap \in 0 .. Cap - 1
  BY DEF Pos
<1> QED
  BY CapPositive

LEMMA HeaderFields ==
  ASSUME NEW h \in Header
  PROVE  /\ h.head \in 0 .. Cap - 1
         /\ h.tail \in 0 .. Cap - 1
         /\ h.size \in 0 .. Cap
  BY DEF Header, Pos

LEMMA EmptyGood == GoodHeader(Empty)
<1>1. 0 % Cap = 0
  BY CapPositive, Wrap
<1> QED
  BY <1>1, CapPositive DEF GoodHeader, Header, Pos, Empty, Aligned

LEMMA AdvanceGood ==
  ASSUME NEW h, GoodHeader(h), NEW n \in Nat
  PROVE  GoodHeader(Advance(h, n))
<1>1. CASE n >= h.size
  BY <1>1, EmptyGood DEF Advance
<1>2. CASE ~(n >= h.size)
  <2> DEFINE t == (h.tail + n) % Cap
  <2>1. h \in Header
    BY DEF GoodHeader
  <2>2. /\ h.tail \in 0 .. Cap - 1 /\ h.size \in 0 .. Cap /\ h.head \in 0 .. Cap - 1
        /\ n < h.size
    BY <1>2, <2>1, HeaderFields
  <2>3. /\ t = (IF h.tail + n < Cap THEN h.tail + n ELSE h.tail + n - Cap)
        /\ t \in 0 .. Cap - 1
    BY <2>2, Wrap, CapPositive
  <2>4. h.head = (IF h.tail + h.size < Cap THEN h.tail + h.size ELSE h.tail + h.size - Cap)
    BY <2>2, Wrap, CapPositive DEF GoodHeader, Aligned
  <2>5. t + (h.size - n) \in 0 .. 2 * Cap - 1
    BY <2>2, <2>3, CapPositive
  <2>6. h.head = (t + (h.size - n)) % Cap
    <3> DEFINE x == t + (h.size - n)
    <3>1. x \in 0 .. 2 * Cap - 1
      BY <2>5
    <3>2. x % Cap = (IF x < Cap THEN x ELSE x - Cap)
      <4> HIDE DEF x
      <4> QED BY <3>1, Wrap
    <3> HIDE DEF t
    <3> QED
      BY <2>2, <2>3, <2>4, <3>2, CapPositive
  <2>7. Advance(h, n) = [h EXCEPT !.tail = t, !.size = h.size - n]
    BY <1>2 DEF Advance
  <2> HIDE DEF t
  <2>8. h.size - n \in 0 .. Cap
    BY <2>2, CapPositive
  <2>9. Advance(h, n) \in Header
    BY <2>1, <2>3, <2>7, <2>8 DEF Header, Pos
  <2>10. Aligned(Advance(h, n))
    BY <2>1, <2>6, <2>7 DEF Header, Aligned
  <2> QED
    BY <2>9, <2>10 DEF GoodHeader
<1> QED
  BY <1>1, <1>2

\* A set of offsets that is not empty has a smallest one.
LEMMA SmallestOffset ==
  ASSUME NEW S \in SUBSET Nat, S # {}
  PROVE  \E i \in S : \A j \in S : i <= j
<1>1. PICK i \in S : \A j \in S : ~ <<j, i>> \in OpToRel(<, Nat)
  BY NatLessThanWellFounded, WFMin
<1>2. \A j \in S : ~(j < i)
  BY <1>1 DEF OpToRel
<1> QED
  BY <1>2

LEMMA ScanGood ==
  ASSUME NEW c, NEW h, GoodHeader(h)
  PROVE  GoodHeader(Scan(c, h).hdr)
<1> DEFINE found == MarkersInReach(c, h)
           first == CHOOSE i \in found : \A j \in found : i <= j
<1>1. h.size \in 0 .. Cap
  BY HeaderFields DEF GoodHeader
<1>2. CASE h.size > 2 /\ found # {}
  <2>1. found \in SUBSET Nat
    BY <1>1, CapPositive DEF MarkersInReach
  <2>2. first \in Nat
    BY <1>2, <2>1, SmallestOffset
  <2>3. Scan(c, h) = [result |-> "FOUND", hdr |-> Advance(h, first)]
    BY <1>2 DEF Scan
  <2> HIDE DEF first
  <2> QED BY <2>2, <2>3, AdvanceGood
<1>3. CASE h.size > 2 /\ found = {} /\ h.size - 1 >= ScanBudget
  <2>1. Scan(c, h) = [result |-> "NEED_MORE", hdr |-> Advance(h, ScanBudget)]
    BY <1>3 DEF Scan
  <2> QED BY <2>1, AdvanceGood, CacheAssumption
<1>4. CASE ~(h.size > 2 /\ found # {}) /\ ~(h.size > 2 /\ found = {} /\ h.size - 1 >= ScanBudget)
  <2>1. Scan(c, h) = [result |-> "EMPTY", hdr |-> Empty]
    BY <1>4 DEF Scan
  <2> QED BY <2>1, EmptyGood
<1> QED
  BY <1>2, <1>3, <1>4

LEMMA LenAtType ==
  ASSUME NEW c \in [Pos -> Cell], NEW h \in Header, NEW i \in Nat
  PROVE  LenAt(c, h, i) \in Nat
<1>1. (h.tail + i) % Cap \in Pos
  BY HeaderFields, ModType
<1>2. At(c, h, i)[2] \in Nat
  BY <1>1 DEF At, Cell
<1>3. TooLong \in Nat
  BY CacheAssumption DEF TooLong
<1> QED
  BY <1>2, <1>3 DEF LenAt

LEMMA PopFrontGood ==
  ASSUME NEW c \in [Pos -> Cell], NEW h, GoodHeader(h)
  PROVE  GoodHeader(PopFront(c, h))
<1>1. LenAt(c, h, 2) \in Nat
  BY LenAtType DEF GoodHeader
<1>2. Total(LenAt(c, h, 2)) \in Nat
  BY <1>1 DEF Total, Overhead
<1>3. PICK n \in Nat : PopFront(c, h) = Advance(h, n)
  BY <1>2 DEF PopFront
<1> QED
  BY <1>3, AdvanceGood

LEMMA PopGood ==
  ASSUME NEW c \in [Pos -> Cell], NEW h, GoodHeader(h)
  PROVE  GoodMove(Pop(c, h))
<1> DEFINE s == Scan(c, h)
<1>1. GoodHeader(s.hdr) /\ GoodHeader(PopFront(c, h)) /\ GoodHeader(Advance(h, 1))
  BY ScanGood, PopFrontGood, AdvanceGood
<1>2. GoodHeader(PopFront(c, s.hdr))
  <2> HIDE DEF s
  <2> QED BY <1>1, PopFrontGood
<1> QED
  BY <1>1, <1>2 DEF Pop, GoodMove

LEMMA FrontRecordType ==
  ASSUME NEW c, NEW h
  PROVE  FrontRecord(c, h) \in 0 .. MaxWrites
  BY CacheAssumption DEF FrontRecord

LEMMA ReadGood ==
  ASSUME NEW c \in [Pos -> Cell], NEW h, GoodHeader(h)
  PROVE  GoodMove(Read(c, h)) /\ Read(c, h).id \in 0 .. MaxWrites
<1> DEFINE r == Read(c, h)
           s == Scan(c, h)
           p == Pop(c, h)
<1>2. \/ r.hdr = h /\ r.dirty = FALSE /\ r.id \in {0, FrontRecord(c, h)}
      \/ r.hdr = p.hdr /\ r.dirty = p.dirty /\ r.id = 0
      \/ r.hdr = s.hdr /\ r.dirty = FALSE /\ r.id = 0
  BY DEF Read
<1>3. GoodMove(p) /\ GoodHeader(s.hdr)
  BY PopGood, ScanGood
<1>4. FrontRecord(c, h) \in 0 .. MaxWrites /\ 0 \in 0 .. MaxWrites
  BY FrontRecordType, CacheAssumption
<1> HIDE DEF r, s, p
<1>5. GoodMove(r) /\ r.id \in 0 .. MaxWrites
  BY <1>2, <1>3, <1>4 DEF GoodMove
<1> QED
  BY <1>5 DEF r

-----------------------------------------------------------------------------
(* The invariant. *)

Inv == TypeOK /\ RingShape

LEMMA InvParts ==
  Inv <=> /\ cells \in [Pos -> Cell]
          /\ GoodHeader(hdr)
          /\ GoodFile(durable)
          /\ pending \in Nat
          /\ job \in [id : 0 .. MaxWrites, len : {0} \cup Lens]
          /\ written \in 0 .. MaxWrites
          /\ peeked \in 0 .. MaxWrites
          /\ faults \in 0 .. MaxFaults
  BY DEF Inv, TypeOK, RingShape, GoodHeader, GoodFile

LEMMA BlankGood == GoodFile(Blank)
  BY EmptyGood DEF GoodFile, Blank, NoCell, Cell, Tags, GoodHeader, Header

LEMMA InitInv == Init => Inv
<1> SUFFICES ASSUME Init PROVE Inv
  OBVIOUS
<1>1. cells \in [Pos -> Cell]
  BY DEF Init, NoCell, Cell, Tags
<1>2. GoodFile(durable)
  BY <1>1, EmptyGood DEF Init, GoodFile, GoodHeader
<1>3. job \in [id : 0 .. MaxWrites, len : {0} \cup Lens]
  BY CacheAssumption DEF Init, NoJob
<1> QED
  BY <1>1, <1>2, <1>3, EmptyGood, InvParts, CacheAssumption DEF Init

\* What a flush, or its postponement, leaves in the file.
LEMMA MarkDirtyGood ==
  ASSUME NEW c \in [Pos -> Cell], NEW h, GoodHeader(h),
         GoodFile(durable), pending \in Nat, MarkDirty(c, h)
  PROVE  GoodFile(durable') /\ pending' \in Nat
  BY DEF MarkDirty, Flushed, GoodFile, GoodHeader

LEMMA MoveGood ==
  ASSUME Inv, NEW u, GoodMove(u), Move(u)
  PROVE  GoodHeader(hdr') /\ GoodFile(durable') /\ pending' \in Nat
<1>1. GoodHeader(u.hdr) /\ hdr' = u.hdr
  BY DEF Move, GoodMove
<1>2. CASE u.dirty
  BY <1>1, <1>2, InvParts, MarkDirtyGood DEF Move
<1>3. CASE ~u.dirty
  BY <1>1, <1>3, InvParts DEF Move
<1> QED
  BY <1>2, <1>3

LEMMA JobFields ==
  ASSUME NEW j \in [id : 0 .. MaxWrites, len : {0} \cup Lens]
  PROVE  j.id \in 0 .. MaxWrites /\ j.id \in Nat /\ j.len \in Nat
<1>1. Lens \subseteq Nat /\ 0 .. MaxWrites \subseteq Nat
  BY CacheAssumption
<1>2. j.id \in 0 .. MaxWrites /\ j.len \in {0} \cup Lens
  OBVIOUS
<1>3. j.id \in Nat
  <2> DEFINE x == j.id
  <2>1. x \in 0 .. MaxWrites
    BY <1>2
  <2> HIDE DEF x
  <2>2. x \in Nat
    BY <1>1, <2>1
  <2> QED BY <2>2 DEF x
<1>4. j.len \in Nat
  <2> DEFINE x == j.len
  <2>1. x \in {0} \cup Lens
    BY <1>2
  <2> HIDE DEF x
  <2>2. x \in Nat
    BY <1>1, <2>1
  <2> QED BY <2>2 DEF x
<1> QED BY <1>2, <1>3, <1>4

LEMMA RecordCellType ==
  ASSUME NEW j \in [id : 0 .. MaxWrites, len : {0} \cup Lens], NEW i
  PROVE  RecordCell(j, i) \in Cell
<1>1. j.id \in Nat /\ j.len \in Nat
  BY JobFields
<1>2. /\ <<"m1", 0>> \in Cell /\ <<"m2", 0>> \in Cell
      /\ <<"len", j.len>> \in Cell /\ <<"crc", j.id>> \in Cell /\ <<"data", j.id>> \in Cell
  BY <1>1 DEF Cell, Tags
<1> QED
  BY <1>2 DEF RecordCell

LEMMA WrittenType ==
  ASSUME Inv, NEW n
  PROVE  Written(n) \in [Pos -> Cell]
  BY InvParts, RecordCellType DEF Written

\* The header after a record of n cells that fits was stored.
LEMMA StoredGood ==
  ASSUME NEW h, GoodHeader(h), NEW n \in Nat, h.size + n <= Cap
  PROVE  GoodHeader([h EXCEPT !.head = (h.head + n) % Cap, !.size = h.size + n])
<1> DEFINE x == h.tail + h.size
           y == h.head + n
           z == h.tail + (h.size + n)
           g == [h EXCEPT !.head = y % Cap, !.size = h.size + n]
<1>1. /\ h \in Header
      /\ h.head \in 0 .. Cap - 1 /\ h.tail \in 0 .. Cap - 1 /\ h.size \in 0 .. Cap
  BY HeaderFields DEF GoodHeader
<1>2. x \in 0 .. 2 * Cap - 1 /\ y \in 0 .. 2 * Cap - 1 /\ z \in 0 .. 2 * Cap - 1
  BY <1>1, CapPositive
<1>3. /\ x % Cap = (IF x < Cap THEN x ELSE x - Cap)
      /\ y % Cap = (IF y < Cap THEN y ELSE y - Cap)
      /\ z % Cap = (IF z < Cap THEN z ELSE z - Cap)
  <2> HIDE DEF x, y, z
  <2> QED BY <1>2, Wrap
<1>4. h.head = x % Cap
  BY DEF GoodHeader, Aligned
<1>5. y % Cap = z % Cap
  <2> DEFINE xm == x % Cap
             ym == y % Cap
             zm == z % Cap
  <2> SUFFICES ym = zm
    OBVIOUS
  <2>1. /\ xm = (IF x < Cap THEN x ELSE x - Cap) /\ ym = (IF y < Cap THEN y ELSE y - Cap)
        /\ zm = (IF z < Cap THEN z ELSE z - Cap) /\ h.head = xm
    BY <1>3, <1>4
  <2> HIDE DEF xm, ym, zm
  <2> QED BY <2>1, <1>1, CapPositive
<1>6. y % Cap \in Pos /\ h.size + n \in 0 .. Cap
  <2>1. y % Cap \in Pos
    BY <1>1, ModType
  <2>2. h.size + n \in 0 .. Cap
    BY <1>1, CapPositive
  <2> QED BY <2>1, <2>2
<1>7. g.head = z % Cap /\ g.tail = h.tail /\ g.size = h.size + n
  BY <1>1, <1>5 DEF Header
<1>8. g \in Header
  <2> HIDE DEF y
  <2> QED BY <1>1, <1>6 DEF Header
<1>9. Aligned(g)
  <2> HIDE DEF g
  <2> QED BY <1>7 DEF Aligned
<1> QED
  BY <1>8, <1>9 DEF GoodHeader

LEMMA HitType ==
  ASSUME Inv, NEW kind, Hit(kind)
  PROVE  faults' \in 0 .. MaxFaults
  BY InvParts, CacheAssumption DEF Hit

LEMMA NextInv == Inv /\ [Next]_vars => Inv'
<1> SUFFICES ASSUME Inv, [Next]_vars PROVE Inv'
  OBVIOUS
<1> USE InvParts
<1> DEFINE Jobs == [id : 0 .. MaxWrites, len : {0} \cup Lens]
<1>a. /\ cells \in [Pos -> Cell] /\ GoodHeader(hdr) /\ GoodFile(durable) /\ pending \in Nat
      /\ job \in Jobs /\ written \in 0 .. MaxWrites /\ peeked \in 0 .. MaxWrites
      /\ faults \in 0 .. MaxFaults
  OBVIOUS
<1>b. NoJob \in Jobs /\ 0 \in 0 .. MaxWrites
  BY CacheAssumption DEF NoJob
<1>c. SUFFICES /\ cells' \in [Pos -> Cell] /\ GoodHeader(hdr)' /\ GoodFile(durable)'
               /\ pending' \in Nat /\ job' \in Jobs /\ written' \in 0 .. MaxWrites
               /\ peeked' \in 0 .. MaxWrites /\ faults' \in 0 .. MaxFaults
  BY DEF Inv, TypeOK, RingShape, GoodHeader, GoodFile
<1>1. CASE BeginWrite
  <2>1. job' \in Jobs
    <3>1. PICK n \in Lens : job' = [id |-> written + 1, len |-> n]
      BY <1>1 DEF BeginWrite
    <3>2. written + 1 \in 0 .. MaxWrites
      BY <1>1, <1>a, CacheAssumption DEF BeginWrite
    <3> QED BY <3>1, <3>2
  <2> QED BY <1>1, <1>a, <1>b, <2>1 DEF BeginWrite
<1>2. CASE TrimStep
  <2>1. GoodHeader(hdr')
    <3>1. CASE /\ MarkerAt(cells, hdr, 0) /\ CanRead(cells, hdr, 2, 1)
               /\ LET n == LenAt(cells, hdr, 2)
                  IN  hdr' = Advance(hdr, IF n \in 1 .. MaxLen THEN Total(n) ELSE 1)
      <4> DEFINE m == IF LenAt(cells, hdr, 2) \in 1 .. MaxLen
                      THEN Total(LenAt(cells, hdr, 2)) ELSE 1
      <4>1. m \in Nat /\ hdr' = Advance(hdr, m)
        BY <3>1, CacheAssumption DEF Total, Overhead
      <4> HIDE DEF m
      <4> QED BY <4>1, <1>a, AdvanceGood
    <3>2. CASE hdr' = hdr
      BY <3>2, <1>a
    <3>3. CASE hdr' = Scan(cells, hdr).hdr
      BY <3>3, <1>a, ScanGood
    <3> QED BY <1>2, <3>1, <3>2, <3>3 DEF TrimStep
  <2>2. job' \in Jobs
    BY <1>2, <1>a, <1>b DEF TrimStep
  <2> QED BY <1>2, <1>a, <2>1, <2>2 DEF TrimStep, GoodFile, GoodHeader
<1>3. CASE TrimReadError
  <2>1. GoodHeader(hdr') /\ job' \in Jobs
    BY <1>3, <1>a, <1>b, AdvanceGood DEF TrimReadError
  <2>2. faults' \in 0 .. MaxFaults
    BY <1>3, HitType DEF TrimReadError
  <2> QED BY <1>3, <1>a, <2>1, <2>2 DEF TrimReadError, GoodFile, GoodHeader
<1>4. CASE StoreRecord
  <2> DEFINE n == Total(job.len)
  <2>1. n \in Nat /\ hdr.size + n <= Cap
    <3>1. job.len \in Nat /\ hdr.size \in 0 .. Cap
      BY <1>a, JobFields, HeaderFields DEF GoodHeader
    <3> QED BY <1>4, <3>1, CapPositive DEF StoreRecord, NeedsTrim, Total, Overhead
  <2>2. cells' = Written(n) /\ hdr' = [hdr EXCEPT !.head = (hdr.head + n) % Cap, !.size = hdr.size + n]
    BY <1>4 DEF StoreRecord
  <2> HIDE DEF n
  <2>3. cells' \in [Pos -> Cell] /\ GoodHeader(hdr')
    BY <1>a, <2>1, <2>2, WrittenType, StoredGood
  <2>4. GoodFile(durable') /\ pending' \in Nat
    BY <1>4, <1>a, <2>3, MarkDirtyGood DEF StoreRecord
  <2>5. written' \in 0 .. MaxWrites
    BY <1>4, <1>a, JobFields DEF StoreRecord
  <2> QED BY <1>4, <1>a, <1>b, <2>3, <2>4, <2>5 DEF StoreRecord, GoodFile, GoodHeader
<1>5. CASE StoreError
  <2>1. cells' \in [Pos -> Cell]
    BY <1>5, WrittenType DEF StoreError
  <2>2. faults' \in 0 .. MaxFaults
    BY <1>5, HitType DEF StoreError
  <2> QED BY <1>5, <1>a, <1>b, <2>1, <2>2 DEF StoreError, GoodFile, GoodHeader
<1>6. CASE PopOne
  <2>1. GoodHeader(hdr') /\ GoodFile(durable') /\ pending' \in Nat
    BY <1>6, <1>a, PopGood, MoveGood DEF PopOne
  <2> QED BY <1>6, <1>a, <1>b, <2>1 DEF PopOne, GoodFile, GoodHeader
<1>7. CASE PopReadError
  <2>1. GoodMove([hdr |-> Advance(hdr, 1), dirty |-> TRUE])
    BY <1>a, AdvanceGood DEF GoodMove
  <2>2. GoodMove([hdr |-> Advance(Scan(cells, hdr).hdr, 1), dirty |-> TRUE])
    BY <1>a, ScanGood, AdvanceGood DEF GoodMove
  <2>3. GoodHeader(hdr') /\ GoodFile(durable') /\ pending' \in Nat
    BY <1>7, <2>1, <2>2, MoveGood DEF PopReadError
  <2>4. faults' \in 0 .. MaxFaults
    BY <1>7, HitType DEF PopReadError
  <2> QED BY <1>7, <1>a, <1>b, <2>3, <2>4 DEF PopReadError, GoodFile, GoodHeader
<1>8. CASE ReadOne
  <2>1. GoodHeader(hdr') /\ GoodFile(durable') /\ pending' \in Nat
    BY <1>8, <1>a, ReadGood, MoveGood DEF ReadOne
  <2>2. peeked' \in 0 .. MaxWrites
    BY <1>8, <1>a, ReadGood DEF ReadOne
  <2> QED BY <1>8, <1>a, <2>1, <2>2 DEF ReadOne, GoodFile, GoodHeader
<1>9. CASE Flush
  BY <1>9, <1>a DEF Flush, Flushed, GoodFile, GoodHeader
<1>10. CASE Reopen
  BY <1>10, <1>a, <1>b DEF Reopen, GoodFile, GoodHeader
<1>11. CASE Reset
  BY <1>11, <1>a, <1>b, BlankGood, EmptyGood DEF Reset, GoodFile, GoodHeader, Blank
<1>12. CASE Rot
  <2>1. PICK i \in 0 .. hdr.size - 1, n \in RotTo :
          LET p == (hdr.tail + i) % Cap
          IN  /\ cells' = [cells EXCEPT ![p] = <<"junk", n>>]
              /\ durable' = IF durable.cells[p] = cells[p]
                            THEN [durable EXCEPT !.cells[p] = <<"junk", n>>]
                            ELSE durable
    BY <1>12 DEF Rot
  <2>2. <<"junk", n>> \in Cell
    BY CacheAssumption DEF Cell, Tags
  <2>3. cells' \in [Pos -> Cell]
    BY <1>a, <2>1, <2>2
  <2>4. GoodFile(durable')
    BY <1>a, <2>1, <2>2 DEF GoodFile
  <2>5. faults' \in 0 .. MaxFaults
    BY <1>12, HitType DEF Rot
  <2> QED BY <1>12, <1>a, <1>b, <2>3, <2>4, <2>5 DEF Rot, GoodFile, GoodHeader
<1>13. CASE HeaderRot
  <2>1. faults' \in 0 .. MaxFaults
    BY <1>13, HitType DEF HeaderRot
  <2> QED BY <1>13, <1>a, <2>1, BlankGood DEF HeaderRot, GoodFile, GoodHeader
<1>14. CASE UNCHANGED vars
  BY <1>14, <1>a DEF vars, GoodFile, GoodHeader
<1>15. CASE FlushError
  <2>1. faults' \in 0 .. MaxFaults
    BY <1>15, HitType DEF FlushError
  <2> QED BY <1>15, <1>a, <2>1 DEF FlushError, GoodFile, GoodHeader
<1> QED
  BY <1>1, <1>2, <1>3, <1>4, <1>5, <1>6, <1>7, <1>8, <1>9, <1>10, <1>11, <1>12, <1>13, <1>14,
     <1>15
  DEF Next, Crash, Restart

-----------------------------------------------------------------------------
\* The header and the counters keep their types, whatever happens to the file.
THEOREM CacheTypeCorrect == Spec => []TypeOK
<1>1. Inv => TypeOK
  BY DEF Inv
<1> QED
  BY <1>1, InitInv, NextInv, PTL DEF Spec

\* updateHeadPointer, advanceTailPointer and the scan keep the head size cells
\* behind the tail, so writing never lands on a record still to be read.
THEOREM CacheStaysAligned == Spec => []RingShape
<1>1. Inv => RingShape
  BY DEF Inv
<1> QED
  BY <1>1, InitInv, NextInv, PTL DEF Spec

-----------------------------------------------------------------------------
(* The records in the ring                                                 *)

\* From offset i on the ring has the record with the given length and id, as
\* it was written; some of its cells may have been damaged since.
RecordAt(c, h, i, n, id) ==
  /\ i + Total(n) <= h.size
  /\ \A j \in 0 .. Total(n) - 1 :
       At(c, h, i + j) = RecordCell([id |-> id, len |-> n], j) \/ At(c, h, i + j)[1] = "junk"

\* Wherever the ring has the first half of a marker, a whole record was laid.
Laid(c, h) ==
  \A i \in 0 .. h.size - 1 :
    At(c, h, i)[1] = "m1" => \E n \in 1 .. MaxLen, id \in 1 .. MaxWrites : RecordAt(c, h, i, n, id)

JobFits == job = NoJob \/ (job.id \in 1 .. MaxWrites /\ job.len \in Lens)

PeekedIsFront == peeked # 0 => job = NoJob /\ hdr.size # 0 /\ FrontRecord(cells, hdr) = peeked

LInv ==
  /\ Inv
  /\ Laid(cells, hdr) /\ Laid(durable.cells, durable.hdr)
  /\ JobFits
  /\ PeekedIsFront

\* The cells of a record, by their offsets
LEMMA RecordCells ==
  ASSUME NEW c, NEW h, NEW i \in Nat, NEW n \in 1 .. MaxLen, NEW id, RecordAt(c, h, i, n, id)
  PROVE  /\ Total(n) = n + 4 /\ i + n + 4 <= h.size
         /\ At(c, h, i)[1] \in {"m1", "junk"}
         /\ At(c, h, i + 1)[1] \in {"m2", "junk"}
         /\ At(c, h, i + 2) = <<"len", n>> \/ At(c, h, i + 2)[1] = "junk"
         /\ \A j \in 3 .. n + 2 : At(c, h, i + j) = <<"data", id>> \/ At(c, h, i + j)[1] = "junk"
         /\ At(c, h, i + n + 3) = <<"crc", id>> \/ At(c, h, i + n + 3)[1] = "junk"
         /\ \A j \in 1 .. n + 3 : At(c, h, i + j)[1] # "m1"
<1> DEFINE r == [id |-> id, len |-> n]
<1>1. n \in Nat /\ n >= 1 /\ Total(n) = n + 4 /\ i + n + 4 <= h.size
  BY CacheAssumption DEF RecordAt, Total, Overhead
<1>2. \A j \in 0 .. n + 3 : At(c, h, i + j) = RecordCell(r, j) \/ At(c, h, i + j)[1] = "junk"
  BY <1>1 DEF RecordAt
<1>3. r.id = id /\ r.len = n
  OBVIOUS
<1> HIDE DEF r
<1>4. /\ RecordCell(r, 0) = <<"m1", 0>>
      /\ RecordCell(r, 1) = <<"m2", 0>>
      /\ RecordCell(r, 2) = <<"len", n>>
      /\ \A j \in 3 .. n + 2 : RecordCell(r, j) = <<"data", id>>
      /\ RecordCell(r, n + 3) = <<"crc", id>>
  BY <1>1, <1>3 DEF RecordCell
<1>5. At(c, h, i)[1] \in {"m1", "junk"}
  <2>1. i + 0 = i /\ 0 \in 0 .. n + 3
    BY <1>1
  <2> QED BY <1>2, <1>4, <2>1
<1>6. At(c, h, i + 1)[1] \in {"m2", "junk"}
  BY <1>1, <1>2, <1>4
<1>7. At(c, h, i + 2) = <<"len", n>> \/ At(c, h, i + 2)[1] = "junk"
  BY <1>1, <1>2, <1>4
<1>8. \A j \in 3 .. n + 2 : At(c, h, i + j) = <<"data", id>> \/ At(c, h, i + j)[1] = "junk"
  BY <1>1, <1>2, <1>4
<1>9. At(c, h, i + n + 3) = <<"crc", id>> \/ At(c, h, i + n + 3)[1] = "junk"
  <2>1. i + (n + 3) = i + n + 3 /\ n + 3 \in 0 .. n + 3
    BY <1>1
  <2> QED BY <1>2, <1>4, <2>1
<1>10. ASSUME NEW j \in 1 .. n + 3 PROVE At(c, h, i + j)[1] # "m1"
  <2>1. j = 1 \/ j = 2 \/ j \in 3 .. n + 2 \/ j = n + 3
    BY <1>1
  <2>2. i + (n + 3) = i + n + 3
    BY <1>1
  <2> QED BY <1>6, <1>7, <1>8, <1>9, <2>1, <2>2
<1> QED BY <1>1, <1>5, <1>6, <1>7, <1>8, <1>9, <1>10

-----------------------------------------------------------------------------
(* Moving the header                                                       *)

\* When the tail advances, offsets count from further on.
LEMMA AdvanceAt ==
  ASSUME NEW c, NEW h \in Header, NEW k \in Nat, k < h.size
  PROVE  /\ Advance(h, k).size = h.size - k
         /\ \A i \in 0 .. h.size - k - 1 : At(c, Advance(h, k), i) = At(c, h, k + i)
<1> DEFINE x == h.tail + k
           g == Advance(h, k)
<1>1. h.tail \in 0 .. Cap - 1 /\ h.size \in 0 .. Cap /\ Cap \in Nat /\ Cap > 4
  BY HeaderFields, CapPositive
<1>2. g = [h EXCEPT !.tail = x % Cap, !.size = h.size - k]
  BY <1>1 DEF Advance
<1>3. g.tail = x % Cap /\ g.size = h.size - k
  BY <1>2 DEF Header
<1>4. x \in 0 .. 2 * Cap - 1
  BY <1>1
<1>5. x % Cap = IF x < Cap THEN x ELSE x - Cap
  <2> HIDE DEF x
  <2> QED BY <1>4, Wrap
<1> HIDE DEF g
<1>6. ASSUME NEW i \in 0 .. h.size - k - 1
      PROVE  (g.tail + i) % Cap = (h.tail + (k + i)) % Cap
  <2> DEFINE y == h.tail + (k + i)
  <2>1. y \in 0 .. 2 * Cap - 1 /\ i \in Nat
    BY <1>1
  <2>2. CASE x < Cap
    <3>1. g.tail + i = y
      BY <1>1, <1>3, <1>5, <2>1, <2>2
    <3> QED BY <3>1
  <2>3. CASE ~(x < Cap)
    <3>1. g.tail + i = y - Cap /\ y - Cap \in 0 .. Cap - 1
      BY <1>1, <1>3, <1>5, <2>1, <2>3
    <3>2. ~(y < Cap)
      BY <1>1, <2>1, <2>3
    <3> HIDE DEF y
    <3>3. y % Cap = y - Cap
      BY <2>1, <3>2, Wrap
    <3>4. (y - Cap) % Cap = y - Cap
      <4> DEFINE z == y - Cap
      <4>1. z \in 0 .. 2 * Cap - 1 /\ z < Cap
        BY <1>1, <3>1
      <4> HIDE DEF z
      <4>2. z % Cap = z
        BY <4>1, Wrap
      <4> QED BY <4>2 DEF z
    <3> QED BY <3>1, <3>3, <3>4 DEF y
  <2> QED BY <2>2, <2>3
<1> QED BY <1>3, <1>6 DEF At, g

LEMMA EmptyLaid ==
  ASSUME NEW c
  PROVE  Laid(c, Empty)
BY DEF Laid, Empty

\* Records that are laid stay so behind a tail that advances.
LEMMA AdvanceLaid ==
  ASSUME NEW c, NEW h \in Header, Laid(c, h), NEW k \in Nat
  PROVE  Laid(c, Advance(h, k))
<1> DEFINE g == Advance(h, k)
<1>1. h.size \in 0 .. Cap /\ Cap \in Nat
  BY HeaderFields, CapPositive
<1>2. CASE k >= h.size
  BY <1>2, EmptyLaid DEF Advance
<1>3. CASE k < h.size
  <2>1. /\ g.size = h.size - k
        /\ \A i \in 0 .. h.size - k - 1 : At(c, g, i) = At(c, h, k + i)
    BY <1>3, AdvanceAt
  <2> HIDE DEF g
  <2>2. ASSUME NEW i \in 0 .. g.size - 1, At(c, g, i)[1] = "m1"
        PROVE  \E n \in 1 .. MaxLen, id \in 1 .. MaxWrites : RecordAt(c, g, i, n, id)
    <3>1. k + i \in 0 .. h.size - 1 /\ i \in Nat
      BY <1>1, <1>3, <2>1
    <3>2. At(c, h, k + i)[1] = "m1"
      BY <2>1, <2>2
    <3>3. PICK n \in 1 .. MaxLen, id \in 1 .. MaxWrites : RecordAt(c, h, k + i, n, id)
      BY <3>1, <3>2 DEF Laid
    <3>4. n \in Nat /\ Total(n) \in Nat /\ (k + i) + Total(n) <= h.size
      BY <3>3, CacheAssumption DEF RecordAt, Total, Overhead
    <3>5. i + Total(n) <= g.size
      BY <1>1, <2>1, <3>1, <3>4
    <3>6. ASSUME NEW j \in 0 .. Total(n) - 1
          PROVE  At(c, g, i + j) = At(c, h, (k + i) + j)
      <4>1. i + j \in 0 .. h.size - k - 1 /\ k + (i + j) = (k + i) + j
        BY <1>1, <3>1, <3>4
      <4> QED BY <2>1, <4>1
    <3>7. RecordAt(c, g, i, n, id)
      BY <3>3, <3>5, <3>6 DEF RecordAt
    <3> QED BY <3>7
  <2> QED BY <2>2 DEF Laid, g
<1> QED BY <1>1, <1>2, <1>3

\* Every header a call may leave is one that was advanced.
LEMMA ScanAdvances ==
  ASSUME NEW c, NEW h, GoodHeader(h)
  PROVE  \E k \in Nat : Scan(c, h).hdr = Advance(h, k)
<1> DEFINE found == MarkersInReach(c, h)
           first == CHOOSE i \in found : \A j \in found : i <= j
<1>1. h.size \in 0 .. Cap
  BY HeaderFields DEF GoodHeader
<1>2. CASE h.size > 2 /\ found # {}
  <2>1. found \in SUBSET Nat
    BY <1>1, CapPositive DEF MarkersInReach
  <2>2. first \in Nat
    BY <1>2, <2>1, SmallestOffset
  <2>3. Scan(c, h) = [result |-> "FOUND", hdr |-> Advance(h, first)]
    BY <1>2 DEF Scan
  <2> HIDE DEF first
  <2> QED BY <2>2, <2>3
<1>3. CASE h.size > 2 /\ found = {} /\ h.size - 1 >= ScanBudget
  <2>1. Scan(c, h) = [result |-> "NEED_MORE", hdr |-> Advance(h, ScanBudget)]
    BY <1>3 DEF Scan
  <2> QED BY <2>1, CacheAssumption
<1>4. CASE ~(h.size > 2 /\ found # {}) /\ ~(h.size > 2 /\ found = {} /\ h.size - 1 >= ScanBudget)
  <2>1. Scan(c, h) = [result |-> "EMPTY", hdr |-> Empty]
    BY <1>4 DEF Scan
  <2>2. Advance(h, h.size) = Empty /\ h.size \in Nat
    BY <1>1, CapPositive DEF Advance
  <2> QED BY <2>1, <2>2
<1> QED BY <1>2, <1>3, <1>4

LEMMA ScanLaid ==
  ASSUME NEW c, NEW h, GoodHeader(h), Laid(c, h)
  PROVE  Laid(c, Scan(c, h).hdr)
BY ScanAdvances, AdvanceLaid DEF GoodHeader

LEMMA PopFrontLaid ==
  ASSUME NEW c \in [Pos -> Cell], NEW h, GoodHeader(h), Laid(c, h)
  PROVE  Laid(c, PopFront(c, h))
<1>1. LenAt(c, h, 2) \in Nat
  BY LenAtType DEF GoodHeader
<1>2. PICK k \in Nat : PopFront(c, h) = Advance(h, k)
  BY <1>1 DEF PopFront, Total, Overhead
<1> QED BY <1>2, AdvanceLaid DEF GoodHeader

LEMMA PopLaid ==
  ASSUME NEW c \in [Pos -> Cell], NEW h, GoodHeader(h), Laid(c, h)
  PROVE  Laid(c, Pop(c, h).hdr)
<1> DEFINE s == Scan(c, h)
<1>1. GoodHeader(s.hdr) /\ Laid(c, s.hdr)
  BY ScanGood, ScanLaid
<1>2. Laid(c, PopFront(c, s.hdr)) /\ Laid(c, PopFront(c, h)) /\ Laid(c, Advance(h, 1))
  <2> HIDE DEF s
  <2> QED BY <1>1, PopFrontLaid, AdvanceLaid DEF GoodHeader
<1> QED BY <1>1, <1>2 DEF Pop

LEMMA ReadLaid ==
  ASSUME NEW c \in [Pos -> Cell], NEW h, GoodHeader(h), Laid(c, h)
  PROVE  Laid(c, Read(c, h).hdr)
<1> DEFINE r == Read(c, h)
           s == Scan(c, h)
           p == Pop(c, h)
<1>1. r.hdr = h \/ r.hdr = p.hdr \/ r.hdr = s.hdr
  BY DEF Read
<1>2. Laid(c, p.hdr) /\ Laid(c, s.hdr)
  BY PopLaid, ScanLaid
<1> HIDE DEF r, s, p
<1>3. Laid(c, r.hdr)
  BY <1>1, <1>2
<1> QED BY <1>3 DEF r

-----------------------------------------------------------------------------
(* Writing at the head                                                     *)

\* Where a cell of the ring is, counted from the head: one in the ring is as
\* far on as the free cells are, one behind the ring is at its own distance.
LEMMA FromHead ==
  ASSUME NEW h, GoodHeader(h), NEW i \in 0 .. Cap - 1
  PROVE  (((h.tail + i) % Cap) - h.head) % Cap
           = IF i < h.size THEN Cap - (h.size - i) ELSE i - h.size
<1> DEFINE a == h.tail + i
           b == h.tail + h.size
           p == a % Cap
           q == b % Cap
<1>1. /\ h.tail \in 0 .. Cap - 1 /\ h.size \in 0 .. Cap /\ Cap \in Nat /\ Cap > 4
      /\ h.head = q
  BY HeaderFields, CapPositive DEF GoodHeader, Aligned
<1>2. a \in 0 .. 2 * Cap - 1 /\ b \in 0 .. 2 * Cap - 1
  BY <1>1
<1>3. p = (IF a < Cap THEN a ELSE a - Cap) /\ q = (IF b < Cap THEN b ELSE b - Cap)
  <2> HIDE DEF a, b
  <2> QED BY <1>2, Wrap
<1> HIDE DEF p, q
<1>4. \/ p - q \in 0 .. Cap - 1 /\ p - q = (IF i < h.size THEN Cap - (h.size - i) ELSE i - h.size)
      \/ /\ p - q \in -(Cap - 1) .. -1
         /\ p - q + Cap = (IF i < h.size THEN Cap - (h.size - i) ELSE i - h.size)
  BY <1>1, <1>2, <1>3
<1> DEFINE d == p - q
<1>5. CASE d \in 0 .. Cap - 1
  <2>1. d \in 0 .. 2 * Cap - 1 /\ d < Cap
    BY <1>1, <1>5
  <2> HIDE DEF d
  <2>2. d % Cap = d
    BY <2>1, Wrap
  <2> QED BY <1>1, <1>4, <1>5, <2>2 DEF d, p
<1>6. CASE d \in -(Cap - 1) .. -1
  <2> HIDE DEF d
  <2>1. d % Cap = d + Cap
    BY <1>1, <1>6
  <2> QED BY <1>1, <1>4, <1>6, <2>1 DEF d, p
<1> QED BY <1>4, <1>5, <1>6

\* A write of n cells that fit leaves the ring alone and follows it.
LEMMA WrittenAt ==
  ASSUME GoodHeader(hdr), NEW n \in Nat, hdr.size + n <= Cap
  PROVE  /\ \A i \in 0 .. hdr.size - 1 : At(Written(n), hdr, i) = At(cells, hdr, i)
         /\ \A j \in 0 .. n - 1 : At(Written(n), hdr, hdr.size + j) = RecordCell(job, j)
<1>1. hdr.size \in 0 .. Cap /\ hdr.tail \in 0 .. Cap - 1 /\ Cap \in Nat
  BY HeaderFields, CapPositive DEF GoodHeader
<1>2. ASSUME NEW i \in 0 .. Cap - 1
      PROVE  At(Written(n), hdr, i)
               = LET d == (((hdr.tail + i) % Cap) - hdr.head) % Cap
                 IN IF d < n THEN RecordCell(job, d) ELSE At(cells, hdr, i)
  <2>1. (hdr.tail + i) % Cap \in Pos
    BY <1>1, ModType
  <2> QED BY <2>1 DEF At, Written
<1>3. ASSUME NEW i \in 0 .. hdr.size - 1
      PROVE  At(Written(n), hdr, i) = At(cells, hdr, i)
  <2> DEFINE d == (((hdr.tail + i) % Cap) - hdr.head) % Cap
  <2>1. i \in 0 .. Cap - 1 /\ i < hdr.size
    BY <1>1
  <2>2. d = Cap - (hdr.size - i)
    BY <2>1, FromHead
  <2>3. At(Written(n), hdr, i) = IF d < n THEN RecordCell(job, d) ELSE At(cells, hdr, i)
    BY <1>2, <2>1
  <2> HIDE DEF d
  <2>4. ~(d < n)
    BY <1>1, <2>1, <2>2
  <2> QED BY <2>3, <2>4
<1>4. ASSUME NEW j \in 0 .. n - 1
      PROVE  At(Written(n), hdr, hdr.size + j) = RecordCell(job, j)
  <2> DEFINE i == hdr.size + j
             d == (((hdr.tail + i) % Cap) - hdr.head) % Cap
  <2>1. i \in 0 .. Cap - 1 /\ ~(i < hdr.size) /\ i - hdr.size = j
    BY <1>1
  <2>2. d = j
    <3> HIDE DEF i
    <3> QED BY <2>1, FromHead
  <2>3. At(Written(n), hdr, i) = IF d < n THEN RecordCell(job, d) ELSE At(cells, hdr, i)
    BY <1>2, <2>1
  <2> HIDE DEF d, i
  <2>4. j < n
    BY <1>1
  <2> QED BY <2>2, <2>3, <2>4 DEF i
<1> QED BY <1>3, <1>4

\* What is laid depends on the cells in the ring only, and damage does not
\* undo it.
LEMMA SameRing ==
  ASSUME NEW c, NEW d, NEW h \in Header, Laid(c, h),
         \A i \in 0 .. h.size - 1 : At(d, h, i) = At(c, h, i) \/ At(d, h, i)[1] = "junk"
  PROVE  Laid(d, h)
<1>1. h.size \in Nat
  BY HeaderFields, CapPositive
<1>2. ASSUME NEW i \in 0 .. h.size - 1, At(d, h, i)[1] = "m1"
      PROVE  \E n \in 1 .. MaxLen, id \in 1 .. MaxWrites : RecordAt(d, h, i, n, id)
  <2>1. PICK n \in 1 .. MaxLen, id \in 1 .. MaxWrites : RecordAt(c, h, i, n, id)
    BY <1>2 DEF Laid
  <2>2. \A j \in 0 .. Total(n) - 1 : i + j \in 0 .. h.size - 1
    BY <1>1, <2>1, CacheAssumption DEF RecordAt, Total, Overhead
  <2>3. RecordAt(d, h, i, n, id)
    BY <2>1, <2>2 DEF RecordAt
  <2> QED BY <2>3
<1> QED BY <1>2 DEF Laid

\* A stored record is laid behind the ones before it.
LEMMA StoredLaid ==
  ASSUME GoodHeader(hdr), Laid(cells, hdr), job.id \in 1 .. MaxWrites, job.len \in 1 .. MaxLen,
         job \in [id : 0 .. MaxWrites, len : {0} \cup Lens],
         hdr.size + Total(job.len) <= Cap,
         NEW g \in Header, g.tail = hdr.tail, g.size = hdr.size + Total(job.len)
  PROVE  Laid(Written(Total(job.len)), g)
<1> DEFINE n == Total(job.len)
           d == Written(n)
<1>1. n \in Nat /\ n = job.len + 4 /\ hdr.size \in Nat /\ hdr \in Header
  BY HeaderFields, CapPositive, CacheAssumption DEF Total, Overhead, GoodHeader
<1>2. \A i : At(d, g, i) = At(d, hdr, i)
  BY DEF At
<1> DEFINE j0 == [id |-> job.id, len |-> job.len]
<1>3. /\ \A i \in 0 .. hdr.size - 1 : At(d, hdr, i) = At(cells, hdr, i)
      /\ \A j \in 0 .. n - 1 : At(d, hdr, hdr.size + j) = RecordCell(job, j)
  <2> HIDE DEF n
  <2> QED BY <1>1, WrittenAt DEF n
<1>4. j0 = job
  OBVIOUS
<1> HIDE DEF d, n, j0
<1>5. Laid(d, hdr)
  BY <1>1, <1>3, SameRing
<1>6. ASSUME NEW i \in 0 .. g.size - 1, At(d, g, i)[1] = "m1"
      PROVE  \E m \in 1 .. MaxLen, id \in 1 .. MaxWrites : RecordAt(d, g, i, m, id)
  <2>1. CASE i < hdr.size
    <3>1. PICK m \in 1 .. MaxLen, id \in 1 .. MaxWrites : RecordAt(d, hdr, i, m, id)
      BY <1>1, <1>2, <1>5, <1>6, <2>1 DEF Laid
    <3>2. i + Total(m) <= g.size
      BY <1>1, <3>1, CacheAssumption DEF RecordAt, Total, Overhead, n
    <3>3. RecordAt(d, g, i, m, id)
      BY <1>2, <3>1, <3>2 DEF RecordAt
    <3> QED BY <3>3
  <2>2. CASE i = hdr.size
    <3>1. i + Total(job.len) <= g.size
      BY <1>1, <2>2 DEF n
    <3>2. \A j \in 0 .. Total(job.len) - 1 : At(d, g, i + j) = RecordCell(j0, j)
      BY <1>2, <1>3, <1>4, <2>2 DEF n
    <3>3. RecordAt(d, g, i, job.len, job.id)
      BY <3>1, <3>2 DEF RecordAt, j0
    <3> QED BY <3>3
  <2>3. CASE i > hdr.size
    <3>1. i - hdr.size \in 1 .. n - 1 /\ hdr.size + (i - hdr.size) = i
      BY <1>1, <2>3 DEF n
    <3>2. At(d, g, i) = RecordCell(job, i - hdr.size)
      BY <1>1, <1>2, <1>3, <3>1
    <3>3. RecordCell(job, i - hdr.size)[1] # "m1"
      BY <1>1, <3>1 DEF RecordCell
    <3> QED BY <1>6, <3>2, <3>3
  <2> QED BY <1>1, <2>1, <2>2, <2>3
<1> QED BY <1>6 DEF Laid, d, n

-----------------------------------------------------------------------------
(* The stronger invariant                                                  *)

LEMMA InitLInv == Init => LInv
<1> SUFFICES ASSUME Init PROVE LInv
  OBVIOUS
<1>1. Laid(cells, hdr) /\ Laid(durable.cells, durable.hdr)
  BY EmptyLaid DEF Init
<1> QED
  BY <1>1, InitInv DEF Init, LInv, JobFits, PeekedIsFront

LEMMA MarkDirtyLaid ==
  ASSUME NEW c, NEW h, Laid(c, h), Laid(durable.cells, durable.hdr), MarkDirty(c, h)
  PROVE  Laid(durable'.cells, durable'.hdr)
<1>1. CASE Flushed(c, h)
  <2>1. durable'.cells = c /\ durable'.hdr = h
    BY <1>1 DEF Flushed
  <2> QED BY <2>1
<1>2. CASE UNCHANGED durable
  BY <1>2
<1> QED BY <1>1, <1>2 DEF MarkDirty

LEMMA MoveLaid ==
  ASSUME NEW u, Laid(cells, u.hdr), Laid(durable.cells, durable.hdr), Move(u)
  PROVE  Laid(cells, hdr') /\ Laid(durable'.cells, durable'.hdr)
<1>1. hdr' = u.hdr
  BY DEF Move
<1>2. CASE MarkDirty(cells, hdr')
  <2> DEFINE h == u.hdr
  <2>1. Laid(cells, h) /\ MarkDirty(cells, h)
    BY <1>1, <1>2
  <2> HIDE DEF h
  <2>2. Laid(durable'.cells, durable'.hdr)
    BY <2>1, MarkDirtyLaid
  <2> QED BY <1>1, <2>2
<1>3. CASE UNCHANGED durable
  BY <1>1, <1>3
<1> QED BY <1>2, <1>3 DEF Move

\* Damage to one cell does not undo what is laid.
LEMMA RotLaid ==
  ASSUME NEW c \in [Pos -> Cell], NEW h \in Header, Laid(c, h), NEW p, NEW n
  PROVE  Laid([c EXCEPT ![p] = <<"junk", n>>], h)
<1> DEFINE d == [c EXCEPT ![p] = <<"junk", n>>]
<1>1. ASSUME NEW i \in 0 .. h.size - 1
      PROVE  At(d, h, i) = At(c, h, i) \/ At(d, h, i)[1] = "junk"
  <2>1. (h.tail + i) % Cap \in Pos
    BY HeaderFields, ModType, CapPositive
  <2> QED BY <2>1 DEF At
<1> HIDE DEF d
<1>2. Laid(d, h)
  BY <1>1, SameRing
<1> QED BY <1>2 DEF d

LEMMA NextLaid ==
  ASSUME LInv, Next
  PROVE  Laid(cells', hdr') /\ Laid(durable'.cells, durable'.hdr)
<1>a. /\ cells \in [Pos -> Cell] /\ GoodHeader(hdr) /\ hdr \in Header /\ GoodFile(durable)
      /\ job \in [id : 0 .. MaxWrites, len : {0} \cup Lens]
      /\ Laid(cells, hdr) /\ Laid(durable.cells, durable.hdr)
  BY InvParts DEF LInv, GoodHeader
<1>b. Laid(cells, Advance(hdr, 1)) /\ Laid(cells, Scan(cells, hdr).hdr)
      /\ Laid(cells, Advance(Scan(cells, hdr).hdr, 1))
  <2> DEFINE g == Scan(cells, hdr).hdr
  <2>1. Laid(cells, g) /\ g \in Header
    BY <1>a, ScanLaid, ScanGood DEF GoodHeader
  <2> HIDE DEF g
  <2>2. Laid(cells, Advance(g, 1))
    BY <2>1, AdvanceLaid
  <2> QED BY <1>a, <2>1, <2>2, AdvanceLaid DEF g
<1>1. CASE TrimStep
  <2> DEFINE m == IF LenAt(cells, hdr, 2) \in 1 .. MaxLen
                  THEN Total(LenAt(cells, hdr, 2)) ELSE 1
  <2>1. \/ hdr' = Advance(hdr, m)
        \/ hdr' = hdr
        \/ hdr' = Scan(cells, hdr).hdr
    BY <1>1 DEF TrimStep
  <2>2. m \in Nat
    BY CacheAssumption DEF Total, Overhead
  <2> HIDE DEF m
  <2>3. Laid(cells, hdr')
    BY <1>a, <1>b, <2>1, <2>2, AdvanceLaid
  <2> QED BY <1>1, <1>a, <2>3 DEF TrimStep
<1>2. CASE TrimReadError
  BY <1>2, <1>a, <1>b DEF TrimReadError
<1>3. CASE StoreRecord
  <2> DEFINE n == Total(job.len)
             g == [hdr EXCEPT !.head = (hdr.head + n) % Cap, !.size = hdr.size + n]
  <2>1. job.id \in 1 .. MaxWrites /\ job.len \in Lens /\ job.len \in 1 .. MaxLen
    BY <1>3, CacheAssumption DEF StoreRecord, LInv, JobFits
  <2>2. n \in Nat /\ hdr.size + n <= Cap
    <3>1. job.len \in Nat /\ hdr.size \in 0 .. Cap
      BY <1>a, JobFields, HeaderFields
    <3> QED BY <1>3, <3>1, CapPositive DEF StoreRecord, NeedsTrim, Total, Overhead
  <2>3. cells' = Written(n) /\ hdr' = g
    BY <1>3 DEF StoreRecord
  <2>4. g \in Header
    <3> HIDE DEF n
    <3> QED BY <1>a, <2>2, StoredGood DEF GoodHeader
  <2>5. g.tail = hdr.tail /\ g.size = hdr.size + n
    <3> HIDE DEF n
    <3> QED BY <1>a DEF Header
  <2> HIDE DEF g
  <2>6. Laid(cells', g)
    BY <1>a, <2>1, <2>2, <2>3, <2>4, <2>5, StoredLaid
  <2>7. MarkDirty(cells', hdr')
    BY <1>3 DEF StoreRecord
  <2>8. Laid(durable'.cells, durable'.hdr)
    <3> DEFINE d == Written(n)
    <3>1. Laid(d, g) /\ MarkDirty(d, g)
      BY <2>3, <2>6, <2>7
    <3> HIDE DEF d
    <3> QED BY <1>a, <3>1, MarkDirtyLaid
  <2> QED BY <2>3, <2>6, <2>8
<1>4. CASE StoreError
  <2>1. PICK n \in 0 .. Total(job.len) - 1 : cells' = Written(n)
    BY <1>4 DEF StoreError
  <2>2. job.len \in Nat /\ hdr.size \in 0 .. Cap
    BY <1>a, JobFields, HeaderFields
  <2>3. n \in Nat /\ hdr.size + n <= Cap
    BY <1>4, <2>2, CapPositive DEF StoreError, NeedsTrim, Total, Overhead
  <2> DEFINE d == Written(n)
  <2>4. \A i \in 0 .. hdr.size - 1 : At(d, hdr, i) = At(cells, hdr, i)
    BY <1>a, <2>3, WrittenAt
  <2> HIDE DEF d
  <2>5. Laid(d, hdr)
    BY <1>a, <2>4, SameRing
  <2> QED BY <1>4, <1>a, <2>1, <2>5 DEF StoreError, d
<1>5. CASE PopOne
  <2>1. Laid(cells, Pop(cells, hdr).hdr)
    BY <1>a, PopLaid
  <2>2. Move(Pop(cells, hdr)) /\ cells' = cells
    BY <1>5 DEF PopOne
  <2> QED BY <1>a, <2>1, <2>2, MoveLaid
<1>6. CASE PopReadError
  <2>1. PICK g \in {Advance(hdr, 1), Advance(Scan(cells, hdr).hdr, 1)} :
          Move([hdr |-> g, dirty |-> TRUE])
    BY <1>6 DEF PopReadError
  <2>2. Laid(cells, [hdr |-> g, dirty |-> TRUE].hdr) /\ cells' = cells
    BY <1>6, <1>b, <2>1 DEF PopReadError
  <2> QED BY <1>a, <2>1, <2>2, MoveLaid
<1>7. CASE ReadOne
  <2>1. Laid(cells, Read(cells, hdr).hdr)
    BY <1>a, ReadLaid
  <2>2. Move(Read(cells, hdr)) /\ cells' = cells
    BY <1>7 DEF ReadOne
  <2> QED BY <1>a, <2>1, <2>2, MoveLaid
<1>8. CASE Flush
  BY <1>8, <1>a DEF Flush, Flushed
<1>9. CASE Reopen
  BY <1>9, <1>a DEF Reopen
<1>10. CASE Reset
  BY <1>10, <1>a, EmptyLaid DEF Reset, Blank
<1>11. CASE Rot
  <2>1. PICK i \in 0 .. hdr.size - 1, n \in RotTo :
          LET p == (hdr.tail + i) % Cap
          IN  /\ cells' = [cells EXCEPT ![p] = <<"junk", n>>]
              /\ durable' = IF durable.cells[p] = cells[p]
                            THEN [durable EXCEPT !.cells[p] = <<"junk", n>>]
                            ELSE durable
    BY <1>11 DEF Rot
  <2> DEFINE p == (hdr.tail + i) % Cap
  <2>2. /\ cells' = [cells EXCEPT ![p] = <<"junk", n>>]
        /\ \/ durable' = [durable EXCEPT !.cells[p] = <<"junk", n>>]
           \/ durable' = durable
        /\ hdr' = hdr
    BY <1>11, <2>1 DEF Rot
  <2> HIDE DEF p
  <2>3. Laid(cells', hdr')
    BY <1>a, <2>2, RotLaid
  <2>4. CASE durable' = [durable EXCEPT !.cells[p] = <<"junk", n>>]
    <3>1. /\ durable'.cells = [durable.cells EXCEPT ![p] = <<"junk", n>>]
          /\ durable'.hdr = durable.hdr
      BY <1>a, <2>4 DEF GoodFile
    <3>2. durable.cells \in [Pos -> Cell] /\ durable.hdr \in Header
      BY <1>a DEF GoodFile
    <3> DEFINE e == [durable.cells EXCEPT ![p] = <<"junk", n>>]
    <3>3. Laid(e, durable.hdr)
      BY <1>a, <3>2, RotLaid
    <3> HIDE DEF e
    <3> QED BY <2>3, <3>1, <3>3 DEF e
  <2>5. CASE durable' = durable
    BY <1>a, <2>3, <2>5
  <2> QED BY <2>2, <2>4, <2>5
<1>12. CASE HeaderRot
  BY <1>12, <1>a, EmptyLaid DEF HeaderRot, Blank
<1>13. CASE UNCHANGED <<cells, hdr, durable>>
  BY <1>13, <1>a
<1> QED
  BY <1>1, <1>2, <1>3, <1>4, <1>5, <1>6, <1>7, <1>8, <1>9, <1>10, <1>11, <1>12, <1>13
     DEF Next, BeginWrite, FlushError, Crash, Restart

\* What a read reports about the record it leaves in place
LEMMA ReadKeepsFront ==
  ASSUME NEW c, NEW h, Read(c, h).id # 0
  PROVE  h.size # 0 /\ Read(c, h).hdr = h /\ Read(c, h).id = FrontRecord(c, h)
BY DEF Read

LEMMA NextLInv == LInv /\ [Next]_vars => LInv'
<1> SUFFICES ASSUME LInv, [Next]_vars PROVE LInv'
  OBVIOUS
<1>1. CASE UNCHANGED vars
  <2>1. Inv' /\ UNCHANGED <<cells, hdr, durable, job, peeked>>
    BY <1>1, NextInv DEF LInv, vars
  <2> QED BY <2>1 DEF LInv, JobFits, PeekedIsFront
<1>2. CASE Next
  <2>1. Inv'
    BY <1>2, NextInv DEF LInv
  <2>2. Laid(cells', hdr') /\ Laid(durable'.cells, durable'.hdr)
    BY <1>2, NextLaid
  <2>3. JobFits'
    <3>1. job' = job \/ job' = NoJob \/ BeginWrite
      BY <1>2 DEF Next, TrimStep, TrimReadError, StoreRecord, StoreError, PopOne, PopReadError,
                  ReadOne, Flush, FlushError, Crash, Restart, Reopen, Reset, Rot, HeaderRot
    <3>2. CASE BeginWrite
      <4>1. PICK n \in Lens : job' = [id |-> written + 1, len |-> n]
        BY <3>2 DEF BeginWrite
      <4>2. written + 1 \in 1 .. MaxWrites
        BY <3>2, CacheAssumption, InvParts DEF BeginWrite, LInv
      <4> QED BY <4>1, <4>2 DEF JobFits
    <3> QED BY <3>1, <3>2 DEF LInv, JobFits
  <2>4. PeekedIsFront'
    <3>1. CASE peeked' = 0
      BY <3>1 DEF PeekedIsFront
    <3>2. CASE UNCHANGED <<cells, hdr, job, peeked>>
      BY <3>2 DEF LInv, PeekedIsFront, FrontRecord, Matches, LenAt, At
    <3>3. CASE peeked' = peeked /\ job # NoJob
      BY <3>3 DEF LInv, PeekedIsFront
    <3>4. CASE ReadOne
      <4>1. /\ job = NoJob /\ job' = job /\ cells' = cells
            /\ peeked' = Read(cells, hdr).id /\ hdr' = Read(cells, hdr).hdr
        BY <3>4 DEF ReadOne, Move
      <4>2. CASE peeked' # 0
        <5>1. hdr.size # 0 /\ hdr' = hdr /\ peeked' = FrontRecord(cells, hdr)
          BY <4>1, <4>2, ReadKeepsFront
        <5>2. FrontRecord(cells, hdr)' = FrontRecord(cells, hdr)
          BY <4>1, <5>1
        <5> QED BY <4>1, <5>1, <5>2 DEF PeekedIsFront
      <4> QED BY <4>2 DEF PeekedIsFront
    <3> QED
      BY <1>2, <3>1, <3>2, <3>3, <3>4
         DEF Next, BeginWrite, TrimStep, NeedsTrim, TrimReadError, StoreRecord, StoreError, PopOne,
             PopReadError, Flush, FlushError, Crash, Restart, Reopen, Reset, Rot, HeaderRot
  <2> QED BY <2>1, <2>2, <2>3, <2>4 DEF LInv, Laid, RecordAt, At
<1> QED BY <1>1, <1>2

LEMMA SpecLInv == Spec => []LInv
<1> QED BY InitLInv, NextLInv, PTL DEF Spec

-----------------------------------------------------------------------------
(* What is read lies inside the ring                                       *)

LEMMA FrontMatches ==
  ASSUME NEW c, NEW h, FrontRecord(c, h) # 0
  PROVE  /\ LenAt(c, h, 2) \in 1 .. MaxLen
         /\ FrontRecord(c, h) \in 1 .. MaxWrites
         /\ Matches(c, h, 3, LenAt(c, h, 2), FrontRecord(c, h))
<1> DEFINE ids == {id \in 1 .. MaxWrites : Matches(c, h, 3, LenAt(c, h, 2), id)}
<1>1. LenAt(c, h, 2) \in 1 .. MaxLen /\ ids # {} /\ FrontRecord(c, h) = CHOOSE id \in ids : TRUE
  BY DEF FrontRecord
<1>2. FrontRecord(c, h) \in ids
  <2> HIDE DEF ids
  <2> QED BY <1>1
<1> QED BY <1>1, <1>2

\* A record that reads as one has the length it was stored with: a wrong
\* length puts the CRC where a payload cell is, or the other way round.
LEMMA FrontAsLaid ==
  ASSUME NEW c, NEW h \in Header, Laid(c, h), h.size # 0,
         MarkerAt(c, h, 0), FrontRecord(c, h) # 0
  PROVE  \E id \in 1 .. MaxWrites : RecordAt(c, h, 0, LenAt(c, h, 2), id)
<1> DEFINE n == LenAt(c, h, 2)
           f == FrontRecord(c, h)
<1>1. h.size \in Nat /\ 0 \in 0 .. h.size - 1
  BY HeaderFields, CapPositive
<1>2. PICK m \in 1 .. MaxLen, id \in 1 .. MaxWrites : RecordAt(c, h, 0, m, id)
  BY <1>1 DEF Laid, MarkerAt
<1>3. /\ \A j \in 3 .. m + 2 : At(c, h, 0 + j) = <<"data", id>> \/ At(c, h, 0 + j)[1] = "junk"
      /\ At(c, h, 0 + m + 3) = <<"crc", id>> \/ At(c, h, 0 + m + 3)[1] = "junk"
  <2> DEFINE i == 0
  <2>1. i \in Nat /\ RecordAt(c, h, i, m, id)
    BY <1>2
  <2> HIDE DEF i
  <2>2. /\ \A j \in 3 .. m + 2 : At(c, h, i + j) = <<"data", id>> \/ At(c, h, i + j)[1] = "junk"
        /\ At(c, h, i + m + 3) = <<"crc", id>> \/ At(c, h, i + m + 3)[1] = "junk"
    <3>1. /\ Total(m) = m + 4 /\ i + m + 4 <= h.size
          /\ At(c, h, i)[1] \in {"m1", "junk"}
          /\ At(c, h, i + 1)[1] \in {"m2", "junk"}
          /\ At(c, h, i + 2) = <<"len", m>> \/ At(c, h, i + 2)[1] = "junk"
          /\ \A j \in 3 .. m + 2 : At(c, h, i + j) = <<"data", id>> \/ At(c, h, i + j)[1] = "junk"
          /\ At(c, h, i + m + 3) = <<"crc", id>> \/ At(c, h, i + m + 3)[1] = "junk"
          /\ \A j \in 1 .. m + 3 : At(c, h, i + j)[1] # "m1"
      BY <2>1, RecordCells, Zenon
    <3> QED BY <3>1
  <2> QED BY <2>2 DEF i
<1>4. n \in 1 .. MaxLen /\ Matches(c, h, 3, n, f)
  BY FrontMatches
<1> HIDE DEF n, f
<1>5. /\ At(c, h, 3 + n) = <<"crc", f>>
      /\ \A j \in 3 .. n + 2 : At(c, h, j) = <<"data", f>>
  BY <1>4, CacheAssumption DEF Matches
<1>6. ~(n < m)
  <2> SUFFICES ASSUME n < m PROVE FALSE
    OBVIOUS
  <2>1. 3 + n \in 3 .. m + 2 /\ 0 + (3 + n) = 3 + n
    BY <1>4, CacheAssumption
  <2> QED BY <1>3, <1>5, <2>1
<1>7. ~(m < n)
  <2> SUFFICES ASSUME m < n PROVE FALSE
    OBVIOUS
  <2>1. 0 + m + 3 \in 3 .. n + 2
    BY <1>4, CacheAssumption
  <2> QED BY <1>3, <1>5, <2>1
<1>8. n = m
  BY <1>4, <1>6, <1>7, CacheAssumption
<1> QED BY <1>2, <1>8 DEF n

\* Whatever was damaged before, what is read behind a whole marker lies
\* between tail and head (CacheManager::read_oneImpl).
THEOREM ReadsTheRing == Spec => ReadsInsideRing
<1>1. LInv /\ [Next]_vars =>
        [ReadOne /\ peeked' # 0 /\ MarkerAt(cells, hdr, 0) =>
           Total(LenAt(cells, hdr, 2)) <= hdr.size]_vars
  <2> SUFFICES ASSUME LInv, ReadOne, peeked' # 0, MarkerAt(cells, hdr, 0)
               PROVE  Total(LenAt(cells, hdr, 2)) <= hdr.size
    OBVIOUS
  <2>1. peeked' = Read(cells, hdr).id /\ hdr \in Header /\ Laid(cells, hdr)
    BY InvParts DEF ReadOne, LInv, GoodHeader
  <2>2. hdr.size # 0 /\ FrontRecord(cells, hdr) # 0
    BY <2>1, ReadKeepsFront
  <2>3. PICK id \in 1 .. MaxWrites : RecordAt(cells, hdr, 0, LenAt(cells, hdr, 2), id)
    BY <2>1, <2>2, FrontAsLaid
  <2>4. LenAt(cells, hdr, 2) \in 1 .. MaxLen /\ hdr.size \in Nat
    BY <2>1, <2>2, FrontMatches, HeaderFields, CapPositive
  <2> QED BY <2>3, <2>4, CacheAssumption DEF RecordAt, Total, Overhead
<1> QED BY <1>1, SpecLInv, PTL DEF Spec, ReadsInsideRing

-----------------------------------------------------------------------------
(* What a pop and a read may cost                                          *)

\* The record id is whole and undamaged at offset i.
IntactAt(c, h, i, id) ==
  /\ MarkerAt(c, h, i)
  /\ LenAt(c, h, i + 2) \in 1 .. MaxLen
  /\ i + Total(LenAt(c, h, i + 2)) <= h.size
  /\ Matches(c, h, i + 3, LenAt(c, h, i + 2), id)

LEMMA IntactMeans ==
  ASSUME NEW c, NEW h
  PROVE  Intact(c, h) = {id \in 1 .. MaxWrites : \E i \in 0 .. h.size - 1 : IntactAt(c, h, i, id)}
BY DEF Intact, IntactAt

\* What is behind the new tail stays intact.
LEMMA IntactBehind ==
  ASSUME NEW c, NEW h \in Header, NEW k \in Nat, NEW i \in 0 .. h.size - 1, k <= i,
         NEW id \in 1 .. MaxWrites, IntactAt(c, h, i, id)
  PROVE  id \in Intact(c, Advance(h, k))
<1> DEFINE g == Advance(h, k)
           n == LenAt(c, h, i + 2)
           j == i - k
<1>1. h.size \in Nat /\ i \in Nat /\ k < h.size
  BY HeaderFields, CapPositive
<1>2. /\ g.size = h.size - k
      /\ \A x \in 0 .. h.size - k - 1 : At(c, g, x) = At(c, h, k + x)
  BY <1>1, AdvanceAt
<1>3. n \in 1 .. MaxLen /\ n \in Nat /\ Total(n) = n + 4 /\ i + n + 4 <= h.size
  BY <1>1, CacheAssumption DEF IntactAt, Total, Overhead
<1> HIDE DEF g
<1>4. ASSUME NEW x \in 0 .. n + 3 PROVE At(c, g, j + x) = At(c, h, i + x)
  <2>1. j + x \in 0 .. h.size - k - 1 /\ k + (j + x) = i + x
    BY <1>1, <1>3
  <2> QED BY <1>2, <2>1
<1>5. At(c, g, j) = At(c, h, i) /\ At(c, g, j + 1) = At(c, h, i + 1) /\ At(c, g, j + 2) = At(c, h, i + 2)
  <2>1. j + 0 = j /\ i + 0 = i /\ 0 \in 0 .. n + 3 /\ 1 \in 0 .. n + 3 /\ 2 \in 0 .. n + 3
    BY <1>1, <1>3
  <2> QED BY <1>4, <2>1
<1>6. MarkerAt(c, g, j)
  BY <1>5 DEF IntactAt, MarkerAt
<1>7. LenAt(c, g, j + 2) = n
  BY <1>5 DEF LenAt
<1>8. Matches(c, g, j + 3, n, id)
  <2>1. At(c, h, i + 3 + n) = <<"crc", id>>
        /\ \A y \in i + 3 .. i + 3 + n - 1 : At(c, h, y) = <<"data", id>>
    BY DEF IntactAt, Matches
  <2>2. j + 3 + n = j + (n + 3) /\ i + 3 + n = i + (n + 3) /\ n + 3 \in 0 .. n + 3
    BY <1>1, <1>3
  <2>3. At(c, g, j + 3 + n) = <<"crc", id>>
    BY <1>4, <2>1, <2>2
  <2>4. ASSUME NEW y \in j + 3 .. j + 3 + n - 1 PROVE At(c, g, y) = <<"data", id>>
    <3> DEFINE x == y - j
    <3>1. x \in 0 .. n + 3 /\ j + x = y /\ i + x \in i + 3 .. i + 3 + n - 1
      BY <1>1, <1>3
    <3> HIDE DEF x, j
    <3> QED BY <1>4, <2>1, <3>1
  <2> QED BY <2>3, <2>4 DEF Matches
<1>9. j \in 0 .. g.size - 1 /\ j + Total(n) <= g.size
  BY <1>1, <1>2, <1>3
<1>10. IntactAt(c, g, j, id)
  BY <1>3, <1>6, <1>7, <1>8, <1>9 DEF IntactAt
<1> QED BY <1>9, <1>10, IntactMeans DEF g

\* No record begins inside one that is laid.
LEMMA LaidApart ==
  ASSUME NEW c, NEW h \in Header, Laid(c, h), NEW i \in 0 .. h.size - 1, At(c, h, i)[1] = "m1"
  PROVE  \A j \in i + 1 .. i + 4 : At(c, h, j)[1] # "m1"
<1>1. i \in Nat
  BY HeaderFields, CapPositive
<1>2. PICK n \in 1 .. MaxLen, id \in 1 .. MaxWrites : RecordAt(c, h, i, n, id)
  BY DEF Laid
<1>3. \A x \in 1 .. n + 3 : At(c, h, i + x)[1] # "m1"
  BY <1>1, <1>2, RecordCells
<1> SUFFICES ASSUME NEW j \in i + 1 .. i + 4 PROVE At(c, h, j)[1] # "m1"
  OBVIOUS
<1> DEFINE x == j - i
<1>4. x \in 1 .. n + 3 /\ i + x = j
  BY <1>1, <1>2, CacheAssumption
<1> HIDE DEF x
<1> QED BY <1>3, <1>4

\* The pop that follows a read takes the record that was read and no other,
\* whatever was damaged behind it (CacheManager::pop_oneImpl).
THEOREM PopsWhatWasRead == Spec => WholePopTakesWhatWasRead
<1>1. LInv /\ [Next]_vars =>
        [peeked # 0 /\ MarkerAt(cells, hdr, 0) /\ PopOne => Spared]_vars
  <2> SUFFICES ASSUME LInv, PopOne, peeked # 0, MarkerAt(cells, hdr, 0)
               PROVE  Spared
    OBVIOUS
  <2> DEFINE n == LenAt(cells, hdr, 2)
             k == n + 4
  <2>1. /\ cells \in [Pos -> Cell] /\ hdr \in Header /\ Laid(cells, hdr)
        /\ hdr.size # 0 /\ FrontRecord(cells, hdr) = peeked
    BY InvParts DEF LInv, GoodHeader, PeekedIsFront
  <2>2. PICK fid \in 1 .. MaxWrites : RecordAt(cells, hdr, 0, n, fid)
    BY <2>1, FrontAsLaid
  <2>3. n \in 1 .. MaxLen /\ Matches(cells, hdr, 3, n, peeked)
    BY <2>1, FrontMatches
  <2>4. n \in Nat /\ Total(n) = k /\ k \in Nat /\ hdr.size \in Nat
    BY <2>1, <2>3, HeaderFields, CapPositive, CacheAssumption DEF Total, Overhead
  <2>5. hdr' = Advance(hdr, k)
    <3>1. CanRead(cells, hdr, 2, 1) /\ n <= MaxLen + Tolerance
      <4>1. n # TooLong /\ n <= MaxLen + Tolerance
        BY <2>3, CacheAssumption DEF TooLong
      <4>2. At(cells, hdr, 2)[1] \in {"len", "junk"}
        BY <4>1 DEF LenAt
      <4>3. At(cells, hdr, 2) # NoCell
        BY <4>2 DEF NoCell
      <4> QED BY <4>1, <4>3 DEF CanRead
    <3>2. PopFront(cells, hdr) = Advance(hdr, k)
      BY <2>4, <3>1 DEF PopFront
    <3>3. Pop(cells, hdr).hdr = PopFront(cells, hdr)
      BY <2>1 DEF Pop
    <3> QED BY <3>2, <3>3 DEF PopOne, Move
  <2> HIDE DEF n
  <2>6. ASSUME NEW id \in Intact(cells, hdr), id \notin Intact(cells, hdr')
        PROVE  id = peeked
    <3>1. id \in 1 .. MaxWrites
      BY IntactMeans
    <3>2. PICK i \in 0 .. hdr.size - 1 : IntactAt(cells, hdr, i, id)
      BY IntactMeans
    <3>3. i \in Nat /\ ~(k <= i)
      BY <2>1, <2>4, <2>5, <2>6, <3>1, <3>2, IntactBehind
    <3>4. At(cells, hdr, i)[1] = "m1"
      BY <3>2 DEF IntactAt, MarkerAt
    <3>5. i = 0
      <4> SUFFICES ASSUME i # 0 PROVE FALSE
        OBVIOUS
      <4> DEFINE z == 0
      <4>1. z \in Nat /\ RecordAt(cells, hdr, z, n, fid) /\ z + i = i
        BY <2>2, <3>3
      <4> HIDE DEF z
      <4>2. \A j \in 1 .. n + 3 : At(cells, hdr, z + j)[1] # "m1"
        BY <2>3, <4>1, RecordCells
      <4>3. i \in 1 .. n + 3
        BY <2>4, <3>3
      <4> QED BY <3>4, <4>1, <4>2, <4>3
    <3>6. Matches(cells, hdr, 3, n, id)
      <4>1. Matches(cells, hdr, i + 3, LenAt(cells, hdr, i + 2), id) /\ i + 3 = 3 /\ i + 2 = 2
        BY <3>2, <3>5 DEF IntactAt
      <4> QED BY <4>1 DEF n
    <3>7. <<"crc", id>> = <<"crc", peeked>>
      BY <2>3, <3>6 DEF Matches
    <3> QED BY <3>7
  <2>7. cells' = cells
    BY DEF PopOne
  <2> QED BY <2>6, <2>7 DEF Spared
<1> QED BY <1>1, SpecLInv, PTL DEF Spec, WholePopTakesWhatWasRead

\* A scan passes no whole record.
LEMMA ScanSpares ==
  ASSUME NEW c, NEW h, GoodHeader(h)
  PROVE  Intact(c, h) \subseteq Intact(c, Scan(c, h).hdr)
<1> DEFINE found == MarkersInReach(c, h)
           first == CHOOSE i \in found : \A j \in found : i <= j
           s == Scan(c, h)
<1>1. h \in Header /\ h.size \in Nat
  BY HeaderFields, CapPositive DEF GoodHeader
<1> SUFFICES ASSUME NEW id \in Intact(c, h) PROVE id \in Intact(c, s.hdr)
  OBVIOUS
<1>2. id \in 1 .. MaxWrites
  BY IntactMeans
<1>3. PICK i \in 0 .. h.size - 1 : IntactAt(c, h, i, id)
  BY IntactMeans
<1>4. i \in Nat /\ i + 5 <= h.size /\ MarkerAt(c, h, i)
  BY <1>1, <1>3, CacheAssumption DEF IntactAt, Total, Overhead
<1>5. i < ScanBudget => i \in found
  BY <1>1, <1>4 DEF MarkersInReach
<1>6. CASE found # {}
  <2>1. found \in SUBSET Nat /\ \A j \in found : j < ScanBudget
    BY <1>1 DEF MarkersInReach
  <2>2. first \in found /\ \A j \in found : first <= j
    <3> HIDE DEF found
    <3> QED BY <1>6, <2>1, SmallestOffset
  <2>3. s.hdr = Advance(h, first)
    <3>1. h.size > 2
      BY <1>1, <1>4
    <3>2. s = [result |-> "FOUND", hdr |-> Advance(h, first)]
      BY <1>6, <3>1 DEF Scan
    <3> QED BY <3>2
  <2> HIDE DEF found, first, s
  <2>4. first \in Nat /\ first <= i
    BY <1>4, <1>5, <2>1, <2>2, CacheAssumption
  <2> QED BY <1>1, <1>2, <1>3, <2>3, <2>4, IntactBehind
<1>7. CASE found = {}
  <2>1. ScanBudget \in Nat /\ ScanBudget <= i
    BY <1>4, <1>5, <1>7, CacheAssumption
  <2>2. s.hdr = Advance(h, ScanBudget)
    <3>1. h.size > 2 /\ h.size - 1 >= ScanBudget
      BY <1>1, <1>4, <2>1
    <3> QED BY <1>7, <3>1 DEF Scan
  <2> HIDE DEF s
  <2> QED BY <1>1, <1>2, <1>3, <2>1, <2>2, IntactBehind
<1> QED BY <1>6, <1>7

\* Records that begin before offset k, but not at the front, are at least a
\* shortest record apart: so many of them there are.
LEMMA FewBeforeOffset ==
  ASSUME NEW c, NEW h \in Header, Laid(c, h), NEW k \in Nat, MarkerAt(c, h, 0),
         NEW S \in SUBSET (1 .. MaxWrites),
         \A id \in S : \E i \in 0 .. h.size - 1 : i # 0 /\ i < k /\ IntactAt(c, h, i, id)
  PROVE  Cardinality(S) <= k \div 5
<1> DEFINE place(id) == CHOOSE i \in 0 .. h.size - 1 : i # 0 /\ i < k /\ IntactAt(c, h, i, id)
           f == [id \in S |-> place(id) \div 5]
<1>1. h.size \in Nat
  BY HeaderFields, CapPositive
<1>2. ASSUME NEW id \in S
      PROVE  /\ place(id) \in 0 .. h.size - 1 /\ place(id) # 0 /\ place(id) < k
             /\ IntactAt(c, h, place(id), id)
  OBVIOUS
<1> HIDE DEF place
<1>3. ASSUME NEW id \in S
      PROVE  place(id) \in Nat /\ At(c, h, place(id))[1] = "m1" /\ place(id) >= 5
  <2>1. place(id) \in Nat /\ At(c, h, place(id))[1] = "m1"
    BY <1>1, <1>2 DEF IntactAt, MarkerAt
  <2>2. 0 \in 0 .. h.size - 1 /\ At(c, h, 0)[1] = "m1"
    BY <1>1, <1>2, <2>1 DEF MarkerAt
  <2>3. \A j \in 1 .. 4 : At(c, h, j)[1] # "m1"
    <3> DEFINE z == 0
    <3>1. z \in 0 .. h.size - 1 /\ At(c, h, z)[1] = "m1"
      BY <2>2
    <3> HIDE DEF z
    <3>2. \A j \in z + 1 .. z + 4 : At(c, h, j)[1] # "m1"
      BY <3>1, LaidApart
    <3> QED BY <3>2 DEF z
  <2>4. ~(place(id) \in 1 .. 4)
    BY <2>1, <2>3
  <2> QED BY <1>2, <2>1, <2>4
<1>4. ASSUME NEW a \in S, NEW b \in S, place(a) < place(b)
      PROVE  place(a) + 5 <= place(b)
  <2>1. \A j \in place(a) + 1 .. place(a) + 4 : At(c, h, j)[1] # "m1"
    BY <1>2, <1>3, LaidApart
  <2>2. ~(place(b) \in place(a) + 1 .. place(a) + 4)
    BY <1>3, <2>1
  <2> QED BY <1>3, <1>4, <2>2
<1>5. ASSUME NEW a \in S, NEW b \in S, place(a) = place(b)
      PROVE  a = b
  <2> DEFINE e == place(a) + 3 + LenAt(c, h, place(a) + 2)
  <2>1. At(c, h, e) = <<"crc", a>> /\ At(c, h, e) = <<"crc", b>>
    BY <1>2, <1>5 DEF IntactAt, Matches
  <2>2. <<"crc", a>> = <<"crc", b>>
    BY <2>1
  <2> QED BY <2>2
<1>6. ASSUME NEW a \in S, NEW b \in S, f[a] = f[b]
      PROVE  a = b
  <2>1. ~(place(a) < place(b)) /\ ~(place(b) < place(a))
    <3> DEFINE x == place(a)
               y == place(b)
    <3>1. x \in Nat /\ y \in Nat /\ (x < y => x + 5 <= y) /\ (y < x => y + 5 <= x)
      BY <1>3, <1>4
    <3>2. x \div 5 = y \div 5
      BY <1>6
    <3> HIDE DEF x, y
    <3>3. ~(x < y) /\ ~(y < x)
      BY <3>1, <3>2
    <3> QED BY <3>3 DEF x, y
  <2>2. place(a) = place(b)
    BY <1>3, <2>1
  <2> QED BY <1>5, <2>2
<1>7. ASSUME NEW id \in S PROVE f[id] \in 1 .. (k \div 5)
  <2> DEFINE x == place(id)
  <2>1. x \in Nat /\ x >= 5 /\ x < k
    BY <1>2, <1>3
  <2> HIDE DEF x
  <2>2. x \div 5 \in 1 .. (k \div 5)
    BY <2>1
  <2> QED BY <2>2 DEF x
<1> DEFINE T == 1 .. (k \div 5)
<1>8. f \in Injection(S, T)
  <2>1. f \in [S -> T]
    BY <1>7
  <2>2. \A a, b \in S : f[a] = f[b] => a = b
    BY <1>6
  <2> HIDE DEF T, f
  <2> QED BY <2>1, <2>2 DEF Injection, IsInjective
<1>9. k \div 5 \in Nat
  OBVIOUS
<1>10. IsFiniteSet(T) /\ Cardinality(T) = k \div 5
  <2> DEFINE b == k \div 5
  <2>1. b \in Nat
    BY <1>9
  <2> HIDE DEF b
  <2>2. IsFiniteSet(1 .. b) /\ Cardinality(1 .. b) = IF 1 > b THEN 0 ELSE b - 1 + 1
    BY <2>1, FS_Interval
  <2>3. IsFiniteSet(1 .. b) /\ Cardinality(1 .. b) = b
    BY <2>1, <2>2
  <2> QED BY <2>3 DEF b
<1>11. Cardinality(S) <= Cardinality(T)
  <2> HIDE DEF f, T
  <2> QED BY <1>8, <1>10, FS_Injection
<1> QED BY <1>10, <1>11

\* What stands unreadable at the front costs at most the reach of its length.
LEMMA PopSpares ==
  ASSUME NEW c \in [Pos -> Cell], NEW h, GoodHeader(h), Laid(c, h), h.size # 0,
         MarkerAt(c, h, 0), FrontRecord(c, h) = 0
  PROVE  Cardinality(Intact(c, h) \ Intact(c, Pop(c, h).hdr))
           <= (MaxLen + Tolerance + Overhead) \div (1 + Overhead)
<1> DEFINE n == LenAt(c, h, 2)
           k == IF CanRead(c, h, 2, 1) /\ n <= MaxLen + Tolerance THEN Total(n) ELSE 1
           reach == MaxLen + Tolerance + 4
           S == Intact(c, h) \ Intact(c, Pop(c, h).hdr)
<1>1. n \in Nat /\ h \in Header /\ h.size \in Nat
  BY LenAtType, HeaderFields, CapPositive DEF GoodHeader
<1>2. k \in Nat /\ k <= reach /\ reach \in Nat
  BY <1>1, CacheAssumption DEF Total, Overhead
<1>3. Pop(c, h).hdr = Advance(h, k)
  <2>1. Pop(c, h).hdr = PopFront(c, h)
    BY DEF Pop
  <2> QED BY <2>1 DEF PopFront
<1> HIDE DEF k
<1>4. ASSUME NEW id \in S
      PROVE  id \in 1 .. MaxWrites
             /\ \E i \in 0 .. h.size - 1 : i # 0 /\ i < reach /\ IntactAt(c, h, i, id)
  <2>1. id \in 1 .. MaxWrites
    BY IntactMeans
  <2>2. PICK i \in 0 .. h.size - 1 : IntactAt(c, h, i, id)
    BY IntactMeans
  <2>3. i \in Nat /\ ~(k <= i)
    BY <1>1, <1>2, <1>3, <2>1, <2>2, IntactBehind
  <2>4. i # 0
    <3> SUFFICES ASSUME i = 0 PROVE FALSE
      OBVIOUS
    <3>1. i + 2 = 2 /\ i + 3 = 3
      OBVIOUS
    <3>2. n \in 1 .. MaxLen /\ Matches(c, h, 3, n, id)
      BY <2>2, <3>1 DEF IntactAt
    <3> DEFINE ids == {x \in 1 .. MaxWrites : Matches(c, h, 3, n, x)}
    <3>3. ids # {} /\ ids \subseteq 1 .. MaxWrites
      BY <2>1, <3>2
    <3>4. FrontRecord(c, h) = CHOOSE x \in ids : TRUE
      BY <3>2, <3>3 DEF FrontRecord
    <3> HIDE DEF ids
    <3>5. FrontRecord(c, h) \in ids
      BY <3>3, <3>4
    <3> QED BY <3>3, <3>5, CacheAssumption
  <2>5. i < reach
    BY <1>2, <2>3
  <2> QED BY <2>1, <2>2, <2>4, <2>5
<1>5. Cardinality(S) <= reach \div 5
  <2> HIDE DEF S, reach
  <2>1. S \in SUBSET (1 .. MaxWrites)
    BY <1>4
  <2> QED BY <1>1, <1>2, <1>4, <2>1, FewBeforeOffset
<1> QED BY <1>5 DEF Overhead

\* A read gives up at most the records that one bad length reaches over
\* (CacheManager::read_oneImpl and pop_oneImpl).
THEOREM ReadsContainDamage == Spec => DamageIsContained
<1>1. LInv /\ [Next]_vars =>
        [ReadOne =>
           Cardinality(Intact(cells, hdr) \ Intact(cells, hdr'))
             <= (MaxLen + Tolerance + Overhead) \div (1 + Overhead)]_vars
  <2> DEFINE limit == (MaxLen + Tolerance + Overhead) \div (1 + Overhead)
  <2> SUFFICES ASSUME LInv, ReadOne
               PROVE  Cardinality(Intact(cells, hdr) \ Intact(cells, hdr')) <= limit
    OBVIOUS
  <2>1. cells \in [Pos -> Cell] /\ GoodHeader(hdr) /\ Laid(cells, hdr)
    BY InvParts DEF LInv
  <2>2. hdr' = Read(cells, hdr).hdr
    BY DEF ReadOne, Move
  <2>3. limit \in Nat
    <3> DEFINE x == MaxLen + Tolerance + 4
    <3>1. x \in Nat /\ x >= 0
      BY CacheAssumption
    <3> HIDE DEF x
    <3>2. x \div 5 \in Nat
      BY <3>1
    <3> QED BY <3>2 DEF x, Overhead
  <2> HIDE DEF limit
  <2>4. CASE Intact(cells, hdr) \subseteq Intact(cells, hdr')
    <3>1. Intact(cells, hdr) \ Intact(cells, hdr') = {}
      BY <2>4
    <3>2. 0 <= limit
      BY <2>3
    <3> QED BY <3>1, <3>2, FS_EmptySet
  <2>5. CASE hdr' = hdr
    BY <2>4, <2>5
  <2>6. CASE hdr' = Scan(cells, hdr).hdr
    BY <2>1, <2>4, <2>6, ScanSpares
  <2>7. CASE /\ hdr' = Pop(cells, hdr).hdr /\ hdr.size # 0
             /\ MarkerAt(cells, hdr, 0) /\ FrontRecord(cells, hdr) = 0
    BY <2>1, <2>7, PopSpares DEF limit
  <2> QED BY <2>2, <2>5, <2>6, <2>7 DEF Read
<1> QED BY <1>1, SpecLInv, PTL DEF Spec, DamageIsContained

-----------------------------------------------------------------------------
(* Offsets in order                                                        *)

\* The members of a set of offsets up to one of them, and how many they are
UpTo(S, i) == {j \in S : j <= i}

LEMMA RankIs ==
  ASSUME NEW S, NEW i
  PROVE  Rank(S, i) = Cardinality(UpTo(S, i))
BY DEF Rank, UpTo

LEMMA RankType ==
  ASSUME NEW S \in SUBSET Nat, IsFiniteSet(S), NEW i \in S
  PROVE  Rank(S, i) \in 1 .. Cardinality(S)
<1>1. UpTo(S, i) \in SUBSET S /\ i \in UpTo(S, i)
  BY DEF UpTo
<1>2. IsFiniteSet(UpTo(S, i)) /\ Cardinality(UpTo(S, i)) <= Cardinality(S)
  BY <1>1, FS_Subset
<1>3. Cardinality(UpTo(S, i)) \in Nat /\ Cardinality(UpTo(S, i)) # 0 /\ Cardinality(S) \in Nat
  BY <1>1, <1>2, FS_EmptySet, FS_CardinalityType
<1> QED BY <1>2, <1>3, RankIs

LEMMA RankGrows ==
  ASSUME NEW S \in SUBSET Nat, IsFiniteSet(S), NEW i \in S, NEW j \in S, i < j
  PROVE  Rank(S, i) < Rank(S, j)
<1>1. UpTo(S, i) \in SUBSET UpTo(S, j) /\ UpTo(S, j) \in SUBSET S
      /\ j \in UpTo(S, j) /\ j \notin UpTo(S, i)
  <2>1. \A x \in S : x <= i => x <= j
    OBVIOUS
  <2>2. j <= j /\ ~(j <= i)
    OBVIOUS
  <2> QED BY <2>1, <2>2 DEF UpTo
<1>2. IsFiniteSet(UpTo(S, j)) /\ IsFiniteSet(UpTo(S, i))
  BY <1>1, FS_Subset
<1>3. /\ Cardinality(UpTo(S, i)) <= Cardinality(UpTo(S, j))
      /\ Cardinality(UpTo(S, i)) # Cardinality(UpTo(S, j))
      /\ Cardinality(UpTo(S, i)) \in Nat /\ Cardinality(UpTo(S, j)) \in Nat
  BY <1>1, <1>2, FS_Subset, FS_CardinalityType
<1> QED BY <1>3, RankIs

LEMMA RankUnique ==
  ASSUME NEW S \in SUBSET Nat, IsFiniteSet(S), NEW i \in S, NEW j \in S, Rank(S, i) = Rank(S, j)
  PROVE  i = j
<1>1. ~(i < j) /\ ~(j < i)
  <2>1. Rank(S, i) \in Nat /\ Rank(S, j) \in Nat
    BY RankType, FS_CardinalityType
  <2>2. i < j => Rank(S, i) < Rank(S, j)
    BY RankGrows
  <2>3. j < i => Rank(S, j) < Rank(S, i)
    BY RankGrows
  <2> QED BY <2>1, <2>2, <2>3
<1> QED BY <1>1

\* Every place up to the last is some member's: the offsets in order are a
\* sequence of all members.
LEMMA NthMember ==
  ASSUME NEW S \in SUBSET Nat, IsFiniteSet(S), NEW k \in 1 .. Cardinality(S)
  PROVE  Nth(S, k) \in S /\ Rank(S, Nth(S, k)) = k
<1> DEFINE n == Cardinality(S)
           T == 1 .. n
           f == [i \in S |-> Rank(S, i)]
<1>1. n \in Nat
  BY FS_CardinalityType
<1>2. IsFiniteSet(T) /\ Cardinality(T) = n
  <2> HIDE DEF n
  <2>1. IsFiniteSet(1 .. n) /\ Cardinality(1 .. n) = IF 1 > n THEN 0 ELSE n - 1 + 1
    BY <1>1, FS_Interval
  <2> QED BY <1>1, <2>1
<1>3. f \in Injection(S, T)
  <2>1. f \in [S -> T]
    BY RankType
  <2>2. \A a, b \in S : f[a] = f[b] => a = b
    BY RankUnique
  <2> HIDE DEF T, f
  <2> QED BY <2>1, <2>2 DEF Injection, IsInjective
<1>4. f \in Surjection(S, T)
  <2> HIDE DEF f, T
  <2> QED BY <1>2, <1>3, FS_Injection DEF n
<1>5. \E i \in S : f[i] = k
  <2> HIDE DEF f
  <2> QED BY <1>4 DEF Surjection, T
<1> QED BY <1>5 DEF Nth

LEMMA NthIs ==
  ASSUME NEW S \in SUBSET Nat, IsFiniteSet(S), NEW i \in S
  PROVE  Nth(S, Rank(S, i)) = i
<1> DEFINE k == Rank(S, i)
<1>1. k \in 1 .. Cardinality(S)
  BY RankType
<1> HIDE DEF k
<1>2. Nth(S, k) \in S /\ Rank(S, Nth(S, k)) = k
  BY <1>1, NthMember
<1>3. Rank(S, Nth(S, k)) = Rank(S, i)
  BY <1>2 DEF k
<1>4. Nth(S, k) = i
  BY <1>2, <1>3, RankUnique
<1> QED BY <1>4 DEF k

\* A member beyond all others comes last and moves none of them.
LEMMA NthAppended ==
  ASSUME NEW S \in SUBSET Nat, IsFiniteSet(S), NEW m \in Nat, \A i \in S : i < m
  PROVE  LET T == S \cup {m}
         IN  /\ T \in SUBSET Nat /\ IsFiniteSet(T)
             /\ Cardinality(T) = Cardinality(S) + 1
             /\ Nth(T, Cardinality(S) + 1) = m
             /\ \A k \in 1 .. Cardinality(S) : Nth(T, k) = Nth(S, k)
<1> DEFINE T == S \cup {m}
<1>1. T \in SUBSET Nat /\ m \notin S
  OBVIOUS
<1>2. IsFiniteSet(T) /\ Cardinality(T) = Cardinality(S) + 1 /\ Cardinality(S) \in Nat
  BY <1>1, FS_AddElement, FS_CardinalityType
<1>3. Rank(T, m) = Cardinality(T)
  <2>1. \A x \in T : x <= m
    OBVIOUS
  <2>2. UpTo(T, m) = T
    BY <2>1 DEF UpTo
  <2> QED BY <2>2, RankIs
<1>4. ASSUME NEW i \in S PROVE Rank(T, i) = Rank(S, i)
  <2>1. UpTo(T, i) = UpTo(S, i)
    BY DEF UpTo
  <2> QED BY <2>1, RankIs
<1>5. m \in T /\ S \subseteq T
  OBVIOUS
<1> HIDE DEF T
<1>6. Nth(T, Cardinality(S) + 1) = m
  BY <1>1, <1>2, <1>3, <1>5, NthIs
<1>7. ASSUME NEW k \in 1 .. Cardinality(S) PROVE Nth(T, k) = Nth(S, k)
  <2> DEFINE i == Nth(S, k)
  <2>1. i \in S /\ Rank(S, i) = k
    BY NthMember
  <2> HIDE DEF i
  <2>2. Rank(T, i) = k /\ i \in T
    BY <1>4, <1>5, <2>1
  <2>3. Nth(T, Rank(T, i)) = i
    BY <1>1, <1>2, <2>2, NthIs
  <2> QED BY <2>2, <2>3 DEF i
<1> QED BY <1>1, <1>2, <1>6, <1>7 DEF T

\* When the first member, 0, leaves and offsets count from n on, every other
\* one comes one place earlier.
LEMMA NthShifted ==
  ASSUME NEW S \in SUBSET Nat, IsFiniteSet(S), 0 \in S, NEW n \in Nat, n # 0,
         \A i \in S : i # 0 => n <= i,
         NEW T \in SUBSET Nat, \A i \in Nat : i \in T <=> n + i \in S
  PROVE  /\ IsFiniteSet(T)
         /\ Cardinality(T) + 1 = Cardinality(S)
         /\ Nth(S, 1) = 0
         /\ \A k \in 1 .. Cardinality(T) : Nth(S, k + 1) = n + Nth(T, k)
<1> DEFINE up(X) == {n + i : i \in X}
<1>1. ASSUME NEW X \in SUBSET Nat, IsFiniteSet(up(X))
      PROVE  IsFiniteSet(X) /\ Cardinality(X) = Cardinality(up(X))
  <2> DEFINE f == [i \in X |-> n + i]
             Y == up(X)
  <2>1. f \in [X -> Y] /\ (\A a, b \in X : f[a] = f[b] => a = b) /\ \A y \in Y : \E x \in X : f[x] = y
    OBVIOUS
  <2> HIDE DEF f, Y
  <2>2. f \in Injection(X, Y) /\ f \in Surjection(X, Y)
    BY <2>1 DEF Injection, IsInjective, Surjection
  <2>3. IsFiniteSet(Y)
    BY <1>1 DEF Y
  <2>4. IsFiniteSet(X) /\ Cardinality(X) = Cardinality(Y)
    <3>1. IsFiniteSet(X) /\ (Cardinality(X) = Cardinality(Y) <=> f \in Surjection(X, Y))
      BY <2>2, <2>3, FS_Injection
    <3> QED BY <2>2, <3>1
  <2> QED BY <2>4 DEF Y
<1>2. S \ {0} = up(T)
  <2>1. ASSUME NEW x \in S, x # 0 PROVE x \in up(T)
    <3>1. x - n \in Nat /\ n + (x - n) = x
      BY <2>1
    <3>2. x - n \in T
      BY <3>1
    <3> QED BY <3>1, <3>2
  <2>2. ASSUME NEW i \in T PROVE n + i \in S /\ n + i # 0
    OBVIOUS
  <2> QED BY <2>1, <2>2
<1>3. IsFiniteSet(S \ {0}) /\ Cardinality(S \ {0}) = Cardinality(S) - 1 /\ Cardinality(S) \in Nat
  BY FS_RemoveElement, FS_CardinalityType
<1>4. IsFiniteSet(T) /\ Cardinality(T) + 1 = Cardinality(S) /\ Cardinality(T) \in Nat
  <2>1. IsFiniteSet(T) /\ Cardinality(T) = Cardinality(up(T))
    BY <1>1, <1>2, <1>3
  <2> HIDE DEF up
  <2>2. Cardinality(T) = Cardinality(S) - 1
    BY <1>2, <1>3, <2>1
  <2> QED BY <1>3, <2>1, <2>2, FS_CardinalityType
<1>5. Nth(S, 1) = 0
  <2>1. UpTo(S, 0) = {0}
    <3>1. \A x \in S : x <= 0 <=> x = 0
      OBVIOUS
    <3> QED BY <3>1 DEF UpTo
  <2>2. Rank(S, 0) = 1
    BY <2>1, RankIs, FS_Singleton
  <2>3. Nth(S, Rank(S, 0)) = 0
    BY NthIs
  <2> QED BY <2>2, <2>3
<1>6. ASSUME NEW i \in T PROVE Rank(S, n + i) = Rank(T, i) + 1
  <2>1. UpTo(S, n + i) \ {0} = up(UpTo(T, i))
    <3>1. ASSUME NEW x \in S, x # 0, x <= n + i PROVE x \in up(UpTo(T, i))
      <4>1. x - n \in Nat /\ n + (x - n) = x /\ x - n <= i
        BY <3>1
      <4>2. x - n \in UpTo(T, i)
        BY <4>1 DEF UpTo
      <4> QED BY <4>1, <4>2
    <3>2. ASSUME NEW j \in UpTo(T, i) PROVE n + j \in UpTo(S, n + i) /\ n + j # 0
      BY DEF UpTo
    <3> QED BY <3>1, <3>2 DEF UpTo
  <2>2. IsFiniteSet(UpTo(S, n + i)) /\ 0 \in UpTo(S, n + i)
    <3>1. UpTo(S, n + i) \in SUBSET S
      BY DEF UpTo
    <3>2. 0 \in UpTo(S, n + i)
      BY DEF UpTo
    <3> QED BY <3>1, <3>2, FS_Subset
  <2>3. /\ IsFiniteSet(UpTo(S, n + i) \ {0})
        /\ Cardinality(UpTo(S, n + i) \ {0}) = Cardinality(UpTo(S, n + i)) - 1
        /\ Cardinality(UpTo(S, n + i)) \in Nat
    BY <2>2, FS_RemoveElement, FS_CardinalityType
  <2>4. UpTo(T, i) \in SUBSET Nat
    BY DEF UpTo
  <2>5. Cardinality(UpTo(T, i)) = Cardinality(up(UpTo(T, i)))
    BY <1>1, <2>1, <2>3, <2>4
  <2> HIDE DEF up
  <2>6. Cardinality(UpTo(T, i)) = Cardinality(UpTo(S, n + i)) - 1
    BY <2>1, <2>3, <2>5
  <2> QED BY <2>3, <2>6, RankIs
<1>7. ASSUME NEW k \in 1 .. Cardinality(T) PROVE Nth(S, k + 1) = n + Nth(T, k)
  <2> DEFINE i == Nth(T, k)
  <2>1. i \in T /\ Rank(T, i) = k
    BY <1>4, NthMember
  <2> HIDE DEF i
  <2>2. Rank(S, n + i) = k + 1 /\ n + i \in S
    BY <1>6, <2>1
  <2>3. Nth(S, Rank(S, n + i)) = n + i
    BY <2>2, NthIs
  <2> QED BY <2>2, <2>3 DEF i
<1> QED BY <1>4, <1>5, <1>7

-----------------------------------------------------------------------------
(* A ring without faults is a chain of whole records                       *)

\* From offset i on the ring has the record as it was written.
ExactAt(c, h, i, n, id) ==
  /\ i + Total(n) <= h.size
  /\ \A j \in 0 .. Total(n) - 1 : At(c, h, i + j) = RecordCell([id |-> id, len |-> n], j)

\* The ring is a chain of whole records, each beginning where the one before
\* it ends.
Whole(c, h) ==
  /\ h.size # 0 => 0 \in Starts(c, h)
  /\ \A i \in Starts(c, h) : \E n \in 1 .. MaxLen, id \in 1 .. MaxWrites :
       ExactAt(c, h, i, n, id) /\ (i + Total(n) < h.size => i + Total(n) \in Starts(c, h))

LEMMA StartsFinite ==
  ASSUME NEW c, NEW h \in Header
  PROVE  Starts(c, h) \in SUBSET Nat /\ IsFiniteSet(Starts(c, h))
<1>1. h.size \in Nat
  BY HeaderFields, CapPositive
<1>2. Starts(c, h) \in SUBSET Nat /\ \A i \in Starts(c, h) : i <= h.size
  BY <1>1 DEF Starts
<1> HIDE DEF Starts
<1> QED BY <1>1, <1>2, FS_BoundedSetOfNaturals

\* What a whole record reads as
LEMMA ExactReads ==
  ASSUME NEW c, NEW h, NEW i \in Nat, NEW n \in 1 .. MaxLen, NEW id, ExactAt(c, h, i, n, id)
  PROVE  /\ n \in Nat /\ Total(n) = n + 4 /\ i + n + 4 <= h.size
         /\ MarkerAt(c, h, i)
         /\ At(c, h, i + 2) = <<"len", n>> /\ LenAt(c, h, i + 2) = n
         /\ RecordFrom(c, h, i) = [id |-> id, size |-> n + 4]
         /\ \A j \in 1 .. n + 3 : At(c, h, i + j)[1] # "m1"
<1> DEFINE r == [id |-> id, len |-> n]
<1>1. n \in Nat /\ n >= 1 /\ Total(n) = n + 4 /\ i + n + 4 <= h.size
  BY CacheAssumption DEF ExactAt, Total, Overhead
<1>2. \A j \in 0 .. n + 3 : At(c, h, i + j) = RecordCell(r, j)
  BY <1>1 DEF ExactAt
<1>3. r.id = id /\ r.len = n
  OBVIOUS
<1> HIDE DEF r
<1>4. /\ RecordCell(r, 0) = <<"m1", 0>>
      /\ RecordCell(r, 1) = <<"m2", 0>>
      /\ RecordCell(r, 2) = <<"len", n>>
      /\ \A j \in 1 .. n + 3 : RecordCell(r, j)[1] # "m1"
      /\ RecordCell(r, n + 3) = <<"crc", id>>
  BY <1>1, <1>3 DEF RecordCell
<1>5. At(c, h, i) = <<"m1", 0>>
  <2>1. i + 0 = i /\ 0 \in 0 .. n + 3
    BY <1>1
  <2> QED BY <1>2, <1>4, <2>1
<1>6. At(c, h, i + 1) = <<"m2", 0>> /\ At(c, h, i + 2) = <<"len", n>>
  BY <1>1, <1>2, <1>4
<1>7. At(c, h, i + n + 3) = <<"crc", id>>
  <2>1. i + (n + 3) = i + n + 3 /\ n + 3 \in 0 .. n + 3
    BY <1>1
  <2> QED BY <1>2, <1>4, <2>1
<1>8. \A j \in 1 .. n + 3 : At(c, h, i + j)[1] # "m1"
  BY <1>1, <1>2, <1>4
<1>9. MarkerAt(c, h, i)
  BY <1>5, <1>6 DEF MarkerAt
<1>10. LenAt(c, h, i + 2) = n
  BY <1>6 DEF LenAt
<1>11. RecordFrom(c, h, i) = [id |-> id, size |-> n + 4]
  BY <1>1, <1>7, <1>10 DEF RecordFrom
<1> QED BY <1>1, <1>6, <1>8, <1>9, <1>10, <1>11

\* The sequence of records
RecordsAt(c, h) == {RecordFrom(c, h, i) : i \in Starts(c, h)}

LEMMA RecordsSeq ==
  ASSUME NEW c, NEW h \in Header
  PROVE  /\ Records(c, h) \in Seq(RecordsAt(c, h))
         /\ Len(Records(c, h)) = Cardinality(Starts(c, h))
         /\ Cardinality(Starts(c, h)) \in Nat
         /\ \A k \in 1 .. Cardinality(Starts(c, h)) :
              Records(c, h)[k] = RecordFrom(c, h, Nth(Starts(c, h), k))
<1> DEFINE S == Starts(c, h)
           n == Cardinality(S)
           r == [k \in 1 .. n |-> RecordFrom(c, h, Nth(S, k))]
<1>1. n \in Nat /\ S \in SUBSET Nat /\ IsFiniteSet(S)
  BY StartsFinite, FS_CardinalityType
<1>2. ASSUME NEW k \in 1 .. n PROVE RecordFrom(c, h, Nth(S, k)) \in RecordsAt(c, h)
  <2>1. Nth(S, k) \in S
    <3> HIDE DEF S
    <3> QED BY <1>1, NthMember
  <2> QED BY <2>1 DEF RecordsAt
<1>3. Records(c, h) = r
  BY DEF Records
<1>4. r \in [1 .. n -> RecordsAt(c, h)]
  BY <1>2
<1> HIDE DEF n, S
<1>5. Len(r) = n /\ r \in Seq(RecordsAt(c, h))
  BY <1>1, <1>4, SeqDef
<1> QED BY <1>1, <1>3, <1>5 DEF n, S

LEMMA RecordsOfEmpty ==
  ASSUME NEW c
  PROVE  Starts(c, Empty) = {} /\ Records(c, Empty) = <<>> /\ Whole(c, Empty)
<1>1. Starts(c, Empty) = {}
  BY DEF Starts, Empty
<1>2. Cardinality(Starts(c, Empty)) = 0
  BY <1>1, FS_EmptySet
<1>3. Records(c, Empty) = <<>>
  BY <1>2 DEF Records
<1> QED BY <1>1, <1>3 DEF Whole, Empty

\* The record in front, and what is left when it has gone
LEMMA AdvanceWhole ==
  ASSUME NEW c, NEW h \in Header, Whole(c, h), h.size # 0
  PROVE  LET n == LenAt(c, h, 2)
             g == Advance(h, Total(n))
         IN  /\ n \in 1 .. MaxLen /\ MarkerAt(c, h, 0) /\ At(c, h, 2) = <<"len", n>>
             /\ \E id \in 1 .. MaxWrites : ExactAt(c, h, 0, n, id)
             /\ Whole(c, g)
             /\ Records(c, h) # <<>>
             /\ Records(c, g) = Tail(Records(c, h))
             /\ g.size = h.size - Head(Records(c, h)).size
<1> DEFINE n == LenAt(c, h, 2)
           k == n + 4
           g == Advance(h, k)
           S == Starts(c, h)
           T == Starts(c, g)
<1>1. h.size \in Nat /\ 0 \in S /\ S \in SUBSET Nat /\ IsFiniteSet(S)
  BY HeaderFields, CapPositive, StartsFinite DEF Whole
<1>2. PICK m \in 1 .. MaxLen, id \in 1 .. MaxWrites :
        ExactAt(c, h, 0, m, id) /\ (0 + Total(m) < h.size => 0 + Total(m) \in S)
  BY <1>1 DEF Whole
<1>3. /\ m = n /\ n \in 1 .. MaxLen /\ n \in Nat /\ Total(n) = k /\ k \in Nat /\ k # 0 /\ k <= h.size
      /\ MarkerAt(c, h, 0) /\ At(c, h, 2) = <<"len", n>>
      /\ RecordFrom(c, h, 0) = [id |-> id, size |-> k]
      /\ \A j \in 1 .. n + 3 : At(c, h, j)[1] # "m1"
  <2> DEFINE z == 0
  <2>1. z \in Nat /\ ExactAt(c, h, z, m, id)
    BY <1>2
  <2> HIDE DEF z
  <2>2. /\ m \in Nat /\ Total(m) = m + 4 /\ z + m + 4 <= h.size
        /\ MarkerAt(c, h, z)
        /\ At(c, h, z + 2) = <<"len", m>> /\ LenAt(c, h, z + 2) = m
        /\ RecordFrom(c, h, z) = [id |-> id, size |-> m + 4]
        /\ \A j \in 1 .. m + 3 : At(c, h, z + j)[1] # "m1"
    BY <2>1, ExactReads
  <2>3. \A j : j \in 1 .. m + 3 => z + j = j
    BY DEF z
  <2>4. z + 2 = 2 /\ z + m + 4 = m + 4
    BY <2>2 DEF z
  <2>5. m = n
    BY <2>2, <2>4
  <2>6. \A j \in 1 .. m + 3 : At(c, h, j)[1] # "m1"
    BY <2>2, <2>3
  <2> HIDE DEF n
  <2> QED BY <2>2, <2>4, <2>5, <2>6 DEF z
<1> HIDE DEF n
<1>4. g.size = h.size - k
  <2>1. CASE k < h.size
    BY <1>3, <2>1, AdvanceAt
  <2>2. CASE ~(k < h.size)
    BY <1>1, <1>3, <2>2 DEF Advance, Empty
  <2> QED BY <2>1, <2>2
<1>5. \A i \in 0 .. h.size - k - 1 : At(c, g, i) = At(c, h, k + i)
  <2>1. CASE k < h.size
    BY <1>3, <2>1, AdvanceAt
  <2>2. CASE ~(k < h.size)
    BY <1>1, <1>3, <2>2
  <2> QED BY <2>1, <2>2
<1> HIDE DEF g
<1>6. T \in SUBSET Nat /\ \A i \in Nat : i \in T <=> k + i \in S
  <2>1. ASSUME NEW i \in Nat PROVE i \in T <=> k + i \in S
    <3>1. i \in 0 .. g.size - 1 <=> k + i \in 0 .. h.size - 1
      BY <1>1, <1>3, <1>4
    <3>2. i \in 0 .. g.size - 1 => At(c, g, i) = At(c, h, k + i)
      BY <1>4, <1>5
    <3> QED BY <3>1, <3>2 DEF Starts
  <2>2. T \in SUBSET Nat
    BY <1>1, <1>3, <1>4 DEF Starts
  <2> QED BY <2>1, <2>2
<1>7. \A i \in S : i # 0 => k <= i
  <2> SUFFICES ASSUME NEW i \in S, i # 0, ~(k <= i) PROVE FALSE
    OBVIOUS
  <2>1. i \in 1 .. n + 3
    BY <1>1, <1>3
  <2>2. At(c, h, i)[1] = "m1"
    BY DEF Starts
  <2> QED BY <1>3, <2>1, <2>2
<1>8. ASSUME NEW i \in T
      PROVE  \E p \in 1 .. MaxLen, pid \in 1 .. MaxWrites :
               /\ ExactAt(c, g, i, p, pid)
               /\ i + Total(p) < g.size => i + Total(p) \in T
               /\ RecordFrom(c, g, i) = RecordFrom(c, h, k + i)
  <2>1. i \in Nat /\ k + i \in S
    BY <1>6
  <2>2. PICK p \in 1 .. MaxLen, pid \in 1 .. MaxWrites :
          ExactAt(c, h, k + i, p, pid) /\ (k + i + Total(p) < h.size => k + i + Total(p) \in S)
    BY <2>1 DEF Whole
  <2>3. /\ p \in Nat /\ Total(p) = p + 4 /\ k + i + p + 4 <= h.size
        /\ RecordFrom(c, h, k + i) = [id |-> pid, size |-> p + 4]
    <3> DEFINE y == k + i
    <3>1. y \in Nat
      BY <1>3, <2>1
    <3> HIDE DEF y
    <3>2. /\ p \in Nat /\ Total(p) = p + 4 /\ y + p + 4 <= h.size
          /\ RecordFrom(c, h, y) = [id |-> pid, size |-> p + 4]
      BY <2>2, <3>1, ExactReads DEF y
    <3> QED BY <3>2 DEF y
  <2>4. ExactAt(c, g, i, p, pid)
    <3>1. ASSUME NEW j \in 0 .. Total(p) - 1 PROVE At(c, g, i + j) = At(c, h, k + i + j)
      <4>1. i + j \in 0 .. h.size - k - 1 /\ k + (i + j) = k + i + j
        BY <1>1, <1>3, <2>1, <2>3
      <4> QED BY <1>5, <4>1
    <3>2. i + Total(p) <= g.size
      BY <1>1, <1>3, <1>4, <2>1, <2>3
    <3> QED BY <2>2, <3>1, <3>2 DEF ExactAt
  <2>5. RecordFrom(c, g, i) = [id |-> pid, size |-> p + 4]
    BY <2>1, <2>4, ExactReads
  <2>6. ASSUME i + Total(p) < g.size PROVE i + Total(p) \in T
    <3>1. k + i + Total(p) < h.size /\ i + Total(p) \in Nat /\ k + (i + Total(p)) = k + i + Total(p)
      BY <1>1, <1>3, <1>4, <2>1, <2>3, <2>6
    <3> QED BY <1>6, <2>2, <3>1
  <2> QED BY <2>3, <2>4, <2>5, <2>6
<1>9. Whole(c, g)
  <2>1. ASSUME g.size # 0 PROVE 0 \in T
    <3>1. 0 + Total(m) < h.size /\ 0 + Total(m) = k + 0
      BY <1>1, <1>3, <1>4, <2>1
    <3> QED BY <1>2, <1>6, <3>1
  <2> QED BY <1>8, <2>1 DEF Whole
<1> DEFINE b == Cardinality(T)
<1>10. /\ IsFiniteSet(T) /\ b + 1 = Cardinality(S) /\ Nth(S, 1) = 0
       /\ \A y \in 1 .. b : Nth(S, y + 1) = k + Nth(T, y)
  <2> HIDE DEF S, T
  <2> QED BY <1>1, <1>3, <1>6, <1>7, NthShifted DEF b
<1>11. b \in Nat
  BY <1>10, FS_CardinalityType
<1>12. g \in Header
  <2>1. CASE k < h.size
    <3>1. (h.tail + k) % Cap \in Pos /\ h.size - k \in 0 .. Cap
      BY <1>1, <1>3, <2>1, HeaderFields, ModType, CapPositive
    <3>2. g = [h EXCEPT !.tail = (h.tail + k) % Cap, !.size = h.size - k]
      BY <1>1, <1>3, <2>1 DEF Advance, g
    <3> DEFINE t == (h.tail + k) % Cap
    <3> HIDE DEF t
    <3>3. t \in Pos /\ g = [h EXCEPT !.tail = t, !.size = h.size - k]
      BY <3>1, <3>2 DEF t
    <3> QED BY <3>1, <3>3 DEF Header
  <2>2. CASE ~(k < h.size)
    BY <1>1, <1>3, <2>2, EmptyGood DEF Advance, g, GoodHeader
  <2> QED BY <2>1, <2>2
<1> DEFINE R == Records(c, h)
           Q == Records(c, g)
           D == RecordsAt(c, h) \cup RecordsAt(c, g)
<1>13. /\ R \in Seq(D) /\ Len(R) = b + 1
       /\ \A y \in 1 .. b + 1 : R[y] = RecordFrom(c, h, Nth(S, y))
       /\ Q \in Seq(D) /\ Len(Q) = b
       /\ \A y \in 1 .. b : Q[y] = RecordFrom(c, g, Nth(T, y))
  <2>1. R \in Seq(RecordsAt(c, h)) /\ Len(R) = b + 1
        /\ \A y \in 1 .. b + 1 : R[y] = RecordFrom(c, h, Nth(S, y))
    BY <1>10, RecordsSeq
  <2>2. Q \in Seq(RecordsAt(c, g)) /\ Len(Q) = b
        /\ \A y \in 1 .. b : Q[y] = RecordFrom(c, g, Nth(T, y))
    BY <1>12, RecordsSeq
  <2>3. R \in Seq(D) /\ Q \in Seq(D)
    <3> HIDE DEF R, Q
    <3> QED BY <2>1, <2>2, SeqMonotonic
  <2> QED BY <2>1, <2>2, <2>3
<1> HIDE DEF R, Q, b, D
<1>14. R # <<>> /\ Head(R) = [id |-> id, size |-> k]
  <2>1. Len(R) # 0 /\ R[1] = RecordFrom(c, h, 0)
    BY <1>10, <1>11, <1>13
  <2>2. R # <<>>
    BY <2>1, EmptySeq
  <2>3. Head(R) = R[1]
    BY <1>13, <2>2
  <2> QED BY <1>3, <2>1, <2>2, <2>3
<1>15. Q = Tail(R)
  <2>1. /\ Tail(R) \in Seq(D) /\ Len(Tail(R)) = b
        /\ \A y \in 1 .. b : Tail(R)[y] = R[y + 1]
    BY <1>11, <1>13, <1>14, HeadTailProperties
  <2>2. ASSUME NEW y \in 1 .. b PROVE Q[y] = Tail(R)[y]
    <3>1. Nth(T, y) \in T
      <4> HIDE DEF T
      <4> QED BY <1>6, <1>10, NthMember DEF b
    <3>2. Q[y] = RecordFrom(c, h, k + Nth(T, y))
      BY <1>8, <1>13, <3>1
    <3>3. y + 1 \in 1 .. b + 1
      BY <1>11
    <3>4. Tail(R)[y] = RecordFrom(c, h, Nth(S, y + 1))
      BY <1>13, <2>1, <3>3
    <3> QED BY <1>10, <3>2, <3>4
  <2> QED BY <1>13, <2>1, <2>2, SeqEqual
<1>16. g.size = h.size - Head(R).size
  BY <1>4, <1>14
<1> QED BY <1>2, <1>3, <1>9, <1>14, <1>15, <1>16 DEF n, g, Q, R

\* A record that is stored comes behind all others.
LEMMA StoredWhole ==
  ASSUME cells \in [Pos -> Cell], GoodHeader(hdr), Whole(cells, hdr),
         job.id \in 1 .. MaxWrites, job.len \in 1 .. MaxLen,
         job \in [id : 0 .. MaxWrites, len : {0} \cup Lens],
         hdr.size + Total(job.len) <= Cap,
         NEW g \in Header, g.tail = hdr.tail, g.size = hdr.size + Total(job.len)
  PROVE  /\ Whole(Written(Total(job.len)), g)
         /\ Records(Written(Total(job.len)), g)
              = Append(Records(cells, hdr), [id |-> job.id, size |-> Total(job.len)])
<1> DEFINE n == Total(job.len)
           d == Written(n)
           m == hdr.size
           S == Starts(cells, hdr)
           T == Starts(d, g)
           e == [id |-> job.id, size |-> n]
           j0 == [id |-> job.id, len |-> job.len]
<1>1. /\ n \in Nat /\ n = job.len + 4 /\ m \in Nat /\ hdr \in Header /\ n \in 1 .. Cap
      /\ g.size = m + n
  BY HeaderFields, CapPositive, CacheAssumption DEF Total, Overhead, GoodHeader
<1>2. \A i : At(d, g, i) = At(d, hdr, i)
  BY DEF At
<1>3. /\ \A i \in 0 .. m - 1 : At(d, g, i) = At(cells, hdr, i)
      /\ \A j \in 0 .. n - 1 : At(d, g, m + j) = RecordCell(job, j)
  <2>1. n \in Nat /\ hdr.size + n <= Cap
    BY <1>1
  <2> HIDE DEF n
  <2> QED BY <1>2, <2>1, WrittenAt
<1>4. j0 = job
  OBVIOUS
<1>5. S \in SUBSET Nat /\ IsFiniteSet(S) /\ \A i \in S : i < m
  BY <1>1, StartsFinite DEF Starts
<1> HIDE DEF d, j0, n
<1>6. ExactAt(d, g, m, job.len, job.id)
  <2>1. m + Total(job.len) <= g.size /\ Total(job.len) = n
    BY <1>1 DEF n
  <2>2. \A j \in 0 .. Total(job.len) - 1 : At(d, g, m + j) = RecordCell(j0, j)
    BY <1>3, <1>4, <2>1
  <2> QED BY <2>1, <2>2 DEF ExactAt, j0
<1>7. /\ At(d, g, m)[1] = "m1" /\ RecordFrom(d, g, m) = e
      /\ \A j \in 1 .. n - 1 : At(d, g, m + j)[1] # "m1"
  <2>1. /\ MarkerAt(d, g, m) /\ Total(job.len) = job.len + 4
        /\ RecordFrom(d, g, m) = [id |-> job.id, size |-> job.len + 4]
        /\ \A j \in 1 .. job.len + 3 : At(d, g, m + j)[1] # "m1"
    BY <1>1, <1>6, ExactReads
  <2>2. job.len + 3 = n - 1 /\ job.len + 4 = n
    BY <1>1, CacheAssumption
  <2> QED BY <2>1, <2>2 DEF MarkerAt
<1>8. T = S \cup {m}
  <2>1. ASSUME NEW i \in 0 .. g.size - 1
        PROVE  At(d, g, i)[1] = "m1" <=> i \in S \cup {m}
    <3>1. CASE i < m
      <4>1. At(d, g, i) = At(cells, hdr, i) /\ i \in 0 .. hdr.size - 1 /\ i # m
        BY <1>1, <1>3, <3>1
      <4> QED BY <4>1 DEF Starts
    <3>2. CASE i = m
      BY <1>7, <3>2
    <3>3. CASE i > m
      <4>1. i - m \in 1 .. n - 1 /\ m + (i - m) = i
        BY <1>1, <3>3
      <4>2. At(d, g, i)[1] # "m1"
        BY <1>7, <4>1
      <4>3. i \notin S \cup {m}
        BY <1>1, <1>5, <3>3
      <4> QED BY <4>2, <4>3
    <3> QED BY <1>1, <3>1, <3>2, <3>3
  <2>2. S \cup {m} \subseteq 0 .. g.size - 1
    BY <1>1, <1>5
  <2>3. T = {i \in 0 .. g.size - 1 : At(d, g, i)[1] = "m1"}
    BY DEF Starts
  <2> HIDE DEF S, T, m
  <2> QED BY <2>1, <2>2, <2>3
<1>9. ASSUME NEW i \in S
      PROVE  \E p \in 1 .. MaxLen, pid \in 1 .. MaxWrites :
               /\ ExactAt(d, g, i, p, pid)
               /\ i + Total(p) < g.size => i + Total(p) \in T
               /\ RecordFrom(d, g, i) = RecordFrom(cells, hdr, i)
  <2>1. i \in Nat /\ i < m
    BY <1>5
  <2>2. PICK p \in 1 .. MaxLen, pid \in 1 .. MaxWrites :
          ExactAt(cells, hdr, i, p, pid) /\ (i + Total(p) < hdr.size => i + Total(p) \in S)
    BY DEF Whole
  <2>3. /\ p \in Nat /\ Total(p) = p + 4 /\ i + p + 4 <= m
        /\ RecordFrom(cells, hdr, i) = [id |-> pid, size |-> p + 4]
    BY <2>1, <2>2, ExactReads
  <2>4. ExactAt(d, g, i, p, pid)
    <3>1. ASSUME NEW j \in 0 .. Total(p) - 1 PROVE At(d, g, i + j) = At(cells, hdr, i + j)
      <4>1. i + j \in 0 .. m - 1
        BY <1>1, <2>1, <2>3
      <4> QED BY <1>3, <4>1
    <3>2. i + Total(p) <= g.size
      BY <1>1, <2>1, <2>3
    <3> QED BY <2>2, <3>1, <3>2 DEF ExactAt
  <2>5. RecordFrom(d, g, i) = [id |-> pid, size |-> p + 4]
    BY <2>1, <2>4, ExactReads
  <2>6. i + Total(p) \in T
    <3>1. i + Total(p) < m \/ i + Total(p) = m
      BY <1>1, <2>1, <2>3
    <3> QED BY <1>8, <2>2, <3>1
  <2> QED BY <2>3, <2>4, <2>5, <2>6
<1>10. Whole(d, g)
  <2>1. 0 \in T
    <3>1. CASE m = 0
      BY <1>8, <3>1
    <3>2. CASE m # 0
      BY <1>8, <3>2 DEF Whole
    <3> QED BY <3>1, <3>2
  <2>2. m + Total(job.len) = g.size
    BY <1>1 DEF n
  <2>3. ~(m + Total(job.len) < g.size)
    BY <1>1, <2>2
  <2>4. ASSUME NEW i \in T
        PROVE  \E p \in 1 .. MaxLen, pid \in 1 .. MaxWrites :
                 ExactAt(d, g, i, p, pid) /\ (i + Total(p) < g.size => i + Total(p) \in T)
    BY <1>6, <1>8, <1>9, <2>3
  <2> QED BY <2>1, <2>4 DEF Whole
<1> DEFINE b == Cardinality(S)
<1>11. /\ Cardinality(T) = b + 1 /\ Nth(T, b + 1) = m
       /\ \A k \in 1 .. b : Nth(T, k) = Nth(S, k)
  <2> HIDE DEF S, m, T
  <2> QED BY <1>1, <1>5, <1>8, NthAppended
<1> DEFINE R == Records(cells, hdr)
           Q == Records(d, g)
           D == RecordsAt(cells, hdr) \cup RecordsAt(d, g)
<1>12. /\ R \in Seq(D) /\ Len(R) = b /\ b \in Nat
       /\ \A y \in 1 .. b : R[y] = RecordFrom(cells, hdr, Nth(S, y))
       /\ Q \in Seq(D) /\ Len(Q) = b + 1
       /\ \A y \in 1 .. b + 1 : Q[y] = RecordFrom(d, g, Nth(T, y))
       /\ e \in D
  <2>1. R \in Seq(RecordsAt(cells, hdr)) /\ Len(R) = b /\ b \in Nat
        /\ \A y \in 1 .. b : R[y] = RecordFrom(cells, hdr, Nth(S, y))
    BY <1>1, RecordsSeq
  <2>2. Q \in Seq(RecordsAt(d, g)) /\ Len(Q) = b + 1
        /\ \A y \in 1 .. b + 1 : Q[y] = RecordFrom(d, g, Nth(T, y))
    BY <1>11, RecordsSeq
  <2>3. R \in Seq(D) /\ Q \in Seq(D)
    <3> HIDE DEF R, Q
    <3> QED BY <2>1, <2>2, SeqMonotonic
  <2>4. e \in D
    BY <1>7, <1>8 DEF RecordsAt
  <2> QED BY <2>1, <2>2, <2>3, <2>4
<1> HIDE DEF R, Q, D, e, b
<1>13. Q = Append(R, e)
  <2>1. /\ Append(R, e) \in Seq(D) /\ Len(Append(R, e)) = b + 1
        /\ \A y \in 1 .. b : Append(R, e)[y] = R[y]
        /\ Append(R, e)[b + 1] = e
    BY <1>12, AppendProperties
  <2>2. ASSUME NEW y \in 1 .. b + 1 PROVE Q[y] = Append(R, e)[y]
    <3>1. CASE y = b + 1
      BY <1>7, <1>11, <1>12, <2>1, <3>1
    <3>2. CASE y \in 1 .. b
      <4>1. Nth(S, y) \in S
        <5> HIDE DEF S
        <5> QED BY <1>5, <3>2, NthMember DEF b
      <4>2. Q[y] = RecordFrom(cells, hdr, Nth(S, y))
        BY <1>9, <1>11, <1>12, <3>2, <4>1
      <4> QED BY <1>12, <2>1, <3>2, <4>2
    <3> QED BY <1>12, <3>1, <3>2
  <2> QED BY <1>12, <2>1, <2>2, SeqEqual
<1> QED BY <1>10, <1>13 DEF Q, R, e, d, n

-----------------------------------------------------------------------------
(* The abstract queue                                                      *)

\* Before the first fault: both copies of the ring are chains of whole
\* records, and a write that is under way is of the next record.
Clean ==
  /\ Whole(cells, hdr)
  /\ Whole(durable.cells, durable.hdr)
  /\ job # NoJob => job.id = written + 1

FInv == LInv /\ (faults = 0 => Clean)

\* A change of the ring is saved with it, or counted.
ChangeSaved ==
  \/ durable' = [cells |-> cells', hdr |-> hdr'] /\ pending' = 0
  \/ pending + 1 < FlushEvery /\ pending' = pending + 1 /\ durable' = durable

NoFault == faults = 0 /\ faults' = 0

LEMMA ChangeIsSaved ==
  ASSUME NoFault, MarkDirty(cells', hdr')
  PROVE  ChangeSaved
BY DEF NoFault, MarkDirty, Flushed, ChangeSaved

\* The abstract queue's actions, in terms of the ring
LEMMA IsChanged ==
  ASSUME NoFault, ChangeSaved
  PROVE  Fifo!Changed
<1>1. CASE durable' = [cells |-> cells', hdr |-> hdr'] /\ pending' = 0
  <2>1. durable'.cells = cells' /\ durable'.hdr = hdr'
    BY <1>1
  <2>2. Records(durable.cells, durable.hdr)' = Records(cells, hdr)'
    BY <2>1
  <2> QED BY <1>1, <2>1, <2>2 DEF NoFault, Fifo!Changed
<1>2. CASE pending + 1 < FlushEvery /\ pending' = pending + 1 /\ durable' = durable
  <2>1. Records(durable.cells, durable.hdr)' = Records(durable.cells, durable.hdr)
    BY <1>2
  <2> QED BY <1>2, <2>1 DEF NoFault, Fifo!Changed
<1> QED BY <1>1, <1>2 DEF ChangeSaved

LEMMA IsStore ==
  ASSUME NoFault, ChangeSaved, NEW n \in Lens, hdr.size + Total(n) <= Cap,
         Records(cells, hdr)' = Append(Records(cells, hdr), [id |-> written + 1, size |-> Total(n)]),
         hdr'.size = hdr.size + Total(n), written' = written + 1
  PROVE  Fifo!Store
<1>1. Fifo!Changed
  BY IsChanged
<1>2. Total(n) \in {Total(m) : m \in Lens}
  OBVIOUS
<1> QED BY <1>1, <1>2 DEF NoFault, Fifo!Store

LEMMA IsDrop ==
  ASSUME NoFault, Records(cells, hdr) # <<>>, Records(cells, hdr)' = Tail(Records(cells, hdr)),
         hdr'.size = hdr.size - Head(Records(cells, hdr)).size
  PROVE  Fifo!Drop
BY DEF NoFault, Fifo!Drop

LEMMA IsEvict ==
  ASSUME NoFault, Fifo!Drop, NEW n \in Lens, hdr.size + Total(n) > Cap,
         UNCHANGED <<durable, pending, written>>
  PROVE  Fifo!Evict
<1>1. Records(durable.cells, durable.hdr)' = Records(durable.cells, durable.hdr)
  OBVIOUS
<1>2. Total(n) \in {Total(m) : m \in Lens}
  OBVIOUS
<1> QED BY <1>1, <1>2 DEF NoFault, Fifo!Evict

LEMMA IsStutter ==
  ASSUME NoFault, UNCHANGED <<cells, hdr, durable, pending, written>>
  PROVE  UNCHANGED Fifo!vars
<1>1. /\ Records(durable.cells, durable.hdr)' = Records(durable.cells, durable.hdr)
      /\ Records(cells, hdr)' = Records(cells, hdr)
  OBVIOUS
<1> QED BY <1>1 DEF NoFault, Fifo!vars

LEMMA IsSave ==
  ASSUME NoFault, durable' = [cells |-> cells, hdr |-> hdr], pending' = 0,
         UNCHANGED <<cells, hdr, written>>
  PROVE  Fifo!Save
<1>1. durable'.cells = cells /\ durable'.hdr = hdr
  OBVIOUS
<1>2. Records(durable.cells, durable.hdr)' = Records(cells, hdr)
  BY <1>1
<1>3. Records(cells, hdr)' = Records(cells, hdr)
  OBVIOUS
<1> QED BY <1>1, <1>2, <1>3 DEF NoFault, Fifo!Save

LEMMA IsCrash ==
  ASSUME NoFault, Reopen
  PROVE  Fifo!Crash
<1>1. /\ cells' = durable.cells /\ hdr' = durable.hdr /\ pending' = 0
      /\ durable' = durable /\ written' = written
  BY DEF Reopen
<1>2. /\ Records(durable.cells, durable.hdr)' = Records(durable.cells, durable.hdr)
      /\ Records(cells, hdr)' = Records(durable.cells, durable.hdr)
  BY <1>1
<1> QED BY <1>1, <1>2 DEF NoFault, Fifo!Crash

LEMMA IsErase ==
  ASSUME NoFault, Reset
  PROVE  Fifo!Erase
<1>1. /\ hdr' = Empty /\ durable'.hdr = Empty /\ pending' = 0 /\ written' = written
  BY DEF Reset, Blank
<1>2. /\ Records(durable.cells, durable.hdr)' = <<>>
      /\ Records(cells, hdr)' = <<>>
  BY <1>1, RecordsOfEmpty
<1>3. Empty.size = 0
  BY DEF Empty
<1> QED BY <1>1, <1>2, <1>3 DEF NoFault, Fifo!Erase, Fifo!Nothing

\* Once there was a fault nothing is promised.
LEMMA IsFail ==
  ASSUME LInv, Next, faults' # 0
  PROVE  Fifo!Fail \/ UNCHANGED Fifo!vars
<1>1. faults \in Nat /\ faults' \in Nat
  BY InvParts, CacheAssumption, NextInv DEF LInv, Inv, TypeOK
<1>2. faults' > 0
  BY <1>1
<1>3. CASE faults = 0
  BY <1>2, <1>3 DEF Fifo!Fail, Fifo!Nothing
<1>4. CASE faults > 0
  <2>1. (faults > 0)' = TRUE
    BY <1>2
  <2> QED BY <1>2, <1>4, <2>1 DEF Fifo!vars
<1> QED BY <1>1, <1>3, <1>4

\* In a chain of whole records a read takes nothing and a pop the first one.
LEMMA WholeFront ==
  ASSUME NEW c \in [Pos -> Cell], NEW h \in Header, Whole(c, h), h.size # 0
  PROVE  LET n == LenAt(c, h, 2)
         IN  /\ n \in 1 .. MaxLen
             /\ MarkerAt(c, h, 0)
             /\ CanRead(c, h, 0, 2) /\ CanRead(c, h, 2, 1)
             /\ FrontRecord(c, h) # 0
             /\ Pop(c, h) = [hdr |-> Advance(h, Total(n)), dirty |-> TRUE]
             /\ Read(c, h).hdr = h /\ Read(c, h).dirty = FALSE
<1> DEFINE n == LenAt(c, h, 2)
<1>1. n \in 1 .. MaxLen /\ MarkerAt(c, h, 0) /\ At(c, h, 2) = <<"len", n>>
  BY AdvanceWhole
<1>2. PICK id \in 1 .. MaxWrites : ExactAt(c, h, 0, n, id)
  BY AdvanceWhole
<1> HIDE DEF n
<1>3. n \in Nat /\ Total(n) = n + 4
  BY <1>1, CacheAssumption DEF Total, Overhead
<1>4. CanRead(c, h, 0, 2)
  <2>1. \A j \in 0 .. 0 + 2 - 1 : j = 0 \/ j = 1
    OBVIOUS
  <2>2. At(c, h, 0) # NoCell /\ At(c, h, 0 + 1) # NoCell /\ 0 + 1 = 1
    BY <1>1 DEF MarkerAt, NoCell
  <2> QED BY <2>1, <2>2 DEF CanRead
<1>5. CanRead(c, h, 2, 1)
  <2>1. \A j \in 2 .. 2 + 1 - 1 : j = 2
    OBVIOUS
  <2>2. At(c, h, 2) # NoCell
    BY <1>1 DEF NoCell
  <2> QED BY <2>1, <2>2 DEF CanRead
<1>6. FrontRecord(c, h) # 0
  <2> DEFINE r == [id |-> id, len |-> n]
             ids == {x \in 1 .. MaxWrites : Matches(c, h, 3, n, x)}
  <2>1. \A j \in 0 .. n + 3 : At(c, h, j) = RecordCell(r, j)
    <3>1. \A j \in 0 .. n + 3 : At(c, h, 0 + j) = RecordCell(r, j)
      BY <1>2, <1>3 DEF ExactAt
    <3>2. \A j \in 0 .. n + 3 : 0 + j = j
      BY <1>3
    <3> QED BY <3>1, <3>2
  <2>2. r.id = id /\ r.len = n
    OBVIOUS
  <2> HIDE DEF r
  <2>3. RecordCell(r, 3 + n) = <<"crc", id>> /\ \A j \in 3 .. 3 + n - 1 : RecordCell(r, j) = <<"data", id>>
    BY <1>1, <1>3, <2>2 DEF RecordCell
  <2>4. 3 + n \in 0 .. n + 3 /\ \A j \in 3 .. 3 + n - 1 : j \in 0 .. n + 3
    BY <1>3
  <2>5. Matches(c, h, 3, n, id)
    BY <2>1, <2>3, <2>4 DEF Matches
  <2>6. ids # {} /\ FrontRecord(c, h) = CHOOSE x \in ids : TRUE
    BY <1>1, <2>5 DEF FrontRecord, n
  <2> HIDE DEF ids
  <2>7. FrontRecord(c, h) \in ids
    BY <2>6
  <2> QED BY <2>7, CacheAssumption DEF ids
<1>7. Pop(c, h) = [hdr |-> Advance(h, Total(n)), dirty |-> TRUE]
  <2>1. n <= MaxLen + Tolerance
    BY <1>1, <1>3, CacheAssumption
  <2>2. PopFront(c, h) = Advance(h, Total(n))
    BY <1>5, <2>1 DEF PopFront, n
  <2>3. Pop(c, h) = [hdr |-> PopFront(c, h), dirty |-> TRUE]
    BY <1>1 DEF Pop
  <2> QED BY <2>2, <2>3
<1>8. Read(c, h).hdr = h /\ Read(c, h).dirty = FALSE
  BY <1>4, <1>6 DEF Read
<1> QED BY <1>1, <1>4, <1>5, <1>6, <1>7, <1>8 DEF n

\* The first record leaves, for a pop or to make room.
LEMMA FrontLeaves ==
  ASSUME LInv, NoFault, Clean, hdr.size # 0, cells' = cells,
         hdr' = Advance(hdr, Total(LenAt(cells, hdr, 2)))
  PROVE  Whole(cells', hdr') /\ Fifo!Drop
<1> DEFINE g == Advance(hdr, Total(LenAt(cells, hdr, 2)))
<1>1. hdr \in Header /\ Whole(cells, hdr)
  BY InvParts DEF LInv, GoodHeader, Clean
<1>2. /\ Whole(cells, g)
      /\ Records(cells, hdr) # <<>>
      /\ Records(cells, g) = Tail(Records(cells, hdr))
      /\ g.size = hdr.size - Head(Records(cells, hdr)).size
  BY <1>1, AdvanceWhole
<1> HIDE DEF g
<1>3. hdr' = g
  BY DEF g
<1>4. Records(cells, hdr)' = Records(cells, g) /\ Whole(cells', hdr')
  BY <1>2, <1>3
<1> QED BY <1>2, <1>3, <1>4, IsDrop

LEMMA MarkDirtyClean ==
  ASSUME ChangeSaved, Whole(cells', hdr'), Whole(durable.cells, durable.hdr)
  PROVE  Whole(durable'.cells, durable'.hdr)
<1>1. CASE durable' = [cells |-> cells', hdr |-> hdr']
  <2>1. durable'.cells = cells' /\ durable'.hdr = hdr'
    BY <1>1
  <2> QED BY <2>1
<1>2. CASE durable' = durable
  BY <1>2
<1> QED BY <1>1, <1>2 DEF ChangeSaved

\* Clean at the next state, which the prover does not see through definitions
LEMMA CleanNext ==
  Clean' <=> /\ Whole(cells', hdr')
             /\ Whole(durable'.cells, durable'.hdr)
             /\ job' # NoJob => job'.id = written' + 1
BY DEF Clean, Whole, ExactAt, Starts, At

LEMMA CleanStep ==
  ASSUME LInv, Next, NoFault, Clean
  PROVE  Clean' /\ (Fifo!Next \/ UNCHANGED Fifo!vars)
<1>a. /\ cells \in [Pos -> Cell] /\ GoodHeader(hdr) /\ hdr \in Header /\ hdr.size \in 0 .. Cap
      /\ job \in [id : 0 .. MaxWrites, len : {0} \cup Lens] /\ JobFits
      /\ faults = 0 /\ faults' = 0
  BY InvParts, HeaderFields DEF LInv, GoodHeader, NoFault
<1>b. Whole(cells, hdr) /\ Whole(durable.cells, durable.hdr) /\ (job # NoJob => job.id = written + 1)
  BY DEF Clean
<1>0. \A kind : ~Hit(kind)
  BY <1>a DEF Hit
<1>1. CASE BeginWrite
  <2>1. UNCHANGED <<cells, hdr, durable, pending, written>> /\ job'.id = written + 1
    BY <1>1 DEF BeginWrite
  <2> QED BY <1>b, <2>1, IsStutter, CleanNext
<1>2. CASE TrimStep
  <2>1. job.len \in Lens /\ job.len \in 1 .. MaxLen /\ Total(job.len) = job.len + 4
        /\ hdr.size + Total(job.len) > Cap
    BY <1>2, <1>a, CacheAssumption DEF TrimStep, NeedsTrim, JobFits, Total, Overhead
  <2>2. hdr.size # 0
    BY <1>a, <2>1, CacheAssumption DEF Overhead
  <2>3. LenAt(cells, hdr, 2) \in 1 .. MaxLen /\ MarkerAt(cells, hdr, 0) /\ CanRead(cells, hdr, 2, 1)
    BY <1>a, <1>b, <2>2, WholeFront
  <2>4. /\ hdr' = Advance(hdr, Total(LenAt(cells, hdr, 2))) /\ job' = job
        /\ cells' = cells /\ UNCHANGED <<durable, pending, written>>
    BY <1>2, <2>3 DEF TrimStep
  <2>5. Whole(cells', hdr') /\ Fifo!Drop
    BY <2>2, <2>4, FrontLeaves
  <2>6. Fifo!Evict
    BY <2>1, <2>4, <2>5, IsEvict
  <2> QED BY <1>b, <2>4, <2>5, <2>6, CleanNext DEF Fifo!Next
<1>3. CASE StoreRecord
  <2> DEFINE n == Total(job.len)
             g == [hdr EXCEPT !.head = (hdr.head + n) % Cap, !.size = hdr.size + n]
             d == Written(n)
  <2>1. /\ job.id \in 1 .. MaxWrites /\ job.len \in Lens /\ job.len \in 1 .. MaxLen
        /\ job.id = written + 1
    BY <1>3, <1>a, <1>b, CacheAssumption DEF StoreRecord, JobFits
  <2>2. n \in Nat /\ hdr.size + n <= Cap
    <3>1. job.len \in Nat
      BY <1>a, JobFields
    <3> QED BY <1>3, <1>a, <3>1, CapPositive DEF StoreRecord, NeedsTrim, Total, Overhead
  <2>3. cells' = d /\ hdr' = g /\ written' = job.id /\ job' = NoJob /\ MarkDirty(cells', hdr')
    BY <1>3 DEF StoreRecord
  <2>4. g \in Header
    <3> HIDE DEF n
    <3> QED BY <1>a, <2>2, StoredGood DEF GoodHeader
  <2>5. g.tail = hdr.tail /\ g.size = hdr.size + n
    <3> HIDE DEF n
    <3> QED BY <1>a DEF Header
  <2> HIDE DEF g
  <2>6. Whole(d, g) /\ Records(d, g) = Append(Records(cells, hdr), [id |-> job.id, size |-> n])
    BY <1>a, <1>b, <2>1, <2>2, <2>4, <2>5, StoredWhole
  <2> HIDE DEF d
  <2>7. /\ Records(cells, hdr)' = Append(Records(cells, hdr), [id |-> written + 1, size |-> n])
        /\ hdr'.size = hdr.size + n /\ written' = written + 1 /\ Whole(cells', hdr')
    BY <2>1, <2>3, <2>5, <2>6
  <2>8. ChangeSaved
    BY <2>3, ChangeIsSaved
  <2>9. Fifo!Store
    BY <2>1, <2>2, <2>7, <2>8, IsStore
  <2> QED BY <1>b, <2>3, <2>7, <2>8, <2>9, MarkDirtyClean, CleanNext DEF Fifo!Next
<1>4. CASE PopOne
  <2>1. Move(Pop(cells, hdr)) /\ cells' = cells /\ job' = job /\ written' = written
    BY <1>4 DEF PopOne
  <2>2. CASE hdr.size = 0
    <3>1. Pop(cells, hdr) = [hdr |-> hdr, dirty |-> FALSE]
      BY <2>2 DEF Pop
    <3>2. UNCHANGED <<hdr, durable, pending>>
      BY <2>1, <3>1 DEF Move
    <3> QED BY <1>b, <2>1, <3>2, IsStutter, CleanNext
  <2>3. CASE hdr.size # 0
    <3>1. Pop(cells, hdr) = [hdr |-> Advance(hdr, Total(LenAt(cells, hdr, 2))), dirty |-> TRUE]
      BY <1>a, <1>b, <2>3, WholeFront
    <3>2. hdr' = Advance(hdr, Total(LenAt(cells, hdr, 2))) /\ MarkDirty(cells, hdr')
      BY <2>1, <3>1 DEF Move
    <3>3. Whole(cells', hdr') /\ Fifo!Drop
      BY <2>1, <2>3, <3>2, FrontLeaves
    <3>4. MarkDirty(cells', hdr')
      BY <2>1, <3>2 DEF MarkDirty, Flushed
    <3>5. ChangeSaved
      BY <3>4, ChangeIsSaved
    <3>6. Fifo!Take
      BY <1>a, <2>1, <3>3, <3>5, IsChanged DEF Fifo!Take
    <3> QED BY <1>b, <2>1, <3>3, <3>5, <3>6, MarkDirtyClean, CleanNext DEF Fifo!Next
  <2> QED BY <2>2, <2>3
<1>5. CASE ReadOne
  <2>1. Move(Read(cells, hdr)) /\ cells' = cells /\ job' = job /\ written' = written
    BY <1>5 DEF ReadOne
  <2>2. Read(cells, hdr).hdr = hdr /\ Read(cells, hdr).dirty = FALSE
    <3>1. CASE hdr.size = 0
      BY <3>1 DEF Read
    <3>2. CASE hdr.size # 0
      BY <1>a, <1>b, <3>2, WholeFront
    <3> QED BY <3>1, <3>2
  <2>3. UNCHANGED <<hdr, durable, pending>>
    BY <2>1, <2>2 DEF Move
  <2> QED BY <1>b, <2>1, <2>3, IsStutter, CleanNext
<1>6. CASE Flush
  <2>1. /\ durable' = [cells |-> cells, hdr |-> hdr] /\ pending' = 0
        /\ UNCHANGED <<cells, hdr, written, job>>
    BY <1>6 DEF Flush, Flushed
  <2>2. Fifo!Save
    BY <2>1, IsSave
  <2>3. durable'.cells = cells /\ durable'.hdr = hdr
    BY <2>1
  <2> QED BY <1>b, <2>1, <2>2, <2>3, CleanNext DEF Fifo!Next
<1>7. CASE Reopen
  <2>1. Fifo!Crash
    BY <1>7, IsCrash
  <2>2. cells' = durable.cells /\ hdr' = durable.hdr /\ durable' = durable /\ job' = NoJob
    BY <1>7 DEF Reopen
  <2> QED BY <1>b, <2>1, <2>2, CleanNext DEF Fifo!Next
<1>8. CASE Reset
  <2>1. Fifo!Erase
    BY <1>8, IsErase
  <2>2. hdr' = Empty /\ durable'.hdr = Empty /\ job' = job /\ job = NoJob
    BY <1>8 DEF Reset, Blank
  <2>3. Whole(cells', hdr') /\ Whole(durable'.cells, durable'.hdr)
    BY <2>2, RecordsOfEmpty
  <2> QED BY <2>1, <2>2, <2>3, CleanNext DEF Fifo!Next
<1> QED
  BY <1>0, <1>1, <1>2, <1>3, <1>4, <1>5, <1>6, <1>7, <1>8
     DEF Next, TrimReadError, StoreError, PopReadError, FlushError, Crash, Restart, Rot, HeaderRot

\* Faults are counted and never forgotten.
LEMMA FaultsStay ==
  ASSUME LInv, Next, faults' = 0
  PROVE  faults = 0
<1>1. faults \in Nat
  BY InvParts, CacheAssumption DEF LInv
<1>2. faults' = faults \/ faults' = faults + 1
  BY DEF Next, BeginWrite, TrimStep, TrimReadError, StoreRecord, StoreError, PopOne, PopReadError,
         ReadOne, Flush, FlushError, Crash, Restart, Reopen, Reset, Rot, HeaderRot, Hit
<1> QED BY <1>1, <1>2

LEMMA NextFInv == FInv /\ [Next]_vars => FInv' /\ (Fifo!Next \/ UNCHANGED Fifo!vars)
<1> SUFFICES ASSUME FInv, [Next]_vars PROVE FInv' /\ (Fifo!Next \/ UNCHANGED Fifo!vars)
  OBVIOUS
<1>1. LInv'
  BY NextLInv DEF FInv
<1>2. CASE UNCHANGED vars
  <2>1. UNCHANGED Fifo!vars
    <3>1. UNCHANGED <<cells, hdr, durable, pending, written, faults>>
      BY <1>2 DEF vars
    <3>2. /\ Records(durable.cells, durable.hdr)' = Records(durable.cells, durable.hdr)
          /\ Records(cells, hdr)' = Records(cells, hdr)
      BY <3>1
    <3> QED BY <3>1, <3>2 DEF Fifo!vars
  <2>2. faults' = 0 => Clean'
    BY <1>2, CleanNext DEF FInv, Clean, vars
  <2> QED BY <1>1, <2>1, <2>2 DEF FInv
<1>3. CASE Next
  <2>1. CASE faults' = 0
    <3>1. NoFault /\ Clean /\ LInv
      BY <1>3, <2>1, FaultsStay DEF FInv, NoFault
    <3>2. Clean' /\ (Fifo!Next \/ UNCHANGED Fifo!vars)
      BY <1>3, <3>1, CleanStep
    <3> QED BY <1>1, <3>2 DEF FInv
  <2>2. CASE faults' # 0
    <3>1. Fifo!Fail \/ UNCHANGED Fifo!vars
      BY <1>3, <2>2, IsFail DEF FInv
    <3> QED BY <1>1, <2>2, <3>1 DEF FInv, Fifo!Next
  <2> QED BY <2>1, <2>2
<1> QED BY <1>2, <1>3

LEMMA InitFInv == Init => FInv /\ Fifo!Init
<1> SUFFICES ASSUME Init PROVE FInv /\ Fifo!Init
  OBVIOUS
<1>1. /\ hdr = Empty /\ durable.hdr = Empty /\ job = NoJob /\ faults = 0
      /\ pending = 0 /\ written = 0 /\ Empty.size = 0
  BY DEF Init, Empty
<1>2. /\ Records(cells, hdr) = <<>> /\ Records(durable.cells, durable.hdr) = <<>>
      /\ Whole(cells, hdr) /\ Whole(durable.cells, durable.hdr)
  BY <1>1, RecordsOfEmpty
<1>3. Fifo!Init
  BY <1>1, <1>2 DEF Fifo!Init, Fifo!Nothing
<1> QED BY <1>1, <1>2, <1>3, InitLInv DEF FInv, Clean

\* Until the first fault the file is a queue that drops its oldest record only
\* to make room and that a reset takes back fewer than FlushEvery changes
\* (CacheManager::write, pop_one, read_one, flush and init).
THEOREM CacheImplementsFifo == Spec => ImplementsFifo
<1>1. FInv /\ [Next]_vars => [Fifo!Next]_(Fifo!vars)
  BY NextFInv
<1>2. FInv /\ [Next]_vars => FInv'
  BY NextFInv
<1> QED BY <1>1, <1>2, InitFInv, PTL DEF Spec, ImplementsFifo, Fifo!Spec
=============================================================================
