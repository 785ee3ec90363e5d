----------------------------- MODULE CacheRing -----------------------------
(***************************************************************************)
(* The ring of sensor records in a LittleFS file (storage/CacheManager).   *)
(* The ring is a ring of bytes: a record is a marker, a length, the        *)
(* payload and a CRC, and nothing but the marker and the length tells the  *)
(* reader where the next record starts. Head, tail and size live in RAM;   *)
(* they and the bytes reach the flash only when the file is flushed, so a  *)
(* reset goes back to the file as it was flushed last.                     *)
(*                                                                         *)
(* A cell stands for the bytes of one kind: the marker takes two cells, so *)
(* that it can be cut in two by the end of the ring or by a scan; the      *)
(* length and the CRC take one each and a payload, which is text and never *)
(* looks like a marker, one cell per unit. A record is identified by its   *)
(* number among those stored.                                              *)
(***************************************************************************)
EXTENDS Integers, Sequences, FiniteSets

CONSTANTS
  Cap,        \* MAX_CACHE_DATA_SIZE
  MaxLen,     \* MAX_PAYLOAD_SIZE
  Tolerance,  \* RECORD_LEN_TOLERANCE
  ScanBudget, \* SYNC_SCAN_BUDGET_BYTES
  FlushEvery, \* CACHE_FLUSH_MUTATION_THRESHOLD
  Lens,       \* the lengths of the payloads that are written
  RotTo,      \* the values that a damaged cell may have, read as a length
  Faults,     \* the faults that may happen, a subset of FaultKinds
  MaxFaults,  \* bound: faults
  MaxWrites   \* bound: records stored

FaultKinds == {"read", "write", "rot", "header"}

Overhead == 4 \* the cells of a record that are not payload

ASSUME CacheAssumption ==
  /\ MaxLen \in Nat \ {0}
  /\ Tolerance \in Nat
  /\ Cap \in Nat
  /\ MaxLen + Tolerance + Overhead < Cap
  /\ ScanBudget \in Nat \ {0}
  /\ FlushEvery \in Nat \ {0}
  /\ Lens \subseteq 1 .. MaxLen
  /\ RotTo \subseteq Nat
  /\ Faults \subseteq FaultKinds
  /\ MaxFaults \in Nat
  /\ MaxWrites \in Nat

VARIABLES
  cells,   \* the bytes of the open file
  hdr,     \* cacheHeader: head, tail and size
  durable, \* the file that a reset goes back to: its cells and its header
  pending, \* m_pendingMutations; m_dirty is pending > 0
  job,     \* the write whose trimming loop is running, or NoJob
  written, \* records stored so far: the next record's identity is written + 1
  peeked,  \* the record that the caller has just read, 0 when there is none
  faults   \* faults so far

vars == <<cells, hdr, durable, pending, job, written, peeked, faults>>

Pos == 0 .. Cap - 1

\* A cell is a pair of a tag and a number: the record it belongs to, for a
\* "len" or "junk" cell the value it has when it is read as a length, and 1
\* for an "old" cell, the remains of a record of an earlier boot. A "none"
\* cell is past the end of the file.
Tags == {"m1", "m2", "len", "data", "crc", "junk", "old", "none"}
Cell == Tags \X Nat

NoCell == <<"none", 0>>
NoJob == [id |-> 0, len |-> 0]
Empty == [head |-> 0, tail |-> 0, size |-> 0]
Blank == [cells |-> [p \in Pos |-> NoCell], hdr |-> Empty]

-----------------------------------------------------------------------------
(* Reading the ring: cells c with header h, offsets counted from the tail. *)

At(c, h, i) == c[(h.tail + i) % Cap]

\* readWithWrap gets all of the n cells from offset i on.
CanRead(c, h, i, n) == \A j \in i .. i + n - 1 : At(c, h, j) # NoCell

MarkerAt(c, h, i) == At(c, h, i)[1] = "m1" /\ At(c, h, i + 1)[1] = "m2"

\* The two bytes at the place of the length. Two bytes of a payload, which is
\* JSON text, make a number above all limits; so, here, do those of a CRC.
TooLong == MaxLen + Tolerance + 1
LenAt(c, h, i) ==
  IF At(c, h, i)[1] \in {"len", "junk"} THEN At(c, h, i)[2] ELSE TooLong

\* The n cells from offset i on and the CRC behind them belong together, and
\* to record id: the CRC of anything else does not match.
Matches(c, h, i, n, id) ==
  /\ At(c, h, i + n) = <<"crc", id>>
  /\ \A j \in i .. i + n - 1 : At(c, h, j) = <<"data", id>>

\* The record the front reads as, 0 when its length or CRC says it is none.
FrontRecord(c, h) ==
  LET n == LenAt(c, h, 2)
      ids == {id \in 1 .. MaxWrites : Matches(c, h, 3, n, id)}
  IN  IF n \in 1 .. MaxLen /\ ids # {} THEN CHOOSE id \in ids : TRUE ELSE 0

\* Mutant of Advance: the head is forgotten when the ring becomes empty.
AdvanceKeepsHead(h, n) ==
  IF n >= h.size
  THEN [h EXCEPT !.tail = 0, !.size = 0]
  ELSE [h EXCEPT !.tail = (h.tail + n) % Cap, !.size = h.size - n]

\* advanceTailPointer
Advance(h, n) ==
  IF n >= h.size
  THEN Empty
  ELSE [h EXCEPT !.tail = (h.tail + n) % Cap, !.size = h.size - n]

\* performSyncScan: where it leaves the header and what it reports.
MarkersInReach(c, h) ==
  {i \in 0 .. h.size - 2 : i < ScanBudget /\ MarkerAt(c, h, i)}

\* Mutant of Scan: it runs out of budget without having moved on.
ScanStandsStill(c, h) ==
  LET found == MarkersInReach(c, h)
      first == CHOOSE i \in found : \A j \in found : i <= j
  IN  CASE h.size > 2 /\ found # {} -> [result |-> "FOUND", hdr |-> Advance(h, first)]
        [] h.size > 2 /\ found = {} /\ h.size - 1 >= ScanBudget
             -> [result |-> "NEED_MORE", hdr |-> h]
        [] OTHER -> [result |-> "EMPTY", hdr |-> Empty]

Scan(c, h) ==
  LET found == MarkersInReach(c, h)
      first == CHOOSE i \in found : \A j \in found : i <= j
  IN  CASE h.size > 2 /\ found # {} -> [result |-> "FOUND", hdr |-> Advance(h, first)]
        [] h.size > 2 /\ found = {} /\ h.size - 1 >= ScanBudget
             -> [result |-> "NEED_MORE", hdr |-> Advance(h, ScanBudget)]
        [] OTHER -> [result |-> "EMPTY", hdr |-> Empty]

-----------------------------------------------------------------------------
(* Flushing.                                                               *)

Hit(kind) == kind \in Faults /\ faults < MaxFaults /\ faults' = faults + 1

\* flush
Flushed(c, h) ==
  /\ durable' = [cells |-> c, hdr |-> h]
  /\ pending' = 0

\* Mutant of MarkDirty: the flush comes one change late.
MarkDirtyLate(c, h) ==
  \/ Flushed(c, h)
  \/ pending < FlushEvery /\ pending' = pending + 1 /\ UNCHANGED durable

\* markDirty after a change that leaves cells c and header h: the flush is
\* due after FlushEvery changes, or when the last one is two minutes old. Once
\* writes fail (FlushError is the first that does), it may fail too, and then
\* waits for the next change.
MarkDirty(c, h) ==
  \/ Flushed(c, h)
  \/ /\ pending + 1 < FlushEvery \/ ("write" \in Faults /\ faults > 0)
     /\ pending' = pending + 1
     /\ UNCHANGED durable

-----------------------------------------------------------------------------
(* write                                                                   *)

Total(n) == n + Overhead

BeginWrite ==
  /\ job = NoJob
  /\ written < MaxWrites
  /\ \E n \in Lens : job' = [id |-> written + 1, len |-> n]
  /\ peeked' = 0
  /\ UNCHANGED <<cells, hdr, durable, pending, written, faults>>

NeedsTrim == job # NoJob /\ hdr.size + Total(job.len) > Cap

\* One iteration of trimCacheForWrite. Its own budget of 2048 bytes is never
\* reached: no more than one record's room is needed.
TrimStep ==
  /\ NeedsTrim
  /\ \/ /\ MarkerAt(cells, hdr, 0)
        /\ CanRead(cells, hdr, 2, 1)
        /\ LET n == LenAt(cells, hdr, 2)
           IN  hdr' = Advance(hdr, IF n \in 1 .. MaxLen THEN Total(n) ELSE 1)
        /\ UNCHANGED job
     \/ /\ MarkerAt(cells, hdr, 0)
        /\ ~CanRead(cells, hdr, 2, 1)
        /\ job' = NoJob
        /\ UNCHANGED hdr
     \/ /\ ~MarkerAt(cells, hdr, 0)
        /\ hdr' = Scan(cells, hdr).hdr
        /\ job' = IF Scan(cells, hdr).result = "NEED_MORE" THEN NoJob ELSE job
  /\ UNCHANGED <<cells, durable, pending, written, peeked, faults>>

\* A read error skips a byte when it hits the marker and gives up when it
\* hits the length.
TrimReadError ==
  /\ NeedsTrim
  /\ Hit("read")
  /\ \/ hdr' = Advance(hdr, 1) /\ UNCHANGED job
     \/ MarkerAt(cells, hdr, 0) /\ job' = NoJob /\ UNCHANGED hdr
  /\ UNCHANGED <<cells, durable, pending, written, peeked>>

\* The cell that writeRecordData puts at offset i of the record of job j.
RecordCell(j, i) ==
  CASE i = 0 -> <<"m1", 0>>
    [] i = 1 -> <<"m2", 0>>
    [] i = 2 -> <<"len", j.len>>
    [] i = Total(j.len) - 1 -> <<"crc", j.id>>
    [] OTHER -> <<"data", j.id>>

\* The first n cells of the record are written at the head.
Written(n) ==
  [p \in Pos |-> LET i == (p - hdr.head) % Cap
                 IN  IF i < n THEN RecordCell(job, i) ELSE cells[p]]

\* writeRecordData and updateHeadPointer
StoreRecord ==
  /\ job # NoJob
  /\ ~NeedsTrim
  /\ LET n == Total(job.len)
     IN  /\ cells' = Written(n)
         /\ hdr' = [hdr EXCEPT !.head = (hdr.head + n) % Cap, !.size = hdr.size + n]
  /\ MarkDirty(cells', hdr')
  /\ written' = job.id
  /\ job' = NoJob
  /\ UNCHANGED <<peeked, faults>>

\* All three attempts of tryWriteWithRetry fail; they left some cells behind.
StoreError ==
  /\ job # NoJob
  /\ ~NeedsTrim
  /\ Hit("write")
  /\ \E n \in 0 .. Total(job.len) - 1 : cells' = Written(n)
  /\ job' = NoJob
  /\ UNCHANGED <<hdr, durable, pending, written, peeked>>

-----------------------------------------------------------------------------
(* pop_one                                                                 *)

\* Mutants of PopFront: every record is taken to have the maximal length; a
\* record with a bad length empties the ring.
PopFrontMaximal(c, h) == Advance(h, Total(MaxLen))
PopFrontWipes(c, h) ==
  LET n == LenAt(c, h, 2) IN Advance(h, IF n \in 1 .. MaxLen THEN Total(n) ELSE h.size)

\* Where pop_oneImpl leaves a header whose tail is at a marker.
PopFront(c, h) ==
  LET n == LenAt(c, h, 2)
  IN  Advance(h, IF CanRead(c, h, 2, 1) /\ n <= MaxLen + Tolerance THEN Total(n) ELSE 1)

\* What pop_oneImpl does to header h, and whether it marks it dirty.
Pop(c, h) ==
  LET Popped(g) == [hdr |-> g, dirty |-> TRUE]
      Left(g) == [hdr |-> g, dirty |-> FALSE]
      s == Scan(c, h)
  IN  IF h.size = 0 THEN Left(h)
      ELSE IF MarkerAt(c, h, 0) THEN Popped(PopFront(c, h))
      ELSE IF ~CanRead(c, h, 0, 2) THEN Popped(Advance(h, 1))
      ELSE IF s.result = "FOUND" THEN Popped(PopFront(c, s.hdr))
      ELSE Left(s.hdr)

\* The header becomes u.hdr.
Move(u) ==
  /\ hdr' = u.hdr
  /\ IF u.dirty THEN MarkDirty(cells, hdr') ELSE UNCHANGED <<durable, pending>>

PopOne ==
  /\ job = NoJob
  /\ Move(Pop(cells, hdr))
  /\ peeked' = 0
  /\ UNCHANGED <<cells, job, written, faults>>

PopReadError ==
  /\ job = NoJob
  /\ hdr.size > 0
  /\ Hit("read")
  /\ \/ Move([hdr |-> Advance(hdr, 1), dirty |-> TRUE])
     \/ /\ ~MarkerAt(cells, hdr, 0)
        /\ Scan(cells, hdr).result = "FOUND"
        /\ Move([hdr |-> Advance(Scan(cells, hdr).hdr, 1), dirty |-> TRUE])
  /\ peeked' = 0
  /\ UNCHANGED <<cells, job, written>>

-----------------------------------------------------------------------------
(* read_one                                                                *)

\* Mutant of Read: it does not look at the size first.
ReadIgnoresSize(c, h) ==
  LET id == FrontRecord(c, h)
  IN  [result |-> IF id # 0 THEN "NONE" ELSE "CACHE_EMPTY", id |-> id, hdr |-> h, dirty |-> FALSE]

\* What read_oneImpl does to header h, and the record it returns if its
\* result is NONE. (The caller's buffer is large enough for any record.) A
\* record whose marker alone is damaged is returned as well.
Read(c, h) ==
  LET n == LenAt(c, h, 2)
      Keep(res, id) == [result |-> res, id |-> id, hdr |-> h, dirty |-> FALSE]
      s == Scan(c, h)
      p == Pop(c, h)
  IN  IF h.size = 0 THEN Keep("CACHE_EMPTY", 0)
      ELSE IF ~CanRead(c, h, 0, 2) THEN Keep("FILE_READ_ERROR", 0)
      ELSE IF FrontRecord(c, h) # 0 THEN Keep("NONE", FrontRecord(c, h))
      ELSE IF ~MarkerAt(c, h, 0)
      THEN [result |-> [FOUND |-> "CORRUPT_DATA", NEED_MORE |-> "SCANNING",
                        EMPTY |-> "CACHE_EMPTY"][s.result],
            id |-> 0, hdr |-> s.hdr, dirty |-> FALSE]
      ELSE IF ~CanRead(c, h, 2, 1) \/ (n \in 1 .. MaxLen /\ ~CanRead(c, h, 3, n + 1))
      THEN Keep("FILE_READ_ERROR", 0)
      ELSE [result |-> "CORRUPT_DATA", id |-> 0, hdr |-> p.hdr, dirty |-> p.dirty]

ReadOne ==
  /\ job = NoJob
  /\ Move(Read(cells, hdr))
  /\ peeked' = Read(cells, hdr).id
  /\ UNCHANGED <<cells, job, written, faults>>

-----------------------------------------------------------------------------
(* Flushing, resets and what happens to the file.                          *)

\* flush, called by the timer of ApiClient::handleTimerTasks
Flush ==
  /\ job = NoJob
  /\ pending > 0
  /\ Flushed(cells, hdr)
  /\ UNCHANGED <<cells, hdr, job, written, peeked, faults>>

\* The flush fails: it stays due.
FlushError ==
  /\ job = NoJob
  /\ pending > 0
  /\ Hit("write")
  /\ UNCHANGED <<cells, hdr, durable, pending, job, written, peeked>>

Reopen ==
  /\ cells' = durable.cells
  /\ hdr' = durable.hdr
  /\ pending' = 0
  /\ job' = NoJob
  /\ peeked' = 0
  /\ UNCHANGED <<durable, written, faults>>

\* A watchdog, an exception or the loss of power at any moment, and initImpl.
Crash == Reopen

\* ESP.restart(), called between two calls, and initImpl.
Restart == job = NoJob /\ Reopen

\* resetImpl, called by the clear-cache and factory-reset commands
Reset ==
  /\ job = NoJob
  /\ durable' = Blank
  /\ cells' = Blank.cells
  /\ hdr' = Empty
  /\ pending' = 0
  /\ peeked' = 0
  /\ UNCHANGED <<job, written, faults>>

\* A cell that holds a record changes its value.
Rot ==
  /\ Hit("rot")
  /\ \E i \in 0 .. hdr.size - 1, n \in RotTo :
       LET p == (hdr.tail + i) % Cap
       IN  /\ cells' = [cells EXCEPT ![p] = <<"junk", n>>]
           /\ durable' = IF durable.cells[p] = cells[p]
                         THEN [durable EXCEPT !.cells[p] = <<"junk", n>>]
                         ELSE durable
  /\ peeked' = 0
  /\ UNCHANGED <<hdr, pending, job, written>>

\* The header in the file is damaged: initImpl is going to start afresh.
HeaderRot ==
  /\ Hit("header")
  /\ durable' = Blank
  /\ UNCHANGED <<cells, hdr, pending, job, written, peeked>>

-----------------------------------------------------------------------------
\* A new file, or one whose ring was filled before and is empty again.
Init ==
  /\ cells \in {[p \in Pos |-> c] : c \in {NoCell, <<"old", 1>>}}
  /\ hdr = Empty
  /\ durable = [cells |-> cells, hdr |-> hdr]
  /\ pending = 0
  /\ job = NoJob
  /\ written = 0
  /\ peeked = 0
  /\ faults = 0

Next ==
  \/ BeginWrite
  \/ TrimStep
  \/ TrimReadError
  \/ StoreRecord
  \/ StoreError
  \/ PopOne
  \/ PopReadError
  \/ ReadOne
  \/ Flush
  \/ FlushError
  \/ Crash
  \/ Restart
  \/ Reset
  \/ Rot
  \/ HeaderRot

Spec == Init /\ [][Next]_vars

\* The write loop runs to its end, and the upload cycle reads again and again
\* (ApiClient::loadRecordForUpload).
FairSpec ==
  Spec /\ WF_vars(TrimStep) /\ WF_vars(StoreRecord) /\ WF_vars(ReadOne)
-----------------------------------------------------------------------------
(* Properties.                                                             *)

Header == [head : Pos, tail : Pos, size : 0 .. Cap]

\* The header stays in the ring and the counters within their bounds.
TypeOK ==
  /\ cells \in [Pos -> Cell]
  /\ hdr \in Header
  /\ durable \in [cells : [Pos -> Cell], hdr : Header]
  /\ pending \in Nat
  /\ job \in [id : 0 .. MaxWrites, len : {0} \cup Lens]
  /\ written \in 0 .. MaxWrites
  /\ peeked \in 0 .. MaxWrites
  /\ faults \in 0 .. MaxFaults

\* The head is always size cells behind the tail, in RAM and in the file a
\* reset goes back to, whatever was damaged, misread or skipped on the way:
\* the next record never lands on one that is still to be read.
Aligned(h) == h.head = (h.tail + h.size) % Cap
RingShape == Aligned(hdr) /\ Aligned(durable.hdr)

\* The offsets at which records begin, and the k-th of them.
Starts(c, h) == {i \in 0 .. h.size - 1 : At(c, h, i)[1] = "m1"}
Rank(S, i) == Cardinality({j \in S : j <= i})
Nth(S, k) == CHOOSE i \in S : Rank(S, i) = k

\* The records of cells c with header h, oldest first, by their ids and sizes.
RecordFrom(c, h, i) ==
  LET n == LenAt(c, h, i + 2) IN [id |-> At(c, h, i + n + 3)[2], size |-> Total(n)]
Records(c, h) ==
  [k \in 1 .. Cardinality(Starts(c, h)) |-> RecordFrom(c, h, Nth(Starts(c, h), k))]

\* The whole, undamaged records in the ring, by their ids.
Intact(c, h) ==
  {id \in 1 .. MaxWrites :
     \E i \in 0 .. h.size - 1 :
       /\ MarkerAt(c, h, i)
       /\ LenAt(c, h, i + 2) \in 1 .. MaxLen
       /\ i + Total(LenAt(c, h, i + 2)) <= h.size
       /\ Matches(c, h, i + 3, LenAt(c, h, i + 2), id)}

\* Until the first fault the file is a queue of the records written: whole
\* records leave, in order, only to make room or because they are popped, and
\* a reset undoes fewer than FlushEvery changes.
Fifo == INSTANCE DurableFifo WITH
  q <- IF faults > 0 THEN <<>> ELSE Records(cells, hdr),
  used <- IF faults > 0 THEN 0 ELSE hdr.size,
  saved <- IF faults > 0 THEN [q |-> <<>>, used |-> 0]
           ELSE [q |-> Records(durable.cells, durable.hdr), used |-> durable.hdr.size],
  unsaved <- IF faults > 0 THEN 0 ELSE pending,
  last <- IF faults > 0 THEN 0 ELSE written,
  Room <- Cap,
  Sizes <- {Total(n) : n \in Lens},
  Lag <- FlushEvery

ImplementsFifo == Fifo!Spec

\* A record that was read is the one the next pop removes, and nothing else
\* goes with it.
Spared == Intact(cells, hdr) \ Intact(cells, hdr') \subseteq {peeked}
PopTakesWhatWasRead == [][peeked # 0 /\ PopOne => Spared]_vars

\* It is, whatever errors and damage there have been, if its marker is whole.
WholePopTakesWhatWasRead ==
  [][peeked # 0 /\ MarkerAt(cells, hdr, 0) /\ PopOne => Spared]_vars

\* Reading gives up at most the reach of one bad length: a damaged record costs
\* only so many of its readable neighbours, never the rest of the ring.
DamageIsContained ==
  [][ReadOne =>
       Cardinality(Intact(cells, hdr) \ Intact(cells, hdr'))
         <= (MaxLen + Tolerance + Overhead) \div (1 + Overhead)]_vars

\* What is read behind a whole marker lies between tail and head: never the
\* remains of a record that was popped before. (Deep recovery of a record whose
\* marker is damaged does not look at the head: after a scan that has left its
\* last byte, it may return a record popped long ago.)
ReadsInsideRing ==
  [][ReadOne /\ peeked' # 0 /\ MarkerAt(cells, hdr, 0) =>
       Total(LenAt(cells, hdr, 2)) <= hdr.size]_vars

\* Whatever stands at the front, reading again and again makes it a readable
\* record, empties the ring or reaches the end of a file that only further
\* writes extend, once no reset interferes any more.
Settled == Read(cells, hdr).result \in {"NONE", "CACHE_EMPTY", "FILE_READ_ERROR"}
FrontHeals == <>[][~Crash]_vars => []<>Settled
=============================================================================
