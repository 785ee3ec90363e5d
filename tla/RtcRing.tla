------------------------------ MODULE RtcRing -------------------------------
(***************************************************************************)
(* The ring of sensor records in the RTC memory of the ESP8266             *)
(* (storage/RtcManager). The memory survives every reset but not the loss  *)
(* of power. Each call reads the whole block, heals what it finds damaged, *)
(* works on the copy and writes the whole block back; the copy is          *)
(* overwritten by the next call's read, so the block in RTC memory is all  *)
(* the state there is between calls.                                       *)
(*                                                                         *)
(* A slot whose CRC or magic is wrong is Blank: the code looks at nothing  *)
(* else in it. A record is identified by the number of the append call     *)
(* that stored it.                                                         *)
(***************************************************************************)
EXTENDS Integers, Sequences, FiniteSets

CONSTANTS
  Slots,        \* RTC_MAX_RECORDS (17)
  SeqSpace,     \* the number of sequence numbers (2^16)
  Budget,       \* RTC_RECOVERY_BUDGET_SLOTS (4)
  LegacyCounts, \* record counts of the V1 blocks an upgrade may find
  Faults,       \* the faults that may happen, a subset of FaultKinds
  MaxFaults,    \* bound: calls hit by a fault
  MaxAppends    \* bound: append calls

FaultKinds == {"read", "write", "torn", "decay", "power"}

ASSUME RtcAssumption ==
  /\ Slots \in Nat \ {0}
  /\ SeqSpace \in Nat \ {0}
  /\ Budget \in Nat \ {0}
  /\ LegacyCounts \subseteq Nat
  /\ Faults \subseteq FaultKinds
  /\ MaxFaults \in Nat
  /\ MaxAppends \in Nat

VARIABLES
  rtc,      \* the block in RTC memory
  appended, \* append calls so far: the next record's identity is appended + 1
  faults,   \* calls hit by a fault so far
  tainted   \* history: the block may hold slots that no complete call left there

vars == <<rtc, appended, faults, tainted>>

Index == 0 .. Slots - 1
SeqNr == 0 .. SeqSpace - 1

Garbage == 0 \* a payload that no caller ever stored

Blank == [ok |-> FALSE, seq |-> 0, val |-> Garbage]
Slot == [ok : BOOLEAN, seq : SeqNr, val : Int]

\* layout: "v2" when the header checks, "v1" for an intact block of the
\* previous layout, "bad" otherwise (head, tail, count and nextSeq then mean
\* nothing).
Block == [layout : {"v2", "v1", "bad"}, head : Index, tail : Index,
          count : 0 .. Slots, nextSeq : SeqNr, rec : [Index -> Slot]]

\* resetDataInMemory
Fresh == [layout |-> "v2", head |-> 0, tail |-> 0, count |-> 0, nextSeq |-> 0,
          rec |-> [i \in Index |-> Blank]]

SlotAt(b, i) == b.rec[(b.tail + i) % Slots]

\* Mutant of SeqBefore: it does not expect the numbers to wrap around.
SeqSmaller(a, c) == a < c

SeqBefore(a, c) == a # c /\ (c - a) % SeqSpace < SeqSpace \div 2

-----------------------------------------------------------------------------
(* Writing the block.                                                      *)

\* What is in memory when a reset cuts a write short: the words are copied in
\* order, header first, so either the header is a mixture whose CRC fails, or
\* a prefix of the slots is new and the slot being written is unreadable.
Torn(old, new) ==
  {[old EXCEPT !.layout = "bad"]} \cup
  {[new EXCEPT !.rec = [i \in Index |-> IF i < cut \/ new.rec[i] = old.rec[i]
                                        THEN new.rec[i]
                                        ELSE IF i = cut /\ mid THEN Blank
                                        ELSE old.rec[i]]] :
     cut \in Index, mid \in BOOLEAN}

\* writeData: the outcomes of writing block new over block old.
Write(old, new) ==
  {[done |-> "ok", mem |-> new]}
  \cup (IF "write" \in Faults THEN {[done |-> "failed", mem |-> old]} ELSE {})
  \cup (IF "torn" \in Faults THEN [done : {"reset"}, mem : Torn(old, new)] ELSE {})

\* An outcome of a call: what it returned, the copy it left in RAM, the block
\* it left in memory and whether a fault hit it.
Outcome(status, data, mem, hit) ==
  [status |-> status, data |-> data, mem |-> mem, hit |-> hit]

\* The outcomes of a call that ends by writing new and returns status if the
\* write succeeds.
Finish(status, old, new, hit) ==
  {Outcome(CASE w.done = "ok" -> status
             [] w.done = "failed" -> "FILE_READ_ERROR"
             [] w.done = "reset" -> "RESET",
           new, w.mem, hit \/ w.done # "ok") : w \in Write(old, new)}

Stopped(o) == o.status \in {"FILE_READ_ERROR", "RESET"}

-----------------------------------------------------------------------------
(* Healing.                                                                *)

\* Mutant of FrontHoles: a damaged slot at the front stays there.
FrontHolesNone(b) == {0}

\* How many slots the loop of sanitizeFrontSlots removes.
FrontHoles(b) ==
  {k \in 0 .. b.count :
     /\ k <= Budget
     /\ \A i \in 0 .. k - 1 : ~SlotAt(b, i).ok
     /\ k < b.count /\ k < Budget => SlotAt(b, k).ok}

DropFront(b, k) ==
  IF k = b.count
  THEN [b EXCEPT !.head = 0, !.tail = 0, !.count = 0]
  ELSE [b EXCEPT !.tail = (b.tail + k) % Slots, !.count = b.count - k]

\* sanitizeFrontSlots, where d is the block without the slots removed
SanitizeInto(b, d) ==
  LET status == CASE d.count > 0 /\ ~SlotAt(d, 0).ok -> "SCANNING"
                  [] d.count # b.count -> "CORRUPT_DATA"
                  [] OTHER -> "NONE"
  IN  IF d = b THEN {Outcome(status, b, b, FALSE)} ELSE Finish(status, b, d, FALSE)

Sanitize(b) == UNION {SanitizeInto(b, DropFront(b, k)) : k \in FrontHoles(b)}

ValidSlots(b) == {i \in Index : b.rec[i].ok}

SalvageCount(b) == Cardinality({b.rec[i].seq : i \in ValidSlots(b)})

\* One valid slot for each sequence number among them, in any order.
SalvageChoices(b) ==
  {f \in [0 .. SalvageCount(b) - 1 -> ValidSlots(b)] :
     \A i, j \in DOMAIN f : i # j => b.rec[f[i]].seq # b.rec[f[j]].seq}

Sorted(b, f) ==
  \A i, j \in DOMAIN f : i < j => SeqBefore(b.rec[f[i]].seq, b.rec[f[j]].seq)

\* The orders into which the sort of salvageFromCurrentSlots may bring the
\* slots: any, when seqBefore does not order them.
SalvageOrders(b) ==
  LET sorted == {f \in SalvageChoices(b) : Sorted(b, f)}
  IN  IF sorted = {} THEN SalvageChoices(b) ELSE sorted

\* The block salvage builds from the slots in order f.
Compacted(b, f) ==
  LET n == SalvageCount(b)
  IN  [layout |-> "v2", head |-> n % Slots, tail |-> 0, count |-> n,
       nextSeq |-> IF n = 0 THEN 0 ELSE (b.rec[f[n - 1]].seq + 1) % SeqSpace,
       rec |-> [i \in Index |-> IF i < n THEN b.rec[f[i]] ELSE Blank]]

\* salvageFromCurrentSlots on the copy b, and the reset that loadAndHeal
\* falls back to when the salvaged block cannot be written.
Salvage(b, mem, hit) ==
  UNION {IF o.status = "FILE_READ_ERROR"
         THEN Finish("CORRUPT_DATA", o.mem, Fresh, TRUE)
         ELSE {o} :
           o \in UNION {Finish("CORRUPT_DATA", mem, Compacted(b, f), hit) :
                         f \in SalvageOrders(b)}}

\* The block tryMigrateFromLegacy builds. The legacy records are read through
\* a pointer into the very copy that resetDataInMemory has just cleared, so
\* the slots get readable records with payloads nobody stored.
Migrated(n) ==
  [Fresh EXCEPT
     !.count = n, !.head = n % Slots, !.nextSeq = n % SeqSpace,
     !.rec = [i \in Index |-> IF i < n
                              THEN [ok |-> TRUE, seq |-> i % SeqSpace, val |-> Garbage]
                              ELSE Blank]]

\* tryMigrateFromLegacy; when its write fails loadAndHeal salvages the copy.
\* A V1 block keeps its record count in count here, cut to the V2 capacity.
Migrate(b) ==
  UNION {IF o.status = "FILE_READ_ERROR" THEN Salvage(o.data, o.mem, TRUE) ELSE {o} :
           o \in Finish("CORRUPT_DATA", b, Migrated(b.count), FALSE)}

\* loadAndHeal
LoadAndHeal(b) ==
  (IF "read" \in Faults THEN {Outcome("FILE_READ_ERROR", b, b, TRUE)} ELSE {})
  \cup (CASE b.layout = "v2" -> Sanitize(b)
          [] b.layout = "v1" -> Migrate(b)
          [] b.layout = "bad" -> Salvage(b, b, FALSE))

-----------------------------------------------------------------------------
(* The calls.                                                              *)

\* The call ends with outcome o.
Settle(o) ==
  /\ o.hit => faults < MaxFaults
  /\ faults' = IF o.hit THEN faults + 1 ELSE faults
  /\ rtc' = o.mem
  /\ tainted' = (tainted \/ o.status = "RESET")

\* Mutant of WithNewest: a full ring keeps its tail.
WithNewestKeepsTail(b, v) ==
  LET full == b.count >= Slots
  IN  [b EXCEPT !.count = IF full THEN @ ELSE @ + 1,
                !.head = (@ + 1) % Slots,
                !.nextSeq = (@ + 1) % SeqSpace,
                !.rec[b.head] = [ok |-> TRUE, seq |-> b.nextSeq, val |-> v]]

WithNewest(b, v) ==
  LET full == b.count >= Slots
  IN  [b EXCEPT
         !.tail = IF full THEN (@ + 1) % Slots ELSE @,
         !.count = IF full THEN @ ELSE @ + 1,
         !.head = (@ + 1) % Slots,
         !.nextSeq = (@ + 1) % SeqSpace,
         !.rec[b.head] = [ok |-> TRUE, seq |-> b.nextSeq, val |-> v]]

\* append
AppendRecord ==
  /\ appended < MaxAppends
  /\ appended' = appended + 1
  /\ \E h \in LoadAndHeal(rtc) :
       \/ Stopped(h) /\ Settle(h)
       \/ /\ ~Stopped(h)
          /\ \E o \in Finish("NONE", h.mem, WithNewest(h.data, appended + 1), h.hit) :
               Settle(o)

\* Mutants of WithoutOldest: the popped slot keeps its record; the record behind
\* it goes too.
WithoutOldestKept(b) == DropFront(b, 1)
WithoutOldestTwo(b) ==
  LET second == (b.tail + 1) % Slots
  IN  DropFront([b EXCEPT !.rec[b.tail] = Blank, !.rec[second] = Blank],
                IF b.count = 1 THEN 1 ELSE 2)

WithoutOldest(b) == DropFront([b EXCEPT !.rec[b.tail] = Blank], 1)

\* popEx
PopRecord ==
  /\ UNCHANGED appended
  /\ \E h \in LoadAndHeal(rtc) :
       IF h.status = "NONE" /\ h.data.count > 0
       THEN \E o \in Finish("NONE", h.mem, WithoutOldest(h.data), h.hit) : Settle(o)
       ELSE Settle(h)

\* peekEx, isFull, getCount, getRawData: they change nothing but what healing
\* changes.
Inspect ==
  /\ UNCHANGED appended
  /\ \E h \in LoadAndHeal(rtc) : Settle(h)

\* init, called once after every reset
Boot ==
  /\ UNCHANGED appended
  /\ \E h \in LoadAndHeal(rtc) :
       IF h.status \in {"CORRUPT_DATA", "SCANNING"}
       THEN \E o \in LoadAndHeal(h.mem) : Settle([o EXCEPT !.hit = @ \/ h.hit])
       ELSE Settle(h)

\* clear
Clear ==
  /\ UNCHANGED appended
  /\ \E o \in Finish("NONE", rtc, Fresh, FALSE) : Settle(o)

(* What happens to RTC memory between calls. *)

Decay ==
  /\ "decay" \in Faults
  /\ faults < MaxFaults
  /\ faults' = faults + 1
  /\ \/ rtc' = [rtc EXCEPT !.layout = "bad"]
     \/ \E i \in ValidSlots(rtc) : rtc' = [rtc EXCEPT !.rec[i] = Blank]
  /\ UNCHANGED <<appended, tainted>>

PowerLoss ==
  /\ "power" \in Faults
  /\ faults < MaxFaults
  /\ faults' = faults + 1
  /\ rtc' = [Fresh EXCEPT !.layout = "bad"]
  /\ tainted' = FALSE
  /\ UNCHANGED appended

-----------------------------------------------------------------------------
\* RTC memory at the first boot after a power-up, an upgrade from the V1
\* layout, or a reset that found the ring empty.
Init ==
  /\ appended = 0
  /\ faults = 0
  /\ \/ rtc = [Fresh EXCEPT !.layout = "bad"] /\ tainted = FALSE
     \/ \E n \in LegacyCounts :
          /\ rtc = [Fresh EXCEPT !.layout = "v1", !.count = IF n < Slots THEN n ELSE Slots]
          /\ tainted = TRUE
     \/ \E s \in SeqNr : rtc = [Fresh EXCEPT !.nextSeq = s] /\ tainted = FALSE

Next ==
  \/ AppendRecord
  \/ PopRecord
  \/ Inspect
  \/ Boot
  \/ Clear
  \/ Decay
  \/ PowerLoss

Spec == Init /\ [][Next]_vars

\* The upload cycle peeks at the ring again and again (ApiClient::
\* loadRecordForUpload), whatever earlier calls returned.
FairSpec == Spec /\ WF_vars(Inspect)

-----------------------------------------------------------------------------
(* Properties.                                                             *)

\* The block in memory has the shape of RtcSensorData; the counters stay
\* within their bounds.
TypeOK ==
  /\ rtc \in Block
  /\ appended \in 0 .. MaxAppends
  /\ faults \in 0 .. MaxFaults
  /\ tainted \in BOOLEAN

\* The slot indices the block b says are in use.
InUse(b, i) ==
  IF b.tail + b.count <= Slots
  THEN b.tail <= i /\ i < b.tail + b.count
  ELSE b.tail <= i \/ i < b.tail + b.count - Slots

Consistent(b) ==
  b.layout = "v2" =>
    b.head = (IF b.tail + b.count < Slots
              THEN b.tail + b.count
              ELSE b.tail + b.count - Slots)

NoRemains(b) ==
  b.layout = "v2" => \A i \in Index : b.rec[i].ok => InUse(b, i)

\* The header that append, popEx, sanitize and salvage maintain piecemeal is
\* consistent whenever its CRC says so: head is count slots after tail, so
\* append never writes onto a record that is still to be uploaded.
RingShape == Consistent(rtc)

\* Every slot that would pass the CRC check is in use: a record that was
\* popped or overwritten left nothing behind that a later salvage, which looks
\* at all slots, could bring back. Only a write that a reset cut short breaks
\* this (clear() starts the numbers again at 0 and leaves the old slots).
NothingLeftBehind == ~tainted => NoRemains(rtc)

\* Every readable slot holds a payload some caller stored: what the ring
\* delivers to the upload was measured by the sensors. ("Legacy RTC migrated:
\* %u records", RtcManager.cpp:167.)
NothingFabricated == \A i \in ValidSlots(rtc) : rtc.rec[i].val # Garbage

\* The records a reader can still get out of block b.
Held(b) ==
  {b.rec[i].val : i \in {j \in ValidSlots(b) : b.layout = "v2" => InUse(b, j)}}

\* No call loses more than one record, not even one that a reset interrupts
\* in the middle of its write: only clear(), the loss of power, or a salvage
\* that cannot be written empty the ring.
RetainsRecords ==
  [][Cardinality(Held(rtc) \ Held(rtc')) > 1 =>
       Clear \/ PowerLoss \/ rtc.layout = "bad"]_vars

\* Whatever was damaged at the front of the ring, polling clears the way to
\* the next record: sanitizing a few slots per call is enough.
FrontDamaged ==
  \/ rtc.layout # "v2"
  \/ rtc.count > 0 /\ ~SlotAt(rtc, 0).ok
FrontHeals == FrontDamaged ~> ~FrontDamaged

\* The readable records in the order in which they are delivered; for a damaged
\* header, in the order in which salvage is going to restore them.
Live(b) ==
  LET order == IF b.layout = "v2"
               THEN [i \in 1 .. b.count |-> SlotAt(b, i - 1)]
               ELSE LET f == CHOOSE f \in SalvageOrders(b) : TRUE
                    IN  [i \in 1 .. SalvageCount(b) |-> b.rec[f[i - 1]]]
      readable == SelectSeq(order, LAMBDA r : r.ok)
  IN  [i \in DOMAIN readable |-> readable[i].val]

Fifo == INSTANCE RecordFifo WITH
  q <- IF tainted THEN <<>> ELSE Live(rtc),
  holes <- IF tainted \/ rtc.layout # "v2" THEN 0 ELSE rtc.count - Len(Live(rtc)),
  intact <- tainted \/ rtc.layout = "v2",
  Capacity <- Slots,
  MaxRecords <- MaxAppends

\* The ring, with failing reads and writes, decaying memory and salvage after
\* a lost header, is a FIFO that loses only what was damaged or overwritten,
\* also when the sequence numbers wrap around; a reset in the middle of a write
\* counts as the loss of everything.
ImplementsFifo == Fifo!Spec
=============================================================================
