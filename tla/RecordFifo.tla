----------------------------- MODULE RecordFifo -----------------------------
(***************************************************************************)
(* What a bounded record buffer on a sensor node promises to its callers:  *)
(* a FIFO of at most Capacity records that may lose records to damaged     *)
(* memory, but never reorders, duplicates or resurrects one, and that      *)
(* overwrites its oldest entry only when every entry is in use.            *)
(*                                                                         *)
(* An entry whose content was damaged stays in the buffer as a hole until  *)
(* the buffer mends itself, so holes count against the capacity.           *)
(***************************************************************************)
EXTENDS Naturals, Sequences

CONSTANTS
  Capacity,  \* the number of entries
  MaxRecords \* a bound on the identities of the records ever stored

VARIABLES
  q,      \* the records that a reader can still get, oldest first
  holes,  \* the damaged entries that still take up room
  intact  \* FALSE while the bookkeeping itself is damaged

vars == <<q, holes, intact>>

Init == q = <<>> /\ holes = 0 /\ intact \in BOOLEAN

\* The buffer repairs its bookkeeping and forgets some of its holes.
Mend ==
  /\ intact' = TRUE
  /\ holes' \in 0 .. holes
  /\ UNCHANGED q

\* Storing a record, which first mends the buffer. When all entries are in
\* use the oldest record makes room.
Store(v) ==
  \E h \in 0 .. holes :
    /\ intact' = TRUE
    /\ \/ /\ Len(q) + h < Capacity
          /\ q' = Append(q, v)
          /\ holes' = h
       \/ /\ Len(q) + h = Capacity
          /\ q # <<>>
          /\ q' = Append(Tail(q), v)
          /\ holes' = h

\* The oldest record leaves.
Take ==
  /\ q # <<>>
  /\ q' = Tail(q)
  /\ intact' = TRUE
  /\ holes' \in 0 .. holes

\* Damaged memory: one record is lost where it stands, or the bookkeeping is.
LoseRecord ==
  \E i \in 1 .. Len(q) :
    /\ q' = SubSeq(q, 1, i - 1) \o SubSeq(q, i + 1, Len(q))
    /\ holes' \in {holes, holes + 1}
    /\ UNCHANGED intact

LoseBookkeeping ==
  /\ intact' = FALSE
  /\ holes' \in 0 .. holes
  /\ UNCHANGED q

\* Everything is erased, on request or with the power.
Erase ==
  /\ q' = <<>>
  /\ holes' = 0
  /\ intact' \in BOOLEAN

\* A repair that itself fails half way may give up all records and start
\* again empty; it happens only while the bookkeeping is damaged.
GiveUpAndStore(v) ==
  /\ ~intact
  /\ q' = <<v>>
  /\ holes' = 0
  /\ intact' = TRUE

Next ==
  \/ Mend
  \/ \E v \in 1 .. MaxRecords : Store(v) \/ GiveUpAndStore(v)
  \/ Take
  \/ LoseRecord
  \/ LoseBookkeeping
  \/ Erase

Spec == Init /\ [][Next]_vars
=============================================================================
