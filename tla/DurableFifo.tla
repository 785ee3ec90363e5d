---------------------------- MODULE DurableFifo ----------------------------
(***************************************************************************)
(* What a file-backed record queue promises: a FIFO with a given room that *)
(* drops its oldest record only when it is too full to take another one,   *)
(* and that a crash takes back to one earlier state of it, fewer than Lag  *)
(* changes ago. It never reorders or duplicates a record.                  *)
(***************************************************************************)
EXTENDS Integers, Sequences

CONSTANTS
  Room,   \* how much the queue can hold
  Sizes,  \* the sizes a record can have
  Lag     \* a crash undoes fewer changes than this

VARIABLES
  q,       \* the queue, oldest record first: each has an id and a size
  used,    \* how much of the room its records take
  saved,   \* the queue a crash falls back to, and what it takes
  unsaved, \* changes since saved was brought up to date
  last     \* the id of the newest record ever stored

vars == <<q, used, saved, unsaved, last>>

Nothing == [q |-> <<>>, used |-> 0]

Init == q = <<>> /\ used = 0 /\ saved = Nothing /\ unsaved = 0 /\ last = 0

\* Every change of the queue may be the one that saves it.
Changed ==
  \/ saved' = [q |-> q', used |-> used'] /\ unsaved' = 0
  \/ unsaved + 1 < Lag /\ unsaved' = unsaved + 1 /\ UNCHANGED saved

Store ==
  \E n \in Sizes :
    /\ used + n <= Room
    /\ q' = Append(q, [id |-> last + 1, size |-> n])
    /\ used' = used + n
    /\ last' = last + 1
    /\ Changed

\* The oldest record leaves.
Drop ==
  /\ q # <<>>
  /\ q' = Tail(q)
  /\ used' = used - Head(q).size

Evict ==
  /\ \E n \in Sizes : used + n > Room
  /\ Drop
  /\ UNCHANGED <<saved, unsaved, last>>

Take ==
  /\ Drop
  /\ Changed
  /\ UNCHANGED last

Save ==
  /\ saved' = [q |-> q, used |-> used]
  /\ unsaved' = 0
  /\ UNCHANGED <<q, used, last>>

Crash ==
  /\ q' = saved.q
  /\ used' = saved.used
  /\ unsaved' = 0
  /\ UNCHANGED <<saved, last>>

Erase ==
  /\ q' = <<>>
  /\ used' = 0
  /\ saved' = Nothing
  /\ unsaved' = 0
  /\ UNCHANGED last

\* The medium fails: nothing is promised of the records from now on.
Fail ==
  /\ q' = <<>>
  /\ used' = 0
  /\ saved' = Nothing
  /\ unsaved' = 0
  /\ last' = 0

Next == Store \/ Evict \/ Take \/ Save \/ Crash \/ Erase \/ Fail

Spec == Init /\ [][Next]_vars
=============================================================================
