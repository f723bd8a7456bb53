----------------------------- MODULE GlobalOrder -----------------------------
(***************************************************************************)
(* The order of a merged batch in one drain of events/subscriptions.ts:     *)
(* compareGlobalOrder, given to Array.sort.                                 *)
(*                                                                          *)
(* The timestamp of an event is the caller's or the clock's, read before    *)
(* the stream is locked, so the timestamps of a stream may go back.  Two    *)
(* events of one stream compare by sequence all the same, and the           *)
(* comparator may have a cycle.  Array.sort orders a batch by a consistent  *)
(* comparator and leaves the order to the engine otherwise.                 *)
(*                                                                          *)
(* Stream ids are numbers: localeCompare orders them.                       *)
(***************************************************************************)
EXTENDS Integers, Sequences, Functions

\* MUTANT of Before: one stream is ordered by timestamp too.
BeforeByTime(a, b) ==
  \/ a.time < b.time
  \/ a.time = b.time /\ a.stream < b.stream
  \/ a.time = b.time /\ a.stream = b.stream /\ a.seq < b.seq

\* The comparator, negative for (a, b).
Before(a, b) ==
  IF a.stream = b.stream THEN a.seq < b.seq
  ELSE a.time < b.time \/ (a.time = b.time /\ a.stream < b.stream)

Consistent(events) ==
  \A a, b, c \in events : Before(a, b) /\ Before(b, c) => Before(a, c)

InOrder(batch) == \A i, j \in DOMAIN batch : i < j => ~Before(batch[j], batch[i])

Arrangements(batch) ==
  {[i \in DOMAIN batch |-> batch[p[i]]] : p \in Bijection(DOMAIN batch, DOMAIN batch)}

\* What Array.sort may return.
Sorted(batch) ==
  {b \in Arrangements(batch) : Consistent(Range(batch)) => InOrder(b)}

\* No timestamp of a stream in the batch goes back.
Growing(batch) ==
  \A i, j \in DOMAIN batch :
    batch[i].stream = batch[j].stream /\ batch[i].seq < batch[j].seq
      => batch[i].time <= batch[j].time
=============================================================================
