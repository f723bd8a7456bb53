---------------------------- MODULE IdempotentLog ----------------------------
(***************************************************************************)
(* What the event appender promises its callers, with no gate, lock,        *)
(* transaction or process in sight:                                         *)
(*   - a call writes its events in one piece, and at most once;             *)
(*   - a key of a scope (a stream, or Ops for operation ids) has one owner, *)
(*     and a call that repeats the key is answered with that owner;         *)
(*   - a call that reports a failure, or no events, has written nothing.    *)
(***************************************************************************)
EXTENDS Naturals, Sequences

CONSTANTS Stream, Call, Key, MaxBatch, Ops, None

VARIABLES
  history,   \* history[s]: the entries of stream s in order
  owner,     \* owner[x][k]: the call that owns key k of scope x, or None
  told       \* told[c]: what call c knows

vars == <<history, owner, told>>

Scope == Stream \cup {Ops}
Failed == "failed"
Open == "open"
Written == "written"

Init ==
  /\ \E n \in 0 .. 1 :
       history = [s \in Stream |-> [i \in 1 .. n |-> [key |-> None, by |-> None]]]
  /\ owner = [x \in Scope |-> [k \in Key |-> None]]
  /\ told = [c \in Call |-> Open]

\* Call c writes n entries to stream s, under key k of scope x or under none.
Write(c, s, x, k, n) ==
  /\ told[c] = Open
  /\ told' = [told EXCEPT ![c] = Written]
  /\ k # None => owner[x][k] = None
  /\ history' = [history EXCEPT ![s] =
                   @ \o [i \in 1 .. n |-> [key |-> IF x = Ops THEN None ELSE k,
                                           by |-> c]]]
  /\ owner' = IF k = None THEN owner ELSE [owner EXCEPT ![x][k] = c]

\* The writer learns that its entries are stored.
Acknowledge(c) ==
  /\ told[c] = Written
  /\ told' = [told EXCEPT ![c] = c]
  /\ UNCHANGED <<history, owner>>

\* A call that repeats a key learns who wrote under it.
Replay(c, x, k) ==
  /\ told[c] = Open
  /\ owner[x][k] # None
  /\ told' = [told EXCEPT ![c] = owner[x][k]]
  /\ UNCHANGED <<history, owner>>

\* A call ends without a write.
Fail(c) ==
  /\ told[c] = Open
  /\ told' = [told EXCEPT ![c] = Failed]
  /\ UNCHANGED <<history, owner>>

\* A stream is deleted with the keys scoped to it.
Delete(s) ==
  /\ UNCHANGED told
  /\ owner' = [owner EXCEPT ![s] = [k \in Key |-> None]]
  /\ history' = [history EXCEPT ![s] = <<>>]

\* Entries of a stream expire, the others keep their order; its keys stay owned.
Expire(s) ==
  /\ UNCHANGED <<owner, told>>
  /\ history' # history
  /\ \E n \in 0 .. Len(history[s]) - 1 : \E kept \in [1 .. n -> 1 .. Len(history[s])] :
       /\ \A i, j \in 1 .. n : i < j => kept[i] < kept[j]
       /\ history' = [history EXCEPT ![s] = [i \in 1 .. n |-> history[s][kept[i]]]]

Next ==
  \/ \E c \in Call, s \in Stream, n \in 1 .. MaxBatch :
       \/ \E k \in Key \cup {None} : Write(c, s, s, k, n)
       \/ \E k \in Key : Write(c, s, Ops, k, n)
  \/ \E c \in Call, x \in Scope, k \in Key : Replay(c, x, k)
  \/ \E c \in Call : Acknowledge(c) \/ Fail(c)
  \/ \E s \in Stream : Delete(s) \/ Expire(s)

Spec == Init /\ [][Next]_vars
=============================================================================
