------------------- MODULE AtomicAppenderRefinement_proof -------------------
(***************************************************************************)
(* What the callers of the appender can rely on, for every value of its     *)
(* constants: the answers name stored rows, a decision lands on the rows it *)
(* folded, the gate is the tail, and the whole is an IdempotentLog.         *)
(***************************************************************************)
EXTENDS AtomicAppender_proof, AtomicAppenderRefinement

USE BoundsAssumption, NoneAssumption, KindsAssumption
    DEF BoundsAssumption, NoneAssumption, KindsAssumption

(***************************************************************************)
(* The steps, by what the caller of a call sees of them.                    *)
(***************************************************************************)
Quiet == /\ UNCHANGED <<table, req, expected, folded>>
         /\ budget'.deletes = budget.deletes /\ budget'.prunes = budget.prunes

\* Nothing is told and no row moves; a call in flight goes on, or dies.
Silent ==
  /\ UNCHANGED <<log, claims, opClaims, req, expected, folded, answer>>
  /\ budget'.deletes = budget.deletes /\ budget'.prunes = budget.prunes
  /\ \A d \in Call : \/ pc'[d] = pc[d]
                     \/ /\ InFlight(d)
                        /\ pc'[d] \in {"tx", "clash", "opTx", "lost"}
                        /\ pc[d] = "hook" => pc'[d] = "lost"

\* A call ends without rows of its own or of another call.
Ended(c) ==
  /\ pc[c] \notin {"idle", "hook", "done", "lost"}
  /\ \E kind \in Outcome \ {"committed"} : Return(c, "done", kind, None)
  /\ Quiet

\* A call is answered with the claim of its key.
Hit(c) ==
  /\ pc[c] \in {"waiting", "clash"}
  /\ ClaimOf(c) # None
  /\ Return(c, "done", "cache-hit", ClaimOf(c))
  /\ Quiet

\* A call is answered with the claim of its operation.
OnceHit(c) ==
  /\ pc[c] \in {"opLookup", "opTx"}
  /\ opClaims[req[c].key] # None
  /\ opClaims[req[c].key].digest = req[c].digest
  /\ Return(c, "done", "cache-hit", opClaims[req[c].key].batch)
  /\ Quiet

LEMMA LockedCases ==
  ASSUME ControlInv, NEW c \in Call, LockedStep(c)
  PROVE  Silent \/ NotifyCommit(c) \/ Ended(c) \/ Hit(c) \/ Commit(c)
<1> USE DEF ControlInv, TypeOK
<1>1. CASE LookupMiss(c) \/ Busy(c) \/ ClaimClash(c)
  BY <1>1 DEF LookupMiss, Busy, ClaimClash, Silent, InFlight, table
<1>2. CASE LookupHit(c)
  BY <1>2 DEF LookupHit, Hit, Quiet
<1>3. CASE BusyExhausted(c) \/ GateConflict(c) \/ IoError(c)
  BY <1>3 DEF BusyExhausted, GateConflict, IoError, Ended, Quiet, Outcome
<1>4. CASE Relookup(c)
  BY <1>4 DEF Relookup, Hit, Ended, Quiet, Outcome
<1> QED
  BY <1>1, <1>2, <1>3, <1>4 DEF LockedStep

LEMMA StepCases ==
  ASSUME ControlInv, [Next]_vars
  PROVE  \/ Silent
         \/ \E c \in Call : Invoke(c) \/ InvokeOnce(c) \/ Fold(c) \/ Decided(c)
         \/ \E c \in Call : NotifyCommit(c) \/ Ended(c) \/ Hit(c) \/ OnceHit(c)
         \/ \E c \in Call : Commit(c) \/ OnceCommit(c)
         \/ \E s \in Stream : DeleteStream(s) \/ PruneEvents(s)
<1>1. ASSUME NEW c \in Call, OnceStep(c)
      PROVE  Silent \/ Ended(c) \/ OnceHit(c) \/ OnceCommit(c)
  <2> USE DEF ControlInv, TypeOK
  <2>1. CASE OnceStored(c)
    BY <2>1 DEF OnceStored, OnceHit, Ended, Quiet, Outcome
  <2>2. CASE OnceMiss(c)
    BY <2>2 DEF OnceMiss, Silent, InFlight, table
  <2>3. CASE OnceRefused(c)
    BY <2>3 DEF OnceRefused, Ended, Quiet, Outcome
  <2> QED BY <1>1, <2>1, <2>2, <2>3 DEF OnceStep
<1>2. ASSUME NEW c \in Call, ClosureStep(c) PROVE Decided(c) \/ Ended(c)
  BY <1>2 DEF ClosureStep, DecidedNothing, ClosureThrows, Ended, Quiet, Outcome
<1>3. ASSUME NEW p \in Proc, Open(p) \/ Crash(p) PROVE Silent
  BY <1>3 DEF Open, Crash, Silent, InFlight, table, call, ControlInv, TypeOK
<1>4. UNCHANGED vars => Silent
  BY DEF vars, table, call, Silent
<1> QED
  BY <1>1, <1>2, <1>3, <1>4, LockedCases DEF Next, Finished

(***************************************************************************)
(* The answers.  Only a call that ended, or is in its hook, has one.        *)
(***************************************************************************)
Answered ==
  \A c \in Call :
    /\ answer[c] # None => pc[c] \in {"hook", "done", "lost"}
    /\ pc[c] = "hook" => /\ answer[c] # None
                         /\ answer[c].batch # None /\ answer[c].batch.by = c

LEMMA Returned ==
  ASSUME ControlInv, NEW c \in Call, NEW x, NEW kind \in Outcome,
         NEW b \in Batch \cup {None}, Return(c, x, kind, b)
  PROVE  /\ pc'[c] = x /\ answer'[c] = [kind |-> kind, batch |-> b] /\ answer'[c] # None
         /\ \A d \in Call : d # c => pc'[d] = pc[d] /\ answer'[d] = answer[d]
<1>1. answer'[c] = [kind |-> kind, batch |-> b]
  BY DEF Return, ControlInv, TypeOK
<1>2. [kind |-> kind, batch |-> b] \in Answer
  BY DEF Answer
<1> QED
  BY <1>1, <1>2, RecordsAssumption DEF Return, ControlInv, TypeOK, RecordsAssumption

\* What an ending call returns.
LEMMA Endings ==
  ASSUME ControlInv, NEW c \in Call, Ended(c) \/ Hit(c) \/ OnceHit(c)
  PROVE  \E kind \in Outcome \ {"committed"}, b \in Batch \cup {None} :
           Return(c, "done", kind, b)
<1>1. CASE Ended(c)
  BY <1>1 DEF Ended
<1>2. CASE Hit(c)
  BY <1>2, ClaimTypes DEF Hit, Outcome
<1>3. CASE OnceHit(c)
  <2>1. opClaims[req[c].key] \in OpClaim
    BY <1>3 DEF OnceHit, ControlInv, TypeOK, RequestInv, Deciding
  <2> QED BY <1>3, <2>1 DEF OnceHit, OpClaim, Outcome
<1> QED
  BY <1>1, <1>2, <1>3

\* What a commit writes and returns.
LEMMA Commits ==
  ASSUME ControlInv, NEW c \in Call, Commit(c)
  PROVE  LET s == req[c].stream
             k == req[c].key
             n == req[c].n
         IN  /\ s \in Stream /\ k \in Key \cup {None} /\ n \in 1 .. MaxBatch
             /\ gate[s] \in Nat /\ pc[c] = "tx" /\ req[c].kind # "once"
             /\ BatchOf(gate[s], n, c) \in Batch
             /\ GatePasses(c) /\ InsertRows(s, n, k, c)
             /\ k # None => claims[s][k] = None
             /\ claims' = IF k = None THEN claims
                          ELSE [claims EXCEPT ![s][k] = BatchOf(gate[s], n, c)]
             /\ Return(c, "hook", "committed", BatchOf(gate[s], n, c))
             /\ UNCHANGED <<opClaims, req, expected, folded, budget>>
<1> DEFINE s == req[c].stream
           k == req[c].key
           n == req[c].n
<1>1. s \in Stream /\ k \in Key \cup {None} /\ n \in 1 .. MaxBatch /\ req[c].kind # "once"
  BY DEF Commit, ControlInv, RequestInv, Running, Appending, Ready, Request
<1>2. gate[s] \in Nat
  BY <1>1 DEF ControlInv, TypeOK
<1>3. BatchOf(gate[s], n, c) \in Batch
  BY <1>1, <1>2, BatchTypes
<1> QED
  BY <1>1, <1>2, <1>3 DEF Commit, ClaimOf

LEMMA OnceCommits ==
  ASSUME ControlInv, NEW c \in Call, OnceCommit(c)
  PROVE  \E s \in Stream, n \in 1 .. MaxBatch :
           /\ gate[s] \in Nat /\ pc[c] = "opTx"
           /\ req[c].kind = "once" /\ req[c].key \in Key /\ req[c].digest \in Digest
           /\ BatchOf(gate[s], n, c) \in Batch
           /\ [digest |-> req[c].digest, stream |-> s, batch |-> BatchOf(gate[s], n, c)]
                \in OpClaim
           /\ InsertRows(s, n, None, c)
           /\ opClaims[req[c].key] = None
           /\ opClaims' = [opClaims EXCEPT ![req[c].key] =
                             [digest |-> req[c].digest, stream |-> s,
                              batch |-> BatchOf(gate[s], n, c)]]
           /\ Return(c, "hook", "committed", BatchOf(gate[s], n, c))
           /\ UNCHANGED <<claims, req, folded, budget>>
           /\ \A d \in Call : d # c => expected'[d] = expected[d]
<1>1. PICK s \in Stream, n \in 1 .. MaxBatch : \E e \in {None, TailSeq(log[s])} :
        /\ expected' = [expected EXCEPT ![c] = e]
        /\ InsertRows(s, n, None, c)
        /\ opClaims' = [opClaims EXCEPT ![req[c].key] =
                          [digest |-> req[c].digest, stream |-> s,
                           batch |-> BatchOf(gate[s], n, c)]]
        /\ Return(c, "hook", "committed", BatchOf(gate[s], n, c))
  BY DEF OnceCommit
<1>2. req[c].kind = "once" /\ req[c].key \in Key /\ req[c].digest \in Digest /\ gate[s] \in Nat
  BY DEF OnceCommit, ControlInv, RequestInv, Deciding, TypeOK
<1>3. BatchOf(gate[s], n, c) \in Batch
  BY <1>2, BatchTypes
<1>4. [digest |-> req[c].digest, stream |-> s, batch |-> BatchOf(gate[s], n, c)] \in OpClaim
  BY <1>2, <1>3 DEF OpClaim
<1>5. \A d \in Call : d # c => expected'[d] = expected[d]
  BY <1>1 DEF ControlInv, TypeOK
<1> QED
  BY <1>1, <1>2, <1>3, <1>4, <1>5 DEF OnceCommit

LEMMA InitAnswered == Init => Answered
  BY DEF Init, Answered

LEMMA NextAnswered ==
  ASSUME ControlInv, Answered, [Next]_vars
  PROVE  Answered'
<1> USE DEF Answered
<1>1. CASE Silent
  BY <1>1 DEF Silent, InFlight
<1>2. ASSUME NEW c \in Call, Invoke(c) \/ InvokeOnce(c) \/ Fold(c) \/ Decided(c)
      PROVE  Answered'
  <2>1. answer' = answer /\ pc[c] \in {"idle", "folded"} /\ pc'[c] # "hook"
        /\ \A d \in Call : d # c => pc'[d] = pc[d]
    BY <1>2 DEF Invoke, InvokeOnce, Fold, Decided, ControlInv, TypeOK
  <2> QED BY <2>1
<1>3. ASSUME NEW c \in Call, NotifyCommit(c) PROVE Answered'
  <2>1. answer' = answer /\ pc[c] = "hook" /\ pc'[c] = "done"
        /\ \A d \in Call : d # c => pc'[d] = pc[d]
    BY <1>3 DEF NotifyCommit, ControlInv, TypeOK
  <2> QED BY <2>1
<1>4. ASSUME NEW c \in Call, Ended(c) \/ Hit(c) \/ OnceHit(c) PROVE Answered'
  <2>1. PICK kind \in Outcome, b \in Batch \cup {None} : Return(c, "done", kind, b)
    BY <1>4, Endings
  <2>2. pc'[c] = "done" /\ \A d \in Call : d # c => pc'[d] = pc[d] /\ answer'[d] = answer[d]
    BY <2>1 DEF Return, ControlInv, TypeOK
  <2> QED BY <2>2
<1>5. ASSUME NEW c \in Call, Commit(c) \/ OnceCommit(c) PROVE Answered'
  <2>1. PICK b \in Batch : b.by = c /\ Return(c, "hook", "committed", b)
    <3>1. CASE Commit(c)
      BY <3>1, Commits DEF BatchOf
    <3>2. CASE OnceCommit(c)
      <4>1. PICK s \in Stream, n \in 1 .. MaxBatch :
              /\ BatchOf(gate[s], n, c) \in Batch
              /\ Return(c, "hook", "committed", BatchOf(gate[s], n, c))
        BY <3>2, OnceCommits
      <4> QED BY <4>1 DEF BatchOf
    <3> QED BY <1>5, <3>1, <3>2
  <2>2. /\ pc'[c] = "hook" /\ answer'[c] = [kind |-> "committed", batch |-> b]
        /\ answer'[c] # None
        /\ \A d \in Call : d # c => pc'[d] = pc[d] /\ answer'[d] = answer[d]
    <3>1. "committed" \in Outcome /\ b \in Batch \cup {None}
      BY DEF Outcome
    <3> QED BY <2>1, <3>1, Returned
  <2>3. b # None
    BY RecordsAssumption DEF RecordsAssumption
  <2> QED BY <2>1, <2>2, <2>3
<1>6. ASSUME NEW s \in Stream, DeleteStream(s) \/ PruneEvents(s) PROVE Answered'
  BY <1>6 DEF DeleteStream, PruneEvents, call
<1> QED
  BY <1>1, <1>2, <1>3, <1>4, <1>5, <1>6, StepCases

(***************************************************************************)
(* The refinement, variable by variable.                                    *)
(***************************************************************************)
LEMMA ToldStays ==
  ASSUME answer' = answer,
         \A d \in Call : answer[d] # None /\ answer[d].batch # None =>
                           (pc'[d] = "done" <=> pc[d] = "done")
  PROVE  told' = told
  BY DEF told

LEMMA ToldMoves ==
  ASSUME ControlInv, NEW c \in Call, NEW x, NEW kind \in Outcome,
         NEW b \in Batch \cup {None}, Return(c, x, kind, b)
  PROVE  told' = [told EXCEPT ![c] = IF b = None THEN "failed"
                                     ELSE IF x = "done" THEN b.by ELSE "written"]
<1>1. /\ pc'[c] = x /\ answer'[c] = [kind |-> kind, batch |-> b] /\ answer'[c] # None
      /\ \A d \in Call : d # c => pc'[d] = pc[d] /\ answer'[d] = answer[d]
  BY Returned
<1>2. told'[c] = IF b = None THEN "failed" ELSE IF x = "done" THEN b.by ELSE "written"
  <2>1. answer'[c].batch = b
    BY <1>1
  <2>2. told'[c] = IF answer'[c] = None THEN "open"
                   ELSE IF answer'[c].batch = None THEN "failed"
                   ELSE IF pc'[c] = "done" THEN answer'[c].batch.by
                   ELSE "written"
    BY DEF told
  <2> HIDE DEF told
  <2> QED BY <1>1, <2>1, <2>2
<1>3. \A d \in Call : d # c => told'[d] = told[d]
  BY <1>1 DEF told
<1>4. told' = [d \in Call |-> told'[d]] /\ told = [d \in Call |-> told[d]]
  BY DEF told
<1> HIDE DEF told
<1> QED
  BY <1>2, <1>3, <1>4

LEMMA ToldOpen ==
  ASSUME Answered, NEW c \in Call, pc[c] \notin {"hook", "done", "lost"}
  PROVE  told[c] = "open"
  BY DEF Answered, told

Entry == [key : Key \cup {None}, by : Call \cup {None}]

LEMMA HistoryTypes ==
  ASSUME TypeOK, NEW s \in Stream
  PROVE  /\ history[s] \in Seq(Entry) /\ Len(history[s]) = Len(log[s])
         /\ \A i \in 1 .. Len(log[s]) :
              history[s][i] = [key |-> log[s][i].key, by |-> log[s][i].by]
<1>1. log[s] \in Seq(Row) /\ Len(log[s]) \in Nat
  BY DEF TypeOK
<1>2. ASSUME NEW i \in 1 .. Len(log[s])
      PROVE  [key |-> log[s][i].key, by |-> log[s][i].by] \in Entry
  <2>1. log[s][i] \in Row
    BY <1>1, ElementOfSeq
  <2> QED BY <2>1 DEF Row, Entry
<1>3. history[s] = [i \in 1 .. Len(log[s]) |-> [key |-> log[s][i].key, by |-> log[s][i].by]]
  BY DEF history
<1>4. history[s] \in [1 .. Len(log[s]) -> Entry]
  BY <1>2, <1>3
<1>5. history[s] \in Seq(Entry)
  BY <1>1, <1>4, SeqDef
<1>6. Len(history[s]) = Len(log[s])
  BY <1>1, <1>4, <1>5, LenProperties
<1> QED
  BY <1>3, <1>5, <1>6

LEMMA ConcatEntries ==
  ASSUME NEW a \in Seq(Entry), NEW b \in Seq(Entry)
  PROVE  /\ a \o b \in Seq(Entry)
         /\ Len(a \o b) = Len(a) + Len(b)
         /\ \A i \in 1 .. Len(a) + Len(b) : (a \o b)[i] =
              IF i <= Len(a) THEN a[i] ELSE b[i - Len(a)]
  BY ConcatProperties, Zenon

LEMMA HistoryGrows ==
  ASSUME TypeOK, TypeOK', NEW s \in Stream, NEW n \in Nat \ {0}, NEW k \in Key \cup {None},
         NEW c \in Call, InsertRows(s, n, k, c)
  PROVE  history' = [history EXCEPT ![s] =
                       history[s] \o [i \in 1 .. n |-> [key |-> k, by |-> c]]]
<1> DEFINE new == [i \in 1 .. n |-> [key |-> k, by |-> c]]
<1>1. [key |-> k, by |-> c] \in Entry
  BY DEF Entry
<1>2. new \in Seq(Entry) /\ Len(new) = n
  <2>1. new \in [1 .. n -> Entry]
    BY <1>1
  <2>2. new \in Seq(Entry)
    BY <2>1, SeqDef
  <2> QED BY <2>1, <2>2, LenProperties
<1>3. \A i \in 1 .. n : new[i] = [key |-> k, by |-> c]
  OBVIOUS
<1>4. history[s] \in Seq(Entry) /\ Len(history[s]) = Len(log[s]) /\ Len(log[s]) \in Nat
  <2>1. log[s] \in Seq(Row)
    BY DEF TypeOK
  <2> QED BY <2>1, HistoryTypes
<1> HIDE DEF new
<1>5. /\ history[s] \o new \in Seq(Entry)
      /\ Len(history[s] \o new) = Len(log[s]) + n
      /\ \A i \in 1 .. Len(log[s]) + n :
           (history[s] \o new)[i] = IF i <= Len(log[s]) THEN history[s][i]
                                    ELSE new[i - Len(log[s])]
  <2> DEFINE old == history[s]
  <2>1. old \in Seq(Entry) /\ Len(old) = Len(log[s])
    BY <1>4
  <2> HIDE DEF old
  <2>2. /\ old \o new \in Seq(Entry)
        /\ Len(old \o new) = Len(old) + Len(new)
        /\ \A i \in 1 .. Len(old) + Len(new) : (old \o new)[i] =
             IF i <= Len(old) THEN old[i] ELSE new[i - Len(old)]
    BY <1>2, <2>1, ConcatEntries
  <2>3. Len(new) = n
    BY <1>2
  <2>4. /\ old \o new \in Seq(Entry)
        /\ Len(old \o new) = Len(log[s]) + n
        /\ \A i \in 1 .. Len(log[s]) + n : (old \o new)[i] =
             IF i <= Len(log[s]) THEN old[i] ELSE new[i - Len(log[s])]
    BY <2>1, <2>2, <2>3, Zenon
  <2> QED BY <2>4 DEF old
<1>6. /\ history'[s] \in Seq(Entry) /\ Len(history'[s]) = Len(log'[s])
      /\ \A i \in 1 .. Len(log'[s]) :
           history'[s][i] = [key |-> log'[s][i].key, by |-> log'[s][i].by]
  <2>1. log'[s] \in Seq(Row) /\ Len(log'[s]) \in Nat
    BY DEF TypeOK
  <2>2. history'[s] = [i \in 1 .. Len(log'[s]) |-> [key |-> log'[s][i].key, by |-> log'[s][i].by]]
    BY DEF history
  <2>3. ASSUME NEW i \in 1 .. Len(log'[s])
        PROVE  [key |-> log'[s][i].key, by |-> log'[s][i].by] \in Entry
    <3>1. log'[s][i] \in Row
      BY <2>1, ElementOfSeq
    <3> QED BY <3>1 DEF Row, Entry
  <2>4. history'[s] \in [1 .. Len(log'[s]) -> Entry]
    BY <2>2, <2>3
  <2>5. history'[s] \in Seq(Entry)
    BY <2>1, <2>4, SeqDef
  <2> QED BY <2>1, <2>2, <2>4, <2>5, LenProperties
<1>7. /\ \A t \in Stream : t # s => log'[t] = log[t]
      /\ Len(log'[s]) = Len(log[s]) + n
      /\ \A i \in 1 .. Len(log[s]) : log'[s][i] = log[s][i]
      /\ \A i \in Len(log[s]) + 1 .. Len(log[s]) + n :
           log'[s][i] = [seq |-> gate[s] + (i - Len(log[s])), key |-> k, by |-> c]
  BY InsertedRows
<1>8. ASSUME NEW i \in 1 .. Len(log[s]) + n PROVE history'[s][i] = (history[s] \o new)[i]
  <2>1. CASE i <= Len(log[s])
    <3>1. i \in 1 .. Len(log[s]) /\ i \in 1 .. Len(log'[s])
      BY <1>4, <1>7, <2>1
    <3>2. history'[s][i] = [key |-> log[s][i].key, by |-> log[s][i].by]
      BY <1>6, <1>7, <3>1
    <3>3. history[s][i] = [key |-> log[s][i].key, by |-> log[s][i].by]
      BY <3>1, HistoryTypes
    <3> QED BY <1>5, <2>1, <3>2, <3>3
  <2>2. CASE ~ (i <= Len(log[s]))
    <3>1. i \in Len(log[s]) + 1 .. Len(log[s]) + n /\ i - Len(log[s]) \in 1 .. n
      BY <1>4, <2>2
    <3>2. log'[s][i].key = k /\ log'[s][i].by = c
      <4>1. log'[s][i] = [seq |-> gate[s] + (i - Len(log[s])), key |-> k, by |-> c]
        BY <1>7, <3>1
      <4> QED BY <4>1
    <3>3. history'[s][i] = [key |-> k, by |-> c]
      BY <1>6, <1>7, <3>2
    <3>4. new[i - Len(log[s])] = [key |-> k, by |-> c]
      BY <1>3, <3>1 DEF new
    <3> QED BY <1>5, <2>2, <3>3, <3>4
  <2> QED BY <2>1, <2>2
<1>9. history'[s] = history[s] \o new
  <2>1. Len(history'[s]) = Len(history[s] \o new)
    BY <1>5, <1>6, <1>7
  <2>2. \A i \in 1 .. Len(history'[s]) : history'[s][i] = (history[s] \o new)[i]
    BY <1>6, <1>7, <1>8
  <2> QED BY <1>5, <1>6, <2>1, <2>2, SeqEqual
<1>10. \A t \in Stream : t # s => history'[t] = history[t]
  BY <1>7 DEF history
<1>11. history' = [t \in Stream |-> history'[t]] /\ history = [t \in Stream |-> history[t]]
  BY DEF history
<1> HIDE DEF history
<1> QED
  BY <1>9, <1>10, <1>11 DEF new

LEMMA HistoryExpires ==
  ASSUME TypeOK, TypeOK', NEW s \in Stream, PruneEvents(s)
  PROVE  \E n \in 0 .. Len(history[s]) - 1 : \E kept \in [1 .. n -> 1 .. Len(history[s])] :
           /\ \A i, j \in 1 .. n : i < j => kept[i] < kept[j]
           /\ history' # history
           /\ history' = [history EXCEPT ![s] = [i \in 1 .. n |-> history[s][kept[i]]]]
<1>0. PICK n \in 0 .. Len(log[s]) - 1 : \E kept \in [1 .. n -> 1 .. Len(log[s])] :
        /\ \A i, j \in 1 .. n : i < j => kept[i] < kept[j]
        /\ Len(log'[s]) = n
        /\ \A i \in 1 .. n : log'[s][i] = log[s][kept[i]]
        /\ \A t \in Stream : t # s => log'[t] = log[t]
  BY PrunedRows
<1>1. PICK kept \in [1 .. n -> 1 .. Len(log[s])] :
        /\ \A i, j \in 1 .. n : i < j => kept[i] < kept[j]
        /\ Len(log'[s]) = n
        /\ \A i \in 1 .. n : log'[s][i] = log[s][kept[i]]
        /\ \A t \in Stream : t # s => log'[t] = log[t]
  BY <1>0
<1>2. /\ Len(history[s]) = Len(log[s])
      /\ \A i \in 1 .. Len(log[s]) :
           history[s][i] = [key |-> log[s][i].key, by |-> log[s][i].by]
  BY HistoryTypes
<1>3. history'[s] = [i \in 1 .. n |-> [key |-> log'[s][i].key, by |-> log'[s][i].by]]
  BY <1>1 DEF history
<1>4. ASSUME NEW i \in 1 .. n
      PROVE  [key |-> log'[s][i].key, by |-> log'[s][i].by] = history[s][kept[i]]
  <2>1. kept[i] \in 1 .. Len(log[s]) /\ log'[s][i] = log[s][kept[i]]
    BY <1>1
  <2> QED
    BY <1>2, <2>1
<1>5. history'[s] = [i \in 1 .. n |-> history[s][kept[i]]]
  BY <1>3, <1>4
<1>6. \A t \in Stream : t # s => history'[t] = history[t]
  BY <1>1 DEF history
<1>7. history' = [t \in Stream |-> history'[t]] /\ history = [t \in Stream |-> history[t]]
  BY DEF history
<1> HIDE DEF history
<1>8. history' = [history EXCEPT ![s] = [i \in 1 .. n |-> history[s][kept[i]]]]
  BY <1>5, <1>6, <1>7
<1>9. history' # history
  <2>1. Len(log[s]) \in Nat /\ n \in Nat
    BY DEF TypeOK
  <2>2. Len(history'[s]) = n /\ n # Len(history[s])
    BY <1>2, <1>5, <2>1
  <2> QED
    BY <2>2
<1> QED
  BY <1>1, <1>2, <1>8, <1>9

\* The steps of the abstract log that the appender takes.
LEMMA AbstractSteps ==
  ASSUME \/ \E c \in Call, s \in Stream, k \in Key \cup {None}, n \in 1 .. MaxBatch :
              Abstract!Write(c, s, s, k, n)
         \/ \E c \in Call, s \in Stream, k \in Key, n \in 1 .. MaxBatch :
              Abstract!Write(c, s, Ops, k, n)
         \/ \E c \in Call, x \in Stream \cup {Ops}, k \in Key : Abstract!Replay(c, x, k)
         \/ \E c \in Call : Abstract!Acknowledge(c) \/ Abstract!Fail(c)
         \/ \E s \in Stream : Abstract!Delete(s) \/ Abstract!Expire(s)
  PROVE  Abstract!Next
  BY DEF Abstract!Next, Abstract!Scope

LEMMA OwnerMoves ==
  ASSUME NEW x \in Stream \cup {Ops}, NEW k \in Key, NEW v, owner'[x][k] = v,
         \A y \in Stream \cup {Ops}, j \in Key :
           ~ (y = x /\ j = k) => owner'[y][j] = owner[y][j]
  PROVE  owner' = [owner EXCEPT ![x][k] = v]
<1>1. /\ owner' = [y \in Stream \cup {Ops} |-> owner'[y]]
      /\ owner = [y \in Stream \cup {Ops} |-> owner[y]]
      /\ \A y \in Stream \cup {Ops} : /\ owner'[y] = [j \in Key |-> owner'[y][j]]
                                      /\ owner[y] = [j \in Key |-> owner[y][j]]
  BY DEF owner
<1> HIDE DEF owner
<1>2. \A y \in Stream \cup {Ops} : y # x => owner'[y] = owner[y]
  <2> TAKE y \in Stream \cup {Ops}
  <2> HAVE y # x
  <2>1. [j \in Key |-> owner'[y][j]] = [j \in Key |-> owner[y][j]]
    OBVIOUS
  <2> QED BY <1>1, <2>1
<1>3. owner'[x] = [owner[x] EXCEPT ![k] = v]
  <2>1. [owner[x] EXCEPT ![k] = v] = [j \in Key |-> IF j = k THEN v ELSE owner[x][j]]
    BY <1>1
  <2>2. [j \in Key |-> owner'[x][j]] = [j \in Key |-> IF j = k THEN v ELSE owner[x][j]]
    OBVIOUS
  <2> QED BY <1>1, <2>1, <2>2
<1> QED
  BY <1>1, <1>2, <1>3

LEMMA CommitWrites ==
  ASSUME ControlInv, ControlInv', Answered, NEW c \in Call, Commit(c)
  PROVE  Abstract!Next
<1> DEFINE s == req[c].stream
           k == req[c].key
           n == req[c].n
           b == BatchOf(gate[s], n, c)
<1>1. /\ s \in Stream /\ k \in Key \cup {None} /\ n \in 1 .. MaxBatch /\ n \in Nat \ {0}
      /\ b \in Batch /\ pc[c] = "tx" /\ InsertRows(s, n, k, c)
      /\ k # None => claims[s][k] = None
      /\ claims' = IF k = None THEN claims ELSE [claims EXCEPT ![s][k] = b]
      /\ Return(c, "hook", "committed", b)
      /\ opClaims' = opClaims /\ b.by = c
  BY Commits DEF BatchOf
<1>2. b # None /\ s # Ops
  BY <1>1, RecordsAssumption, OpsAssumption DEF RecordsAssumption, OpsAssumption
<1> HIDE DEF s, k, n, b
<1>3. told[c] = "open" /\ told' = [told EXCEPT ![c] = "written"]
  <2>1. "committed" \in Outcome
    BY DEF Outcome
  <2>2. told' = [told EXCEPT ![c] = IF b = None THEN "failed"
                                    ELSE IF "hook" = "done" THEN b.by ELSE "written"]
    BY <1>1, <2>1, ToldMoves
  <2> QED BY <1>1, <1>2, <2>2, ToldOpen
<1>4. history' = [history EXCEPT ![s] = history[s] \o [i \in 1 .. n |-> [key |-> k, by |-> c]]]
  <2>1. TypeOK /\ TypeOK' /\ InsertRows(s, n, k, c)
    BY <1>1 DEF ControlInv
  <2>2. s \in Stream /\ k \in Key \cup {None} /\ n \in Nat \ {0}
    BY <1>1
  <2> HIDE DEF history
  <2> QED BY <2>1, <2>2, HistoryGrows
<1>5. k # None => owner[s][k] = None
  BY <1>1 DEF owner, Writer
<1>6. owner' = IF k = None THEN owner ELSE [owner EXCEPT ![s][k] = c]
  <2>1. CASE k = None
    BY <1>1, <2>1 DEF owner, Writer
  <2>2. CASE k # None
    <3>1. /\ k \in Key /\ claims'[s][k] = b
          /\ \A t \in Stream, j \in Key : ~ (t = s /\ j = k) => claims'[t][j] = claims[t][j]
      BY <1>1, <2>2 DEF ControlInv, TypeOK
    <3>2. owner'[s][k] = c
      BY <1>1, <1>2, <3>1 DEF owner, Writer
    <3>3. \A x \in Stream \cup {Ops}, j \in Key :
            ~ (x = s /\ j = k) => owner'[x][j] = owner[x][j]
      BY <1>1, <3>1 DEF owner, Writer
    <3>4. owner' = [owner EXCEPT ![s][k] = c]
      <4> HIDE DEF owner
      <4> QED BY <1>1, <3>1, <3>2, <3>3, OwnerMoves
    <3> QED BY <2>2, <3>4
  <2> QED BY <2>1, <2>2
<1> HIDE DEF history, owner, told
<1>7. Abstract!Write(c, s, s, k, n)
  BY <1>2, <1>3, <1>4, <1>5, <1>6 DEF Abstract!Write, Abstract!Open, Abstract!Written
<1> QED
  BY <1>1, <1>7, AbstractSteps

LEMMA OnceCommitWrites ==
  ASSUME ControlInv, ControlInv', Answered, NEW c \in Call, OnceCommit(c)
  PROVE  Abstract!Next
<1> DEFINE k == req[c].key
<1>1. PICK s \in Stream, n \in 1 .. MaxBatch :
        /\ gate[s] \in Nat /\ pc[c] = "opTx" /\ k \in Key
        /\ BatchOf(gate[s], n, c) \in Batch
        /\ [digest |-> req[c].digest, stream |-> s, batch |-> BatchOf(gate[s], n, c)]
             \in OpClaim
        /\ InsertRows(s, n, None, c)
        /\ opClaims[k] = None
        /\ opClaims' = [opClaims EXCEPT ![k] =
                          [digest |-> req[c].digest, stream |-> s,
                           batch |-> BatchOf(gate[s], n, c)]]
        /\ Return(c, "hook", "committed", BatchOf(gate[s], n, c))
        /\ claims' = claims
  BY OnceCommits
<1> DEFINE b == BatchOf(gate[s], n, c)
           claim == [digest |-> req[c].digest, stream |-> s, batch |-> b]
<1>2. /\ b \in Batch /\ b # None /\ claim # None /\ claim.batch = b /\ b.by = c
      /\ n \in Nat \ {0}
  BY <1>1, RecordsAssumption DEF RecordsAssumption, BatchOf
<1>3. /\ opClaims'[k] = claim
      /\ \A j \in Key : j # k => opClaims'[j] = opClaims[j]
  BY <1>1 DEF ControlInv, TypeOK
<1>4. Return(c, "hook", "committed", b)
  BY <1>1
<1> HIDE DEF k, b, claim
<1>5. told[c] = "open" /\ told' = [told EXCEPT ![c] = "written"]
  <2>1. "committed" \in Outcome
    BY DEF Outcome
  <2>2. told' = [told EXCEPT ![c] = IF b = None THEN "failed"
                                    ELSE IF "hook" = "done" THEN b.by ELSE "written"]
    BY <1>2, <1>4, <2>1, ToldMoves
  <2> QED BY <1>1, <1>2, <2>2, ToldOpen
<1>6. history' = [history EXCEPT ![s] = history[s] \o [i \in 1 .. n |-> [key |-> None, by |-> c]]]
  <2>1. TypeOK /\ TypeOK' /\ None \in Key \cup {None} /\ n \in Nat \ {0}
    BY <1>2 DEF ControlInv
  <2>2. InsertRows(s, n, None, c)
    BY <1>1
  <2> HIDE DEF history
  <2> QED BY <2>1, <2>2, HistoryGrows
<1>7. owner[Ops][k] = None
  BY <1>1, OpsAssumption DEF OpsAssumption, owner
<1>8. owner' = [owner EXCEPT ![Ops][k] = c]
  <2>1. owner'[Ops][k] = c
    BY <1>1, <1>2, <1>3, OpsAssumption DEF OpsAssumption, owner
  <2>2. \A x \in Stream \cup {Ops}, j \in Key :
          ~ (x = Ops /\ j = k) => owner'[x][j] = owner[x][j]
    BY <1>1, <1>3 DEF owner, Writer
  <2> HIDE DEF owner
  <2> QED BY <1>1, <2>1, <2>2, OwnerMoves
<1>9. Abstract!Write(c, s, Ops, k, n)
  <2>1. k # None
    BY <1>1
  <2> HIDE DEF history, owner, told, Ops
  <2> QED BY <1>5, <1>6, <1>7, <1>8, <2>1
             DEF Abstract!Write, Abstract!Open, Abstract!Written
<1> QED
  BY <1>1, <1>9, AbstractSteps

LEMMA QuietTables ==
  ASSUME UNCHANGED <<log, claims, opClaims>>
  PROVE  history' = history /\ owner' = owner
  BY DEF history, owner, Writer

LEMMA HitReplays ==
  ASSUME ControlInv, Answered, NEW c \in Call, Hit(c)
  PROVE  Abstract!Next
<1> DEFINE s == req[c].stream
           k == req[c].key
           b == ClaimOf(c)
<1>1. /\ pc[c] \in {"waiting", "clash"} /\ b # None /\ Return(c, "done", "cache-hit", b)
      /\ UNCHANGED <<log, claims, opClaims>>
  BY DEF Hit, Quiet, table
<1>2. s \in Stream /\ k \in Key /\ b = claims[s][k] /\ b \in Batch
  <2>1. b \in Batch
    BY <1>1, ClaimTypes
  <2>2. s \in Stream /\ req[c].key \in Key \cup {None}
    BY <1>1 DEF ControlInv, RequestInv, Running, Appending, Request
  <2> QED BY <1>1, <2>1, <2>2 DEF ClaimOf
<1> HIDE DEF s, k, b
<1>3. told[c] = "open" /\ told' = [told EXCEPT ![c] = b.by]
  <2>1. "cache-hit" \in Outcome
    BY DEF Outcome
  <2>2. told' = [told EXCEPT ![c] = IF b = None THEN "failed"
                                    ELSE IF "done" = "done" THEN b.by ELSE "written"]
    BY <1>1, <1>2, <2>1, ToldMoves
  <2> QED BY <1>1, <2>2, ToldOpen
<1>4. owner[s][k] = b.by /\ b.by # None
  BY <1>1, <1>2 DEF owner, Writer, Batch
<1>5. history' = history /\ owner' = owner
  BY <1>1, QuietTables
<1>6. Abstract!Replay(c, s, k)
  <2> HIDE DEF history, owner, told, Ops
  <2> QED BY <1>3, <1>4, <1>5 DEF Abstract!Replay, Abstract!Open
<1> QED
  BY <1>2, <1>6, AbstractSteps

LEMMA OnceHitReplays ==
  ASSUME ControlInv, Answered, NEW c \in Call, OnceHit(c)
  PROVE  Abstract!Next
<1> DEFINE k == req[c].key
           b == opClaims[k].batch
<1>1. /\ pc[c] \in {"opLookup", "opTx"} /\ opClaims[k] # None
      /\ Return(c, "done", "cache-hit", b)
      /\ UNCHANGED <<log, claims, opClaims>>
  BY DEF OnceHit, Quiet, table
<1>2. k \in Key /\ b \in Batch
  <2>1. k \in Key
    BY <1>1 DEF ControlInv, RequestInv, Deciding
  <2>2. opClaims[k] \in OpClaim
    BY <1>1, <2>1 DEF ControlInv, TypeOK
  <2> QED BY <2>1, <2>2 DEF OpClaim
<1>3. b # None /\ b.by # None
  BY <1>2, RecordsAssumption DEF RecordsAssumption, Batch
<1>4. owner[Ops][k] = b.by
  BY <1>1, <1>2, OpsAssumption DEF OpsAssumption, owner
<1> HIDE DEF k, b
<1>5. told[c] = "open" /\ told' = [told EXCEPT ![c] = b.by]
  <2>1. "cache-hit" \in Outcome
    BY DEF Outcome
  <2>2. told' = [told EXCEPT ![c] = IF b = None THEN "failed"
                                    ELSE IF "done" = "done" THEN b.by ELSE "written"]
    BY <1>1, <1>2, <2>1, ToldMoves
  <2> QED BY <1>1, <1>3, <2>2, ToldOpen
<1>6. history' = history /\ owner' = owner
  BY <1>1, QuietTables
<1>7. Abstract!Replay(c, Ops, k)
  <2> HIDE DEF history, owner, told, Ops
  <2> QED BY <1>3, <1>4, <1>5, <1>6 DEF Abstract!Replay, Abstract!Open
<1> QED
  BY <1>2, <1>7, AbstractSteps

LEMMA EndedFails ==
  ASSUME ControlInv, Answered, NEW c \in Call, Ended(c)
  PROVE  Abstract!Next
<1>1. PICK kind \in Outcome : Return(c, "done", kind, None)
  BY DEF Ended
<1>2. pc[c] \notin {"hook", "done", "lost"} /\ UNCHANGED <<log, claims, opClaims>>
  BY DEF Ended, Quiet, table
<1>3. told[c] = "open" /\ told' = [told EXCEPT ![c] = "failed"]
  <2>1. told' = [told EXCEPT ![c] = IF None = None THEN "failed"
                                    ELSE IF "done" = "done" THEN None.by ELSE "written"]
    BY <1>1, ToldMoves
  <2> QED BY <1>2, <2>1, ToldOpen
<1>4. history' = history /\ owner' = owner
  BY <1>2, QuietTables
<1>5. Abstract!Fail(c)
  <2> HIDE DEF history, owner, told, Ops
  <2> QED BY <1>3, <1>4 DEF Abstract!Fail, Abstract!Open, Abstract!Failed
<1> QED
  BY <1>5, AbstractSteps

LEMMA NotifyAcknowledges ==
  ASSUME ControlInv, Answered, NEW c \in Call, NotifyCommit(c)
  PROVE  Abstract!Next
<1>1. /\ pc[c] = "hook" /\ answer' = answer /\ UNCHANGED <<log, claims, opClaims>>
      /\ pc' = [pc EXCEPT ![c] = "done"]
      /\ answer[c] # None /\ answer[c].batch # None /\ answer[c].batch.by = c
  BY DEF NotifyCommit, Answered, table
<1>2. pc'[c] = "done" /\ \A d \in Call : d # c => pc'[d] = pc[d]
  BY <1>1 DEF ControlInv, TypeOK
<1>3. told[c] = "written" /\ told'[c] = c /\ \A d \in Call : d # c => told'[d] = told[d]
  BY <1>1, <1>2 DEF told
<1>4. told' = [d \in Call |-> told'[d]] /\ told = [d \in Call |-> told[d]]
  BY DEF told
<1>5. history' = history /\ owner' = owner
  BY <1>1, QuietTables
<1> HIDE DEF history, owner, told, Ops
<1>6. told' = [told EXCEPT ![c] = c]
  BY <1>3, <1>4
<1>7. Abstract!Acknowledge(c)
  BY <1>3, <1>5, <1>6 DEF Abstract!Acknowledge, Abstract!Written
<1> QED
  BY <1>7, AbstractSteps

LEMMA DeletionDeletes ==
  ASSUME ControlInv, NEW s \in Stream, DeleteStream(s)
  PROVE  Abstract!Next
<1>1. /\ log'[s] = <<>> /\ claims'[s] = [k \in Key |-> None]
      /\ \A t \in Stream : t # s => log'[t] = log[t] /\ claims'[t] = claims[t]
      /\ UNCHANGED <<opClaims, pc, answer>>
  BY DEF DeleteStream, ControlInv, TypeOK, call
<1>2. history' = [history EXCEPT ![s] = <<>>]
  <2>1. history'[s] = <<>> /\ \A t \in Stream : t # s => history'[t] = history[t]
    BY <1>1 DEF history
  <2>2. history' = [t \in Stream |-> history'[t]] /\ history = [t \in Stream |-> history[t]]
    BY DEF history
  <2> HIDE DEF history
  <2> QED BY <2>1, <2>2
<1>3. owner' = [owner EXCEPT ![s] = [k \in Key |-> None]]
  <2>1. /\ owner'[s] = [k \in Key |-> None]
        /\ \A x \in Stream \cup {Ops} : x # s => owner'[x] = owner[x]
    <3>1. owner'[s] = [k \in Key |-> None]
      BY <1>1 DEF owner, Writer
    <3>2. ASSUME NEW x \in Stream \cup {Ops}, x # s PROVE owner'[x] = owner[x]
      BY <1>1, <3>2 DEF owner, Writer
    <3> QED BY <3>1, <3>2
  <2>2. /\ owner' = [x \in Stream \cup {Ops} |-> owner'[x]]
        /\ owner = [x \in Stream \cup {Ops} |-> owner[x]]
    BY DEF owner
  <2> HIDE DEF owner
  <2> QED BY <2>1, <2>2
<1>4. told' = told
  BY <1>1, ToldStays
<1>5. Abstract!Delete(s)
  <2> HIDE DEF history, owner, told, Ops
  <2> QED BY <1>2, <1>3, <1>4 DEF Abstract!Delete
<1> QED
  BY <1>5, AbstractSteps

LEMMA PruneExpires ==
  ASSUME ControlInv, ControlInv', NEW s \in Stream, PruneEvents(s)
  PROVE  Abstract!Next
<1>1. UNCHANGED <<claims, opClaims, pc, answer>>
  BY DEF PruneEvents, call
<1>2. owner' = owner /\ told' = told
  BY <1>1, ToldStays DEF owner, Writer
<1>3. Abstract!Expire(s)
  <2> HIDE DEF history, owner, told, Ops
  <2> QED BY <1>2, HistoryExpires DEF Abstract!Expire, ControlInv
<1> QED
  BY <1>3, AbstractSteps

LEMMA SilentStutters ==
  ASSUME ControlInv, Answered, Silent
  PROVE  UNCHANGED Abstract!vars
<1>1. history' = history /\ owner' = owner
  BY QuietTables DEF Silent
<1>2. ASSUME NEW d \in Call, answer[d] # None
      PROVE  pc'[d] = "done" <=> pc[d] = "done"
  BY <1>2 DEF Answered, Silent, InFlight
<1>3. told' = told
  BY <1>2, ToldStays DEF Silent
<1> HIDE DEF history, owner, told
<1> QED
  BY <1>1, <1>3 DEF Abstract!vars

\* A call that starts, or takes the stream lock, has told nobody anything.
LEMMA EntryStutters ==
  ASSUME ControlInv, Answered, NEW c \in Call,
         Invoke(c) \/ InvokeOnce(c) \/ Fold(c) \/ Decided(c)
  PROVE  UNCHANGED Abstract!vars
<1>1. /\ answer' = answer /\ UNCHANGED <<log, claims, opClaims>>
      /\ pc[c] \in {"idle", "folded"} /\ \A d \in Call : d # c => pc'[d] = pc[d]
  BY DEF Invoke, InvokeOnce, Fold, Decided, ControlInv, TypeOK, table
<1>2. answer[c] = None
  BY <1>1 DEF Answered
<1>3. history' = history /\ owner' = owner
  BY <1>1, QuietTables
<1>4. told' = told
  BY <1>1, <1>2, ToldStays
<1> HIDE DEF history, owner, told
<1> QED
  BY <1>3, <1>4 DEF Abstract!vars

LEMMA InitImplements == Init => Abstract!Init
<1> SUFFICES ASSUME Init PROVE Abstract!Init
  OBVIOUS
<1>1. PICK tail \in 0 .. 1 : log = [s \in Stream |-> LegacyRows(tail)]
  BY DEF Init
<1>2. history = [s \in Stream |-> [i \in 1 .. tail |-> [key |-> None, by |-> None]]]
  <2>1. \A s \in Stream : log[s] = LegacyRows(tail) /\ Len(log[s]) = tail
    BY <1>1 DEF LegacyRows
  <2>2. ASSUME NEW s \in Stream, NEW i \in 1 .. tail
        PROVE  log[s][i].key = None /\ log[s][i].by = None
    <3>1. log[s][i] = [seq |-> i, key |-> None, by |-> None]
      BY <2>1 DEF LegacyRows
    <3> QED BY <3>1
  <2> QED BY <2>1, <2>2 DEF history
<1>3. owner = [x \in Stream \cup {Ops} |-> [k \in Key |-> None]]
  BY DEF Init, owner, Writer
<1>4. told = [c \in Call |-> "open"]
  BY DEF Init, told
<1> HIDE DEF history, owner, told, Ops
<1> QED
  BY <1>2, <1>3, <1>4 DEF Abstract!Init, Abstract!Scope, Abstract!Open

LEMMA NextImplements ==
  ASSUME ControlInv, ControlInv', Answered, [Next]_vars
  PROVE  [Abstract!Next]_(Abstract!vars)
  BY StepCases, SilentStutters, EntryStutters, NotifyAcknowledges, EndedFails, HitReplays,
     OnceHitReplays, CommitWrites, OnceCommitWrites, DeletionDeletes, PruneExpires

\* The appender, with its gate, locks, transactions, retries and crashes, does
\* nothing but what IdempotentLog promises its callers.
THEOREM Refinement == Spec => ImplementsIdempotentLog
<1>1. Init => ControlInv /\ Answered
  BY InitControl, InitAnswered
<1>2. ControlInv /\ Answered /\ [Next]_vars => (ControlInv /\ Answered)'
  BY NextControl, NextAnswered
<1>3. ControlInv /\ ControlInv' /\ Answered /\ [Next]_vars => [Abstract!Next]_(Abstract!vars)
  BY NextImplements
<1> QED
  BY <1>1, <1>2, <1>3, InitImplements, PTL DEF Spec, ImplementsIdempotentLog, Abstract!Spec

(***************************************************************************)
(* What an answer is worth.  The rows of a stream that is neither deleted   *)
(* nor pruned only grow, so what a claim, an answer or a fold says of them  *)
(* stays true.                                                              *)
(***************************************************************************)
Stored(s, b) == \A q \in b.first .. b.last : Minted(s, q, b.by)

\* The answer of a decideOnce call is the claim of its operation.
Recorded ==
  \A c \in Call : Ok(c) /\ req[c].kind = "once" =>
    /\ req[c].key \in Key /\ opClaims[req[c].key] # None
    /\ opClaims[req[c].key].digest = req[c].digest
    /\ opClaims[req[c].key].batch = answer[c].batch

\* Every batch a claim or an answer names is stored in full.
ClaimsStored == Whole => \A s \in Stream, k \in Key :
                           claims[s][k] # None => Stored(s, claims[s][k])

OpsStored == Whole => \A k \in Key : opClaims[k] # None =>
                        Stored(opClaims[k].stream, opClaims[k].batch)

AnswersStored == Whole => \A c \in Call : Ok(c) /\ req[c].kind # "once" =>
                            req[c].stream \in Stream /\ Stored(req[c].stream, answer[c].batch)

\* The stream still starts with what the decision folded; only rows of this
\* code follow.
Prefix(c) ==
  LET rows == log[req[c].stream]
      seen == folded[c]
  IN  /\ Len(seen) <= Len(rows)
      /\ \A i \in 1 .. Len(seen) : rows[i] = seen[i]
      /\ \A i \in Len(seen) + 1 .. Len(rows) : rows[i].by # None

Folding ==
  \A c \in Call : pc[c] # "idle" /\ req[c].kind = "decide" =>
    /\ req[c].stream \in Stream
    /\ expected[c] = TailSeq(folded[c])
    /\ Whole => Prefix(c)

\* The first row after the fold of a committed decision is its own.
Landed ==
  \A c \in Call :
    Whole /\ Ok(c) /\ req[c].kind = "decide" /\ answer[c].kind = "committed" =>
      /\ Len(log[req[c].stream]) > Len(folded[c])
      /\ log[req[c].stream][Len(folded[c]) + 1].by = c

AnswerInv ==
  /\ RowInv /\ Answered /\ Recorded
  /\ ClaimsStored /\ OpsStored /\ AnswersStored
  /\ GateIsTail /\ Folding /\ Landed

LEMMA InitAnswers == Init => AnswerInv
<1> SUFFICES ASSUME Init PROVE AnswerInv
  OBVIOUS
<1>1. RowInv /\ Answered
  BY InitRows, InitAnswered
<1>2. Recorded /\ AnswersStored /\ Landed
  BY DEF Init, Recorded, AnswersStored, Landed, Ok
<1>3. ClaimsStored /\ OpsStored /\ Folding
  BY DEF Init, ClaimsStored, OpsStored, Folding
<1>4. GateIsTail
  <2>1. PICK tail \in 0 .. 1 : log = [s \in Stream |-> LegacyRows(tail)]
    BY DEF Init
  <2>2. ASSUME NEW s \in Stream, NEW i \in 1 .. Len(log[s]) PROVE log[s][i].by = None
    <3>1. log[s] = LegacyRows(tail) /\ Len(log[s]) = tail
      BY <2>1 DEF LegacyRows
    <3>2. log[s][i] = [seq |-> i, key |-> None, by |-> None]
      BY <3>1 DEF LegacyRows
    <3> QED BY <3>2
  <2> QED BY <2>2 DEF GateIsTail
<1> QED
  BY <1>1, <1>2, <1>3, <1>4 DEF AnswerInv

\* No step gives back a deletion or a prune.
LEMMA WholeSteps ==
  ASSUME ControlInv, [Next]_vars, Whole'
  PROVE  Whole /\ \A s \in Stream : ~ DeleteStream(s) /\ ~ PruneEvents(s)
<1>1. /\ budget.deletes \in 0 .. MaxDeletes /\ budget.prunes \in 0 .. MaxPrunes
      /\ budget \in [crashes : 0 .. MaxCrashes, deletes : 0 .. MaxDeletes, prunes : 0 .. MaxPrunes]
  BY DEF ControlInv, TypeOK
<1>2. budget'.deletes = MaxDeletes /\ budget'.prunes = MaxPrunes
  BY DEF Whole
<1>3. ASSUME NEW s \in Stream, DeleteStream(s) PROVE FALSE
  <2>1. budget'.deletes = budget.deletes - 1
    BY <1>1, <1>3 DEF DeleteStream
  <2> QED BY <1>1, <1>2, <2>1
<1>4. ASSUME NEW s \in Stream, PruneEvents(s) PROVE FALSE
  <2>1. budget'.prunes = budget.prunes - 1
    BY <1>1, <1>4 DEF PruneEvents
  <2> QED BY <1>1, <1>2, <2>1
<1>5. ASSUME NEW c \in Call,
             \/ Invoke(c) \/ InvokeOnce(c) \/ Fold(c) \/ Decided(c)
             \/ NotifyCommit(c) \/ Ended(c) \/ Hit(c) \/ OnceHit(c)
             \/ Commit(c) \/ OnceCommit(c)
      PROVE  budget'.deletes = budget.deletes /\ budget'.prunes = budget.prunes
  BY <1>5 DEF Invoke, InvokeOnce, Fold, Decided, NotifyCommit, Ended, Hit, OnceHit, Quiet,
              Commit, OnceCommit
<1>6. budget'.deletes = budget.deletes /\ budget'.prunes = budget.prunes
  BY <1>3, <1>4, <1>5, StepCases DEF Silent
<1> QED
  BY <1>2, <1>3, <1>4, <1>6 DEF Whole

\* Rows, and the claims on them, only grow.
LEMMA RowsGrow ==
  ASSUME ControlInv, [Next]_vars, Whole'
  PROVE  \A s \in Stream :
           /\ Len(log[s]) \in Nat /\ Len(log'[s]) \in Nat /\ Len(log[s]) <= Len(log'[s])
           /\ \A i \in 1 .. Len(log[s]) : log'[s][i] = log[s][i]
           /\ \A i \in Len(log[s]) + 1 .. Len(log'[s]) : log'[s][i].by # None
<1>1. TypeOK /\ TypeOK'
  BY NextControl DEF ControlInv
<1>2. TAKE s \in Stream
<1>3. Len(log[s]) \in Nat /\ Len(log'[s]) \in Nat
  BY <1>1 DEF TypeOK
<1>4. CASE log' = log
  BY <1>3, <1>4
<1>5. ASSUME NEW c \in Call, NEW t \in Stream, NEW n \in Nat \ {0}, NEW k \in Key \cup {None},
             InsertRows(t, n, k, c)
      PROVE  /\ Len(log[s]) <= Len(log'[s])
             /\ \A i \in 1 .. Len(log[s]) : log'[s][i] = log[s][i]
             /\ \A i \in Len(log[s]) + 1 .. Len(log'[s]) : log'[s][i].by # None
  <2>1. /\ \A u \in Stream : u # t => log'[u] = log[u]
        /\ Len(log'[t]) = Len(log[t]) + n
        /\ \A i \in 1 .. Len(log[t]) : log'[t][i] = log[t][i]
        /\ \A i \in Len(log[t]) + 1 .. Len(log[t]) + n :
             log'[t][i] = [seq |-> gate[t] + (i - Len(log[t])), key |-> k, by |-> c]
    BY <1>1, <1>5, InsertedRows
  <2>2. CASE s # t
    BY <1>3, <2>1, <2>2
  <2>3. CASE s = t
    <3>1. \A i \in Len(log[s]) + 1 .. Len(log'[s]) : log'[s][i].by # None
      <4> SUFFICES ASSUME NEW i \in Len(log[s]) + 1 .. Len(log'[s]) PROVE log'[s][i].by # None
        OBVIOUS
      <4>1. log'[s][i] = [seq |-> gate[t] + (i - Len(log[t])), key |-> k, by |-> c]
        BY <2>1, <2>3
      <4> QED BY <4>1
    <3> QED BY <1>3, <2>1, <2>3, <3>1
  <2> QED BY <2>2, <2>3
<1>6. ASSUME NEW c \in Call, Commit(c)
      PROVE  \E t \in Stream, n \in Nat \ {0}, k \in Key \cup {None} : InsertRows(t, n, k, c)
  <2>1. /\ req[c].stream \in Stream /\ req[c].key \in Key \cup {None}
        /\ req[c].n \in 1 .. MaxBatch
        /\ InsertRows(req[c].stream, req[c].n, req[c].key, c)
    BY <1>6, Commits
  <2>2. req[c].n \in Nat \ {0}
    BY <2>1
  <2> QED BY <2>1, <2>2
<1>7. ASSUME NEW c \in Call, OnceCommit(c)
      PROVE  \E t \in Stream, n \in Nat \ {0}, k \in Key \cup {None} : InsertRows(t, n, k, c)
  <2>1. PICK t \in Stream, n \in 1 .. MaxBatch : InsertRows(t, n, None, c)
    BY <1>7, OnceCommits
  <2>2. n \in Nat \ {0} /\ None \in Key \cup {None}
    OBVIOUS
  <2> QED BY <2>1, <2>2
<1>8. log' = log \/ \E c \in Call : Commit(c) \/ OnceCommit(c)
  BY TableSteps, WholeSteps DEF table, Open
<1> QED
  BY <1>3, <1>4, <1>5, <1>6, <1>7, <1>8

LEMMA MintedStays ==
  ASSUME ControlInv, [Next]_vars, Whole', NEW s \in Stream, NEW b, Stored(s, b)
  PROVE  Stored(s, b)'
<1> SUFFICES ASSUME NEW q \in b.first .. b.last
             PROVE  \E i \in 1 .. Len(log'[s]) : log'[s][i].seq = q /\ log'[s][i].by = b.by
  BY DEF Stored, Minted
<1>1. PICK i \in 1 .. Len(log[s]) : log[s][i].seq = q /\ log[s][i].by = b.by
  BY DEF Stored, Minted
<1>2. i \in 1 .. Len(log'[s]) /\ log'[s][i] = log[s][i]
  BY RowsGrow
<1> QED
  BY <1>1, <1>2

\* The batch of a commit is stored in full.
LEMMA NewStored ==
  ASSUME TypeOK, NEW s \in Stream, NEW n \in Nat \ {0}, NEW k \in Key \cup {None},
         NEW c \in Call, InsertRows(s, n, k, c), NEW b, b = BatchOf(gate[s], n, c)
  PROVE  Stored(s, b)'
<1>1. /\ \A t \in Stream : t # s => log'[t] = log[t] /\ gate'[t] = gate[t]
      /\ gate'[s] = gate[s] + n
      /\ Len(log'[s]) = Len(log[s]) + n
      /\ \A i \in 1 .. Len(log[s]) : log'[s][i] = log[s][i]
      /\ \A i \in Len(log[s]) + 1 .. Len(log[s]) + n :
           log'[s][i] = [seq |-> gate[s] + (i - Len(log[s])), key |-> k, by |-> c]
  BY InsertedRows
<1>2. gate[s] \in Nat /\ Len(log[s]) \in Nat
  BY DEF TypeOK
<1>3. b.first = gate[s] + 1 /\ b.last = gate[s] + n /\ b.by = c
  BY DEF BatchOf
<1> SUFFICES ASSUME NEW q \in b.first .. b.last
             PROVE  \E i \in 1 .. Len(log'[s]) : log'[s][i].seq = q /\ log'[s][i].by = b.by
  BY DEF Stored, Minted
<1> DEFINE i == Len(log[s]) + (q - gate[s])
<1>4. i \in Len(log[s]) + 1 .. Len(log[s]) + n /\ i - Len(log[s]) = q - gate[s]
  BY <1>2, <1>3
<1>5. log'[s][i] = [seq |-> gate[s] + (i - Len(log[s])), key |-> k, by |-> c]
  BY <1>1, <1>4
<1>6. log'[s][i].seq = q /\ log'[s][i].by = c
  BY <1>2, <1>3, <1>4, <1>5
<1>7. i \in 1 .. Len(log'[s])
  BY <1>1, <1>2, <1>4
<1> QED
  BY <1>3, <1>6, <1>7

\* A call that started keeps its arguments, and a decision its fold.
LEMMA CallKeeps ==
  ASSUME ControlInv, [Next]_vars, NEW d \in Call, pc[d] # "idle"
  PROVE  /\ pc'[d] # "idle"
         /\ req'[d].kind = req[d].kind /\ req'[d].key = req[d].key
         /\ req'[d].stream = req[d].stream /\ req'[d].digest = req[d].digest
         /\ folded'[d] = folded[d]
         /\ req[d].kind # "once" => expected'[d] = expected[d]
<1>1. pc'[d] # "idle" /\ req'[d].kind = req[d].kind /\ req'[d].key = req[d].key
  BY CallsStay
<1>2. CASE UNCHANGED <<req, expected, folded>>
  BY <1>1, <1>2
<1>3. ASSUME NEW c \in Call, Invoke(c) \/ InvokeOnce(c) \/ Fold(c)
      PROVE  req'[d] = req[d] /\ folded'[d] = folded[d] /\ expected'[d] = expected[d]
  <2>1. c # d
    BY <1>3 DEF Invoke, InvokeOnce, Fold
  <2> QED BY <1>3, <2>1 DEF Invoke, InvokeOnce, Fold, ControlInv, TypeOK
<1>4. ASSUME NEW c \in Call, Decided(c)
      PROVE  /\ req'[d].stream = req[d].stream /\ req'[d].digest = req[d].digest
             /\ folded' = folded /\ expected' = expected
  <2>1. PICK n \in 1 .. MaxBatch : req' = [req EXCEPT ![c].n = n]
    BY <1>4 DEF Decided
  <2>2. CASE d = c
    <3>1. req'[c] = [req[c] EXCEPT !.n = n] /\ req[c] \in Request
      BY <1>4, <2>1 DEF Decided, ControlInv, TypeOK, RequestInv, Running
    <3> QED BY <1>4, <2>2, <3>1 DEF Decided, Request
  <2>3. CASE d # c
    BY <1>4, <2>1, <2>3 DEF Decided, ControlInv, TypeOK
  <2> QED BY <2>2, <2>3
<1>5. ASSUME NEW c \in Call, OnceCommit(c)
      PROVE  /\ req' = req /\ folded' = folded
             /\ req[d].kind # "once" => expected'[d] = expected[d]
  <2>1. /\ req[c].kind = "once" /\ req' = req /\ folded' = folded
        /\ \A e \in Call : e # c => expected'[e] = expected[e]
    BY <1>5, OnceCommits
  <2> QED BY <2>1
<1>6. ASSUME NEW c \in Call, NotifyCommit(c) \/ Ended(c) \/ Hit(c) \/ OnceHit(c) \/ Commit(c)
      PROVE  UNCHANGED <<req, expected, folded>>
  BY <1>6 DEF NotifyCommit, Ended, Hit, OnceHit, Quiet, Commit
<1>7. ASSUME NEW s \in Stream, DeleteStream(s) \/ PruneEvents(s)
      PROVE  UNCHANGED <<req, expected, folded>>
  BY <1>7 DEF DeleteStream, PruneEvents, call
<1> QED
  BY <1>1, <1>2, <1>3, <1>4, <1>5, <1>6, <1>7, StepCases DEF Silent

\* An answer is final, and comes from a step of its own call.
LEMMA AnswerSteps ==
  ASSUME ControlInv, Answered, [Next]_vars, NEW d \in Call
  PROVE  \/ answer'[d] = answer[d]
         \/ answer[d] = None /\ \/ Ended(d) \/ Hit(d) \/ OnceHit(d)
                                \/ Commit(d) \/ OnceCommit(d)
<1>1. ASSUME NEW c \in Call, Invoke(c) \/ InvokeOnce(c) \/ Fold(c) \/ Decided(c) \/ NotifyCommit(c)
      PROVE  answer' = answer
  BY <1>1 DEF Invoke, InvokeOnce, Fold, Decided, NotifyCommit
<1>2. ASSUME NEW s \in Stream, DeleteStream(s) \/ PruneEvents(s)
      PROVE  answer' = answer
  BY <1>2 DEF DeleteStream, PruneEvents, call
<1>3. ASSUME NEW c \in Call, Ended(c) \/ Hit(c) \/ OnceHit(c) \/ Commit(c) \/ OnceCommit(c)
      PROVE  /\ answer[c] = None
             /\ c # d => answer'[d] = answer[d]
  <2>1. answer[c] = None
    BY <1>3 DEF Ended, Hit, OnceHit, Commit, OnceCommit, Answered
  <2>2. \E x, kind, b : Return(c, x, kind, b)
    BY <1>3 DEF Ended, Hit, OnceHit, Commit, OnceCommit
  <2>3. c # d => answer'[d] = answer[d]
    BY <2>2 DEF Return, ControlInv, TypeOK
  <2> QED BY <2>1, <2>3
<1> QED
  BY <1>1, <1>2, <1>3, StepCases DEF Silent

\* A claim of an operation is final.
LEMMA OpClaimsStay ==
  ASSUME ControlInv, [Next]_vars, NEW k \in Key, opClaims[k] # None
  PROVE  opClaims'[k] = opClaims[k]
<1>1. ASSUME NEW c \in Call, OnceCommit(c) PROVE opClaims'[k] = opClaims[k]
  <2>1. /\ opClaims[req[c].key] = None
        /\ \E v : opClaims' = [opClaims EXCEPT ![req[c].key] = v]
    BY <1>1 DEF OnceCommit
  <2> QED BY <2>1 DEF ControlInv, TypeOK
<1> QED
  BY <1>1, TableSteps DEF table, Open, Commit, DeleteStream, PruneEvents

\* Without a deletion a claim of a stream is final.
LEMMA ClaimsStay ==
  ASSUME ControlInv, [Next]_vars, Whole', NEW s \in Stream, NEW k \in Key,
         claims[s][k] # None
  PROVE  claims'[s][k] = claims[s][k]
<1>1. ASSUME NEW c \in Call, Commit(c) PROVE claims'[s][k] = claims[s][k]
  <2> DEFINE t == req[c].stream
             j == req[c].key
  <2>1. /\ t \in Stream /\ j \in Key \cup {None} /\ (j # None => claims[t][j] = None)
        /\ claims' = IF j = None THEN claims
                     ELSE [claims EXCEPT ![t][j] = BatchOf(gate[t], req[c].n, c)]
    BY <1>1, Commits
  <2> HIDE DEF t, j
  <2> QED BY <2>1 DEF ControlInv, TypeOK
<1> QED
  BY <1>1, TableSteps, WholeSteps DEF table, Open, OnceCommit

\* What the batch of a new answer is.
LEMMA AnswerKinds ==
  ASSUME ControlInv, Answered, [Next]_vars, NEW d \in Call, answer[d] = None, Ok(d)'
  PROVE  \/ Hit(d) /\ answer'[d] = [kind |-> "cache-hit", batch |-> ClaimOf(d)]
         \/ OnceHit(d) /\ answer'[d] = [kind |-> "cache-hit",
                                        batch |-> opClaims[req[d].key].batch]
         \/ Commit(d) /\ answer'[d] = [kind |-> "committed",
              batch |-> BatchOf(gate[req[d].stream], req[d].n, d)]
         \/ OnceCommit(d)
<1>1. answer'[d] # None /\ answer'[d].batch # None
  BY DEF Ok
<1>2. Ended(d) \/ Hit(d) \/ OnceHit(d) \/ Commit(d) \/ OnceCommit(d)
  BY <1>1, AnswerSteps
<1>3. ~ Ended(d)
  BY <1>1 DEF Ended, Return, ControlInv, TypeOK
<1>4. CASE Hit(d)
  BY <1>4 DEF Hit, Return, ControlInv, TypeOK
<1>5. CASE OnceHit(d)
  BY <1>5 DEF OnceHit, Return, ControlInv, TypeOK
<1>6. CASE Commit(d)
  BY <1>6 DEF Commit, Return, ControlInv, TypeOK
<1> QED
  BY <1>2, <1>3, <1>4, <1>5, <1>6

LEMMA NextRecorded ==
  ASSUME ControlInv, Answered, Recorded, [Next]_vars
  PROVE  Recorded'
<1> SUFFICES ASSUME NEW d \in Call, Ok(d)', req'[d].kind = "once"
             PROVE  /\ req'[d].key \in Key /\ opClaims'[req'[d].key] # None
                    /\ opClaims'[req'[d].key].digest = req'[d].digest
                    /\ opClaims'[req'[d].key].batch = answer'[d].batch
  BY DEF Recorded
<1>1. CASE answer[d] # None
  <2>1. answer'[d] = answer[d] /\ pc[d] # "idle"
    BY <1>1, AnswerSteps DEF Answered
  <2>2. Ok(d) /\ req[d].kind = "once" /\ req'[d].key = req[d].key /\ req'[d].digest = req[d].digest
    BY <1>1, <2>1, CallKeeps DEF Ok
  <2>3. /\ req[d].key \in Key /\ opClaims[req[d].key] # None
        /\ opClaims[req[d].key].digest = req[d].digest
        /\ opClaims[req[d].key].batch = answer[d].batch
    BY <2>2 DEF Recorded
  <2>4. opClaims'[req[d].key] = opClaims[req[d].key]
    BY <2>3, OpClaimsStay
  <2> QED BY <2>1, <2>2, <2>3, <2>4
<1>2. CASE answer[d] = None
  <2>1. CASE Hit(d) \/ Commit(d)
    <3>1. pc[d] \in {"waiting", "tx", "clash"}
      BY <2>1 DEF Hit, Commit
    <3>2. req[d].kind # "once" /\ req'[d].kind = req[d].kind
      BY <3>1, CallKeeps DEF ControlInv, RequestInv, Appending
    <3> QED BY <3>2
  <2>2. CASE OnceHit(d) /\ answer'[d] = [kind |-> "cache-hit",
                                         batch |-> opClaims[req[d].key].batch]
    <3>1. /\ req[d].key \in Key /\ opClaims[req[d].key] # None
          /\ opClaims[req[d].key].digest = req[d].digest /\ req' = req /\ opClaims' = opClaims
      BY <2>2 DEF OnceHit, Quiet, table, ControlInv, RequestInv, Deciding
    <3> QED BY <2>2, <3>1
  <2>3. CASE OnceCommit(d)
    <3>1. PICK s \in Stream, n \in 1 .. MaxBatch :
            /\ req[d].key \in Key /\ req' = req
            /\ [digest |-> req[d].digest, stream |-> s, batch |-> BatchOf(gate[s], n, d)]
                 \in OpClaim
            /\ opClaims' = [opClaims EXCEPT ![req[d].key] =
                              [digest |-> req[d].digest, stream |-> s,
                               batch |-> BatchOf(gate[s], n, d)]]
            /\ Return(d, "hook", "committed", BatchOf(gate[s], n, d))
      BY <2>3, OnceCommits
    <3>2. opClaims'[req[d].key] = [digest |-> req[d].digest, stream |-> s,
                                   batch |-> BatchOf(gate[s], n, d)]
      BY <3>1 DEF ControlInv, TypeOK
    <3>3. answer'[d].batch = BatchOf(gate[s], n, d)
      BY <3>1 DEF Return, ControlInv, TypeOK
    <3>4. opClaims'[req[d].key] # None
      BY <3>1, <3>2, RecordsAssumption DEF RecordsAssumption
    <3> QED BY <3>1, <3>2, <3>3, <3>4
  <2> QED BY <1>2, <2>1, <2>2, <2>3, AnswerKinds
<1> QED
  BY <1>1, <1>2

\* A commit stores the batch it claims, and answers with it.
LEMMA CommitStored ==
  ASSUME ControlInv, NEW c \in Call, Commit(c)
  PROVE  \E s \in Stream, k \in Key \cup {None}, b \in Batch :
           /\ s = req[c].stream /\ b = BatchOf(gate[s], req[c].n, c)
           /\ Stored(s, b)'
           /\ claims' = IF k = None THEN claims ELSE [claims EXCEPT ![s][k] = b]
           /\ req' = req
<1>1. PICK s \in Stream, k \in Key \cup {None}, n \in 1 .. MaxBatch, b \in Batch :
        /\ s = req[c].stream /\ n = req[c].n /\ b = BatchOf(gate[s], n, c)
        /\ InsertRows(s, n, k, c)
        /\ claims' = IF k = None THEN claims ELSE [claims EXCEPT ![s][k] = b]
        /\ req' = req
  BY Commits
<1>2. TypeOK /\ n \in Nat \ {0}
  BY DEF ControlInv
<1>3. Stored(s, b)'
  BY <1>1, <1>2, NewStored
<1> QED
  BY <1>1, <1>3

LEMMA OnceCommitStored ==
  ASSUME ControlInv, NEW c \in Call, OnceCommit(c)
  PROVE  \E s \in Stream, b \in Batch :
           /\ Stored(s, b)' /\ req[c].key \in Key
           /\ opClaims' = [opClaims EXCEPT ![req[c].key] =
                             [digest |-> req[c].digest, stream |-> s, batch |-> b]]
<1>1. PICK s \in Stream, n \in 1 .. MaxBatch, b \in Batch :
        /\ b = BatchOf(gate[s], n, c) /\ req[c].key \in Key
        /\ InsertRows(s, n, None, c)
        /\ opClaims' = [opClaims EXCEPT ![req[c].key] =
                          [digest |-> req[c].digest, stream |-> s, batch |-> b]]
  <2>1. PICK s \in Stream, n \in 1 .. MaxBatch :
          /\ BatchOf(gate[s], n, c) \in Batch /\ req[c].key \in Key
          /\ InsertRows(s, n, None, c)
          /\ opClaims' = [opClaims EXCEPT ![req[c].key] =
                            [digest |-> req[c].digest, stream |-> s,
                             batch |-> BatchOf(gate[s], n, c)]]
    BY OnceCommits
  <2> QED BY <2>1
<1>2. TypeOK /\ n \in Nat \ {0} /\ None \in Key \cup {None}
  BY DEF ControlInv
<1>3. Stored(s, b)'
  BY <1>1, <1>2, NewStored
<1> QED
  BY <1>1, <1>3

LEMMA NextClaimsStored ==
  ASSUME ControlInv, ClaimsStored, [Next]_vars
  PROVE  ClaimsStored'
<1> SUFFICES ASSUME Whole', NEW s \in Stream, NEW k \in Key, claims'[s][k] # None
             PROVE  Stored(s, claims[s][k])'
  BY DEF ClaimsStored
<1>1. CASE claims[s][k] # None
  <2>1. PICK b : b = claims[s][k]
    OBVIOUS
  <2>2. Stored(s, b) /\ claims'[s][k] = b
    BY <1>1, <2>1, WholeSteps, ClaimsStay DEF ClaimsStored
  <2>3. Stored(s, b)'
    BY <2>2, MintedStays
  <2> QED BY <2>2, <2>3 DEF Stored, Minted
<1>2. CASE claims[s][k] = None
  <2>1. PICK c \in Call : Commit(c)
    BY <1>2, TableSteps, WholeSteps DEF table, Open, OnceCommit
  <2>2. PICK t \in Stream, j \in Key \cup {None}, b \in Batch :
          /\ Stored(t, b)'
          /\ claims' = IF j = None THEN claims ELSE [claims EXCEPT ![t][j] = b]
    BY <2>1, CommitStored
  <2>3. t = s /\ claims'[s][k] = b
    BY <1>2, <2>2 DEF ControlInv, TypeOK
  <2> QED BY <2>2, <2>3 DEF Stored, Minted
<1> QED
  BY <1>1, <1>2

LEMMA NextOpsStored ==
  ASSUME ControlInv, OpsStored, [Next]_vars
  PROVE  OpsStored'
<1> SUFFICES ASSUME Whole', NEW k \in Key, opClaims'[k] # None
             PROVE  Stored(opClaims[k].stream, opClaims[k].batch)'
  BY DEF OpsStored
<1>1. CASE opClaims[k] # None
  <2>1. PICK s \in Stream, b \in Batch : s = opClaims[k].stream /\ b = opClaims[k].batch
    BY <1>1 DEF ControlInv, TypeOK, OpClaim
  <2>2. Stored(s, b) /\ opClaims'[k] = opClaims[k]
    BY <1>1, <2>1, WholeSteps, OpClaimsStay DEF OpsStored
  <2>3. Stored(s, b)'
    BY <2>2, MintedStays
  <2> QED BY <2>1, <2>2, <2>3 DEF Stored, Minted
<1>2. CASE opClaims[k] = None
  <2>1. PICK c \in Call : OnceCommit(c)
    BY <1>2, TableSteps, WholeSteps DEF table, Open, Commit
  <2>2. PICK s \in Stream, b \in Batch :
          /\ Stored(s, b)' /\ req[c].key \in Key
          /\ opClaims' = [opClaims EXCEPT ![req[c].key] =
                            [digest |-> req[c].digest, stream |-> s, batch |-> b]]
    BY <2>1, OnceCommitStored
  <2>3. opClaims'[k] = [digest |-> req[c].digest, stream |-> s, batch |-> b]
    BY <1>2, <2>2 DEF ControlInv, TypeOK
  <2>4. opClaims'[k].stream = s /\ opClaims'[k].batch = b
    BY <2>3
  <2> QED BY <2>2, <2>4 DEF Stored, Minted
<1> QED
  BY <1>1, <1>2

LEMMA NextAnswersStored ==
  ASSUME ControlInv, Answered, ClaimsStored, AnswersStored, [Next]_vars
  PROVE  AnswersStored'
<1> SUFFICES ASSUME Whole', NEW d \in Call, Ok(d)', req'[d].kind # "once"
             PROVE  req'[d].stream \in Stream /\ Stored(req[d].stream, answer[d].batch)'
  BY DEF AnswersStored
<1>1. CASE answer[d] # None
  <2>1. answer'[d] = answer[d] /\ pc[d] # "idle"
    BY <1>1, AnswerSteps DEF Answered
  <2>2. Ok(d) /\ req[d].kind # "once" /\ req'[d].stream = req[d].stream
    BY <1>1, <2>1, CallKeeps DEF Ok
  <2>3. PICK s, b : s \in Stream /\ s = req[d].stream /\ b = answer[d].batch /\ Stored(s, b)
    BY <2>2, WholeSteps DEF AnswersStored
  <2>4. Stored(s, b)'
    BY <2>3, MintedStays
  <2> QED BY <2>1, <2>2, <2>3, <2>4 DEF Stored, Minted
<1>2. CASE answer[d] = None
  <2>1. CASE Hit(d) /\ answer'[d] = [kind |-> "cache-hit", batch |-> ClaimOf(d)]
    <3>1. pc[d] \in {"waiting", "clash"} /\ ClaimOf(d) # None /\ req' = req
      BY <2>1 DEF Hit, Quiet
    <3>2. req[d].stream \in Stream /\ req[d].key \in Key \cup {None}
      BY <3>1 DEF ControlInv, RequestInv, Running, Appending, Request
    <3>3. PICK s, b : s \in Stream /\ s = req[d].stream /\ b = ClaimOf(d)
      BY <3>2
    <3>4. Stored(s, b)
      BY <3>1, <3>2, <3>3, WholeSteps DEF ClaimOf, ClaimsStored
    <3>5. Stored(s, b)' /\ answer'[d].batch = b
      BY <2>1, <3>3, <3>4, MintedStays
    <3> QED BY <3>1, <3>3, <3>5 DEF Stored, Minted
  <2>2. CASE Commit(d) /\ answer'[d] = [kind |-> "committed",
               batch |-> BatchOf(gate[req[d].stream], req[d].n, d)]
    <3>1. PICK s \in Stream, b \in Batch :
            /\ s = req[d].stream /\ b = BatchOf(gate[s], req[d].n, d)
            /\ Stored(s, b)' /\ req' = req
      BY <2>2, CommitStored
    <3>2. answer'[d].batch = b
      BY <2>2, <3>1
    <3> QED BY <3>1, <3>2 DEF Stored, Minted
  <2>3. CASE OnceHit(d) \/ OnceCommit(d)
    <3>1. pc[d] \in {"opLookup", "opTx"}
      BY <2>3 DEF OnceHit, OnceCommit
    <3>2. req[d].kind = "once" /\ req'[d].kind = req[d].kind
      BY <3>1, CallKeeps DEF ControlInv, RequestInv, Deciding
    <3> QED BY <3>2
  <2> QED BY <1>2, <2>1, <2>2, <2>3, AnswerKinds
<1> QED
  BY <1>1, <1>2

LEMMA InsertedTail ==
  ASSUME TypeOK, NEW s \in Stream, NEW n \in Nat \ {0}, NEW k \in Key \cup {None},
         NEW c \in Call, InsertRows(s, n, k, c)
  PROVE  TailSeq(log'[s]) = gate'[s]
<1>1. /\ \A t \in Stream : t # s => log'[t] = log[t] /\ gate'[t] = gate[t]
      /\ gate'[s] = gate[s] + n
      /\ Len(log'[s]) = Len(log[s]) + n
      /\ \A i \in 1 .. Len(log[s]) : log'[s][i] = log[s][i]
      /\ \A i \in Len(log[s]) + 1 .. Len(log[s]) + n :
           log'[s][i] = [seq |-> gate[s] + (i - Len(log[s])), key |-> k, by |-> c]
  BY InsertedRows
<1>2. gate[s] \in Nat /\ Len(log[s]) \in Nat
  BY DEF TypeOK
<1> DEFINE i == Len(log[s]) + n
<1>3. i \in Len(log[s]) + 1 .. Len(log[s]) + n /\ i - Len(log[s]) = n /\ i # 0
  BY <1>2
<1>4. log'[s][i] = [seq |-> gate[s] + (i - Len(log[s])), key |-> k, by |-> c]
  BY <1>1, <1>3
<1>5. log'[s][i].seq = gate[s] + n
  BY <1>3, <1>4
<1>6. Len(log'[s]) = i /\ log'[s] # <<>>
  BY <1>1, <1>3
<1> QED
  BY <1>1, <1>5, <1>6 DEF TailSeq

LEMMA NextGateIsTail ==
  ASSUME ControlInv, GateIsTail, [Next]_vars
  PROVE  GateIsTail'
<1> SUFFICES ASSUME Whole', NEW s \in Stream, NEW i \in 1 .. Len(log'[s]), log'[s][i].by # None
             PROVE  gate'[s] = TailSeq(log'[s])
  BY DEF GateIsTail
<1>1. Whole
  BY WholeSteps
<1>2. CASE UNCHANGED table
  BY <1>1, <1>2 DEF table, GateIsTail
<1>3. ASSUME NEW p \in Proc, Open(p) PROVE gate'[s] = TailSeq(log'[s])
  <2>1. log' = log
    BY <1>3 DEF Open
  <2>2. gate[s] = TailSeq(log[s]) /\ gate[s] \in Nat
    BY <1>1, <2>1 DEF GateIsTail, ControlInv, TypeOK
  <2>3. gate'[s] = gate[s]
    BY <1>3, <2>2 DEF Open
  <2> QED BY <2>1, <2>2, <2>3
<1>4. ASSUME NEW c \in Call, NEW t \in Stream, NEW n \in Nat \ {0}, NEW k \in Key \cup {None},
             InsertRows(t, n, k, c)
      PROVE  gate'[s] = TailSeq(log'[s])
  <2>1. CASE t = s
    <3>1. TypeOK
      BY DEF ControlInv
    <3> QED BY <1>4, <2>1, <3>1, InsertedTail
  <2>2. CASE t # s
    <3>1. log'[s] = log[s] /\ gate'[s] = gate[s]
      BY <1>4, <2>2, InsertedRows DEF ControlInv
    <3> QED BY <1>1, <3>1 DEF GateIsTail
  <2> QED BY <2>1, <2>2
<1>5. ASSUME NEW c \in Call, Commit(c) PROVE gate'[s] = TailSeq(log'[s])
  <2>1. PICK t \in Stream, k \in Key \cup {None}, n \in 1 .. MaxBatch : InsertRows(t, n, k, c)
    BY <1>5, Commits
  <2>2. n \in Nat \ {0}
    OBVIOUS
  <2> QED BY <1>4, <2>1, <2>2
<1>6. ASSUME NEW c \in Call, OnceCommit(c) PROVE gate'[s] = TailSeq(log'[s])
  <2>1. PICK t \in Stream, n \in 1 .. MaxBatch : InsertRows(t, n, None, c)
    BY <1>6, OnceCommits
  <2>2. n \in Nat \ {0} /\ None \in Key \cup {None}
    OBVIOUS
  <2> QED BY <1>4, <2>1, <2>2
<1> QED
  BY <1>2, <1>3, <1>5, <1>6, TableSteps, WholeSteps

\* A call starts by one of its entries.
LEMMA StartSteps ==
  ASSUME ControlInv, [Next]_vars, NEW d \in Call, pc[d] = "idle", pc'[d] # "idle"
  PROVE  Invoke(d) \/ InvokeOnce(d) \/ Fold(d)
<1>1. ~ Silent
  BY DEF Silent, InFlight
<1>2. ASSUME NEW c \in Call, Invoke(c) \/ InvokeOnce(c) \/ Fold(c) \/ Decided(c) \/ NotifyCommit(c)
      PROVE  c = d /\ ~ Decided(c) /\ ~ NotifyCommit(c)
  BY <1>2 DEF Invoke, InvokeOnce, Fold, Decided, NotifyCommit, ControlInv, TypeOK
<1>3. ASSUME NEW c \in Call, Ended(c) \/ Hit(c) \/ OnceHit(c) \/ Commit(c) \/ OnceCommit(c)
      PROVE  FALSE
  <2>1. pc[c] # "idle" /\ \E x, kind, b : Return(c, x, kind, b)
    BY <1>3 DEF Ended, Hit, OnceHit, Commit, OnceCommit
  <2> QED BY <2>1 DEF Return, ControlInv, TypeOK
<1>4. ~ \E s \in Stream : DeleteStream(s) \/ PruneEvents(s)
  BY DEF DeleteStream, PruneEvents, call
<1> QED
  BY <1>1, <1>2, <1>3, <1>4, StepCases

LEMMA PrefixStays ==
  ASSUME ControlInv, [Next]_vars, Whole', NEW d \in Call, req[d].stream \in Stream,
         req'[d].stream = req[d].stream, folded'[d] = folded[d], Prefix(d)
  PROVE  Prefix(d)'
<1>1. PICK s \in Stream, seen \in Seq(Row) : s = req[d].stream /\ seen = folded[d]
  BY DEF ControlInv, TypeOK
<1>2. /\ Len(seen) <= Len(log[s]) /\ Len(seen) \in Nat
      /\ \A i \in 1 .. Len(seen) : log[s][i] = seen[i]
      /\ \A i \in Len(seen) + 1 .. Len(log[s]) : log[s][i].by # None
  BY <1>1 DEF Prefix
<1>3. /\ Len(log[s]) \in Nat /\ Len(log'[s]) \in Nat /\ Len(log[s]) <= Len(log'[s])
      /\ \A i \in 1 .. Len(log[s]) : log'[s][i] = log[s][i]
      /\ \A i \in Len(log[s]) + 1 .. Len(log'[s]) : log'[s][i].by # None
  BY RowsGrow
<1>4. Len(seen) <= Len(log'[s]) /\ \A i \in 1 .. Len(seen) : log'[s][i] = seen[i]
  BY <1>2, <1>3
<1>5. ASSUME NEW i \in Len(seen) + 1 .. Len(log'[s]) PROVE log'[s][i].by # None
  <2>1. i \in Len(seen) + 1 .. Len(log[s]) \/ i \in Len(log[s]) + 1 .. Len(log'[s])
    BY <1>2, <1>3
  <2>2. CASE i \in Len(seen) + 1 .. Len(log[s])
    <3>1. i \in 1 .. Len(log[s])
      BY <1>2, <2>2
    <3> QED BY <1>2, <1>3, <2>2, <3>1
  <2> QED BY <1>3, <2>1, <2>2
<1>6. s = req'[d].stream /\ seen = folded'[d]
  BY <1>1
<1> QED
  BY <1>4, <1>5, <1>6 DEF Prefix

LEMMA NextFolding ==
  ASSUME ControlInv, Folding, [Next]_vars
  PROVE  Folding'
<1> SUFFICES ASSUME NEW d \in Call, pc'[d] # "idle", req'[d].kind = "decide"
             PROVE  /\ req'[d].stream \in Stream
                    /\ expected'[d] = TailSeq(folded'[d])
                    /\ Whole' => Prefix(d)'
  BY DEF Folding
<1>1. CASE pc[d] # "idle"
  <2>1. /\ req[d].kind = "decide" /\ req'[d].stream = req[d].stream
        /\ folded'[d] = folded[d] /\ expected'[d] = expected[d]
    BY <1>1, CallKeeps
  <2>2. /\ req[d].stream \in Stream /\ expected[d] = TailSeq(folded[d])
        /\ Whole => Prefix(d)
    BY <1>1, <2>1 DEF Folding
  <2>3. Whole' => Prefix(d)'
    BY <2>1, <2>2, WholeSteps, PrefixStays
  <2> QED BY <2>1, <2>2, <2>3
<1>2. CASE pc[d] = "idle"
  <2>1. Fold(d)
    <3>1. CASE Invoke(d)
      <4>1. PICK p \in Proc, s \in Stream, k \in Key \cup {None}, n \in 1 .. MaxBatch :
              req' = [req EXCEPT ![d] =
                        [proc |-> p, stream |-> s,
                         kind |-> IF k = None THEN "unkeyed" ELSE "append",
                         key |-> k, n |-> n, digest |-> None]]
        BY <3>1 DEF Invoke
      <4>2. req'[d].kind = IF k = None THEN "unkeyed" ELSE "append"
        BY <4>1 DEF ControlInv, TypeOK
      <4> QED BY <4>2
    <3>2. CASE InvokeOnce(d)
      <4>1. req'[d].kind = "once"
        BY <3>2 DEF InvokeOnce, ControlInv, TypeOK
      <4> QED BY <4>1
    <3> QED BY <1>2, <3>1, <3>2, StartSteps
  <2>2. PICK s \in Stream :
          /\ req'[d].stream = s /\ folded'[d] = log[s] /\ expected'[d] = TailSeq(log[s])
          /\ log' = log
    BY <2>1 DEF Fold, ControlInv, TypeOK, table
  <2>3. Len(log[s]) \in Nat
    BY DEF ControlInv, TypeOK
  <2>4. Prefix(d)'
    BY <2>2, <2>3 DEF Prefix
  <2> QED BY <2>2, <2>4
<1> QED
  BY <1>1, <1>2

\* The gate passes a decision only when nothing followed its fold: a later row
\* of this code would have moved the gate above the folded tail.
LEMMA NothingFollows ==
  ASSUME TypeOK, SequencesAscend, GateIsTail, Whole, NEW s \in Stream, NEW seen \in Seq(Row),
         gate[s] = TailSeq(seen), Len(seen) <= Len(log[s]),
         \A i \in 1 .. Len(seen) : log[s][i] = seen[i],
         \A i \in Len(seen) + 1 .. Len(log[s]) : log[s][i].by # None
  PROVE  Len(seen) = Len(log[s])
<1> DEFINE last == Len(log[s])
<1>1. last \in Nat /\ Len(seen) \in Nat /\ log[s] \in Seq(Row)
  BY DEF TypeOK
<1> SUFFICES ASSUME Len(seen) < last PROVE FALSE
  BY <1>1
<1>2. last \in Len(seen) + 1 .. last /\ last \in 1 .. Len(log[s]) /\ log[s] # <<>>
  BY <1>1
<1>3. gate[s] = TailSeq(log[s]) /\ TailSeq(log[s]) = log[s][last].seq
  BY <1>2 DEF GateIsTail, TailSeq
<1>4. log[s][last] \in Row
  BY <1>1, <1>2, ElementOfSeq
<1>5. CASE seen = <<>>
  BY <1>3, <1>4, <1>5 DEF TailSeq, Row
<1>6. CASE seen # <<>>
  <2>1. Len(seen) \in 1 .. Len(seen) /\ Len(seen) \in 1 .. Len(log[s])
    BY <1>1, <1>6
  <2>2. TailSeq(seen) = log[s][Len(seen)].seq
    BY <1>6, <2>1 DEF TailSeq
  <2>3. log[s][Len(seen)].seq < log[s][last].seq
    BY <1>2, <2>1 DEF SequencesAscend
  <2>4. log[s][Len(seen)] \in Row
    BY <1>1, <2>1, ElementOfSeq
  <2>5. log[s][Len(seen)].seq = log[s][last].seq
    BY <1>3, <2>2
  <2>6. log[s][Len(seen)].seq \in Nat
    BY <2>4 DEF Row
  <2> HIDE DEF last
  <2> QED BY <2>3, <2>5, <2>6
<1> QED
  BY <1>5, <1>6

LEMMA InsertedFirst ==
  ASSUME TypeOK, NEW s \in Stream, NEW n \in Nat \ {0}, NEW k \in Key \cup {None},
         NEW c \in Call, InsertRows(s, n, k, c)
  PROVE  Len(log'[s]) > Len(log[s]) /\ log'[s][Len(log[s]) + 1].by = c
<1>1. /\ \A t \in Stream : t # s => log'[t] = log[t] /\ gate'[t] = gate[t]
      /\ gate'[s] = gate[s] + n
      /\ Len(log'[s]) = Len(log[s]) + n
      /\ \A i \in 1 .. Len(log[s]) : log'[s][i] = log[s][i]
      /\ \A i \in Len(log[s]) + 1 .. Len(log[s]) + n :
           log'[s][i] = [seq |-> gate[s] + (i - Len(log[s])), key |-> k, by |-> c]
  BY InsertedRows
<1>2. Len(log[s]) \in Nat
  BY DEF TypeOK
<1> DEFINE i == Len(log[s]) + 1
<1>3. i \in Len(log[s]) + 1 .. Len(log[s]) + n
  BY <1>2
<1>4. log'[s][i] = [seq |-> gate[s] + (i - Len(log[s])), key |-> k, by |-> c]
  BY <1>1, <1>3
<1>5. log'[s][i].by = c
  BY <1>4
<1> QED
  BY <1>1, <1>2, <1>5

LEMMA CommitLands ==
  ASSUME ControlInv, SequencesAscend, GateIsTail, Folding, Whole,
         NEW d \in Call, Commit(d), req[d].kind = "decide"
  PROVE  /\ Len(log'[req[d].stream]) > Len(folded[d])
         /\ log'[req[d].stream][Len(folded[d]) + 1].by = d
<1>1. PICK s \in Stream, k \in Key \cup {None}, n \in Nat \ {0} :
        s = req[d].stream /\ GatePasses(d) /\ InsertRows(s, n, k, d) /\ pc[d] = "tx"
  <2>1. PICK s \in Stream, k \in Key \cup {None}, n \in 1 .. MaxBatch :
          s = req[d].stream /\ GatePasses(d) /\ InsertRows(s, n, k, d) /\ pc[d] = "tx"
    BY Commits
  <2>2. n \in Nat \ {0}
    OBVIOUS
  <2> QED BY <2>1, <2>2
<1>2. PICK seen \in Seq(Row) : seen = folded[d]
  BY DEF ControlInv, TypeOK
<1>3. expected[d] = TailSeq(seen) /\ Prefix(d)
  BY <1>1, <1>2 DEF Folding
<1>4. gate[s] = TailSeq(seen)
  BY <1>1, <1>3, TailSeqType DEF GatePasses
<1>5. Len(seen) = Len(log[s])
  BY <1>1, <1>2, <1>3, <1>4, NothingFollows DEF Prefix, ControlInv
<1>6. TypeOK
  BY DEF ControlInv
<1>7. Len(log'[s]) > Len(log[s]) /\ log'[s][Len(log[s]) + 1].by = d
  BY <1>1, <1>6, InsertedFirst
<1> QED
  BY <1>1, <1>2, <1>5, <1>7

LEMMA NextLanded ==
  ASSUME ControlInv, SequencesAscend, Answered, GateIsTail, Folding, Landed, [Next]_vars
  PROVE  Landed'
<1> SUFFICES ASSUME Whole', NEW d \in Call, Ok(d)', req'[d].kind = "decide",
                    answer'[d].kind = "committed"
             PROVE  /\ Len(log'[req'[d].stream]) > Len(folded'[d])
                    /\ log'[req'[d].stream][Len(folded'[d]) + 1].by = d
  BY DEF Landed
<1>1. Whole
  BY WholeSteps
<1>2. CASE answer[d] # None
  <2>1. answer'[d] = answer[d] /\ pc[d] # "idle"
    BY <1>2, AnswerSteps DEF Answered
  <2>2. /\ Ok(d) /\ req[d].kind = "decide"
        /\ req'[d].stream = req[d].stream /\ folded'[d] = folded[d]
    BY <1>2, <2>1, CallKeeps DEF Ok
  <2>3. PICK s \in Stream, m \in Nat : s = req[d].stream /\ m = Len(folded[d])
    <3>1. req[d].stream \in Stream /\ folded[d] \in Seq(Row)
      BY <2>1, <2>2 DEF Folding, ControlInv, TypeOK
    <3> QED BY <3>1
  <2>4. Len(log[s]) > m /\ log[s][m + 1].by = d
    BY <1>1, <2>1, <2>2, <2>3 DEF Landed
  <2>5. /\ Len(log[s]) \in Nat /\ Len(log'[s]) \in Nat /\ Len(log[s]) <= Len(log'[s])
        /\ \A i \in 1 .. Len(log[s]) : log'[s][i] = log[s][i]
    BY RowsGrow
  <2>6. m + 1 \in 1 .. Len(log[s])
    BY <2>4, <2>5
  <2>7. Len(log'[s]) > m /\ log'[s][m + 1].by = d
    BY <2>4, <2>5, <2>6
  <2> QED BY <2>2, <2>3, <2>7
<1>3. CASE answer[d] = None
  <2>1. Commit(d)
    <3>1. ~ OnceCommit(d)
      <4>1. ASSUME OnceCommit(d) PROVE FALSE
        <5>1. req[d].kind = "once" /\ req' = req
          BY <4>1, OnceCommits
        <5> QED BY <5>1
      <4> QED BY <4>1
    <3>2. ASSUME NEW b, answer'[d] = [kind |-> "cache-hit", batch |-> b] PROVE FALSE
      BY <3>2
    <3> QED BY <1>3, <3>1, <3>2, AnswerKinds
  <2>2. req' = req /\ folded' = folded
    BY <2>1 DEF Commit
  <2> QED BY <1>1, <2>1, <2>2, CommitLands
<1> QED
  BY <1>2, <1>3

LEMMA NextAnswers == AnswerInv /\ [Next]_vars => AnswerInv'
<1> SUFFICES ASSUME AnswerInv, [Next]_vars PROVE AnswerInv'
  OBVIOUS
<1>1. /\ RowInv /\ ControlInv /\ SequencesAscend
      /\ Answered /\ Recorded /\ ClaimsStored /\ OpsStored /\ AnswersStored
      /\ GateIsTail /\ Folding /\ Landed
  BY DEF AnswerInv, RowInv
<1> QED
  BY <1>1, NextRows, NextAnswered, NextRecorded, NextClaimsStored, NextOpsStored,
     NextAnswersStored, NextGateIsTail, NextFolding, NextLanded DEF AnswerInv

(***************************************************************************)
(* The theorems.                                                            *)
(***************************************************************************)
\* While no stream is deleted or pruned, the gate is the tail of every stream
\* this code wrote: no conflict, clash or rollback leaks a sequence.
THEOREM GateTailSafety == Spec => []GateIsTail
<1>1. Spec => []AnswerInv
  BY InitAnswers, NextAnswers, PTL DEF Spec
<1>2. AnswerInv => GateIsTail
  BY DEF AnswerInv
<1> QED
  BY <1>1, <1>2, PTL

\* While no stream is deleted or pruned, every batch a caller was told of is in
\* its stream in full, whoever wrote it.
THEOREM AnswersSafety == Spec => []AnswersDurable
<1>1. Spec => []AnswerInv
  BY InitAnswers, NextAnswers, PTL DEF Spec
<1>2. AnswerInv => AnswersDurable
  <2> SUFFICES ASSUME AnswerInv, NEW c \in Call, Whole, Ok(c)
               PROVE  Stored(Target(c), answer[c].batch)
    BY DEF AnswersDurable, Stored
  <2>1. CASE req[c].kind = "once"
    <3>1. /\ req[c].key \in Key /\ opClaims[req[c].key] # None
          /\ opClaims[req[c].key].batch = answer[c].batch
      BY <2>1 DEF AnswerInv, Recorded
    <3>2. Stored(opClaims[req[c].key].stream, opClaims[req[c].key].batch)
      BY <3>1 DEF AnswerInv, OpsStored
    <3> QED BY <2>1, <3>1, <3>2 DEF Target
  <2>2. CASE req[c].kind # "once"
    BY <2>2 DEF AnswerInv, AnswersStored, Target
  <2> QED BY <2>1, <2>2
<1> QED
  BY <1>1, <1>2, PTL

\* Two decideOnce callers of one operation that get a result sent the same
\* request digest and get the same result.
THEOREM DigestSafety == Spec => []DigestsAgree
<1>1. Spec => []AnswerInv
  BY InitAnswers, NextAnswers, PTL DEF Spec
<1>2. AnswerInv => DigestsAgree
  BY DEF AnswerInv, Recorded, DigestsAgree
<1> QED
  BY <1>1, <1>2, PTL

\* While no stream is deleted or pruned, a decision commits right after the
\* rows its closure folded.
THEOREM DecisionSafety == Spec => []DecisionsSerialized
<1>1. Spec => []AnswerInv
  BY InitAnswers, NextAnswers, PTL DEF Spec
<1>2. AnswerInv => DecisionsSerialized
  <2> SUFFICES ASSUME AnswerInv, NEW c \in Call, Whole, Ok(c), req[c].kind = "decide",
                      answer[c].kind = "committed"
               PROVE  LET seen == folded[c]
                          rows == log[req[c].stream]
                      IN  /\ Len(rows) > Len(seen)
                          /\ SubSeq(rows, 1, Len(seen)) = seen
                          /\ rows[Len(seen) + 1].by = c
    BY DEF DecisionsSerialized
  <2>1. pc[c] # "idle" /\ TypeOK
    BY DEF AnswerInv, RowInv, ControlInv, Answered, Ok
  <2>2. req[c].stream \in Stream /\ Prefix(c)
    BY <2>1 DEF AnswerInv, Folding
  <2>3. PICK rows \in Seq(Row), seen \in Seq(Row) : rows = log[req[c].stream] /\ seen = folded[c]
    BY <2>1, <2>2 DEF TypeOK
  <2>4. Len(rows) > Len(seen) /\ rows[Len(seen) + 1].by = c
    BY <2>3 DEF AnswerInv, Landed
  <2>5. SubSeq(rows, 1, Len(seen)) = seen
    <3>1. Len(seen) <= Len(rows) /\ \A i \in 1 .. Len(seen) : rows[i] = seen[i]
      BY <2>2, <2>3 DEF Prefix
    <3>2. /\ SubSeq(rows, 1, Len(seen)) \in Seq(Row)
          /\ Len(SubSeq(rows, 1, Len(seen))) = Len(seen)
          /\ \A i \in 1 .. Len(seen) : SubSeq(rows, 1, Len(seen))[i] = rows[i]
      BY <3>1
    <3>3. \A i \in 1 .. Len(SubSeq(rows, 1, Len(seen))) : SubSeq(rows, 1, Len(seen))[i] = seen[i]
      BY <3>1, <3>2
    <3> QED BY <3>2, <3>3, SeqEqual
  <2> QED BY <2>3, <2>4, <2>5
<1> QED
  BY <1>1, <1>2, PTL
=============================================================================
