--------------------------- MODULE AtomicAppender ---------------------------
(***************************************************************************)
(* The event appender (events/atomic-appender.ts) over the SQLite tables    *)
(* events, sequences and idempotency_claims (storage/sqlite-backend.ts).    *)
(*                                                                          *)
(* Several processes share one database file.  Inside a process, calls on   *)
(* one stream queue on a promise chain (StreamLockManager); between         *)
(* processes only BEGIN IMMEDIATE serializes.  A call is one invocation of  *)
(*   "append"   append(stream, events, key)                                 *)
(*   "unkeyed"  appendUnkeyed(stream, events)                               *)
(*   "decide"   decide / withSession: fold, run the closure, append with    *)
(*              expectedSequence set to the folded tail                     *)
(*   "once"     decideOnce(operationId, requestDigest, closure)             *)
(* A retry by the client is another call with the same key.                 *)
(*                                                                          *)
(* Abstracted: event payloads (a row keeps its sequence, its idempotency    *)
(* key and the call that minted its eventId), timestamps, argument          *)
(* validation (it changes nothing), and the handle cache.                   *)
(***************************************************************************)
EXTENDS Integers, Sequences, FiniteSets

CONSTANTS
  Proc,         \* processes that opened the state directory
  Stream,       \* stream ids
  Call,         \* invocations of the appender
  Key,          \* idempotency keys and, for "once", operation ids
  Digest,       \* request digests of decideOnce
  Kinds,        \* the entry points in use
  MaxBatch,     \* bound: events of one call
  MaxAttempts,  \* SQLITE_BUSY_RETRY_POLICY.maxAttempts
  MaxCrashes,   \* bound: process deaths
  MaxDeletes,   \* bound: deleteStream calls
  MaxPrunes,    \* bound: pruneEvents calls
  None          \* the absent key, claim, version or caller

ASSUME BoundsAssumption ==
  /\ MaxBatch \in Nat \ {0}
  /\ MaxAttempts \in Nat \ {0}
  /\ MaxCrashes \in Nat
  /\ MaxDeletes \in Nat
  /\ MaxPrunes \in Nat

ASSUME NoneAssumption ==
  None \notin Key \cup Nat \cup Call \cup Proc \cup Stream \cup Digest

ASSUME KindsAssumption == Kinds \subseteq {"append", "unkeyed", "decide", "once"}

VARIABLES
  up,        \* up[p]: process p runs and has initialized the backend
  gate,      \* gate[s]: the sequences row of s, 0 when it is absent
  log,       \* log[s]: the events rows of s in sequence order
  claims,    \* claims[s][k]: the idempotency_claims row, None when absent
  opClaims,  \* opClaims[k]: the claim of operation k, None when absent
  queue,     \* queue[p][s]: calls on the promise chain, the holder first
  pc,        \* pc[c]: where call c is
  req,       \* req[c]: the arguments of call c, None before the call
  expected,  \* expected[c]: expectedSequence of c, None when not passed
  folded,    \* folded[c]: the rows a decide closure saw
  attempts,  \* attempts[c]: BEGIN IMMEDIATE attempts that ended in SQLITE_BUSY
  answer,    \* answer[c]: what c returned or threw, None before
  budget     \* the deaths and deletions still allowed

table == <<gate, log, claims, opClaims>>
call == <<pc, req, expected, folded, attempts, answer>>
vars == <<up, table, queue, call, budget>>

Row == [seq : Nat \ {0}, key : Key \cup {None}, by : Call \cup {None}]
Batch == [by : Call, first : Nat \ {0}, last : Nat \ {0}]
OpClaim == [digest : Digest, stream : Stream, batch : Batch]
Request == [proc : Proc, stream : Stream \cup {None}, kind : Kinds,
            key : Key \cup {None}, n : 0 .. MaxBatch, digest : Digest \cup {None}]

Outcome == {"committed", "cache-hit", "no-op", "sequence-conflict", "storage_busy",
            "idempotency-claimed", "io-error", "digest-mismatch", "thrown"}
Answer == [kind : Outcome, batch : Batch \cup {None}]

ASSUME RecordsAssumption == None \notin Batch \cup OpClaim \cup Answer

Place == {"idle", "folded", "waiting", "tx", "clash", "opLookup", "opTx",
          "hook", "done", "lost"}

TypeOK ==
  /\ up \in [Proc -> BOOLEAN]
  /\ gate \in [Stream -> Nat]
  /\ log \in [Stream -> Seq(Row)]
  /\ claims \in [Stream -> [Key -> Batch \cup {None}]]
  /\ opClaims \in [Key -> OpClaim \cup {None}]
  /\ queue \in [Proc -> [Stream -> Seq(Call)]]
  /\ pc \in [Call -> Place]
  /\ req \in [Call -> Request \cup {None}]
  /\ expected \in [Call -> Nat \cup {None}]
  /\ folded \in [Call -> Seq(Row)]
  /\ attempts \in [Call -> 0 .. MaxAttempts]
  /\ answer \in [Call -> Answer \cup {None}]
  /\ budget \in [crashes : 0 .. MaxCrashes, deletes : 0 .. MaxDeletes,
                  prunes : 0 .. MaxPrunes]

(***************************************************************************)
(* Reads.                                                                   *)
(***************************************************************************)

\* The sequence of the last row, 0 for an empty stream: `tailVersion`.
TailSeq(rows) == IF rows = <<>> THEN 0 ELSE rows[Len(rows)].seq

\* MUTANT of BatchRows: the numbering starts at the high-water mark itself.
BatchRowsFromBase(base, n, k, c) ==
  [i \in 1 .. n |-> [seq |-> base + i - 1, key |-> k, by |-> c]]

\* The rows of a batch: finalize(base) numbers them base + 1 .. base + n.
BatchRows(base, n, k, c) ==
  [i \in 1 .. n |-> [seq |-> base + i, key |-> k, by |-> c]]

BatchOf(base, n, c) == [by |-> c, first |-> base + 1, last |-> base + n]

Holds(c) ==
  /\ req[c].kind # "once"
  /\ queue[req[c].proc][req[c].stream] # <<>>
  /\ Head(queue[req[c].proc][req[c].stream]) = c

(***************************************************************************)
(* A database written by an earlier release: the gate may trail the tail    *)
(* of a stream, equal it, or lead it (a pruned or rolled-back append).      *)
(***************************************************************************)
LegacyRows(n) == [i \in 1 .. n |-> [seq |-> i, key |-> None, by |-> None]]

Init ==
  /\ up = [p \in Proc |-> FALSE]
  /\ \E tail \in 0 .. 1, mark \in 0 .. 1 :
       /\ log = [s \in Stream |-> LegacyRows(tail)]
       /\ gate = [s \in Stream |-> mark]
  /\ claims = [s \in Stream |-> [k \in Key |-> None]]
  /\ opClaims = [k \in Key |-> None]
  /\ queue = [p \in Proc |-> [s \in Stream |-> <<>>]]
  /\ pc = [c \in Call |-> "idle"]
  /\ req = [c \in Call |-> None]
  /\ expected = [c \in Call |-> None]
  /\ folded = [c \in Call |-> <<>>]
  /\ attempts = [c \in Call |-> 0]
  /\ answer = [c \in Call |-> None]
  /\ budget = [crashes |-> MaxCrashes, deletes |-> MaxDeletes,
                prunes |-> MaxPrunes]

\* MUTANT of Open: a process serves calls without the repair.
OpenUnrepaired(p) ==
  /\ ~up[p]
  /\ up' = [up EXCEPT ![p] = TRUE]
  /\ UNCHANGED <<table, queue, call, budget>>

(***************************************************************************)
(* initialize() repairs every gate below its durable tail before the        *)
(* process serves a call; a gate above the tail stays.                      *)
(***************************************************************************)
Open(p) ==
  /\ ~up[p]
  /\ up' = [up EXCEPT ![p] = TRUE]
  /\ gate' = [s \in Stream |-> IF gate[s] < TailSeq(log[s])
                               THEN TailSeq(log[s]) ELSE gate[s]]
  /\ UNCHANGED <<log, claims, opClaims, queue, call, budget>>

(***************************************************************************)
(* Entry.  append and appendUnkeyed join the promise chain of their stream. *)
(***************************************************************************)
Enqueue(c, p, s) == queue' = [queue EXCEPT ![p][s] = Append(@, c)]

Invoke(c) ==
  /\ pc[c] = "idle"
  /\ \E p \in Proc, s \in Stream, k \in Key \cup {None}, n \in 1 .. MaxBatch :
       LET kind == IF k = None THEN "unkeyed" ELSE "append"
       IN  /\ up[p]
           /\ kind \in Kinds
           /\ req' = [req EXCEPT ![c] = [proc |-> p, stream |-> s, kind |-> kind,
                                         key |-> k, n |-> n, digest |-> None]]
           /\ Enqueue(c, p, s)
  /\ pc' = [pc EXCEPT ![c] = "waiting"]
  /\ UNCHANGED <<up, table, expected, folded, attempts, answer, budget>>

(***************************************************************************)
(* decide and withSession read the stream without the lock.  Without an     *)
(* operationId the key is a fresh uuid that no other call can repeat; such  *)
(* a call keeps key None here.                                              *)
(***************************************************************************)
Fold(c) ==
  /\ pc[c] = "idle"
  /\ "decide" \in Kinds
  /\ \E p \in Proc, s \in Stream, k \in Key \cup {None} :
       /\ up[p]
       /\ req' = [req EXCEPT ![c] = [proc |-> p, stream |-> s, kind |-> "decide",
                                     key |-> k, n |-> 0, digest |-> None]]
       /\ folded' = [folded EXCEPT ![c] = log[s]]
       /\ expected' = [expected EXCEPT ![c] = TailSeq(log[s])]
  /\ pc' = [pc EXCEPT ![c] = "folded"]
  /\ UNCHANGED <<up, table, queue, attempts, answer, budget>>

Return(c, place, kind, batch) ==
  /\ pc' = [pc EXCEPT ![c] = place]
  /\ answer' = [answer EXCEPT ![c] = [kind |-> kind, batch |-> batch]]

\* The closure resolves with n events: appendComputed takes the stream lock.
Decided(c) ==
  /\ pc[c] = "folded"
  /\ \E n \in 1 .. MaxBatch : req' = [req EXCEPT ![c].n = n]
  /\ Enqueue(c, req[c].proc, req[c].stream)
  /\ pc' = [pc EXCEPT ![c] = "waiting"]
  /\ UNCHANGED <<up, table, expected, folded, attempts, answer, budget>>

\* The closure resolves with no event.  A commit since the fold is noticed, unless the
\* caller turned alwaysEnforceConsistency off.
DecidedNothing(c) ==
  /\ pc[c] = "folded"
  /\ \/ Return(c, "done", "no-op", None)
     \/ /\ gate[req[c].stream] # expected[c]
        /\ Return(c, "done", "sequence-conflict", None)
  /\ UNCHANGED <<up, table, queue, req, expected, folded, attempts, budget>>

\* The closure throws; nothing is written.
ClosureThrows(c) ==
  /\ pc[c] = "folded"
  /\ Return(c, "done", "thrown", None)
  /\ UNCHANGED <<up, table, queue, req, expected, folded, attempts, budget>>

(***************************************************************************)
(* appendSqliteLocked, by the holder of the stream lock.  Every way out     *)
(* runs the finally of runExclusive.                                        *)
(***************************************************************************)
Release(c) ==
  queue' = [queue EXCEPT ![req[c].proc][req[c].stream] = Tail(@)]

\* MUTANT of ClaimOf: claims are neither looked up nor unique.
ClaimIgnored(c) == None

ClaimOf(c) ==
  IF req[c].key = None THEN None ELSE claims[req[c].stream][req[c].key]

\* The idempotency lookup, before BEGIN IMMEDIATE.
LookupHit(c) ==
  /\ pc[c] = "waiting" /\ Holds(c)
  /\ ClaimOf(c) # None
  /\ Return(c, "done", "cache-hit", ClaimOf(c))
  /\ Release(c)
  /\ UNCHANGED <<up, table, req, expected, folded, attempts, budget>>

LookupMiss(c) ==
  /\ pc[c] = "waiting" /\ Holds(c)
  /\ ClaimOf(c) = None
  /\ pc' = [pc EXCEPT ![c] = "tx"]
  /\ UNCHANGED <<up, table, queue, req, expected, folded, attempts, answer, budget>>

\* A transaction attempt ends in SQLITE_BUSY and another attempt follows.
Busy(c) ==
  /\ pc[c] \in {"tx", "opTx"}
  /\ attempts[c] + 1 < MaxAttempts
  /\ attempts' = [attempts EXCEPT ![c] = @ + 1]
  /\ UNCHANGED <<up, table, queue, pc, req, expected, folded, answer, budget>>

\* MUTANT of BusyExhausted: the error leaves without the finally of the lock.
BusyExhaustedKeepsLock(c) ==
  /\ pc[c] \in {"tx", "opTx"}
  /\ attempts[c] + 1 = MaxAttempts
  /\ attempts' = [attempts EXCEPT ![c] = MaxAttempts]
  /\ Return(c, "done", "storage_busy", None)
  /\ UNCHANGED <<up, table, queue, req, expected, folded, budget>>

\* The last attempt ends in SQLITE_BUSY: SqliteBusyExhaustedError.
BusyExhausted(c) ==
  /\ pc[c] \in {"tx", "opTx"}
  /\ attempts[c] + 1 = MaxAttempts
  /\ attempts' = [attempts EXCEPT ![c] = MaxAttempts]
  /\ Return(c, "done", "storage_busy", None)
  /\ IF pc[c] = "tx" THEN Release(c) ELSE UNCHANGED queue
  /\ UNCHANGED <<up, table, req, expected, folded, budget>>

\* MUTANT of GatePasses: the transaction drops expectedSequence.
GateIgnored(c) == TRUE

\* allocateSequence inside the transaction.
GatePasses(c) == expected[c] \in {None, gate[req[c].stream]}

GateConflict(c) ==
  /\ pc[c] = "tx"
  /\ ~GatePasses(c)
  /\ Return(c, "done", "sequence-conflict", None)
  /\ Release(c)
  /\ UNCHANGED <<up, table, req, expected, folded, attempts, budget>>

\* MUTANT of ClaimClash: the gate moved before the claim INSERT and stays.
ClaimClashLeaksGate(c) ==
  /\ pc[c] = "tx"
  /\ GatePasses(c)
  /\ ClaimOf(c) # None
  /\ pc' = [pc EXCEPT ![c] = "clash"]
  /\ gate' = [gate EXCEPT ![req[c].stream] = @ + req[c].n]
  /\ UNCHANGED <<up, log, claims, opClaims, queue, req, expected, folded, attempts,
                 answer, budget>>

\* The claim INSERT fails on its primary key: the transaction rolls back and
\* the claim is read again outside it.
ClaimClash(c) ==
  /\ pc[c] = "tx"
  /\ GatePasses(c)
  /\ ClaimOf(c) # None
  /\ pc' = [pc EXCEPT ![c] = "clash"]
  /\ UNCHANGED <<up, table, queue, req, expected, folded, attempts, answer, budget>>

\* The answer of a call that lost the claim race.
Relookup(c) ==
  /\ pc[c] = "clash"
  /\ IF ClaimOf(c) # None
       THEN Return(c, "done", "cache-hit", ClaimOf(c))
       ELSE Return(c, "done", "idempotency-claimed", None)
  /\ Release(c)
  /\ UNCHANGED <<up, table, req, expected, folded, attempts, budget>>

\* The primary key of the events table.  A collision rolls the transaction back
\* and ends as an IoError.
Free(s, n) ==
  \A i \in 1 .. Len(log[s]) : log[s][i].seq \notin gate[s] + 1 .. gate[s] + n

\* The insertion of n rows that call c mints on stream s, in one transaction.
InsertRows(s, n, k, c) ==
  /\ Free(s, n)
  /\ log' = [log EXCEPT ![s] = @ \o BatchRows(gate[s], n, k, c)]
  /\ gate' = [gate EXCEPT ![s] = @ + n]

Commit(c) ==
  LET s == req[c].stream
      k == req[c].key
      batch == BatchOf(gate[s], req[c].n, c)
  IN  /\ pc[c] = "tx"
      /\ GatePasses(c)
      /\ ClaimOf(c) = None
      /\ InsertRows(s, req[c].n, k, c)
      /\ claims' = IF k = None THEN claims ELSE [claims EXCEPT ![s][k] = batch]
      /\ Return(c, "hook", "committed", batch)
      /\ Release(c)
      /\ UNCHANGED <<up, opClaims, req, expected, folded, attempts, budget>>

\* A storage fault, a key collision, or an appender that close() shut: nothing is
\* written.
IoError(c) ==
  /\ \/ pc[c] = "waiting" /\ Holds(c)
     \/ pc[c] \in {"tx", "opLookup", "opTx"}
  /\ Return(c, "done", "io-error", None)
  /\ IF pc[c] \in {"waiting", "tx"} THEN Release(c) ELSE UNCHANGED queue
  /\ UNCHANGED <<up, table, req, expected, folded, attempts, budget>>

\* MUTANT of NotifyCommit: a throwing hook fails the committed append.
NotifyCommitFails(c) ==
  /\ pc[c] = "hook"
  /\ Return(c, "done", "io-error", None)
  /\ UNCHANGED <<up, table, queue, req, expected, folded, attempts, budget>>

\* notifyCommit, after the lock is released.
NotifyCommit(c) ==
  /\ pc[c] = "hook"
  /\ pc' = [pc EXCEPT ![c] = "done"]
  /\ UNCHANGED <<up, table, queue, req, expected, folded, attempts, answer, budget>>

(***************************************************************************)
(* decideOnce: no stream lock; the claim is read before and again inside    *)
(* the transaction.                                                         *)
(***************************************************************************)
InvokeOnce(c) ==
  /\ pc[c] = "idle"
  /\ "once" \in Kinds
  /\ \E p \in Proc, k \in Key, d \in Digest :
       /\ up[p]
       /\ req' = [req EXCEPT ![c] = [proc |-> p, stream |-> None, kind |-> "once",
                                     key |-> k, n |-> 0, digest |-> d]]
  /\ pc' = [pc EXCEPT ![c] = "opLookup"]
  /\ UNCHANGED <<up, table, queue, expected, folded, attempts, answer, budget>>

\* MUTANT of OnceStored: the request digest is not compared.
OnceStoredAnyDigest(c) ==
  /\ pc[c] \in {"opLookup", "opTx"}
  /\ opClaims[req[c].key] # None
  /\ Return(c, "done", "cache-hit", opClaims[req[c].key].batch)
  /\ UNCHANGED <<up, table, queue, req, expected, folded, attempts, budget>>

\* The stored claim answers, outside or inside the transaction.
OnceStored(c) ==
  LET claim == opClaims[req[c].key]
  IN  /\ pc[c] \in {"opLookup", "opTx"}
      /\ claim # None
      /\ IF claim.digest = req[c].digest
           THEN Return(c, "done", "cache-hit", claim.batch)
           ELSE Return(c, "done", "digest-mismatch", None)
      /\ UNCHANGED <<up, table, queue, req, expected, folded, attempts, budget>>

OnceMiss(c) ==
  /\ pc[c] = "opLookup"
  /\ opClaims[req[c].key] = None
  /\ pc' = [pc EXCEPT ![c] = "opTx"]
  /\ UNCHANGED <<up, table, queue, req, expected, folded, attempts, answer, budget>>

\* MUTANT of OnceCommit: the claim is not read again inside the transaction.
OnceCommitUnchecked(c) ==
  /\ pc[c] = "opTx"
  /\ \E s \in Stream :
       LET batch == BatchOf(gate[s], 1, c)
       IN  /\ InsertRows(s, 1, None, c)
           /\ opClaims' = [opClaims EXCEPT ![req[c].key] =
                             [digest |-> req[c].digest, stream |-> s, batch |-> batch]]
           /\ Return(c, "hook", "committed", batch)
  /\ UNCHANGED <<up, claims, queue, req, expected, folded, attempts, budget>>

\* The closure runs under the write lock.  It picks the stream, and passes the
\* tail it read there as expectedSequence or passes none.
OnceCommit(c) ==
  /\ pc[c] = "opTx"
  /\ opClaims[req[c].key] = None
  /\ \E s \in Stream, n \in 1 .. MaxBatch : \E e \in {None, TailSeq(log[s])} :
       LET batch == BatchOf(gate[s], n, c)
       IN  /\ e \in {None, gate[s]}
           /\ expected' = [expected EXCEPT ![c] = e]
           /\ InsertRows(s, n, None, c)
           /\ opClaims' = [opClaims EXCEPT ![req[c].key] =
                             [digest |-> req[c].digest, stream |-> s, batch |-> batch]]
           /\ Return(c, "hook", "committed", batch)
  /\ UNCHANGED <<up, claims, queue, req, folded, attempts, budget>>

\* The closure throws, or the gate refuses the tail it passed: rolled back.
OnceRefused(c) ==
  /\ pc[c] = "opTx"
  /\ opClaims[req[c].key] = None
  /\ \/ Return(c, "done", "thrown", None)
     \/ /\ \E s \in Stream : TailSeq(log[s]) # gate[s]
        /\ Return(c, "done", "sequence-conflict", None)
  /\ UNCHANGED <<up, table, queue, req, expected, folded, attempts, budget>>

(***************************************************************************)
(* The environment.                                                         *)
(***************************************************************************)
InFlight(c) == pc[c] \notin {"idle", "done", "lost"}

\* A process dies: its promise chains and its calls go, the tables stay.
Crash(p) ==
  /\ up[p]
  /\ budget.crashes > 0
  /\ budget' = [budget EXCEPT !.crashes = @ - 1]
  /\ up' = [up EXCEPT ![p] = FALSE]
  /\ queue' = [queue EXCEPT ![p] = [s \in Stream |-> <<>>]]
  /\ pc' = [c \in Call |-> IF InFlight(c) /\ req[c].proc = p THEN "lost" ELSE pc[c]]
  /\ UNCHANGED <<table, req, expected, folded, attempts, answer>>

\* MUTANT of DeleteStream: the gate and the claims go, the rows stay.
DeleteStreamKeepsRows(s) ==
  /\ \E p \in Proc : up[p]
  /\ budget.deletes > 0
  /\ budget' = [budget EXCEPT !.deletes = @ - 1]
  /\ gate' = [gate EXCEPT ![s] = 0]
  /\ claims' = [claims EXCEPT ![s] = [k \in Key |-> None]]
  /\ UNCHANGED <<up, log, opClaims, queue, call>>

\* deleteStream, by workflow compaction: the claims of the stream go with its
\* rows and its gate.  Operation claims sit under a reserved stream and stay.
DeleteStream(s) ==
  /\ \E p \in Proc : up[p]
  /\ budget.deletes > 0
  /\ budget' = [budget EXCEPT !.deletes = @ - 1]
  /\ log' = [log EXCEPT ![s] = <<>>]
  /\ gate' = [gate EXCEPT ![s] = 0]
  /\ claims' = [claims EXCEPT ![s] = [k \in Key |-> None]]
  /\ UNCHANGED <<up, opClaims, queue, call>>

\* pruneEvents removes the rows before a timestamp, which may be any of them, because
\* timestamps may go back; neither the gate nor a claim moves.
PruneEvents(s) ==
  /\ \E p \in Proc : up[p]
  /\ budget.prunes > 0
  /\ budget' = [budget EXCEPT !.prunes = @ - 1]
  /\ \E n \in 0 .. Len(log[s]) - 1 : \E kept \in [1 .. n -> 1 .. Len(log[s])] :
       /\ \A i, j \in 1 .. n : i < j => kept[i] < kept[j]
       /\ log' = [log EXCEPT ![s] = [i \in 1 .. n |-> log[s][kept[i]]]]
  /\ UNCHANGED <<up, gate, claims, opClaims, queue, call>>

-----------------------------------------------------------------------------

\* The steps of a call under the lock, and the hook after it.
LockedStep(c) ==
  \/ LookupHit(c) \/ LookupMiss(c)
  \/ Busy(c) \/ BusyExhausted(c)
  \/ GateConflict(c) \/ ClaimClash(c) \/ Relookup(c) \/ Commit(c)
  \/ IoError(c) \/ NotifyCommit(c)

OnceStep(c) == OnceStored(c) \/ OnceMiss(c) \/ OnceCommit(c) \/ OnceRefused(c)

ClosureStep(c) == Decided(c) \/ DecidedNothing(c) \/ ClosureThrows(c)

\* Every call has ended: nothing is left to do.
Finished ==
  /\ \A c \in Call : pc[c] \in {"done", "lost"}
  /\ UNCHANGED vars

Next ==
  \/ \E p \in Proc : Open(p) \/ Crash(p)
  \/ \E c \in Call : Invoke(c) \/ Fold(c) \/ InvokeOnce(c)
  \/ \E c \in Call : ClosureStep(c) \/ LockedStep(c) \/ OnceStep(c)
  \/ \E s \in Stream : DeleteStream(s) \/ PruneEvents(s)
  \/ Finished

Spec == Init /\ [][Next]_vars

(***************************************************************************)
(* A live process runs the microtasks it queued.  Nothing is assumed of a   *)
(* decide closure, which is caller code, nor of the clients.                *)
(***************************************************************************)
Fairness == \A c \in Call : WF_vars(LockedStep(c) \/ OnceStep(c))

FairSpec == Spec /\ Fairness

(***************************************************************************)
(* Properties.                                                              *)
(***************************************************************************)

Ok(c) == answer[c] # None /\ answer[c].batch # None

\* The stream an answered call wrote to.
Target(c) == IF req[c].kind = "once" THEN opClaims[req[c].key].stream ELSE req[c].stream

\* The row at sequence q of stream s was minted by call c.
Minted(s, q, c) == \E i \in 1 .. Len(log[s]) : log[s][i].seq = q /\ log[s][i].by = c

\* Once a process is open, no gate is below a stored sequence, so the next
\* append never reuses a sequence: the repair of initialize, the transaction
\* of every writer and deleteStream keep it together.
GateCoversLog ==
  (\E p \in Proc : up[p]) =>
    \A s \in Stream : \A i \in 1 .. Len(log[s]) : log[s][i].seq <= gate[s]

\* The sequences of a stream strictly ascend in commit order: two processes, a
\* legacy gate, a rollback, a deletion or a prune never make two rows collide.
SequencesAscend ==
  \A s \in Stream : \A i, j \in 1 .. Len(log[s]) : i < j => log[s][i].seq < log[s][j].seq

\* However many callers, processes, busy retries and crashes repeat a key, the
\* rows stored under it come from one call.
KeyCommittedOnce ==
  \A s \in Stream : \A i, j \in 1 .. Len(log[s]) :
    log[s][i].key = log[s][j].key /\ log[s][i].key # None => log[s][i].by = log[s][j].by

\* The rows of decideOnce calls of one operation id come from one call, whatever
\* streams their closures pick.
OperationDecidedOnce ==
  \A s, t \in Stream : \A i \in 1 .. Len(log[s]), j \in 1 .. Len(log[t]) :
    LET a == log[s][i].by
        b == log[t][j].by
    IN  (/\ a # None /\ req[a].kind = "once"
         /\ b # None /\ req[b].kind = "once"
         /\ req[a].key = req[b].key) => a = b

\* No stream was deleted and none pruned.
Whole == budget.deletes = MaxDeletes /\ budget.prunes = MaxPrunes

\* Without a deletion, every batch a caller was told of (fresh or replayed) is
\* in the stream in full, at the sequences the answer names.
AnswersDurable ==
  \A c \in Call : Whole /\ Ok(c) =>
    \A q \in answer[c].batch.first .. answer[c].batch.last :
      Minted(Target(c), q, answer[c].batch.by)

\* A decideOnce caller only ever gets the result of its own request digest.
DigestsAgree ==
  \A a, b \in Call : (/\ Ok(a) /\ req[a].kind = "once"
                      /\ Ok(b) /\ req[b].kind = "once"
                      /\ req[a].key = req[b].key)
                     => /\ req[a].digest = req[b].digest
                        /\ answer[a].batch = answer[b].batch

\* Without a deletion, a decision commits on exactly the stream its closure
\* folded: the rows it saw, then its own, nothing between.
DecisionsSerialized ==
  \A c \in Call :
    Whole /\ Ok(c) /\ req[c].kind = "decide" /\ answer[c].kind = "committed" =>
      LET seen == folded[c]
          rows == log[req[c].stream]
      IN  /\ Len(rows) > Len(seen)
          /\ SubSeq(rows, 1, Len(seen)) = seen
          /\ rows[Len(seen) + 1].by = c

\* Without a deletion, the gate equals the tail of every stream that this code
\* wrote: no conflict, clash or rollback leaks a sequence.  A gate above the
\* tail would refuse every decide from then on.
GateIsTail ==
  \A s \in Stream :
    (Whole /\ \E i \in 1 .. Len(log[s]) : log[s][i].by # None) => gate[s] = TailSeq(log[s])

\* A call on the promise chain ends, unless its process dies: every way out of
\* appendSqliteLocked releases the lock and the busy budget is finite.
WaitersServed ==
  \A c \in Call : pc[c] = "waiting" ~> pc[c] \in {"done", "lost"}
=============================================================================
