------------------------ MODULE AtomicAppender_proof ------------------------
(* Safety of AtomicAppender for every value of its constants. *)
EXTENDS AtomicAppender, SequenceTheorems, TLAPS

USE BoundsAssumption, NoneAssumption, KindsAssumption
    DEF BoundsAssumption, NoneAssumption, KindsAssumption

(***************************************************************************)
(* The arguments of a call that runs.                                       *)
(***************************************************************************)
Running(c) ==
  pc[c] # "idle" => req[c] \in Request

Appending(c) ==
  pc[c] \in {"folded", "waiting", "tx", "clash"} =>
    req[c].kind # "once" /\ req[c].stream \in Stream

Ready(c) == pc[c] \in {"waiting", "tx", "clash"} => req[c].n # 0

Deciding(c) ==
  pc[c] \in {"opLookup", "opTx"} =>
    req[c].kind = "once" /\ req[c].key \in Key /\ req[c].digest \in Digest

RequestInv == \A c \in Call : Running(c) /\ Appending(c) /\ Ready(c) /\ Deciding(c)

\* A call between its lookup and its answer is at the head of its promise chain.
LockInv == \A c \in Call : pc[c] \in {"tx", "clash"} => Holds(c)

ControlInv == TypeOK /\ RequestInv /\ LockInv

LEMMA InitControl == Init => ControlInv
<1> SUFFICES ASSUME Init PROVE ControlInv
  OBVIOUS
<1>1. TypeOK
  BY DEF Init, TypeOK, LegacyRows, Row, Place
<1>2. RequestInv
  BY DEF Init, RequestInv, Running, Appending, Ready, Deciding
<1>3. LockInv
  BY DEF Init, LockInv
<1> QED
  BY <1>1, <1>2, <1>3 DEF ControlInv

(***************************************************************************)
(* The promise chains.                                                      *)
(***************************************************************************)
LEMMA AppendKeepsHead ==
  ASSUME NEW S, NEW q \in Seq(S), NEW x \in S, q # <<>>
  PROVE  Append(q, x) # <<>> /\ Head(Append(q, x)) = Head(q)
  OBVIOUS

LEMMA HolderStays ==
  ASSUME NEW d \in Call, Holds(d), req'[d] = req[d], queue' = queue
  PROVE  Holds(d)'
  BY DEF Holds

\* A call joins one queue; every queue stays a sequence of calls.
LEMMA EnqueueTyped ==
  ASSUME queue \in [Proc -> [Stream -> Seq(Call)]],
         NEW c \in Call, NEW p \in Proc, NEW s \in Stream, Enqueue(c, p, s)
  PROVE  queue' \in [Proc -> [Stream -> Seq(Call)]]
<1>1. Append(queue[p][s], c) \in Seq(Call)
  OBVIOUS
<1>2. [queue[p] EXCEPT ![s] = Append(queue[p][s], c)] \in [Stream -> Seq(Call)]
  BY <1>1
<1>3. queue' = [queue EXCEPT ![p] = [queue[p] EXCEPT ![s] = Append(queue[p][s], c)]]
  BY DEF Enqueue
<1> QED
  BY <1>2, <1>3

LEMMA EnqueueKeepsHolder ==
  ASSUME TypeOK, NEW c \in Call, NEW p \in Proc, NEW s \in Stream, Enqueue(c, p, s),
         NEW d \in Call, Holds(d), req'[d] = req[d],
         req[d] \in Request, req[d].stream \in Stream
  PROVE  Holds(d)'
<1> DEFINE a == req[d].proc
           b == req[d].stream
<1>1. a \in Proc /\ b \in Stream
  BY DEF Request
<1>2. queue[a][b] \in Seq(Call) /\ queue[a][b] # <<>> /\ Head(queue[a][b]) = d
  BY <1>1 DEF TypeOK, Holds
<1>3. queue'[a][b] = queue[a][b] \/ queue'[a][b] = Append(queue[a][b], c)
  BY <1>1 DEF TypeOK, Enqueue
<1> DEFINE old == queue[a][b]
           new == queue'[a][b]
<1> HIDE DEF old, new
<1>4. new # <<>> /\ Head(new) = d
  <2>1. old \in Seq(Call) /\ old # <<>> /\ Head(old) = d
    BY <1>2 DEF old
  <2>2. CASE new = old
    BY <2>1, <2>2
  <2>3. CASE new = Append(old, c)
    <3>1. Append(old, c) # <<>> /\ Head(Append(old, c)) = Head(old)
      BY <2>1, AppendKeepsHead
    <3> QED BY <2>1, <2>3, <3>1
  <2> QED BY <1>3, <2>2, <2>3 DEF old, new
<1> QED
  BY <1>4 DEF Holds, new

\* Two holders of one promise chain are one call, so a release disturbs no other.
LEMMA ReleaseKeepsHolder ==
  ASSUME TypeOK, NEW c \in Call, Holds(c), Release(c),
         req[c] \in Request, req[c].stream \in Stream,
         NEW d \in Call, Holds(d), d # c, req'[d] = req[d],
         req[d] \in Request, req[d].stream \in Stream
  PROVE  Holds(d)'
<1> DEFINE a == req[d].proc
           b == req[d].stream
<1>1. a \in Proc /\ b \in Stream /\ req[c].proc \in Proc
  BY DEF Request
<1>2. ~ (a = req[c].proc /\ b = req[c].stream)
  BY DEF Holds
<1>3. queue'[a][b] = queue[a][b]
  BY <1>1, <1>2 DEF TypeOK, Release
<1> QED
  BY <1>3 DEF Holds

LEMMA ReleaseTypes ==
  ASSUME TypeOK, NEW c \in Call, Holds(c), Release(c),
         req[c] \in Request, req[c].stream \in Stream
  PROVE  queue' \in [Proc -> [Stream -> Seq(Call)]]
<1> DEFINE a == req[c].proc
           b == req[c].stream
<1>1. a \in Proc /\ b \in Stream
  BY DEF Request
<1>2. queue[a][b] \in Seq(Call) /\ queue[a][b] # <<>>
  BY <1>1 DEF TypeOK, Holds
<1>3. Tail(queue[a][b]) \in Seq(Call)
  BY <1>2
<1> QED
  BY <1>1, <1>3 DEF TypeOK, Release

LEMMA TailSeqType ==
  ASSUME NEW rows \in Seq(Row)
  PROVE  TailSeq(rows) \in Nat
<1>1. CASE rows = <<>>
  BY <1>1 DEF TailSeq
<1>2. CASE rows # <<>>
  <2>1. Len(rows) \in 1 .. Len(rows)
    BY <1>2
  <2>2. rows[Len(rows)] \in Row
    BY <2>1
  <2> QED BY <1>2, <2>2 DEF TailSeq, Row
<1> QED BY <1>1, <1>2

(***************************************************************************)
(* The entries: a call starts, or joins a promise chain.                    *)
(***************************************************************************)
LEMMA EnterControl ==
  ASSUME ControlInv, NEW c \in Call,
         Invoke(c) \/ Fold(c) \/ InvokeOnce(c) \/ Decided(c)
  PROVE  ControlInv'
<1> USE DEF ControlInv
<1>1. CASE Invoke(c)
  <2>p. PICK p \in Proc, s \in Stream, k \in Key \cup {None}, n \in 1 .. MaxBatch,
             kind \in Kinds :
          /\ kind # "once"
          /\ req' = [req EXCEPT ![c] = [proc |-> p, stream |-> s, kind |-> kind,
                                        key |-> k, n |-> n, digest |-> None]]
          /\ Enqueue(c, p, s)
    BY <1>1 DEF Invoke
  <2>r. /\ [proc |-> p, stream |-> s, kind |-> kind, key |-> k, n |-> n, digest |-> None]
             \in Request
        /\ n # 0
    BY DEF Request
  <2>1. TypeOK'
    <3>1. req' \in [Call -> Request \cup {None}]
      BY <2>p, <2>r DEF TypeOK
    <3>2. queue' \in [Proc -> [Stream -> Seq(Call)]]
      BY <2>p DEF TypeOK, Enqueue
    <3>3. pc' \in [Call -> Place]
      BY <1>1 DEF TypeOK, Invoke, Place
    <3> QED BY <1>1, <3>1, <3>2, <3>3 DEF TypeOK, Invoke, table
  <2>2. RequestInv'
    <3> SUFFICES ASSUME NEW d \in Call
                 PROVE  (Running(d) /\ Appending(d) /\ Ready(d) /\ Deciding(d))'
      BY DEF RequestInv
    <3>1. CASE d = c
      <4>1. /\ req'[c] = [proc |-> p, stream |-> s, kind |-> kind, key |-> k, n |-> n,
                          digest |-> None]
            /\ pc'[c] = "waiting"
        BY <1>1, <2>p DEF TypeOK, Invoke
      <4> QED BY <2>p, <2>r, <3>1, <4>1 DEF Running, Appending, Ready, Deciding
    <3>2. CASE d # c
      <4>1. pc'[d] = pc[d] /\ req'[d] = req[d]
        BY <1>1, <2>p, <3>2 DEF TypeOK, Invoke
      <4> QED BY <4>1 DEF RequestInv, Running, Appending, Ready, Deciding
    <3> QED BY <3>1, <3>2
  <2>3. ASSUME NEW d \in Call, pc'[d] \in {"tx", "clash"} PROVE Holds(d)'
    <3>1. d # c /\ pc[d] = pc'[d] /\ req'[d] = req[d]
      BY <1>1, <2>3 DEF TypeOK, Invoke
    <3>2. Holds(d) /\ req[d] \in Request /\ req[d].stream \in Stream
      BY <2>3, <3>1 DEF LockInv, RequestInv, Running, Appending
    <3> QED BY <2>p, <3>1, <3>2, EnqueueKeepsHolder
  <2> QED BY <2>1, <2>2, <2>3 DEF LockInv
<1>2. CASE Fold(c)
  <2>1. TypeOK'
    <3>1. PICK p \in Proc, s \in Stream, k \in Key \cup {None} :
            /\ req' = [req EXCEPT ![c] = [proc |-> p, stream |-> s, kind |-> "decide",
                                          key |-> k, n |-> 0, digest |-> None]]
            /\ folded' = [folded EXCEPT ![c] = log[s]]
            /\ expected' = [expected EXCEPT ![c] = TailSeq(log[s])]
      BY <1>2 DEF Fold
    <3>2. log[s] \in Seq(Row) /\ TailSeq(log[s]) \in Nat
      BY TailSeqType DEF TypeOK
    <3>3. req' \in [Call -> Request \cup {None}]
      BY <1>2, <3>1 DEF TypeOK, Fold, Request
    <3>4. folded' \in [Call -> Seq(Row)] /\ expected' \in [Call -> Nat \cup {None}]
      BY <3>1, <3>2 DEF TypeOK
    <3>5. pc' \in [Call -> Place]
      BY <1>2 DEF TypeOK, Fold, Place
    <3> QED BY <1>2, <3>3, <3>4, <3>5 DEF TypeOK, Fold, table
  <2>2. RequestInv'
    BY <1>2 DEF TypeOK, RequestInv, Running, Appending, Ready, Deciding, Fold, table, Request
  <2>3. LockInv'
    BY <1>2, HolderStays DEF TypeOK, LockInv, Fold
  <2> QED BY <2>1, <2>2, <2>3
<1>3. CASE InvokeOnce(c)
  <2>1. TypeOK'
    BY <1>3 DEF TypeOK, InvokeOnce, table, Request, Place
  <2>2. RequestInv'
    BY <1>3 DEF TypeOK, RequestInv, Running, Appending, Ready, Deciding, InvokeOnce, table, Request
  <2>3. LockInv'
    BY <1>3, HolderStays DEF TypeOK, LockInv, InvokeOnce
  <2> QED BY <2>1, <2>2, <2>3
<1>4. CASE Decided(c)
  <2>0. req[c] \in Request /\ req[c].stream \in Stream /\ req[c].proc \in Proc
        /\ req[c].kind # "once"
    BY <1>4 DEF RequestInv, Running, Appending, Decided, Request
  <2>a. PICK n \in 1 .. MaxBatch : req' = [req EXCEPT ![c].n = n]
    BY <1>4 DEF Decided
  <2>b. /\ req'[c] \in Request
        /\ req'[c].stream = req[c].stream /\ req'[c].kind = req[c].kind /\ req'[c].n = n
    <3>1. req'[c] = [req[c] EXCEPT !.n = n]
      BY <2>a DEF TypeOK
    <3>2. n \in 0 .. MaxBatch
      OBVIOUS
    <3> QED BY <2>0, <3>1, <3>2 DEF Request
  <2>c. \A d \in Call : d # c => req'[d] = req[d]
    BY <2>a DEF TypeOK
  <2>d. req' \in [Call -> Request \cup {None}]
    <3>1. req' = [d \in Call |-> req'[d]]
      BY <2>a DEF TypeOK
    <3>2. \A d \in Call : req'[d] \in Request \cup {None}
      BY <2>b, <2>c DEF TypeOK
    <3> QED BY <3>1, <3>2
  <2>e. queue' \in [Proc -> [Stream -> Seq(Call)]]
    BY <1>4, <2>0, EnqueueTyped DEF TypeOK, Decided
  <2>f. pc' \in [Call -> Place]
    BY <1>4 DEF TypeOK, Decided, Place
  <2>1. TypeOK'
    BY <1>4, <2>d, <2>e, <2>f DEF TypeOK, Decided, table
  <2>2. RequestInv'
    <3> SUFFICES ASSUME NEW d \in Call
                 PROVE  (Running(d) /\ Appending(d) /\ Ready(d) /\ Deciding(d))'
      BY DEF RequestInv
    <3>1. CASE d = c
      BY <1>4, <2>0, <2>a, <2>b, <3>1 DEF TypeOK, Running, Appending, Ready, Deciding, Decided
    <3>2. CASE d # c
      <4>1. pc'[d] = pc[d] /\ req'[d] = req[d]
        BY <1>4, <2>c, <3>2 DEF TypeOK, Decided
      <4> QED BY <4>1 DEF RequestInv, Running, Appending, Ready, Deciding
    <3> QED BY <3>1, <3>2
  <2>3. ASSUME NEW d \in Call, pc'[d] \in {"tx", "clash"} PROVE Holds(d)'
    <3>1. d # c /\ pc[d] = pc'[d] /\ req'[d] = req[d]
      BY <1>4, <2>3 DEF TypeOK, Decided
    <3>2. Holds(d) /\ req[d] \in Request /\ req[d].stream \in Stream
      BY <2>3, <3>1 DEF LockInv, RequestInv, Running, Appending
    <3>3. Enqueue(c, req[c].proc, req[c].stream)
      BY <1>4 DEF Decided
    <3> QED BY <2>0, <3>1, <3>2, <3>3, EnqueueKeepsHolder
  <2> QED BY <2>1, <2>2, <2>3 DEF LockInv
<1> QED BY <1>1, <1>2, <1>3, <1>4

(***************************************************************************)
(* What the remaining steps share: req stays, and one call moves.           *)
(***************************************************************************)
Moves(c, x) == pc' = [pc EXCEPT ![c] = x] /\ req' = req

LEMMA EndKeepsRequest ==
  ASSUME TypeOK, RequestInv, NEW c \in Call, NEW x \in {"done", "hook"},
         Moves(c, x), pc[c] # "idle"
  PROVE  RequestInv'
<1> SUFFICES ASSUME NEW d \in Call
             PROVE  (Running(d) /\ Appending(d) /\ Ready(d) /\ Deciding(d))'
  BY DEF RequestInv
<1>1. pc'[d] = pc[d] \/ (d = c /\ pc'[d] = x)
  BY DEF Moves, TypeOK
<1> QED
  BY <1>1 DEF Moves, RequestInv, Running, Appending, Ready, Deciding

LEMMA QuietKeepsLock ==
  ASSUME TypeOK, LockInv, NEW c \in Call, NEW x, Moves(c, x), queue' = queue,
         x \in {"tx", "clash"} => Holds(c)
  PROVE  LockInv'
<1> SUFFICES ASSUME NEW d \in Call, pc'[d] \in {"tx", "clash"}
             PROVE  Holds(d)'
  BY DEF LockInv
<1>1. Holds(d)
  BY DEF Moves, TypeOK, LockInv
<1> QED
  BY <1>1, HolderStays DEF Moves

LEMMA ReleaseKeepsLock ==
  ASSUME ControlInv, NEW c \in Call, NEW x \in {"done", "hook"}, Moves(c, x),
         pc[c] \in {"waiting", "tx", "clash"}, Holds(c), Release(c)
  PROVE  LockInv' /\ queue' \in [Proc -> [Stream -> Seq(Call)]]
<1>1. req[c] \in Request /\ req[c].stream \in Stream
  BY DEF ControlInv, RequestInv, Running, Appending
<1>2. ASSUME NEW d \in Call, pc'[d] \in {"tx", "clash"} PROVE Holds(d)'
  <2>1. d # c /\ pc[d] = pc'[d]
    BY <1>2 DEF Moves, ControlInv, TypeOK
  <2>2. Holds(d) /\ req[d] \in Request /\ req[d].stream \in Stream
    BY <1>2, <2>1 DEF ControlInv, LockInv, RequestInv, Running, Appending
  <2>3. req'[d] = req[d]
    BY DEF Moves
  <2> QED
    BY <1>1, <2>1, <2>2, <2>3, ReleaseKeepsHolder DEF ControlInv
<1> QED
  BY <1>1, <1>2, ReleaseTypes DEF LockInv, ControlInv

LEMMA PlaceTypes ==
  ASSUME TypeOK, NEW c \in Call, NEW x \in Place, pc' = [pc EXCEPT ![c] = x]
  PROVE  pc' \in [Call -> Place]
  BY DEF TypeOK

LEMMA AnswerTypes ==
  ASSUME TypeOK, NEW c \in Call, NEW x, NEW kind \in Outcome, NEW b \in Batch \cup {None},
         Return(c, x, kind, b)
  PROVE  answer' \in [Call -> Answer \cup {None}]
  BY DEF TypeOK, Return, Answer

LEMMA AttemptTypes ==
  ASSUME TypeOK, NEW c \in Call, attempts' = [attempts EXCEPT ![c] = MaxAttempts]
  PROVE  attempts' \in [Call -> 0 .. MaxAttempts]
<1>1. MaxAttempts \in 0 .. MaxAttempts
  OBVIOUS
<1>2. attempts \in [Call -> 0 .. MaxAttempts]
  BY DEF TypeOK
<1> QED
  BY <1>1, <1>2

LEMMA BudgetTypes ==
  ASSUME TypeOK,
         \/ budget' = [budget EXCEPT !.crashes = @ - 1] /\ budget.crashes > 0
         \/ budget' = [budget EXCEPT !.deletes = @ - 1] /\ budget.deletes > 0
         \/ budget' = [budget EXCEPT !.prunes = @ - 1] /\ budget.prunes > 0
  PROVE  budget' \in [crashes : 0 .. MaxCrashes, deletes : 0 .. MaxDeletes, prunes : 0 .. MaxPrunes]
<1>1. budget \in [crashes : 0 .. MaxCrashes, deletes : 0 .. MaxDeletes, prunes : 0 .. MaxPrunes]
  BY DEF TypeOK
<1> QED
  BY <1>1

LEMMA ClaimTypes ==
  ASSUME ControlInv, NEW c \in Call, pc[c] \in {"waiting", "tx", "clash"}
  PROVE  ClaimOf(c) \in Batch \cup {None}
<1>1. req[c] \in Request /\ req[c].stream \in Stream
  BY DEF ControlInv, RequestInv, Running, Appending
<1>2. req[c].key \in Key \cup {None}
  BY <1>1 DEF Request
<1> QED
  BY <1>1, <1>2 DEF ClaimOf, ControlInv, TypeOK

LEMMA BatchTypes ==
  ASSUME NEW base \in Nat, NEW n \in Nat \ {0}, NEW c \in Call, NEW k \in Key \cup {None}
  PROVE  /\ BatchOf(base, n, c) \in Batch
         /\ BatchRows(base, n, k, c) \in Seq(Row)
         /\ Len(BatchRows(base, n, k, c)) = n
         /\ \A i \in 1 .. n :
              BatchRows(base, n, k, c)[i] = [seq |-> base + i, key |-> k, by |-> c]
<1>1. BatchOf(base, n, c) \in Batch
  BY DEF BatchOf, Batch
<1>2. \A i \in 1 .. n : [seq |-> base + i, key |-> k, by |-> c] \in Row
  BY DEF Row
<1>3. BatchRows(base, n, k, c) \in [1 .. n -> Row]
  BY <1>2 DEF BatchRows
<1>4. BatchRows(base, n, k, c) \in Seq(Row)
  BY <1>3, SeqDef
<1>5. DOMAIN BatchRows(base, n, k, c) = 1 .. n
  BY DEF BatchRows
<1> QED
  BY <1>1, <1>4, <1>5, LenProperties DEF BatchRows

LEMMA InsertTypes ==
  ASSUME TypeOK, NEW s \in Stream, NEW n \in Nat \ {0}, NEW k \in Key \cup {None},
         NEW c \in Call, InsertRows(s, n, k, c)
  PROVE  log' \in [Stream -> Seq(Row)] /\ gate' \in [Stream -> Nat]
<1>1. gate[s] \in Nat /\ log[s] \in Seq(Row)
  BY DEF TypeOK
<1>2. log[s] \o BatchRows(gate[s], n, k, c) \in Seq(Row)
  BY <1>1, BatchTypes, ConcatProperties
<1> QED
  BY <1>1, <1>2 DEF TypeOK, InsertRows

(***************************************************************************)
(* The steps of a running call.                                             *)
(***************************************************************************)
LEMMA QuietControl ==
  ASSUME ControlInv, NEW c \in Call,
         \/ LookupMiss(c) \/ Busy(c) \/ ClaimClash(c) \/ NotifyCommit(c)
         \/ OnceMiss(c)
  PROVE  ControlInv'
<1> USE DEF ControlInv
<1>1. CASE LookupMiss(c)
  <2>1. Moves(c, "tx") /\ queue' = queue /\ Holds(c)
    BY <1>1 DEF LookupMiss, Moves
  <2>2. pc' \in [Call -> Place]
    BY <2>1, PlaceTypes DEF Moves, Place
  <2>3. TypeOK'
    BY <1>1, <2>2 DEF TypeOK, LookupMiss, table
  <2>4. RequestInv'
    BY <1>1 DEF TypeOK, RequestInv, Running, Appending, Ready, Deciding, LookupMiss
  <2> QED BY <2>1, <2>3, <2>4, QuietKeepsLock
<1>2. CASE Busy(c)
  <2>1. attempts' \in [Call -> 0 .. MaxAttempts]
    BY <1>2 DEF TypeOK, Busy
  <2>2. TypeOK'
    BY <1>2, <2>1 DEF TypeOK, Busy, table
  <2>3. RequestInv'
    BY <1>2 DEF RequestInv, Running, Appending, Ready, Deciding, Busy
  <2>4. LockInv'
    BY <1>2, HolderStays DEF LockInv, Busy
  <2> QED BY <2>2, <2>3, <2>4
<1>3. CASE ClaimClash(c)
  <2>1. Moves(c, "clash") /\ queue' = queue /\ Holds(c)
    BY <1>3 DEF ClaimClash, Moves, LockInv
  <2>2. pc' \in [Call -> Place]
    BY <2>1, PlaceTypes DEF Moves, Place
  <2>3. TypeOK'
    BY <1>3, <2>2 DEF TypeOK, ClaimClash, table
  <2>4. RequestInv'
    BY <1>3 DEF TypeOK, RequestInv, Running, Appending, Ready, Deciding, ClaimClash
  <2> QED BY <2>1, <2>3, <2>4, QuietKeepsLock
<1>4. CASE NotifyCommit(c)
  <2>1. Moves(c, "done") /\ queue' = queue /\ pc[c] # "idle"
    BY <1>4 DEF NotifyCommit, Moves
  <2>2. pc' \in [Call -> Place]
    BY <2>1, PlaceTypes DEF Moves, Place
  <2>3. TypeOK'
    BY <1>4, <2>2 DEF TypeOK, NotifyCommit, table
  <2> QED BY <2>1, <2>3, QuietKeepsLock, EndKeepsRequest
<1>5. CASE OnceMiss(c)
  <2>1. Moves(c, "opTx") /\ queue' = queue
    BY <1>5 DEF OnceMiss, Moves
  <2>2. pc' \in [Call -> Place]
    BY <2>1, PlaceTypes DEF Moves, Place
  <2>3. TypeOK'
    BY <1>5, <2>2 DEF TypeOK, OnceMiss, table
  <2>4. RequestInv'
    BY <1>5 DEF TypeOK, RequestInv, Running, Appending, Ready, Deciding, OnceMiss
  <2> QED BY <2>1, <2>3, <2>4, QuietKeepsLock
<1> QED BY <1>1, <1>2, <1>3, <1>4, <1>5

\* A call ends without the stream lock.
LEMMA EndControl ==
  ASSUME ControlInv, NEW c \in Call,
         DecidedNothing(c) \/ ClosureThrows(c) \/ OnceStored(c) \/ OnceRefused(c)
  PROVE  ControlInv'
<1>1. /\ Moves(c, "done") /\ queue' = queue /\ pc[c] # "idle"
      /\ UNCHANGED <<up, table, expected, folded, attempts, budget>>
  BY DEF DecidedNothing, ClosureThrows, OnceStored, OnceRefused, Return, Moves
<1>2. PICK kind \in Outcome, b \in Batch \cup {None} : Return(c, "done", kind, b)
  <2>1. CASE DecidedNothing(c) \/ ClosureThrows(c) \/ OnceRefused(c)
    BY <2>1 DEF DecidedNothing, ClosureThrows, OnceRefused, Outcome
  <2>2. CASE OnceStored(c)
    <3>1. req[c].key \in Key
      BY <2>2 DEF OnceStored, ControlInv, RequestInv, Deciding
    <3>2. opClaims[req[c].key] \in OpClaim
      BY <2>2, <3>1 DEF OnceStored, ControlInv, TypeOK
    <3>3. opClaims[req[c].key].batch \in Batch
      BY <3>2 DEF OpClaim
    <3> QED BY <2>2, <3>3 DEF OnceStored, Outcome
  <2> QED BY <2>1, <2>2
<1>3. answer' \in [Call -> Answer \cup {None}]
  BY <1>2, AnswerTypes DEF ControlInv
<1>4. pc' \in [Call -> Place]
  BY <1>1, PlaceTypes DEF Moves, Place, ControlInv
<1>5. TypeOK'
  BY <1>1, <1>3, <1>4 DEF TypeOK, ControlInv, table, Moves
<1> QED
  BY <1>1, <1>5, QuietKeepsLock, EndKeepsRequest DEF ControlInv

\* A holder of the stream lock ends without a write and releases it.
LEMMA GiveUpControl ==
  ASSUME ControlInv, NEW c \in Call,
         \/ LookupHit(c) \/ GateConflict(c) \/ Relookup(c)
         \/ pc[c] # "opTx" /\ BusyExhausted(c)
         \/ pc[c] \notin {"opLookup", "opTx"} /\ IoError(c)
  PROVE  ControlInv'
<1>1. /\ Moves(c, "done") /\ pc[c] \in {"waiting", "tx", "clash"} /\ Holds(c) /\ Release(c)
      /\ UNCHANGED <<up, table, expected, folded, budget>>
  BY DEF LookupHit, GateConflict, Relookup, BusyExhausted, IoError, Return, Moves,
         ControlInv, LockInv
<1>2. PICK kind \in Outcome, b \in Batch \cup {None} : Return(c, "done", kind, b)
  BY <1>1, ClaimTypes DEF LookupHit, GateConflict, Relookup, BusyExhausted, IoError, Outcome
<1>3. answer' \in [Call -> Answer \cup {None}]
  BY <1>2, AnswerTypes DEF ControlInv
<1>4. pc' \in [Call -> Place]
  BY <1>1, PlaceTypes DEF Moves, Place, ControlInv
<1>5. attempts' \in [Call -> 0 .. MaxAttempts]
  <2>1. attempts' = attempts \/ attempts' = [attempts EXCEPT ![c] = MaxAttempts]
    BY DEF LookupHit, GateConflict, Relookup, BusyExhausted, IoError
  <2>2. CASE attempts' = attempts
    BY <2>2 DEF ControlInv, TypeOK
  <2>3. CASE attempts' = [attempts EXCEPT ![c] = MaxAttempts]
    BY <2>3, AttemptTypes DEF ControlInv
  <2> QED BY <2>1, <2>2, <2>3
<1>6. queue' \in [Proc -> [Stream -> Seq(Call)]] /\ LockInv'
  BY <1>1, ReleaseKeepsLock
<1>7. TypeOK'
  BY <1>1, <1>3, <1>4, <1>5, <1>6 DEF TypeOK, ControlInv, table, Moves
<1> QED
  BY <1>1, <1>6, <1>7, EndKeepsRequest DEF ControlInv

\* A decideOnce call ends with a storage failure.
LEMMA OnceFailsControl ==
  ASSUME ControlInv, NEW c \in Call, pc[c] \in {"opLookup", "opTx"},
         BusyExhausted(c) \/ IoError(c)
  PROVE  ControlInv'
<1>1. /\ Moves(c, "done") /\ queue' = queue
      /\ UNCHANGED <<up, table, expected, folded, budget>>
  BY DEF BusyExhausted, IoError, Return, Moves
<1>2. PICK kind \in Outcome : Return(c, "done", kind, None)
  BY DEF BusyExhausted, IoError, Outcome
<1>3. answer' \in [Call -> Answer \cup {None}]
  BY <1>2, AnswerTypes DEF ControlInv
<1>4. pc' \in [Call -> Place]
  BY <1>1, PlaceTypes DEF Moves, Place, ControlInv
<1>5. attempts' \in [Call -> 0 .. MaxAttempts]
  <2>1. attempts' = attempts \/ attempts' = [attempts EXCEPT ![c] = MaxAttempts]
    BY DEF BusyExhausted, IoError
  <2>2. CASE attempts' = attempts
    BY <2>2 DEF ControlInv, TypeOK
  <2>3. CASE attempts' = [attempts EXCEPT ![c] = MaxAttempts]
    BY <2>3, AttemptTypes DEF ControlInv
  <2> QED BY <2>1, <2>2, <2>3
<1>6. TypeOK'
  BY <1>1, <1>3, <1>4, <1>5 DEF TypeOK, ControlInv, table, Moves
<1> QED
  BY <1>1, <1>6, QuietKeepsLock, EndKeepsRequest DEF ControlInv

LEMMA CommitControl ==
  ASSUME ControlInv, NEW c \in Call, Commit(c)
  PROVE  ControlInv'
<1> DEFINE s == req[c].stream
           k == req[c].key
           n == req[c].n
           batch == BatchOf(gate[s], n, c)
<1>1. /\ s \in Stream /\ k \in Key \cup {None} /\ n \in Nat \ {0} /\ gate[s] \in Nat
      /\ Holds(c) /\ pc[c] = "tx"
  BY DEF Commit, ControlInv, RequestInv, Running, Appending, Ready, Request, LockInv, TypeOK
<1>2. batch \in Batch
  BY <1>1, BatchTypes
<1>3. log' \in [Stream -> Seq(Row)] /\ gate' \in [Stream -> Nat]
  BY <1>1, InsertTypes DEF Commit, ControlInv
<1>4. claims' \in [Stream -> [Key -> Batch \cup {None}]]
  BY <1>1, <1>2 DEF Commit, ControlInv, TypeOK
<1>5. Moves(c, "hook") /\ Release(c) /\ Return(c, "hook", "committed", batch)
  BY DEF Commit, Moves, Return
<1>6. answer' \in [Call -> Answer \cup {None}]
  BY <1>2, <1>5, AnswerTypes DEF Outcome, ControlInv
<1>7. pc' \in [Call -> Place]
  BY <1>5, PlaceTypes DEF Moves, Place, ControlInv
<1>8. queue' \in [Proc -> [Stream -> Seq(Call)]] /\ LockInv'
  BY <1>1, <1>5, ReleaseKeepsLock
<1>9. TypeOK'
  <2>1. UNCHANGED <<up, opClaims, req, expected, folded, attempts, budget>>
    BY DEF Commit
  <2> QED BY <1>3, <1>4, <1>6, <1>7, <1>8, <2>1 DEF TypeOK, ControlInv
<1> QED
  BY <1>1, <1>5, <1>8, <1>9, EndKeepsRequest DEF ControlInv

LEMMA OnceCommitControl ==
  ASSUME ControlInv, NEW c \in Call, OnceCommit(c)
  PROVE  ControlInv'
<1>1. PICK s \in Stream, n \in 1 .. MaxBatch : \E e \in {None, TailSeq(log[s])} :
        /\ expected' = [expected EXCEPT ![c] = e]
        /\ InsertRows(s, n, None, c)
        /\ opClaims' = [opClaims EXCEPT ![req[c].key] =
                          [digest |-> req[c].digest, stream |-> s,
                           batch |-> BatchOf(gate[s], n, c)]]
        /\ Return(c, "hook", "committed", BatchOf(gate[s], n, c))
  BY DEF OnceCommit
<1>2. /\ gate[s] \in Nat /\ n \in Nat \ {0} /\ log[s] \in Seq(Row)
      /\ req[c].key \in Key /\ req[c].digest \in Digest
      /\ UNCHANGED <<up, claims, queue, req, folded, attempts, budget>> /\ pc[c] = "opTx"
  BY DEF OnceCommit, ControlInv, TypeOK, RequestInv, Deciding
<1>3. BatchOf(gate[s], n, c) \in Batch
  BY <1>2, BatchTypes
<1>4. log' \in [Stream -> Seq(Row)] /\ gate' \in [Stream -> Nat]
  BY <1>1, <1>2, InsertTypes DEF ControlInv
<1>5. opClaims' \in [Key -> OpClaim \cup {None}]
  BY <1>1, <1>2, <1>3 DEF ControlInv, TypeOK, OpClaim
<1>6. expected' \in [Call -> Nat \cup {None}]
  BY <1>1, <1>2, TailSeqType DEF ControlInv, TypeOK
<1>7. answer' \in [Call -> Answer \cup {None}]
  BY <1>1, <1>3, AnswerTypes DEF Outcome, ControlInv
<1>8. Moves(c, "hook")
  BY <1>1, <1>2 DEF Return, Moves
<1>9. pc' \in [Call -> Place]
  BY <1>8, PlaceTypes DEF Moves, Place, ControlInv
<1>10. TypeOK'
  BY <1>2, <1>4, <1>5, <1>6, <1>7, <1>9 DEF TypeOK, ControlInv
<1> QED
  BY <1>2, <1>8, <1>10, QuietKeepsLock, EndKeepsRequest DEF ControlInv

(***************************************************************************)
(* The environment.                                                         *)
(***************************************************************************)
LEMMA CrashControl ==
  ASSUME ControlInv, NEW p \in Proc, Crash(p)
  PROVE  ControlInv'
<1>1. pc' \in [Call -> Place] /\ req' = req
  BY DEF Crash, ControlInv, TypeOK, Place
<1>2. \A d \in Call : pc'[d] = pc[d] \/ (pc'[d] = "lost" /\ pc[d] # "idle")
  BY DEF Crash, InFlight
<1>3. TypeOK'
  <2>1. queue' \in [Proc -> [Stream -> Seq(Call)]]
    BY DEF Crash, ControlInv, TypeOK
  <2>2. budget' \in [crashes : 0 .. MaxCrashes, deletes : 0 .. MaxDeletes, prunes : 0 .. MaxPrunes]
    <3>1. budget' = [budget EXCEPT !.crashes = @ - 1] /\ budget.crashes > 0
      BY DEF Crash
    <3> QED BY <3>1, BudgetTypes DEF ControlInv
  <2>3. up' \in [Proc -> BOOLEAN]
    BY DEF Crash, ControlInv, TypeOK
  <2> QED BY <1>1, <2>1, <2>2, <2>3 DEF Crash, ControlInv, TypeOK, table
<1>4. RequestInv'
  BY <1>1, <1>2 DEF ControlInv, RequestInv, Running, Appending, Ready, Deciding
<1>5. LockInv'
  <2> SUFFICES ASSUME NEW d \in Call, pc'[d] \in {"tx", "clash"} PROVE Holds(d)'
    BY DEF LockInv
  <2>1. pc[d] = pc'[d] /\ Holds(d) /\ req[d] \in Request /\ req[d].proc # p
    BY <1>2 DEF Crash, InFlight, ControlInv, LockInv, RequestInv, Running
  <2>2. req[d].proc \in Proc
    BY <2>1 DEF Request
  <2>3. queue'[req[d].proc] = queue[req[d].proc]
    BY <2>1, <2>2 DEF Crash, ControlInv, TypeOK
  <2> QED BY <1>1, <2>1, <2>3 DEF Holds
<1> QED BY <1>3, <1>4, <1>5 DEF ControlInv

LEMMA TableControl ==
  ASSUME ControlInv,
         \/ \E p \in Proc : Open(p)
         \/ \E s \in Stream : DeleteStream(s) \/ PruneEvents(s)
         \/ UNCHANGED vars
  PROVE  ControlInv'
<1>1. UNCHANGED <<queue, call>>
  BY DEF Open, DeleteStream, PruneEvents, vars
<1>2. RequestInv' /\ LockInv'
  BY <1>1 DEF ControlInv, RequestInv, Running, Appending, Ready, Deciding, LockInv, Holds, call
<1>3. TypeOK'
  <2>1. ASSUME NEW p \in Proc, Open(p) PROVE TypeOK'
    <3>1. \A s \in Stream : TailSeq(log[s]) \in Nat
      BY TailSeqType DEF ControlInv, TypeOK
    <3>2. gate' \in [Stream -> Nat]
      BY <2>1, <3>1 DEF Open, ControlInv, TypeOK
    <3> QED BY <2>1, <3>2 DEF Open, ControlInv, TypeOK, call
  <2>2. ASSUME NEW s \in Stream, DeleteStream(s) PROVE TypeOK'
    <3>1. budget' \in [crashes : 0 .. MaxCrashes, deletes : 0 .. MaxDeletes, prunes : 0 .. MaxPrunes]
      <4>1. budget' = [budget EXCEPT !.deletes = @ - 1] /\ budget.deletes > 0
        BY <2>2 DEF DeleteStream
      <4> QED BY <4>1, BudgetTypes DEF ControlInv
    <3>2. log' \in [Stream -> Seq(Row)] /\ gate' \in [Stream -> Nat]
      BY <2>2 DEF DeleteStream, ControlInv, TypeOK
    <3>3. claims' \in [Stream -> [Key -> Batch \cup {None}]]
      BY <2>2 DEF DeleteStream, ControlInv, TypeOK
    <3> QED BY <2>2, <3>1, <3>2, <3>3 DEF DeleteStream, ControlInv, TypeOK, call
  <2>3. ASSUME NEW s \in Stream, PruneEvents(s) PROVE TypeOK'
    <3>1. budget' \in [crashes : 0 .. MaxCrashes, deletes : 0 .. MaxDeletes, prunes : 0 .. MaxPrunes]
      <4>1. budget' = [budget EXCEPT !.prunes = @ - 1] /\ budget.prunes > 0
        BY <2>3 DEF PruneEvents
      <4> QED BY <4>1, BudgetTypes DEF ControlInv
    <3>0. PICK n \in 0 .. Len(log[s]) - 1 : \E kept \in [1 .. n -> 1 .. Len(log[s])] :
            log' = [log EXCEPT ![s] = [i \in 1 .. n |-> log[s][kept[i]]]]
      BY <2>3 DEF PruneEvents
    <3>2. PICK kept \in [1 .. n -> 1 .. Len(log[s])] :
            log' = [log EXCEPT ![s] = [i \in 1 .. n |-> log[s][kept[i]]]]
      BY <3>0
    <3>3. log[s] \in Seq(Row) /\ Len(log[s]) \in Nat /\ n \in Nat
      BY DEF ControlInv, TypeOK
    <3>4. [i \in 1 .. n |-> log[s][kept[i]]] \in Seq(Row)
      <4>1. \A i \in 1 .. n : log[s][kept[i]] \in Row
        BY <3>3, ElementOfSeq
      <4> QED
        BY <3>3, <4>1
    <3>5. log' \in [Stream -> Seq(Row)]
      BY <3>2, <3>4 DEF ControlInv, TypeOK
    <3> QED BY <2>3, <3>1, <3>5 DEF PruneEvents, ControlInv, TypeOK, call
  <2>4. UNCHANGED vars => TypeOK'
    BY DEF vars, table, call, ControlInv, TypeOK
  <2> QED BY <2>1, <2>2, <2>3, <2>4
<1> QED BY <1>2, <1>3 DEF ControlInv

LEMMA NextControl == ControlInv /\ [Next]_vars => ControlInv'
<1> SUFFICES ASSUME ControlInv, [Next]_vars PROVE ControlInv'
  OBVIOUS
<1>1. ASSUME NEW c \in Call, BusyExhausted(c) \/ IoError(c) PROVE ControlInv'
  <2>1. CASE pc[c] \in {"opLookup", "opTx"}
    BY <1>1, <2>1, OnceFailsControl
  <2>2. CASE pc[c] \notin {"opLookup", "opTx"}
    BY <1>1, <2>2, GiveUpControl
  <2> QED BY <2>1, <2>2
<1> QED
  BY <1>1, EnterControl, QuietControl, EndControl, GiveUpControl, CommitControl,
     OnceCommitControl, CrashControl, TableControl
  DEF Next, ClosureStep, LockedStep, OnceStep, Finished

\* Every reachable state is well typed, and a call between its claim lookup and
\* its answer is the head of its promise chain (StreamLockManager).
THEOREM ControlSafety == Spec => [](TypeOK /\ LockInv)
<1>1. Spec => []ControlInv
  BY InitControl, NextControl, PTL DEF Spec
<1>2. ControlInv => TypeOK /\ LockInv
  BY DEF ControlInv
<1> QED
  BY <1>1, <1>2, PTL

(***************************************************************************)
(* The rows.  A call in flight belongs to a live process, so the gate       *)
(* covers the log when it commits.  A keyed row is backed by the claim of   *)
(* its key, and a row of decideOnce by the claim of its operation: the      *)
(* transaction that finds no claim finds no row either.                     *)
(***************************************************************************)
LiveInv == \A c \in Call : InFlight(c) => up[req[c].proc]

Covered == \A s \in Stream : \A i \in 1 .. Len(log[s]) : log[s][i].seq <= gate[s]

RowCallers ==
  \A s \in Stream : \A i \in 1 .. Len(log[s]) :
    log[s][i].by # None => pc[log[s][i].by] # "idle"

ClaimBacked ==
  \A s \in Stream : \A i \in 1 .. Len(log[s]) :
    log[s][i].key # None =>
      /\ claims[s][log[s][i].key] # None
      /\ claims[s][log[s][i].key].by = log[s][i].by

OpBacked ==
  \A s \in Stream : \A i \in 1 .. Len(log[s]) :
    log[s][i].by # None /\ req[log[s][i].by].kind = "once" =>
      /\ opClaims[req[log[s][i].by].key] # None
      /\ opClaims[req[log[s][i].by].key].batch.by = log[s][i].by

BackInv == RowCallers /\ ClaimBacked /\ OpBacked

RowInv == ControlInv /\ LiveInv /\ GateCoversLog /\ SequencesAscend /\ BackInv

LEMMA InitRows == Init => RowInv
<1> SUFFICES ASSUME Init PROVE RowInv
  OBVIOUS
<1>1. PICK tail \in 0 .. 1 : log = [s \in Stream |-> LegacyRows(tail)]
  BY DEF Init
<1>2. \A s \in Stream : Len(log[s]) = tail
  BY <1>1 DEF LegacyRows
<1>3. \A s \in Stream : \A i \in 1 .. Len(log[s]) :
        log[s][i] = [seq |-> i, key |-> None, by |-> None]
  BY <1>1, <1>2 DEF LegacyRows
<1>4. ControlInv
  BY InitControl
<1>5. LiveInv /\ GateCoversLog
  BY DEF Init, LiveInv, InFlight, GateCoversLog
<1>6. SequencesAscend
  BY <1>2, <1>3 DEF SequencesAscend
<1>7. BackInv
  <2>1. ASSUME NEW s \in Stream, NEW i \in 1 .. Len(log[s])
        PROVE  log[s][i].key = None /\ log[s][i].by = None
    <3>1. log[s][i] = [seq |-> i, key |-> None, by |-> None]
      BY <1>3
    <3> QED BY <3>1
  <2> QED BY <2>1 DEF BackInv, RowCallers, ClaimBacked, OpBacked
<1> QED
  BY <1>4, <1>5, <1>6, <1>7 DEF RowInv

LEMMA ConcatRows ==
  ASSUME NEW a \in Seq(Row), NEW b \in Seq(Row)
  PROVE  /\ Len(a \o b) = Len(a) + Len(b)
         /\ \A i \in 1 .. Len(a) + Len(b) : (a \o b)[i] =
              IF i <= Len(a) THEN a[i] ELSE b[i - Len(a)]
  BY ConcatProperties, Zenon

LEMMA InsertedRows ==
  ASSUME TypeOK, NEW s \in Stream, NEW n \in Nat \ {0}, NEW k \in Key \cup {None},
         NEW c \in Call, InsertRows(s, n, k, c)
  PROVE  /\ \A t \in Stream : t # s => log'[t] = log[t] /\ gate'[t] = gate[t]
         /\ gate'[s] = gate[s] + n
         /\ Len(log'[s]) = Len(log[s]) + n
         /\ \A i \in 1 .. Len(log[s]) : log'[s][i] = log[s][i]
         /\ \A i \in Len(log[s]) + 1 .. Len(log[s]) + n :
              log'[s][i] = [seq |-> gate[s] + (i - Len(log[s])), key |-> k, by |-> c]
<1> DEFINE new == BatchRows(gate[s], n, k, c)
<1>1. gate[s] \in Nat /\ log[s] \in Seq(Row)
  BY DEF TypeOK
<1>2. /\ new \in Seq(Row) /\ Len(new) = n
      /\ \A i \in 1 .. n : new[i] = [seq |-> gate[s] + i, key |-> k, by |-> c]
  BY <1>1, BatchTypes
<1>3. log'[s] = log[s] \o new /\ gate'[s] = gate[s] + n
  BY DEF TypeOK, InsertRows
<1>4. \A t \in Stream : t # s => log'[t] = log[t] /\ gate'[t] = gate[t]
  BY DEF TypeOK, InsertRows
<1> HIDE DEF new
<1>5. /\ Len(log'[s]) = Len(log[s]) + n
      /\ \A i \in 1 .. Len(log[s]) + n :
           log'[s][i] = IF i <= Len(log[s]) THEN log[s][i] ELSE new[i - Len(log[s])]
  <2>1. /\ Len(log[s] \o new) = Len(log[s]) + Len(new)
        /\ \A i \in 1 .. Len(log[s]) + Len(new) : (log[s] \o new)[i] =
             IF i <= Len(log[s]) THEN log[s][i] ELSE new[i - Len(log[s])]
    BY <1>1, <1>2, ConcatRows
  <2>2. Len(new) = n
    BY <1>2
  <2>3. log'[s] = log[s] \o new
    BY <1>3
  <2> QED BY <2>1, <2>2, <2>3, Zenon
<1>6. Len(log[s]) \in Nat
  BY <1>1
<1>7. ASSUME NEW i \in Len(log[s]) + 1 .. Len(log[s]) + n
      PROVE  log'[s][i] = [seq |-> gate[s] + (i - Len(log[s])), key |-> k, by |-> c]
  <2>1. i - Len(log[s]) \in 1 .. n /\ i \in 1 .. Len(log[s]) + n /\ ~ (i <= Len(log[s]))
    BY <1>6
  <2> QED BY <1>2, <1>5, <2>1
<1>8. \A i \in 1 .. Len(log[s]) : log'[s][i] = log[s][i]
  BY <1>5, <1>6
<1> QED
  BY <1>3, <1>4, <1>5, <1>7, <1>8

\* An insertion above a covered log keeps the numbers ascending and covered.
LEMMA InsertNumbers ==
  ASSUME TypeOK, Covered, SequencesAscend,
         NEW s \in Stream, NEW n \in Nat \ {0}, NEW k \in Key \cup {None},
         NEW c \in Call, InsertRows(s, n, k, c)
  PROVE  Covered' /\ SequencesAscend'
<1> DEFINE old == Len(log[s])
<1>0. /\ \A t \in Stream : t # s => log'[t] = log[t] /\ gate'[t] = gate[t]
      /\ gate'[s] = gate[s] + n
      /\ Len(log'[s]) = old + n
      /\ \A i \in 1 .. old : log'[s][i] = log[s][i]
      /\ \A i \in old + 1 .. old + n :
           log'[s][i] = [seq |-> gate[s] + (i - old), key |-> k, by |-> c]
  BY InsertedRows
<1>1. gate[s] \in Nat /\ old \in Nat /\ \A i \in 1 .. old : log[s][i].seq \in Nat
  <2>1. gate[s] \in Nat /\ log[s] \in Seq(Row)
    BY DEF TypeOK
  <2>2. \A i \in 1 .. old : log[s][i] \in Row
    BY <2>1, ElementOfSeq
  <2> QED BY <2>1, <2>2 DEF Row
<1>2. \A i \in 1 .. old : log'[s][i].seq = log[s][i].seq /\ log[s][i].seq <= gate[s]
  BY <1>0 DEF Covered
<1>3. ASSUME NEW i \in old + 1 .. old + n PROVE log'[s][i].seq = gate[s] + (i - old)
  <2>1. log'[s][i] = [seq |-> gate[s] + (i - old), key |-> k, by |-> c]
    BY <1>0
  <2> QED BY <2>1
<1> HIDE DEF old
<1>4. Covered'
  <2> SUFFICES ASSUME NEW t \in Stream, NEW i \in 1 .. Len(log'[t])
               PROVE  log'[t][i].seq <= gate'[t]
    BY DEF Covered
  <2>1. CASE t # s
    BY <1>0, <2>1 DEF Covered
  <2>2. CASE t = s
    <3>1. i \in 1 .. old \/ i \in old + 1 .. old + n
      BY <1>0, <1>1, <2>2
    <3>2. CASE i \in 1 .. old
      BY <1>0, <1>1, <1>2, <2>2, <3>2
    <3>3. CASE i \in old + 1 .. old + n
      BY <1>0, <1>1, <1>3, <2>2, <3>3
    <3> QED BY <3>1, <3>2, <3>3
  <2> QED BY <2>1, <2>2
<1>5. SequencesAscend'
  <2> SUFFICES ASSUME NEW t \in Stream, NEW i \in 1 .. Len(log'[t]), NEW j \in 1 .. Len(log'[t]),
                      i < j
               PROVE  log'[t][i].seq < log'[t][j].seq
    BY DEF SequencesAscend
  <2>1. CASE t # s
    BY <1>0, <2>1 DEF SequencesAscend
  <2>2. CASE t = s
    <3>1. Len(log'[s]) = old + n
      BY <1>0
    <3>2. CASE j \in 1 .. old
      <4>1. i \in 1 .. old
        BY <1>1, <3>2
      <4> QED BY <1>2, <2>2, <3>2, <4>1 DEF SequencesAscend, old
    <3>3. CASE i \in 1 .. old /\ j \in old + 1 .. old + n
      <4>1. log'[s][i].seq <= gate[s] /\ log'[s][i].seq \in Nat
        BY <1>1, <1>2, <3>3
      <4>2. log'[s][j].seq = gate[s] + (j - old) /\ j - old \in 1 .. n
        BY <1>1, <1>3, <3>3
      <4> QED BY <1>1, <2>2, <4>1, <4>2
    <3>4. CASE i \in old + 1 .. old + n /\ j \in old + 1 .. old + n
      BY <1>1, <1>3, <2>2, <3>4
    <3> QED BY <1>1, <2>2, <3>1, <3>2, <3>3, <3>4
  <2> QED BY <2>1, <2>2
<1> QED
  BY <1>4, <1>5

\* A step either leaves the tables alone or is one of these.
LEMMA TableSteps ==
  ASSUME [Next]_vars
  PROVE  \/ UNCHANGED table
         \/ \E p \in Proc : Open(p)
         \/ \E c \in Call : Commit(c) \/ OnceCommit(c)
         \/ \E s \in Stream : DeleteStream(s) \/ PruneEvents(s)
<1>1. CASE UNCHANGED vars
  BY <1>1 DEF vars
<1>2. CASE \E c \in Call : Invoke(c) \/ Fold(c) \/ InvokeOnce(c) \/ ClosureStep(c)
  BY <1>2 DEF Invoke, Fold, InvokeOnce, ClosureStep, Decided, DecidedNothing, ClosureThrows
<1>3. CASE \E c \in Call : LockedStep(c)
  BY <1>3 DEF LockedStep, LookupHit, LookupMiss, Busy, BusyExhausted, GateConflict,
              ClaimClash, Relookup, IoError, NotifyCommit
<1>4. CASE \E c \in Call : OnceStep(c)
  BY <1>4 DEF OnceStep, OnceStored, OnceMiss, OnceRefused
<1>5. CASE \E p \in Proc : Crash(p)
  BY <1>5 DEF Crash
<1>6. CASE Finished
  BY <1>6 DEF Finished, vars
<1> QED
  BY <1>1, <1>2, <1>3, <1>4, <1>5, <1>6 DEF Next

LEMMA UpSteps ==
  ASSUME [Next]_vars
  PROVE  up' = up \/ \E p \in Proc : Open(p) \/ Crash(p)
  BY DEF Next, Invoke, Fold, InvokeOnce, ClosureStep, Decided, DecidedNothing, ClosureThrows,
         LockedStep, LookupHit, LookupMiss, Busy, BusyExhausted, GateConflict, ClaimClash,
         Relookup, Commit, IoError, NotifyCommit, OnceStep, OnceStored, OnceMiss, OnceCommit,
         OnceRefused, DeleteStream, PruneEvents, Finished, vars

\* A call that started keeps its process, its kind and its key.
LEMMA CallsStay ==
  ASSUME ControlInv, [Next]_vars, NEW d \in Call, pc[d] # "idle"
  PROVE  /\ pc'[d] # "idle"
         /\ req'[d].kind = req[d].kind /\ req'[d].key = req[d].key
         /\ req'[d].proc = req[d].proc
<1>1. CASE UNCHANGED <<pc, req>>
  BY <1>1
<1>2. ASSUME NEW c \in Call, Invoke(c) \/ Fold(c) \/ InvokeOnce(c) PROVE c # d /\ pc'[d] = pc[d] /\ req'[d] = req[d]
  BY <1>2 DEF Invoke, Fold, InvokeOnce, ControlInv, TypeOK
<1>3. ASSUME NEW c \in Call, NEW x \in Place \ {"idle"}, Moves(c, x) PROVE pc'[d] # "idle" /\ req' = req
  BY <1>3 DEF Moves, ControlInv, TypeOK
<1>4. ASSUME NEW c \in Call, DecidedNothing(c) \/ ClosureThrows(c) \/ OnceStep(c)
      PROVE  \E x \in Place \ {"idle"} : Moves(c, x)
  BY <1>4 DEF DecidedNothing, ClosureThrows, OnceStep, OnceStored, OnceMiss, OnceCommit,
              OnceRefused, Return, Moves, Place
<1>5. ASSUME NEW c \in Call, LockedStep(c)
      PROVE  UNCHANGED <<pc, req>> \/ \E x \in Place \ {"idle"} : Moves(c, x)
  BY <1>5 DEF LockedStep, LookupHit, LookupMiss, Busy, BusyExhausted, GateConflict,
              ClaimClash, Relookup, Commit, IoError, NotifyCommit, Return, Moves, Place
<1>6. ASSUME NEW c \in Call, Decided(c)
      PROVE  /\ pc'[d] # "idle"
             /\ req'[d].kind = req[d].kind /\ req'[d].key = req[d].key
             /\ req'[d].proc = req[d].proc
  <2>1. pc'[d] # "idle"
    BY <1>6 DEF Decided, ControlInv, TypeOK
  <2>2. PICK n \in 1 .. MaxBatch : req' = [req EXCEPT ![c].n = n]
    BY <1>6 DEF Decided
  <2>3. req[c] \in Request
    BY <1>6 DEF Decided, ControlInv, RequestInv, Running
  <2>4. CASE d = c
    <3>1. req'[c] = [req[c] EXCEPT !.n = n]
      BY <2>2 DEF ControlInv, TypeOK
    <3> QED BY <2>1, <2>3, <2>4, <3>1 DEF Request
  <2>5. CASE d # c
    BY <2>1, <2>2, <2>5 DEF ControlInv, TypeOK
  <2> QED BY <2>4, <2>5
<1>7. ASSUME NEW p \in Proc, Crash(p) PROVE pc'[d] # "idle" /\ req' = req
  BY <1>7 DEF Crash, InFlight
<1>8. (\E p \in Proc : Open(p)) \/ (\E s \in Stream : DeleteStream(s) \/ PruneEvents(s))
        \/ Finished \/ UNCHANGED vars => UNCHANGED <<pc, req>>
  BY DEF Open, DeleteStream, PruneEvents, Finished, vars, call
<1> QED
  BY <1>1, <1>2, <1>3, <1>4, <1>5, <1>6, <1>7, <1>8 DEF Next, ClosureStep

LEMMA NextLive ==
  ASSUME ControlInv, LiveInv, [Next]_vars
  PROVE  LiveInv'
<1> SUFFICES ASSUME NEW d \in Call, InFlight(d)'
             PROVE  up'[req'[d].proc]
  BY DEF LiveInv
<1>1. CASE ~InFlight(d)
  <2>1. Invoke(d) \/ Fold(d) \/ InvokeOnce(d)
    <3>1. ASSUME NEW c \in Call, Invoke(c) \/ Fold(c) \/ InvokeOnce(c) PROVE c = d
      BY <1>1, <3>1 DEF Invoke, Fold, InvokeOnce, InFlight, ControlInv, TypeOK
    <3>2. ASSUME NEW c \in Call, ClosureStep(c) \/ LockedStep(c) \/ OnceStep(c)
          PROVE  c = d \/ pc'[d] = pc[d]
      BY <3>2 DEF ClosureStep, Decided, DecidedNothing, ClosureThrows, LockedStep, LookupHit,
           LookupMiss, Busy, BusyExhausted, GateConflict, ClaimClash, Relookup, Commit, IoError,
           NotifyCommit, OnceStep, OnceStored, OnceMiss, OnceCommit, OnceRefused, Return,
           ControlInv, TypeOK
    <3>3. ASSUME NEW c \in Call, ClosureStep(c) \/ LockedStep(c) \/ OnceStep(c)
          PROVE  InFlight(c)
      BY <3>3 DEF ClosureStep, Decided, DecidedNothing, ClosureThrows, LockedStep, LookupHit,
           LookupMiss, Busy, BusyExhausted, GateConflict, ClaimClash, Relookup, Commit, IoError,
           NotifyCommit, OnceStep, OnceStored, OnceMiss, OnceCommit, OnceRefused, InFlight
    <3>4. ASSUME NEW p \in Proc, Open(p) \/ Crash(p) PROVE ~InFlight(d)'
      BY <1>1, <3>4 DEF Open, Crash, InFlight, call
    <3>5. ASSUME (\E s \in Stream : DeleteStream(s) \/ PruneEvents(s)) \/ Finished \/ UNCHANGED vars
          PROVE  ~InFlight(d)'
      BY <1>1, <3>5 DEF DeleteStream, PruneEvents, Finished, vars, InFlight, call
    <3> QED BY <1>1, <3>1, <3>2, <3>3, <3>4, <3>5 DEF Next, InFlight
  <2> QED BY <2>1 DEF Invoke, Fold, InvokeOnce, ControlInv, TypeOK
<1>2. CASE InFlight(d)
  <2>1. up[req[d].proc] /\ req'[d].proc = req[d].proc /\ req[d].proc \in Proc
    BY <1>2, CallsStay DEF LiveInv, InFlight, ControlInv, RequestInv, Running, Request
  <2>2. CASE up' = up
    BY <2>1, <2>2
  <2>3. CASE \E p \in Proc : Open(p)
    BY <2>1, <2>3 DEF Open, ControlInv, TypeOK
  <2>4. CASE \E p \in Proc : Crash(p)
    BY <1>2, <2>1, <2>4 DEF Crash, InFlight, ControlInv, TypeOK
  <2>5. up' = up \/ \E p \in Proc : Open(p) \/ Crash(p)
    BY UpSteps
  <2> QED BY <2>2, <2>3, <2>4, <2>5
<1> QED
  BY <1>1, <1>2

\* The last row of an ascending stream has its largest sequence.
LEMMA TailIsLargest ==
  ASSUME TypeOK, SequencesAscend, NEW s \in Stream, NEW i \in 1 .. Len(log[s])
  PROVE  log[s][i].seq <= TailSeq(log[s])
<1>1. log[s] \in Seq(Row) /\ Len(log[s]) \in Nat /\ log[s] # <<>>
  BY DEF TypeOK
<1>2. TailSeq(log[s]) = log[s][Len(log[s])].seq
  BY <1>1 DEF TailSeq
<1>3. log[s][i] \in Row /\ Len(log[s]) \in 1 .. Len(log[s])
  BY <1>1, ElementOfSeq
<1>4. CASE i = Len(log[s])
  BY <1>2, <1>3, <1>4 DEF Row
<1>5. CASE i < Len(log[s])
  <2>1. log[s][i].seq < log[s][Len(log[s])].seq
    BY <1>3, <1>5 DEF SequencesAscend
  <2>2. log[s][Len(log[s])] \in Row
    BY <1>1, <1>3, ElementOfSeq
  <2> QED BY <1>2, <1>3, <2>1, <2>2 DEF Row
<1> QED
  BY <1>1, <1>4, <1>5

\* Prunes keep the rows they leave, in their order.
LEMMA PrunedRows ==
  ASSUME TypeOK, NEW s \in Stream, PruneEvents(s)
  PROVE  \E n \in 0 .. Len(log[s]) - 1 : \E kept \in [1 .. n -> 1 .. Len(log[s])] :
           /\ \A i, j \in 1 .. n : i < j => kept[i] < kept[j]
           /\ Len(log'[s]) = n
           /\ \A i \in 1 .. n : log'[s][i] = log[s][kept[i]]
           /\ \A t \in Stream : t # s => log'[t] = log[t]
<1>0. PICK n \in 0 .. Len(log[s]) - 1 : \E kept \in [1 .. n -> 1 .. Len(log[s])] :
        /\ \A i, j \in 1 .. n : i < j => kept[i] < kept[j]
        /\ log' = [log EXCEPT ![s] = [i \in 1 .. n |-> log[s][kept[i]]]]
  BY DEF PruneEvents
<1>1. PICK kept \in [1 .. n -> 1 .. Len(log[s])] :
        /\ \A i, j \in 1 .. n : i < j => kept[i] < kept[j]
        /\ log' = [log EXCEPT ![s] = [i \in 1 .. n |-> log[s][kept[i]]]]
  BY <1>0
<1>2. Len(log[s]) \in Nat /\ n \in Nat
  BY DEF TypeOK
<1>3. /\ log'[s] = [i \in 1 .. n |-> log[s][kept[i]]]
      /\ \A t \in Stream : t # s => log'[t] = log[t]
  BY <1>1 DEF TypeOK
<1>4. Len(log'[s]) = n
  BY <1>2, <1>3
<1>5. \A i \in 1 .. n : log'[s][i] = log[s][kept[i]]
  BY <1>3
<1> QED
  BY <1>1, <1>3, <1>4, <1>5

LEMMA NextNumbers ==
  ASSUME RowInv, [Next]_vars
  PROVE  GateCoversLog' /\ SequencesAscend'
<1> USE DEF RowInv, ControlInv
<1>1. CASE UNCHANGED table
  <2>1. (\E p \in Proc : up'[p]) => (\E p \in Proc : up[p]) \/ (\E p \in Proc : Open(p))
    <3>1. ASSUME NEW p \in Proc, Crash(p), NEW q \in Proc, up'[q] PROVE up[q]
      BY <3>1 DEF Crash, TypeOK
    <3> QED BY <3>1, UpSteps
  <2>2. CASE ~ \E p \in Proc : Open(p)
    BY <1>1, <2>1, <2>2 DEF GateCoversLog, SequencesAscend, table
  <2>3. CASE \E p \in Proc : Open(p)
    <3>1. \A s \in Stream : TailSeq(log[s]) \in Nat /\ gate[s] \in Nat
      BY TailSeqType DEF TypeOK
    <3>2. \A s \in Stream : TailSeq(log[s]) <= gate'[s]
      BY <2>3, <3>1 DEF Open
    <3>3. ASSUME NEW s \in Stream, NEW i \in 1 .. Len(log[s]) PROVE log[s][i].seq <= gate[s]
      <4>1. log[s][i].seq <= TailSeq(log[s]) /\ TailSeq(log[s]) <= gate[s]
        BY <1>1, <3>2, TailIsLargest DEF table
      <4>2. log[s] \in Seq(Row) /\ log[s][i] \in Row
        BY ElementOfSeq DEF TypeOK
      <4> QED BY <3>1, <4>1, <4>2 DEF Row
    <3> QED BY <1>1, <3>3 DEF GateCoversLog, SequencesAscend, table
  <2> QED BY <2>2, <2>3
<1>2. ASSUME NEW p \in Proc, Open(p) PROVE GateCoversLog' /\ SequencesAscend'
  <2>1. \A s \in Stream : TailSeq(log[s]) \in Nat /\ gate[s] \in Nat
    BY TailSeqType DEF TypeOK
  <2>2. \A s \in Stream : TailSeq(log[s]) <= gate'[s] /\ gate'[s] \in Nat
    BY <1>2, <2>1 DEF Open
  <2>3. log' = log
    BY <1>2 DEF Open
  <2>4. ASSUME NEW s \in Stream, NEW i \in 1 .. Len(log[s]) PROVE log[s][i].seq <= gate'[s]
    <3>1. log[s][i].seq <= TailSeq(log[s]) /\ TailSeq(log[s]) <= gate'[s]
      BY <2>2, TailIsLargest
    <3>2. log[s] \in Seq(Row) /\ log[s][i] \in Row
      BY ElementOfSeq DEF TypeOK
    <3> QED BY <2>1, <2>2, <3>1, <3>2 DEF Row
  <2> QED BY <2>3, <2>4 DEF GateCoversLog, SequencesAscend
<1>3. ASSUME NEW c \in Call, InFlight(c) PROVE Covered
  <2>1. req[c] \in Request
    BY <1>3 DEF InFlight, RequestInv, Running
  <2>2. \E p \in Proc : up[p]
    BY <1>3, <2>1 DEF LiveInv, Request
  <2> QED BY <2>2 DEF GateCoversLog, Covered
<1>4. ASSUME NEW c \in Call, Commit(c) PROVE GateCoversLog' /\ SequencesAscend'
  <2>1. /\ req[c].stream \in Stream /\ req[c].key \in Key \cup {None} /\ req[c].n \in Nat \ {0}
        /\ InFlight(c) /\ InsertRows(req[c].stream, req[c].n, req[c].key, c)
    BY <1>4 DEF Commit, RequestInv, Running, Appending, Ready, Request, InFlight
  <2>2. Covered' /\ SequencesAscend'
    BY <1>3, <2>1, InsertNumbers
  <2> QED BY <2>2 DEF GateCoversLog, Covered
<1>5. ASSUME NEW c \in Call, OnceCommit(c) PROVE GateCoversLog' /\ SequencesAscend'
  <2>1. PICK s \in Stream, n \in 1 .. MaxBatch : InsertRows(s, n, None, c)
    BY <1>5 DEF OnceCommit
  <2>2. InFlight(c) /\ n \in Nat \ {0}
    BY <1>5 DEF OnceCommit, InFlight
  <2>3. Covered' /\ SequencesAscend'
    BY <1>3, <2>1, <2>2, InsertNumbers
  <2> QED BY <2>3 DEF GateCoversLog, Covered
<1>6. ASSUME NEW s \in Stream, DeleteStream(s) PROVE GateCoversLog' /\ SequencesAscend'
  <2>1. /\ log'[s] = <<>> /\ \E p \in Proc : up[p]
        /\ \A t \in Stream : t # s => log'[t] = log[t] /\ gate'[t] = gate[t]
    BY <1>6 DEF DeleteStream, TypeOK
  <2> QED BY <2>1 DEF GateCoversLog, SequencesAscend
<1>7. ASSUME NEW s \in Stream, PruneEvents(s) PROVE GateCoversLog' /\ SequencesAscend'
  <2>0. PICK n \in 0 .. Len(log[s]) - 1 : \E kept \in [1 .. n -> 1 .. Len(log[s])] :
           /\ \A i, j \in 1 .. n : i < j => kept[i] < kept[j]
           /\ Len(log'[s]) = n
           /\ \A i \in 1 .. n : log'[s][i] = log[s][kept[i]]
           /\ \A t \in Stream : t # s => log'[t] = log[t]
    BY <1>7, PrunedRows
  <2>1. PICK kept \in [1 .. n -> 1 .. Len(log[s])] :
           /\ \A i, j \in 1 .. n : i < j => kept[i] < kept[j]
           /\ Len(log'[s]) = n
           /\ \A i \in 1 .. n : log'[s][i] = log[s][kept[i]]
           /\ \A t \in Stream : t # s => log'[t] = log[t]
    BY <2>0
  <2>2. gate' = gate /\ (\E p \in Proc : up[p]) /\ Len(log[s]) \in Nat
    BY <1>7 DEF PruneEvents, TypeOK
  <2>3. \A i \in 1 .. Len(log'[s]) : kept[i] \in 1 .. Len(log[s])
    BY <2>1, <2>2
  <2>4. GateCoversLog'
    <3> SUFFICES ASSUME NEW t \in Stream, NEW i \in 1 .. Len(log'[t])
                 PROVE  log'[t][i].seq <= gate[t]
      BY <2>2 DEF GateCoversLog
    <3>1. CASE t # s
      BY <2>1, <2>2, <3>1 DEF GateCoversLog
    <3>2. CASE t = s
      <4>1. log'[s][i] = log[s][kept[i]] /\ kept[i] \in 1 .. Len(log[s])
        BY <2>1, <2>3, <3>2
      <4> QED
        BY <2>2, <3>2, <4>1 DEF GateCoversLog
    <3> QED
      BY <3>1, <3>2
  <2>5. ASSUME NEW t \in Stream, NEW i \in 1 .. Len(log'[t]), NEW j \in 1 .. Len(log'[t]), i < j
        PROVE  log'[t][i].seq < log'[t][j].seq
    <3>1. CASE t # s
      BY <2>1, <2>5, <3>1 DEF SequencesAscend
    <3>2. CASE t = s
      <4>1. /\ log'[s][i] = log[s][kept[i]] /\ log'[s][j] = log[s][kept[j]]
            /\ kept[i] \in 1 .. Len(log[s]) /\ kept[j] \in 1 .. Len(log[s])
            /\ kept[i] < kept[j]
        BY <2>1, <2>3, <2>5, <3>2
      <4> QED BY <3>2, <4>1 DEF SequencesAscend
    <3> QED BY <3>1, <3>2
  <2> QED BY <2>4, <2>5 DEF SequencesAscend
<1> QED
  BY <1>1, <1>2, <1>4, <1>5, <1>6, <1>7, TableSteps

LEMMA NextBacked ==
  ASSUME RowInv, [Next]_vars
  PROVE  BackInv'
<1> USE DEF RowInv, ControlInv, BackInv
<1> DEFINE Kept(t, i, j) ==
      /\ i \in 1 .. Len(log'[t]) /\ j \in 1 .. Len(log[t]) /\ log'[t][i] = log[t][j]
    Backed(t, i) ==
      /\ log'[t][i].by # None => pc'[log'[t][i].by] # "idle"
      /\ log'[t][i].key # None =>
           /\ claims'[t][log'[t][i].key] # None
           /\ claims'[t][log'[t][i].key].by = log'[t][i].by
      /\ log'[t][i].by # None /\ req'[log'[t][i].by].kind = "once" =>
           /\ opClaims'[req'[log'[t][i].by].key] # None
           /\ opClaims'[req'[log'[t][i].by].key].batch.by = log'[t][i].by
<1>b. ASSUME \A t \in Stream : \A i \in 1 .. Len(log'[t]) : Backed(t, i)
      PROVE  BackInv'
  BY <1>b DEF RowCallers, ClaimBacked, OpBacked
\* The callers of the stored rows are known calls.
<1>1. ASSUME NEW t \in Stream, NEW i \in 1 .. Len(log[t])
      PROVE  /\ log[t][i].by \in Call \cup {None} /\ log[t][i].key \in Key \cup {None}
             /\ log[t][i].by # None =>
                  /\ pc[log[t][i].by] # "idle" /\ pc'[log[t][i].by] # "idle"
                  /\ req'[log[t][i].by].kind = req[log[t][i].by].kind
                  /\ req'[log[t][i].by].key = req[log[t][i].by].key
  <2>1. log[t] \in Seq(Row) /\ log[t][i] \in Row
    BY ElementOfSeq DEF TypeOK
  <2>2. log[t][i].by \in Call \cup {None} /\ log[t][i].key \in Key \cup {None}
    BY <2>1 DEF Row
  <2>3. log[t][i].by # None => pc[log[t][i].by] # "idle"
    BY DEF RowCallers
  <2> QED BY <2>2, <2>3, CallsStay
\* A stored row that stays keeps its backing when the claim tables stay.
<1>2. ASSUME NEW t \in Stream, NEW i \in Nat, NEW j \in Nat, Kept(t, i, j)
      PROVE  /\ log'[t][i].by # None => pc'[log'[t][i].by] # "idle"
             /\ claims'[t] = claims[t] /\ log'[t][i].key # None =>
                  /\ claims'[t][log'[t][i].key] # None
                  /\ claims'[t][log'[t][i].key].by = log'[t][i].by
             /\ opClaims' = opClaims /\ log'[t][i].by # None
                  /\ req'[log'[t][i].by].kind = "once" =>
                    /\ opClaims'[req'[log'[t][i].by].key] # None
                    /\ opClaims'[req'[log'[t][i].by].key].batch.by = log'[t][i].by
  <2> DEFINE r == log[t][j]
  <2>1. log'[t][i] = r /\ j \in 1 .. Len(log[t])
    BY <1>2
  <2>2. /\ r.key # None => claims[t][r.key] # None /\ claims[t][r.key].by = r.by
        /\ r.by # None /\ req[r.by].kind = "once" =>
             opClaims[req[r.by].key] # None /\ opClaims[req[r.by].key].batch.by = r.by
    BY <2>1 DEF ClaimBacked, OpBacked
  <2>3. r.by # None => /\ pc'[r.by] # "idle"
                       /\ req'[r.by].kind = req[r.by].kind /\ req'[r.by].key = req[r.by].key
    BY <1>1, <2>1
  <2> HIDE DEF r
  <2>4. claims'[t] = claims[t] /\ r.key # None =>
          claims'[t][r.key] # None /\ claims'[t][r.key].by = r.by
    BY <2>2
  <2>5. opClaims' = opClaims /\ r.by # None /\ req'[r.by].kind = "once" =>
          opClaims'[req'[r.by].key] # None /\ opClaims'[req'[r.by].key].batch.by = r.by
    BY <2>2, <2>3
  <2> QED BY <2>1, <2>3, <2>4, <2>5
<1>3. CASE UNCHANGED table \/ \E p \in Proc : Open(p)
  <2>1. UNCHANGED <<log, claims, opClaims>>
    BY <1>3 DEF table, Open
  <2>2. \A t \in Stream : \A i \in 1 .. Len(log'[t]) : i \in Nat /\ Kept(t, i, i)
    BY <2>1
  <2>3. ASSUME NEW t \in Stream, NEW i \in 1 .. Len(log'[t])
        PROVE  Backed(t, i)
    <3>1. /\ i \in Nat /\ Kept(t, i, i)
          /\ claims'[t] = claims[t] /\ opClaims' = opClaims
      BY <2>1, <2>2
    <3> HIDE DEF Kept
    <3> QED BY <1>2, <3>1
  <2> QED BY <1>b, <2>3
<1>4. ASSUME NEW s \in Stream, DeleteStream(s) PROVE BackInv'
  <2>1. /\ log'[s] = <<>> /\ opClaims' = opClaims
        /\ \A t \in Stream : t # s => log'[t] = log[t] /\ claims'[t] = claims[t]
    BY <1>4 DEF DeleteStream, TypeOK
  <2>2. \A t \in Stream : \A i \in 1 .. Len(log'[t]) :
          i \in Nat /\ t # s /\ Kept(t, i, i) /\ claims'[t] = claims[t]
    BY <2>1
  <2>3. ASSUME NEW t \in Stream, NEW i \in 1 .. Len(log'[t])
        PROVE  Backed(t, i)
    <3>1. /\ i \in Nat /\ Kept(t, i, i)
          /\ claims'[t] = claims[t] /\ opClaims' = opClaims
      BY <2>1, <2>2
    <3> HIDE DEF Kept
    <3> QED BY <1>2, <3>1
  <2> QED BY <1>b, <2>3
<1>5. ASSUME NEW s \in Stream, PruneEvents(s) PROVE BackInv'
  <2>0. PICK n \in 0 .. Len(log[s]) - 1 : \E kept \in [1 .. n -> 1 .. Len(log[s])] :
           /\ \A i, j \in 1 .. n : i < j => kept[i] < kept[j]
           /\ Len(log'[s]) = n
           /\ \A i \in 1 .. n : log'[s][i] = log[s][kept[i]]
           /\ \A t \in Stream : t # s => log'[t] = log[t]
    BY <1>5, PrunedRows
  <2>1. PICK kept \in [1 .. n -> 1 .. Len(log[s])] :
           /\ \A i, j \in 1 .. n : i < j => kept[i] < kept[j]
           /\ Len(log'[s]) = n
           /\ \A i \in 1 .. n : log'[s][i] = log[s][kept[i]]
           /\ \A t \in Stream : t # s => log'[t] = log[t]
    BY <2>0
  <2>2. UNCHANGED <<claims, opClaims>> /\ Len(log[s]) \in Nat
    BY <1>5 DEF PruneEvents, TypeOK
  <2>3. ASSUME NEW t \in Stream, NEW i \in 1 .. Len(log'[t])
        PROVE  i \in Nat /\ \E j \in Nat : Kept(t, i, j)
    <3>1. CASE t = s
      <4>1. kept[i] \in Nat /\ Kept(t, i, kept[i])
        BY <2>1, <2>2, <3>1
      <4> QED BY <4>1
    <3>2. CASE t # s
      BY <2>1, <3>2
    <3> QED BY <3>1, <3>2
  <2>4. ASSUME NEW t \in Stream, NEW i \in 1 .. Len(log'[t])
        PROVE  Backed(t, i)
    <3>1. PICK j \in Nat : Kept(t, i, j)
      BY <2>3
    <3>2. claims'[t] = claims[t] /\ opClaims' = opClaims /\ i \in Nat
      BY <2>2, <2>3
    <3> HIDE DEF Kept
    <3> QED BY <1>2, <3>1, <3>2
  <2> QED BY <1>b, <2>4
\* A row after an insertion is an old one, or one of the new ones.
<1>6. ASSUME NEW s \in Stream, NEW n \in Nat \ {0}, NEW k \in Key \cup {None}, NEW c \in Call,
             InsertRows(s, n, k, c), NEW t \in Stream, NEW i \in 1 .. Len(log'[t])
      PROVE  Kept(t, i, i) \/ (t = s /\ log'[t][i].key = k /\ log'[t][i].by = c)
  <2>1. CASE t # s
    BY <1>6, <2>1, InsertedRows
  <2>2. CASE t = s
    <3>1. Len(log[s]) \in Nat /\ Len(log'[s]) = Len(log[s]) + n
      <4>1. log[s] \in Seq(Row)
        BY DEF TypeOK
      <4>2. Len(log'[s]) = Len(log[s]) + n
        BY <1>6, InsertedRows
      <4> QED BY <4>1, <4>2
    <3>2. CASE i \in 1 .. Len(log[s])
      BY <1>6, <2>2, <3>2, InsertedRows
    <3>3. CASE i \in Len(log[s]) + 1 .. Len(log[s]) + n
      <4>1. log'[s][i] = [seq |-> gate[s] + (i - Len(log[s])), key |-> k, by |-> c]
        BY <1>6, <3>3, InsertedRows
      <4> QED BY <2>2, <4>1
    <3> QED BY <2>2, <3>1, <3>2, <3>3
  <2> QED BY <2>1, <2>2
<1>7. ASSUME NEW c \in Call, Commit(c) PROVE BackInv'
  <2> DEFINE s == req[c].stream
             k == req[c].key
             n == req[c].n
             batch == BatchOf(gate[s], n, c)
  <2>1. /\ s \in Stream /\ k \in Key \cup {None} /\ n \in Nat \ {0} /\ req[c].kind # "once"
        /\ InsertRows(s, n, k, c) /\ ClaimOf(c) = None /\ opClaims' = opClaims /\ req' = req
        /\ claims' = IF k = None THEN claims ELSE [claims EXCEPT ![s][k] = batch]
    BY <1>7 DEF Commit, RequestInv, Running, Appending, Ready, Request
  <2>2. pc'[c] = "hook" /\ batch.by = c
    BY <1>7 DEF Commit, Return, TypeOK, BatchOf
  <2>3. k # None => claims[s][k] = None /\ claims'[s][k] = batch
    BY <2>1 DEF ClaimOf, TypeOK
  <2>4. \A t \in Stream, x \in Key : ~ (t = s /\ x = k) => claims'[t][x] = claims[t][x]
    BY <2>1 DEF TypeOK
  <2> HIDE DEF batch
  <2>5. ASSUME NEW t \in Stream, NEW i \in 1 .. Len(log'[t])
        PROVE  Backed(t, i)
    <3>1. CASE Kept(t, i, i)
      <4>1. log'[t][i] = log[t][i] /\ i \in 1 .. Len(log[t]) /\ i \in Nat
        BY <3>1
      <4>2. log[t][i].key # None =>
              /\ claims[t][log[t][i].key] # None
              /\ claims[t][log[t][i].key].by = log[t][i].by
              /\ log[t][i].key \in Key
        BY <1>1, <4>1 DEF ClaimBacked
      <4>3. log[t][i].key # None => claims'[t][log[t][i].key] = claims[t][log[t][i].key]
        BY <2>3, <2>4, <4>2
      <4> QED BY <1>2, <2>1, <3>1, <4>1, <4>2, <4>3
    <3>2. CASE t = s /\ log'[t][i].key = k /\ log'[t][i].by = c
      <4>1. batch \in Batch
        <5>1. gate[s] \in Nat
          BY <2>1 DEF TypeOK
        <5> QED BY <2>1, <5>1, BatchTypes DEF batch
      <4> QED BY <2>1, <2>2, <2>3, <3>2, <4>1, RecordsAssumption DEF RecordsAssumption
    <3>3. Kept(t, i, i) \/ (t = s /\ log'[t][i].key = k /\ log'[t][i].by = c)
      BY <1>6, <2>1
    <3> HIDE DEF Kept
    <3> QED BY <3>1, <3>2, <3>3
  <2> QED BY <1>b, <2>5
<1>8. ASSUME NEW c \in Call, OnceCommit(c) PROVE BackInv'
  <2>1. PICK s \in Stream, n \in 1 .. MaxBatch :
          /\ InsertRows(s, n, None, c)
          /\ opClaims' = [opClaims EXCEPT ![req[c].key] =
                            [digest |-> req[c].digest, stream |-> s,
                             batch |-> BatchOf(gate[s], n, c)]]
    BY <1>8 DEF OnceCommit
  <2>2. /\ opClaims[req[c].key] = None /\ req[c].key \in Key /\ req[c].kind = "once"
        /\ claims' = claims /\ req' = req /\ pc'[c] = "hook" /\ n \in Nat \ {0}
    BY <1>8 DEF OnceCommit, Return, RequestInv, Deciding, TypeOK
  <2>3. opClaims'[req[c].key] # None /\ opClaims'[req[c].key].batch.by = c
    <3>1. opClaims'[req[c].key] = [digest |-> req[c].digest, stream |-> s,
                                   batch |-> BatchOf(gate[s], n, c)]
      BY <2>1, <2>2 DEF TypeOK
    <3>2. opClaims'[req[c].key] \in OpClaim
      <4>1. gate[s] \in Nat /\ req[c].digest \in Digest
        BY <1>8 DEF OnceCommit, RequestInv, Deciding, TypeOK
      <4>2. BatchOf(gate[s], n, c) \in Batch
        BY <2>2, <4>1, BatchTypes
      <4> QED BY <3>1, <4>1, <4>2 DEF OpClaim
    <3> QED BY <3>1, <3>2, RecordsAssumption DEF BatchOf, RecordsAssumption
  <2>4. \A x \in Key : x # req[c].key => opClaims'[x] = opClaims[x]
    BY <2>1, <2>2 DEF TypeOK
  <2>5. ASSUME NEW t \in Stream, NEW i \in 1 .. Len(log'[t])
        PROVE  Backed(t, i)
    <3>1. CASE Kept(t, i, i)
      <4>1. log'[t][i] = log[t][i] /\ i \in 1 .. Len(log[t]) /\ i \in Nat
        BY <3>1
      <4>2. log[t][i].by # None /\ req[log[t][i].by].kind = "once" =>
              /\ opClaims[req[log[t][i].by].key] # None
              /\ opClaims[req[log[t][i].by].key].batch.by = log[t][i].by
        BY <4>1 DEF OpBacked
      <4>3. log[t][i].by # None /\ req[log[t][i].by].kind = "once" =>
              req[log[t][i].by].key # req[c].key
        BY <2>2, <4>2
      <4>4. log[t][i].by # None /\ req[log[t][i].by].kind = "once" =>
              opClaims'[req[log[t][i].by].key] = opClaims[req[log[t][i].by].key]
        BY <2>1, <4>3 DEF TypeOK
      <4>5. /\ log'[t][i].by # None => pc'[log'[t][i].by] # "idle"
            /\ log'[t][i].key # None =>
                 /\ claims'[t][log'[t][i].key] # None
                 /\ claims'[t][log'[t][i].key].by = log'[t][i].by
        <5> HIDE DEF Kept
        <5> QED BY <1>2, <2>2, <3>1, <4>1
      <4> DEFINE r == log[t][i]
      <4>6. log'[t][i] = r
        BY <4>1
      <4> HIDE DEF r
      <4>7. r.by # None /\ req'[r.by].kind = "once" =>
              /\ opClaims'[req'[r.by].key] # None
              /\ opClaims'[req'[r.by].key].batch.by = r.by
        BY <2>2, <4>2, <4>4 DEF r
      <4> QED BY <4>5, <4>6, <4>7
    <3>2. CASE t = s /\ log'[t][i].key = None /\ log'[t][i].by = c
      BY <2>2, <2>3, <3>2
    <3>3. Kept(t, i, i) \/ (t = s /\ log'[t][i].key = None /\ log'[t][i].by = c)
      BY <1>6, <2>1, <2>2
    <3> HIDE DEF Kept
    <3> QED BY <3>1, <3>2, <3>3
  <2> QED BY <1>b, <2>5
<1> QED
  BY <1>3, <1>4, <1>5, <1>7, <1>8, TableSteps

LEMMA NextRows == RowInv /\ [Next]_vars => RowInv'
  BY NextControl, NextLive, NextNumbers, NextBacked DEF RowInv

(***************************************************************************)
(* The theorems.                                                            *)
(***************************************************************************)
\* Once a process is open, no append of any process reuses a stored sequence
\* (repairSequenceHighWaterMarks, allocateSequence, deleteStream).
THEOREM GateSafety == Spec => []GateCoversLog
<1>1. Spec => []RowInv
  BY InitRows, NextRows, PTL DEF Spec
<1>2. RowInv => GateCoversLog
  BY DEF RowInv
<1> QED
  BY <1>1, <1>2, PTL

\* The stored sequences of a stream strictly ascend in commit order.
THEOREM SequenceSafety == Spec => []SequencesAscend
<1>1. Spec => []RowInv
  BY InitRows, NextRows, PTL DEF Spec
<1>2. RowInv => SequencesAscend
  BY DEF RowInv
<1> QED
  BY <1>1, <1>2, PTL

\* The rows stored under one idempotency key of a stream come from one call,
\* whatever retries, races, crashes and deletions happen.
THEOREM KeySafety == Spec => []KeyCommittedOnce
<1>1. Spec => []RowInv
  BY InitRows, NextRows, PTL DEF Spec
<1>2. RowInv => KeyCommittedOnce
  BY DEF RowInv, BackInv, ClaimBacked, KeyCommittedOnce
<1> QED
  BY <1>1, <1>2, PTL

\* The rows of decideOnce under one operation id come from one call.
THEOREM OperationSafety == Spec => []OperationDecidedOnce
<1>1. Spec => []RowInv
  BY InitRows, NextRows, PTL DEF Spec
<1>2. RowInv => OperationDecidedOnce
  <2> SUFFICES ASSUME OpBacked,
                      NEW s \in Stream, NEW t \in Stream,
                      NEW i \in 1 .. Len(log[s]), NEW j \in 1 .. Len(log[t])
               PROVE  LET a == log[s][i].by
                          b == log[t][j].by
                      IN  (/\ a # None /\ req[a].kind = "once"
                           /\ b # None /\ req[b].kind = "once"
                           /\ req[a].key = req[b].key) => a = b
    BY DEF RowInv, BackInv, OperationDecidedOnce
  <2> DEFINE a == log[s][i].by
             b == log[t][j].by
  <2>1. a # None /\ req[a].kind = "once" => opClaims[req[a].key].batch.by = a
    BY DEF OpBacked
  <2>2. b # None /\ req[b].kind = "once" => opClaims[req[b].key].batch.by = b
    BY DEF OpBacked
  <2> HIDE DEF a, b
  <2>3. (/\ a # None /\ req[a].kind = "once"
         /\ b # None /\ req[b].kind = "once"
         /\ req[a].key = req[b].key) => a = b
    BY <2>1, <2>2
  <2> QED BY <2>3 DEF a, b
<1> QED
  BY <1>1, <1>2, PTL
=============================================================================
