-------------------------- MODULE CancelSaga_proof --------------------------
(***************************************************************************)
(* The cancel saga for any number of calls, actions and attempts.  The      *)
(* argument: only the holder of the highest epoch adds an operation of an   *)
(* action, and what it found in the fold when it took the action up still   *)
(* holds, because nobody else has added to it; a call that was taken over   *)
(* can only go over what is in the log already.                             *)
(***************************************************************************)
EXTENDS CancelSaga, FiniteSetTheorems, TLAPS

\* The attempts with an operation of a kind are those up to n.
Upto(kind, a, n) == \A i \in Attempt : Logged(kind, a, i) <=> i <= n

\* Attempts are asked for one after the other, each after the failure of the one
\* before, and only the last one may have succeeded.
Counted(a) ==
  \E k, m \in 0 .. MaxAttempts :
    /\ Upto("asked", a, k) /\ Upto("failed", a, m)
    /\ m <= k /\ k <= m + 1
    /\ \A n \in Attempt : Logged("completed", a, n) => n = k /\ n = m + 1

Open(a) == ~Completed(a) /\ ~Manual(a)

\* The places between the decision on an action and its outcome.
Acting == {"escalating", "retrying", "asking", "running", "completing", "failing"}
Trying == Acting \ {"escalating"}
Asked == {"running", "completing", "failing"}

Owns(c) == job[c].epoch = epoch

\* The places of a call that has acquired the ownership once.
Busy == Appending \cup {"deciding", "running"}

\* What a call finds when it comes to an action.
Standing(c) ==
  LET j == job[c]
  IN  /\ j.place \in Acting => j.at \in Action
      /\ j.place \in Trying => j.attempt \in Attempt
      /\ j.place \in Asked => Logged("asked", j.at, j.attempt)
      /\ j.place = "deciding" => j.at >= 1

\* What the owner found when it decided still holds.
Current(c) ==
  LET j == job[c]
  IN  /\ j.place \in Acting => Open(j.at)
      /\ j.place \in Trying => Upto("failed", j.at, j.attempt - 1)
      /\ j.place \in Asked => Upto("asked", j.at, j.attempt)
      /\ j.place = "retrying" => Upto("asked", j.at, j.attempt - 1)

\* Whoever is past the readiness has its proof, and the writer the trail.
Closing(c) ==
  /\ job[c].place = "readying" => AllCompleted
  /\ job[c].place = "transition" => Logged("ready", 0, 0)
  /\ job[c].place = "writing" => Logged("trail", 0, 0)

\* Each round of an action ends with one more failure in the log, with its
\* success, or with its escalation.
Rounds(c) ==
  LET j == job[c]
  IN  /\ j.loops <= MaxAttempts + 1
      /\ j.place = "announcing" => j.loops = 0
      /\ j.place \in Trying => j.loops <= j.attempt
      /\ j.place = "deciding" =>
           \/ j.loops = 0 \/ ~Open(j.at)
           \/ \E n \in Attempt : n >= j.loops /\ Logged("failed", j.at, n)

Epochs ==
  /\ \A c \in Call : job[c].epoch <= epoch
  /\ \A c \in Call : job[c].place \in Busy => job[c].epoch >= 1
  /\ OneOwner

Log ==
  /\ \A a \in Action : Counted(a) /\ (Manual(a) => ~Completed(a))
  /\ Logged("ready", 0, 0) => AllCompleted
  /\ Logged("trail", 0, 0) => Logged("ready", 0, 0)
  /\ phase = "cancelled" => Logged("trail", 0, 0)

SagaInv ==
  /\ TypeOK
  /\ Epochs
  /\ Log
  /\ \A c \in Call : Standing(c) /\ Closing(c) /\ Rounds(c) /\ (Owns(c) => Current(c))

-----------------------------------------------------------------------------

LEMMA SagaConstants ==
  /\ Actions \in Nat /\ MaxAttempts \in Nat /\ MaxAttempts >= 1 /\ MaxFaults \in Nat
  /\ Action = 1 .. Actions /\ Attempt = 1 .. MaxAttempts
  BY SagaAssumption DEF SagaAssumption, Action, Attempt

\* The counts of the fold are the last attempts.
LEMMA CountUpto ==
  ASSUME NEW kind \in Kind, NEW a \in Action, NEW k \in 0 .. MaxAttempts, Upto(kind, a, k)
  PROVE  Cardinality({n \in Attempt : Logged(kind, a, n)}) = k
<1>1. {n \in Attempt : Logged(kind, a, n)} = 1 .. k
  BY SagaConstants DEF Upto
<1>2. Cardinality(1 .. k) = k
  <2>1. Cardinality(1 .. k) = IF 1 > k THEN 0 ELSE k - 1 + 1
    BY FS_Interval
  <2> QED
    BY <2>1
<1> QED
  BY <1>1, <1>2

\* A kind of operations of an action has one last attempt.
LEMMA UptoOnce ==
  ASSUME NEW kind, NEW a, NEW k \in 0 .. MaxAttempts, NEW m \in 0 .. MaxAttempts,
         Upto(kind, a, k), Upto(kind, a, m)
  PROVE  k = m
<1>1. CASE k < m
  BY <1>1, SagaConstants DEF Upto
<1>2. CASE m < k
  BY <1>2, SagaConstants DEF Upto
<1> QED
  BY <1>1, <1>2

LEMMA SagaInitInv == Init => SagaInv
<1> SUFFICES ASSUME Init PROVE SagaInv
  OBVIOUS
<1> USE SagaConstants
<1>1. TypeOK
  BY DEF Init, TypeOK, Job, Place, Op
<1>2. Epochs
  BY DEF Init, Epochs, OneOwner, Busy, Appending
<1>3. Log
  <2>1. \A kind, a, n : ~Logged(kind, a, n)
    BY DEF Init, Logged
  <2>2. ASSUME NEW a \in Action PROVE Counted(a)
    <3>1. Upto("asked", a, 0) /\ Upto("failed", a, 0)
      BY <2>1 DEF Upto
    <3> QED
      BY <2>1, <3>1 DEF Counted
  <2> QED
    BY <2>1, <2>2 DEF Log, Manual, Completed, Init
<1>4. \A c \in Call : Standing(c) /\ Closing(c) /\ Rounds(c) /\ (Owns(c) => Current(c))
  BY DEF Init, Standing, Closing, Rounds, Current, Acting, Trying, Asked
<1> QED
  BY <1>1, <1>2, <1>3, <1>4 DEF SagaInv

\* No operation of an action is added.
Same == \A op \in Op : op.action # 0 => (op \in done' <=> op \in done)

LEMMA LoggedSame ==
  ASSUME Same, NEW kind \in Kind, NEW a \in Action, NEW n \in 0 .. MaxAttempts
  PROVE  Logged(kind, a, n)' <=> Logged(kind, a, n)
<1>1. Of(kind, a, n) \in Op /\ Of(kind, a, n).action # 0
  BY SagaConstants DEF Of, Op
<1> QED
  BY <1>1 DEF Same, Logged, Of

\* What a call relies on is not taken back.
LEMMA StandingStays ==
  ASSUME SagaInv, NEW d \in Call, job'[d] = job[d], done \subseteq done',
         Standing(d), Closing(d), Rounds(d)
  PROVE  Standing(d)' /\ Closing(d)' /\ Rounds(d)'
<1>1. \A kind, a, n : Logged(kind, a, n) => Logged(kind, a, n)'
  BY DEF Logged, Of
<1>2. Standing(d)'
  BY <1>1 DEF Standing
<1>3. Closing(d)'
  BY <1>1 DEF Closing, AllCompleted, Completed
<1>4. Rounds(d)'
  BY <1>1 DEF Rounds, Open, Completed, Manual
<1> QED
  BY <1>2, <1>3, <1>4

LEMMA CurrentStays ==
  ASSUME SagaInv, NEW d \in Call, job'[d] = job[d], Same, Current(d), Standing(d)
  PROVE  Current(d)'
<1> DEFINE j == job[d]
<1>1. SUFFICES ASSUME j.place \in Acting PROVE Current(d)'
  BY DEF Current, Acting, Trying, Asked
<1>2. j.at \in Action
  BY <1>1 DEF Standing
<1>3. \A kind \in Kind, n \in 0 .. MaxAttempts : Logged(kind, j.at, n)' <=> Logged(kind, j.at, n)
  BY <1>2, LoggedSame
<1>4. Open(j.at)' <=> Open(j.at)
  BY <1>3, SagaConstants DEF Open, Completed, Manual, Kind
<1>5. \A kind \in Kind : \A n : Upto(kind, j.at, n)' <=> Upto(kind, j.at, n)
  BY <1>3, SagaConstants DEF Upto
<1> QED
  BY <1>4, <1>5 DEF Current, Kind

-----------------------------------------------------------------------------

\* A step of one call that keeps its epoch; what it adds to an action it adds as
\* the owner.
LEMMA OneMoves ==
  ASSUME SagaInv, NEW c \in Call, NEW r \in Job, r.epoch = job[c].epoch,
         job' = [job EXCEPT ![c] = r], epoch' = epoch,
         done \subseteq done', done' \subseteq Op,
         phase' \in {"active", "cancelled"}, faults' \in 0 .. MaxFaults,
         Log', Same \/ (Owns(c) /\ job[c].epoch >= 1),
         r.place \in Busy => r.epoch >= 1,
         Standing(c)', Closing(c)', Rounds(c)', Owns(c) => Current(c)'
  PROVE  SagaInv'
<1>1. job \in [Call -> Job] /\ job' \in [Call -> Job] /\ job'[c] = r
  BY DEF SagaInv, TypeOK
<1>2. \A d \in Call : d # c => job'[d] = job[d]
  BY <1>1
<1>3. \A d \in Call : job'[d].epoch = job[d].epoch
  BY <1>1, <1>2
<1>4. TypeOK'
  BY <1>1 DEF SagaInv, TypeOK
<1>5. Epochs'
  BY <1>1, <1>2, <1>3 DEF SagaInv, Epochs, OneOwner
<1>6. ASSUME NEW d \in Call
      PROVE  Standing(d)' /\ Closing(d)' /\ Rounds(d)' /\ (Owns(d)' => Current(d)')
  <2>1. CASE d = c
    BY <2>1, <1>3 DEF Owns
  <2>2. CASE d # c
    <3>1. Standing(d) /\ Closing(d) /\ Rounds(d) /\ (Owns(d) => Current(d))
      BY DEF SagaInv
    <3>2. Standing(d)' /\ Closing(d)' /\ Rounds(d)'
      BY <2>2, <1>2, <3>1, StandingStays
    <3>3. ASSUME Owns(d)' PROVE Current(d)'
      <4>1. Owns(d)
        BY <3>3, <1>3 DEF Owns
      <4>2. Same
        BY <4>1, <2>2 DEF SagaInv, Epochs, OneOwner, Owns
      <4> QED
        BY <4>1, <4>2, <3>1, <2>2, <1>2, CurrentStays
    <3> QED
      BY <3>2, <3>3
  <2> QED
    BY <2>1, <2>2
<1> QED
  BY <1>4, <1>5, <1>6 DEF SagaInv

\* A step that appends nothing.
LEMMA Quiet ==
  ASSUME SagaInv, NEW c \in Call, NEW r \in Job, r.epoch = job[c].epoch,
         job' = [job EXCEPT ![c] = r], UNCHANGED <<done, epoch, phase>>,
         faults' \in 0 .. MaxFaults,
         r.place \in Busy => r.epoch >= 1,
         Standing(c)', Closing(c)', Rounds(c)', Owns(c) => Current(c)'
  PROVE  SagaInv'
<1>1. Log'
  BY DEF SagaInv, Log, Counted, Upto, Completed, Manual, AllCompleted, Logged
<1>2. Same
  BY DEF Same
<1>3. done \subseteq done' /\ done' \subseteq Op /\ phase' \in {"active", "cancelled"} /\ epoch' = epoch
  BY DEF SagaInv, TypeOK
<1> QED
  BY <1>1, <1>2, <1>3, OneMoves

LEMMA LogStays ==
  ASSUME SagaInv, done' = done, phase' = phase
  PROVE  Log' /\ Same
  BY DEF SagaInv, Log, Counted, Upto, Completed, Manual, AllCompleted, Logged, Same

LEMMA AcquireKeeps ==
  ASSUME SagaInv, NEW c \in Call, Acquire(c)
  PROVE  SagaInv'
<1> DEFINE r == [place |-> "announcing", epoch |-> epoch + 1, at |-> 0, attempt |-> 0,
                 loops |-> 0, failed |-> FALSE]
<1>1. epoch \in Nat /\ job \in [Call -> Job] /\ r \in Job
  BY SagaConstants DEF SagaInv, TypeOK, Job, Place
<1>2. job' = [job EXCEPT ![c] = r] /\ job' \in [Call -> Job] /\ job'[c] = r
  BY <1>1 DEF Acquire
<1>3. \A d \in Call : d # c => job'[d] = job[d]
  BY <1>1, <1>2
<1>4. r.place = "announcing" /\ r.epoch = epoch + 1 /\ r.loops = 0
  OBVIOUS
<1> HIDE DEF r
<1>5. TypeOK'
  BY <1>1, <1>2 DEF Acquire, SagaInv, TypeOK
<1>6. Epochs'
  <2>1. epoch' = epoch + 1
    BY DEF Acquire
  <2>2. \A d \in Call : job[d].epoch <= epoch /\ job[d].epoch \in Nat
    BY <1>1 DEF SagaInv, Epochs, Job
  <2> QED
    BY <1>1, <1>2, <1>3, <1>4, <2>1, <2>2 DEF SagaInv, Epochs, OneOwner
<1>7. Log'
  BY LogStays DEF Acquire
<1>8. ASSUME NEW d \in Call
      PROVE  Standing(d)' /\ Closing(d)' /\ Rounds(d)' /\ (Owns(d)' => Current(d)')
  <2>1. CASE d = c
    BY <2>1, <1>2, <1>4, SagaConstants
    DEF Standing, Closing, Rounds, Current, Acting, Trying, Asked
  <2>2. CASE d # c
    <3>1. Standing(d) /\ Closing(d) /\ Rounds(d) /\ job[d].epoch \in Nat /\ job[d].epoch <= epoch
      BY <1>1 DEF SagaInv, Epochs, Job
    <3>2. Standing(d)' /\ Closing(d)' /\ Rounds(d)'
      BY <2>2, <1>3, <3>1, StandingStays DEF Acquire
    <3>3. ~Owns(d)'
      BY <2>2, <1>1, <1>3, <3>1 DEF Owns, Acquire
    <3> QED
      BY <3>2, <3>3
  <2> QED
    BY <2>1, <2>2
<1> QED
  BY <1>5, <1>6, <1>7, <1>8 DEF SagaInv

LEMMA RunKeeps ==
  ASSUME SagaInv, NEW c \in Call, Run(c)
  PROVE  SagaInv'
<1>1. PICK place \in {"completing", "failing"} : Goes(c, place)
  BY DEF Run
<1> DEFINE j == job[c]
           r == [j EXCEPT !.place = place]
<1>2. j \in Job /\ Standing(c) /\ Rounds(c) /\ (Owns(c) => Current(c)) /\ j.place = "running" /\ j.epoch >= 1
  BY DEF Run, SagaInv, TypeOK, Epochs, Busy
<1>3. /\ r \in Job /\ r.epoch = j.epoch /\ r.place = place /\ r.loops = j.loops
      /\ r.at = j.at /\ r.attempt = j.attempt
  BY <1>2 DEF Job, Place
<1>4. job' = [job EXCEPT ![c] = r] /\ job'[c] = r
  BY <1>1 DEF Goes, SagaInv, TypeOK
<1> HIDE DEF r
<1>5. \A kind, a, n : Logged(kind, a, n)' <=> Logged(kind, a, n)
  BY DEF Run, Logged
<1>6. Standing(c)' /\ Closing(c)' /\ Rounds(c)'
  BY <1>1, <1>2, <1>3, <1>4, <1>5 DEF Standing, Closing, Rounds, Acting, Trying, Asked
<1>7. Owns(c) => Current(c)'
  BY <1>1, <1>2, <1>3, <1>4, <1>5
  DEF Current, Acting, Trying, Asked, Open, Completed, Manual, Upto
<1>8. faults' \in 0 .. MaxFaults /\ UNCHANGED <<done, epoch, phase>>
  BY DEF Run, SagaInv, TypeOK
<1> QED
  BY <1>2, <1>3, <1>4, <1>6, <1>7, <1>8, Quiet

\* A call goes on towards the transition, or ends.
LEMMA Heads ==
  ASSUME SagaInv, NEW c \in Call,
         NEW place \in {"owning", "readying", "writing", "over", "cancelled", "dead"},
         Goes(c, place), epoch' = epoch, done \subseteq done', done' \subseteq Op,
         phase' \in {"active", "cancelled"}, faults' \in 0 .. MaxFaults, Log', Same,
         place = "readying" => AllCompleted' /\ job[c].epoch >= 1,
         place = "writing" => Logged("trail", 0, 0)'
  PROVE  SagaInv'
<1> DEFINE r == [job[c] EXCEPT !.place = place]
<1>1. job[c] \in Job /\ Rounds(c)
  BY DEF SagaInv, TypeOK
<1>2. r \in Job /\ r.epoch = job[c].epoch /\ r.place = place /\ r.loops = job[c].loops
  BY <1>1 DEF Job, Place
<1>3. job' = [job EXCEPT ![c] = r] /\ job'[c] = r
  BY DEF Goes, SagaInv, TypeOK
<1> HIDE DEF r
<1>4. Standing(c)' /\ Closing(c)' /\ Current(c)'
  BY <1>2, <1>3 DEF Standing, Closing, Current, Acting, Trying, Asked
<1>5. Rounds(c)'
  BY <1>1, <1>2, <1>3 DEF Rounds, Trying, Acting
<1>6. r.place \in Busy => r.epoch >= 1
  BY <1>2 DEF Busy, Appending
<1> QED
  BY <1>2, <1>3, <1>4, <1>5, <1>6, OneMoves

LEMMA HeadsQuietly ==
  ASSUME SagaInv, NEW c \in Call,
         NEW place \in {"owning", "readying", "over", "dead"},
         Goes(c, place), UNCHANGED <<done, epoch, phase>>, faults' \in 0 .. MaxFaults,
         place = "readying" => AllCompleted /\ job[c].epoch >= 1
  PROVE  SagaInv'
<1>1. done \subseteq done' /\ done' \subseteq Op /\ phase' \in {"active", "cancelled"} /\ epoch' = epoch
  BY DEF SagaInv, TypeOK
<1>2. AllCompleted' <=> AllCompleted
  BY DEF AllCompleted, Completed, Logged
<1> QED
  BY <1>1, <1>2, LogStays, Heads

LEMMA StartKeeps ==
  ASSUME SagaInv, NEW c \in Call, Start(c)
  PROVE  SagaInv'
<1>1. PICK place \in {"owning", "over"} : Goes(c, place)
  BY DEF Start
<1> QED
  BY <1>1, HeadsQuietly DEF Start, SagaInv, TypeOK

LEMMA EndsKeep ==
  ASSUME SagaInv, NEW c \in Call, Refused(c) \/ AppendThrows(c) \/ Crash(c)
  PROVE  SagaInv'
<1>1. CASE Refused(c)
  BY <1>1, HeadsQuietly DEF Refused, SagaInv, TypeOK
<1>2. CASE AppendThrows(c)
  <2>1. faults' \in 0 .. MaxFaults
    BY <1>2, SagaConstants DEF AppendThrows, Throws, SagaInv, TypeOK
  <2> QED
    BY <1>2, <2>1, HeadsQuietly DEF AppendThrows, Throws
<1>3. CASE Crash(c)
  BY <1>3, HeadsQuietly DEF Crash, SagaInv, TypeOK
<1> QED
  BY <1>1, <1>2, <1>3

LEMMA ClosesKeeps ==
  ASSUME SagaInv, NEW c \in Call, Closes(c)
  PROVE  SagaInv'
<1>1. job[c].epoch >= 1
  BY DEF Closes, SagaInv, Epochs, Busy
<1>2. CASE AllCompleted /\ ~job[c].failed
  BY <1>1, <1>2, HeadsQuietly DEF Closes, SagaInv, TypeOK
<1>3. CASE ~(AllCompleted /\ ~job[c].failed)
  BY <1>3, HeadsQuietly DEF Closes, SagaInv, TypeOK
<1> QED
  BY <1>2, <1>3

LEMMA TrailKeeps ==
  ASSUME SagaInv, NEW c \in Call, Trail(c)
  PROVE  SagaInv'
<1> DEFINE op == Of("trail", 0, 0)
<1>1. op \in Op /\ op.action = 0 /\ op.kind = "trail"
  BY SagaConstants DEF Of, Op, Kind
<1>2. Logged("ready", 0, 0)
  BY DEF Trail, SagaInv, Closing
<1>3. epoch' = epoch /\ phase' = phase /\ faults' = faults /\ faults' \in 0 .. MaxFaults
      /\ phase' \in {"active", "cancelled"} /\ done \subseteq Op
  BY DEF Trail, SagaInv, TypeOK
<1>4. CASE done' = done \cup {op} /\ Goes(c, "writing")
  <2>1. Same
    BY <1>1, <1>4 DEF Same
  <2>2. \A kind, a, n : kind # "trail" => (Logged(kind, a, n)' <=> Logged(kind, a, n))
    BY <1>4 DEF Logged, Of
  <2>3. Log'
    BY <1>2, <1>3, <1>4, <2>2
    DEF SagaInv, Log, Counted, Upto, Completed, Manual, AllCompleted, Logged
  <2> HIDE DEF op
  <2>4. done \subseteq done' /\ done' \subseteq Op
    BY <1>1, <1>3, <1>4
  <2>5. Logged("trail", 0, 0)'
    BY <1>4 DEF Logged, op
  <2> QED
    BY <1>3, <1>4, <2>1, <2>3, <2>4, <2>5, Heads
<1>5. CASE Goes(c, "over") /\ done' = done
  BY <1>3, <1>5, HeadsQuietly
<1> QED
  BY <1>4, <1>5 DEF Trail

LEMMA WriteKeeps ==
  ASSUME SagaInv, NEW c \in Call, Write(c)
  PROVE  SagaInv'
<1>1. Logged("trail", 0, 0)
  BY DEF Write, SagaInv, Closing
<1>2. Log'
  BY <1>1 DEF Write, SagaInv, Log, Counted, Upto, Completed, Manual, AllCompleted, Logged
<1>3. Same
  BY DEF Write, Same
<1> QED
  BY <1>2, <1>3, Heads DEF Write, SagaInv, TypeOK

-----------------------------------------------------------------------------

LEMMA PassedKeeps ==
  ASSUME SagaInv, NEW c \in Call, job[c].place = "deciding", job[c].at <= Actions,
         NEW failed \in BOOLEAN, Passed(c, failed), UNCHANGED <<done, epoch, phase, faults>>
  PROVE  SagaInv'
<1> DEFINE j == job[c]
           r == [place |-> "deciding", epoch |-> j.epoch, at |-> j.at + 1, attempt |-> 0,
                 loops |-> 0, failed |-> j.failed \/ failed]
<1>1. j \in Job /\ Standing(c) /\ j.epoch >= 1 /\ job \in [Call -> Job]
  BY DEF SagaInv, TypeOK, Epochs, Busy
<1>2. j.at \in Action /\ j.at + 1 \in 0 .. Actions + 1 /\ j.at + 1 >= 1
  BY <1>1, SagaConstants DEF Standing, Job
<1>3. r \in Job
  BY <1>1, <1>2, SagaConstants DEF Job, Place
<1>4. r.place = "deciding" /\ r.epoch = j.epoch /\ r.at = j.at + 1 /\ r.loops = 0
  OBVIOUS
<1>5. job' = [job EXCEPT ![c] = r] /\ job'[c] = r
  BY <1>1 DEF Passed, Turns
<1> HIDE DEF r
<1>6. Standing(c)' /\ Closing(c)' /\ Rounds(c)' /\ Current(c)'
  BY <1>2, <1>4, <1>5, SagaConstants
  DEF Standing, Closing, Rounds, Current, Acting, Trying, Asked
<1>7. faults' \in 0 .. MaxFaults
  BY DEF SagaInv, TypeOK
<1> QED
  BY <1>1, <1>3, <1>4, <1>5, <1>6, <1>7, Quiet

\* A decision takes an open action up, at the attempt the fold points to.
LEMMA RoundKeeps ==
  ASSUME SagaInv, NEW c \in Call, job[c].place = "deciding", job[c].at \in Action,
         NEW place \in {"asking", "escalating", "retrying"}, NEW n \in 0 .. MaxAttempts,
         Round(c, place, n), UNCHANGED <<done, epoch, phase, faults>>,
         Open(job[c].at), job[c].loops <= MaxAttempts,
         place # "escalating" =>
           n \in Attempt /\ job[c].loops + 1 <= n /\ Upto("failed", job[c].at, n - 1),
         place = "retrying" => Upto("asked", job[c].at, n - 1)
  PROVE  SagaInv'
<1> DEFINE j == job[c]
           r == [place |-> place, epoch |-> j.epoch, at |-> j.at, attempt |-> n,
                 loops |-> j.loops + 1, failed |-> j.failed]
<1>1. j \in Job /\ j.epoch >= 1 /\ job \in [Call -> Job]
  BY DEF SagaInv, TypeOK, Epochs, Busy
<1>2. r \in Job
  BY <1>1, SagaConstants DEF Job, Place
<1>3. /\ r.place = place /\ r.epoch = j.epoch /\ r.at = j.at /\ r.attempt = n
      /\ r.loops = j.loops + 1
  OBVIOUS
<1>4. job' = [job EXCEPT ![c] = r] /\ job'[c] = r
  BY <1>1 DEF Round, Turns
<1> HIDE DEF r
<1>5. Standing(c)' /\ Closing(c)'
  BY <1>3, <1>4 DEF Standing, Closing, Acting, Trying, Asked
<1>6. Rounds(c)'
  BY <1>1, <1>3, <1>4, SagaConstants DEF Rounds, Trying, Acting, Job
<1>7. Current(c)'
  BY <1>3, <1>4 DEF Current, Acting, Trying, Asked, Open, Completed, Manual, Upto, Logged
<1>8. faults' \in 0 .. MaxFaults
  BY DEF SagaInv, TypeOK
<1> QED
  BY <1>1, <1>2, <1>3, <1>4, <1>5, <1>6, <1>7, <1>8, Quiet

LEMMA DecideKeeps ==
  ASSUME SagaInv, NEW c \in Call, Decide(c)
  PROVE  SagaInv'
<1> DEFINE j == job[c]
           a == j.at
<1>1. /\ j \in Job /\ Standing(c) /\ Rounds(c) /\ j.place = "deciding" /\ a <= Actions
      /\ UNCHANGED <<done, epoch, phase, faults>>
  BY DEF SagaInv, TypeOK, Decide
<1>2. a \in Action
  BY <1>1, SagaConstants DEF Standing, Job
<1>3. PICK k, m \in 0 .. MaxAttempts :
        /\ Upto("asked", a, k) /\ Upto("failed", a, m)
        /\ m <= k /\ k <= m + 1
  BY <1>2 DEF SagaInv, Log, Counted
<1>4. Attempts(a) = k
  BY <1>2, <1>3, CountUpto DEF Attempts, Kind
<1>5. Failures(a) = m
  BY <1>2, <1>3, CountUpto DEF Failures, Kind
<1>6. CASE Passed(c, TRUE) \/ Passed(c, FALSE)
  BY <1>1, <1>6, PassedKeeps
<1>7. CASE ~(Passed(c, TRUE) \/ Passed(c, FALSE))
  <2>1. Open(a)
    BY <1>7 DEF Decide, Open, Blocked
  <2>2. j.loops <= m /\ j.loops \in Nat
    BY <2>1, <1>1, <1>3, SagaConstants DEF Rounds, Upto, Job
  <2>3. CASE k = 0
    <3>1. Round(c, "asking", 1)
      BY <2>3, <1>7, <1>4 DEF Decide
    <3>2. m = 0
      BY <2>3, <1>3
    <3> QED
      BY <3>1, <3>2, <2>1, <2>2, <1>1, <1>2, <1>3, RoundKeeps, SagaConstants
  <2>4. CASE k # 0 /\ k > m
    <3>1. Round(c, "asking", k)
      BY <2>4, <1>7, <1>4, <1>5 DEF Decide, Resumed
    <3>2. k = m + 1 /\ k - 1 = m
      BY <2>4, <1>3
    <3>3. j.loops + 1 <= k /\ j.loops <= MaxAttempts /\ k \in Attempt
      BY <3>2, <2>2, SagaConstants
    <3> QED
      BY <3>1, <3>2, <3>3, <2>1, <2>2, <1>1, <1>2, <1>3, RoundKeeps, SagaConstants
  <2>5. CASE k # 0 /\ k = m /\ m >= MaxAttempts
    <3>1. Attempts(a) # 0 /\ ~(Attempts(a) > Failures(a)) /\ Exhausted(a)
      BY <2>5, <1>4, <1>5, SagaConstants DEF Exhausted
    <3>2. Round(c, "escalating", 0)
      BY <3>1, <1>7 DEF Decide
    <3> QED
      BY <3>2, <2>1, <2>2, <1>1, <1>2, RoundKeeps, SagaConstants
  <2>6. CASE k # 0 /\ k = m /\ m < MaxAttempts
    <3>0. Attempts(a) # 0 /\ ~(Attempts(a) > Failures(a)) /\ ~Exhausted(a)
      BY <2>6, <1>4, <1>5, SagaConstants DEF Exhausted
    <3>1. Round(c, "retrying", m + 1)
      BY <3>0, <1>7, <1>5 DEF Decide
    <3>2. m + 1 \in Attempt /\ (m + 1) - 1 = m /\ j.loops + 1 <= m + 1 /\ j.loops <= MaxAttempts
      BY <2>6, <2>2, SagaConstants
    <3>3. Upto("failed", a, (m + 1) - 1) /\ Upto("asked", a, (m + 1) - 1)
      BY <3>2, <2>6, <1>3
    <3> QED
      BY <3>1, <3>2, <3>3, <2>1, <1>1, <1>2, RoundKeeps, SagaConstants
  <2> QED
    BY <2>3, <2>4, <2>5, <2>6, <1>3, SagaConstants
<1> QED
  BY <1>6, <1>7

-----------------------------------------------------------------------------

LEMMA LoggedAdds ==
  ASSUME NEW kind, NEW a, NEW n, done' = done \cup {Of(kind, a, n)}
  PROVE  \A kind2, a2, n2 :
           Logged(kind2, a2, n2)' <=>
             Logged(kind2, a2, n2) \/ (kind2 = kind /\ a2 = a /\ n2 = n)
  BY DEF Logged, Of

LEMMA CountedStays ==
  ASSUME NEW b, Counted(b),
         \A kind \in {"asked", "failed", "completed"}, n \in Attempt :
            Logged(kind, b, n)' <=> Logged(kind, b, n)
  PROVE  Counted(b)'
<1>1. PICK k, m \in 0 .. MaxAttempts :
        /\ Upto("asked", b, k) /\ Upto("failed", b, m)
        /\ m <= k /\ k <= m + 1
        /\ \A n \in Attempt : Logged("completed", b, n) => n = k /\ n = m + 1
  BY DEF Counted
<1>2. Upto("asked", b, k)' /\ Upto("failed", b, m)'
  BY <1>1 DEF Upto
<1> QED
  BY <1>1, <1>2 DEF Counted

\* An operation that is no attempt, outcome or escalation of an action.
LEMMA AddsNoOutcome ==
  ASSUME SagaInv, NEW kind, NEW a, NEW n, done' = done \cup {Of(kind, a, n)}, phase' = phase,
         kind \in {"requested", "retry", "ready"}, kind = "ready" => AllCompleted
  PROVE  Log'
<1>1. \A k2, a2, n2 : k2 \notin {"requested", "retry", "ready"} =>
        (Logged(k2, a2, n2)' <=> Logged(k2, a2, n2))
  BY LoggedAdds
<1>2. \A b : Completed(b)' <=> Completed(b)
  BY <1>1 DEF Completed
<1>3. \A b : Manual(b)' <=> Manual(b)
  BY <1>1 DEF Manual
<1>4. ASSUME NEW b \in Action PROVE Counted(b)' /\ (Manual(b)' => ~Completed(b)')
  <2>1. Counted(b) /\ (Manual(b) => ~Completed(b))
    BY DEF SagaInv, Log
  <2> QED
    BY <2>1, <1>1, <1>2, <1>3, CountedStays
<1>5. Logged("ready", 0, 0)' => AllCompleted'
  BY <1>2, LoggedAdds DEF SagaInv, Log, AllCompleted
<1>6. Logged("trail", 0, 0)' => Logged("ready", 0, 0)'
  BY <1>1, LoggedAdds DEF SagaInv, Log
<1>7. phase' = "cancelled" => Logged("trail", 0, 0)'
  BY <1>1 DEF SagaInv, Log
<1> QED
  BY <1>4, <1>5, <1>6, <1>7 DEF Log

\* An operation of an open action at the attempt the owner is at.
LEMMA AddsOutcome ==
  ASSUME SagaInv, NEW kind, NEW a \in Action, NEW n \in 0 .. MaxAttempts,
         done' = done \cup {Of(kind, a, n)}, phase' = phase, Open(a),
         kind \in {"asked", "failed", "completed", "manual"},
         kind = "manual" => n = 0,
         kind # "manual" => n \in Attempt /\ Upto("failed", a, n - 1),
         kind \in {"failed", "completed"} => Upto("asked", a, n)
  PROVE  Log' /\ (kind = "asked" => Upto("asked", a, n)')
<1>1. \A k2, a2, n2 : k2 \notin {"asked", "failed", "completed", "manual"} =>
        (Logged(k2, a2, n2)' <=> Logged(k2, a2, n2))
  BY LoggedAdds
<1>2. \A k2, b, n2 : b # a => (Logged(k2, b, n2)' <=> Logged(k2, b, n2))
  BY LoggedAdds
<1>3. \A b : Completed(b) => Completed(b)'
  BY LoggedAdds DEF Completed
<1>4. ASSUME NEW b \in Action, b # a
      PROVE  Counted(b)' /\ (Manual(b)' => ~Completed(b)')
  <2>1. Counted(b) /\ (Manual(b) => ~Completed(b))
    BY DEF SagaInv, Log
  <2> QED
    BY <2>1, <1>2, <1>4, CountedStays DEF Manual, Completed
<1>5. PICK k, m \in 0 .. MaxAttempts :
        Upto("asked", a, k) /\ Upto("failed", a, m) /\ m <= k /\ k <= m + 1
  BY DEF SagaInv, Log, Counted
<1>6. \A i \in Attempt : ~Logged("completed", a, i)
  BY DEF Open, Completed
<1>7. CASE kind = "manual"
  <2>1. Counted(a)'
    BY <1>7, LoggedAdds, CountedStays DEF SagaInv, Log
  <2>2. ~Completed(a)'
    BY <1>6, <1>7, LoggedAdds DEF Completed
  <2> QED
    BY <2>1, <2>2, <1>1, <1>3, <1>4, <1>7 DEF SagaInv, Log, AllCompleted
<1>8. CASE kind # "manual"
  <2>1. n \in Attempt /\ m = n - 1 /\ n - 1 \in 0 .. MaxAttempts
    <3>1. n \in Attempt /\ n - 1 \in 0 .. MaxAttempts
      BY <1>8, SagaConstants
    <3> QED
      BY <3>1, <1>5, <1>8, UptoOnce
  <2>2. ~Manual(a)'
    BY <1>8, LoggedAdds DEF Open, Manual
  <2>3. CASE kind = "asked"
    <3>1. Upto("asked", a, n)'
      BY <2>1, <2>3, <1>5, LoggedAdds, SagaConstants DEF Upto
    <3>2. Upto("failed", a, n - 1)'
      BY <2>3, <1>8, LoggedAdds DEF Upto
    <3>3. \A i \in Attempt : ~Logged("completed", a, i)'
      BY <2>3, <1>6, LoggedAdds
    <3>4. Counted(a)'
      BY <3>1, <3>2, <3>3, <2>1, SagaConstants DEF Counted
    <3> QED
      BY <3>1, <3>4, <2>2, <1>1, <1>3, <1>4, <1>8 DEF SagaInv, Log, AllCompleted
  <2>4. CASE kind = "completed"
    <3>1. Upto("asked", a, n)'
      BY <2>4, LoggedAdds DEF Upto
    <3>2. Upto("failed", a, n - 1)'
      BY <2>4, <1>8, LoggedAdds DEF Upto
    <3>3. \A i \in Attempt : Logged("completed", a, i)' => i = n /\ i = (n - 1) + 1
      BY <2>4, <1>6, LoggedAdds, SagaConstants
    <3>4. Counted(a)'
      BY <3>1, <3>2, <3>3, <2>1, SagaConstants DEF Counted
    <3> QED
      BY <3>4, <2>2, <2>4, <1>1, <1>3, <1>4, <1>8 DEF SagaInv, Log, AllCompleted
  <2>5. CASE kind = "failed"
    <3>1. Upto("asked", a, n)'
      BY <2>5, LoggedAdds DEF Upto
    <3>2. Upto("failed", a, n)'
      BY <2>1, <2>5, <1>8, LoggedAdds, SagaConstants DEF Upto
    <3>3. \A i \in Attempt : ~Logged("completed", a, i)'
      BY <2>5, <1>6, LoggedAdds
    <3>4. Counted(a)'
      BY <3>1, <3>2, <3>3, <2>1, SagaConstants DEF Counted
    <3> QED
      BY <3>4, <2>2, <2>5, <1>1, <1>3, <1>4, <1>8 DEF SagaInv, Log, AllCompleted
  <2> QED
    BY <2>3, <2>4, <2>5, <1>8
<1> QED
  BY <1>7, <1>8

\* The owner appends what its decision calls for, on the fold as it was.
LEMMA OwnerAppends ==
  ASSUME SagaInv, NEW c \in Call, Owns(c), job[c].place \in Appending,
         done' = done \cup {OpOf(c)}, phase' = phase,
         NEW a, a = job[c].at, NEW n, n = job[c].attempt
  PROVE  Log' /\ (job[c].place = "asking" => Upto("asked", a, n)')
<1> DEFINE j == job[c]
<1>1. /\ j \in Job /\ Standing(c) /\ Closing(c) /\ Current(c)
  BY DEF SagaInv, TypeOK
<1>2. j.attempt \in 0 .. MaxAttempts /\ 0 \in 0 .. MaxAttempts
  BY <1>1, SagaConstants DEF Job
<1>3. CASE j.place \in {"announcing", "retrying", "readying"}
  <2>1. PICK kind \in {"requested", "retry", "ready"}, b \in {0, a}, i \in {0, j.attempt - 1} :
          OpOf(c) = Of(kind, b, i) /\ (kind = "ready" => j.place = "readying")
    BY <1>3 DEF OpOf
  <2>2. Log'
    BY <2>1, <1>1, AddsNoOutcome DEF Closing
  <2> QED
    BY <2>2, <1>3
<1>4. CASE j.place = "escalating"
  <2>1. OpOf(c) = Of("manual", a, 0) /\ a \in Action /\ Open(a)
    BY <1>1, <1>4 DEF OpOf, Standing, Current, Acting
  <2> QED
    BY <2>1, <1>2, <1>4, AddsOutcome
<1>5. CASE j.place = "asking"
  <2>1. /\ OpOf(c) = Of("asked", a, n) /\ a \in Action /\ Open(a)
        /\ n \in Attempt /\ Upto("failed", a, n - 1)
    BY <1>1, <1>5 DEF OpOf, Standing, Current, Acting, Trying
  <2> QED
    BY <2>1, <1>2, <1>5, AddsOutcome
<1>6. CASE j.place \in {"completing", "failing"}
  <2>1. PICK kind \in {"completed", "failed"} : OpOf(c) = Of(kind, a, n)
    BY <1>6 DEF OpOf
  <2>2. /\ a \in Action /\ Open(a) /\ n \in Attempt
        /\ Upto("failed", a, n - 1) /\ Upto("asked", a, n)
    BY <1>1, <1>6 DEF Standing, Current, Acting, Trying, Asked
  <2> QED
    BY <2>1, <2>2, <1>2, <1>6, AddsOutcome
<1> QED
  BY <1>3, <1>4, <1>5, <1>6 DEF Appending

LEMMA AppendKeeps ==
  ASSUME SagaInv, NEW c \in Call, Append(c)
  PROVE  SagaInv'
<1> DEFINE j == job[c]
           r == [place |-> After(j.place), epoch |-> j.epoch,
                 at |-> IF j.place = "announcing" THEN 1 ELSE j.at,
                 attempt |-> j.attempt, loops |-> j.loops, failed |-> j.failed]
<1>1. /\ j \in Job /\ Standing(c) /\ Closing(c) /\ Rounds(c) /\ (Owns(c) => Current(c))
      /\ j.place \in Appending /\ j.epoch >= 1 /\ job \in [Call -> Job] /\ done \subseteq Op
      /\ j.epoch <= epoch /\ epoch \in Nat /\ j.epoch \in Nat
  BY DEF SagaInv, TypeOK, Append, Epochs, Busy, Job
<1>2. /\ done' = done \cup {OpOf(c)} /\ UNCHANGED <<epoch, phase, faults>>
      /\ OpOf(c) \in done \/ Owns(c)
  BY <1>1 DEF Append, Appends, Owns
<1>3. j.at \in 0 .. Actions + 1 /\ j.attempt \in 0 .. MaxAttempts
  BY <1>1 DEF Job
<1>0. PICK a, n : a = j.at /\ n = j.attempt
  OBVIOUS
<1>4. OpOf(c) \in Op
  <2>1. j.place \in Acting => j.at \in 0 .. Actions
    BY <1>1, SagaConstants DEF Standing
  <2>2. j.place = "retrying" => j.attempt - 1 \in 0 .. MaxAttempts
    BY <1>1, SagaConstants DEF Standing, Trying, Acting
  <2> QED
    BY <1>1, <1>3, <2>1, <2>2, SagaConstants DEF OpOf, Of, Op, Kind, Appending, Acting
<1>5. r \in Job
  <2>1. After(j.place) \in Place
    BY DEF After, Place
  <2>2. (IF j.place = "announcing" THEN 1 ELSE j.at) \in 0 .. Actions + 1
    BY <1>3, SagaConstants
  <2> QED
    BY <1>1, <1>3, <2>1, <2>2 DEF Job
<1>6. /\ r.place = After(j.place) /\ r.epoch = j.epoch
      /\ r.at = IF j.place = "announcing" THEN 1 ELSE j.at
      /\ r.attempt = j.attempt /\ r.loops = j.loops
  OBVIOUS
<1>7. job' = [job EXCEPT ![c] = r] /\ job'[c] = r
  BY <1>1 DEF Append, Turns
<1> HIDE DEF r
<1>8. Log'
  BY <1>0, <1>1, <1>2, OwnerAppends, LogStays
<1>9. Same \/ (Owns(c) /\ j.epoch >= 1)
  <2>1. CASE OpOf(c) \in done
    BY <1>2, <2>1, LogStays
  <2> QED
    BY <1>1, <1>2, <2>1
<1>10. Standing(c)'
  <2>1. j.place = "asking" => Logged("asked", a, n)'
    BY <1>0, <1>2 DEF OpOf, Logged
  <2>2. j.place \in Acting => j.at >= 1
    BY <1>1, SagaConstants DEF Standing
  <2> QED
    BY <1>0, <1>1, <1>6, <1>7, <2>1, <2>2
    DEF Standing, Acting, Trying, Asked, After, Appending
<1>11. Closing(c)'
  <2>1. j.place = "readying" => Logged("ready", 0, 0)'
    BY <1>2 DEF OpOf, Logged
  <2> QED
    BY <1>1, <1>6, <1>7, <2>1 DEF Closing, After, Appending
<1>12. Rounds(c)'
  <2>1. CASE j.place \in {"retrying", "asking"}
    BY <2>1, <1>1, <1>6, <1>7 DEF Rounds, After, Trying, Acting
  <2>2. CASE j.place = "announcing"
    BY <2>2, <1>1, <1>6, <1>7 DEF Rounds, After, Trying, Acting
  <2>3. CASE j.place = "readying"
    BY <2>3, <1>1, <1>6, <1>7 DEF Rounds, After, Trying, Acting
  <2>4. CASE j.place \in {"escalating", "completing"}
    <3>1. ~Open(a)'
      <4>1. CASE j.place = "escalating"
        BY <4>1, <1>0, <1>2 DEF OpOf, Logged, Open, Manual
      <4>2. CASE j.place = "completing"
        <5>1. Logged("completed", a, n)' /\ n \in Attempt
          BY <4>2, <1>0, <1>1, <1>2 DEF OpOf, Logged, Standing, Trying, Acting
        <5> QED
          BY <5>1 DEF Open, Completed
      <4> QED
        BY <4>1, <4>2, <2>4
    <3>2. r.at = a /\ r.place = "deciding"
      BY <2>4, <1>0, <1>6 DEF After
    <3> QED
      BY <3>1, <3>2, <1>1, <1>6, <1>7 DEF Rounds, Trying, Acting, Open, Completed, Manual
  <2>5. CASE j.place = "failing"
    <3>1. Logged("failed", a, n)' /\ n \in Attempt /\ n >= j.loops
      BY <2>5, <1>0, <1>1, <1>2 DEF OpOf, Logged, Standing, Rounds, Trying, Acting
    <3>2. r.at = a /\ r.place = "deciding"
      BY <2>5, <1>0, <1>6 DEF After
    <3> QED
      BY <3>1, <3>2, <1>1, <1>6, <1>7 DEF Rounds, Trying, Acting
  <2> QED
    BY <2>1, <2>2, <2>3, <2>4, <2>5, <1>1 DEF Appending
<1>13. ASSUME Owns(c) PROVE Current(c)'
  <2>1. CASE j.place = "retrying"
    <3>1. a \in Action /\ Open(a) /\ Upto("failed", a, n - 1)
      BY <2>1, <1>0, <1>1, <1>13 DEF Standing, Current, Acting, Trying
    <3>2. OpOf(c) = Of("retry", a, n - 1)
      BY <2>1, <1>0 DEF OpOf
    <3>3. \A k2, a2, n2 : k2 # "retry" => (Logged(k2, a2, n2)' <=> Logged(k2, a2, n2))
      BY <1>2, <3>2, LoggedAdds
    <3>4. r.place = "asking" /\ r.at = a /\ r.attempt = n
      BY <2>1, <1>0, <1>6 DEF After
    <3> QED
      BY <3>1, <3>3, <3>4, <1>6, <1>7
      DEF Current, Acting, Trying, Asked, Open, Completed, Manual, Upto
  <2>2. CASE j.place = "asking"
    <3>1. a \in Action /\ Open(a) /\ Upto("failed", a, n - 1)
      BY <2>2, <1>0, <1>1, <1>13 DEF Standing, Current, Acting, Trying
    <3>2. OpOf(c) = Of("asked", a, n)
      BY <2>2, <1>0 DEF OpOf
    <3>3. \A k2, a2, n2 : k2 # "asked" => (Logged(k2, a2, n2)' <=> Logged(k2, a2, n2))
      BY <1>2, <3>2, LoggedAdds
    <3>4. r.place = "running" /\ r.at = a /\ r.attempt = n
      BY <2>2, <1>0, <1>6 DEF After
    <3>5. Upto("asked", a, n)'
      BY <2>2, <1>0, <1>1, <1>2, <1>13, OwnerAppends
    <3> QED
      BY <3>1, <3>3, <3>4, <3>5, <1>6, <1>7
      DEF Current, Acting, Trying, Asked, Open, Completed, Manual, Upto
  <2>3. CASE j.place \notin {"retrying", "asking"}
    BY <2>3, <1>0, <1>1, <1>6, <1>7 DEF Current, Acting, Trying, Asked, After, Appending
  <2> QED
    BY <2>1, <2>2, <2>3
<1>14. r.place \in Busy => r.epoch >= 1
  BY <1>1, <1>6
<1>15. /\ done \subseteq done' /\ done' \subseteq Op /\ phase' \in {"active", "cancelled"}
       /\ faults' \in 0 .. MaxFaults
  BY <1>1, <1>2, <1>4 DEF SagaInv, TypeOK
<1> QED
  BY <1>2, <1>5, <1>6, <1>7, <1>8, <1>9, <1>10, <1>11, <1>12, <1>13, <1>14, <1>15, OneMoves

-----------------------------------------------------------------------------

LEMMA SagaNextInv == SagaInv /\ [Next]_vars => SagaInv'
<1> SUFFICES ASSUME SagaInv, [Next]_vars PROVE SagaInv'
  OBVIOUS
<1>1. CASE UNCHANGED vars
  <2>1. Log'
    BY <1>1, LogStays DEF vars
  <2>2. TypeOK' /\ Epochs'
    BY <1>1 DEF vars, SagaInv, TypeOK, Epochs, OneOwner
  <2>3. ASSUME NEW d \in Call
        PROVE  Standing(d)' /\ Closing(d)' /\ Rounds(d)' /\ (Owns(d)' => Current(d)')
    <3>1. Standing(d) /\ Closing(d) /\ Rounds(d) /\ (Owns(d) => Current(d)) /\ Same
      BY <1>1, LogStays DEF vars, SagaInv
    <3> QED
      BY <3>1, <1>1, StandingStays, CurrentStays DEF vars, Owns
  <2> QED
    BY <2>1, <2>2, <2>3 DEF SagaInv
<1>2. ASSUME NEW c \in Call, Start(c) \/ Works(c) \/ AppendThrows(c) \/ Crash(c)
      PROVE  SagaInv'
  <2>1. CASE Start(c)
    BY <2>1, StartKeeps
  <2>2. CASE Acquire(c)
    BY <2>2, AcquireKeeps
  <2>3. CASE Append(c)
    BY <2>3, AppendKeeps
  <2>4. CASE Refused(c) \/ AppendThrows(c) \/ Crash(c)
    BY <2>4, EndsKeep
  <2>5. CASE Decide(c)
    BY <2>5, DecideKeeps
  <2>6. CASE Run(c)
    BY <2>6, RunKeeps
  <2>7. CASE Closes(c)
    BY <2>7, ClosesKeeps
  <2>8. CASE Trail(c)
    BY <2>8, TrailKeeps
  <2>9. CASE Write(c)
    BY <2>9, WriteKeeps
  <2> QED
    BY <1>2, <2>1, <2>2, <2>3, <2>4, <2>5, <2>6, <2>7, <2>8, <2>9 DEF Works
<1> QED
  BY <1>1, <1>2 DEF Next, Finished

\* The inductive invariant holds in every reachable state.
THEOREM SagaSafety == Spec => []SagaInv
<1> QED
  BY SagaInitInv, SagaNextInv, PTL DEF Spec

\* Types, and one owner per epoch: two acquisitions never get the same.
THEOREM SagaTypes == Spec => [](TypeOK /\ OneOwner)
<1>1. SagaInv => TypeOK /\ OneOwner
  BY DEF SagaInv, Epochs
<1> QED
  BY <1>1, SagaSafety, PTL

\* A cancelled workflow has a trail, a ready proof and the durable success of
\* every compensation action, however often the saga was taken over.
THEOREM SagaBacked == Spec => []CancelledIsBacked
<1>1. SagaInv => CancelledIsBacked
  BY DEF SagaInv, Log, CancelledIsBacked
<1> QED
  BY <1>1, SagaSafety, PTL

\* An escalated action is neither completed nor passed over by a cancellation.
THEOREM SagaManual == Spec => []ManualStands
<1>1. SagaInv => ManualStands
  BY DEF SagaInv, Log, ManualStands, AllCompleted
<1> QED
  BY <1>1, SagaSafety, PTL

\* The attempts of the log have no gap, and an outcome only after its request.
THEOREM SagaCounts == Spec => []AttemptsCounted
<1>1. ASSUME SagaInv PROVE AttemptsCounted
  <2>1. ASSUME NEW a \in Action, NEW n \in Attempt
        PROVE  /\ Logged("asked", a, n) /\ n > 1 => Logged("failed", a, n - 1)
               /\ Logged("failed", a, n) \/ Logged("completed", a, n) => Logged("asked", a, n)
    <3>1. PICK k, m \in 0 .. MaxAttempts :
            /\ Upto("asked", a, k) /\ Upto("failed", a, m)
            /\ m <= k /\ k <= m + 1
            /\ \A i \in Attempt : Logged("completed", a, i) => i = k /\ i = m + 1
      BY <1>1 DEF SagaInv, Log, Counted
    <3>2. Logged("asked", a, n) /\ n > 1 => n - 1 \in Attempt /\ n - 1 <= m
      BY <3>1, SagaConstants DEF Upto
    <3> QED
      BY <3>1, <3>2, SagaConstants DEF Upto
  <2> QED
    BY <2>1 DEF AttemptsCounted
<1> QED
  BY <1>1, SagaSafety, PTL

\* No attempt has two outcomes, though two calls may have run its effect.
THEOREM SagaOutcomes == Spec => []OneOutcome
<1>1. ASSUME SagaInv PROVE OneOutcome
  <2>1. ASSUME NEW a \in Action, NEW n \in Attempt
        PROVE  ~(Logged("completed", a, n) /\ Logged("failed", a, n))
    <3>1. PICK m \in 0 .. MaxAttempts :
            /\ Upto("failed", a, m)
            /\ \A i \in Attempt : Logged("completed", a, i) => i = m + 1
      BY <1>1 DEF SagaInv, Log, Counted
    <3> QED
      BY <3>1, SagaConstants DEF Upto
  <2> QED
    BY <2>1 DEF OneOutcome
<1> QED
  BY <1>1, SagaSafety, PTL

\* The iteration cap never ends the loop of a call: every round ends with one more
\* failure in the log, and there are at most MaxAttempts.
THEOREM SagaCap == Spec => []CapUnused
<1>1. ASSUME SagaInv PROVE CapUnused
  <2>1. ASSUME NEW c \in Call PROVE job[c].loops < Cap
    <3>1. job[c].loops \in Nat /\ job[c].loops <= MaxAttempts + 1
      BY <1>1 DEF SagaInv, TypeOK, Job, Rounds
    <3> QED
      BY <3>1, SagaConstants DEF Cap
  <2> QED
    BY <2>1 DEF CapUnused
<1> QED
  BY <1>1, SagaSafety, PTL

\* Nothing is said of an action any more once its success is in the log.
THEOREM SagaFinal == Spec => CompletedIsFinal
<1>1. ASSUME SagaInv, [Next]_vars
      PROVE  [\A op \in done' \ done : op.kind # "ready" /\ op.action # 0
                => ~Completed(op.action)]_vars
  <2> SUFFICES ASSUME Next, NEW op \in done', op \notin done, op.action # 0
               PROVE  ~Completed(op.action)
    BY <1>1
  <2>1. PICK c \in Call : Append(c) \/ Trail(c)
    BY DEF Next, Start, Works, Acquire, Refused, Decide, Run, Closes, Write, AppendThrows,
           Throws, Crash, Finished, vars
  <2>2. CASE Trail(c)
    BY <2>2 DEF Trail, Of
  <2>3. CASE Append(c)
    <3>1. op = OpOf(c) /\ job[c].place \in Appending
      BY <2>3 DEF Append, Appends
    <3>2. Owns(c)
      BY <1>1, <2>3, <3>1 DEF Append, Appends, Owns, SagaInv, Epochs, TypeOK, Job
    <3>3. Current(c)
      BY <1>1, <3>2 DEF SagaInv
    <3>4. job[c].place \in Acting
      BY <3>1 DEF OpOf, Of, Appending, Acting
    <3>5. op.action = job[c].at
      BY <3>1, <3>4 DEF OpOf, Of, Appending, Acting
    <3> QED
      BY <3>3, <3>4, <3>5 DEF Current, Acting, Open
  <2> QED
    BY <2>1, <2>2, <2>3
<1> QED
  BY <1>1, SagaSafety, PTL DEF Spec, CompletedIsFinal
=============================================================================
