----------------------------- MODULE CancelSaga -----------------------------
(***************************************************************************)
(* The cancellation of an event-sourced workflow: handleCancel, the fenced  *)
(* process manager of workflow/cancel-process-manager.ts and the loop of    *)
(* executeProcessManagedCompensation, run by several callers of which any   *)
(* may die; a later call takes the saga over and resumes it from the log.   *)
(*                                                                          *)
(* All calls cancel one phase attempt, so they share the cancelId, and the  *)
(* fold, which leaves out the events of other cancelIds, reads them all.    *)
(* Every event but cancel.ownership-acquired has an operation id of its     *)
(* kind, action and attempt, and a decideOnce of a committed id answers     *)
(* what was stored before it runs its closure: the log is the set of its    *)
(* operations.  A decideOnce is one step (OperationDecidedOnce of module    *)
(* AtomicAppender); the fold a call decides on is a step of its own.        *)
(*                                                                          *)
(* The effect of an action is external: it succeeds (executed, skipped) or  *)
(* fails (also by a throw or a malformed answer).  Left out: the dry run,   *)
(* the path without event sourcing, durable outcomes that do not parse, the *)
(* content of the evidence, and a transition that leaves the phase attempt. *)
(***************************************************************************)
EXTENDS Naturals, FiniteSets

CONSTANTS
  Call,          \* calls of handleCancel
  Actions,       \* how many compensation actions there are, run from 1 on
  MaxAttempts,   \* CANCEL_MAX_ATTEMPTS
  MaxFaults      \* bound: appends that throw

ASSUME SagaAssumption ==
  /\ Actions \in Nat
  /\ MaxAttempts \in Nat \ {0}
  /\ MaxFaults \in Nat

Action == 1 .. Actions
Attempt == 1 .. MaxAttempts

VARIABLES
  done,     \* the operations in the log
  epoch,    \* the highest epoch of a cancel.ownership-acquired
  job,      \* job[c]: where call c is
  phase,    \* the phase of the document
  faults    \* appends that may still throw

vars == <<done, epoch, job, phase, faults>>

\* action and attempt are 0 where the operation id has none.
Kind == {"requested", "asked", "completed", "failed", "retry", "manual", "ready", "trail"}
Op == [kind : Kind, action : 0 .. Actions, attempt : 0 .. MaxAttempts]

Of(kind, a, n) == [kind |-> kind, action |-> a, attempt |-> n]
Logged(kind, a, n) == Of(kind, a, n) \in done

Place == {"new", "owning", "announcing", "deciding", "escalating", "retrying", "asking",
          "running", "completing", "failing", "readying", "transition",
          "writing", "cancelled", "over", "dead"}

\* at, attempt: the action and attempt at hand; loops: its rounds; failed: a
\* result of this call failed.
Job == [place : Place, epoch : Nat, at : 0 .. Actions + 1, attempt : 0 .. MaxAttempts,
        loops : Nat, failed : BOOLEAN]

TypeOK ==
  /\ done \subseteq Op
  /\ epoch \in Nat
  /\ job \in [Call -> Job]
  /\ phase \in {"active", "cancelled"}
  /\ faults \in 0 .. MaxFaults

Init ==
  /\ done = {}
  /\ epoch = 0
  /\ job = [c \in Call |-> [place |-> "new", epoch |-> 0, at |-> 0, attempt |-> 0,
                            loops |-> 0, failed |-> FALSE]]
  /\ phase = "active"
  /\ faults = MaxFaults

Goes(c, place) == job' = [job EXCEPT ![c].place = place]

\* The call goes on with another action, attempt or round at hand.
Turns(c, place, a, n, loops, failed) ==
  job' = [job EXCEPT ![c] = [place |-> place, epoch |-> job[c].epoch, at |-> a,
                             attempt |-> n, loops |-> loops, failed |-> failed]]

Throws(c) ==
  /\ faults > 0
  /\ faults' = faults - 1
  /\ Goes(c, "over")
  /\ UNCHANGED <<done, epoch, phase>>

(***************************************************************************)
(* foldCancelSaga.                                                          *)
(***************************************************************************)
Attempts(a) == Cardinality({n \in Attempt : Logged("asked", a, n)})
Failures(a) == Cardinality({n \in Attempt : Logged("failed", a, n)})
Completed(a) == \E n \in Attempt : Logged("completed", a, n)
Manual(a) == Logged("manual", a, 0)

(***************************************************************************)
(* The start of a call.                                                     *)
(***************************************************************************)
Start(c) ==
  /\ job[c].place = "new"
  /\ Goes(c, IF phase = "cancelled" THEN "over" ELSE "owning")
  /\ UNCHANGED <<done, epoch, phase, faults>>

\* acquireCancelOwnership; its operation id is new in every call.
Acquire(c) ==
  /\ job[c].place = "owning"
  /\ epoch' = epoch + 1
  /\ job' = [job EXCEPT ![c] = [place |-> "announcing", epoch |-> epoch + 1, at |-> 0,
                                attempt |-> 0, loops |-> 0, failed |-> FALSE]]
  /\ UNCHANGED <<done, phase, faults>>

(***************************************************************************)
(* appendFencedCancelEvent.                                                 *)
(***************************************************************************)
\* MUTANT of Appends: a writer of any epoch appends.
AppendsUnfenced(c, op) == done' = done \cup {op}

\* A committed operation answers without the epoch check of its closure.
Appends(c, op) ==
  /\ op \in done \/ job[c].epoch >= epoch
  /\ done' = done \cup {op}

\* assertEpochCurrent throws StaleEpochError.
Fenced(c, op) == op \notin done /\ job[c].epoch < epoch

\* The operation a call appends at its place.
OpOf(c) ==
  LET j == job[c]
  IN  CASE j.place = "announcing" -> Of("requested", 0, 0)
        [] j.place = "escalating" -> Of("manual", j.at, 0)
        [] j.place = "retrying" -> Of("retry", j.at, j.attempt - 1)
        [] j.place = "asking" -> Of("asked", j.at, j.attempt)
        [] j.place = "completing" -> Of("completed", j.at, j.attempt)
        [] j.place = "failing" -> Of("failed", j.at, j.attempt)
        [] j.place = "readying" -> Of("ready", 0, 0)

Appending == {"announcing", "escalating", "retrying", "asking", "completing", "failing",
              "readying"}

\* Where it goes on; an outcome or an escalation ends the round.
After(place) ==
  CASE place = "retrying" -> "asking"
    [] place = "asking" -> "running"
    [] place = "readying" -> "transition"
    [] OTHER -> "deciding"

Append(c) ==
  /\ job[c].place \in Appending
  /\ Appends(c, OpOf(c))
  /\ LET j == job[c]
     IN  Turns(c, After(j.place), IF j.place = "announcing" THEN 1 ELSE j.at, j.attempt,
               j.loops, j.failed)
  /\ UNCHANGED <<epoch, phase, faults>>

\* MUTANT of Refused: a fenced call waits for its turn.
RefusedWaits(c) == FALSE

\* handleCancel answers EVENT_APPEND_FAILED.
Refused(c) ==
  /\ job[c].place \in Appending
  /\ Fenced(c, OpOf(c))
  /\ Goes(c, "over")
  /\ UNCHANGED <<done, epoch, phase, faults>>

AppendThrows(c) ==
  /\ job[c].place \in Appending \cup {"owning", "transition"}
  /\ Throws(c)

(***************************************************************************)
(* executeProcessManagedCompensation.                                       *)
(***************************************************************************)
\* An action ends without another append of this call.
Passed(c, failed) ==
  Turns(c, "deciding", job[c].at + 1, 0, 0, job[c].failed \/ failed)

\* Another round of an action.
Round(c, place, n) ==
  Turns(c, place, job[c].at, n, job[c].loops + 1, job[c].failed)

Cap == 2 * MaxAttempts + 4

\* MUTANT of Resumed: an attempt without an outcome is not resumed, but followed.
ResumedAsNext(a) == Attempts(a) + 1

\* An attempt without an outcome is executed again under its own number.
Resumed(a) == Attempts(a)

Exhausted(a) == Failures(a) >= MaxAttempts

Blocked(a) == Manual(a)

\* decideCompensationAction on a fold of the log, one round of the loop.
Decide(c) ==
  LET a == job[c].at
  IN  /\ job[c].place = "deciding" /\ a <= Actions
      /\ IF job[c].loops = Cap THEN Passed(c, TRUE)
         ELSE IF Completed(a) THEN Passed(c, FALSE)
         ELSE IF Blocked(a) THEN Passed(c, TRUE)
         ELSE IF Attempts(a) = 0 THEN Round(c, "asking", 1)
         ELSE IF Attempts(a) > Failures(a) THEN Round(c, "asking", Resumed(a))
         ELSE IF Exhausted(a) THEN Round(c, "escalating", 0)
         ELSE Round(c, "retrying", Failures(a) + 1)
      /\ UNCHANGED <<done, epoch, phase, faults>>

\* action.execute.
Run(c) ==
  /\ job[c].place = "running"
  /\ \E place \in {"completing", "failing"} : Goes(c, place)
  /\ UNCHANGED <<done, epoch, phase, faults>>

AllCompleted == \A a \in Action : Completed(a)

\* MUTANT of Closes: an escalated action does not stop the cancellation.
ClosesAnyway(c) ==
  /\ job[c].place = "deciding" /\ job[c].at > Actions
  /\ Goes(c, "readying")
  /\ UNCHANGED <<done, epoch, phase, faults>>

\* The replay at the end of the loop and buildCancelReadiness: what one of them
\* finds completed stays so.  Otherwise COMPENSATION_PARTIAL.
Closes(c) ==
  /\ job[c].place = "deciding" /\ job[c].at > Actions
  /\ Goes(c, IF AllCompleted /\ ~job[c].failed THEN "readying" ELSE "over")
  /\ UNCHANGED <<done, epoch, phase, faults>>

(***************************************************************************)
(* The transition.                                                          *)
(***************************************************************************)
\* appendTrailAtomically, which is not fenced.  Its digest holds the reason of
\* the caller: another reason for a committed trail is a conflict.
Trail(c) ==
  /\ job[c].place = "transition"
  /\ \/ done' = done \cup {Of("trail", 0, 0)} /\ Goes(c, "writing")
     \/ Logged("trail", 0, 0) /\ Goes(c, "over") /\ UNCHANGED done
  /\ UNCHANGED <<epoch, phase, faults>>

\* writeStateFile without an expected version.
Write(c) ==
  /\ job[c].place = "writing"
  /\ phase' = "cancelled"
  /\ Goes(c, "cancelled")
  /\ UNCHANGED <<done, epoch, faults>>

Ended == {"cancelled", "over", "dead"}

Crash(c) ==
  /\ job[c].place \notin Ended \cup {"new"}
  /\ Goes(c, "dead")
  /\ UNCHANGED <<done, epoch, phase, faults>>

-----------------------------------------------------------------------------

Works(c) ==
  \/ Acquire(c) \/ Append(c) \/ Refused(c) \/ Decide(c) \/ Run(c) \/ Closes(c)
  \/ Trail(c) \/ Write(c)

Finished == (\A c \in Call : job[c].place \in Ended) /\ UNCHANGED vars

Next ==
  \/ \E c \in Call : Start(c) \/ Works(c) \/ AppendThrows(c) \/ Crash(c)
  \/ Finished

Spec == Init /\ [][Next]_vars

\* A call that lives goes on; the effects it awaits return.  Calls, failures and
\* deaths are free.
FairSpec == Spec /\ \A c \in Call : WF_vars(Works(c))

(***************************************************************************)
(* Properties.                                                              *)
(***************************************************************************)

\* "two acquisitions cannot get the same epoch", so at most one call that lives
\* may write what is not in the log yet.
OneOwner ==
  \A c, d \in Call : job[c].epoch = job[d].epoch /\ job[c].epoch # 0 => c = d

\* Once the success of an action is durable the log says nothing more of it: no
\* former owner adds an outcome, a retry or an escalation after a takeover.
CompletedIsFinal ==
  [][\A op \in done' \ done : op.kind # "ready" /\ op.action # 0 => ~Completed(op.action)]_vars

\* One attempt has one outcome, although two owners may have run its effect.
OneOutcome ==
  \A a \in Action, n \in Attempt : ~(Logged("completed", a, n) /\ Logged("failed", a, n))

\* The attempts in the log are numbered without a gap, each asked for after the
\* failure of the one before, so the counts the fold decides on are attempts.
AttemptsCounted ==
  \A a \in Action, n \in Attempt :
    /\ Logged("asked", a, n) /\ n > 1 => Logged("failed", a, n - 1)
    /\ Logged("failed", a, n) \/ Logged("completed", a, n) => Logged("asked", a, n)

\* An escalated action is not completed behind the operator's back, and no
\* cancellation is ready with one.
ManualStands ==
  \A a \in Action : Manual(a) => ~Completed(a) /\ ~Logged("ready", 0, 0)

\* "no proof is unbacked": the workflow is cancelled only after a trail, a ready
\* proof and the durable success of every action, whoever of the owners wrote them.
CancelledIsBacked ==
  /\ phase = "cancelled" => Logged("trail", 0, 0)
  /\ Logged("trail", 0, 0) => Logged("ready", 0, 0)
  /\ Logged("ready", 0, 0) => AllCompleted

\* The iteration cap, a guard "against a decision bug", is never what ends the
\* loop.
CapUnused == \A c \in Call : job[c].loops < Cap

\* A call whose process lives ends, also one that another owner fences out.
CallsEnd == \A c \in Call : job[c].place = "owning" ~> job[c].place \in Ended

\* compensation.ts "a durably completed action does not run again after a restart
\* or takeover": no call starts the effect of an action whose success is in the log.
CompletedNotRunAgain ==
  [][\A c \in Call : job[c].place # "running" /\ job'[c].place = "running"
       => ~Completed(job[c].at)]_vars
=============================================================================
