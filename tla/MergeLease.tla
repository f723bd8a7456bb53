----------------------------- MODULE MergeLease -----------------------------
(***************************************************************************)
(* The merge lease of verbs/worktree/merge-serializer.ts: serialize_merge   *)
(* claims inFlightMerges[ref] in the worktrees stream, merges and releases; *)
(* a waiter, or the reconcile_worktrees pass, releases the lease of a       *)
(* holder that is provably dead.  merge_orchestrate, called directly, only  *)
(* looks at the lease before it merges.                                     *)
(*                                                                          *)
(* A decide is one step here: that nothing commits between its fold and its *)
(* append is DecisionsSerialized of module AtomicAppender.  The operation   *)
(* id of a serialize_merge is the call itself.  A process has one identity  *)
(* (PID and create-time) and never comes back; for one outside Identified   *)
(* the platform resolves no create-time, so its death cannot be proved.     *)
(* Git, the dry run and the head that is read for the answer are left out.  *)
(***************************************************************************)
EXTENDS Naturals

CONSTANTS
  Process,      \* processes
  Identified,   \* those whose create-time resolves
  Ref,          \* integration refs
  Serial,       \* calls of serialize_merge
  Direct,       \* calls of merge_orchestrate without a lease
  Sweep,        \* calls of reconcileMerges
  MaxFaults,    \* bound: appends that fail
  None          \* a free slot; not started

Call == Serial \cup Direct \cup Sweep

ASSUME LeaseAssumption ==
  /\ Identified \subseteq Process
  /\ Serial \cap (Direct \cup Sweep) = {} /\ Direct \cap Sweep = {}
  /\ None \notin Call \cup Process \cup Ref
  /\ MaxFaults \in Nat

VARIABLES
  alive,    \* the processes that run
  slot,     \* slot[r]: the call that holds inFlightMerges[r]
  pc,       \* pc[c]: where call c is
  by,       \* by[c]: its process
  on,       \* on[c]: its integration ref
  seen,     \* seen[c]: the holders it read and may release
  faults    \* appends that may still fail

leaseVars == <<alive, slot, pc, by, on, seen, faults>>

Place == {"new", "waiting", "reclaiming", "claiming", "guard", "merging", "releasing",
          "sweeping", "over", "dead"}

LeaseTypeOK ==
  /\ alive \subseteq Process
  /\ slot \in [Ref -> Serial \cup {None}]
  /\ pc \in [Call -> Place]
  /\ by \in [Call -> Process \cup {None}]
  /\ on \in [Call -> Ref \cup {None}]
  /\ seen \in [Call -> SUBSET Serial]
  /\ faults \in 0 .. MaxFaults

LeaseInit ==
  /\ alive = Process
  /\ slot = [r \in Ref |-> None]
  /\ pc = [c \in Call |-> "new"]
  /\ by = [c \in Call |-> None]
  /\ on = [c \in Call |-> None]
  /\ seen = [c \in Call |-> {}]
  /\ faults = MaxFaults

ProvablyDead(h) == by[h] \in Identified \ alive

Moves(c, place) == pc' = [pc EXCEPT ![c] = place]

Fault == faults > 0 /\ faults' = faults - 1

Start(c, p, r) ==
  /\ pc[c] = "new"
  /\ p \in alive
  /\ by' = [by EXCEPT ![c] = p]
  /\ on' = [on EXCEPT ![c] = r]
  /\ Moves(c, IF c \in Serial THEN "waiting" ELSE IF c \in Direct THEN "guard" ELSE "sweeping")
  /\ seen' = [seen EXCEPT ![c] = IF c \in Sweep THEN {slot[q] : q \in Ref} \ {None} ELSE {}]
  /\ UNCHANGED <<alive, slot, faults>>

(***************************************************************************)
(* waitForFreeSlot.                                                         *)
(***************************************************************************)
FindFree(c) ==
  /\ pc[c] = "waiting"
  /\ slot[on[c]] = None
  /\ Moves(c, "claiming")
  /\ UNCHANGED <<alive, slot, by, on, seen, faults>>

FindDead(c) ==
  /\ pc[c] = "waiting"
  /\ slot[on[c]] # None
  /\ ProvablyDead(slot[on[c]])
  /\ seen' = [seen EXCEPT ![c] = {slot[on[c]]}]
  /\ Moves(c, "reclaiming")
  /\ UNCHANGED <<alive, slot, by, on, faults>>

\* The deadline, on a holder that lives or cannot be proved dead.
TimeOut(c) ==
  /\ pc[c] = "waiting"
  /\ slot[on[c]] # None
  /\ ~ProvablyDead(slot[on[c]])
  /\ Moves(c, "over")
  /\ UNCHANGED <<alive, slot, by, on, seen, faults>>

\* MUTANT of Cleared: a release frees the slot whoever holds it now.
ClearedForAny(h) == [r \in Ref |-> IF slot[r] = None \/ on[h] = r THEN None ELSE slot[r]]

\* clearInFlightMerge: only the operation that holds the slot is cleared.
Cleared(h) == [r \in Ref |-> IF slot[r] = h THEN None ELSE slot[r]]

\* MUTANT of Reclaim: the release names the operation of the waiter.
ReclaimOwn(c) ==
  /\ pc[c] = "reclaiming"
  /\ slot' = Cleared(c)
  /\ seen' = [seen EXCEPT ![c] = {}]
  /\ Moves(c, "waiting")
  /\ UNCHANGED <<alive, by, on, faults>>

Reclaim(c) ==
  /\ pc[c] = "reclaiming"
  /\ \E h \in seen[c] : slot' = Cleared(h)
  /\ seen' = [seen EXCEPT ![c] = {}]
  /\ Moves(c, "waiting")
  /\ UNCHANGED <<alive, by, on, faults>>

\* The append throws; serializeMerge does not catch it.
ReclaimFails(c) ==
  /\ pc[c] = "reclaiming"
  /\ Fault
  /\ seen' = [seen EXCEPT ![c] = {}]
  /\ Moves(c, "over")
  /\ UNCHANGED <<alive, slot, by, on>>

(***************************************************************************)
(* The claim, the merge and the release.                                    *)
(***************************************************************************)
\* MUTANT of Claim: the slot is not looked at again when it is claimed.
ClaimBlindly(c) ==
  /\ pc[c] = "claiming"
  /\ slot' = [slot EXCEPT ![on[c]] = c]
  /\ Moves(c, "guard")
  /\ UNCHANGED <<alive, by, on, seen, faults>>

Claim(c) ==
  /\ pc[c] = "claiming"
  /\ slot[on[c]] = None
  /\ slot' = [slot EXCEPT ![on[c]] = c]
  /\ Moves(c, "guard")
  /\ UNCHANGED <<alive, by, on, seen, faults>>

\* The slot is taken, or the retries of a contended append are used up.
ClaimLost(c) ==
  /\ pc[c] = "claiming"
  /\ \/ slot[on[c]] # None /\ UNCHANGED faults
     \/ slot[on[c]] = None /\ Fault
  /\ \E place \in {"waiting", "over"} : Moves(c, place)
  /\ UNCHANGED <<alive, slot, by, on, seen>>

\* The single-writer guard of merge_orchestrate, which reads the fold once.
Passes(c) ==
  LET h == slot[on[c]] IN h = None \/ h = c \/ ProvablyDead(h)

Guard(c) ==
  /\ pc[c] = "guard"
  /\ Moves(c, IF Passes(c) THEN "merging" ELSE IF c \in Serial THEN "releasing" ELSE "over")
  /\ UNCHANGED <<alive, slot, by, on, seen, faults>>

\* The merge succeeds or fails.
Merged(c) ==
  /\ pc[c] = "merging"
  /\ Moves(c, IF c \in Serial THEN "releasing" ELSE "over")
  /\ UNCHANGED <<alive, slot, by, on, seen, faults>>

Release(c) ==
  /\ pc[c] = "releasing"
  /\ slot' = Cleared(c)
  /\ Moves(c, "over")
  /\ UNCHANGED <<alive, by, on, seen, faults>>

\* The finally ignores it.
ReleaseFails(c) ==
  /\ pc[c] = "releasing"
  /\ Fault
  /\ Moves(c, "over")
  /\ UNCHANGED <<alive, slot, by, on, seen>>

(***************************************************************************)
(* reconcileMerges works off the holders of its one fold.                   *)
(***************************************************************************)
SweepOne(c, h) ==
  /\ pc[c] = "sweeping"
  /\ h \in seen[c]
  /\ seen' = [seen EXCEPT ![c] = @ \ {h}]
  /\ \/ /\ slot' = IF ProvablyDead(h) THEN Cleared(h) ELSE slot
        /\ UNCHANGED faults
     \/ ProvablyDead(h) /\ Fault /\ UNCHANGED slot
  /\ UNCHANGED <<alive, pc, by, on>>

SweepEnds(c) ==
  /\ pc[c] = "sweeping"
  /\ seen[c] = {}
  /\ Moves(c, "over")
  /\ UNCHANGED <<alive, slot, by, on, seen, faults>>

\* A process dies with all its calls.
LeaseCrash(p) ==
  /\ p \in alive
  /\ alive' = alive \ {p}
  /\ pc' = [c \in Call |-> IF by[c] = p /\ pc[c] # "over" THEN "dead" ELSE pc[c]]
  /\ UNCHANGED <<slot, by, on, seen, faults>>

-----------------------------------------------------------------------------

\* What a process goes on with by itself.
Works(c) ==
  \/ FindFree(c) \/ FindDead(c) \/ Reclaim(c) \/ Claim(c) \/ ClaimLost(c)
  \/ Guard(c) \/ Merged(c) \/ Release(c) \/ SweepEnds(c)
  \/ \E h \in Serial : SweepOne(c, h)

LeaseStep ==
  \/ \E c \in Call, p \in Process, r \in Ref : Start(c, p, r)
  \/ \E c \in Call : Works(c) \/ TimeOut(c) \/ ReclaimFails(c) \/ ReleaseFails(c)

LeaseNext == LeaseStep \/ \E p \in Process : LeaseCrash(p)

LeaseOver ==
  /\ \A c \in Call : pc[c] \in {"over", "dead"} \/ (pc[c] = "new" /\ alive = {})
  /\ UNCHANGED leaseVars

LeaseSpec == LeaseInit /\ [][LeaseNext \/ LeaseOver]_leaseVars

\* A process that lives runs its calls.  Starts, deadlines, failures and deaths
\* are free.
LeaseFairSpec == LeaseSpec /\ \A c \in Call : WF_leaseVars(Works(c))

(***************************************************************************)
(* Properties.                                                              *)
(***************************************************************************)

\* merge-serializer.ts "allows at most one in-flight merge per integrationRef":
\* two serialize_merge calls never merge into one ref at a time, whatever
\* waiters reclaim, sweeps release and processes die.
OneMerger ==
  \A c, d \in Serial :
    pc[c] = "merging" /\ pc[d] = "merging" /\ on[c] = on[d] => c = d

\* A lease leaves the slot only by the release of its own call or after its
\* holder died: no late reclaim or sweep takes it from a successor.
LeaseNotTaken ==
  [][\A r \in Ref : slot[r] # None /\ slot'[r] # slot[r]
       => pc[slot[r]] = "releasing" \/ by[slot[r]] \notin alive]_leaseVars

\* A dead holder does not use up the deadline of a waiter: the slot is freed
\* unless the waiter dies too or its append fails.
DeadHolderFreed ==
  \A c \in Serial, r \in Ref :
    (pc[c] = "waiting" /\ on[c] = r /\ slot[r] # None /\ ProvablyDead(slot[r]))
      ~> (pc[c] \in {"dead", "over"} \/ slot[r] = None \/ ~ProvablyDead(slot[r]))
=============================================================================
