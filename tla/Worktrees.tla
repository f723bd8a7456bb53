------------------------------ MODULE Worktrees ------------------------------
(***************************************************************************)
(* The worktree manager of verbs/worktree/manager.ts over the worktrees     *)
(* stream, composed with the merge lease of the same stream: reservations,  *)
(* adoption, the probe of reconcile_worktrees and the prune pass with its   *)
(* two-event deletion and the recovery of crashed deletions, run by several *)
(* processes beside the agents that work in the trees.                      *)
(*                                                                          *)
(* The stream is its fold: entry (worktrees of the projection), pruning     *)
(* (inFlightPrunes), slot (inFlightMerges, module MergeLease) and the       *)
(* removal events, which are read by operation id.  A decide whose closure  *)
(* looks at nothing but the fold is one step (DecisionsSerialized of module *)
(* AtomicAppender); that of a removal asks git for its facts in between, so *)
(* its fold and its commit are two.  A fact read outside a decide, the list *)
(* of the trees on disk or the findings of a probe, is kept in the job that *)
(* read it.                                                                 *)
(*                                                                          *)
(* A process outside Identified records a null create-time, which reads as  *)
(* no live owner.  Every workflow merges its trees into one ref.  A probe   *)
(* that cannot tell leaves a tree alone, so it is a job that does not       *)
(* happen.  Left out: launch markers, the create intents of the launcher,   *)
(* the dry run (an adopt), index-lock retries, sizes and reports.           *)
(***************************************************************************)
EXTENDS MergeLease, FiniteSets

CONSTANTS
  Tree,        \* worktree ids
  Target,      \* the integration ref of every workflow
  Job,         \* passes of the manager: adopt, probe, prune
  MaxAdds      \* bound: git worktree add

ASSUME TreeAssumption ==
  /\ Target \in Ref
  /\ None \notin Tree \cup Job
  /\ MaxAdds \in Nat

VARIABLES
  entry,     \* entry[t]: its state and the owner of its reservation
  disk,      \* the trees that git lists
  unsaved,   \* those with changes that are uncommitted or not merged
  uses,      \* <<p, t>>: p was told that it reserved t, and has not released it
  job,       \* job[j]: the pass
  asked,     \* <<j, t>>: a worktree.remove.requested, by operation id
  removed,   \* those with a worktree.remove.executed
  pruning,   \* inFlightPrunes
  fresh,     \* passes whose decide folded the stream as it is: no append came after
  reused,    \* HISTORY: <<j, t>>: t was reserved after j looked at it
  adds       \* trees that may still be added

treeVars == <<entry, disk, unsaved, uses, job, asked, removed, pruning, fresh, reused, adds>>
vars == <<leaseVars, treeVars>>

State == {"absent", "adopted", "reserved", "released", "orphan"}
Entry == [state : State, owner : Process \cup {None}]

\* place: what the pass does; run: the process; trees: listed, found or planned
\* trees; ops: the crashed removals it still has to finish; op: the removal at hand.
Pass == [place : {"new", "adopting", "probing", "pruning", "recovering", "removing",
                  "removed", "deleting", "asking", "closing", "over", "dead"},
         run : Process \cup {None}, trees : SUBSET Tree,
         ops : SUBSET (Job \X Tree), op : (Job \X Tree) \cup {None}]

NewPass == [place |-> "new", run |-> None, trees |-> {}, ops |-> {}, op |-> None]

TypeOK ==
  /\ LeaseTypeOK
  /\ entry \in [Tree -> Entry]
  /\ unsaved \subseteq disk /\ disk \subseteq Tree
  /\ uses \subseteq alive \X Tree
  /\ job \in [Job -> Pass]
  /\ removed \subseteq asked /\ asked \subseteq Job \X Tree
  /\ pruning \subseteq Job /\ fresh \subseteq Job
  /\ reused \subseteq Job \X Tree
  /\ adds \in 0 .. MaxAdds

Init ==
  /\ LeaseInit
  /\ entry = [t \in Tree |-> [state |-> "absent", owner |-> None]]
  /\ disk = Tree
  /\ unsaved = {}
  /\ uses = {}
  /\ job = [j \in Job |-> NewPass]
  /\ asked = {} /\ removed = {} /\ pruning = {} /\ fresh = {} /\ reused = {}
  /\ adds = MaxAdds

PassMoves(j, place, trees, ops, op) ==
  job' = [job EXCEPT ![j] = [place |-> place, run |-> job[j].run, trees |-> trees,
                             ops |-> ops, op |-> op]]

Is(t, state) == entry[t] = [state |-> state, owner |-> None]
Becomes(t, state) == entry' = [entry EXCEPT ![t] = [state |-> state, owner |-> None]]

\* The stream grows: the commit of a decide that folded it before is refused.
Appends == fresh' = {}

\* The passes that have looked at t and are not done with it.
Looked(t) ==
  {<<j, t>> : j \in {i \in Job : job[i].place = "probing" /\ t \in job[i].trees}}
    \cup {o \in asked \ removed : o[2] = t}

Use(t) == reused' = reused \cup Looked(t)

(***************************************************************************)
(* Reservations.                                                            *)
(***************************************************************************)
\* liveForeignOwner.
Blocks(t, p) ==
  /\ entry[t].state = "reserved"
  /\ entry[t].owner \in alive \cap Identified
  /\ entry[t].owner # p

Reserve(p, t) ==
  /\ p \in alive
  /\ ~Blocks(t, p)
  /\ entry' = [entry EXCEPT ![t] = [state |-> "reserved", owner |-> p]]
  /\ uses' = uses \cup {<<p, t>>}
  /\ Use(t)
  /\ Appends
  /\ UNCHANGED <<leaseVars, disk, unsaved, job, asked, removed, pruning, adds>>

\* An unknown tree gets an entry, too.
ReleaseTree(p, t) ==
  /\ p \in alive
  /\ ~Blocks(t, p)
  /\ Becomes(t, "released")
  /\ uses' = uses \ {<<p, t>>}
  /\ Appends
  /\ UNCHANGED <<leaseVars, disk, unsaved, job, asked, removed, pruning, reused, adds>>

DeadOwner(t) == entry[t].state = "reserved" /\ entry[t].owner \notin alive \cap Identified

\* reconcile releases every reservation whose owner is dead, in one decide.
Reconcile ==
  /\ \E t \in Tree : DeadOwner(t)
  /\ entry' = [t \in Tree |-> IF DeadOwner(t) THEN [state |-> "released", owner |-> None]
                              ELSE entry[t]]
  /\ Appends
  /\ UNCHANGED <<leaseVars, disk, unsaved, uses, job, asked, removed, pruning, reused, adds>>

(***************************************************************************)
(* The agents.                                                              *)
(***************************************************************************)
AddTree(p, t) ==
  /\ <<p, t>> \in uses
  /\ t \notin disk
  /\ adds > 0
  /\ adds' = adds - 1
  /\ disk' = disk \cup {t}
  /\ UNCHANGED <<leaseVars, entry, unsaved, uses, job, asked, removed, pruning, fresh, reused>>

Work(p, t) ==
  /\ <<p, t>> \in uses
  /\ t \in disk \ unsaved
  /\ unsaved' = unsaved \cup {t}
  /\ UNCHANGED <<leaseVars, entry, disk, uses, job, asked, removed, pruning, fresh, reused, adds>>

\* Committed and merged into the integration ref.
Save(t) ==
  /\ t \in unsaved
  /\ unsaved' = unsaved \ {t}
  /\ UNCHANGED <<leaseVars, entry, disk, uses, job, asked, removed, pruning, fresh, reused, adds>>

(***************************************************************************)
(* adopt, and the start of a prune pass, which adopts first.                *)
(***************************************************************************)
AdoptList(j, p) ==
  /\ job[j].place = "new"
  /\ p \in alive
  /\ \E place \in {"adopting", "pruning"} :
       /\ job' = [job EXCEPT ![j] = [NewPass EXCEPT !.place = place, !.run = p, !.trees = disk]]
       /\ IF place = "pruning" THEN pruning' = pruning \cup {j} /\ Appends
          ELSE UNCHANGED <<pruning, fresh>>
  /\ UNCHANGED <<leaseVars, entry, disk, unsaved, uses, asked, removed, reused, adds>>

\* A pruning pass goes on with the deletions that have no terminal.
AdoptCommit(j) ==
  /\ job[j].place \in {"adopting", "pruning"}
  /\ entry' = [t \in Tree |-> IF t \in job[j].trees /\ Is(t, "absent")
                              THEN [state |-> "adopted", owner |-> None] ELSE entry[t]]
  /\ IF job[j].place = "adopting" THEN PassMoves(j, "over", {}, {}, None)
     ELSE PassMoves(j, "recovering", {}, asked \ removed, None)
  /\ IF entry' = entry THEN UNCHANGED fresh ELSE Appends
  /\ UNCHANGED <<leaseVars, disk, unsaved, uses, asked, removed, pruning, reused, adds>>

(***************************************************************************)
(* probeAndReclaim.                                                         *)
(***************************************************************************)
\* MUTANT of Found: an owner that is not known to be dead is found, too.
FoundAny == {t \in Tree : entry[t].state = "reserved"}

\* A null create-time is no owner to the probe.
Found == {t \in Tree : entry[t].state = "reserved" /\ entry[t].owner \in Identified \ alive}

ProbeLoad(j, p) ==
  /\ job[j].place = "new"
  /\ p \in alive
  /\ Found # {}
  /\ job' = [job EXCEPT ![j] = [NewPass EXCEPT !.place = "probing", !.run = p, !.trees = Found]]
  /\ UNCHANGED <<leaseVars, entry, disk, unsaved, uses, asked, removed, pruning, fresh, reused, adds>>

\* A plain append.  A live occupant makes the tree an orphan; one that fails is
\* left to the next probe.
ProbeAppend(j, t) ==
  /\ job[j].place = "probing"
  /\ t \in job[j].trees
  /\ \/ \E state \in {"released", "orphan"} : Becomes(t, state) /\ Appends /\ UNCHANGED faults
     \/ Fault /\ UNCHANGED <<entry, fresh>>
  /\ job' = [job EXCEPT ![j].trees = @ \ {t}]
  /\ UNCHANGED <<alive, slot, pc, by, on, seen, disk, unsaved, uses, asked, removed, pruning, reused, adds>>

ProbeEnds(j) ==
  /\ job[j].place = "probing"
  /\ job[j].trees = {}
  /\ job' = [job EXCEPT ![j].place = "over"]
  /\ UNCHANGED <<leaseVars, entry, disk, unsaved, uses, asked, removed, pruning, fresh, reused, adds>>

(***************************************************************************)
(* The prune pass after its adopt.                                          *)
(***************************************************************************)
\* recoverOrphanedRemovals takes up one crashed deletion, without the ladder.
Recover(j, o) ==
  /\ job[j].place = "recovering"
  /\ o \in job[j].ops
  /\ PassMoves(j, "removing", {}, job[j].ops \ {o}, o)
  /\ UNCHANGED <<leaseVars, entry, disk, unsaved, uses, asked, removed, pruning, fresh, reused, adds>>

\* classifyPruneCandidate: delete-eligible, or orphan-unverifiable with the
\* operator's consent when the tree is gone from disk.
Eligible(t) == (Is(t, "released") \/ Is(t, "orphan")) /\ t \notin unsaved

Leased == slot[Target] # None

\* MUTANT of Verified: the lease is not looked at again.
VerifiedUnderLease(t) == Eligible(t)

Verified(t) == Eligible(t) /\ ~Leased

\* A fact that cannot be read makes the ladder skip a tree.
Plan(j) ==
  /\ job[j].place = "recovering"
  /\ job[j].ops = {}
  /\ \E trees \in SUBSET {t \in Tree : Verified(t)} :
       PassMoves(j, "deleting", trees, {}, None)
  /\ UNCHANGED <<leaseVars, entry, disk, unsaved, uses, asked, removed, pruning, fresh, reused, adds>>

\* worktree.remove.requested.
Requests(j, t) == asked' = asked \cup {<<j, t>>}

\* The decide of executeDeletion folds the stream, and its closure runs the whole
\* ladder once more on what git says of the tree.
Gather(j, t) ==
  /\ job[j].place = "deleting"
  /\ t \in job[j].trees
  /\ Verified(t)
  /\ fresh' = fresh \cup {j}
  /\ PassMoves(j, "asking", job[j].trees, {}, <<j, t>>)
  /\ UNCHANGED <<leaseVars, entry, disk, unsaved, uses, asked, removed, pruning, reused, adds>>

\* MUTANT of Ask: the request is committed whatever was appended since the fold.
AskLate(j) ==
  /\ job[j].place = "asking"
  /\ Requests(j, job[j].op[2])
  /\ PassMoves(j, "removing", job[j].trees \ {job[j].op[2]}, {}, job[j].op)
  /\ Appends
  /\ UNCHANGED <<leaseVars, entry, disk, unsaved, uses, removed, pruning, reused, adds>>

\* The commit of the decide, on the stream it folded.
Ask(j) ==
  /\ job[j].place = "asking"
  /\ j \in fresh
  /\ Requests(j, job[j].op[2])
  /\ PassMoves(j, "removing", job[j].trees \ {job[j].op[2]}, {}, job[j].op)
  /\ Appends
  /\ UNCHANGED <<leaseVars, entry, disk, unsaved, uses, removed, pruning, reused, adds>>

\* withStateRetry decides again, or has used up its attempts and the pass ends.
AskRefused(j) ==
  /\ job[j].place = "asking"
  /\ j \notin fresh
  /\ \E place \in {"deleting", "closing"} : PassMoves(j, place, job[j].trees, {}, None)
  /\ UNCHANGED <<leaseVars, entry, disk, unsaved, uses, asked, removed, pruning, fresh, reused,
                 adds>>

\* No longer eligible, or a fact cannot be read.
Abstain(j, t) ==
  /\ job[j].place = "deleting"
  /\ t \in job[j].trees
  /\ job' = [job EXCEPT ![j].trees = @ \ {t}]
  /\ UNCHANGED <<leaseVars, entry, disk, unsaved, uses, asked, removed, pruning, fresh, reused, adds>>

\* git worktree remove --force.  A git that cannot list the trees reads as a
\* tree that is not registered; a remove that fails ends the pass.
RemoveTree(j) ==
  /\ job[j].place = "removing"
  /\ LET t == job[j].op[2]
     IN  \/ /\ disk' = disk \ {t}
            /\ unsaved' = unsaved \ {t}
            /\ job' = [job EXCEPT ![j].place = "removed"]
            /\ UNCHANGED faults
         \/ /\ t \in disk
            /\ Fault
            /\ \E place \in {"removed", "closing"} : job' = [job EXCEPT ![j].place = place]
            /\ UNCHANGED <<disk, unsaved>>
  /\ UNCHANGED <<alive, slot, pc, by, on, seen, entry, uses, asked, removed, pruning, fresh, reused, adds>>

\* Keyed by the operation id; the reducer drops the entry.
RemoveExecuted(j) ==
  /\ job[j].place = "removed"
  /\ removed' = removed \cup {job[j].op}
  /\ IF job[j].op \in removed THEN UNCHANGED <<entry, fresh>>
     ELSE Becomes(job[j].op[2], "absent") /\ Appends
  /\ PassMoves(j, IF job[j].op[1] = j THEN "deleting" ELSE "recovering", job[j].trees,
               job[j].ops, None)
  /\ UNCHANGED <<leaseVars, disk, unsaved, uses, asked, pruning, reused, adds>>

Worked(j) ==
  /\ job[j].place = "deleting"
  /\ job[j].trees = {}
  /\ job' = [job EXCEPT ![j].place = "closing"]
  /\ UNCHANGED <<leaseVars, entry, disk, unsaved, uses, asked, removed, pruning, fresh, reused, adds>>

\* The finally of prune.
Close(j) ==
  /\ job[j].place = "closing"
  /\ pruning' = pruning \ {j}
  /\ job' = [job EXCEPT ![j] = [NewPass EXCEPT !.place = "over"]]
  /\ Appends
  /\ UNCHANGED <<leaseVars, entry, disk, unsaved, uses, asked, removed, reused, adds>>

\* A process dies with its passes, its calls and its agent.
Crash(p) ==
  /\ LeaseCrash(p)
  /\ uses' = {u \in uses : u[1] # p}
  /\ job' = [j \in Job |-> IF job[j].run = p /\ job[j].place # "over"
                           THEN [NewPass EXCEPT !.place = "dead"] ELSE job[j]]
  /\ fresh' = {j \in fresh : job[j].run # p}
  /\ UNCHANGED <<entry, disk, unsaved, asked, removed, pruning, reused, adds>>

-----------------------------------------------------------------------------

ManagerStep ==
  \/ \E j \in Job, p \in Process : AdoptList(j, p) \/ ProbeLoad(j, p)
  \/ \E j \in Job :
       \/ AdoptCommit(j) \/ ProbeEnds(j)
       \/ Plan(j) \/ Ask(j) \/ AskRefused(j)
       \/ RemoveTree(j) \/ RemoveExecuted(j) \/ Worked(j) \/ Close(j)
       \/ \E o \in asked : Recover(j, o)
       \/ \E t \in Tree : ProbeAppend(j, t) \/ Gather(j, t) \/ Abstain(j, t)

OwnerStep ==
  \/ \E p \in Process, t \in Tree :
       Reserve(p, t) \/ ReleaseTree(p, t) \/ AddTree(p, t) \/ Work(p, t)
  \/ \E t \in Tree : Save(t)
  \/ Reconcile

\* The events of the lease are on the same stream.
MergeStep ==
  /\ LeaseStep
  /\ IF slot' = slot THEN UNCHANGED fresh ELSE Appends
  /\ UNCHANGED <<entry, disk, unsaved, uses, job, asked, removed, pruning, reused, adds>>

Next ==
  \/ ManagerStep \/ OwnerStep \/ MergeStep
  \/ \E p \in Process : Crash(p)

AllDead == alive = {} /\ UNCHANGED vars

Spec == Init /\ [][Next \/ AllDead]_vars

(***************************************************************************)
(* Properties.                                                              *)
(***************************************************************************)

\* prune-ladder.ts "The GC must never destroy unsaved work": no step removes a
\* tree with changes that are uncommitted or not merged.
WorkKept == [][unsaved \subseteq disk']_vars

\* What the ladder found of the entry still stands when the removal is requested:
\* no process has reserved the tree and no other pass has removed it while git was
\* asked for the facts, however the processes append to the stream.
RequestUnowned ==
  [][\A o \in asked' \ asked : Is(o[2], "released") \/ Is(o[2], "orphan")]_vars

HeldBy(t, p) == entry[t] = [state |-> "reserved", owner |-> p]

\* A live owner whose create-time is known loses its reservation only by its own
\* release, or to a pass that looked at the tree before it was reserved.
ReservationKept ==
  [][\A t \in Tree, p \in alive \cap Identified :
       HeldBy(t, p) /\ entry'[t] # entry[t]
         => \/ <<p, t>> \in uses \ uses'
            \/ p \notin alive'
            \/ Looked(t) \cap reused # {}]_vars

\* No removal is requested while a serialize_merge merges into the ref of its
\* tree: the claim and the request are decided on one stream.
NoRequestDuringMerge ==
  [][asked' # asked =>
       \A c \in Serial : ~(pc[c] = "merging" /\ on[c] = Target)]_vars
=============================================================================
