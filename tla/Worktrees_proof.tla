-------------------------- MODULE Worktrees_proof --------------------------
(***************************************************************************)
(* What the worktree manager promises, for any number of processes, trees   *)
(* and passes: a removal is requested of a tree that no process has         *)
(* reserved since the ladder looked, and not during a serialized merge, and *)
(* a live owner keeps its reservation.                                      *)
(* The lease of MergeLease_proof carries over: a step of the manager leaves *)
(* the lease alone but for the budget of failures.                          *)
(***************************************************************************)
EXTENDS Worktrees, MergeLease_proof

\* A live holder knows of its reservation.
Told(t) == \A p \in alive : HeldBy(t, p) => <<p, t>> \in uses

\* Whoever has looked at a tree before its reservation is in reused.
Noticed(t) ==
  \A p \in alive \cap Identified : HeldBy(t, p) => Looked(t) \subseteq reused

\* A removal at hand was requested.
OpAsked(j) ==
  /\ job[j].ops \subseteq asked
  /\ job[j].place \in {"removing", "removed"} => job[j].op \in asked

Idle(t) == Is(t, "released") \/ Is(t, "orphan")

\* A pass that may still commit its request: what its decide folded stands.
Stands(j) ==
  job[j].place = "asking" =>
    /\ job[j].op \in {j} \X Tree
    /\ j \in fresh => Idle(job[j].op[2]) /\ ~Leased

TreeInv ==
  /\ TypeOK
  /\ \A t \in Tree : Told(t) /\ Noticed(t)
  /\ \A j \in Job : OpAsked(j) /\ Stands(j)

\* No pass comes to its commit in this step.
Keeps == \A i \in Job : job'[i].place = "asking" =>
           job[i].place = "asking" /\ job'[i].op = job[i].op

LEMMA TreeInitInv == Init => TreeInv
  BY NoneApart, LeaseInitInv, TreeAssumption
  DEF Init, TreeInv, TypeOK, Stands, Told, Noticed, Looked, HeldBy, OpAsked, NewPass,
      Pass, Entry, State, LeaseInv, LeaseInit, TreeAssumption

\* An append makes every fold stale; without one the entries and the lease stay.
LEMMA StandsKept ==
  ASSUME TreeInv, Keeps, fresh' = {} \/ (fresh' \subseteq fresh /\ entry' = entry /\ slot' = slot)
  PROVE  \A j \in Job : Stands(j)'
  BY DEF TreeInv, Keeps, Stands, Idle, Is, Leased

\* A step that changes passes, but finds no tree of a live owner.
LEMMA PassesOnly ==
  ASSUME TreeInv,
         UNCHANGED <<alive, slot, pc, by, on, seen, entry, uses, removed, reused, adds>>,
         LeaseTypeOK', job' \in [Job -> Pass], pruning' \subseteq Job,
         disk' \subseteq Tree, unsaved' \subseteq disk', unsaved' \subseteq unsaved,
         asked' = asked, fresh' = {} \/ fresh' = fresh, Keeps,
         \A j \in Job : OpAsked(j)',
         \A j \in Job, t \in Tree :
           job'[j].place = "probing" /\ t \in job'[j].trees
             => \/ job[j].place = "probing" /\ t \in job[j].trees
                \/ \A p \in alive \cap Identified : ~HeldBy(t, p)
  PROVE  TreeInv'
<1>1. TypeOK'
  BY DEF TreeInv, TypeOK
<1>2. \A j \in Job : Stands(j)'
  BY StandsKept
<1>3. ASSUME NEW t \in Tree PROVE Told(t)' /\ Noticed(t)'
  <2>1. Told(t)'
    BY DEF TreeInv, Told, HeldBy
  <2>2. ASSUME NEW p \in alive \cap Identified, HeldBy(t, p)
        PROVE  Looked(t)' \subseteq Looked(t)
    BY <2>2 DEF Looked
  <2>3. Noticed(t)'
    BY <2>2 DEF TreeInv, Noticed, HeldBy
  <2> QED
    BY <2>1, <2>3
<1> QED
  BY <1>1, <1>2, <1>3 DEF TreeInv

LEMMA FaultTyped ==
  ASSUME LeaseTypeOK, UNCHANGED <<alive, slot, pc, by, on, seen>>, Fault \/ UNCHANGED faults
  PROVE  LeaseTypeOK'
  BY LeaseAssumption DEF LeaseTypeOK, Fault, LeaseAssumption

\* The passes.
LEMMA PassInv ==
  ASSUME TreeInv, NEW j \in Job,
         \/ \E p \in Process : AdoptList(j, p) \/ ProbeLoad(j, p)
         \/ ProbeEnds(j) \/ Plan(j) \/ AskRefused(j) \/ RemoveTree(j) \/ Worked(j) \/ Close(j)
         \/ \E o \in asked : Recover(j, o)
         \/ \E t \in Tree : Abstain(j, t)
  PROVE  TreeInv'
<1>0. /\ TypeOK /\ LeaseTypeOK /\ job \in [Job -> Pass] /\ asked \subseteq Job \X Tree
      /\ pruning \subseteq Job /\ disk \subseteq Tree /\ unsaved \subseteq disk
      /\ \A i \in Job : OpAsked(i)
  BY DEF TreeInv, TypeOK
<1> USE <1>0
<1>1. ASSUME NEW p \in Process, AdoptList(j, p) PROVE TreeInv'
  <2>1. PICK place \in {"adopting", "pruning"} :
          /\ job' = [job EXCEPT ![j] = [NewPass EXCEPT !.place = place, !.run = p, !.trees = disk]]
          /\ IF place = "pruning" THEN pruning' = pruning \cup {j} /\ Appends
             ELSE UNCHANGED <<pruning, fresh>>
    BY <1>1 DEF AdoptList
  <2>2. \A i \in Job : OpAsked(i)'
    BY <1>1, <2>1 DEF AdoptList, OpAsked, NewPass
  <2>3. job' \in [Job -> Pass]
    BY <2>1 DEF NewPass, Pass
  <2>4. Keeps
    BY <2>1 DEF NewPass, Keeps
  <2>5. (fresh' = {} \/ fresh' = fresh) /\ pruning' \subseteq Job
    BY <2>1 DEF Appends
  <2>6. \A i \in Job : job'[i].place = "probing" => job'[i] = job[i]
    BY <2>1 DEF NewPass
  <2>7. UNCHANGED <<alive, slot, pc, by, on, seen, faults, entry, disk, unsaved, uses, asked,
                    removed, reused, adds>>
    BY <1>1 DEF AdoptList, leaseVars
  <2> QED
    BY <2>2, <2>3, <2>4, <2>5, <2>6, <2>7, FaultTyped, PassesOnly
<1>2. ASSUME NEW p \in Process, ProbeLoad(j, p) PROVE TreeInv'
  <2>1. job' = [job EXCEPT ![j] = [NewPass EXCEPT !.place = "probing", !.run = p, !.trees = Found]]
    BY <1>2 DEF ProbeLoad
  <2>2. \A i \in Job : OpAsked(i)'
    BY <1>2, <2>1 DEF ProbeLoad, OpAsked, NewPass
  <2>3. job' \in [Job -> Pass]
    BY <2>1 DEF NewPass, Pass, Found
  <2>4. \A t \in Found : \A p1 \in alive \cap Identified : ~HeldBy(t, p1)
    BY DEF Found, HeldBy
  <2>5. Keeps
    BY <2>1 DEF NewPass, Keeps
  <2>6. \A i \in Job, t \in Tree : job'[i].place = "probing" /\ t \in job'[i].trees
          => \/ job[i].place = "probing" /\ t \in job[i].trees
             \/ t \in Found
    BY <2>1 DEF NewPass
  <2>7. UNCHANGED <<alive, slot, pc, by, on, seen, faults, entry, disk, unsaved, uses, asked,
                    removed, pruning, fresh, reused, adds>>
    BY <1>2 DEF ProbeLoad, leaseVars
  <2> QED
    BY <2>2, <2>3, <2>4, <2>5, <2>6, <2>7, FaultTyped, PassesOnly
<1>3. CASE ProbeEnds(j)
  <2>1. (\A i \in Job : OpAsked(i)') /\ job' \in [Job -> Pass]
    <3>1. \A i \in Job : OpAsked(i)'
      BY <1>3 DEF ProbeEnds, OpAsked
    <3>2. job[j] \in Pass /\ job' = [job EXCEPT ![j] = [job[j] EXCEPT !.place = "over"]]
      BY <1>3 DEF ProbeEnds
    <3>3. [job[j] EXCEPT !.place = "over"] \in Pass
      BY <3>2 DEF Pass
    <3> QED
      BY <3>1, <3>2, <3>3
  <2>8. Keeps /\ (fresh' = {} \/ fresh' = fresh)
    BY <1>3 DEF ProbeEnds, PassMoves, NewPass, Keeps, Appends
  <2> QED
    BY <1>3, <2>8, <2>1, FaultTyped, PassesOnly DEF ProbeEnds, leaseVars
<1>4. CASE Plan(j)
  <2>1. PICK trees \in SUBSET Tree : PassMoves(j, "deleting", trees, {}, None)
    BY <1>4 DEF Plan
  <2>2. (\A i \in Job : OpAsked(i)') /\ job' \in [Job -> Pass]
    BY <1>4, <2>1 DEF Plan, PassMoves, OpAsked, Pass
  <2>8. Keeps /\ (fresh' = {} \/ fresh' = fresh)
    BY <1>4, <2>1 DEF Plan, PassMoves, NewPass, Keeps, Appends
  <2> QED
    BY <1>4, <2>8, <2>1, <2>2, FaultTyped, PassesOnly DEF Plan, PassMoves, leaseVars
<1>5. CASE RemoveTree(j)
  <2>1. PICK place \in {"removed", "closing"} : job' = [job EXCEPT ![j].place = place]
    BY <1>5 DEF RemoveTree
  <2>2. (\A i \in Job : OpAsked(i)') /\ job' \in [Job -> Pass]
    BY <1>5, <2>1 DEF RemoveTree, OpAsked, Pass
  <2>3. Fault \/ UNCHANGED faults
    BY <1>5 DEF RemoveTree
  <2>4. disk' \subseteq Tree /\ unsaved' \subseteq disk' /\ unsaved' \subseteq unsaved
    BY <1>5 DEF RemoveTree
  <2>8. Keeps /\ (fresh' = {} \/ fresh' = fresh)
    BY <1>5, <2>1 DEF RemoveTree, PassMoves, NewPass, Keeps, Appends
  <2> QED
    BY <1>5, <2>8, <2>1, <2>2, <2>3, <2>4, FaultTyped, PassesOnly DEF RemoveTree
<1>6. CASE Worked(j)
  <2>1. (\A i \in Job : OpAsked(i)') /\ job' \in [Job -> Pass]
    <3>1. \A i \in Job : OpAsked(i)'
      BY <1>6 DEF Worked, OpAsked
    <3>2. job[j] \in Pass /\ job' = [job EXCEPT ![j] = [job[j] EXCEPT !.place = "closing"]]
      BY <1>6 DEF Worked
    <3>3. [job[j] EXCEPT !.place = "closing"] \in Pass
      BY <3>2 DEF Pass
    <3> QED
      BY <3>1, <3>2, <3>3
  <2>8. Keeps /\ (fresh' = {} \/ fresh' = fresh)
    BY <1>6 DEF Worked, PassMoves, NewPass, Keeps, Appends
  <2> QED
    BY <1>6, <2>8, <2>1, FaultTyped, PassesOnly DEF Worked, leaseVars
<1>7. CASE Close(j)
  <2>1. (\A i \in Job : OpAsked(i)') /\ job' \in [Job -> Pass]
    BY <1>7 DEF Close, OpAsked, Pass, NewPass
  <2>8. Keeps /\ (fresh' = {} \/ fresh' = fresh)
    BY <1>7 DEF Close, PassMoves, NewPass, Keeps, Appends
  <2> QED
    BY <1>7, <2>8, <2>1, FaultTyped, PassesOnly DEF Close, leaseVars, NewPass
<1>8. ASSUME NEW o \in asked, Recover(j, o) PROVE TreeInv'
  <2>1. (\A i \in Job : OpAsked(i)') /\ job' \in [Job -> Pass]
    BY <1>8 DEF Recover, PassMoves, OpAsked, Pass
  <2>8. Keeps /\ (fresh' = {} \/ fresh' = fresh)
    BY <1>8 DEF Recover, PassMoves, NewPass, Keeps, Appends
  <2> QED
    BY <1>8, <2>8, <2>1, FaultTyped, PassesOnly DEF Recover, PassMoves, leaseVars
<1>9. ASSUME NEW t \in Tree, Abstain(j, t) PROVE TreeInv'
  <2>1. (\A i \in Job : OpAsked(i)') /\ job' \in [Job -> Pass]
    BY <1>9 DEF Abstain, OpAsked, Pass
  <2>8. Keeps /\ (fresh' = {} \/ fresh' = fresh)
    BY <1>9 DEF Abstain, PassMoves, NewPass, Keeps, Appends
  <2> QED
    BY <1>9, <2>8, <2>1, FaultTyped, PassesOnly DEF Abstain, leaseVars
<1>10. CASE AskRefused(j)
  <2>1. PICK place \in {"deleting", "closing"} : PassMoves(j, place, job[j].trees, {}, None)
    BY <1>10 DEF AskRefused
  <2>2. (\A i \in Job : OpAsked(i)') /\ job' \in [Job -> Pass]
    BY <1>10, <2>1 DEF AskRefused, PassMoves, OpAsked, Pass
  <2>8. Keeps /\ fresh' = fresh
    BY <1>10, <2>1 DEF AskRefused, PassMoves, Keeps
  <2> QED
    BY <1>10, <2>1, <2>2, <2>8, FaultTyped, PassesOnly DEF AskRefused, PassMoves, leaseVars
<1> QED
  BY <1>1, <1>2, <1>3, <1>4, <1>5, <1>6, <1>7, <1>8, <1>9, <1>10

\* An entry that becomes anything but reserved is nobody's.
LEMMA UnreservedFree ==
  ASSUME NEW t \in Tree, NEW p \in Process, entry[t].state # "reserved"
  PROVE  ~HeldBy(t, p)
  BY DEF HeldBy

\* The steps of the passes that change entries or requests.
LEMMA CommitInv ==
  ASSUME TreeInv, NEW j \in Job,
         \/ AdoptCommit(j) \/ RemoveExecuted(j) \/ Ask(j)
         \/ \E t \in Tree : ProbeAppend(j, t) \/ Gather(j, t)
  PROVE  TreeInv'
<1>0. /\ TypeOK /\ LeaseTypeOK /\ job \in [Job -> Pass] /\ asked \subseteq Job \X Tree
      /\ removed \subseteq asked /\ entry \in [Tree -> Entry] /\ alive \subseteq Process
      /\ \A i \in Job : OpAsked(i)
      /\ \A t \in Tree : Told(t) /\ Noticed(t)
      /\ \A i \in Job : Stands(i)
  BY DEF TreeInv, TypeOK, LeaseTypeOK
<1> USE <1>0
<1>1. CASE AdoptCommit(j)
  <2>1. \A t \in Tree : entry'[t] = entry[t] \/ entry'[t].state # "reserved"
    BY <1>1 DEF AdoptCommit
  <2>2. job' \in [Job -> Pass] /\ entry' \in [Tree -> Entry] /\ (\A i \in Job : OpAsked(i)')
    <3>1. entry' \in [Tree -> Entry]
      BY <1>1 DEF AdoptCommit, Entry, State
    <3>2. PICK place \in {"over", "recovering"}, ops \in SUBSET asked :
            PassMoves(j, place, {}, ops, None)
      BY <1>1 DEF AdoptCommit
    <3>3. asked' = asked
      BY <1>1 DEF AdoptCommit
    <3> QED
      BY <3>1, <3>2, <3>3 DEF PassMoves, OpAsked, Pass
  <2>3. TypeOK'
    BY <1>1, <2>2 DEF AdoptCommit, TypeOK, LeaseTypeOK, leaseVars, Appends
  <2>4. \A t \in Tree : Looked(t)' \subseteq Looked(t)
    BY <1>1 DEF AdoptCommit, PassMoves, Looked
  <2>5. \A t \in Tree : Told(t)' /\ Noticed(t)'
    BY <1>1, <2>1, <2>4 DEF AdoptCommit, Told, Noticed, HeldBy, leaseVars
  <2>8. Keeps /\ (fresh' = {} \/ (fresh' = fresh /\ entry' = entry /\ slot' = slot))
    BY <1>1 DEF AdoptCommit, PassMoves, Keeps, Appends, leaseVars
  <2>9. \A i \in Job : Stands(i)'
    BY <2>8, StandsKept
  <2> QED
    BY <2>2, <2>3, <2>5, <2>9 DEF TreeInv
<1>2. CASE RemoveExecuted(j)
  <2>1. job[j].op \in asked /\ job[j].op[2] \in Tree
    BY <1>2 DEF RemoveExecuted, OpAsked
  <2>2. \A t \in Tree : entry'[t] = entry[t] \/ entry'[t].state # "reserved"
    BY <1>2, <2>1 DEF RemoveExecuted, Becomes
  <2>3. job' \in [Job -> Pass] /\ (\A i \in Job : OpAsked(i)')
    BY <1>2 DEF RemoveExecuted, PassMoves, OpAsked, Pass
  <2>4. entry' \in [Tree -> Entry] /\ removed' \subseteq asked
    BY <1>2, <2>1 DEF RemoveExecuted, Becomes, Entry, State
  <2>5. TypeOK'
    BY <1>2, <2>3, <2>4 DEF RemoveExecuted, TypeOK, LeaseTypeOK, leaseVars, Appends
  <2>6. \A t \in Tree : Looked(t)' \subseteq Looked(t)
    BY <1>2 DEF RemoveExecuted, PassMoves, Looked
  <2>7. \A t \in Tree : Told(t)' /\ Noticed(t)'
    BY <1>2, <2>2, <2>6 DEF RemoveExecuted, Told, Noticed, HeldBy, leaseVars
  <2>8. Keeps /\ (fresh' = {} \/ (fresh' = fresh /\ entry' = entry /\ slot' = slot))
    BY <1>2 DEF RemoveExecuted, PassMoves, Keeps, Appends, leaseVars
  <2>9. \A i \in Job : Stands(i)'
    BY <2>8, StandsKept
  <2> QED
    BY <2>3, <2>5, <2>7, <2>9 DEF TreeInv
<1>3. ASSUME NEW t \in Tree, ProbeAppend(j, t) PROVE TreeInv'
  <2>1. \A u \in Tree : entry'[u] = entry[u] \/ entry'[u].state # "reserved"
    BY <1>3 DEF ProbeAppend, Becomes
  <2>2. job' \in [Job -> Pass] /\ (\A i \in Job : OpAsked(i)')
    BY <1>3 DEF ProbeAppend, OpAsked, Pass
  <2>3. entry' \in [Tree -> Entry] /\ LeaseTypeOK'
    BY <1>3, FaultTyped DEF ProbeAppend, Becomes, Entry, State
  <2>4. TypeOK'
    BY <1>3, <2>2, <2>3 DEF ProbeAppend, TypeOK, Appends
  <2>5. \A u \in Tree : Looked(u)' \subseteq Looked(u)
    BY <1>3 DEF ProbeAppend, Looked
  <2>6. \A u \in Tree : Told(u)' /\ Noticed(u)'
    BY <1>3, <2>1, <2>5 DEF ProbeAppend, Told, Noticed, HeldBy
  <2>8. Keeps /\ (fresh' = {} \/ (fresh' = fresh /\ entry' = entry /\ slot' = slot))
    BY <1>3 DEF ProbeAppend, PassMoves, Keeps, Appends, leaseVars
  <2>9. \A i \in Job : Stands(i)'
    BY <2>8, StandsKept
  <2> QED
    BY <2>2, <2>4, <2>6, <2>9 DEF TreeInv
<1>4. CASE Ask(j)
  <2>1. PICK t \in Tree : job[j].op[2] = t /\ job[j].op \in Job \X Tree
    BY <1>4 DEF Ask, Stands
  <2>2. entry[t].state # "reserved"
    BY <1>4, <2>1 DEF Ask, Stands, Idle, Is
  <2>3. asked' = asked \cup {<<j, t>>}
    BY <1>4, <2>1 DEF Ask, Requests
  <2>4. job' = [job EXCEPT ![j] = [place |-> "removing", run |-> job[j].run,
                                   trees |-> job[j].trees \ {t}, ops |-> {}, op |-> job[j].op]]
    BY <1>4, <2>1 DEF Ask, PassMoves
  <2>5. job' \in [Job -> Pass]
    BY <2>1, <2>4 DEF Pass
  <2>6. job[j].op \in asked' /\ asked \subseteq asked'
    <3>1. PICK i \in Job, u \in Tree : job[j].op = <<i, u>>
      BY <2>1
    <3>2. i = j
      BY <1>4, <3>1 DEF Ask, Stands
    <3> QED
      BY <2>1, <2>3, <3>1, <3>2
  <2>7. \A i \in Job : OpAsked(i)'
    BY <2>4, <2>6 DEF OpAsked
  <2>8. TypeOK'
    BY <1>4, <2>3, <2>5 DEF Ask, TypeOK, LeaseTypeOK, leaseVars, Appends
  <2>9. \A u \in Tree : u # t => Looked(u)' \subseteq Looked(u)
    BY <1>4, <2>3, <2>4 DEF Ask, Looked
  <2>10. \A u \in Tree : Told(u)'
    BY <1>4 DEF Ask, Told, HeldBy, leaseVars
  <2>11. \A u \in Tree : u # t => Noticed(u)'
    BY <1>4, <2>9 DEF Ask, Noticed, HeldBy, leaseVars
  <2>12. Noticed(t)'
    BY <1>4, <2>2 DEF Ask, Noticed, HeldBy, leaseVars
  <2>13. Keeps /\ fresh' = {}
    BY <1>4, <2>4 DEF Ask, Keeps, Appends
  <2>14. \A i \in Job : Stands(i)'
    BY <2>13, StandsKept
  <2> QED
    BY <2>7, <2>8, <2>10, <2>11, <2>12, <2>14 DEF TreeInv
<1>5. ASSUME NEW t \in Tree, Gather(j, t) PROVE TreeInv'
  <2>1. job' = [job EXCEPT ![j] = [place |-> "asking", run |-> job[j].run,
                                   trees |-> job[j].trees, ops |-> {}, op |-> <<j, t>>]]
    BY <1>5 DEF Gather, PassMoves
  <2>2. job' \in [Job -> Pass] /\ (\A i \in Job : OpAsked(i)')
    BY <1>5, <2>1 DEF Gather, OpAsked, Pass
  <2>3. TypeOK'
    BY <1>5, <2>2 DEF Gather, TypeOK, LeaseTypeOK, leaseVars
  <2>4. \A u \in Tree : Looked(u)' \subseteq Looked(u)
    BY <1>5, <2>1 DEF Gather, Looked
  <2>5. \A u \in Tree : Told(u)' /\ Noticed(u)'
    BY <1>5, <2>4 DEF Gather, Told, Noticed, HeldBy, leaseVars
  <2>6. Idle(t) /\ ~Leased
    BY <1>5 DEF Gather, Verified, Eligible, Idle
  <2>7. ASSUME NEW i \in Job PROVE Stands(i)'
    <3>1. CASE i = j
      BY <1>5, <2>1, <2>6, <3>1 DEF Gather, Stands, Idle, Is, Leased, leaseVars
    <3>2. CASE i # j
      BY <1>5, <2>1, <3>2 DEF Gather, Stands, Idle, Is, Leased, leaseVars
    <3> QED
      BY <3>1, <3>2
  <2> QED
    BY <2>2, <2>3, <2>5, <2>7 DEF TreeInv
<1> QED
  BY <1>1, <1>2, <1>3, <1>4, <1>5

\* The owners and their agents.
LEMMA OwnerInv ==
  ASSUME TreeInv, OwnerStep
  PROVE  TreeInv'
<1>0. /\ TypeOK /\ LeaseTypeOK /\ entry \in [Tree -> Entry] /\ alive \subseteq Process
      /\ uses \subseteq alive \X Tree /\ asked \subseteq Job \X Tree
      /\ job \in [Job -> Pass] /\ reused \subseteq Job \X Tree
      /\ \A i \in Job : OpAsked(i)
      /\ \A t \in Tree : Told(t) /\ Noticed(t)
      /\ MaxAdds \in Nat
  BY TreeAssumption DEF TreeInv, TypeOK, LeaseTypeOK, TreeAssumption
<1> USE <1>0
<1>1. ASSUME NEW t \in Tree PROVE Looked(t) \subseteq Job \X Tree
  BY <1>1 DEF Looked
<1>2. ASSUME UNCHANGED <<job, asked, removed>>
      PROVE  (\A i \in Job : OpAsked(i)') /\ (\A t \in Tree : Looked(t)' = Looked(t))
  BY <1>2 DEF OpAsked, Looked
<1>9. \A i \in Job : Stands(i)'
  <2>1. Keeps /\ (fresh' = {} \/ (fresh' = fresh /\ entry' = entry /\ slot' = slot))
    BY DEF OwnerStep, Reserve, ReleaseTree, AddTree, Work, Save, Reconcile, Keeps, Appends, leaseVars
  <2> QED
    BY <2>1, StandsKept
<1>3. ASSUME NEW p \in Process, NEW t \in Tree, Reserve(p, t) PROVE TreeInv'
  <2>1. TypeOK'
    BY <1>1, <1>3 DEF Reserve, Use, TypeOK, LeaseTypeOK, leaseVars, Appends, Entry, State
  <2>3. \A u \in Tree : Told(u)'
    BY <1>3 DEF Reserve, Told, HeldBy, leaseVars
  <2>4. \A u \in Tree : Noticed(u)'
    BY <1>2, <1>3 DEF Reserve, Use, Noticed, HeldBy, leaseVars
  <2> QED
    BY <1>2, <1>3, <1>9, <2>1, <2>3, <2>4 DEF Reserve, TreeInv
<1>4. ASSUME NEW p \in Process, NEW t \in Tree, ReleaseTree(p, t) PROVE TreeInv'
  <2>1. TypeOK'
    BY <1>4 DEF ReleaseTree, Becomes, TypeOK, LeaseTypeOK, leaseVars, Appends, Entry, State
  <2>3. \A u \in Tree : entry'[u] = IF u = t THEN [state |-> "released", owner |-> None] ELSE entry[u]
    BY <1>4 DEF ReleaseTree, Becomes
  <2>4. \A u \in Tree : Told(u)'
    BY <1>4, <2>3 DEF ReleaseTree, Told, HeldBy, leaseVars
  <2>5. \A u \in Tree : Noticed(u)'
    BY <1>2, <1>4, <2>3 DEF ReleaseTree, Noticed, HeldBy, leaseVars
  <2> QED
    BY <1>2, <1>4, <1>9, <2>1, <2>4, <2>5 DEF ReleaseTree, TreeInv
<1>5. ASSUME NEW p \in Process, NEW t \in Tree, AddTree(p, t) PROVE TreeInv'
  <2>1. TypeOK'
    BY <1>5 DEF AddTree, TypeOK, LeaseTypeOK, leaseVars, Appends
  <2> QED
    BY <1>2, <1>5, <1>9, <2>1 DEF AddTree, TreeInv, Told, Noticed, HeldBy, leaseVars
<1>6. ASSUME NEW p \in Process, NEW t \in Tree, Work(p, t) PROVE TreeInv'
  <2>1. TypeOK'
    BY <1>6 DEF Work, TypeOK, LeaseTypeOK, leaseVars, Appends
  <2> QED
    BY <1>2, <1>6, <1>9, <2>1 DEF Work, TreeInv, Told, Noticed, HeldBy, leaseVars
<1>7. ASSUME NEW t \in Tree, Save(t) PROVE TreeInv'
  <2>1. TypeOK'
    BY <1>7 DEF Save, TypeOK, LeaseTypeOK, leaseVars, Appends
  <2> QED
    BY <1>2, <1>7, <1>9, <2>1 DEF Save, TreeInv, Told, Noticed, HeldBy, leaseVars
<1>8. CASE Reconcile
  <2>1. \A u \in Tree : entry'[u] = entry[u] \/ entry'[u].state # "reserved"
    BY <1>8 DEF Reconcile
  <2>2. TypeOK'
    BY <1>8 DEF Reconcile, TypeOK, LeaseTypeOK, leaseVars, Appends, Entry, State
  <2> QED
    BY <1>2, <1>8, <1>9, <2>1, <2>2
    DEF Reconcile, TreeInv, Told, Noticed, HeldBy, leaseVars
<1> QED
  BY <1>3, <1>4, <1>5, <1>6, <1>7, <1>8 DEF OwnerStep

LEMMA LeaseOnlyInv ==
  ASSUME TreeInv, LeaseTypeOK', alive' = alive,
         UNCHANGED <<entry, disk, unsaved, uses, job, asked, removed, pruning, reused, adds>>,
         IF slot' = slot THEN fresh' = fresh ELSE Appends
  PROVE  TreeInv'
<1>1. \A j \in Job : Stands(j)'
  BY StandsKept DEF Keeps, Appends
<1> QED
  BY <1>1 DEF TreeInv, TypeOK, Told, Noticed, HeldBy, Looked, OpAsked, Appends

LEMMA TreeCrashInv ==
  ASSUME TreeInv, NEW p \in Process, Crash(p), LeaseTypeOK'
  PROVE  TreeInv'
<1>0. job \in [Job -> Pass]
  BY DEF TreeInv, TypeOK
<1>1. alive' = alive \ {p}
  BY DEF Crash, LeaseCrash
<1>2. \A j \in Job : job'[j] = IF job[j].run = p /\ job[j].place # "over"
                               THEN [NewPass EXCEPT !.place = "dead"] ELSE job[j]
  BY DEF Crash
<1>3. job' \in [Job -> Pass]
  BY <1>0 DEF Crash, NewPass, Pass
<1>4. uses' \subseteq alive' \X Tree
  BY <1>1 DEF Crash, TreeInv, TypeOK
<1>5. TypeOK'
  BY <1>3, <1>4 DEF Crash, TreeInv, TypeOK
<1>10. \A j \in Job : Stands(j)'
  <2>1. Keeps
    BY <1>2 DEF Keeps, NewPass
  <2>2. fresh' \subseteq fresh /\ entry' = entry /\ slot' = slot
    BY DEF Crash, LeaseCrash
  <2> QED
    BY <2>1, <2>2, StandsKept
<1>6. \A j \in Job : OpAsked(j)'
  BY <1>2 DEF Crash, TreeInv, OpAsked, NewPass
<1>7. \A t \in Tree : Told(t)'
  BY <1>1 DEF Crash, TreeInv, Told, HeldBy
<1>8. \A t \in Tree : Looked(t)' \subseteq Looked(t)
  BY <1>2 DEF Crash, Looked, NewPass
<1>9. \A t \in Tree : Noticed(t)'
  BY <1>1, <1>8 DEF Crash, TreeInv, Noticed, HeldBy
<1> QED
  BY <1>5, <1>6, <1>7, <1>9, <1>10 DEF TreeInv

WorktreeInv == LeaseInv /\ TreeInv

LEMMA ManagerInv ==
  ASSUME TreeInv, ManagerStep
  PROVE  TreeInv'
  BY PassInv, CommitInv DEF ManagerStep

\* The lease does not notice the manager, whose failures use up the same budget.
LEMMA ManagerKeepsLease ==
  ASSUME ManagerStep \/ OwnerStep
  PROVE  UNCHANGED <<alive, slot, pc, by, on, seen>>
<1>1. ASSUME NEW j \in Job, NEW p \in Process, AdoptList(j, p) \/ ProbeLoad(j, p)
      PROVE  UNCHANGED <<alive, slot, pc, by, on, seen>>
  BY <1>1 DEF AdoptList, ProbeLoad, leaseVars
<1>2. ASSUME NEW j \in Job,
             AdoptCommit(j) \/ ProbeEnds(j) \/ Plan(j) \/ Ask(j) \/ AskRefused(j)
               \/ RemoveTree(j) \/ RemoveExecuted(j) \/ Worked(j) \/ Close(j)
      PROVE  UNCHANGED <<alive, slot, pc, by, on, seen>>
  BY <1>2 DEF AdoptCommit, ProbeEnds, Plan, Ask, AskRefused, RemoveTree, RemoveExecuted, Worked,
              Close, leaseVars
<1>3. ASSUME NEW j \in Job, NEW t \in Tree, ProbeAppend(j, t) \/ Gather(j, t) \/ Abstain(j, t)
      PROVE  UNCHANGED <<alive, slot, pc, by, on, seen>>
  BY <1>3 DEF ProbeAppend, Gather, Abstain, leaseVars
<1>4. ASSUME NEW j \in Job, NEW o \in asked, Recover(j, o)
      PROVE  UNCHANGED <<alive, slot, pc, by, on, seen>>
  BY <1>4 DEF Recover, leaseVars
<1>5. ASSUME OwnerStep
      PROVE  UNCHANGED <<alive, slot, pc, by, on, seen>>
  BY <1>5 DEF OwnerStep, Reserve, ReleaseTree, AddTree, Work, Save, Reconcile, leaseVars
<1> QED
  BY <1>1, <1>2, <1>3, <1>4, <1>5 DEF ManagerStep

LEMMA WorktreeNextInv ==
  ASSUME WorktreeInv, [Next \/ AllDead]_vars
  PROVE  WorktreeInv'
<1> USE DEF WorktreeInv
<1>1. CASE ManagerStep \/ OwnerStep
  <2>1. TreeInv'
    BY <1>1, ManagerInv, OwnerInv
  <2>2. faults' \in 0 .. MaxFaults
    BY <2>1 DEF TreeInv, TypeOK, LeaseTypeOK
  <2> QED
    BY <1>1, <2>1, <2>2, ManagerKeepsLease, LeaseStutter
<1>2. CASE MergeStep
  <2>1. LeaseInv' /\ LeaseTypeOK'
    BY <1>2, LeaseStepInv DEF LeaseInv, MergeStep
  <2>2. alive' = alive
    BY <1>2 DEF MergeStep, LeaseStep, Start, Works, TimeOut, ReclaimFails, ReleaseFails, FindFree, FindDead,
                Reclaim, Claim, ClaimLost, Guard, Merged, Release, SweepEnds, SweepOne
  <2> QED
    BY <1>2, <2>1, <2>2, LeaseOnlyInv DEF MergeStep
<1>3. ASSUME NEW p \in Process, Crash(p) PROVE WorktreeInv'
  <2>1. LeaseInv' /\ LeaseTypeOK'
    BY <1>3, CrashInv DEF Crash, LeaseInv
  <2> QED
    BY <1>3, <2>1, TreeCrashInv
<1>4. CASE UNCHANGED vars
  <2>1. LeaseInv' /\ LeaseTypeOK'
    BY <1>4, LeaseStutter DEF vars, leaseVars, LeaseInv, LeaseTypeOK
  <2> QED
    BY <1>4, <2>1, LeaseOnlyInv DEF vars, leaseVars, treeVars
<1> QED
  BY <1>1, <1>2, <1>3, <1>4 DEF Next, AllDead

\* The inductive invariant of the composition.
THEOREM WorktreeSafety == Spec => []WorktreeInv
<1>1. Init => WorktreeInv
  BY TreeInitInv, LeaseInitInv DEF Init, WorktreeInv
<1>2. WorktreeInv /\ [Next \/ AllDead]_vars => WorktreeInv'
  BY WorktreeNextInv
<1> QED
  BY <1>1, <1>2, PTL DEF Spec

\* Types of the composed state.
THEOREM WorktreeTypes == Spec => []TypeOK
<1>1. WorktreeInv => TypeOK
  BY DEF WorktreeInv, TreeInv
<1> QED
  BY <1>1, WorktreeSafety, PTL

\* A step that is no commit of a removal requests none.
LEMMA OnlyAskRequests ==
  ASSUME [Next \/ AllDead]_vars, ~(\E j \in Job : Ask(j))
  PROVE  asked' = asked
<1>1. OwnerStep => asked' = asked
  BY DEF OwnerStep, Reserve, ReleaseTree, AddTree, Work, Save, Reconcile
<1>2. (\E p \in Process : Crash(p)) \/ MergeStep \/ UNCHANGED vars => asked' = asked
  BY DEF Crash, MergeStep, treeVars, vars
<1>3. ManagerStep => asked' = asked
  BY DEF ManagerStep, AdoptList, ProbeLoad, AdoptCommit, ProbeEnds, Plan, AskRefused, RemoveTree,
         RemoveExecuted, Worked, Close, Recover, ProbeAppend, Gather, Abstain
<1> QED
  BY <1>1, <1>2, <1>3 DEF Next, AllDead

\* A removal is requested of a tree as the ladder found its entry: a reservation, or
\* the removal by another pass, that comes while git is asked refuses the request.
THEOREM RequestsUnowned == Spec => RequestUnowned
<1> DEFINE Unowned == \A o \in asked' \ asked : Is(o[2], "released") \/ Is(o[2], "orphan")
<1>1. ASSUME WorktreeInv, [Next \/ AllDead]_vars
      PROVE  [Unowned]_vars
  <2>1. ASSUME NEW j \in Job, Ask(j)
        PROVE  Unowned
    <3>1. Idle(job[j].op[2]) /\ asked' = asked \cup {<<j, job[j].op[2]>>}
      BY <1>1, <2>1 DEF Ask, Requests, WorktreeInv, TreeInv, Stands
    <3> QED
      BY <3>1 DEF Idle
  <2> QED
    BY <1>1, <2>1, OnlyAskRequests
<1> QED
  BY <1>1, WorktreeSafety, PTL DEF Spec, RequestUnowned

\* The decide of a removal and the claim of a merge exclude each other.
THEOREM RequestsBetweenMerges == Spec => NoRequestDuringMerge
<1> DEFINE Apart == asked' # asked => \A c \in Serial : ~(pc[c] = "merging" /\ on[c] = Target)
<1>1. ASSUME WorktreeInv, [Next \/ AllDead]_vars
      PROVE  [Apart]_vars
  <2>1. ASSUME NEW j \in Job, Ask(j)
        PROVE  Apart
    <3>1. slot[Target] = None
      BY <1>1, <2>1 DEF Ask, WorktreeInv, TreeInv, Stands, Leased
    <3>2. \A c \in Serial : pc[c] = "merging" => slot[on[c]] = c
      BY <1>1 DEF WorktreeInv, LeaseInv, Holds
    <3> QED
      BY <3>1, <3>2, LeaseAssumption DEF LeaseAssumption, Call
  <2> QED
    BY <1>1, <2>1, OnlyAskRequests
<1> QED
  BY <1>1, WorktreeSafety, PTL DEF Spec, NoRequestDuringMerge

\* Only its own release, its death or a pass that looked before takes the
\* reservation of an identified live owner.
THEOREM ReservationsKept == Spec => ReservationKept
<1> DEFINE Kept == \A t \in Tree, p \in alive \cap Identified :
                     HeldBy(t, p) /\ entry'[t] # entry[t]
                       => \/ <<p, t>> \in uses \ uses'
                          \/ p \notin alive'
                          \/ Looked(t) \cap reused # {}
<1>1. ASSUME WorktreeInv, [Next \/ AllDead]_vars
      PROVE  [Kept]_vars
  <2>0. /\ entry \in [Tree -> Entry] /\ asked \subseteq Job \X Tree
        /\ \A t \in Tree : Told(t) /\ Noticed(t)
        /\ \A j \in Job : OpAsked(j)
        /\ None \notin Process /\ alive \subseteq Process
    BY <1>1, NoneApart DEF WorktreeInv, TreeInv, TypeOK, LeaseTypeOK
  <2>1. ASSUME NEW q \in Process, NEW u \in Tree, Reserve(q, u) PROVE Kept
    BY <2>0, <2>1 DEF Reserve, Blocks, HeldBy
  <2>2. ASSUME NEW q \in Process, NEW u \in Tree, ReleaseTree(q, u) PROVE Kept
    BY <2>0, <2>2 DEF ReleaseTree, Becomes, Blocks, HeldBy, Told
  <2>3. CASE Reconcile
    BY <2>0, <2>3 DEF Reconcile, DeadOwner, HeldBy
  <2>4. ASSUME NEW j \in Job, AdoptCommit(j) PROVE Kept
    BY <2>0, <2>4 DEF AdoptCommit, Is, HeldBy
  <2>5. ASSUME NEW j \in Job, NEW u \in Tree, ProbeAppend(j, u) PROVE Kept
    <3>1. <<j, u>> \in Looked(u)
      BY <2>5 DEF ProbeAppend, Looked
    <3>2. \A t \in Tree : t # u => entry'[t] = entry[t]
      BY <2>0, <2>5 DEF ProbeAppend, Becomes
    <3> QED
      BY <2>0, <3>1, <3>2 DEF Noticed
  <2>6. ASSUME NEW j \in Job, RemoveExecuted(j) PROVE Kept
    <3>1. CASE job[j].op \in removed
      BY <2>6, <3>1 DEF RemoveExecuted
    <3>2. CASE job[j].op \notin removed
      <4> DEFINE u == job[j].op[2]
      <4>1. job[j].op \in asked \ removed
        BY <2>0, <2>6, <3>2 DEF RemoveExecuted, OpAsked
      <4>2. job[j].op \in Looked(u)
        BY <4>1 DEF Looked
      <4>3. \A t \in Tree : t # u => entry'[t] = entry[t]
        BY <2>0, <2>6, <3>2 DEF RemoveExecuted, Becomes
      <4> QED
        BY <2>0, <4>2, <4>3 DEF Noticed
    <3> QED
      BY <3>1, <3>2
  <2>7. CASE entry' = entry
    BY <2>7
  <2>8. ManagerStep => \/ entry' = entry
                       \/ \E j \in Job : AdoptCommit(j) \/ RemoveExecuted(j)
                       \/ \E j \in Job, u \in Tree : ProbeAppend(j, u)
    BY DEF ManagerStep, AdoptList, ProbeLoad, ProbeEnds, Plan, RemoveTree, Worked, Close, Recover,
           Ask, AskRefused, Gather, Abstain
  <2>9. OwnerStep => \/ entry' = entry \/ Reconcile
                     \/ \E q \in Process, u \in Tree : Reserve(q, u) \/ ReleaseTree(q, u)
    BY DEF OwnerStep, AddTree, Work, Save
  <2>10. (\E p \in Process : Crash(p)) \/ MergeStep \/ UNCHANGED vars => entry' = entry
    BY DEF Crash, MergeStep, treeVars, vars
  <2> QED
    BY <1>1, <2>1, <2>2, <2>3, <2>4, <2>5, <2>6, <2>7, <2>8, <2>9, <2>10 DEF Next, AllDead
<1> QED
  BY <1>1, WorktreeSafety, PTL DEF Spec, ReservationKept
=============================================================================
