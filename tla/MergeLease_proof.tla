-------------------------- MODULE MergeLease_proof --------------------------
(***************************************************************************)
(* One serialized merge per integration ref, and no lease taken from a      *)
(* successor, for any number of processes, refs, calls and sweeps.  The     *)
(* argument: a call that is about to merge holds the slot and its process   *)
(* lives; whoever a waiter releases is dead, and the dead stay dead.        *)
(***************************************************************************)
EXTENDS MergeLease, TLAPS

\* A call in progress has a process that lives.
Lives(c) == pc[c] \notin {"new", "over", "dead"} => by[c] \in alive

\* Whoever has passed the claim holds the lease of its ref.
Holds(c) == pc[c] \in {"guard", "merging"} => slot[on[c]] = c

\* What a waiter is about to release belongs to a dead process.
SeenDead(c) == pc[c] = "reclaiming" => \A h \in seen[c] : ProvablyDead(h)

\* Only a serialize_merge waits, claims and releases.
Queued == {"waiting", "reclaiming", "claiming", "releasing"}

LeaseInv ==
  /\ LeaseTypeOK
  /\ \A c \in Call : pc[c] = "new" <=> by[c] = None
  /\ \A c \in Call : pc[c] \notin {"new", "dead"} => on[c] \in Ref
  /\ \A c \in Call : pc[c] \in Queued => c \in Serial
  /\ \A c \in Call : Lives(c)
  /\ \A c \in Serial : Holds(c)
  /\ \A c \in Call : SeenDead(c)

LEMMA NoneApart ==
  /\ None \notin Process
  /\ None \notin Ref
  /\ Serial \subseteq Call
  /\ Identified \subseteq Process
  BY LeaseAssumption DEF LeaseAssumption, Call

\* A provably dead call is over: it neither merges nor is about to.
LEMMA DeadIsOver ==
  ASSUME LeaseInv, NEW h \in Serial, ProvablyDead(h)
  PROVE  pc[h] \in {"over", "dead"}
  BY NoneApart DEF LeaseInv, LeaseTypeOK, Lives, ProvablyDead, Call

\* A release of a call that is past its merge keeps the leases of the others.
LEMMA ClearedKeeps ==
  ASSUME LeaseInv, NEW h \in Serial, pc[h] \notin {"guard", "merging"},
         slot' = Cleared(h)
  PROVE  /\ slot' \in [Ref -> Serial \cup {None}]
         /\ \A c \in Serial : Holds(c) /\ pc[c] \in {"guard", "merging"} => slot'[on[c]] = c
<1>1. slot' \in [Ref -> Serial \cup {None}]
  BY DEF LeaseInv, LeaseTypeOK, Cleared
<1>2. ASSUME NEW c \in Serial, Holds(c), pc[c] \in {"guard", "merging"}
      PROVE  slot'[on[c]] = c
  <2>1. on[c] \in Ref /\ c # h
    BY <1>2, NoneApart DEF LeaseInv
  <2> QED
    BY <1>2, <2>1 DEF Cleared, Holds
<1> QED
  BY <1>1, <1>2

LEMMA LeaseInitInv == LeaseInit => LeaseInv
  BY LeaseAssumption, NoneApart
  DEF LeaseInit, LeaseInv, LeaseTypeOK, Queued, Place, Lives, Holds, SeenDead, LeaseAssumption, Call

\* A step of one call that has started, whose process lives and stays.
LEMMA OneCallMoves ==
  ASSUME LeaseInv, NEW c \in Call, NEW place \in Place \ {"new", "dead"},
         pc[c] \notin {"new", "over", "dead"},
         Moves(c, place), UNCHANGED <<alive, by, on>>,
         slot' \in [Ref -> Serial \cup {None}],
         seen' \in [Call -> SUBSET Serial],
         faults' \in 0 .. MaxFaults,
         \A d \in Serial : d # c /\ Holds(d) /\ pc[d] \in {"guard", "merging"} => slot'[on[d]] = d,
         c \in Serial /\ place \in {"guard", "merging"} => slot'[on[c]] = c,
         \A d \in Call : d # c => seen'[d] = seen[d],
         place \in Queued => c \in Serial,
         place = "reclaiming" => \A h \in seen'[c] : ProvablyDead(h)
  PROVE  LeaseInv'
<1>1. LeaseTypeOK'
  BY DEF LeaseInv, LeaseTypeOK, Moves
<1>2. \A d \in Call : pc'[d] = IF d = c THEN place ELSE pc[d]
  BY DEF LeaseInv, LeaseTypeOK, Moves
<1>3. \A d \in Call : (pc[d] = "new" <=> by[d] = None)' /\ (pc[d] \notin {"new", "dead"} => on[d] \in Ref)'
                        /\ (pc[d] \in Queued => d \in Serial)'
  BY <1>2 DEF LeaseInv
<1>4. \A d \in Call : Lives(d)'
  BY <1>2 DEF LeaseInv, Lives
<1>5. \A d \in Serial : Holds(d)'
  BY <1>2, NoneApart DEF LeaseInv, Holds
<1>6. \A d \in Call : SeenDead(d)'
  BY <1>2 DEF LeaseInv, SeenDead, ProvablyDead
<1> QED
  BY <1>1, <1>3, <1>4, <1>5, <1>6 DEF LeaseInv

LEMMA StartInv ==
  ASSUME LeaseInv, NEW c \in Call, NEW p \in Process, NEW r \in Ref, Start(c, p, r)
  PROVE  LeaseInv'
<1> DEFINE place == IF c \in Serial THEN "waiting" ELSE IF c \in Direct THEN "guard" ELSE "sweeping"
<1>1. place \in {"waiting", "guard", "sweeping"} /\ (c \in Serial <=> place = "waiting")
  OBVIOUS
<1>2. \A d \in Call : /\ pc'[d] = IF d = c THEN place ELSE pc[d]
                      /\ by'[d] = IF d = c THEN p ELSE by[d]
                      /\ on'[d] = IF d = c THEN r ELSE on[d]
                      /\ d # c => seen'[d] = seen[d]
  BY DEF LeaseInv, LeaseTypeOK, Start, Moves
<1> HIDE DEF place
<1>3. LeaseTypeOK'
  <2>1. {slot[q] : q \in Ref} \ {None} \subseteq Serial
    BY DEF LeaseInv, LeaseTypeOK
  <2>2. pc' \in [Call -> Place]
    BY <1>1 DEF LeaseInv, LeaseTypeOK, Start, Moves, Place, place
  <2> QED
    BY <2>1, <2>2 DEF LeaseInv, LeaseTypeOK, Start
<1>4. \A d \in Call : (pc[d] = "new" <=> by[d] = None)' /\ (pc[d] \notin {"new", "dead"} => on[d] \in Ref)'
                        /\ (pc[d] \in Queued => d \in Serial)'
  BY <1>1, <1>2, NoneApart DEF LeaseInv, Queued
<1>5. alive' = alive /\ slot' = slot /\ pc[c] = "new" /\ p \in alive /\ by[c] = None
  BY DEF Start, LeaseInv
<1>6. \A d \in Call : Lives(d)'
  BY <1>1, <1>2, <1>5 DEF LeaseInv, Lives
<1>7. \A d \in Serial : Holds(d)'
  BY <1>1, <1>2, <1>5, NoneApart DEF LeaseInv, Holds
<1>8. \A d \in Call : SeenDead(d)'
  <2>1. \A h \in Serial : ProvablyDead(h) => ProvablyDead(h)'
    BY <1>2, <1>5, NoneApart DEF ProvablyDead
  <2> QED
    BY <1>1, <1>2, <2>1 DEF LeaseInv, LeaseTypeOK, SeenDead
<1> QED
  BY <1>3, <1>4, <1>6, <1>7, <1>8 DEF LeaseInv

LEMMA CallInv ==
  ASSUME LeaseInv, NEW c \in Call,
         Works(c) \/ TimeOut(c) \/ ReclaimFails(c) \/ ReleaseFails(c)
  PROVE  LeaseInv'
<1> USE DEF Place, Queued
<1>0. /\ slot \in [Ref -> Serial \cup {None}] /\ seen \in [Call -> SUBSET Serial]
      /\ faults \in 0 .. MaxFaults /\ pc \in [Call -> Place]
      /\ \A d \in Serial : Holds(d)
      /\ \A d \in Call : SeenDead(d)
      /\ \A d \in Call : pc[d] \in Queued => d \in Serial
      /\ MaxFaults \in Nat
  BY LeaseAssumption DEF LeaseInv, LeaseTypeOK, LeaseAssumption
<1>1. CASE FindFree(c)
  BY <1>0, <1>1, OneCallMoves DEF FindFree, Holds
<1>2. CASE FindDead(c)
  <2>1. slot[on[c]] \in Serial
    BY <1>0, <1>2 DEF FindDead, LeaseInv
  <2> QED
    BY <1>0, <1>2, <2>1, OneCallMoves DEF FindDead, Holds
<1>3. CASE TimeOut(c)
  BY <1>0, <1>3, OneCallMoves DEF TimeOut, Holds
<1>4. CASE Reclaim(c)
  <2>1. PICK h \in seen[c] : slot' = Cleared(h)
    BY <1>4 DEF Reclaim
  <2>2. h \in Serial /\ ProvablyDead(h)
    BY <1>0, <1>4, <2>1 DEF Reclaim, SeenDead
  <2>3. pc[h] \notin {"guard", "merging"}
    BY <2>2, DeadIsOver
  <2> QED
    BY <1>0, <1>4, <2>1, <2>2, <2>3, ClearedKeeps, OneCallMoves DEF Reclaim
<1>5. CASE ReclaimFails(c)
  BY <1>0, <1>5, OneCallMoves DEF ReclaimFails, Fault, Holds
<1>6. CASE Claim(c)
  <2>1. on[c] \in Ref
    BY <1>6 DEF Claim, LeaseInv
  <2>2. \A d \in Serial : Holds(d) /\ pc[d] \in {"guard", "merging"} => slot'[on[d]] = d
    BY <1>0, <1>6, <2>1, NoneApart, LeaseAssumption DEF Claim, Holds, LeaseInv, LeaseAssumption, Call
  <2>3. c \in Serial
    BY <1>0, <1>6 DEF Claim
  <2> QED
    BY <1>0, <1>6, <2>1, <2>2, <2>3, OneCallMoves DEF Claim
<1>7. CASE ClaimLost(c)
  <2>1. PICK place \in {"waiting", "over"} : Moves(c, place)
    BY <1>7 DEF ClaimLost
  <2> QED
    BY <1>0, <1>7, <2>1, OneCallMoves DEF ClaimLost, Fault, Holds
<1>8. CASE Guard(c)
  <2> DEFINE place == IF Passes(c) THEN "merging" ELSE IF c \in Serial THEN "releasing" ELSE "over"
  <2>1. Moves(c, place) /\ place \in {"merging", "releasing", "over"}
    BY <1>8 DEF Guard
  <2> HIDE DEF place
  <2> QED
    BY <1>0, <1>8, <2>1, OneCallMoves DEF Guard, Holds
<1>9. CASE Merged(c)
  <2> DEFINE place == IF c \in Serial THEN "releasing" ELSE "over"
  <2>1. Moves(c, place) /\ place \in {"releasing", "over"}
    BY <1>9 DEF Merged
  <2> HIDE DEF place
  <2> QED
    BY <1>0, <1>9, <2>1, OneCallMoves DEF Merged, Holds
<1>10. CASE Release(c)
  <2>1. c \in Serial
    BY <1>0, <1>10 DEF Release
  <2> QED
    BY <1>0, <1>10, <2>1, ClearedKeeps, OneCallMoves DEF Release
<1>11. CASE ReleaseFails(c)
  BY <1>0, <1>11, OneCallMoves DEF ReleaseFails, Fault, Holds
<1>12. CASE SweepEnds(c)
  BY <1>0, <1>12, OneCallMoves DEF SweepEnds, Holds
<1>13. ASSUME NEW h \in Serial, SweepOne(c, h) PROVE LeaseInv'
  <2>1. Moves(c, "sweeping") /\ UNCHANGED <<alive, by, on>>
    BY <1>0, <1>13 DEF SweepOne, Moves
  <2>2. faults' \in 0 .. MaxFaults /\ seen' \in [Call -> SUBSET Serial]
        /\ \A d \in Call : d # c => seen'[d] = seen[d]
    BY <1>0, <1>13 DEF SweepOne, Fault
  <2>3. /\ slot' \in [Ref -> Serial \cup {None}]
        /\ \A d \in Serial : Holds(d) /\ pc[d] \in {"guard", "merging"} => slot'[on[d]] = d
    <3>1. CASE slot' = Cleared(h) /\ ProvablyDead(h)
      BY <3>1, DeadIsOver, ClearedKeeps
    <3>2. CASE slot' = slot
      BY <1>0, <3>2 DEF Holds
    <3> QED
      BY <1>13, <3>1, <3>2 DEF SweepOne
  <2> QED
    BY <1>0, <1>13, <2>1, <2>2, <2>3, OneCallMoves DEF SweepOne
<1> QED
  BY <1>1, <1>2, <1>3, <1>4, <1>5, <1>6, <1>7, <1>8, <1>9, <1>10, <1>11, <1>12, <1>13 DEF Works

LEMMA CrashInv ==
  ASSUME LeaseInv, NEW p \in Process, LeaseCrash(p)
  PROVE  LeaseInv'
<1>1. \A d \in Call : /\ pc'[d] = IF by[d] = p /\ pc[d] # "over" THEN "dead" ELSE pc[d]
                      /\ by'[d] = by[d] /\ on'[d] = on[d] /\ seen'[d] = seen[d]
  BY DEF LeaseCrash
<1>2. alive' = alive \ {p} /\ slot' = slot
  BY DEF LeaseCrash
<1>3. LeaseTypeOK'
  BY DEF LeaseInv, LeaseTypeOK, LeaseCrash, Place
<1>4. \A d \in Call : (pc[d] = "new" <=> by[d] = None)' /\ (pc[d] \notin {"new", "dead"} => on[d] \in Ref)'
                        /\ (pc[d] \in Queued => d \in Serial)'
  BY <1>1, NoneApart DEF LeaseInv, Queued
<1>5. \A d \in Call : Lives(d)'
  BY <1>1, <1>2 DEF LeaseInv, Lives
<1>6. \A d \in Serial : Holds(d)'
  BY <1>1, <1>2, NoneApart DEF LeaseInv, Holds
<1>7. \A d \in Call : SeenDead(d)'
  BY <1>1, <1>2, NoneApart DEF LeaseInv, LeaseTypeOK, SeenDead, ProvablyDead
<1> QED
  BY <1>3, <1>4, <1>5, <1>6, <1>7 DEF LeaseInv

LEMMA LeaseStutter ==
  ASSUME LeaseInv, UNCHANGED <<alive, slot, pc, by, on, seen>>, faults' \in 0 .. MaxFaults
  PROVE  LeaseInv'
  BY DEF LeaseInv, LeaseTypeOK, Lives, Holds, SeenDead, ProvablyDead

LEMMA LeaseStepInv ==
  ASSUME LeaseInv, LeaseStep
  PROVE  LeaseInv'
  BY StartInv, CallInv DEF LeaseStep

LEMMA LeaseNextInv ==
  ASSUME LeaseInv, [LeaseNext \/ LeaseOver]_leaseVars
  PROVE  LeaseInv'
<1>1. CASE LeaseStep
  BY <1>1, LeaseStepInv
<1>2. CASE \E p \in Process : LeaseCrash(p)
  BY <1>2, CrashInv
<1>3. CASE UNCHANGED leaseVars
  BY <1>3, LeaseStutter DEF leaseVars, LeaseInv, LeaseTypeOK
<1> QED
  BY <1>1, <1>2, <1>3 DEF LeaseNext, LeaseOver

\* The types and what the lease rests on hold in every reachable state.
THEOREM LeaseSafety == LeaseSpec => []LeaseInv
<1>1. LeaseInit => LeaseInv
  BY LeaseInitInv
<1>2. LeaseInv /\ [LeaseNext \/ LeaseOver]_leaseVars => LeaseInv'
  BY LeaseNextInv
<1> QED
  BY <1>1, <1>2, PTL DEF LeaseSpec

\* At most one serialize_merge merges into a ref, whatever waiters and sweeps
\* reclaim and whenever processes die.
THEOREM MergerSafety == LeaseSpec => []OneMerger
<1>1. LeaseInv => OneMerger
  BY DEF LeaseInv, OneMerger, Holds
<1> QED
  BY <1>1, LeaseSafety, PTL

\* A lease is given up by its own call or after the death of its holder.
THEOREM LeaseKept == LeaseSpec => LeaseNotTaken
<1> DEFINE Kept == \A r \in Ref : slot[r] # None /\ slot'[r] # slot[r]
                     => pc[slot[r]] = "releasing" \/ by[slot[r]] \notin alive
<1>1. ASSUME LeaseInv, [LeaseNext \/ LeaseOver]_leaseVars
      PROVE  [Kept]_leaseVars
  <2>1. ASSUME NEW c \in Call, Works(c)
        PROVE  Kept
    <3>1. CASE Reclaim(c)
      BY <1>1, <3>1 DEF Reclaim, Cleared, LeaseInv, LeaseTypeOK, SeenDead, ProvablyDead
    <3>2. CASE Claim(c)
      BY <1>1, <3>2 DEF Claim, LeaseInv, LeaseTypeOK
    <3>3. CASE Release(c)
      BY <1>1, <3>3 DEF Release, Cleared, LeaseInv, LeaseTypeOK
    <3>4. CASE \E h \in Serial : SweepOne(c, h)
      BY <1>1, <3>4 DEF SweepOne, Cleared, LeaseInv, LeaseTypeOK, ProvablyDead
    <3>5. CASE UNCHANGED slot
      BY <3>5
    <3> QED
      BY <2>1, <3>1, <3>2, <3>3, <3>4, <3>5
      DEF Works, FindFree, FindDead, ClaimLost, Guard, Merged, SweepEnds
  <2>2. CASE UNCHANGED slot
    BY <2>2
  <2> QED
    BY <1>1, <2>1, <2>2
    DEF LeaseNext, LeaseStep, LeaseOver, leaseVars, Start, TimeOut, ReclaimFails, ReleaseFails,
        LeaseCrash
<1> QED
  BY <1>1, LeaseSafety, PTL DEF LeaseSpec, LeaseNotTaken
=============================================================================
