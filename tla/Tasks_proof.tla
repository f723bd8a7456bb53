----------------------------- MODULE Tasks_proof -----------------------------
(***************************************************************************)
(* What the pins of the task verbs promise, for any number of calls, runs   *)
(* and moves: a claim is not logged over a claim, a completion or a failure *)
(* that nothing follows, and the row of a completion rests on the whole log *)
(* before it, although the call read the log piece by piece.  What a call has read holds at its pinned tail as long as the  *)
(* tail is still the end of the log; a longer log refuses the append.       *)
(* The second half adds what the rows say of the runs that wrote them: a    *)
(* completion names the commit that was at HEAD when its run checked the    *)
(* files, reruns reopen the gate, and the document follows the log.         *)
(***************************************************************************)
EXTENDS Tasks, FiniteSetTheorems, WellFoundedInduction, TLAPS

USE DEF worktree

\* A bounded set of naturals has its maximum.
LEMMA MaxOfNats ==
  ASSUME NEW S \in SUBSET Nat, S # {}, NEW b \in Nat, \A x \in S : x <= b
  PROVE  Max(S) \in S /\ \A x \in S : x <= Max(S)
<1> DEFINE T == {n \in Nat : \A x \in S : x <= n}
           R == OpToRel(<, Nat)
<1>1. T # {} /\ T \subseteq Nat
  OBVIOUS
<1>2. IsWellFoundedOn(R, Nat)
  BY NatLessThanWellFounded
<1> HIDE DEF R
<1>3. PICK m \in T : \A y \in T : <<y, m>> \notin R
  <2> HIDE DEF T
  <2> QED
    BY <1>1, <1>2, WFMin
<1>4. m \in S
  <2> SUFFICES ASSUME m \notin S PROVE FALSE
    OBVIOUS
  <2>1. PICK x \in S : TRUE
    OBVIOUS
  <2>2. x <= m /\ x # m
    BY <2>1
  <2>3. m - 1 \in T
    BY <2>2
  <2>4. <<m - 1, m>> \in R
    BY <2>3 DEF R, OpToRel
  <2> QED
    BY <2>3, <2>4, <1>3
<1>5. \E x \in S : \A y \in S : x >= y
  BY <1>4
<1> QED
  BY <1>5 DEF Max

\* The last row of a type is a row of the type, none after it.
LEMMA LastRow ==
  ASSUME NEW type, NEW n \in Nat
  PROVE  /\ LastOf(type, n) \in RowsOf(type, n) \cup {0}
         /\ \A i \in RowsOf(type, n) : i <= LastOf(type, n)
         /\ LastOf(type, n) \in 0 .. n
<1> DEFINE S == RowsOf(type, n) \cup {0}
<1>1. S \in SUBSET Nat /\ S # {} /\ \A x \in S : x <= n
  BY DEF RowsOf
<1>2. Max(S) \in S /\ \A x \in S : x <= Max(S)
  <2> HIDE DEF S
  <2> QED
    BY <1>1, MaxOfNats
<1> QED
  BY <1>1, <1>2 DEF LastOf

\* A step leaves the rows there are.
Grown == /\ Len(log') \in Nat /\ Len(log) <= Len(log')
         /\ \A i \in 1 .. Len(log) : log'[i] = log[i]

\* What is read of the rows up to n stays.
LEMMA PrefixStays ==
  ASSUME Grown, Len(log) \in Nat, NEW n \in 0 .. Len(log)
  PROVE  /\ \A type : RowsOf(type, n)' = RowsOf(type, n) /\ LastOf(type, n)' = LastOf(type, n)
         /\ Status(n)' = Status(n)
         /\ \A signal \in 0 .. n : Passes(signal, n)' <=> Passes(signal, n)
<1>1. \A i \in 1 .. n : i \in 1 .. Len(log) /\ log'[i] = log[i]
  BY DEF Grown
<1>2. ASSUME NEW type
      PROVE  RowsOf(type, n)' = RowsOf(type, n) /\ LastOf(type, n)' = LastOf(type, n)
  BY <1>1 DEF RowsOf, LastOf
<1>3. Status(n)' = Status(n)
  <2> DEFINE S == {i \in 1 .. n : log[i].type \in TaskRows} \cup {0}
  <2>1. {i \in 1 .. n : log'[i].type \in TaskRows} \cup {0} = S
    BY <1>1
  <2>2. S \in SUBSET Nat /\ S # {} /\ n \in Nat /\ \A x \in S : x <= n
    OBVIOUS
  <2>3. Max(S) \in S
    <3> HIDE DEF S
    <3> QED
      BY <2>2, MaxOfNats
  <2>4. Max(S) # 0 => log'[Max(S)] = log[Max(S)]
    BY <2>3, <1>1
  <2>5. Status(n)' = IF Max(S) = 0 THEN "none" ELSE log'[Max(S)].type
    BY <2>1 DEF Status
  <2> QED
    BY <2>4, <2>5 DEF Status
<1>4. Active(n)' = Active(n) /\ \A i \in Active(n) : log'[i] = log[i]
  <2>1. \A i \in RowsOf("record", n) : log'[i] = log[i]
    BY <1>1 DEF RowsOf
  <2> QED
    BY <1>2, <2>1 DEF Active
<1>5. ASSUME NEW signal \in 0 .. n
      PROVE  Passes(signal, n)' <=> Passes(signal, n)
  <2>1. signal # 0 => log'[signal] = log[signal]
    BY <1>1
  <2> QED
    BY <2>1, <1>4 DEF Passes
<1> QED
  BY <1>2, <1>3, <1>5

-----------------------------------------------------------------------------
(***************************************************************************)
(* Types.                                                                   *)
(***************************************************************************)
\* Records and signals are of runs, and no record is younger than the clock.
RunsInv ==
  /\ RunsTypeOK
  /\ \A i \in 1 .. Len(log) : log[i].type \in {"record", "signal"} => log[i].by \in Run
  /\ \A r \in Run : run[r].born <= clock

\* The tree of the task, and what is remembered of it.
TreeTyped ==
  /\ newest \in Nat /\ head \in 0 .. newest
  /\ edited \in BOOLEAN
  /\ onEdits \subseteq Run /\ rewound \subseteq Run

LEMMA RowTyped ==
  ASSUME NEW type \in Types, NEW by \in Run \cup Call \cup {None}, NEW pass \in BOOLEAN,
         NEW tree \in Nat \cup {None}, NEW over \in Run \cup {None}
  PROVE  RowOf(type, by, pass, tree, over) \in Row
  BY DEF RowOf, Row

LEMMA Appended ==
  ASSUME log \in Seq(Row), NEW e \in Row
  PROVE  /\ Append(log, e) \in Seq(Row)
         /\ Len(Append(log, e)) = Len(log) + 1
         /\ \A i \in 1 .. Len(log) : Append(log, e)[i] = log[i]
         /\ Append(log, e)[Len(log) + 1] = e
  OBVIOUS

\* activePredecessor finds a run of the chain, or none.
LEMMA PredecessorTyped ==
  ASSUME RunsInv, NEW r \in Run
  PROVE  Predecessor(r) \in Run \cup {None}
<1> DEFINE mine == {i \in RowsOf("record", Len(log)) : run[log[i].by].chain = run[r].chain}
           active == {i \in mine : \A j \in mine : log[j].over # log[i].by}
           born(i) == run[log[i].by].born
           S == {born(i) : i \in active}
<1>1. Len(log) \in Nat /\ \A i \in active : i \in 1 .. Len(log) /\ log[i].by \in Run
  BY DEF RunsInv, RunsTypeOK, RowsOf
<1>2. CASE active = {}
  BY <1>2 DEF Predecessor
<1>3. CASE active # {}
  <2>1. \A q \in Run : run[q].born \in Nat /\ run[q].born <= clock
    BY DEF RunsInv, RunsTypeOK, RunState
  <2>2. S \in SUBSET Nat /\ S # {} /\ clock \in Nat /\ \A x \in S : x <= clock
    BY <1>1, <1>3, <2>1 DEF RunsInv, RunsTypeOK
  <2>3. Max(S) \in S /\ \A x \in S : x <= Max(S)
    <3> HIDE DEF S
    <3> QED
      BY <2>2, MaxOfNats
  <2>4. \E i \in active : \A j \in active : born(j) <= born(i)
    BY <2>3
  <2>5. (CHOOSE i \in active : \A j \in active : born(j) <= born(i)) \in active
    <3> HIDE DEF active, born
    <3> QED
      BY <2>4
  <2> QED
    BY <1>1, <1>3, <2>5 DEF Predecessor
<1> QED
  BY <1>2, <1>3

\* A step of one run: what it writes is typed, and its row, if any, is its own.
RunMoves(r, s) ==
  /\ s \in RunState /\ run' = [run EXCEPT ![r] = s]
  /\ clock' \in Nat /\ clock <= clock' /\ s.born <= clock'
  /\ TreeTyped' /\ moves' \in 0 .. MaxMoves
  /\ log' = log \/ \E e \in Row : log' = Append(log, e) /\ e.by \in Run

LEMMA OneRun ==
  ASSUME RunsInv, NEW r \in Run, NEW s, RunMoves(r, s)
  PROVE  RunsInv' /\ Grown
<1> USE DEF RunMoves
<1> DEFINE Rows == \A i \in 1 .. Len(log') :
                     log'[i].type \in {"record", "signal"} => log'[i].by \in Run
<1>1. log' \in Seq(Row) /\ Grown /\ Rows
  <2>1. CASE log' = log
    BY <2>1 DEF RunsInv, RunsTypeOK, Grown
  <2>2. ASSUME NEW e \in Row, log' = Append(log, e), e.by \in Run
        PROVE  log' \in Seq(Row) /\ Grown /\ Rows
    BY <2>2, Appended DEF RunsInv, RunsTypeOK, Grown
  <2> QED
    BY <2>1, <2>2
<1>2. run' \in [Run -> RunState] /\ \A q \in Run : run'[q].born <= clock'
  <2>1. /\ run \in [Run -> RunState] /\ clock \in Nat /\ clock' \in Nat /\ clock <= clock'
        /\ \A q \in Run : run[q].born \in Nat /\ run[q].born <= clock
    BY DEF RunsInv, RunsTypeOK, RunState
  <2>2. run'[r] = s /\ \A q \in Run \ {r} : run'[q] = run[q]
    BY <2>1
  <2>3. \A q \in Run \ {r} : run'[q].born <= clock'
    BY <2>1, <2>2
  <2> QED
    BY <2>1, <2>2, <2>3
<1> QED
  BY <1>1, <1>2 DEF RunsInv, RunsTypeOK, TreeTyped

LEMMA RunStepInv ==
  ASSUME RunsInv, NEW r \in Run, RunStep(r)
  PROVE  RunsInv' /\ Grown
<1>1. /\ run[r] \in RunState /\ run[r].born <= clock /\ head \in Nat /\ clock \in Nat
      /\ TreeTyped
      /\ moves \in 0 .. MaxMoves /\ Predecessor(r) \in Run \cup {None} /\ MaxMoves \in Nat
      /\ run \in [Run -> RunState]
  BY PredecessorTyped, RunsAssumption DEF RunsInv, RunsTypeOK, RunsAssumption, TreeTyped
<1>2. ASSUME NEW c \in Chain, Begin(r, c) PROVE RunsInv' /\ Grown
  <2> DEFINE s == [run[r] EXCEPT !.at = "scan", !.chain = c, !.stamp = head,
                                 !.shared = \E q \in Run \ {r} : InProgress(q)]
  <2>1. s \in RunState /\ s.born = run[r].born
    BY <1>1 DEF RunState
  <2>2. run' = [run EXCEPT ![r] = s]
    BY <1>1, <1>2 DEF Begin
  <2> HIDE DEF s
  <2>3. clock' = clock /\ TreeTyped' /\ moves' \in 0 .. MaxMoves /\ log' = log
    BY <1>1, <1>2 DEF Begin, OneMove, TreeTyped
  <2>4. RunMoves(r, s)
    BY <1>1, <2>1, <2>2, <2>3 DEF RunMoves
  <2> QED
    BY <2>4, OneRun
<1>3. CASE Resubmit(r)
  <2> DEFINE s == [run[r] EXCEPT !.at = "scan", !.stamp = head, !.again = TRUE,
                     !.shared = @ \/ \E q \in Run \ {r} : InProgress(q)]
  <2>1. s \in RunState /\ s.born = run[r].born
    BY <1>1 DEF RunState
  <2>2. run' = [run EXCEPT ![r] = s]
    BY <1>1, <1>3 DEF Resubmit
  <2> HIDE DEF s
  <2>3. clock' = clock /\ TreeTyped' /\ moves' = moves /\ log' = log
    BY <1>1, <1>3 DEF Resubmit, TreeTyped
  <2>4. RunMoves(r, s)
    BY <1>1, <2>1, <2>2, <2>3 DEF RunMoves
  <2> QED
    BY <2>4, OneRun
<1>4. CASE Scan(r)
  <2>1. PICK ok \in BOOLEAN :
          run' = [run EXCEPT ![r].at = "derive", ![r].scanned = head, ![r].pass = ok]
    BY <1>4 DEF Scan
  <2> DEFINE s == [run[r] EXCEPT !.at = "derive", !.scanned = head, !.pass = ok]
  <2>2. s \in RunState /\ s.born = run[r].born
    BY <1>1 DEF RunState
  <2>3. run' = [run EXCEPT ![r] = s]
    BY <1>1, <2>1
  <2> HIDE DEF s
  <2>4. clock' = clock /\ TreeTyped' /\ moves' = moves /\ log' = log
    BY <1>1, <1>4 DEF Scan, TreeTyped
  <2>5. RunMoves(r, s)
    BY <1>1, <2>2, <2>3, <2>4 DEF RunMoves
  <2> QED
    BY <2>5, OneRun
<1>5. CASE Derive(r)
  <2>1. CASE Has("record", r)
    <3> DEFINE s == [run[r] EXCEPT !.at = "signal"]
    <3>1. s \in RunState /\ s.born = run[r].born
      BY <1>1 DEF RunState
    <3>2. run' = [run EXCEPT ![r] = s]
      BY <1>1, <1>5, <2>1 DEF Derive
    <3> HIDE DEF s
    <3>3. clock' = clock /\ TreeTyped' /\ moves' = moves /\ log' = log
      BY <1>1, <1>5, <2>1 DEF Derive, TreeTyped
    <3>4. RunMoves(r, s)
      BY <1>1, <3>1, <3>2, <3>3 DEF RunMoves
    <3> QED
      BY <3>4, OneRun
  <2>2. CASE ~Has("record", r)
    <3> DEFINE q == run[r]
               s == [at |-> "record", chain |-> q.chain, stamp |-> q.stamp,
                     scanned |-> q.scanned, pass |-> q.pass, kept |-> q.pass,
                     over |-> Predecessor(r), born |-> clock + 1, again |-> q.again,
                     shared |-> q.shared]
    <3>1. s \in RunState /\ s.born = clock + 1
      BY <1>1 DEF RunState
    <3>2. run' = [run EXCEPT ![r] = s]
      BY <1>1, <1>5, <2>2 DEF Derive, RunState
    <3> HIDE DEF s
    <3>3. clock' = clock + 1 /\ TreeTyped' /\ moves' = moves /\ log' = log
      BY <1>1, <1>5, <2>2 DEF Derive, TreeTyped
    <3>4. RunMoves(r, s)
      BY <1>1, <3>1, <3>2, <3>3 DEF RunMoves
    <3> QED
      BY <3>4, OneRun
  <2> QED
    BY <2>1, <2>2
<1>6. CASE AppendRecord(r)
  <2> DEFINE s == [run[r] EXCEPT !.at = "signal"]
             e == RowOf("record", r, run[r].kept, None, run[r].over)
  <2>1. s \in RunState /\ s.born = run[r].born
    BY <1>1 DEF RunState
  <2>2. run' = [run EXCEPT ![r] = s]
    BY <1>1, <1>6 DEF AppendRecord
  <2>3. e \in Row /\ e.by \in Run
    BY <1>1 DEF RunState, RowOf, Row, Types
  <2>4. log' = Append(log, e)
    BY <1>6 DEF AppendRecord
  <2> HIDE DEF e
  <2> HIDE DEF s
  <2>5. clock' = clock /\ TreeTyped' /\ moves' = moves
    BY <1>1, <1>6 DEF AppendRecord, TreeTyped
  <2>6. RunMoves(r, s)
    BY <1>1, <2>1, <2>2, <2>3, <2>4, <2>5 DEF RunMoves
  <2> QED
    BY <2>6, OneRun
<1>7. CASE AppendSignal(r)
  <2> DEFINE s == [run[r] EXCEPT !.at = "done", !.stamp = 0]
             e == RowOf("signal", r, run[r].kept, run[r].stamp, None)
  <2>1. s \in RunState /\ s.born = run[r].born
    BY <1>1 DEF RunState
  <2>2. run' = [run EXCEPT ![r] = s]
    BY <1>1, <1>7 DEF AppendSignal
  <2>3. e \in Row /\ e.by \in Run
    BY <1>1 DEF RunState, RowOf, Row, Types
  <2>4. log' = log \/ log' = Append(log, e)
    BY <1>7 DEF AppendSignal
  <2> HIDE DEF e
  <2> HIDE DEF s
  <2>5. clock' = clock /\ TreeTyped' /\ moves' = moves
    BY <1>1, <1>7 DEF AppendSignal, TreeTyped
  <2>6. RunMoves(r, s)
    BY <1>1, <2>1, <2>2, <2>3, <2>4, <2>5 DEF RunMoves
  <2> QED
    BY <2>6, OneRun
<1>8. CASE RunDies(r)
  <2> DEFINE s == [run[r] EXCEPT !.at = "dead"]
  <2>1. s \in RunState /\ s.born = run[r].born
    BY <1>1 DEF RunState
  <2>2. run' = [run EXCEPT ![r] = s]
    BY <1>1, <1>8 DEF RunDies
  <2> HIDE DEF s
  <2>3. clock' = clock /\ TreeTyped' /\ moves' \in 0 .. MaxMoves /\ log' = log
    BY <1>1, <1>8 DEF RunDies, OneMove, TreeTyped
  <2>4. RunMoves(r, s)
    BY <1>1, <2>1, <2>2, <2>3 DEF RunMoves
  <2> QED
    BY <2>4, OneRun
<1> QED
  BY <1>2, <1>3, <1>4, <1>5, <1>6, <1>7, <1>8 DEF RunStep

LEMMA AgentInv ==
  ASSUME RunsInv, Edit \/ Commit \/ Checkout
  PROVE  RunsInv' /\ Grown
<1>1. MaxMoves \in Nat /\ moves \in 0 .. MaxMoves /\ newest \in Nat /\ head \in 0 .. newest
  BY RunsAssumption DEF RunsInv, RunsTypeOK, RunsAssumption
<1>2. newest' \in Nat /\ head' \in 0 .. newest' /\ moves' \in 0 .. MaxMoves
  <2>1. moves' \in 0 .. MaxMoves
    <3>1. OneMove
      BY DEF Edit, Commit, Checkout
    <3> QED
      BY <1>1, <3>1 DEF OneMove
  <2>2. CASE Edit \/ Checkout
    BY <1>1, <2>1, <2>2 DEF Edit, Checkout
  <2>3. CASE Commit
    BY <1>1, <2>1, <2>3 DEF Commit
  <2> QED
    BY <2>2, <2>3
<1>3. edited' \in BOOLEAN /\ onEdits' \subseteq Run /\ rewound' \subseteq Run
  BY DEF RunsInv, RunsTypeOK, Edit, Commit, Checkout
<1>4. UNCHANGED <<log, run, clock>>
  BY DEF Edit, Commit, Checkout
<1> QED
  BY <1>2, <1>3, <1>4 DEF RunsInv, RunsTypeOK, Grown

-----------------------------------------------------------------------------
(***************************************************************************)
(* The calls.                                                               *)
(***************************************************************************)
\* A claim saw the task free at its tail.
ClaimRead(k) ==
  k.at \in {"raw", "claim"} => k.tail \in 0 .. Len(log) /\ Status(k.tail) \notin Taken

\* What a completion has read is so at position n.
Stands(k, n) ==
  /\ k.at \in {"revised", "signals", "records", "tree", "append"}
       => (k.capsule = 0 => k.since = LastOf("prepared", n))
  /\ k.at \in {"signals", "records", "tree", "append"}
       => (k.since # 0 => LastOf("revised", n) < k.since)
  /\ k.at \in {"records", "tree", "append"} => k.signal = LastOf("signal", n)
  /\ k.at \in {"tree", "append"} => Passes(k.signal, n)

\* It holds at the pinned tail while the tail is the end of the log.
Pinned(k) ==
  /\ k.tail <= Len(log)
  /\ {k.since, k.capsule} \subseteq {0} \cup RowsOf("prepared", Len(log))
  /\ k.at \in {"tree", "append"} => k.open
  /\ k.open /\ k.tail = Len(log) => Stands(k, Len(log))

CallGood(c) == ClaimRead(call[c]) /\ Pinned(call[c])

After == {"sync", "syncing", "over", "dead"}

\* One completion row: that its call read the whole log before it.
Stood(i) ==
  /\ log[i].by \in Completer /\ call[log[i].by].at \in After
  /\ Passes(LastOf("signal", i - 1), i - 1)
  /\ call[log[i].by].since # 0 => LastOf("revised", i - 1) < call[log[i].by].since
  /\ call[log[i].by].capsule = 0 => call[log[i].by].since = LastOf("prepared", i - 1)

CallsTyped ==
  /\ doc \in [status : {"open", "complete"}, version : Nat]
  /\ call \in [Call -> CallState]

TaskInv ==
  /\ RunsInv
  /\ CallsTyped
  /\ ClaimsApart
  /\ \A i \in Completions : Stood(i)
  /\ \A c \in Call : CallGood(c)

\* A call that ended, or has its row, keeps what the properties read of it.
Kept(c) ==
  call[c].at \in After =>
    /\ call'[c].at \in After
    /\ call'[c].since = call[c].since /\ call'[c].capsule = call[c].capsule

LEMMA GoodStays ==
  ASSUME TaskInv, Grown, log' = log \/ Len(log') = Len(log) + 1,
         log' \in Seq(Row), NEW c \in Call, call'[c] = call[c]
  PROVE  CallGood(c)'
<1>1. /\ Len(log) \in Nat /\ CallGood(c) /\ call[c] \in CallState
      /\ call[c].tail \in 0 .. Len(log)
  BY DEF TaskInv, RunsInv, RunsTypeOK, CallsTyped, CallGood, Pinned, CallState
<1>2. PICK n \in 0 .. Len(log) : n = call[c].tail
  BY <1>1
<1>3. ClaimRead(call[c])'
  <2>1. Status(n)' = Status(n)
    BY <1>1, PrefixStays
  <2>2. ClaimRead(call[c]) => (call[c].at \in {"raw", "claim"} => Status(n) \notin Taken)
    BY <1>2 DEF ClaimRead
  <2>3. (call[c].at \in {"raw", "claim"} => n \in 0 .. Len(log') /\ Status(n)' \notin Taken)
          => ClaimRead(call[c])'
    BY <1>2 DEF ClaimRead, Taken, Status
  <2>4. n \in 0 .. Len(log')
    BY <1>2 DEF Grown
  <2> QED
    BY <1>1, <2>1, <2>2, <2>3, <2>4 DEF CallGood
<1>4. RowsOf("prepared", Len(log)) \subseteq RowsOf("prepared", Len(log))'
  BY <1>1 DEF RowsOf, Grown
<1>5. CASE log' = log
  BY <1>1, <1>3, <1>5 DEF CallGood, Pinned, Stands, LastOf, RowsOf, Passes, Active
<1>6. CASE Len(log') = Len(log) + 1
  BY <1>1, <1>3, <1>4, <1>6 DEF CallGood, Pinned
<1> QED
  BY <1>5, <1>6

\* A row of the new log that is not in the old one.
NewRow(m) ==
  /\ log'[m + 1].type = "claimed" => Status(m) \notin Taken
  /\ log'[m + 1].type = "completed" => Stood(m + 1)'

LEMMA Keeps ==
  ASSUME TaskInv, RunsInv', CallsTyped', NEW m \in Nat, m = Len(log),
         log' = log \/ \E e \in Row : log' = Append(log, e),
         \A c \in Call : call'[c] = call[c] \/ (CallGood(c)' /\ Kept(c)),
         Len(log') = m + 1 => NewRow(m)
  PROVE  TaskInv'
<1>1. log \in Seq(Row) /\ log' \in Seq(Row) /\ Grown /\ (log' = log \/ Len(log') = m + 1)
  <2>1. CASE log' = log
    BY <2>1 DEF TaskInv, RunsInv, RunsTypeOK, Grown
  <2>2. ASSUME NEW e \in Row, log' = Append(log, e)
        PROVE  log \in Seq(Row) /\ log' \in Seq(Row) /\ Grown /\ Len(log') = m + 1
    BY <2>2, Appended DEF TaskInv, RunsInv, RunsTypeOK, Grown
  <2> QED
    BY <2>1, <2>2
<1>2. \A c \in Call : CallGood(c)'
  BY <1>1, GoodStays
<1>3. \A i \in 1 .. Len(log') : i \in 1 .. m \/ (i = m + 1 /\ Len(log') = m + 1)
  BY <1>1
<1>4. ASSUME NEW i \in 1 .. m
      PROVE  log'[i] = log[i] /\ i - 1 \in 0 .. Len(log)
  BY <1>1 DEF Grown
<1>5. ClaimsApart'
  <2> SUFFICES ASSUME NEW i \in 1 .. Len(log'), log'[i].type = "claimed"
               PROVE  Status(i - 1)' \notin Taken
    BY DEF ClaimsApart, RowsOf, Taken
  <2>1. CASE i \in 1 .. m
    <3>1. log'[i] = log[i] /\ i - 1 \in 0 .. Len(log)
      BY <1>4, <2>1
    <3>2. Status(i - 1) \notin Taken
      BY <2>1, <3>1 DEF TaskInv, ClaimsApart, RowsOf
    <3> QED
      BY <1>1, <3>1, <3>2, PrefixStays
  <2>2. CASE i = m + 1 /\ Len(log') = m + 1
    <3>1. Status(m) \notin Taken /\ i - 1 = m /\ m \in 0 .. Len(log)
      BY <2>2 DEF NewRow
    <3>2. Status(m)' = Status(m)
      BY <1>1, <3>1, PrefixStays
    <3> QED
      BY <3>1, <3>2 DEF Status
  <2> QED
    BY <1>3, <2>1, <2>2
<1>6. ASSUME NEW i \in Completions'
      PROVE  Stood(i)'
  <2>0. i \in 1 .. Len(log') /\ log'[i].type = "completed"
    BY DEF Completions, RowsOf
  <2>1. CASE i \in 1 .. m
    <3>1. log'[i] = log[i] /\ i - 1 \in 0 .. Len(log)
      BY <1>4, <2>1
    <3>2. Stood(i)
      BY <2>0, <2>1, <3>1 DEF TaskInv, Completions, RowsOf
    <3>3. PICK c \in Call : c = log[i].by
      BY <3>2 DEF Stood, Call
    <3>4. /\ call'[c].at \in After
          /\ call'[c].since = call[c].since /\ call'[c].capsule = call[c].capsule
      BY <3>2, <3>3 DEF Kept, Stood
    <3>5. PICK n \in 0 .. Len(log) : n = i - 1
      BY <3>1
    <3>6. /\ LastOf("signal", n) \in 0 .. n
          /\ LastOf("signal", n)' = LastOf("signal", n)
          /\ LastOf("revised", n)' = LastOf("revised", n)
          /\ LastOf("prepared", n)' = LastOf("prepared", n)
          /\ \A signal \in 0 .. n : Passes(signal, n)' <=> Passes(signal, n)
      BY <1>1, <3>5, PrefixStays, LastRow
    <3>7. PICK signal \in 0 .. n : signal = LastOf("signal", n)
      BY <3>6
    <3>8. Passes(signal, n)'
      BY <3>2, <3>5, <3>6, <3>7 DEF Stood
    <3>9. Passes(LastOf("signal", n), n)'
      BY <3>6, <3>7, <3>8 DEF Passes
    <3> QED
      BY <3>1, <3>2, <3>3, <3>4, <3>5, <3>6, <3>9 DEF Stood
  <2>2. CASE i = m + 1 /\ Len(log') = m + 1
    BY <2>0, <2>2 DEF NewRow
  <2> QED
    BY <1>3, <2>0, <2>1, <2>2
<1> QED
  BY <1>2, <1>5, <1>6 DEF TaskInv

\* A call that appends nothing: what it holds then.
Holds(c, k) ==
  /\ k \in CallState /\ ClaimRead(k) /\ Pinned(k)
  /\ call[c].at \in After =>
       k.at \in After /\ k.since = call[c].since /\ k.capsule = call[c].capsule

Untouched == log' = log /\ worktree' = worktree /\ clock' = clock /\ run' = run

LEMMA RunsUntouched ==
  ASSUME RunsInv, Untouched, moves' \in 0 .. MaxMoves
  PROVE  RunsInv' /\ Grown
  BY DEF RunsInv, RunsTypeOK, Untouched, Grown

LEMMA CallMoves ==
  ASSUME TaskInv, NEW c \in Call, NEW k, Holds(c, k), call' = [call EXCEPT ![c] = k],
         Untouched, moves' \in 0 .. MaxMoves,
         doc' \in [status : {"open", "complete"}, version : Nat]
  PROVE  TaskInv'
<1>1. RunsInv'
  BY RunsUntouched DEF TaskInv
<1>2. CallsTyped'
  BY DEF TaskInv, CallsTyped, Holds
<1>3. /\ call'[c] = k
      /\ \A d \in Call \ {c} : call'[d] = call[d]
  BY DEF TaskInv, CallsTyped
<1>4. ClaimRead(k)' /\ Pinned(k)'
  <2>1. log' = log /\ ClaimRead(k) /\ Pinned(k)
    BY DEF Holds, Untouched
  <2>2. ClaimRead(k)'
    BY <2>1 DEF ClaimRead, Status
  <2>3. Stands(k, Len(log))' <=> Stands(k, Len(log))
    BY <2>1 DEF Stands, LastOf, RowsOf, Passes, Active
  <2>4. Pinned(k)'
    BY <2>1, <2>3 DEF Pinned, RowsOf
  <2> QED
    BY <2>2, <2>4
<1>5. CallGood(c)' /\ Kept(c)
  <2>1. ClaimRead(k)' => ClaimRead(call[c])'
    BY <1>3 DEF ClaimRead, Status
  <2>2. Stands(k, Len(log))' => Stands(call[c], Len(log))'
    BY <1>3 DEF Stands, LastOf, RowsOf, Passes, Active
  <2>3. Pinned(k)' => Pinned(call[c])'
    BY <1>3, <2>2 DEF Pinned, RowsOf
  <2> QED
    BY <1>3, <1>4, <2>1, <2>3 DEF CallGood, Kept, Holds
<1>6. Len(log) \in Nat /\ log' = log
  BY DEF TaskInv, RunsInv, RunsTypeOK, Untouched
<1> QED
  BY <1>1, <1>2, <1>3, <1>5, <1>6, Keeps

Places == {"new", "fold", "raw", "claim", "pin", "stored", "failures", "mend", "mending",
           "prepared", "revised", "signals", "records", "tree", "append", "sync",
           "syncing", "over", "dead"}

\* What holds of a call before its step.
LEMMA CallFacts ==
  ASSUME TaskInv, NEW c \in Call
  PROVE  /\ call[c] \in CallState /\ ClaimRead(call[c]) /\ Pinned(call[c])
         /\ call \in [Call -> CallState] /\ Len(log) \in Nat /\ log \in Seq(Row)
         /\ moves \in 0 .. MaxMoves /\ MaxMoves \in Nat
         /\ doc \in [status : {"open", "complete"}, version : Nat]
  BY RunsAssumption
  DEF TaskInv, CallsTyped, CallGood, RunsInv, RunsTypeOK, RunsAssumption

LEMMA EndedInv ==
  ASSUME TaskInv, NEW c \in Call, Untouched, moves' \in 0 .. MaxMoves,
         doc' \in [status : {"open", "complete"}, version : Nat],
         NEW at \in {"over", "dead"},
         NEW answer \in {"none", "ok", "already", "refused", "unsynced", "conflict"},
         Ended(c, at, answer)
  PROVE  TaskInv'
<1> DEFINE k == [Local EXCEPT !.at = at, !.answer = answer, !.since = call[c].since,
                              !.capsule = call[c].capsule]
<1>1. call[c] \in CallState /\ Pinned(call[c]) /\ Len(log) \in Nat
  BY CallFacts
<1>2. /\ k \in CallState /\ k.at = at /\ k.tail = 0
      /\ k.since = call[c].since /\ k.capsule = call[c].capsule
  <2>1. Local \in CallState /\ Local.tail = 0
    BY DEF CallState, Local
  <2>2. call[c].since \in Nat /\ call[c].capsule \in Nat
    BY <1>1 DEF CallState
  <2> HIDE DEF Local
  <2> QED
    BY <2>1, <2>2 DEF CallState
<1>3. call' = [call EXCEPT ![c] = k]
  BY DEF Ended
<1> HIDE DEF k
<1>4. Holds(c, k)
  BY <1>1, <1>2 DEF Holds, ClaimRead, Pinned, Stands, After
<1> QED
  BY <1>3, <1>4, CallMoves

LEMMA MovesInv ==
  ASSUME TaskInv, NEW c \in Call, Untouched, moves' \in 0 .. MaxMoves, doc' = doc,
         NEW at \in Places, Moves(c, at), call[c].at \notin After,
         at \in {"raw", "claim"} => call[c].at \in {"raw", "claim"},
         at \in {"tree", "append"} => call[c].open,
         call[c].open /\ call[c].tail = Len(log) => Stands([call[c] EXCEPT !.at = at], Len(log))
  PROVE  TaskInv'
<1> DEFINE k == [call[c] EXCEPT !.at = at]
<1>1. /\ call[c] \in CallState /\ Pinned(call[c]) /\ ClaimRead(call[c]) /\ Len(log) \in Nat
      /\ doc \in [status : {"open", "complete"}, version : Nat]
  BY CallFacts
<1>2. /\ k \in CallState /\ k.at = at /\ k.tail = call[c].tail /\ k.open = call[c].open
      /\ k.since = call[c].since /\ k.capsule = call[c].capsule
  BY <1>1 DEF CallState, Places
<1>3. call' = [call EXCEPT ![c] = k]
  BY <1>1, CallFacts DEF Moves
<1>4. call[c].open /\ call[c].tail = Len(log) => Stands(k, Len(log))
  OBVIOUS
<1> HIDE DEF k
<1>5. Holds(c, k)
  BY <1>1, <1>2, <1>4 DEF Holds, ClaimRead, Pinned
<1> QED
  BY <1>1, <1>3, <1>5, CallMoves

\* A call that appends its row.
LEMMA CallAppends ==
  ASSUME TaskInv, NEW c \in Call, NEW e \in Row, log' = Append(log, e),
         UNCHANGED <<worktree, clock, run, doc>>, moves' \in 0 .. MaxMoves,
         NEW k \in CallState, call' = [call EXCEPT ![c] = k], k.at \in After,
         k.since = call[c].since, k.capsule = call[c].capsule, k.tail <= Len(log),
         e.type \notin {"record", "signal"},
         e.type = "claimed" => Status(Len(log)) \notin Taken,
         e.type = "completed" =>
           /\ c \in Completer /\ e.by = c /\ call[c].at = "append"
           /\ Stands(call[c], Len(log))
  PROVE  TaskInv'
<1>1. /\ call[c] \in CallState /\ Pinned(call[c]) /\ call \in [Call -> CallState]
      /\ log \in Seq(Row) /\ RunsInv
  BY CallFacts DEF TaskInv
<1>2. PICK m \in Nat : m = Len(log)
  BY <1>1
<1>3. /\ log' \in Seq(Row) /\ Len(log') = m + 1 /\ log'[m + 1] = e /\ Grown
      /\ \A i \in 1 .. m : log'[i] = log[i]
  BY <1>1, <1>2, Appended DEF Grown
<1>4. RunsInv'
  BY <1>1, <1>2, <1>3 DEF RunsInv, RunsTypeOK
<1>5. CallsTyped'
  BY DEF TaskInv, CallsTyped
<1>6. call'[c] = k /\ \A d \in Call \ {c} : call'[d] = call[d]
  BY <1>1
<1>7. CallGood(c)' /\ Kept(c)
  <2>1. RowsOf("prepared", m) \subseteq RowsOf("prepared", m + 1)'
    BY <1>2, <1>3 DEF RowsOf
  <2>2. {k.since, k.capsule} \subseteq {0} \cup RowsOf("prepared", m)
    BY <1>1, <1>2 DEF Pinned
  <2>3. RowsOf("prepared", m + 1)' = RowsOf("prepared", Len(log))'
    BY <1>3 DEF RowsOf
  <2>4. Pinned(call[c])'
    BY <1>2, <1>3, <1>6, <2>1, <2>2, <2>3 DEF Pinned, CallState, After
  <2>5. ClaimRead(call[c])'
    BY <1>6 DEF ClaimRead, After
  <2> QED
    BY <1>6, <2>4, <2>5 DEF CallGood, Kept
<1>8. NewRow(m)
  <2>1. CASE e.type = "completed"
    <3>1. /\ c \in Completer /\ log'[m + 1].by = c /\ call'[c].at \in After
          /\ call'[c].since = call[c].since /\ call'[c].capsule = call[c].capsule
      BY <1>3, <1>6, <2>1
    <3>2. /\ Passes(call[c].signal, m) /\ call[c].signal = LastOf("signal", m)
          /\ call[c].since # 0 => LastOf("revised", m) < call[c].since
          /\ call[c].capsule = 0 => call[c].since = LastOf("prepared", m)
      BY <1>2, <2>1 DEF Stands
    <3>3. /\ LastOf("signal", m) \in 0 .. m
          /\ LastOf("signal", m)' = LastOf("signal", m)
          /\ LastOf("revised", m)' = LastOf("revised", m)
          /\ LastOf("prepared", m)' = LastOf("prepared", m)
          /\ \A signal \in 0 .. m : Passes(signal, m)' <=> Passes(signal, m)
      BY <1>2, <1>3, PrefixStays, LastRow
    <3>4. PICK signal \in 0 .. m : signal = LastOf("signal", m)
      BY <3>3
    <3>5. Passes(signal, m)'
      BY <3>2, <3>3, <3>4
    <3>6. Passes(LastOf("signal", m), m)'
      BY <3>3, <3>4, <3>5 DEF Passes
    <3>7. m + 1 - 1 = m
      OBVIOUS
    <3>8. Stood(m + 1)'
      BY <3>1, <3>2, <3>3, <3>6, <3>7 DEF Stood
    <3> QED
      BY <1>3, <2>1, <3>8 DEF NewRow
  <2>2. CASE e.type # "completed"
    BY <1>2, <1>3, <2>2 DEF NewRow
  <2> QED
    BY <2>1, <2>2
<1> QED
  BY <1>2, <1>4, <1>5, <1>6, <1>7, <1>8, Keeps

-----------------------------------------------------------------------------
(***************************************************************************)
(* The steps.                                                               *)
(***************************************************************************)
LEMMA ClaimInv ==
  ASSUME TaskInv, NEW c \in Claimer, ClaimStep(c)
  PROVE  TaskInv'
<1>1. /\ c \in Call /\ call[c] \in CallState /\ ClaimRead(call[c]) /\ Pinned(call[c])
      /\ call \in [Call -> CallState] /\ Len(log) \in Nat
      /\ moves \in 0 .. MaxMoves /\ MaxMoves \in Nat
      /\ doc \in [status : {"open", "complete"}, version : Nat]
  BY CallFacts DEF Call
<1>2. CASE FoldForClaim(c)
  <2>1. Untouched /\ doc' = doc /\ moves' \in 0 .. MaxMoves /\ call[c].at \in {"new", "fold"}
    BY <1>1, <1>2 DEF FoldForClaim, OneMove, Untouched
  <2>2. CASE Answers(c, "already")
    BY <1>1, <2>1, <2>2, EndedInv DEF Answers
  <2>3. CASE ~Answers(c, "already")
    <3> DEFINE k == [call[c] EXCEPT
                       !.at = IF Status(Len(log)) = "none" THEN "raw" ELSE "claim",
                       !.tail = Len(log)]
    <3>1. Status(Len(log)) \notin Taken /\ call' = [call EXCEPT ![c] = k]
      BY <1>1, <1>2, <2>3 DEF FoldForClaim
    <3>2. /\ k \in CallState /\ k.at \in {"raw", "claim"} /\ k.tail = Len(log)
          /\ k.since = call[c].since /\ k.capsule = call[c].capsule
      BY <1>1 DEF CallState
    <3> HIDE DEF k
    <3>3. Holds(c, k)
      BY <1>1, <2>1, <3>1, <3>2 DEF Holds, ClaimRead, Pinned, Stands, After
    <3> QED
      BY <1>1, <2>1, <3>1, <3>3, CallMoves
  <2> QED
    BY <2>2, <2>3
<1>3. CASE ReadRaw(c)
  <2>1. Untouched /\ doc' = doc /\ moves' \in 0 .. MaxMoves /\ call[c].at = "raw"
    BY <1>1, <1>3 DEF ReadRaw, Untouched
  <2>2. CASE Answers(c, "already")
    BY <1>1, <2>1, <2>2, EndedInv DEF Answers
  <2>3. CASE ~Answers(c, "already")
    <3>1. Moves(c, "claim")
      BY <1>3, <2>3 DEF ReadRaw
    <3>2. Stands([call[c] EXCEPT !.at = "claim"], Len(log))
      BY <1>1 DEF Stands, CallState
    <3> QED
      BY <1>1, <2>1, <3>1, <3>2, MovesInv DEF Places, After
  <2> QED
    BY <2>2, <2>3
<1>4. CASE AppendClaim(c)
  <2>1. /\ UNCHANGED <<worktree, clock, run, doc>> /\ moves' \in 0 .. MaxMoves
        /\ call[c].at = "claim"
    BY <1>1, <1>4 DEF AppendClaim
  <2>2. CASE Len(log) = call[c].tail
    <3> DEFINE e == RowOf("claimed", c, FALSE, None, None)
               k == [Local EXCEPT !.at = "over", !.answer = "ok", !.since = call[c].since,
                                  !.capsule = call[c].capsule]
    <3>1. log' = Append(log, e) /\ call' = [call EXCEPT ![c] = k]
      BY <1>4, <2>2 DEF AppendClaim, Answers, Ended
    <3>2. e \in Row /\ e.type = "claimed"
      BY <1>1 DEF RowOf, Row, Types
    <3>3. /\ k \in CallState /\ k.at = "over" /\ k.tail = 0
          /\ k.since = call[c].since /\ k.capsule = call[c].capsule
      BY <1>1 DEF CallState, Local
    <3>4. Status(Len(log)) \notin Taken
      BY <1>1, <2>1, <2>2 DEF ClaimRead
    <3>5. e.type \notin {"record", "signal"} /\ e.type # "completed"
      BY <3>2
    <3> HIDE DEF e, k
    <3>6. k.at \in After /\ k.tail <= Len(log)
      BY <1>1, <3>3 DEF After
    <3> QED
      BY <1>1, <2>1, <3>1, <3>2, <3>3, <3>4, <3>5, <3>6, CallAppends
  <2>3. CASE Len(log) # call[c].tail
    <3>1. Untouched
      BY <1>4, <2>3 DEF AppendClaim, Untouched
    <3>2. CASE Answers(c, "conflict")
      BY <1>1, <2>1, <3>1, <3>2, EndedInv DEF Answers
    <3>3. CASE ~Answers(c, "conflict")
      <4>0. PICK n \in Nat : n = call[c].tries + 1
        BY <1>1 DEF CallState
      <4> DEFINE k == [call[c] EXCEPT !.at = "fold", !.tries = n]
      <4>1. call' = [call EXCEPT ![c] = k]
        BY <1>1, <1>4, <2>3, <3>3, <4>0 DEF AppendClaim
      <4>2. /\ k \in CallState /\ k.at = "fold" /\ k.tail = call[c].tail
            /\ k.since = call[c].since /\ k.capsule = call[c].capsule
        BY <1>1 DEF CallState
      <4> HIDE DEF k
      <4>3. Holds(c, k)
        BY <1>1, <2>1, <4>2 DEF Holds, ClaimRead, Pinned, Stands, After
      <4> QED
        BY <1>1, <2>1, <3>1, <4>1, <4>3, CallMoves
    <3> QED
      BY <3>2, <3>3
  <2> QED
    BY <2>2, <2>3
<1> QED
  BY <1>2, <1>3, <1>4 DEF ClaimStep

LEMMA FailInv ==
  ASSUME TaskInv, NEW c \in Failer, AppendFailure(c)
  PROVE  TaskInv'
<1>1. /\ c \in Call /\ call[c] \in CallState /\ Len(log) \in Nat
      /\ moves \in 0 .. MaxMoves /\ MaxMoves \in Nat
      /\ doc \in [status : {"open", "complete"}, version : Nat]
  BY CallFacts DEF Call
<1>2. UNCHANGED <<worktree, clock, run, doc>> /\ moves' \in 0 .. MaxMoves /\ Answers(c, "ok")
  BY <1>1 DEF AppendFailure, OneMove
<1>3. CASE log' = log
  BY <1>1, <1>2, <1>3, EndedInv DEF Answers, Untouched
<1>4. CASE log' # log
  <2> DEFINE e == RowOf("failed", c, FALSE, None, None)
             k == [Local EXCEPT !.at = "over", !.answer = "ok", !.since = call[c].since,
                                !.capsule = call[c].capsule]
  <2>1. log' = Append(log, e) /\ call' = [call EXCEPT ![c] = k]
    BY <1>2, <1>4 DEF AppendFailure, Answers, Ended
  <2>2. e \in Row /\ e.type = "failed"
    BY <1>1 DEF RowOf, Row, Types
  <2>3. /\ k \in CallState /\ k.at = "over" /\ k.tail = 0
        /\ k.since = call[c].since /\ k.capsule = call[c].capsule
    BY <1>1 DEF CallState, Local
  <2>4. e.type \notin {"record", "signal", "claimed", "completed"}
    BY <2>2
  <2> HIDE DEF e, k
  <2>5. k.at \in After /\ k.tail <= Len(log)
    BY <1>1, <2>3 DEF After
  <2> QED
    BY <1>1, <1>2, <2>1, <2>2, <2>3, <2>4, <2>5, CallAppends
<1> QED
  BY <1>3, <1>4

LEMMA DeathInv ==
  ASSUME TaskInv, NEW c \in Call, CallDies(c)
  PROVE  TaskInv'
<1>1. /\ moves \in 0 .. MaxMoves /\ MaxMoves \in Nat
      /\ doc \in [status : {"open", "complete"}, version : Nat]
  BY CallFacts
<1>2. /\ Untouched /\ doc' = doc /\ moves' \in 0 .. MaxMoves
      /\ Ended(c, "dead", "none")
  BY <1>1 DEF CallDies, OneMove, Untouched
<1> QED
  BY <1>1, <1>2, EndedInv

-----------------------------------------------------------------------------
(***************************************************************************)
(* The steps of a completion.                                               *)
(***************************************************************************)
LEMMA StartInv ==
  ASSUME TaskInv, NEW c \in Call, NEW named \in BOOLEAN,
         NEW capsule \in {0} \cup RowsOf("prepared", Len(log)),
         StartComplete(c, named, capsule)
  PROVE  TaskInv'
<1>1. /\ call[c] \in CallState /\ Pinned(call[c]) /\ call \in [Call -> CallState]
      /\ Len(log) \in Nat /\ moves \in 0 .. MaxMoves /\ MaxMoves \in Nat
      /\ doc \in [status : {"open", "complete"}, version : Nat]
  BY CallFacts
<1>2. capsule \in Nat
  BY <1>1 DEF RowsOf
<1> DEFINE k == [call[c] EXCEPT !.at = "pin", !.named = named, !.capsule = capsule]
<1>3. /\ k \in CallState /\ k.at = "pin" /\ k.tail = call[c].tail
      /\ k.since = call[c].since /\ k.capsule = capsule
  BY <1>1, <1>2 DEF CallState
<1>4. call' = [call EXCEPT ![c] = k] /\ call[c].at = "new"
  BY <1>1 DEF StartComplete
<1>5. Untouched /\ doc' = doc /\ moves' \in 0 .. MaxMoves
  BY <1>1 DEF StartComplete, OneMove, Untouched
<1> HIDE DEF k
<1>6. Holds(c, k)
  BY <1>1, <1>3, <1>4 DEF Holds, ClaimRead, Pinned, Stands, After
<1> QED
  BY <1>1, <1>4, <1>5, <1>6, CallMoves

LEMMA PinInv ==
  ASSUME TaskInv, NEW c \in Call, PinTail(c)
  PROVE  TaskInv'
<1>1. /\ call[c] \in CallState /\ Pinned(call[c]) /\ call \in [Call -> CallState]
      /\ Len(log) \in Nat /\ moves \in 0 .. MaxMoves
      /\ doc \in [status : {"open", "complete"}, version : Nat]
  BY CallFacts
<1> DEFINE k == [call[c] EXCEPT !.at = "stored", !.tail = Len(log), !.open = TRUE]
<1>2. /\ k \in CallState /\ k.at = "stored" /\ k.tail = Len(log)
      /\ k.since = call[c].since /\ k.capsule = call[c].capsule
  BY <1>1 DEF CallState
<1>3. /\ call' = [call EXCEPT ![c] = k] /\ call[c].at = "pin"
      /\ Untouched /\ doc' = doc /\ moves' = moves
  BY <1>1 DEF PinTail, Untouched
<1> HIDE DEF k
<1>4. Holds(c, k)
  BY <1>1, <1>2, <1>3 DEF Holds, ClaimRead, Pinned, Stands, After
<1> QED
  BY <1>1, <1>3, <1>4, CallMoves

LEMMA StoredInv ==
  ASSUME TaskInv, NEW c \in Call, ReadStored(c)
  PROVE  TaskInv'
<1>1. /\ call[c] \in CallState /\ Pinned(call[c]) /\ call \in [Call -> CallState]
      /\ Len(log) \in Nat /\ moves \in 0 .. MaxMoves
      /\ doc \in [status : {"open", "complete"}, version : Nat]
  BY CallFacts
<1>2. PICK row \in Nat : row = LastOf("completed", Len(log))
  BY <1>1, LastRow
<1>3. PICK at \in {"prepared", "failures"} :
        at = IF row = 0 THEN "prepared" ELSE "failures"
  OBVIOUS
<1> DEFINE k == [call[c] EXCEPT !.row = row, !.at = at]
<1>4. /\ k \in CallState /\ k.at \in {"prepared", "failures"} /\ k.tail = call[c].tail
      /\ k.since = call[c].since /\ k.capsule = call[c].capsule
  BY <1>1 DEF CallState
<1>5. /\ call' = [call EXCEPT ![c] = k] /\ call[c].at = "stored"
      /\ Untouched /\ doc' = doc /\ moves' = moves
  BY <1>1, <1>2, <1>3 DEF ReadStored, Untouched
<1> HIDE DEF k
<1>6. Holds(c, k)
  BY <1>1, <1>4, <1>5 DEF Holds, ClaimRead, Pinned, Stands, After
<1> QED
  BY <1>1, <1>5, <1>6, CallMoves

LEMMA FailuresInv ==
  ASSUME TaskInv, NEW c \in Call, ReadFailures(c)
  PROVE  TaskInv'
<1>1. call[c] \in CallState /\ moves \in 0 .. MaxMoves
  BY CallFacts
<1>2. /\ call[c].at = "failures" /\ (Moves(c, "prepared") \/ Moves(c, "mend"))
      /\ Untouched /\ doc' = doc /\ moves' = moves
  BY DEF ReadFailures, Untouched
<1>3. /\ Stands([call[c] EXCEPT !.at = "prepared"], Len(log))
      /\ Stands([call[c] EXCEPT !.at = "mend"], Len(log))
  BY <1>1 DEF Stands, CallState
<1> QED
  BY <1>1, <1>2, <1>3, MovesInv DEF Places, After

LEMMA PreparedInv ==
  ASSUME TaskInv, NEW c \in Call, ReadPrepared(c)
  PROVE  TaskInv'
<1>1. /\ call[c] \in CallState /\ Pinned(call[c]) /\ call \in [Call -> CallState]
      /\ Len(log) \in Nat /\ moves \in 0 .. MaxMoves
      /\ doc \in [status : {"open", "complete"}, version : Nat]
  BY CallFacts
<1>2. LastOf("prepared", Len(log)) \in {0} \cup RowsOf("prepared", Len(log))
  BY <1>1, LastRow
<1>3. call[c].capsule \in {0} \cup RowsOf("prepared", Len(log))
  BY <1>1 DEF Pinned
<1>4. PICK since \in {0} \cup RowsOf("prepared", Len(log)) :
        since = IF call[c].capsule = 0 THEN LastOf("prepared", Len(log)) ELSE call[c].capsule
  BY <1>2, <1>3
<1>5. since \in Nat
  BY <1>1 DEF RowsOf
<1>6. PICK at \in {"signals", "revised"} : at = IF since = 0 THEN "signals" ELSE "revised"
  OBVIOUS
<1> DEFINE k == [call[c] EXCEPT !.at = at, !.since = since]
<1>7. /\ k \in CallState /\ k.at = at /\ k.tail = call[c].tail
      /\ k.since = since /\ k.capsule = call[c].capsule
  BY <1>1, <1>5 DEF CallState
<1>8. /\ call' = [call EXCEPT ![c] = k] /\ call[c].at = "prepared"
      /\ Untouched /\ doc' = doc /\ moves' = moves
  BY <1>1, <1>4, <1>6 DEF ReadPrepared, Untouched, LastOf
<1> HIDE DEF k
<1>9. Stands(k, Len(log))
  BY <1>4, <1>6, <1>7 DEF Stands
<1>10. Holds(c, k)
  BY <1>1, <1>3, <1>6, <1>7, <1>8, <1>9 DEF Holds, ClaimRead, Pinned, After
<1> QED
  BY <1>1, <1>8, <1>10, CallMoves

LEMMA RevisionsInv ==
  ASSUME TaskInv, NEW c \in Call, ReadRevisions(c)
  PROVE  TaskInv'
<1>1. /\ call[c] \in CallState /\ Pinned(call[c]) /\ Len(log) \in Nat
      /\ moves \in 0 .. MaxMoves
      /\ doc \in [status : {"open", "complete"}, version : Nat]
  BY CallFacts
<1>2. call[c].at = "revised" /\ Untouched /\ doc' = doc /\ moves' = moves
  BY DEF ReadRevisions, Untouched
<1>3. CASE LastOf("revised", Len(log)) > call[c].since
  BY <1>1, <1>2, <1>3, EndedInv DEF ReadRevisions, Answers
<1>4. CASE ~(LastOf("revised", Len(log)) > call[c].since)
  <2>1. Moves(c, "signals")
    BY <1>4 DEF ReadRevisions
  <2>2. call[c].since # 0 => LastOf("revised", Len(log)) < call[c].since
    <3>1. /\ LastOf("revised", Len(log)) \in RowsOf("revised", Len(log)) \cup {0}
          /\ LastOf("revised", Len(log)) \in 0 .. Len(log)
      BY <1>1, LastRow
    <3>2. call[c].since \in {0} \cup RowsOf("prepared", Len(log)) /\ call[c].since \in Nat
      BY <1>1 DEF Pinned, CallState
    <3>3. call[c].since # 0 => LastOf("revised", Len(log)) # call[c].since
      BY <3>1, <3>2 DEF RowsOf
    <3> QED
      BY <1>4, <3>1, <3>2, <3>3
  <2>3. call[c].open /\ call[c].tail = Len(log) =>
          Stands([call[c] EXCEPT !.at = "signals"], Len(log))
    BY <1>1, <1>2, <2>2 DEF Stands, Pinned, CallState
  <2> QED
    BY <1>1, <1>2, <2>1, <2>3, MovesInv DEF Places, After
<1> QED
  BY <1>3, <1>4

LEMMA SignalsInv ==
  ASSUME TaskInv, NEW c \in Call, ReadSignals(c)
  PROVE  TaskInv'
<1>1. /\ call[c] \in CallState /\ Pinned(call[c]) /\ call \in [Call -> CallState]
      /\ Len(log) \in Nat /\ moves \in 0 .. MaxMoves
      /\ doc \in [status : {"open", "complete"}, version : Nat]
  BY CallFacts
<1>2. PICK signal \in Nat : signal = LastOf("signal", Len(log))
  BY <1>1, LastRow
<1> DEFINE k == [call[c] EXCEPT !.at = "records", !.signal = signal]
<1>3. /\ k \in CallState /\ k.at = "records" /\ k.tail = call[c].tail
      /\ k.since = call[c].since /\ k.capsule = call[c].capsule
      /\ k.signal = signal /\ k.open = call[c].open
  BY <1>1 DEF CallState
<1>4. /\ call' = [call EXCEPT ![c] = k] /\ call[c].at = "signals"
      /\ Untouched /\ doc' = doc /\ moves' = moves
  BY <1>1, <1>2 DEF ReadSignals, Untouched
<1> HIDE DEF k
<1>5. k.open /\ k.tail = Len(log) => Stands(k, Len(log))
  BY <1>1, <1>2, <1>3, <1>4 DEF Stands, Pinned
<1>6. Holds(c, k)
  BY <1>1, <1>3, <1>4, <1>5 DEF Holds, ClaimRead, Pinned, After
<1> QED
  BY <1>1, <1>4, <1>6, CallMoves

LEMMA RecordsInv ==
  ASSUME TaskInv, NEW c \in Call, ReadRecords(c)
  PROVE  TaskInv'
<1>1. /\ call[c] \in CallState /\ Pinned(call[c]) /\ moves \in 0 .. MaxMoves
      /\ doc \in [status : {"open", "complete"}, version : Nat]
  BY CallFacts
<1>2. call[c].at = "records" /\ Untouched /\ doc' = doc /\ moves' = moves
  BY DEF ReadRecords, Untouched
<1>3. CASE Answers(c, "refused") \/ Answers(c, "ok")
  BY <1>1, <1>2, <1>3, EndedInv DEF Answers
<1>4. CASE ~(Answers(c, "refused") \/ Answers(c, "ok"))
  <2>1. /\ Passes(call[c].signal, Len(log)) /\ call[c].open /\ Moves(c, "tree")
    BY <1>4 DEF ReadRecords
  <2>2. call[c].open /\ call[c].tail = Len(log) =>
          Stands([call[c] EXCEPT !.at = "tree"], Len(log))
    BY <1>1, <1>2, <2>1 DEF Stands, Pinned, CallState
  <2> QED
    BY <1>1, <1>2, <2>1, <2>2, MovesInv DEF Places, After
<1> QED
  BY <1>3, <1>4

LEMMA JudgeInv ==
  ASSUME TaskInv, NEW c \in Call, JudgeTree(c)
  PROVE  TaskInv'
<1>1. /\ call[c] \in CallState /\ Pinned(call[c]) /\ call \in [Call -> CallState]
      /\ Len(log) \in Nat /\ moves \in 0 .. MaxMoves
      /\ doc \in [status : {"open", "complete"}, version : Nat]
  BY CallFacts
<1>2. call[c].at = "tree" /\ Untouched /\ doc' = doc /\ moves' = moves
  BY DEF JudgeTree, Untouched
<1>3. CASE Answers(c, "refused")
  BY <1>1, <1>2, <1>3, EndedInv DEF Answers
<1>4. ASSUME NEW tree \in Nat \cup {None},
             call' = [call EXCEPT ![c].at = "append", ![c].tree = tree]
      PROVE  TaskInv'
  <2> DEFINE k == [call[c] EXCEPT !.at = "append", !.tree = tree]
  <2>1. /\ k \in CallState /\ k.at = "append" /\ k.tail = call[c].tail
        /\ k.since = call[c].since /\ k.capsule = call[c].capsule
        /\ k.signal = call[c].signal /\ k.open = call[c].open
    BY <1>1 DEF CallState
  <2>2. call' = [call EXCEPT ![c] = k]
    BY <1>1, <1>4
  <2> HIDE DEF k
  <2>3. k.open /\ k.tail = Len(log) => Stands(k, Len(log))
    BY <1>1, <1>2, <2>1 DEF Stands, Pinned
  <2>4. Holds(c, k)
    BY <1>1, <1>2, <2>1, <2>3 DEF Holds, ClaimRead, Pinned, After
  <2> QED
    BY <1>1, <1>2, <2>2, <2>4, CallMoves
<1>5. head \in Nat
  BY DEF TaskInv, RunsInv, RunsTypeOK
<1> QED
  BY <1>3, <1>4, <1>5 DEF JudgeTree

LEMMA CompletedInv ==
  ASSUME TaskInv, NEW c \in Completer, AppendCompleted(c)
  PROVE  TaskInv'
<1>1. /\ c \in Call /\ call[c] \in CallState /\ Pinned(call[c])
      /\ call \in [Call -> CallState] /\ Len(log) \in Nat /\ moves \in 0 .. MaxMoves
      /\ doc \in [status : {"open", "complete"}, version : Nat]
  BY CallFacts DEF Call
<1>2. /\ call[c].at = "append" /\ UNCHANGED <<worktree, clock, run, doc>> /\ moves' = moves
  BY DEF AppendCompleted
<1>3. CASE log' = log /\ Moves(c, "sync")
  <2>1. Stands([call[c] EXCEPT !.at = "sync"], Len(log))
    BY <1>1 DEF Stands, CallState
  <2>2. Untouched /\ doc' = doc /\ moves' \in 0 .. MaxMoves
    BY <1>1, <1>2, <1>3 DEF Untouched
  <2> QED
    BY <1>1, <1>2, <1>3, <2>1, <2>2, MovesInv DEF Places, After
<1>4. CASE /\ Len(log) = call[c].tail /\ Moves(c, "sync")
           /\ log' = Append(log, RowOf("completed", c, FALSE, call[c].tree, None))
  <2> DEFINE e == RowOf("completed", c, FALSE, call[c].tree, None)
             k == [call[c] EXCEPT !.at = "sync"]
  <2>1. log' = Append(log, e) /\ call' = [call EXCEPT ![c] = k]
    BY <1>1, <1>4 DEF Moves
  <2>2. e \in Row /\ e.type = "completed" /\ e.by = c
    BY <1>1 DEF RowOf, Row, Types, CallState
  <2>3. /\ k \in CallState /\ k.at = "sync" /\ k.tail = call[c].tail
        /\ k.since = call[c].since /\ k.capsule = call[c].capsule
    BY <1>1 DEF CallState
  <2>4. Stands(call[c], Len(log))
    BY <1>1, <1>2, <1>4 DEF Pinned
  <2> HIDE DEF e, k
  <2>5. k.at \in After /\ k.tail <= Len(log)
    BY <1>1, <1>4, <2>3 DEF After
  <2>6. e.type \notin {"record", "signal", "claimed"}
    BY <2>2
  <2> QED
    BY <1>1, <1>2, <2>1, <2>2, <2>3, <2>4, <2>5, <2>6, CallAppends
<1>5. CASE log' = log /\ Answers(c, "conflict")
  <2>1. Untouched /\ doc' = doc /\ moves' \in 0 .. MaxMoves
    BY <1>1, <1>2, <1>5 DEF Untouched
  <2> QED
    BY <1>1, <1>5, <2>1, EndedInv DEF Answers
<1>6. CASE /\ log' = log
           /\ call' = [call EXCEPT ![c].at = "pin", ![c].tries = @ + 1]
  <2>1. PICK n \in Nat : n = call[c].tries + 1
    BY <1>1 DEF CallState
  <2> DEFINE k == [call[c] EXCEPT !.at = "pin", !.tries = n]
  <2>2. /\ k \in CallState /\ k.at = "pin" /\ k.tail = call[c].tail
        /\ k.since = call[c].since /\ k.capsule = call[c].capsule
    BY <1>1 DEF CallState
  <2>3. call' = [call EXCEPT ![c] = k]
    BY <1>1, <1>6, <2>1
  <2>4. Untouched
    BY <1>2, <1>6 DEF Untouched
  <2> HIDE DEF k
  <2>5. Holds(c, k)
    BY <1>1, <1>2, <2>2 DEF Holds, ClaimRead, Pinned, Stands, After
  <2> QED
    BY <1>1, <1>2, <2>3, <2>4, <2>5, CallMoves
<1> QED
  BY <1>3, <1>4, <1>5, <1>6 DEF AppendCompleted

LEMMA ReadDocumentInv ==
  ASSUME TaskInv, NEW c \in Call, ReadDocument(c)
  PROVE  TaskInv'
<1>1. /\ call[c] \in CallState /\ Pinned(call[c]) /\ call \in [Call -> CallState]
      /\ Len(log) \in Nat /\ moves \in 0 .. MaxMoves
      /\ doc \in [status : {"open", "complete"}, version : Nat]
  BY CallFacts
<1>2. /\ call[c].at \in {"sync", "mend"} /\ Untouched /\ doc' = doc /\ moves' = moves
  BY DEF ReadDocument, Untouched
<1>3. CASE doc.status = "open"
  <2>1. PICK version \in Nat : version = doc.version
    BY <1>1
  <2>2. PICK at \in {"syncing", "mending"} :
          at = IF call[c].at = "sync" THEN "syncing" ELSE "mending"
    OBVIOUS
  <2> DEFINE k == [call[c] EXCEPT !.version = version, !.at = at]
  <2>3. /\ k \in CallState /\ k.at = at /\ k.tail = call[c].tail
        /\ k.since = call[c].since /\ k.capsule = call[c].capsule
    BY <1>1 DEF CallState
  <2>4. call' = [call EXCEPT ![c] = k]
    BY <1>1, <1>3, <2>1, <2>2 DEF ReadDocument
  <2> HIDE DEF k
  <2>5. Holds(c, k)
    BY <1>1, <1>2, <2>2, <2>3 DEF Holds, ClaimRead, Pinned, Stands, After
  <2> QED
    BY <1>1, <1>2, <2>4, <2>5, CallMoves
<1>4. CASE doc.status # "open" /\ call[c].at = "sync"
  <2>1. Ended(c, "over", "ok")
    BY <1>4 DEF ReadDocument, Answers
  <2> QED
    BY <1>1, <1>2, <2>1, EndedInv
<1>5. CASE doc.status # "open" /\ call[c].at # "sync"
  <2> DEFINE k == [call[c] EXCEPT !.at = "signals", !.open = FALSE, !.syncs = 0]
  <2>1. /\ k \in CallState /\ k.at = "signals" /\ k.tail = call[c].tail
        /\ k.since = call[c].since /\ k.capsule = call[c].capsule /\ ~k.open
    BY <1>1 DEF CallState
  <2>2. call' = [call EXCEPT ![c] = k] /\ call[c].at = "mend"
    BY <1>1, <1>2, <1>5 DEF ReadDocument
  <2> HIDE DEF k
  <2>3. Holds(c, k)
    BY <1>1, <2>1, <2>2 DEF Holds, ClaimRead, Pinned, After
  <2> QED
    BY <1>1, <1>2, <2>2, <2>3, CallMoves
<1> QED
  BY <1>3, <1>4, <1>5

LEMMA WriteDocumentInv ==
  ASSUME TaskInv, NEW c \in Call, WriteDocument(c)
  PROVE  TaskInv'
<1>1. /\ call[c] \in CallState /\ Pinned(call[c]) /\ call \in [Call -> CallState]
      /\ Len(log) \in Nat /\ moves \in 0 .. MaxMoves
      /\ doc \in [status : {"open", "complete"}, version : Nat]
  BY CallFacts
<1>2. /\ call[c].at \in {"syncing", "mending"} /\ Untouched /\ moves' = moves
      /\ doc' \in [status : {"open", "complete"}, version : Nat]
  BY <1>1 DEF WriteDocument, Untouched
<1>3. CASE Answers(c, "ok") \/ Answers(c, "unsynced")
  BY <1>1, <1>2, <1>3, EndedInv DEF Answers
<1>4. CASE ~(Answers(c, "ok") \/ Answers(c, "unsynced"))
  <2>1. PICK n \in Nat : n = call[c].syncs + 1
    BY <1>1 DEF CallState
  <2>2. PICK at \in {"sync", "mend"} :
          at = IF call[c].at = "syncing" THEN "sync" ELSE "mend"
    OBVIOUS
  <2> DEFINE k == [call[c] EXCEPT !.at = at, !.syncs = n]
  <2>3. /\ k \in CallState /\ k.at = at /\ k.tail = call[c].tail
        /\ k.since = call[c].since /\ k.capsule = call[c].capsule
    BY <1>1 DEF CallState
  <2>4. call' = [call EXCEPT ![c] = k]
    BY <1>1, <1>4, <2>1, <2>2 DEF WriteDocument
  <2> HIDE DEF k
  <2>5. Holds(c, k)
    BY <1>1, <1>2, <2>2, <2>3 DEF Holds, ClaimRead, Pinned, Stands, After
  <2> QED
    BY <1>1, <1>2, <2>4, <2>5, CallMoves
<1> QED
  BY <1>3, <1>4

LEMMA CompleteInv ==
  ASSUME TaskInv, NEW c \in Completer, CompleteStep(c)
  PROVE  TaskInv'
<1>1. c \in Call
  BY DEF Call
<1> QED
  BY <1>1, StartInv, PinInv, StoredInv, FailuresInv, PreparedInv, RevisionsInv, SignalsInv,
     RecordsInv, JudgeInv, CompletedInv, ReadDocumentInv, WriteDocumentInv
  DEF CompleteStep

-----------------------------------------------------------------------------
(***************************************************************************)
(* The runs and the other writers, whose rows are no claim or completion.   *)
(***************************************************************************)
LEMMA OthersInv ==
  ASSUME TaskInv, RunsInv', CallsTyped', call' = call,
         log' = log \/ \E e \in Row : log' = Append(log, e)
                                     /\ e.type \notin {"claimed", "completed"}
  PROVE  TaskInv'
<1>1. PICK m \in Nat : m = Len(log) /\ log \in Seq(Row)
  BY DEF TaskInv, RunsInv, RunsTypeOK
<1>2. CASE log' = log
  <2>1. Len(log') # m + 1
    BY <1>1, <1>2
  <2> QED
    BY <1>1, <1>2, <2>1, Keeps
<1>3. ASSUME NEW e \in Row, log' = Append(log, e), e.type \notin {"claimed", "completed"}
      PROVE  TaskInv'
  <2>1. log'[m + 1] = e
    BY <1>1, <1>3, Appended
  <2>2. NewRow(m)
    BY <1>3, <2>1 DEF NewRow
  <2> QED
    BY <1>1, <1>3, <2>2, Keeps
<1> QED
  BY <1>2, <1>3

LEMMA RunsNextInv ==
  ASSUME TaskInv, RunsNext, UNCHANGED <<doc, call>>
  PROVE  TaskInv'
<1>1. RunsInv'
  BY RunStepInv, AgentInv DEF RunsNext, TaskInv
<1>2. CallsTyped'
  BY DEF TaskInv, CallsTyped
<1>3. run \in [Run -> RunState]
  BY DEF TaskInv, RunsInv, RunsTypeOK
<1>4. ASSUME NEW r \in Run, AppendRecord(r)
      PROVE  \E e \in Row : log' = Append(log, e) /\ e.type \notin {"claimed", "completed"}
  <2> DEFINE e == RowOf("record", r, run[r].kept, None, run[r].over)
  <2>1. e \in Row /\ e.type = "record"
    BY <1>3 DEF RunState, RowOf, Row, Types
  <2>2. log' = Append(log, e)
    BY <1>4 DEF AppendRecord
  <2> HIDE DEF e
  <2> QED
    BY <2>1, <2>2
<1>5. ASSUME NEW r \in Run, AppendSignal(r)
      PROVE  \/ log' = log
             \/ \E e \in Row : log' = Append(log, e)
                              /\ e.type \notin {"claimed", "completed"}
  <2> DEFINE e == RowOf("signal", r, run[r].kept, run[r].stamp, None)
  <2>1. e \in Row /\ e.type = "signal"
    BY <1>3 DEF RunState, RowOf, Row, Types
  <2>2. log' = log \/ log' = Append(log, e)
    BY <1>5 DEF AppendSignal
  <2> HIDE DEF e
  <2> QED
    BY <2>1, <2>2
<1>6. \/ log' = log
      \/ \E r \in Run : AppendRecord(r) \/ AppendSignal(r)
  BY DEF RunsNext, Edit, Commit, Checkout, RunStep, Begin, Resubmit, Scan, Derive, RunDies
<1> QED
  BY <1>1, <1>2, <1>4, <1>5, <1>6, OthersInv

LEMMA OutsideInv ==
  ASSUME TaskInv, Outside
  PROVE  TaskInv'
<1>1. /\ log \in Seq(Row) /\ Len(log) \in Nat /\ RunsInv /\ CallsTyped
      /\ moves \in 0 .. MaxMoves /\ MaxMoves \in Nat
  BY RunsAssumption DEF TaskInv, RunsInv, RunsTypeOK, RunsAssumption
<1>2. ASSUME NEW type \in {"assigned", "progressed", "prepared", "revised"}, Report(type)
      PROVE  TaskInv'
  <2> DEFINE e == RowOf(type, None, FALSE, None, None)
  <2>1. e \in Row /\ e.type = type
    BY DEF RowOf, Row, Types
  <2>2. log' = Append(log, e) /\ moves' \in 0 .. MaxMoves /\ call' = call /\ doc' = doc
        /\ UNCHANGED <<worktree, clock, run>>
    BY <1>1, <1>2 DEF Report, OneMove
  <2>3. e.type \notin {"record", "signal", "claimed", "completed"}
    BY <2>1
  <2> HIDE DEF e
  <2>4. PICK m \in Nat : m = Len(log)
    BY <1>1
  <2>5. /\ log' \in Seq(Row) /\ Len(log') = m + 1 /\ log'[m + 1] = e
        /\ \A i \in 1 .. m : log'[i] = log[i]
    BY <1>1, <2>1, <2>2, <2>4, Appended
  <2>6. RunsInv'
    BY <1>1, <2>2, <2>3, <2>4, <2>5 DEF RunsInv, RunsTypeOK
  <2>7. CallsTyped'
    BY <1>1, <2>2 DEF CallsTyped
  <2> QED
    BY <2>1, <2>2, <2>3, <2>6, <2>7, OthersInv
<1>3. CASE WriteElsewhere
  <2>1. /\ moves' \in 0 .. MaxMoves /\ call' = call /\ log' = log
        /\ UNCHANGED <<worktree, clock, run>>
        /\ doc' \in [status : {"open", "complete"}, version : Nat]
    BY <1>1, <1>3 DEF WriteElsewhere, OneMove, CallsTyped
  <2>2. RunsInv'
    BY <1>1, <2>1 DEF RunsInv, RunsTypeOK
  <2>3. CallsTyped'
    BY <1>1, <2>1 DEF CallsTyped
  <2> QED
    BY <2>1, <2>2, <2>3, OthersInv
<1> QED
  BY <1>2, <1>3 DEF Outside

-----------------------------------------------------------------------------
LEMMA InitInv == ASSUME Init PROVE TaskInv
<1>1. Len(log) = 0 /\ log \in Seq(Row)
  BY DEF Init, RunsInit
<1>2. RunsInv
  <2>1. run \in [Run -> RunState] /\ \A r \in Run : run[r].born <= clock
    BY DEF Init, RunsInit, RunState
  <2>2. /\ newest \in Nat /\ head \in 0 .. newest /\ edited \in BOOLEAN
        /\ onEdits \subseteq Run /\ rewound \subseteq Run
    <3>1. /\ head = 0 /\ newest = 0 /\ edited = FALSE
          /\ onEdits = {} /\ rewound = {}
      BY DEF Init, RunsInit
    <3>2. newest \in Nat /\ head \in 0 .. newest
      BY <3>1
    <3> QED
      BY <3>1, <3>2
  <2>3. clock \in Nat /\ moves \in 0 .. MaxMoves
    BY RunsAssumption DEF Init, RunsInit, RunsAssumption
  <2> QED
    BY <1>1, <2>1, <2>2, <2>3 DEF RunsInv, RunsTypeOK
<1>3. Local \in CallState /\ Local.at = "new" /\ Local.tail = 0 /\ Local.since = 0
      /\ Local.capsule = 0
  BY DEF Local, CallState
<1>4. CallsTyped /\ \A c \in Call : call[c] = Local
  BY <1>3 DEF Init, CallsTyped
<1>5. \A c \in Call : CallGood(c)
  BY <1>1, <1>3, <1>4 DEF CallGood, ClaimRead, Pinned, Stands
<1>6. ClaimsApart /\ \A i \in Completions : Stood(i)
  BY <1>1 DEF ClaimsApart, Completions, RowsOf
<1> QED
  BY <1>2, <1>4, <1>5, <1>6 DEF TaskInv

LEMMA NextInv == ASSUME TaskInv, [Next]_vars PROVE TaskInv'
<1>1. CASE UNCHANGED vars
  <2>1. /\ call' = call /\ log' = log /\ RunsInv' /\ CallsTyped'
    BY <1>1 DEF vars, TaskInv, RunsInv, RunsTypeOK, CallsTyped
  <2> QED
    BY <2>1, OthersInv
<1>2. CASE Next
  BY <1>1, <1>2, RunsNextInv, ClaimInv, FailInv, CompleteInv, DeathInv, OutsideInv
  DEF Next, Finished
<1> QED
  BY <1>1, <1>2

\* Tasks.tla, its runs and its calls: the invariant that the pins keep.
THEOREM TaskSafety == Spec => []TaskInv
<1>1. Init => TaskInv
  BY InitInv
<1>2. TaskInv /\ [Next]_vars => TaskInv'
  BY NextInv
<1> QED
  BY <1>1, <1>2, PTL DEF Spec

\* Every run and call stays in its states (Tasks, GateRuns).
THEOREM TaskTypes == Spec => []TypeOK
<1>1. TaskInv => TypeOK
  BY DEF TaskInv, RunsInv, CallsTyped, TypeOK
<1> QED
  BY <1>1, TaskSafety, PTL

\* attemptTaskClaim: for any number of agents, no claim is logged while the last task row
\* is a claim, a completion or a failure.  A row of progress or an assignment after that
\* one lets the next claim through.
THEOREM ClaimsPinned == Spec => []ClaimsApart
<1>1. TaskInv => ClaimsApart
  BY DEF TaskInv
<1> QED
  BY <1>1, TaskSafety, PTL

\* attemptTaskComplete: whatever runs, revisions and reports are appended while a call
\* reads, the row that it appends rests on the log before the row as a whole.
THEOREM CompletionsPinned == Spec => []CompletedStands
<1>1. TaskInv => CompletedStands
  BY DEF TaskInv, CompletedStands, Stood
<1> QED
  BY <1>1, TaskSafety, PTL

-----------------------------------------------------------------------------
(***************************************************************************)
(* What the rows say of the runs that wrote them.                           *)
(***************************************************************************)
Records == RowsOf("record", Len(log))
Signals == RowsOf("signal", Len(log))

\* A run that is not resubmitted has no record before it has one; while HEAD only goes
\* forward, it found at HEAD the commit it stamped or a later one.
Stamped(r) ==
  LET s == run[r]
  IN  /\ s.at \in {"scan", "derive", "record"} => ~Has("record", r)
      /\ r \notin rewound /\ s.at = "scan" => s.stamp <= head
      /\ r \notin rewound /\ s.at \in {"derive", "record", "signal"} =>
           s.stamp <= s.scanned /\ s.scanned <= head
      /\ s.at \in {"record", "signal"} => s.kept = s.pass

\* A run: when it has its record, and what its record will supersede.
RunKnown(r) ==
  /\ run[r].at \in {"new", "record"} => ~Has("record", r)
  /\ run[r].at = "signal" => Has("record", r)
  /\ run[r].at = "record" /\ run[r].over # None =>
       \E j \in Records : log[j].by = run[r].over /\ run[log[j].by].chain = run[r].chain
  /\ ~run[r].again => Stamped(r)

\* A record is the only one of its run, has its verdict, and supersedes an earlier
\* record of its chain.
RecordKnown(i) ==
  /\ run[log[i].by].at \notin {"new", "record"}
  /\ log[i].pass = run[log[i].by].kept
  /\ \A j \in Records : log[j].by = log[i].by => j = i
  /\ log[i].over # None =>
       \E j \in Records : /\ j < i /\ log[j].by = log[i].over
                          /\ run[log[j].by].chain = run[log[i].by].chain

\* A signal has the verdict of its record, and of an unresubmitted run its verdict
\* and a commit not after the one at HEAD of its checks.
SignalKnown(i) ==
  /\ \E j \in Records : log[j].by = log[i].by /\ log[j].pass = log[i].pass
  /\ ~run[log[i].by].again =>
       /\ run[log[i].by].at = "done"
       /\ log[i].pass = run[log[i].by].pass
       /\ log[i].by \notin rewound =>
            log[i].tree <= run[log[i].by].scanned /\ run[log[i].by].scanned <= head

HistInv ==
  /\ \A r \in Run : RunKnown(r)
  /\ \A i \in Records : RecordKnown(i)
  /\ \A i \in Signals : SignalKnown(i)

\* The rows of a type after an append.
LEMMA RowsAppend ==
  ASSUME log \in Seq(Row), NEW e \in Row, log' = Append(log, e), NEW type
  PROVE  /\ Len(log') = Len(log) + 1 /\ log'[Len(log) + 1] = e
         /\ \A i \in 1 .. Len(log) : log'[i] = log[i]
         /\ \A i : i \in RowsOf(type, Len(log))' <=>
                     \/ i \in RowsOf(type, Len(log))
                     \/ i = Len(log) + 1 /\ e.type = type
  BY DEF RowsOf

\* What holds of the runs before a step.
LEMMA RunFacts ==
  ASSUME RunsInv
  PROVE  /\ log \in Seq(Row) /\ Len(log) \in Nat /\ head \in Nat
         /\ run \in [Run -> RunState]
         /\ \A i \in Records : i \in 1 .. Len(log) /\ log[i] \in Row /\ log[i].by \in Run
                               /\ log[i].type = "record"
         /\ \A i \in Signals : i \in 1 .. Len(log) /\ log[i] \in Row /\ log[i].by \in Run
                               /\ log[i].type = "signal"
         /\ None \notin Run
  BY RunsAssumption DEF RunsInv, RunsTypeOK, Records, Signals, RowsOf, RunsAssumption

\* HEAD goes forward, or the runs that began are known to have been rewound.
HeadMoves ==
  /\ head' \in Nat /\ rewound \subseteq rewound'
  /\ head <= head' \/ \A r \in Run : run[r].at # "new" => r \in rewound'

\* A step that neither moves a run nor adds a row of one.
LEMMA HistStays ==
  ASSUME RunsInv, HistInv, run' = run, HeadMoves,
         \/ log' = log
         \/ \E e \in Row : log' = Append(log, e) /\ e.type \notin {"record", "signal"}
  PROVE  HistInv'
<1>1. /\ Records' = Records /\ Signals' = Signals
      /\ \A i \in Records \cup Signals : log'[i] = log[i]
  <2>1. CASE log' = log
    BY <2>1 DEF Records, Signals, RowsOf
  <2>2. ASSUME NEW e \in Row, log' = Append(log, e), e.type \notin {"record", "signal"}
        PROVE  /\ Records' = Records /\ Signals' = Signals
               /\ \A i \in Records \cup Signals : log'[i] = log[i]
    <3>1. log \in Seq(Row)
      BY RunFacts
    <3>2. \A i : i \in RowsOf("record", Len(log))' <=> i \in RowsOf("record", Len(log))
      BY <2>2, <3>1, RowsAppend
    <3>3. \A i : i \in RowsOf("signal", Len(log))' <=> i \in RowsOf("signal", Len(log))
      BY <2>2, <3>1, RowsAppend
    <3>4. \A i \in 1 .. Len(log) : log'[i] = log[i]
      BY <2>2, <3>1, RowsAppend
    <3> QED
      BY <3>2, <3>3, <3>4, RunFacts DEF Records, Signals
  <2> QED
    BY <2>1, <2>2
<1>2. \A r \in Run : Has("record", r)' <=> Has("record", r)
  BY <1>1 DEF Has, Records
<1>3. ASSUME NEW r \in Run
      PROVE  RunKnown(r)'
  <2>1. run[r] \in RunState
    BY RunFacts
  <2>2. RunKnown(r)
    BY DEF HistInv
  <2>3. Stamped(r) => Stamped(r)'
    BY <1>2, <2>1, RunFacts DEF Stamped, RunState, HeadMoves
  <2> QED
    BY <1>1, <1>2, <2>2, <2>3 DEF RunKnown
<1>4. ASSUME NEW i \in Records'
      PROVE  RecordKnown(i)'
  <2>1. RecordKnown(i) /\ i \in Records
    BY <1>1 DEF HistInv
  <2> QED
    BY <1>1, <2>1 DEF RecordKnown
<1>5. ASSUME NEW i \in Signals'
      PROVE  SignalKnown(i)'
  <2>1. SignalKnown(i) /\ i \in Signals /\ run[log[i].by] \in RunState
    BY <1>1, RunFacts DEF HistInv
  <2>2. run[log[i].by].scanned \in Nat
    BY <2>1 DEF RunState
  <2> QED
    BY <1>1, <2>1, <2>2, RunFacts DEF SignalKnown, HeadMoves
<1> QED
  BY <1>3, <1>4, <1>5 DEF HistInv

\* A step of one run that adds no row: the others and their rows stay.
LEMMA HistMoves ==
  ASSUME RunsInv, HistInv, NEW r \in Run, NEW s \in RunState, run' = [run EXCEPT ![r] = s],
         log' = log, head' = head /\ rewound' = rewound,
         run[r].at # "new" => s.chain = run[r].chain,
         Has("record", r) =>
           s.kept = run[r].kept /\ s.at \notin {"new", "record"} /\ run[r].at # "new",
         \A i \in Signals : log[i].by = r =>
           \/ s.again
           \/ /\ ~run[r].again /\ s.at = "done" /\ s.pass = run[r].pass
              /\ s.scanned = run[r].scanned,
         RunKnown(r)'
  PROVE  HistInv'
<1>1. run'[r] = s /\ \A q \in Run \ {r} : run'[q] = run[q]
  BY RunFacts
<1>2. Records' = Records /\ Signals' = Signals
  BY DEF Records, Signals, RowsOf
<1>3. \A q \in Run : Has("record", q)' <=> Has("record", q)
  BY DEF Has, RowsOf
<1>4. \A i \in Records : log[i].by = r => Has("record", r)
  BY DEF Records, Has
<1>c. \A i \in Records : run'[log[i].by].chain = run[log[i].by].chain
  BY <1>1, <1>4, RunFacts
<1>5. ASSUME NEW q \in Run
      PROVE  RunKnown(q)'
  <2>1. CASE q = r
    BY <2>1
  <2>2. CASE q # r
    <3>1. RunKnown(q) /\ run'[q] = run[q]
      BY <1>1, <2>2 DEF HistInv
    <3>2. Stamped(q) => Stamped(q)'
      BY <1>3, <3>1 DEF Stamped
    <3> QED
      BY <1>2, <1>3, <1>c, <3>1, <3>2 DEF RunKnown
  <2> QED
    BY <2>1, <2>2
<1>6. ASSUME NEW i \in Records'
      PROVE  RecordKnown(i)'
  <2>1. RecordKnown(i) /\ i \in Records
    BY <1>2 DEF HistInv
  <2>2. log[i].by \in Run
    BY <2>1, RunFacts
  <2>3. /\ run'[log[i].by].at \notin {"new", "record"}
        /\ run'[log[i].by].kept = run[log[i].by].kept
    <3>1. CASE log[i].by = r
      BY <1>1, <1>4, <2>1, <3>1
    <3>2. CASE log[i].by # r
      BY <1>1, <2>1, <2>2, <3>2 DEF RecordKnown
    <3> QED
      BY <3>1, <3>2
  <2> QED
    BY <1>2, <1>c, <2>1, <2>3 DEF RecordKnown
<1>7. ASSUME NEW i \in Signals'
      PROVE  SignalKnown(i)'
  <2>1. SignalKnown(i) /\ i \in Signals /\ log[i].by \in Run
    BY <1>2, RunFacts DEF HistInv
  <2>2. CASE log[i].by # r
    BY <1>1, <1>2, <2>1, <2>2 DEF SignalKnown
  <2>3. CASE log[i].by = r
    BY <1>1, <1>2, <2>1, <2>3 DEF SignalKnown
  <2> QED
    BY <2>2, <2>3
<1> QED
  BY <1>5, <1>6, <1>7 DEF HistInv

LEMMA SignalHasRecord ==
  ASSUME HistInv, NEW r \in Run, NEW i \in Signals, log[i].by = r
  PROVE  Has("record", r)
  BY DEF HistInv, SignalKnown, Has, Records

LEMMA BeginHist ==
  ASSUME RunsInv, HistInv, NEW r \in Run, NEW c \in Chain, Begin(r, c)
  PROVE  HistInv'
<1> DEFINE s == [run[r] EXCEPT !.at = "scan", !.chain = c, !.stamp = head,
                               !.shared = \E q \in Run \ {r} : InProgress(q)]
<1>1. run[r] \in RunState /\ head \in Nat /\ run[r].at = "new" /\ RunKnown(r)
  BY RunFacts DEF Begin, HistInv
<1>2. s \in RunState /\ s.at = "scan" /\ s.stamp = head
  BY <1>1 DEF RunState
<1>3. run' = [run EXCEPT ![r] = s] /\ log' = log /\ head' = head /\ rewound' = rewound
  BY RunFacts DEF Begin
<1> HIDE DEF s
<1>4. ~Has("record", r) /\ ~Has("record", r)'
  BY <1>1, <1>3 DEF RunKnown, Has, RowsOf
<1>5. run'[r] = s
  BY <1>3, RunFacts
<1>6. RunKnown(r)'
  BY <1>1, <1>2, <1>3, <1>4, <1>5 DEF RunKnown, Stamped
<1>7. \A i \in Signals : log[i].by # r
  BY <1>4, SignalHasRecord
<1> QED
  BY <1>1, <1>2, <1>3, <1>4, <1>6, <1>7, HistMoves

LEMMA ResubmitHist ==
  ASSUME RunsInv, HistInv, NEW r \in Run, Resubmit(r)
  PROVE  HistInv'
<1> DEFINE s == [run[r] EXCEPT !.at = "scan", !.stamp = head, !.again = TRUE,
                     !.shared = @ \/ \E q \in Run \ {r} : InProgress(q)]
<1>1. run[r] \in RunState /\ head \in Nat /\ run[r].at = "dead" /\ RunKnown(r)
  BY RunFacts DEF Resubmit, HistInv
<1>2. /\ s \in RunState /\ s.at = "scan" /\ s.again = TRUE /\ s.chain = run[r].chain
      /\ s.kept = run[r].kept
  BY <1>1 DEF RunState
<1>3. run' = [run EXCEPT ![r] = s] /\ log' = log /\ head' = head /\ rewound' = rewound
  BY RunFacts DEF Resubmit
<1> HIDE DEF s
<1>4. run'[r] = s
  BY <1>3, RunFacts
<1>5. RunKnown(r)'
  BY <1>2, <1>4 DEF RunKnown
<1> QED
  BY <1>1, <1>2, <1>3, <1>5, HistMoves

LEMMA ScanHist ==
  ASSUME RunsInv, HistInv, NEW r \in Run, Scan(r)
  PROVE  HistInv'
<1>1. PICK ok \in BOOLEAN :
        run' = [run EXCEPT ![r].at = "derive", ![r].scanned = head, ![r].pass = ok]
  BY DEF Scan
<1> DEFINE s == [run[r] EXCEPT !.at = "derive", !.scanned = head, !.pass = ok]
<1>2. run[r] \in RunState /\ head \in Nat /\ run[r].at = "scan" /\ RunKnown(r)
  BY RunFacts DEF Scan, HistInv
<1>3. /\ s \in RunState /\ s.at = "derive" /\ s.again = run[r].again
      /\ s.chain = run[r].chain /\ s.kept = run[r].kept
      /\ s.scanned = head /\ s.stamp = run[r].stamp
  BY <1>2 DEF RunState
<1>4. run' = [run EXCEPT ![r] = s] /\ log' = log /\ head' = head /\ rewound' = rewound
  BY <1>1, RunFacts DEF Scan
<1> HIDE DEF s
<1>5. run'[r] = s
  BY <1>4, RunFacts
<1>6. Has("record", r)' <=> Has("record", r)
  BY <1>4 DEF Has, RowsOf
<1>7. RunKnown(r)'
  BY <1>2, <1>3, <1>4, <1>5, <1>6 DEF RunKnown, Stamped
<1>8. ASSUME NEW i \in Signals, log[i].by = r
      PROVE  s.again
  BY <1>2, <1>3, <1>8, SignalHasRecord DEF RunKnown, Stamped
<1> QED
  BY <1>2, <1>3, <1>4, <1>7, <1>8, HistMoves

\* Of the records of a chain those that no record of the chain supersedes.
OfChain(r) == {i \in Records : run[log[i].by].chain = run[r].chain}
Standing(r) == {i \in OfChain(r) : \A j \in OfChain(r) : log[j].over # log[i].by}

\* activePredecessor finds one of them, if there are any.
LEMMA PredecessorKnown ==
  ASSUME RunsInv, NEW r \in Run
  PROVE  \/ Predecessor(r) = None /\ Standing(r) = {}
         \/ \E i \in Standing(r) : log[i].by = Predecessor(r)
<1> DEFINE born(i) == run[log[i].by].born
           S == {born(i) : i \in Standing(r)}
           last == CHOOSE i \in Standing(r) : \A j \in Standing(r) : born(j) <= born(i)
<1>1. Predecessor(r) = IF Standing(r) = {} THEN None ELSE log[last].by
  BY Zenon DEF Predecessor, Standing, OfChain, Records
<1>2. CASE Standing(r) # {}
  <2>1. \A i \in Standing(r) : log[i].by \in Run
    BY RunFacts DEF Standing, OfChain
  <2>2. \A q \in Run : run[q].born \in Nat /\ run[q].born <= clock
    BY DEF RunsInv, RunsTypeOK, RunState
  <2>3. S \in SUBSET Nat /\ S # {} /\ clock \in Nat /\ \A x \in S : x <= clock
    BY <1>2, <2>1, <2>2 DEF RunsInv, RunsTypeOK
  <2>4. Max(S) \in S /\ \A x \in S : x <= Max(S)
    <3> HIDE DEF S
    <3> QED
      BY <2>3, MaxOfNats
  <2>5. \E i \in Standing(r) : \A j \in Standing(r) : born(j) <= born(i)
    BY <2>4
  <2>6. last \in Standing(r)
    <3> HIDE DEF born
    <3> QED
      BY <2>5
  <2> HIDE DEF last
  <2> QED
    BY <1>1, <1>2, <2>6
<1> QED
  BY <1>1, <1>2

LEMMA DeriveHist ==
  ASSUME RunsInv, HistInv, NEW r \in Run, Derive(r)
  PROVE  HistInv'
<1>1. run[r] \in RunState /\ head \in Nat /\ run[r].at = "derive" /\ RunKnown(r)
  BY RunFacts DEF Derive, HistInv
<1>2. log' = log /\ head' = head /\ rewound' = rewound
  BY DEF Derive
<1>3. Has("record", r)' <=> Has("record", r)
  BY <1>2 DEF Has, RowsOf
<1>4. CASE Has("record", r)
  <2> DEFINE s == [run[r] EXCEPT !.at = "signal"]
  <2>1. /\ s \in RunState /\ s.at = "signal" /\ s.again = run[r].again
        /\ s.chain = run[r].chain /\ s.kept = run[r].kept
    BY <1>1 DEF RunState
  <2>2. run' = [run EXCEPT ![r] = s]
    BY <1>4, RunFacts DEF Derive
  <2>3. s.again
    BY <1>1, <1>4, <2>1 DEF RunKnown, Stamped
  <2> HIDE DEF s
  <2>4. run'[r] = s
    BY <2>2, RunFacts
  <2>5. RunKnown(r)'
    BY <1>3, <1>4, <2>1, <2>3, <2>4 DEF RunKnown
  <2> QED
    BY <1>1, <1>2, <2>1, <2>2, <2>3, <2>5, HistMoves
<1>5. CASE ~Has("record", r)
  <2> DEFINE q == run[r]
             s == [at |-> "record", chain |-> q.chain, stamp |-> q.stamp,
                   scanned |-> q.scanned, pass |-> q.pass, kept |-> q.pass,
                   over |-> Predecessor(r), born |-> clock + 1, again |-> q.again,
                   shared |-> q.shared]
  <2>1. s \in RunState
    BY <1>1, PredecessorTyped DEF RunState, RunsInv, RunsTypeOK
  <2>2. run' = [run EXCEPT ![r] = s]
    BY <1>1, <1>5 DEF Derive, RunState
  <2>3. /\ s.at = "record" /\ s.again = q.again /\ s.chain = q.chain /\ s.kept = s.pass
        /\ s.stamp = q.stamp /\ s.scanned = q.scanned /\ s.over = Predecessor(r)
    OBVIOUS
  <2> HIDE DEF s
  <2>4. run'[r] = s /\ \A p \in Run \ {r} : run'[p] = run[p]
    BY <2>2, RunFacts
  <2>5. Records' = Records
    BY <1>2 DEF Records, RowsOf
  <2>6. \A j \in Records : run'[log[j].by].chain = run[log[j].by].chain
    BY <2>3, <2>4, RunFacts
  <2>7. s.over # None =>
          \E j \in Records : log[j].by = s.over /\ run'[log[j].by].chain = s.chain
    <3>1. ASSUME Predecessor(r) # None
          PROVE  \E j \in Records :
                   log[j].by = Predecessor(r) /\ run[log[j].by].chain = run[r].chain
      BY <3>1, PredecessorKnown DEF Standing, OfChain
    <3> QED
      BY <2>3, <2>6, <3>1
  <2>8. Stamped(r)' \/ q.again
    BY <1>1, <1>2, <1>3, <1>5, <2>3, <2>4 DEF RunKnown, Stamped
  <2>9. RunKnown(r)'
    BY <1>2, <1>3, <1>5, <2>3, <2>4, <2>5, <2>7, <2>8 DEF RunKnown
  <2>10. \A i \in Signals : log[i].by # r
    BY <1>5, SignalHasRecord
  <2> QED
    BY <1>1, <1>2, <1>5, <2>1, <2>2, <2>3, <2>9, <2>10, HistMoves
<1> QED
  BY <1>4, <1>5

LEMMA DiesHist ==
  ASSUME RunsInv, HistInv, NEW r \in Run, RunDies(r)
  PROVE  HistInv'
<1> DEFINE s == [run[r] EXCEPT !.at = "dead"]
<1>1. run[r] \in RunState /\ run[r].at \notin {"new", "done", "dead"} /\ RunKnown(r)
  BY RunFacts DEF RunDies, InProgress, HistInv
<1>2. /\ s \in RunState /\ s.at = "dead" /\ s.again = run[r].again
      /\ s.chain = run[r].chain /\ s.kept = run[r].kept
  BY <1>1 DEF RunState
<1>3. run' = [run EXCEPT ![r] = s] /\ log' = log /\ head' = head /\ rewound' = rewound
  BY RunFacts DEF RunDies
<1> HIDE DEF s
<1>4. run'[r] = s
  BY <1>3, RunFacts
<1>5. RunKnown(r)'
  BY <1>2, <1>4 DEF RunKnown, Stamped
<1>6. ASSUME NEW i \in Signals, log[i].by = r
      PROVE  s.again
  BY <1>1, <1>2, <1>6 DEF HistInv, SignalKnown
<1> QED
  BY <1>1, <1>2, <1>3, <1>5, <1>6, HistMoves

LEMMA RecordHist ==
  ASSUME RunsInv, HistInv, NEW r \in Run, AppendRecord(r)
  PROVE  HistInv'
<1> DEFINE s == [run[r] EXCEPT !.at = "signal"]
           e == RowOf("record", r, run[r].kept, None, run[r].over)
           n == Len(log) + 1
<1>1. /\ run[r] \in RunState /\ run[r].at = "record" /\ RunKnown(r)
      /\ log \in Seq(Row) /\ Len(log) \in Nat
  BY RunFacts DEF AppendRecord, HistInv
<1>2. /\ s.at = "signal" /\ s.again = run[r].again /\ s.chain = run[r].chain
      /\ s.kept = run[r].kept /\ s.pass = run[r].pass /\ s.stamp = run[r].stamp
      /\ s.scanned = run[r].scanned
  BY <1>1 DEF RunState
<1>3. /\ e \in Row /\ e.by = r /\ e.type = "record" /\ e.pass = run[r].kept
      /\ e.over = run[r].over
  BY <1>1 DEF RunState, RowOf, Row, Types
<1>4. log' = Append(log, e) /\ run' = [run EXCEPT ![r] = s] /\ head' = head /\ rewound' = rewound
  BY RunFacts DEF AppendRecord
<1> HIDE DEF s, e
<1>5. run'[r] = s /\ \A q \in Run \ {r} : run'[q] = run[q]
  BY <1>4, RunFacts
<1>6. /\ log'[n] = e /\ \A i \in 1 .. Len(log) : log'[i] = log[i]
      /\ \A i : i \in Records' <=> i \in Records \/ i = n
      /\ \A i : i \in Signals' <=> i \in Signals
  <2>1. /\ Len(log') = n /\ log'[n] = e /\ \A i \in 1 .. Len(log) : log'[i] = log[i]
        /\ \A i : i \in RowsOf("record", Len(log))' <=>
                    i \in RowsOf("record", Len(log)) \/ (i = n /\ e.type = "record")
    BY <1>1, <1>3, <1>4, RowsAppend
  <2>2. \A i : i \in RowsOf("signal", Len(log))' <=>
                    i \in RowsOf("signal", Len(log)) \/ (i = n /\ e.type = "signal")
    BY <1>1, <1>3, <1>4, RowsAppend
  <2> QED
    BY <1>3, <2>1, <2>2 DEF Records, Signals
<1>7. /\ \A i \in Records : log'[i] = log[i] /\ i < n /\ log[i].by \in Run \ {r}
      /\ \A i \in Signals : log'[i] = log[i] /\ log[i].by \in Run \ {r}
  <2>1. ~Has("record", r)
    BY <1>1 DEF RunKnown
  <2>2. /\ \A i \in Records : log[i].by # r
        /\ \A i \in Signals : log[i].by # r
    BY <2>1, SignalHasRecord DEF Has, Records
  <2> QED
    BY <1>1, <1>6, <2>2, RunFacts
<1>8. \A q \in Run : Has("record", q)' <=> Has("record", q) \/ q = r
  BY <1>3, <1>6, <1>7 DEF Has, Records
<1>9. ASSUME NEW q \in Run
      PROVE  RunKnown(q)'
  <2>1. CASE q = r
    <3>1. Stamped(r) => Stamped(r)'
      BY <1>1, <1>2, <1>4, <1>5 DEF Stamped
    <3> QED
      BY <1>1, <1>2, <1>5, <1>8, <2>1, <3>1 DEF RunKnown
  <2>2. CASE q # r
    <3>1. RunKnown(q) /\ run'[q] = run[q] /\ (Has("record", q)' <=> Has("record", q))
      BY <1>5, <1>8, <2>2 DEF HistInv
    <3>2. Stamped(q) => Stamped(q)'
      BY <1>4, <3>1 DEF Stamped
    <3>3. ASSUME NEW j \in Records
          PROVE  j \in Records' /\ log'[j] = log[j] /\ run'[log[j].by] = run[log[j].by]
      BY <1>5, <1>6, <1>7
    <3> QED
      BY <3>1, <3>2, <3>3 DEF RunKnown
  <2> QED
    BY <2>1, <2>2
<1>10. ASSUME NEW i \in Records'
       PROVE  RecordKnown(i)'
  <2>1. CASE i \in Records
    <3>1. RecordKnown(i) /\ log'[i] = log[i] /\ log[i].by # r /\ run'[log[i].by] = run[log[i].by]
      BY <1>5, <1>7, <2>1 DEF HistInv
    <3>2. \A j \in Records : /\ j \in Records' /\ log'[j] = log[j]
                             /\ run'[log[j].by] = run[log[j].by]
      BY <1>5, <1>6, <1>7
    <3>3. \A j \in Records' : log'[j].by = log'[i].by => j = i
      BY <1>3, <1>6, <3>1, <3>2 DEF RecordKnown
    <3> QED
      BY <3>1, <3>2, <3>3 DEF RecordKnown
  <2>2. CASE i = n
    <3>1. log'[i] = e /\ run'[log'[i].by] = s
      BY <1>3, <1>5, <1>6, <2>2
    <3>2. \A j \in Records' : log'[j].by = r => j = i
      BY <1>6, <1>7, <2>2
    <3>3. ASSUME run[r].over # None
          PROVE  \E j \in Records' : /\ j < i /\ log'[j].by = run[r].over
                                     /\ run'[log'[j].by].chain = s.chain
      <4>1. PICK j \in Records : log[j].by = run[r].over /\ run[log[j].by].chain = run[r].chain
        BY <1>1, <3>3 DEF RunKnown
      <4>2. j \in Records' /\ j < i /\ log'[j] = log[j] /\ run'[log[j].by] = run[log[j].by]
        BY <1>5, <1>6, <1>7, <2>2, <4>1
      <4> QED
        BY <1>2, <4>1, <4>2
    <3> QED
      BY <1>2, <1>3, <3>1, <3>2, <3>3 DEF RecordKnown
  <2> QED
    BY <1>6, <2>1, <2>2
<1>11. ASSUME NEW i \in Signals'
       PROVE  SignalKnown(i)'
  <2>1. i \in Signals /\ SignalKnown(i) /\ log'[i] = log[i] /\ run'[log[i].by] = run[log[i].by]
    BY <1>5, <1>6, <1>7 DEF HistInv
  <2>2. \A j \in Records : j \in Records' /\ log'[j] = log[j]
    BY <1>6, <1>7
  <2> QED
    BY <1>4, <2>1, <2>2 DEF SignalKnown
<1> QED
  BY <1>9, <1>10, <1>11 DEF HistInv

LEMMA SignalHist ==
  ASSUME RunsInv, HistInv, NEW r \in Run, AppendSignal(r)
  PROVE  HistInv'
<1> DEFINE s == [run[r] EXCEPT !.at = "done", !.stamp = 0]
           e == RowOf("signal", r, run[r].kept, run[r].stamp, None)
           n == Len(log) + 1
<1>1. /\ run[r] \in RunState /\ run[r].at = "signal" /\ RunKnown(r)
      /\ log \in Seq(Row) /\ Len(log) \in Nat /\ head \in Nat
  BY RunFacts DEF AppendSignal, HistInv
<1>2. /\ s \in RunState /\ s.at = "done" /\ s.again = run[r].again /\ s.chain = run[r].chain
      /\ s.kept = run[r].kept /\ s.pass = run[r].pass /\ s.scanned = run[r].scanned
  BY <1>1 DEF RunState
<1>3. e \in Row /\ e.by = r /\ e.type = "signal" /\ e.pass = run[r].kept /\ e.tree = run[r].stamp
  BY <1>1 DEF RunState, RowOf, Row, Types
<1>4. run' = [run EXCEPT ![r] = s] /\ head' = head /\ rewound' = rewound
  BY RunFacts DEF AppendSignal
<1>5. run'[r] = s /\ \A q \in Run \ {r} : run'[q] = run[q]
  BY <1>4, RunFacts
<1>6. log' = IF Has("signal", r) THEN log ELSE Append(log, e)
  BY DEF AppendSignal
<1> HIDE DEF s, e
<1>7. CASE Has("signal", r)
  <2>1. PICK i \in Signals : log[i].by = r
    BY <1>7 DEF Has, Signals
  <2>2. run[r].again
    BY <1>1, <2>1 DEF HistInv, SignalKnown
  <2>3. log' = log
    BY <1>6, <1>7
  <2>4. RunKnown(r)'
    BY <1>2, <1>5, <2>2 DEF RunKnown
  <2> QED
    BY <1>1, <1>2, <1>4, <2>2, <2>3, <2>4, HistMoves
<1>8. CASE ~Has("signal", r)
  <2>1. log' = Append(log, e)
    BY <1>6, <1>8
  <2>2. /\ log'[n] = e /\ \A i \in 1 .. Len(log) : log'[i] = log[i]
        /\ \A i : i \in Records' <=> i \in Records
        /\ \A i : i \in Signals' <=> i \in Signals \/ i = n
    <3>1. /\ Len(log') = n /\ log'[n] = e /\ \A i \in 1 .. Len(log) : log'[i] = log[i]
          /\ \A i : i \in RowsOf("record", Len(log))' <=>
                      i \in RowsOf("record", Len(log)) \/ (i = n /\ e.type = "record")
      BY <1>1, <1>3, <2>1, RowsAppend
    <3>2. \A i : i \in RowsOf("signal", Len(log))' <=>
                      i \in RowsOf("signal", Len(log)) \/ (i = n /\ e.type = "signal")
      BY <1>1, <1>3, <2>1, RowsAppend
    <3> QED
      BY <1>3, <3>1, <3>2 DEF Records, Signals
  <2>3. /\ \A i \in Records : log'[i] = log[i] /\ log[i].by \in Run
        /\ \A i \in Signals : log'[i] = log[i] /\ log[i].by \in Run \ {r}
    BY <1>8, <2>2, RunFacts DEF Has, Signals
  <2>4. \A q \in Run : Has("record", q)' <=> Has("record", q)
    BY <2>2, <2>3 DEF Has, Records
  <2>5. \A q \in Run : run'[q].chain = run[q].chain /\ run'[q].kept = run[q].kept
    BY <1>2, <1>5
  <2>6. ASSUME NEW q \in Run
        PROVE  RunKnown(q)'
    <3>1. CASE q = r
      BY <1>2, <1>5, <3>1 DEF RunKnown, Stamped
    <3>2. CASE q # r
      <4>1. RunKnown(q) /\ run'[q] = run[q]
        BY <1>5, <3>2 DEF HistInv
      <4>2. Stamped(q) => Stamped(q)'
        BY <1>4, <2>4, <4>1 DEF Stamped
      <4> QED
        BY <2>2, <2>3, <2>4, <2>5, <4>1, <4>2 DEF RunKnown
    <3> QED
      BY <3>1, <3>2
  <2>7. ASSUME NEW i \in Records'
        PROVE  RecordKnown(i)'
    <3>1. i \in Records /\ RecordKnown(i) /\ log'[i] = log[i] /\ log[i].by \in Run
      BY <2>2, <2>3 DEF HistInv
    <3>2. run'[log[i].by].at \notin {"new", "record"}
      BY <1>2, <1>5, <3>1 DEF RecordKnown
    <3> QED
      BY <2>2, <2>3, <2>5, <3>1, <3>2 DEF RecordKnown
  <2>8. ASSUME NEW i \in Signals'
        PROVE  SignalKnown(i)'
    <3>1. CASE i \in Signals
      <4>1. SignalKnown(i) /\ log'[i] = log[i] /\ run'[log[i].by] = run[log[i].by]
        BY <1>5, <2>3, <3>1 DEF HistInv
      <4> QED
        BY <1>4, <2>2, <2>3, <4>1 DEF SignalKnown
    <3>2. CASE i = n
      <4>1. log'[i] = e /\ run'[log'[i].by] = s
        BY <1>3, <1>5, <2>2, <3>2
      <4>2. PICK j \in Records : log[j].by = r
        BY <1>1 DEF RunKnown, Has, Records
      <4>3. j \in Records' /\ log'[j].by = r /\ log'[j].pass = run[r].kept
        BY <2>2, <2>3, <4>2 DEF HistInv, RecordKnown
      <4>4. ~run[r].again => /\ run[r].kept = run[r].pass
                             /\ (r \notin rewound => run[r].stamp <= run[r].scanned /\ run[r].scanned <= head)
        BY <1>1 DEF RunKnown, Stamped
      <4> QED
        BY <1>2, <1>3, <1>4, <4>1, <4>3, <4>4 DEF SignalKnown
    <3> QED
      BY <2>2, <3>1, <3>2
  <2> QED
    BY <2>6, <2>7, <2>8 DEF HistInv
<1> QED
  BY <1>7, <1>8

LEMMA RunHist ==
  ASSUME RunsInv, HistInv, NEW r \in Run, RunStep(r)
  PROVE  HistInv'
  BY BeginHist, ResubmitHist, ScanHist, DeriveHist, RecordHist, SignalHist, DiesHist
  DEF RunStep

-----------------------------------------------------------------------------
(***************************************************************************)
(* Runs one after the other.                                                *)
(***************************************************************************)
Alone == \A r \in Run : ~run[r].shared

Superseded(i) ==
  \E k \in Records : /\ run[log[k].by].chain = run[log[i].by].chain
                     /\ log[k].over = log[i].by

\* One run at a time; of the records of a chain all but one are superseded, and that
\* one is what a record that is about to be appended supersedes.
InTurn ==
  /\ \A r, q \in Run : InProgress(r) /\ InProgress(q) => r = q
  /\ \A i, j \in Records :
       i < j /\ run[log[i].by].chain = run[log[j].by].chain => Superseded(i)
  /\ \A r \in Run : run[r].at = "record" =>
       \A i \in OfChain(r) : run[r].over = log[i].by \/ Superseded(i)

TurnInv ==
  /\ \A r \in Run : run[r].at = "new" => ~run[r].shared
  /\ Alone => InTurn

\* A step of one run that adds no record.
LEMMA TurnMoves ==
  ASSUME RunsInv, HistInv, TurnInv, NEW r \in Run, NEW s \in RunState,
         run' = [run EXCEPT ![r] = s], Records' = Records,
         \A i \in Records : log'[i] = log[i],
         run[r].at # "new" => s.chain = run[r].chain,
         run[r].shared => s.shared, s.at # "new",
         s.at \notin {"done", "dead"} /\ ~InProgress(r) =>
           (s.shared <=> run[r].shared \/ \E q \in Run \ {r} : InProgress(q)),
         s.at = "record" /\ Alone =>
           /\ run[r].at # "new"
           /\ \A i \in OfChain(r) : s.over = log[i].by \/ Superseded(i)
  PROVE  TurnInv'
<1>1. run'[r] = s /\ \A q \in Run \ {r} : run'[q] = run[q]
  BY RunFacts
<1>2. \A i \in Records : log[i].by = r => run[r].at # "new"
  BY DEF HistInv, RecordKnown
<1>3. \A i \in Records : run'[log[i].by].chain = run[log[i].by].chain
  BY <1>1, <1>2, RunFacts
<1>4. \A i \in Records : Superseded(i) => Superseded(i)'
  BY <1>3 DEF Superseded
<1>5. \A q \in Run : run'[q].at = "new" => ~run'[q].shared
  BY <1>1 DEF TurnInv
<1>6. ASSUME Alone'
      PROVE  InTurn'
  <2>1. Alone /\ InTurn
    BY <1>1, <1>6 DEF Alone, TurnInv
  <2>2. ASSUME NEW p \in Run, NEW q \in Run, InProgress(p)', InProgress(q)'
        PROVE  p = q
    <3>1. \A o \in Run \ {r} : InProgress(o)' <=> InProgress(o)
      BY <1>1 DEF InProgress
    <3>2. InProgress(r)' => InProgress(r) \/ \A o \in Run \ {r} : ~InProgress(o)
      BY <1>1, <1>6 DEF Alone, InProgress
    <3> QED
      BY <2>1, <2>2, <3>1, <3>2 DEF InTurn
  <2>3. ASSUME NEW i \in Records', NEW j \in Records', i < j,
               run'[log'[i].by].chain = run'[log'[j].by].chain
        PROVE  Superseded(i)'
    <3>1. i \in Records /\ j \in Records /\ run[log[i].by].chain = run[log[j].by].chain
      BY <1>3, <2>3
    <3> QED
      BY <1>4, <2>1, <2>3, <3>1 DEF InTurn
  <2>4. ASSUME NEW q \in Run, run'[q].at = "record", NEW i \in OfChain(q)'
        PROVE  run'[q].over = log'[i].by \/ Superseded(i)'
    <3>1. i \in Records /\ log'[i] = log[i] /\ run[log[i].by].chain = run'[q].chain
      BY <1>3, <2>4 DEF OfChain
    <3>2. run[q].at # "new" /\ run'[q].chain = run[q].chain
      BY <1>1, <2>1, <2>4
    <3>3. i \in OfChain(q)
      BY <3>1, <3>2 DEF OfChain
    <3>4. run'[q].over = log[i].by \/ Superseded(i)
      BY <1>1, <2>1, <2>4, <3>3 DEF InTurn
    <3> QED
      BY <1>4, <3>1, <3>4
  <2> QED
    BY <2>2, <2>3, <2>4 DEF InTurn
<1> QED
  BY <1>5, <1>6 DEF TurnInv

\* What the next record of a chain supersedes, when nobody else runs.
LEMMA PredecessorLast ==
  ASSUME RunsInv, TurnInv, Alone, NEW r \in Run, NEW i \in OfChain(r)
  PROVE  Predecessor(r) = log[i].by \/ Superseded(i)
<1>1. InTurn
  BY DEF TurnInv
<1>2. CASE i \notin Standing(r)
  BY <1>2 DEF Standing, Superseded, OfChain
<1>3. CASE i \in Standing(r)
  <2>1. PICK k \in Standing(r) : log[k].by = Predecessor(r)
    BY <1>3, PredecessorKnown
  <2>2. k \in Records /\ i \in Records /\ i \in Nat /\ k \in Nat
        /\ run[log[k].by].chain = run[log[i].by].chain
    BY <2>1, RunFacts DEF Standing, OfChain
  <2>3. ~Superseded(k) \/ Superseded(i)
    BY <2>1, <2>2 DEF Standing, Superseded, OfChain
  <2>4. i = k \/ Superseded(i)
    BY <1>1, <2>2, <2>3 DEF InTurn
  <2> QED
    BY <2>1, <2>4
<1> QED
  BY <1>2, <1>3

LEMMA TurnStays ==
  ASSUME RunsInv, TurnInv, run' = run, Records' = Records, \A i \in Records : log'[i] = log[i]
  PROVE  TurnInv'
<1>1. \A i \in Records : Superseded(i)' <=> Superseded(i)
  BY DEF Superseded
<1>2. \A r \in Run : OfChain(r)' = OfChain(r)
  BY DEF OfChain
<1> QED
  BY <1>1, <1>2 DEF TurnInv, Alone, InTurn, InProgress, OfChain

LEMMA RecordTurn ==
  ASSUME RunsInv, HistInv, TurnInv, NEW r \in Run, AppendRecord(r)
  PROVE  TurnInv'
<1> DEFINE s == [run[r] EXCEPT !.at = "signal"]
           e == RowOf("record", r, run[r].kept, None, run[r].over)
           n == Len(log) + 1
<1>1. /\ run[r] \in RunState /\ run[r].at = "record" /\ log \in Seq(Row) /\ Len(log) \in Nat
      /\ InProgress(r)
  BY RunFacts DEF AppendRecord, InProgress
<1>2. s.at = "signal" /\ s.chain = run[r].chain /\ s.shared = run[r].shared
  BY <1>1 DEF RunState
<1>3. e \in Row /\ e.by = r /\ e.type = "record" /\ e.over = run[r].over
  BY <1>1 DEF RunState, RowOf, Row, Types
<1>4. log' = Append(log, e) /\ run' = [run EXCEPT ![r] = s]
  BY RunFacts DEF AppendRecord
<1> HIDE DEF s, e
<1>5. run'[r] = s /\ \A q \in Run \ {r} : run'[q] = run[q]
  BY <1>4, RunFacts
<1>6. /\ log'[n] = e /\ \A i \in Records : log'[i] = log[i] /\ i < n /\ log[i].by \in Run
      /\ \A i : i \in Records' <=> i \in Records \/ i = n
  <2>1. /\ log'[n] = e /\ \A i \in 1 .. Len(log) : log'[i] = log[i]
        /\ \A i : i \in RowsOf("record", Len(log))' <=>
                    i \in RowsOf("record", Len(log)) \/ (i = n /\ e.type = "record")
    BY <1>1, <1>3, <1>4, RowsAppend
  <2> QED
    BY <1>1, <1>3, <2>1, RunFacts DEF Records
<1>7. \A q \in Run : run'[q].chain = run[q].chain /\ run'[q].shared = run[q].shared
                     /\ (InProgress(q)' <=> InProgress(q))
  BY <1>1, <1>2, <1>5 DEF InProgress
<1>8. \A i \in Records : Superseded(i) => Superseded(i)'
  BY <1>6, <1>7 DEF Superseded
<1>9. ASSUME Alone'
      PROVE  InTurn'
  <2>1. InTurn
    BY <1>7, <1>9 DEF Alone, TurnInv
  <2>2. ASSUME NEW i \in Records, run[log[i].by].chain = run[r].chain
        PROVE  Superseded(i)'
    <3>1. i \in OfChain(r)
      BY <2>2 DEF OfChain
    <3>2. CASE run[r].over = log[i].by
      <4>1. n \in Records' /\ log'[n].over = log'[i].by /\ log'[n].by = r
        BY <1>3, <1>6, <3>2
      <4>2. run'[log'[n].by].chain = run'[log'[i].by].chain
        BY <1>6, <1>7, <2>2, <4>1
      <4> QED
        BY <4>1, <4>2 DEF Superseded
    <3> QED
      BY <1>1, <1>8, <2>1, <3>1, <3>2 DEF InTurn
  <2>3. ASSUME NEW i \in Records', NEW j \in Records', i < j,
               run'[log'[i].by].chain = run'[log'[j].by].chain
        PROVE  Superseded(i)'
    <3>0. /\ i \in Records \/ i = n
          /\ j \in Records \/ j = n
      BY <1>6
    <3>1. i \in Records
      BY <1>1, <1>6, <2>3, <3>0, RunFacts
    <3>2. CASE j = n
      <4>1. run[log[i].by].chain = run[r].chain
        BY <1>3, <1>6, <1>7, <2>3, <3>1, <3>2
      <4> QED
        BY <2>2, <3>1, <4>1
    <3>3. CASE j \in Records
      <4>1. run[log[i].by].chain = run[log[j].by].chain
        BY <1>6, <1>7, <2>3, <3>1, <3>3
      <4> QED
        BY <1>8, <2>1, <2>3, <3>1, <3>3, <4>1 DEF InTurn
    <3> QED
      BY <3>0, <3>2, <3>3
  <2>4. \A q \in Run : run'[q].at # "record"
    <3>1. \A q \in Run : run[q].at = "record" => InProgress(q)
      BY DEF InProgress
    <3> QED
      BY <1>1, <1>2, <1>5, <2>1, <3>1 DEF InTurn
  <2> QED
    BY <1>7, <2>1, <2>3, <2>4 DEF InTurn
<1>10. \A q \in Run : run'[q].at = "new" => ~run'[q].shared
  BY <1>2, <1>5 DEF TurnInv
<1> QED
  BY <1>9, <1>10 DEF TurnInv

LEMMA RunTurn ==
  ASSUME RunsInv, HistInv, TurnInv, NEW r \in Run, RunStep(r)
  PROVE  TurnInv'
<1>1. /\ run[r] \in RunState /\ head \in Nat /\ run \in [Run -> RunState]
      /\ Predecessor(r) \in Run \cup {None} /\ clock \in Nat
  BY RunFacts, PredecessorTyped DEF RunsInv, RunsTypeOK
<1>2. log' = log => Records' = Records /\ \A i \in Records : log'[i] = log[i]
  BY DEF Records, RowsOf
<1>3. ASSUME NEW c \in Chain, Begin(r, c) PROVE TurnInv'
  <2> DEFINE s == [run[r] EXCEPT !.at = "scan", !.chain = c, !.stamp = head,
                                 !.shared = \E q \in Run \ {r} : InProgress(q)]
  <2>1. s \in RunState /\ s.at = "scan" /\ (s.shared <=> \E q \in Run \ {r} : InProgress(q))
    BY <1>1 DEF RunState
  <2>2. run' = [run EXCEPT ![r] = s] /\ log' = log /\ run[r].at = "new"
    BY <1>1, <1>3 DEF Begin
  <2> HIDE DEF s
  <2>3. ~run[r].shared
    BY <2>2 DEF TurnInv
  <2> QED
    BY <1>2, <2>1, <2>2, <2>3, TurnMoves
<1>4. CASE Resubmit(r)
  <2> DEFINE s == [run[r] EXCEPT !.at = "scan", !.stamp = head, !.again = TRUE,
                     !.shared = @ \/ \E q \in Run \ {r} : InProgress(q)]
  <2>1. /\ s \in RunState /\ s.at = "scan" /\ s.chain = run[r].chain
        /\ s.shared <=> run[r].shared \/ \E q \in Run \ {r} : InProgress(q)
    BY <1>1 DEF RunState
  <2>2. run' = [run EXCEPT ![r] = s] /\ log' = log /\ run[r].at = "dead"
    BY <1>1, <1>4 DEF Resubmit
  <2> HIDE DEF s
  <2> QED
    BY <1>2, <2>1, <2>2, TurnMoves
<1>5. CASE Scan(r)
  <2>1. PICK ok \in BOOLEAN :
          run' = [run EXCEPT ![r].at = "derive", ![r].scanned = head, ![r].pass = ok]
    BY <1>5 DEF Scan
  <2> DEFINE s == [run[r] EXCEPT !.at = "derive", !.scanned = head, !.pass = ok]
  <2>2. s \in RunState /\ s.at = "derive" /\ s.chain = run[r].chain /\ s.shared = run[r].shared
    BY <1>1 DEF RunState
  <2>3. run' = [run EXCEPT ![r] = s] /\ log' = log /\ InProgress(r)
    BY <1>1, <1>5, <2>1 DEF Scan, InProgress
  <2> HIDE DEF s
  <2> QED
    BY <1>2, <2>2, <2>3, TurnMoves
<1>6. CASE Derive(r)
  <2>1. CASE Has("record", r)
    <3> DEFINE s == [run[r] EXCEPT !.at = "signal"]
    <3>1. s \in RunState /\ s.at = "signal" /\ s.chain = run[r].chain /\ s.shared = run[r].shared
      BY <1>1 DEF RunState
    <3>2. run' = [run EXCEPT ![r] = s] /\ log' = log /\ InProgress(r)
      BY <1>1, <1>6, <2>1 DEF Derive, InProgress
    <3> HIDE DEF s
    <3> QED
      BY <1>2, <3>1, <3>2, TurnMoves
  <2>2. CASE ~Has("record", r)
    <3> DEFINE q == run[r]
               s == [at |-> "record", chain |-> q.chain, stamp |-> q.stamp,
                     scanned |-> q.scanned, pass |-> q.pass, kept |-> q.pass,
                     over |-> Predecessor(r), born |-> clock + 1, again |-> q.again,
                     shared |-> q.shared]
    <3>1. /\ s \in RunState /\ s.at = "record" /\ s.chain = q.chain /\ s.shared = q.shared
          /\ s.over = Predecessor(r)
      BY <1>1 DEF RunState
    <3>2. run' = [run EXCEPT ![r] = s] /\ log' = log /\ InProgress(r) /\ q.at = "derive"
      BY <1>1, <1>6, <2>2 DEF Derive, RunState, InProgress
    <3> HIDE DEF s
    <3>3. Alone => \A i \in OfChain(r) : s.over = log[i].by \/ Superseded(i)
      BY <3>1, PredecessorLast
    <3> QED
      BY <1>2, <3>1, <3>2, <3>3, TurnMoves
  <2> QED
    BY <2>1, <2>2
<1>7. CASE AppendSignal(r)
  <2> DEFINE s == [run[r] EXCEPT !.at = "done", !.stamp = 0]
             e == RowOf("signal", r, run[r].kept, run[r].stamp, None)
  <2>1. s \in RunState /\ s.at = "done" /\ s.chain = run[r].chain /\ s.shared = run[r].shared
    BY <1>1 DEF RunState
  <2>2. run' = [run EXCEPT ![r] = s] /\ InProgress(r)
    BY <1>1, <1>7 DEF AppendSignal, InProgress
  <2>3. e \in Row /\ e.type = "signal"
    BY <1>1 DEF RunState, RowOf, Row, Types
  <2>4. log' = log \/ log' = Append(log, e)
    BY <1>7 DEF AppendSignal
  <2> HIDE DEF s, e
  <2>5. Records' = Records /\ \A i \in Records : log'[i] = log[i]
    <3>1. CASE log' = Append(log, e)
      <4>1. /\ \A i \in 1 .. Len(log) : log'[i] = log[i]
            /\ \A i : i \in RowsOf("record", Len(log))' <=> i \in RowsOf("record", Len(log))
        BY <2>3, <3>1, RunFacts, RowsAppend
      <4> QED
        BY <4>1, RunFacts DEF Records
    <3> QED
      BY <1>2, <2>4, <3>1
  <2> QED
    BY <2>1, <2>2, <2>5, TurnMoves
<1>8. CASE RunDies(r)
  <2> DEFINE s == [run[r] EXCEPT !.at = "dead"]
  <2>1. s \in RunState /\ s.at = "dead" /\ s.chain = run[r].chain /\ s.shared = run[r].shared
    BY <1>1 DEF RunState
  <2>2. run' = [run EXCEPT ![r] = s] /\ log' = log /\ InProgress(r)
    BY <1>1, <1>8 DEF RunDies, InProgress
  <2> HIDE DEF s
  <2> QED
    BY <1>2, <2>1, <2>2, TurnMoves
<1> QED
  BY <1>3, <1>4, <1>5, <1>6, <1>7, <1>8, RecordTurn DEF RunStep

-----------------------------------------------------------------------------
(***************************************************************************)
(* Every step is of a run or leaves the runs alone.                         *)
(***************************************************************************)
\* The runs, the tree and the rows of the runs stay.
Apart ==
  /\ run' = run /\ head' = head /\ rewound' = rewound
  /\ \/ log' = log
     \/ \E e \in Row : log' = Append(log, e) /\ e.type \notin {"record", "signal"}

LEMMA CallApart ==
  ASSUME TaskInv, NEW c \in Call,
         ClaimStep(c) \/ CompleteStep(c) \/ AppendFailure(c) \/ CallDies(c)
  PROVE  Apart
<1>1. call[c].tree \in Nat \cup {None}
  BY CallFacts DEF CallState
<1>2. ASSUME NEW type \in {"claimed", "failed"}
      PROVE  RowOf(type, c, FALSE, None, None) \in Row
             /\ RowOf(type, c, FALSE, None, None).type = type
  BY DEF RowOf, Row, Types
<1>3. RowOf("completed", c, FALSE, call[c].tree, None) \in Row
      /\ RowOf("completed", c, FALSE, call[c].tree, None).type = "completed"
  BY <1>1 DEF RowOf, Row, Types
<1>4. CASE AppendClaim(c)
  BY <1>2, <1>4 DEF AppendClaim, Apart
<1>5. CASE AppendFailure(c)
  BY <1>2, <1>5 DEF AppendFailure, Apart
<1>6. CASE AppendCompleted(c)
  BY <1>3, <1>6 DEF AppendCompleted, Apart
<1>7. CASE FoldForClaim(c) \/ ReadRaw(c) \/ CallDies(c)
  BY <1>7 DEF FoldForClaim, ReadRaw, CallDies, Apart
<1>8. CASE CompleteStep(c) /\ ~AppendCompleted(c)
  BY <1>8 DEF CompleteStep, StartComplete, PinTail, ReadStored, ReadFailures, ReadPrepared,
    ReadRevisions, ReadSignals, ReadRecords, JudgeTree, ReadDocument, WriteDocument, Apart
<1> QED
  BY <1>4, <1>5, <1>6, <1>7, <1>8 DEF ClaimStep

LEMMA StepApart ==
  ASSUME TaskInv, [Next]_vars, ~RunsNext
  PROVE  Apart
<1>1. ASSUME NEW type \in {"assigned", "progressed", "prepared", "revised"}, Report(type)
      PROVE  Apart
  <2>1. RowOf(type, None, FALSE, None, None) \in Row
        /\ RowOf(type, None, FALSE, None, None).type = type
    BY DEF RowOf, Row, Types
  <2> QED
    BY <1>1, <2>1 DEF Report, Apart
<1>2. CASE WriteElsewhere \/ UNCHANGED vars
  BY <1>2 DEF WriteElsewhere, vars, Apart
<1>3. Claimer \subseteq Call /\ Failer \subseteq Call /\ Completer \subseteq Call
  BY DEF Call
<1>4. ASSUME NEW c \in Call,
             ClaimStep(c) \/ CompleteStep(c) \/ AppendFailure(c) \/ CallDies(c)
      PROVE  Apart
  BY <1>4, CallApart
<1>5. \/ \E c \in Claimer : ClaimStep(c)
      \/ \E c \in Failer : AppendFailure(c)
      \/ \E c \in Completer : CompleteStep(c)
      \/ \E c \in Call : CallDies(c)
      \/ \E type \in {"assigned", "progressed", "prepared", "revised"} : Report(type)
      \/ WriteElsewhere \/ UNCHANGED vars
  BY DEF Next, Outside, Finished
<1> QED
  BY <1>1, <1>2, <1>3, <1>4, <1>5

LEMMA ApartGrows ==
  ASSUME RunsInv, Apart
  PROVE  /\ Grown /\ Records' = Records /\ Signals' = Signals
         /\ \A i \in Records \cup Signals : log'[i] = log[i]
<1>1. CASE log' = log
  BY <1>1, RunFacts DEF Grown, Records, Signals, RowsOf
<1>2. ASSUME NEW e \in Row, log' = Append(log, e), e.type \notin {"record", "signal"}
      PROVE  /\ Grown /\ Records' = Records /\ Signals' = Signals
             /\ \A i \in Records \cup Signals : log'[i] = log[i]
  <2>1. /\ Len(log') = Len(log) + 1 /\ \A i \in 1 .. Len(log) : log'[i] = log[i]
        /\ \A i : i \in RowsOf("record", Len(log))' <=> i \in RowsOf("record", Len(log))
    BY <1>2, RunFacts, RowsAppend
  <2>2. \A i : i \in RowsOf("signal", Len(log))' <=> i \in RowsOf("signal", Len(log))
    BY <1>2, RunFacts, RowsAppend
  <2>3. Grown
    BY <2>1, RunFacts DEF Grown
  <2>4. Records' = Records /\ Signals' = Signals
    BY <2>1, <2>2 DEF Records, Signals
  <2> QED
    BY <2>1, <2>3, <2>4, RunFacts
<1> QED
  BY <1>1, <1>2 DEF Apart

\* Every step leaves the rows there are.
LEMMA StepGrows == ASSUME TaskInv, [Next]_vars PROVE Grown
<1>1. RunsInv
  BY DEF TaskInv
<1>2. CASE RunsNext
  BY <1>1, <1>2, RunStepInv, AgentInv DEF RunsNext
<1> QED
  BY <1>1, <1>2, StepApart, ApartGrows

LEMMA InitHist == ASSUME Init PROVE HistInv /\ TurnInv
<1>1. Len(log) = 0 /\ Records = {} /\ Signals = {}
  BY DEF Init, RunsInit, Records, Signals, RowsOf
<1>2. \A r \in Run : /\ run[r].at = "new" /\ ~run[r].shared /\ ~Has("record", r)
                     /\ ~InProgress(r)
  BY <1>1 DEF Init, RunsInit, Has, RowsOf, InProgress
<1>3. HistInv
  BY <1>1, <1>2 DEF HistInv, RunKnown, Stamped
<1>4. TurnInv
  BY <1>1, <1>2 DEF TurnInv, InTurn
<1> QED
  BY <1>3, <1>4

LEMMA NextHist ==
  ASSUME TaskInv, HistInv, TurnInv, [Next]_vars
  PROVE  HistInv' /\ TurnInv'
<1>1. RunsInv /\ head \in Nat
  BY RunFacts DEF TaskInv
<1>2. ASSUME NEW r \in Run, RunStep(r)
      PROVE  HistInv' /\ TurnInv'
  BY <1>1, <1>2, RunHist, RunTurn
<1>3. CASE Edit \/ Commit \/ Checkout
  <2>1. run' = run /\ log' = log
    BY <1>3 DEF Edit, Commit, Checkout
  <2>2. HeadMoves
    <3>1. newest \in Nat /\ head \in 0 .. newest
      BY <1>1 DEF RunsInv, RunsTypeOK
    <3>2. CASE Edit
      BY <3>1, <3>2 DEF Edit, HeadMoves
    <3>3. CASE Commit
      BY <3>1, <3>3 DEF Commit, HeadMoves
    <3>4. CASE Checkout
      BY <3>1, <3>4 DEF Checkout, HeadMoves
    <3> QED
      BY <1>3, <3>2, <3>3, <3>4
  <2>3. HistInv'
    BY <1>1, <2>1, <2>2, HistStays
  <2>4. Records' = Records
    BY <2>1 DEF Records, RowsOf
  <2> QED
    BY <1>1, <2>1, <2>3, <2>4, TurnStays
<1>4. CASE ~RunsNext
  <2>1. Apart
    BY <1>4, StepApart
  <2>2. HistInv'
    BY <1>1, <2>1, HistStays DEF Apart, HeadMoves
  <2> QED
    BY <1>1, <2>1, <2>2, ApartGrows, TurnStays DEF Apart
<1> QED
  BY <1>2, <1>3, <1>4 DEF RunsNext

\* The gate accepts when the last run of each chain passed and signalled.
LEMMA Cleared == ASSUME RunsInv, HistInv, TurnInv PROVE RerunsClear
<1> DEFINE n == Len(log)
           chainOf(i) == run[log[i].by].chain
           latest == {i \in Records : \A j \in Records : chainOf(j) = chainOf(i) => j <= i}
           sig == LastOf("signal", n)
           rec == LastOf("record", n)
<1> SUFFICES ASSUME latest # {}, \A i \in latest : log[i].pass, sig # 0,
                    log[sig].by = log[rec].by, Alone
             PROVE  Passes(sig, n)
  BY DEF RerunsClear, Alone, Records
<1>1. InTurn
  BY DEF TurnInv
<1>2. n \in Nat /\ Records \subseteq 1 .. n
  BY RunFacts DEF Records, RowsOf
<1>3. rec \in Records /\ \A i \in Records : i <= rec
  <2>1. PICK i \in Records : TRUE
    OBVIOUS
  <2>2. rec \in Records \cup {0} /\ \A j \in Records : j <= rec
    BY <1>2, LastRow DEF Records
  <2>3. i <= rec /\ i >= 1
    BY <1>2, <2>2
  <2> QED
    BY <1>2, <2>2, <2>3
<1>4. sig \in Signals
  BY <1>2, LastRow DEF Signals
<1> HIDE DEF rec, sig
<1>5. \A i \in Active(n) : log[i].pass
  <2> SUFFICES ASSUME NEW i \in Active(n) PROVE log[i].pass
    OBVIOUS
  <2>1. i \in Records /\ \A j \in Records : log[j].over # log[i].by
    BY DEF Active, Records
  <2>2. ASSUME NEW j \in Records, chainOf(j) = chainOf(i)
        PROVE  j <= i
    <3>1. ~Superseded(i)
      BY <2>1 DEF Superseded
    <3> QED
      BY <1>1, <1>2, <2>1, <2>2, <3>1 DEF InTurn
  <2> QED
    BY <2>1, <2>2
<1>6. rec \in Active(n)
  <2> SUFFICES ASSUME NEW k \in Records, log[k].over = log[rec].by PROVE FALSE
    BY <1>3 DEF Active, Records
  <2>1. log[rec].by # None
    BY <1>3, RunFacts
  <2>2. PICK j \in Records : j < k /\ log[j].by = log[rec].by
    BY <2>1 DEF HistInv, RecordKnown
  <2>3. j = rec
    BY <1>3, <2>2 DEF HistInv, RecordKnown
  <2> QED
    BY <1>2, <1>3, <2>2, <2>3
<1>7. log[sig].pass
  <2>1. PICK j \in Records : log[j].by = log[sig].by /\ log[j].pass = log[sig].pass
    BY <1>4 DEF HistInv, SignalKnown
  <2>2. j = rec
    BY <1>3, <2>1 DEF HistInv, RecordKnown
  <2> QED
    BY <1>5, <1>6, <2>1, <2>2
<1> QED
  BY <1>5, <1>6, <1>7 DEF Passes

-----------------------------------------------------------------------------
(***************************************************************************)
(* The commit of a completion was at HEAD of the checks.  A run that is over without a    *)
(* resubmission changes no more, so what its signal says of the commit      *)
(* stays so until the completion compares the tree.                         *)
(***************************************************************************)
\* The run of signal s was resubmitted, its HEAD went back, or it passed with commit t
\* at HEAD.
Vouched(s, t) ==
  LET q == run[log[s].by]
  IN  q.again \/ log[s].by \in rewound \/ (t = q.scanned /\ q.pass)

CallChecked(k) ==
  /\ k.at \in {"records", "tree", "append"} => k.signal \in {0} \cup Signals
  /\ k.at \in {"tree", "append"} => k.signal # 0 /\ log[k.signal].pass
  /\ k.at = "append" /\ k.tree # None => Vouched(k.signal, k.tree)

RowChecked(i) == log[i].tree # None => Vouched(LastOf("signal", i - 1), log[i].tree)

CheckInv ==
  /\ \A c \in Call : CallChecked(call[c])
  /\ \A i \in Completions : RowChecked(i)

\* A run that is over stays as it is, and a resubmitted one remains so.
RunsKeep ==
  /\ \A r \in Run :
       /\ run[r].again => run'[r].again
       /\ run[r].at = "done" => run'[r] = run[r]
  /\ rewound \subseteq rewound'

LEMMA StepKeeps == ASSUME TaskInv, [Next]_vars PROVE RunsKeep
<1>1. run \in [Run -> RunState]
  BY DEF TaskInv, RunsInv, RunsTypeOK
<1>2. ASSUME NEW r \in Run, RunStep(r)
      PROVE  RunsKeep
  <2>1. run[r].at # "done"
    BY <1>2 DEF RunStep, Begin, Resubmit, Scan, Derive, AppendRecord, AppendSignal, RunDies,
      InProgress
  <2>2. \A q \in Run \ {r} : run'[q] = run[q]
    BY <1>1, <1>2 DEF RunStep, Begin, Resubmit, Scan, Derive, AppendRecord, AppendSignal,
      RunDies
  <2>3. run[r].again => run'[r].again
    <3>1. run[r] \in RunState
      BY <1>1
    <3>2. CASE Scan(r) \/ RunDies(r) \/ AppendRecord(r) \/ AppendSignal(r)
      BY <1>1, <3>1, <3>2 DEF Scan, RunDies, AppendRecord, AppendSignal, RunState
    <3>3. CASE Derive(r)
      BY <1>1, <3>1, <3>3 DEF Derive, RunState
    <3>4. ASSUME NEW c \in Chain, Begin(r, c) PROVE run[r].again => run'[r].again
      BY <1>1, <3>1, <3>4 DEF Begin, RunState
    <3>5. CASE Resubmit(r)
      BY <1>1, <3>1, <3>5 DEF Resubmit, RunState
    <3> QED
      BY <1>2, <3>2, <3>3, <3>4, <3>5 DEF RunStep
  <2>4. rewound' = rewound
    BY <1>2 DEF RunStep, Begin, Resubmit, Scan, Derive, AppendRecord, AppendSignal, RunDies
  <2> QED
    BY <2>1, <2>2, <2>3, <2>4 DEF RunsKeep
<1>3. CASE Edit \/ Commit \/ Checkout
  BY <1>3 DEF Edit, Commit, Checkout, RunsKeep
<1>4. CASE ~RunsNext
  BY <1>4, StepApart DEF Apart, RunsKeep
<1> QED
  BY <1>2, <1>3, <1>4 DEF RunsNext

LEMMA VouchedStays ==
  ASSUME RunsInv, HistInv, Grown, RunsKeep, NEW s \in Signals, NEW t, Vouched(s, t)
  PROVE  Vouched(s, t)'
<1>1. log'[s] = log[s] /\ log[s].by \in Run
  BY RunFacts DEF Grown
<1>2. ~run[log[s].by].again => run[log[s].by].at = "done"
  BY DEF HistInv, SignalKnown
<1>3. run[log[s].by].again => run'[log[s].by].again
  BY <1>1 DEF RunsKeep
<1>4. ~run[log[s].by].again => run'[log[s].by] = run[log[s].by]
  BY <1>1, <1>2 DEF RunsKeep
<1>5. log[s].by \in rewound => log[s].by \in rewound'
  BY DEF RunsKeep
<1> QED
  BY <1>1, <1>3, <1>4, <1>5 DEF Vouched

LEMMA CallCheckedStays ==
  ASSUME RunsInv, HistInv, Grown, RunsKeep, NEW k, CallChecked(k)
  PROVE  CallChecked(k)'
<1>1. Signals \subseteq Signals' /\ \A s \in Signals : s # 0 /\ log'[s] = log[s]
  BY RunFacts DEF Grown, Signals, RowsOf
<1>2. k.at = "append" /\ k.tree # None => Vouched(k.signal, k.tree)'
  <2> SUFFICES ASSUME k.at = "append", k.tree # None PROVE Vouched(k.signal, k.tree)'
    OBVIOUS
  <2>1. k.signal \in Signals /\ Vouched(k.signal, k.tree)
    BY DEF CallChecked
  <2> QED
    BY <2>1, VouchedStays
<1> QED
  BY <1>1, <1>2 DEF CallChecked

\* The signal that a completion rests on.
LEMMA StoodSignal ==
  ASSUME TaskInv, NEW i \in Completions
  PROVE  /\ i \in 1 .. Len(log) /\ i - 1 \in 0 .. Len(log)
         /\ LastOf("signal", i - 1) \in Signals
<1>1. i \in 1 .. Len(log) /\ Len(log) \in Nat /\ Stood(i)
  BY DEF TaskInv, RunsInv, RunsTypeOK, Completions, RowsOf
<1>2. i - 1 \in Nat /\ i - 1 \in 0 .. Len(log)
  BY <1>1
<1>3. LastOf("signal", i - 1) \in RowsOf("signal", i - 1) \cup {0}
  BY <1>2, LastRow
<1>4. LastOf("signal", i - 1) # 0
  BY <1>1 DEF Stood, Passes
<1>5. RowsOf("signal", i - 1) \subseteq Signals
  BY <1>1, <1>2 DEF RowsOf, Signals
<1> QED
  BY <1>1, <1>2, <1>3, <1>4, <1>5

LEMMA RowCheckedStays ==
  ASSUME TaskInv, HistInv, Grown, RunsKeep, NEW i \in Completions, RowChecked(i)
  PROVE  RowChecked(i)'
<1>1. /\ RunsInv /\ Len(log) \in Nat /\ i \in 1 .. Len(log) /\ i - 1 \in 0 .. Len(log)
      /\ LastOf("signal", i - 1) \in Signals
  BY StoodSignal DEF TaskInv, RunsInv, RunsTypeOK
<1>2. log'[i] = log[i]
  BY <1>1 DEF Grown
<1>3. PICK n \in 0 .. Len(log) : n = i - 1
  BY <1>1
<1>4. LastOf("signal", n)' = LastOf("signal", n)
  BY <1>1, PrefixStays
<1>5. PICK s \in Signals : s = LastOf("signal", n)
  BY <1>1, <1>3
<1>6. Vouched(s, log[i].tree) => Vouched(s, log[i].tree)'
  <2>1. PICK t : t = log[i].tree
    OBVIOUS
  <2>2. Vouched(s, t) => Vouched(s, t)'
    BY <1>1, VouchedStays
  <2>3. Vouched(s, t) <=> Vouched(s, log[i].tree)
    BY <2>1 DEF Vouched
  <2>4. Vouched(s, t)' <=> Vouched(s, log[i].tree)'
    BY <2>1, <1>2 DEF Vouched
  <2> QED
    BY <2>2, <2>3, <2>4
<1>7. RowChecked(i) <=> (log[i].tree # None => Vouched(s, log[i].tree))
  BY <1>3, <1>5 DEF RowChecked
<1>8. RowChecked(i)' <=> (log'[i].tree # None => Vouched(s, log[i].tree)')
  BY <1>2, <1>3, <1>4, <1>5 DEF RowChecked, Vouched
<1> QED
  BY <1>2, <1>6, <1>7, <1>8

\* Only AppendCompleted adds a completion.
LEMMA NewCompletion ==
  ASSUME TaskInv, [Next]_vars, NEW i \in Completions', i \notin Completions
  PROVE  \E c \in Completer :
           /\ AppendCompleted(c) /\ Len(log) = call[c].tail /\ i = Len(log) + 1
           /\ log' = Append(log, RowOf("completed", c, FALSE, call[c].tree, None))
<1>1. log \in Seq(Row) /\ RunsInv
  BY DEF TaskInv, RunsInv, RunsTypeOK
<1>2. ASSUME NEW e \in Row, log' = Append(log, e) PROVE e.type = "completed" /\ i = Len(log) + 1
  BY <1>1, <1>2, RowsAppend DEF Completions
<1>3. log' # log
  BY DEF Completions, RowsOf
<1>4. CASE RunsNext
  <2>1. PICK r \in Run : RunStep(r)
    BY <1>3, <1>4 DEF RunsNext, Edit, Commit, Checkout
  <2>2. run[r].kept \in BOOLEAN /\ run[r].stamp \in Nat /\ run[r].over \in Run \cup {None}
    BY <1>1 DEF RunsInv, RunsTypeOK, RunState
  <2>3. \E e \in Row : log' = Append(log, e) /\ e.type \in {"record", "signal"}
    <3>1. /\ RowOf("record", r, run[r].kept, None, run[r].over) \in Row
          /\ RowOf("signal", r, run[r].kept, run[r].stamp, None) \in Row
      BY <2>2, RowTyped DEF Types
    <3>2. /\ RowOf("record", r, run[r].kept, None, run[r].over).type = "record"
          /\ RowOf("signal", r, run[r].kept, run[r].stamp, None).type = "signal"
      BY DEF RowOf
    <3>3. \/ log' = Append(log, RowOf("record", r, run[r].kept, None, run[r].over))
          \/ log' = Append(log, RowOf("signal", r, run[r].kept, run[r].stamp, None))
      BY <1>3, <2>1 DEF RunStep, Begin, Resubmit, Scan, Derive, AppendRecord, AppendSignal,
        RunDies
    <3> QED
      BY <3>1, <3>2, <3>3
  <2> QED
    BY <1>2, <2>3
<1>5. ASSUME NEW type \in {"assigned", "progressed", "prepared", "revised"}, Report(type)
      PROVE  FALSE
  <2>1. RowOf(type, None, FALSE, None, None) \in Row
        /\ RowOf(type, None, FALSE, None, None).type # "completed"
    BY DEF RowOf, Row, Types
  <2> QED
    BY <1>2, <1>5, <2>1 DEF Report
<1>6. ASSUME NEW c \in Call, NEW type \in {"claimed", "failed"},
             log' = Append(log, RowOf(type, c, FALSE, None, None))
      PROVE  FALSE
  <2>1. RowOf(type, c, FALSE, None, None) \in Row
        /\ RowOf(type, c, FALSE, None, None).type # "completed"
    BY DEF RowOf, Row, Types
  <2> QED
    BY <1>2, <1>6, <2>1
<1>7. ASSUME NEW c \in Call, ClaimStep(c) \/ AppendFailure(c) \/ CallDies(c)
      PROVE  FALSE
  BY <1>3, <1>6, <1>7 DEF ClaimStep, FoldForClaim, ReadRaw, AppendClaim, AppendFailure, CallDies
<1>8. ASSUME NEW c \in Completer, CompleteStep(c)
      PROVE  /\ AppendCompleted(c) /\ Len(log) = call[c].tail
             /\ log' = Append(log, RowOf("completed", c, FALSE, call[c].tree, None))
             /\ i = Len(log) + 1
  <2>1. AppendCompleted(c)
    BY <1>3, <1>8 DEF CompleteStep, StartComplete, PinTail, ReadStored, ReadFailures,
      ReadPrepared, ReadRevisions, ReadSignals, ReadRecords, JudgeTree, ReadDocument,
      WriteDocument
  <2>2. /\ Len(log) = call[c].tail
        /\ log' = Append(log, RowOf("completed", c, FALSE, call[c].tree, None))
    BY <1>3, <2>1 DEF AppendCompleted
  <2>3. call[c].tree \in Nat \cup {None}
    BY CallFacts DEF CallState, Call
  <2>4. RowOf("completed", c, FALSE, call[c].tree, None) \in Row
    BY <2>3 DEF RowOf, Row, Types, Call
  <2> QED
    BY <1>2, <2>1, <2>2, <2>4
<1>9. Claimer \subseteq Call /\ Failer \subseteq Call /\ Completer \subseteq Call
  BY DEF Call
<1>10. CASE WriteElsewhere \/ UNCHANGED vars
  BY <1>3, <1>10 DEF WriteElsewhere, vars
<1>11. \/ RunsNext
       \/ \E c \in Claimer : ClaimStep(c)
       \/ \E c \in Failer : AppendFailure(c)
       \/ \E c \in Completer : CompleteStep(c)
       \/ \E c \in Call : CallDies(c)
       \/ \E type \in {"assigned", "progressed", "prepared", "revised"} : Report(type)
       \/ WriteElsewhere \/ UNCHANGED vars
  BY DEF Next, Outside, Finished
<1> QED
  BY <1>4, <1>5, <1>7, <1>8, <1>9, <1>10, <1>11

\* A call that moves while log and runs stay.
LEMMA CheckMoves ==
  ASSUME TaskInv, HistInv, CheckInv, NEW c \in Call, NEW k, CallChecked(k),
         call' = [call EXCEPT ![c] = k], log' = log, run' = run, rewound' = rewound
  PROVE  CheckInv'
<1>1. RunsInv /\ call \in [Call -> CallState] /\ Len(log) \in Nat
  BY DEF TaskInv, CallsTyped, RunsInv, RunsTypeOK
<1>2. Grown /\ RunsKeep
  BY <1>1 DEF Grown, RunsKeep
<1>3. ASSUME NEW d \in Call
      PROVE  CallChecked(call[d])'
  <2>1. PICK m : m = call'[d] /\ CallChecked(m)
    BY <1>1 DEF CheckInv
  <2>2. CallChecked(m)'
    BY <1>1, <1>2, <2>1, CallCheckedStays
  <2> QED
    BY <2>1, <2>2 DEF CallChecked, Vouched
<1>4. Completions' = Completions
  BY DEF Completions, RowsOf
<1> QED
  BY <1>2, <1>3, <1>4, RowCheckedStays DEF CheckInv

\* What a completion does to its call, when it appends nothing.
LEMMA CompleteCheck ==
  ASSUME TaskInv, HistInv, CheckInv, NEW c \in Completer, CompleteStep(c), log' = log
  PROVE  CheckInv'
<1>1. /\ c \in Call /\ call[c] \in CallState /\ call \in [Call -> CallState]
      /\ RunsInv /\ CallChecked(call[c]) /\ Len(log) \in Nat /\ head \in Nat
  BY CallFacts, RunFacts DEF TaskInv, CheckInv, Call
<1>2. run' = run /\ rewound' = rewound
  BY DEF CompleteStep, StartComplete, PinTail, ReadStored, ReadFailures, ReadPrepared,
    ReadRevisions, ReadSignals, ReadRecords, JudgeTree, AppendCompleted, ReadDocument,
    WriteDocument
<1>3. ASSUME NEW k, call' = [call EXCEPT ![c] = k],
             k.at \notin {"records", "tree", "append"}
      PROVE  CheckInv'
  <2>1. CallChecked(k)
    BY <1>3 DEF CallChecked
  <2> QED
    BY <1>1, <1>2, <1>3, <2>1, CheckMoves
<1>4. ASSUME NEW at, NEW answer, at \in {"over", "dead"}, Ended(c, at, answer)
      PROVE  CheckInv'
  <2> DEFINE k == [Local EXCEPT !.at = at, !.answer = answer, !.since = call[c].since,
                                !.capsule = call[c].capsule]
  <2>1. k.at = at
    BY DEF Local
  <2>2. call' = [call EXCEPT ![c] = k]
    BY <1>4 DEF Ended
  <2> HIDE DEF k
  <2> QED
    BY <1>3, <1>4, <2>1, <2>2
<1>5. ASSUME NEW answer, Answers(c, answer)
      PROVE  CheckInv'
  BY <1>4, <1>5 DEF Answers
<1>6. ASSUME NEW at, Moves(c, at), at \notin {"records", "tree", "append"}
      PROVE  CheckInv'
  <2> DEFINE k == [call[c] EXCEPT !.at = at]
  <2>1. k.at = at
    BY <1>1 DEF CallState
  <2>2. call' = [call EXCEPT ![c] = k]
    BY <1>1, <1>6 DEF Moves
  <2> HIDE DEF k
  <2> QED
    BY <1>3, <1>6, <2>1, <2>2
<1>7. CASE ReadSignals(c)
  <2> DEFINE k == [call[c] EXCEPT !.at = "records", !.signal = LastOf("signal", Len(log))]
  <2>1. k.at = "records" /\ k.signal = LastOf("signal", Len(log))
    BY <1>1 DEF CallState
  <2>2. call' = [call EXCEPT ![c] = k]
    BY <1>1, <1>7 DEF ReadSignals
  <2> HIDE DEF k
  <2>3. CallChecked(k)
    BY <1>1, <2>1, LastRow DEF CallChecked, Signals
  <2> QED
    BY <1>1, <1>2, <2>2, <2>3, CheckMoves
<1>8. CASE ReadRecords(c)
  <2>1. CASE Moves(c, "tree")
    <3> DEFINE k == [call[c] EXCEPT !.at = "tree"]
    <3>1. k.at = "tree" /\ k.signal = call[c].signal
      BY <1>1 DEF CallState
    <3>2. call' = [call EXCEPT ![c] = k]
      BY <1>1, <2>1 DEF Moves
    <3> HIDE DEF k
    <3>3. Passes(call[c].signal, Len(log)) \/ ~Passes(call[c].signal, Len(log))
      OBVIOUS
    <3>4. CASE Passes(call[c].signal, Len(log))
      <4>1. call[c].at = "records"
        BY <1>8 DEF ReadRecords
      <4>2. CallChecked(k)
        BY <1>1, <3>1, <3>4, <4>1 DEF CallChecked, Passes
      <4> QED
        BY <1>1, <1>2, <3>2, <4>2, CheckMoves
    <3>5. CASE ~Passes(call[c].signal, Len(log))
      BY <1>5, <1>8, <3>5 DEF ReadRecords
    <3> QED
      BY <3>4, <3>5
  <2>2. CASE ~Moves(c, "tree")
    <3>1. Answers(c, "refused") \/ Answers(c, "ok")
      BY <1>8, <2>2 DEF ReadRecords
    <3> QED
      BY <1>5, <3>1
  <2> QED
    BY <2>1, <2>2
<1>9. CASE JudgeTree(c)
  <2>0. call[c].at = "tree" /\ head' = head
    BY <1>9 DEF JudgeTree
  <2>1. PICK s \in Signals : s = call[c].signal
    BY <1>1, <2>0 DEF CallChecked
  <2>2. CASE call[c].named /\ head = log[call[c].signal].tree
    <3> DEFINE k == [call[c] EXCEPT !.at = "append", !.tree = head]
    <3>1. k.at = "append" /\ k.signal = s /\ k.tree = head
      BY <1>1, <2>1 DEF CallState
    <3>2. call' = [call EXCEPT ![c] = k]
      BY <1>1, <1>9, <2>2 DEF JudgeTree
    <3> HIDE DEF k
    <3>3. log[s].pass /\ s # 0 /\ head = log[s].tree
      BY <1>1, <2>0, <2>1, <2>2 DEF CallChecked
    <3>4. Vouched(s, head)
      <4>1. SignalKnown(s) /\ run[log[s].by] \in RunState
        BY <1>1, RunFacts DEF HistInv
      <4>2. run[log[s].by].scanned \in Nat
        BY <4>1 DEF RunState
      <4>3. CASE ~run[log[s].by].again /\ log[s].by \notin rewound
        <5>1. run[log[s].by].pass
          BY <3>3, <4>1, <4>3 DEF SignalKnown
        <5>2. head <= run[log[s].by].scanned /\ run[log[s].by].scanned <= head
          BY <3>3, <4>1, <4>3 DEF SignalKnown
        <5>3. head = run[log[s].by].scanned
          BY <1>1, <4>2, <5>2
        <5> QED
          BY <5>1, <5>3 DEF Vouched
      <4>4. CASE run[log[s].by].again \/ log[s].by \in rewound
        BY <4>4 DEF Vouched
      <4> QED
        BY <4>3, <4>4
    <3>5. CallChecked(k)
      BY <3>1, <3>3, <3>4 DEF CallChecked
    <3> QED
      BY <1>1, <1>2, <3>2, <3>5, CheckMoves
  <2>3. CASE ~(call[c].named /\ head = log[call[c].signal].tree)
             /\ ~call[c].named /\ call[c].since = 0
    <3> DEFINE k == [call[c] EXCEPT !.at = "append", !.tree = None]
    <3>1. k.at = "append" /\ k.signal = call[c].signal /\ k.tree = None
      BY <1>1 DEF CallState
    <3>2. call' = [call EXCEPT ![c] = k]
      BY <1>1, <1>9, <2>3 DEF JudgeTree
    <3> HIDE DEF k
    <3>3. CallChecked(k)
      BY <1>1, <2>0, <3>1 DEF CallChecked
    <3> QED
      BY <1>1, <1>2, <3>2, <3>3, CheckMoves
  <2>4. CASE Answers(c, "refused")
    BY <1>5, <2>4
  <2> QED
    BY <1>9, <2>2, <2>3, <2>4 DEF JudgeTree
<1>10. ASSUME NEW named \in BOOLEAN, NEW capsule, StartComplete(c, named, capsule)
       PROVE  CheckInv'
  <2> DEFINE k == [call[c] EXCEPT !.at = "pin", !.named = named, !.capsule = capsule]
  <2>1. k.at = "pin"
    BY <1>1 DEF CallState
  <2>2. call' = [call EXCEPT ![c] = k]
    BY <1>1, <1>10 DEF StartComplete
  <2> HIDE DEF k
  <2> QED
    BY <1>3, <2>1, <2>2
<1>11. CASE PinTail(c)
  <2> DEFINE k == [call[c] EXCEPT !.at = "stored", !.tail = Len(log), !.open = TRUE]
  <2>1. k.at = "stored"
    BY <1>1 DEF CallState
  <2>2. call' = [call EXCEPT ![c] = k]
    BY <1>1, <1>11 DEF PinTail
  <2> HIDE DEF k
  <2> QED
    BY <1>3, <2>1, <2>2
<1>12. CASE ReadStored(c)
  <2>1. PICK row, at : /\ at \in {"prepared", "failures"}
                       /\ call' = [call EXCEPT ![c].row = row, ![c].at = at]
    BY <1>12 DEF ReadStored
  <2> DEFINE k == [call[c] EXCEPT !.row = row, !.at = at]
  <2>2. k.at = at
    BY <1>1 DEF CallState
  <2>3. call' = [call EXCEPT ![c] = k]
    BY <1>1, <2>1
  <2> HIDE DEF k
  <2> QED
    BY <1>3, <2>1, <2>2, <2>3
<1>13. CASE ReadFailures(c)
  <2>1. Moves(c, "prepared") \/ Moves(c, "mend")
    BY <1>13 DEF ReadFailures
  <2> QED
    BY <1>6, <2>1
<1>14. CASE ReadPrepared(c)
  <2>1. PICK since, at : /\ at \in {"signals", "revised"}
                         /\ call' = [call EXCEPT ![c].at = at, ![c].since = since]
    BY <1>14 DEF ReadPrepared
  <2> DEFINE k == [call[c] EXCEPT !.at = at, !.since = since]
  <2>2. k.at = at
    BY <1>1 DEF CallState
  <2>3. call' = [call EXCEPT ![c] = k]
    BY <1>1, <2>1
  <2> HIDE DEF k
  <2> QED
    BY <1>3, <2>1, <2>2, <2>3
<1>15. CASE ReadRevisions(c)
  <2>1. Answers(c, "refused") \/ Moves(c, "signals")
    BY <1>15 DEF ReadRevisions
  <2> QED
    BY <1>5, <1>6, <2>1
<1>16. CASE AppendCompleted(c)
  <2>1. \/ Moves(c, "sync") \/ Answers(c, "conflict")
        \/ call' = [call EXCEPT ![c].at = "pin", ![c].tries = @ + 1]
    BY <1>16 DEF AppendCompleted
  <2>2. CASE call' = [call EXCEPT ![c].at = "pin", ![c].tries = @ + 1]
    <3> DEFINE k == [call[c] EXCEPT !.at = "pin", !.tries = call[c].tries + 1]
    <3>1. k.at = "pin"
      BY <1>1 DEF CallState
    <3>2. call' = [call EXCEPT ![c] = k]
      BY <1>1, <2>2
    <3> HIDE DEF k
    <3> QED
      BY <1>3, <3>1, <3>2
  <2> QED
    BY <1>5, <1>6, <2>1, <2>2
<1>17. CASE ReadDocument(c)
  <2>1. CASE Answers(c, "ok")
    BY <1>5, <2>1
  <2>2. CASE doc.status = "open"
    <3>1. PICK at \in {"syncing", "mending"} :
            call' = [call EXCEPT ![c].version = doc.version, ![c].at = at]
      BY <1>1, <1>17, <2>2 DEF ReadDocument
    <3> DEFINE k == [call[c] EXCEPT !.version = doc.version, !.at = at]
    <3>2. k.at = at
      BY <1>1 DEF CallState
    <3>3. call' = [call EXCEPT ![c] = k]
      BY <1>1, <3>1
    <3> HIDE DEF k
    <3> QED
      BY <1>3, <3>1, <3>2, <3>3
  <2>3. CASE doc.status # "open" /\ ~Answers(c, "ok")
    <3> DEFINE k == [call[c] EXCEPT !.at = "signals", !.open = FALSE, !.syncs = 0]
    <3>1. k.at = "signals"
      BY <1>1 DEF CallState
    <3>2. call' = [call EXCEPT ![c] = k]
      BY <1>1, <1>17, <2>3 DEF ReadDocument
    <3> HIDE DEF k
    <3> QED
      BY <1>3, <3>1, <3>2
  <2> QED
    BY <2>1, <2>2, <2>3
<1>18. CASE WriteDocument(c)
  <2>1. CASE Answers(c, "ok") \/ Answers(c, "unsynced")
    BY <1>5, <2>1
  <2>2. CASE ~Answers(c, "ok") /\ ~Answers(c, "unsynced")
    <3>1. ASSUME NEW at \in {"sync", "mend"},
                 call' = [call EXCEPT ![c].at = at, ![c].syncs = @ + 1]
          PROVE  CheckInv'
      <4> DEFINE k == [call[c] EXCEPT !.at = at, !.syncs = call[c].syncs + 1]
      <4>1. k.at = at /\ call' = [call EXCEPT ![c] = k]
        BY <1>1, <3>1 DEF CallState
      <4> HIDE DEF k
      <4> QED
        BY <1>3, <3>1, <4>1
    <3>2. call' = [call EXCEPT ![c].at = IF @ = "syncing" THEN "sync" ELSE "mend",
                               ![c].syncs = @ + 1]
      BY <1>18, <2>2 DEF WriteDocument
    <3>3. CASE call[c].at = "syncing"
      <4>1. call' = [call EXCEPT ![c].at = "sync", ![c].syncs = @ + 1]
        BY <1>1, <3>2, <3>3
      <4> QED
        BY <3>1, <4>1
    <3>4. CASE call[c].at # "syncing"
      <4>1. call' = [call EXCEPT ![c].at = "mend", ![c].syncs = @ + 1]
        BY <1>1, <3>2, <3>4
      <4> QED
        BY <3>1, <4>1
    <3> QED
      BY <3>3, <3>4
  <2> QED
    BY <2>1, <2>2
<1> QED
  BY <1>7, <1>8, <1>9, <1>10, <1>11, <1>12, <1>13, <1>14, <1>15, <1>16, <1>17, <1>18
  DEF CompleteStep

\* The commit of the row that a completion appends.
LEMMA NewRowChecked ==
  ASSUME TaskInv, HistInv, CheckInv, Grown, RunsKeep, NEW c \in Completer,
         AppendCompleted(c), Len(log) = call[c].tail, NEW m \in Nat, m = Len(log),
         log' = Append(log, RowOf("completed", c, FALSE, call[c].tree, None))
  PROVE  RowChecked(m + 1)'
<1>1. /\ c \in Call /\ call[c] \in CallState /\ Pinned(call[c]) /\ RunsInv
      /\ CallChecked(call[c]) /\ log \in Seq(Row) /\ call[c].at = "append"
  BY CallFacts DEF TaskInv, CheckInv, Call, AppendCompleted
<1>2. m = Len(log)
  OBVIOUS
<1>3. log'[m + 1].tree = call[c].tree
  <2>1. RowOf("completed", c, FALSE, call[c].tree, None) \in Row
    BY <1>1 DEF CallState, RowOf, Row, Types
  <2>2. log'[m + 1] = RowOf("completed", c, FALSE, call[c].tree, None)
    BY <1>1, <1>2, <2>1, Appended
  <2>3. RowOf("completed", c, FALSE, call[c].tree, None).tree = call[c].tree
    BY DEF RowOf
  <2> QED
    BY <2>2, <2>3
<1>4. call[c].signal = LastOf("signal", m)
  BY <1>1, <1>2 DEF Pinned, Stands
<1>5. LastOf("signal", m)' = LastOf("signal", m)
  BY <1>2, PrefixStays
<1>6. PICK s \in Signals : s = call[c].signal
  BY <1>1 DEF CallChecked
<1>7. CASE call[c].tree # None
  <2>1. PICK t : t = call[c].tree
    OBVIOUS
  <2>2. Vouched(s, t)'
    BY <1>1, <1>6, <1>7, <2>1, VouchedStays DEF CallChecked
  <2>3. PICK i : i = m + 1 /\ i - 1 = m
    OBVIOUS
  <2>4. LastOf("signal", i - 1)' = s /\ log'[i].tree = t
    BY <1>2, <1>3, <1>4, <1>5, <1>6, <2>1, <2>3
  <2>5. RowChecked(i)'
    BY <2>2, <2>4 DEF RowChecked, Vouched
  <2> QED
    BY <2>3, <2>5
<1>8. CASE call[c].tree = None
  BY <1>3, <1>8 DEF RowChecked
<1> QED
  BY <1>7, <1>8

\* A call whose step leaves it where nothing is checked yet, or as it was.
LEMMA CallsCheck ==
  ASSUME TaskInv, HistInv, CheckInv, [Next]_vars,
         \A c \in Completer : CompleteStep(c) => log' # log
  PROVE  \A d \in Call : \/ call'[d] = call[d]
                         \/ call'[d].at \notin {"records", "tree", "append"}
<1>1. call \in [Call -> CallState]
  BY DEF TaskInv, CallsTyped
<1>2. ASSUME NEW c \in Call, NEW k, call' = [call EXCEPT ![c] = k],
             k.at \notin {"records", "tree", "append"}
      PROVE  \A d \in Call : \/ call'[d] = call[d]
                             \/ call'[d].at \notin {"records", "tree", "append"}
  BY <1>1, <1>2
<1>3. ASSUME NEW c \in Call, NEW at, NEW answer, Ended(c, at, answer), at \in {"over", "dead"}
      PROVE  \A d \in Call : \/ call'[d] = call[d]
                             \/ call'[d].at \notin {"records", "tree", "append"}
  <2> DEFINE k == [Local EXCEPT !.at = at, !.answer = answer, !.since = call[c].since,
                                !.capsule = call[c].capsule]
  <2>1. k.at = at
    BY DEF Local
  <2>2. call' = [call EXCEPT ![c] = k]
    BY <1>3 DEF Ended
  <2> HIDE DEF k
  <2> QED
    BY <1>2, <1>3, <2>1, <2>2
<1>4. ASSUME NEW c \in Call, ClaimStep(c) \/ AppendFailure(c) \/ CallDies(c)
             \/ (CompleteStep(c) /\ log' # log)
      PROVE  \A d \in Call : \/ call'[d] = call[d]
                             \/ call'[d].at \notin {"records", "tree", "append"}
  <2>1. CASE \E at, answer : Ended(c, at, answer) /\ at \in {"over", "dead"}
    BY <1>3, <1>4, <2>1
  <2>2. CASE FoldForClaim(c) /\ ~Answers(c, "already")
    <3>1. PICK at \in {"raw", "claim"} :
            call' = [call EXCEPT ![c].at = at, ![c].tail = Len(log)]
      BY <2>2 DEF FoldForClaim
    <3> DEFINE k == [call[c] EXCEPT !.at = at, !.tail = Len(log)]
    <3>2. k.at = at /\ call' = [call EXCEPT ![c] = k]
      BY <1>1, <3>1 DEF CallState
    <3> HIDE DEF k
    <3> QED
      BY <1>2, <3>1, <3>2
  <2>3. CASE call' = [call EXCEPT ![c].at = "fold", ![c].tries = @ + 1]
    <3> DEFINE k == [call[c] EXCEPT !.at = "fold", !.tries = call[c].tries + 1]
    <3>1. k.at = "fold" /\ call' = [call EXCEPT ![c] = k]
      BY <1>1, <2>3 DEF CallState
    <3> HIDE DEF k
    <3> QED
      BY <1>2, <3>1
  <2>4. CASE Moves(c, "claim") \/ Moves(c, "sync")
    <3>1. PICK at \in {"claim", "sync"} : Moves(c, at)
      BY <2>4
    <3> DEFINE k == [call[c] EXCEPT !.at = at]
    <3>2. k.at = at /\ call' = [call EXCEPT ![c] = k]
      BY <1>1, <3>1 DEF CallState, Moves
    <3> HIDE DEF k
    <3> QED
      BY <1>2, <3>1, <3>2
  <2>5. CASE CompleteStep(c) /\ log' # log
    <3>1. AppendCompleted(c)
      BY <2>5 DEF CompleteStep, StartComplete, PinTail, ReadStored, ReadFailures,
        ReadPrepared, ReadRevisions, ReadSignals, ReadRecords, JudgeTree, ReadDocument,
        WriteDocument
    <3> QED
      BY <2>4, <2>5, <3>1 DEF AppendCompleted
  <2>6. CASE AppendFailure(c) \/ CallDies(c)
    BY <2>1, <2>6 DEF AppendFailure, CallDies, Answers
  <2>7. CASE FoldForClaim(c)
    BY <2>1, <2>2, <2>7 DEF Answers
  <2>8. CASE ReadRaw(c)
    BY <2>1, <2>4, <2>8 DEF ReadRaw, Answers
  <2>9. CASE AppendClaim(c)
    BY <2>1, <2>3, <2>9 DEF AppendClaim, Answers
  <2> QED
    BY <1>4, <2>5, <2>6, <2>7, <2>8, <2>9 DEF ClaimStep
<1>5. Claimer \subseteq Call /\ Failer \subseteq Call /\ Completer \subseteq Call
  BY DEF Call
<1>6. CASE call' = call
  BY <1>6
<1>7. \/ call' = call
      \/ \E c \in Claimer : ClaimStep(c)
      \/ \E c \in Failer : AppendFailure(c)
      \/ \E c \in Completer : CompleteStep(c)
      \/ \E c \in Call : CallDies(c)
  BY DEF Next, Outside, Finished, Report, WriteElsewhere, vars
<1> QED
  BY <1>4, <1>5, <1>6, <1>7

LEMMA InitCheck == ASSUME Init PROVE CheckInv
<1>1. \A c \in Call : call[c].at = "new"
  BY DEF Init, Local
<1>2. Completions = {}
  BY DEF Init, RunsInit, Completions, RowsOf
<1> QED
  BY <1>1, <1>2 DEF CheckInv, CallChecked

LEMMA NextCheck ==
  ASSUME TaskInv, HistInv, CheckInv, [Next]_vars
  PROVE  CheckInv'
<1>1. RunsInv /\ Grown /\ RunsKeep
  BY StepGrows, StepKeeps DEF TaskInv
<1>2. CASE \E c \in Completer : CompleteStep(c) /\ log' = log
  BY <1>2, CompleteCheck
<1>3. CASE \A c \in Completer : CompleteStep(c) => log' # log
  <2>1. ASSUME NEW d \in Call
        PROVE  CallChecked(call[d])'
    <3>1. CASE call'[d] = call[d]
      <4>1. PICK k : k = call[d] /\ CallChecked(k)
        BY DEF CheckInv
      <4>2. CallChecked(k)'
        BY <1>1, <4>1, CallCheckedStays
      <4> QED
        BY <3>1, <4>1, <4>2 DEF CallChecked, Vouched
    <3>2. CASE call'[d].at \notin {"records", "tree", "append"}
      BY <3>2 DEF CallChecked
    <3> QED
      BY <1>3, <3>1, <3>2, CallsCheck
  <2>2. ASSUME NEW i \in Completions'
        PROVE  RowChecked(i)'
    <3>1. CASE i \in Completions
      BY <1>1, <3>1, RowCheckedStays DEF CheckInv
    <3>2. CASE i \notin Completions
      <4>0. PICK m \in Nat : m = Len(log)
        BY RunFacts, <1>1
      <4>1. PICK c \in Completer :
              /\ AppendCompleted(c) /\ Len(log) = call[c].tail /\ i = m + 1
              /\ log' = Append(log, RowOf("completed", c, FALSE, call[c].tree, None))
        BY <2>2, <3>2, <4>0, NewCompletion
      <4>2. RowChecked(m + 1)'
        BY <1>1, <4>0, <4>1, NewRowChecked
      <4> QED
        BY <4>1, <4>2
    <3> QED
      BY <3>1, <3>2
  <2> QED
    BY <2>1, <2>2 DEF CheckInv
<1> QED
  BY <1>2, <1>3

LEMMA CheckGives == ASSUME CheckInv PROVE CheckedAtHead
  BY DEF CheckInv, RowChecked, Vouched, CheckedAtHead, Checked, RunOf

-----------------------------------------------------------------------------
(***************************************************************************)
(* The document.  Rows are only added and a complete document stays so,     *)
(* therefore what a call saw of both is still true when it writes.          *)
(***************************************************************************)
CallAgrees(k) ==
  /\ k.at \in {"failures", "mend", "mending", "sync", "syncing"} => Completions # {}
  /\ ~k.open \/ k.answer = "ok" => doc.status = "complete"

DocInv ==
  /\ doc.status = "complete" => Completions # {}
  /\ \A c \in Completer : CallAgrees(call[c])

\* A step on the document: what it was stays.
DocKeeps == /\ Completions # {} => Completions' # {}
            /\ doc.status = "complete" => doc'.status = "complete"
            /\ doc'.status = "complete" => doc.status = "complete" \/ Completions' # {}

LEMMA GrownCompletions ==
  ASSUME TaskInv, Grown PROVE Completions # {} => Completions' # {}
  BY DEF TaskInv, RunsInv, RunsTypeOK, Grown, Completions, RowsOf

LEMMA DocStays ==
  ASSUME DocInv, DocKeeps, call' = call
  PROVE  DocInv'
  BY DEF DocInv, DocKeeps, CallAgrees

LEMMA DocMoves ==
  ASSUME TaskInv, DocInv, DocKeeps, NEW c \in Call, NEW k, call' = [call EXCEPT ![c] = k],
         c \in Completer => CallAgrees(k)'
  PROVE  DocInv'
<1>1. call \in [Call -> CallState]
  BY DEF TaskInv, CallsTyped
<1>2. ASSUME NEW d \in Completer
      PROVE  CallAgrees(call[d])'
  <2>1. CASE d = c
    BY <1>1, <2>1 DEF CallAgrees, Call
  <2>2. CASE d # c
    <3>1. call'[d] = call[d]
      BY <1>1, <2>2 DEF Call
    <3> QED
      BY <3>1 DEF DocInv, DocKeeps, CallAgrees
  <2> QED
    BY <2>1, <2>2
<1> QED
  BY <1>2 DEF DocInv, DocKeeps

\* A call that ends with an answer that the document bears out.
LEMMA DocEnds ==
  ASSUME TaskInv, DocInv, DocKeeps, NEW c \in Call, NEW at \in {"over", "dead"}, NEW answer,
         Ended(c, at, answer),
         c \in Completer /\ answer = "ok" => doc'.status = "complete"
  PROVE  DocInv'
<1>1. PICK k : k = [Local EXCEPT !.at = at, !.answer = answer, !.since = call[c].since,
                                 !.capsule = call[c].capsule]
  OBVIOUS
<1>2. k.at = at /\ k.answer = answer /\ k.open /\ call' = [call EXCEPT ![c] = k]
  BY <1>1 DEF Local, Ended
<1>3. c \in Completer => CallAgrees(k)'
  BY <1>2 DEF CallAgrees
<1> QED
  BY <1>2, <1>3, DocMoves

\* A call that moves: where it comes to is reached with what it needs.
LEMMA DocSteps ==
  ASSUME TaskInv, DocInv, DocKeeps, NEW c \in Completer, NEW k,
         call' = [call EXCEPT ![c] = k],
         k.at \in {"failures", "mend", "mending", "sync", "syncing"} =>
           \/ Completions' # {}
           \/ call[c].at \in {"failures", "mend", "mending", "sync", "syncing"},
         k.answer = call[c].answer,
         k.open \/ ~call[c].open \/ doc.status = "complete"
  PROVE  DocInv'
<1>1. CallAgrees(call[c])
  BY DEF DocInv
<1>2. CallAgrees(k)'
  BY <1>1 DEF CallAgrees, DocKeeps
<1> QED
  BY <1>2, DocMoves DEF Call

LEMMA CompleteDoc ==
  ASSUME TaskInv, DocInv, NEW c \in Completer, CompleteStep(c), Grown
  PROVE  DocInv'
<1>1. /\ c \in Call /\ call[c] \in CallState /\ call \in [Call -> CallState]
      /\ CallAgrees(call[c]) /\ Len(log) \in Nat
      /\ doc \in [status : {"open", "complete"}, version : Nat]
  BY CallFacts DEF DocInv, Call
<1>2. DocKeeps
  <2>1. CASE WriteDocument(c)
    <3>1. log' = log /\ Completions # {}
      BY <1>1, <2>1 DEF WriteDocument, CallAgrees
    <3>2. doc' = doc \/ doc'.status = "complete"
      BY <2>1 DEF WriteDocument
    <3> QED
      BY <1>1, <3>1, <3>2 DEF DocKeeps, Completions, RowsOf
  <2>2. CASE ~WriteDocument(c)
    <3>1. doc' = doc
      BY <2>2 DEF CompleteStep, StartComplete, PinTail, ReadStored, ReadFailures,
        ReadPrepared, ReadRevisions, ReadSignals, ReadRecords, JudgeTree, AppendCompleted,
        ReadDocument
    <3> QED
      BY <3>1, GrownCompletions DEF DocKeeps
  <2> QED
    BY <2>1, <2>2
<1>3. ASSUME NEW answer, Answers(c, answer), answer = "ok" => doc'.status = "complete"
      PROVE  DocInv'
  BY <1>1, <1>2, <1>3, DocEnds DEF Answers
<1>4. ASSUME NEW at, Moves(c, at),
             at \in {"failures", "mend", "mending", "sync", "syncing"} =>
               \/ Completions' # {}
               \/ call[c].at \in {"failures", "mend", "mending", "sync", "syncing"}
      PROVE  DocInv'
  <2> DEFINE k == [call[c] EXCEPT !.at = at]
  <2>1. /\ k.at = at /\ k.answer = call[c].answer /\ k.open = call[c].open
        /\ call' = [call EXCEPT ![c] = k]
    BY <1>1, <1>4 DEF CallState, Moves
  <2> HIDE DEF k
  <2> QED
    BY <1>1, <1>2, <1>4, <2>1, DocSteps
<1>5. ASSUME NEW named \in BOOLEAN, NEW capsule, StartComplete(c, named, capsule)
      PROVE  DocInv'
  <2> DEFINE k == [call[c] EXCEPT !.at = "pin", !.named = named, !.capsule = capsule]
  <2>1. /\ k.at = "pin" /\ k.answer = call[c].answer /\ k.open = call[c].open
        /\ call' = [call EXCEPT ![c] = k]
    BY <1>1, <1>5 DEF CallState, StartComplete
  <2> HIDE DEF k
  <2> QED
    BY <1>1, <1>2, <2>1, DocSteps
<1>6. CASE PinTail(c)
  <2> DEFINE k == [call[c] EXCEPT !.at = "stored", !.tail = Len(log), !.open = TRUE]
  <2>1. /\ k.at = "stored" /\ k.answer = call[c].answer /\ k.open
        /\ call' = [call EXCEPT ![c] = k]
    BY <1>1, <1>6 DEF CallState, PinTail
  <2> HIDE DEF k
  <2> QED
    BY <1>1, <1>2, <2>1, DocSteps
<1>7. CASE ReadStored(c)
  <2>1. PICK row, at :
          /\ row = LastOf("completed", Len(log))
          /\ at = IF row = 0 THEN "prepared" ELSE "failures"
          /\ call' = [call EXCEPT ![c].row = row, ![c].at = at]
    BY <1>7 DEF ReadStored
  <2> DEFINE k == [call[c] EXCEPT !.row = row, !.at = at]
  <2>2. /\ k.at = at /\ k.answer = call[c].answer /\ k.open = call[c].open
        /\ call' = [call EXCEPT ![c] = k]
    BY <1>1, <2>1 DEF CallState
  <2>3. row # 0 => Completions # {}
    BY <1>1, <2>1, LastRow DEF Completions
  <2>4. k.at = "prepared" \/ Completions' # {}
    BY <1>2, <2>1, <2>2, <2>3 DEF DocKeeps
  <2> HIDE DEF k
  <2> QED
    BY <1>1, <1>2, <2>2, <2>4, DocSteps
<1>8. CASE ReadFailures(c)
  <2>1. call[c].at = "failures" /\ (Moves(c, "prepared") \/ Moves(c, "mend"))
    BY <1>8 DEF ReadFailures
  <2> QED
    BY <1>4, <2>1
<1>9. CASE ReadPrepared(c)
  <2>1. PICK since, at : /\ at \in {"signals", "revised"}
                         /\ call' = [call EXCEPT ![c].at = at, ![c].since = since]
    BY <1>9 DEF ReadPrepared
  <2> DEFINE k == [call[c] EXCEPT !.at = at, !.since = since]
  <2>2. /\ k.at \in {"signals", "revised"} /\ k.answer = call[c].answer /\ k.open = call[c].open
        /\ call' = [call EXCEPT ![c] = k]
    BY <1>1, <2>1 DEF CallState
  <2> HIDE DEF k
  <2> QED
    BY <1>1, <1>2, <2>2, DocSteps
<1>10. CASE ReadRevisions(c)
  <2>1. Answers(c, "refused") \/ Moves(c, "signals")
    BY <1>10 DEF ReadRevisions
  <2> QED
    BY <1>3, <1>4, <2>1
<1>11. CASE ReadSignals(c)
  <2> DEFINE k == [call[c] EXCEPT !.at = "records", !.signal = LastOf("signal", Len(log))]
  <2>1. /\ k.at = "records" /\ k.answer = call[c].answer /\ k.open = call[c].open
        /\ call' = [call EXCEPT ![c] = k]
    BY <1>1, <1>11 DEF CallState, ReadSignals
  <2> HIDE DEF k
  <2> QED
    BY <1>1, <1>2, <2>1, DocSteps
<1>12. CASE ReadRecords(c)
  <2>1. doc' = doc
    BY <1>12 DEF ReadRecords
  <2>2. Answers(c, "refused") \/ (~call[c].open /\ Answers(c, "ok")) \/ Moves(c, "tree")
    BY <1>12 DEF ReadRecords
  <2> QED
    BY <1>1, <1>3, <1>4, <2>1, <2>2 DEF CallAgrees
<1>13. CASE JudgeTree(c)
  <2>1. CASE Answers(c, "refused")
    BY <1>3, <2>1
  <2>2. CASE ~Answers(c, "refused")
    <3>1. PICK tree : call' = [call EXCEPT ![c].at = "append", ![c].tree = tree]
      BY <1>13, <2>2 DEF JudgeTree
    <3> DEFINE k == [call[c] EXCEPT !.at = "append", !.tree = tree]
    <3>2. /\ k.at = "append" /\ k.answer = call[c].answer /\ k.open = call[c].open
          /\ call' = [call EXCEPT ![c] = k]
      BY <1>1, <3>1 DEF CallState
    <3> HIDE DEF k
    <3> QED
      BY <1>1, <1>2, <3>2, DocSteps
  <2> QED
    BY <2>1, <2>2
<1>14. CASE AppendCompleted(c)
  <2>1. CASE Answers(c, "conflict")
    BY <1>3, <2>1
  <2>2. CASE call' = [call EXCEPT ![c].at = "pin", ![c].tries = @ + 1]
    <3> DEFINE k == [call[c] EXCEPT !.at = "pin", !.tries = call[c].tries + 1]
    <3>1. /\ k.at = "pin" /\ k.answer = call[c].answer /\ k.open = call[c].open
          /\ call' = [call EXCEPT ![c] = k]
      BY <1>1, <2>2 DEF CallState
    <3> HIDE DEF k
    <3> QED
      BY <1>1, <1>2, <3>1, DocSteps
  <2>3. CASE Moves(c, "sync")
           /\ (Completions # {}
               \/ log' = Append(log, RowOf("completed", c, FALSE, call[c].tree, None)))
    <3>1. CASE Completions # {}
      BY <1>2, <1>4, <2>3, <3>1 DEF DocKeeps
    <3>2. CASE log' = Append(log, RowOf("completed", c, FALSE, call[c].tree, None))
      <4>1. RowOf("completed", c, FALSE, call[c].tree, None) \in Row
            /\ RowOf("completed", c, FALSE, call[c].tree, None).type = "completed"
        BY <1>1 DEF CallState, RowOf, Row, Types
      <4>2. PICK m : m = Len(log) + 1
        OBVIOUS
      <4>3. m \in Completions'
        BY <1>1, <3>2, <4>1, <4>2, RowsAppend, CallFacts DEF Completions
      <4> QED
        BY <1>4, <2>3, <4>3
    <3> QED
      BY <2>3, <3>1, <3>2
  <2> QED
    BY <1>14, <2>1, <2>2, <2>3 DEF AppendCompleted, Completions
<1>15. CASE ReadDocument(c)
  <2>1. CASE Answers(c, "ok") /\ doc.status # "open"
    BY <1>1, <1>2, <1>3, <2>1 DEF DocKeeps
  <2>2. CASE doc.status = "open"
    <3>1. call[c].at \in {"sync", "mend"}
      BY <1>15 DEF ReadDocument
    <3>2. PICK at \in {"syncing", "mending"} :
            call' = [call EXCEPT ![c].version = doc.version, ![c].at = at]
      BY <1>1, <1>15, <2>2 DEF ReadDocument
    <3> DEFINE k == [call[c] EXCEPT !.version = doc.version, !.at = at]
    <3>3. /\ k.at = at /\ k.answer = call[c].answer /\ k.open = call[c].open
          /\ call' = [call EXCEPT ![c] = k]
      BY <1>1, <3>2 DEF CallState
    <3> HIDE DEF k
    <3> QED
      BY <1>1, <1>2, <3>1, <3>3, DocSteps
  <2>3. CASE doc.status # "open" /\ ~Answers(c, "ok")
    <3> DEFINE k == [call[c] EXCEPT !.at = "signals", !.open = FALSE, !.syncs = 0]
    <3>1. /\ k.at = "signals" /\ k.answer = call[c].answer
          /\ call' = [call EXCEPT ![c] = k]
      BY <1>1, <1>15, <2>3 DEF CallState, ReadDocument
    <3>2. doc.status = "complete"
      BY <1>1, <2>3
    <3> HIDE DEF k
    <3> QED
      BY <1>1, <1>2, <3>1, <3>2, DocSteps
  <2> QED
    BY <1>15, <2>1, <2>2, <2>3 DEF ReadDocument
<1>16. CASE WriteDocument(c)
  <2>1. CASE Answers(c, "unsynced")
    BY <1>3, <2>1
  <2>2. CASE doc.version = call[c].version
    BY <1>3, <1>16, <2>2 DEF WriteDocument
  <2>3. CASE doc.version # call[c].version /\ ~Answers(c, "unsynced")
    <3>1. call[c].at \in {"syncing", "mending"}
      BY <1>16 DEF WriteDocument
    <3>2. PICK at, syncs : call' = [call EXCEPT ![c].at = at, ![c].syncs = syncs]
      BY <1>1, <1>16, <2>3 DEF WriteDocument
    <3> DEFINE k == [call[c] EXCEPT !.at = at, !.syncs = syncs]
    <3>3. /\ k.at = at /\ k.answer = call[c].answer /\ k.open = call[c].open
          /\ call' = [call EXCEPT ![c] = k]
      BY <1>1, <3>2 DEF CallState
    <3> HIDE DEF k
    <3> QED
      BY <1>1, <1>2, <3>1, <3>3, DocSteps
  <2> QED
    BY <1>16, <2>1, <2>2, <2>3
<1> QED
  BY <1>5, <1>6, <1>7, <1>8, <1>9, <1>10, <1>11, <1>12, <1>13, <1>14, <1>15, <1>16
  DEF CompleteStep

LEMMA InitDoc == ASSUME Init PROVE DocInv
  BY DEF Init, Local, DocInv, CallAgrees, Call

\* The other steps leave the calls to task_complete alone, or end them.
LEMMA NextDoc ==
  ASSUME TaskInv, DocInv, [Next]_vars
  PROVE  DocInv'
<1>1. Grown /\ call \in [Call -> CallState]
      /\ doc \in [status : {"open", "complete"}, version : Nat]
  BY StepGrows DEF TaskInv, CallsTyped
<1>2. CASE doc' = doc \/ WriteElsewhere
  <2>1. doc'.status = doc.status
    BY <1>1, <1>2 DEF WriteElsewhere
  <2>2. DocKeeps
    BY <1>1, <2>1, GrownCompletions DEF DocKeeps
  <2>3. CASE call' = call
    BY <2>2, <2>3, DocStays
  <2>4. ASSUME NEW c \in Call, CallDies(c)
        PROVE  DocInv'
    BY <2>2, <2>4, DocEnds DEF CallDies
  <2>5. ASSUME NEW c \in Call \ Completer, NEW k, call' = [call EXCEPT ![c] = k]
        PROVE  DocInv'
    BY <2>2, <2>5, DocMoves
  <2>6. ASSUME NEW c \in Call \ Completer, NEW at, NEW answer, Ended(c, at, answer)
        PROVE  DocInv'
    BY <2>5, <2>6 DEF Ended
  <2>7. ASSUME NEW c \in Failer, AppendFailure(c)
        PROVE  DocInv'
    <3>1. c \in Call \ Completer
      BY TasksAssumption DEF Call, TasksAssumption
    <3> QED
      BY <2>6, <2>7, <3>1 DEF AppendFailure, Answers
  <2>8. ASSUME NEW c \in Claimer, ClaimStep(c)
        PROVE  DocInv'
    <3>1. c \in Call \ Completer
      BY TasksAssumption DEF Call, TasksAssumption
    <3>2. CASE \E at, answer : Ended(c, at, answer)
      BY <2>6, <3>1, <3>2
    <3>3. CASE \E k : call' = [call EXCEPT ![c] = k]
      BY <2>5, <3>1, <3>3
    <3>4. CASE FoldForClaim(c) /\ ~Answers(c, "already")
      <4> DEFINE k == [call[c] EXCEPT
                         !.at = IF Status(Len(log)) = "none" THEN "raw" ELSE "claim",
                         !.tail = Len(log)]
      <4>1. call' = [call EXCEPT ![c] = k]
        BY <1>1, <3>1, <3>4 DEF FoldForClaim
      <4> HIDE DEF k
      <4> QED
        BY <3>3, <4>1
    <3>5. CASE Moves(c, "claim")
      <4> DEFINE k == [call[c] EXCEPT !.at = "claim"]
      <4>1. call' = [call EXCEPT ![c] = k]
        BY <1>1, <3>1, <3>5 DEF Moves
      <4> HIDE DEF k
      <4> QED
        BY <3>3, <4>1
    <3>6. CASE call' = [call EXCEPT ![c].at = "fold", ![c].tries = @ + 1]
      <4> DEFINE k == [call[c] EXCEPT !.at = "fold", !.tries = call[c].tries + 1]
      <4>1. call' = [call EXCEPT ![c] = k]
        BY <1>1, <3>1, <3>6
      <4> HIDE DEF k
      <4> QED
        BY <3>3, <4>1
    <3> QED
      BY <2>8, <3>2, <3>4, <3>5, <3>6
      DEF ClaimStep, FoldForClaim, ReadRaw, AppendClaim, Answers
  <2>9. \/ call' = call
        \/ \E c \in Claimer : ClaimStep(c)
        \/ \E c \in Failer : AppendFailure(c)
        \/ \E c \in Completer : CompleteStep(c)
        \/ \E c \in Call : CallDies(c)
    BY DEF Next, Outside, Finished, Report, WriteElsewhere, vars
  <2> QED
    BY <1>1, <2>3, <2>4, <2>7, <2>8, <2>9, CompleteDoc
<1>3. CASE doc' # doc /\ ~WriteElsewhere
  <2>1. \E c \in Completer : CompleteStep(c)
    BY <1>3 DEF Next, Outside, Finished, Report, vars, ClaimStep, FoldForClaim, ReadRaw,
      AppendClaim, AppendFailure, CallDies
  <2> QED
    BY <1>1, <2>1, CompleteDoc
<1> QED
  BY <1>2, <1>3

LEMMA DocGives == ASSUME DocInv PROVE DocumentAgrees
  BY DEF DocInv, CallAgrees, DocumentAgrees

-----------------------------------------------------------------------------
\* Tasks.tla: what the rows say of the runs, the turns of the runs of a chain, what a
\* completion checked and what the document says, with the invariant of the pins.
THEOREM TaskHistory == Spec => [](TaskInv /\ HistInv /\ TurnInv /\ CheckInv /\ DocInv)
<1> DEFINE All == TaskInv /\ HistInv /\ TurnInv /\ CheckInv /\ DocInv
<1>1. Init => All
  BY InitInv, InitHist, InitCheck, InitDoc
<1>2. All /\ [Next]_vars => All'
  BY NextInv, NextHist, NextCheck, NextDoc
<1> QED
  BY <1>1, <1>2, PTL DEF Spec

\* treeRefusal and scannedTree: a completion that names a commit names the one that was
\* at HEAD when the run of the latest signal checked the files and passed, whatever was
\* committed while the run and the call were under way, unless that run was resubmitted
\* or HEAD went to an older commit after it began.
THEOREM CheckedCommit == Spec => []CheckedAtHead
<1> QED
  BY CheckGives, TaskHistory, PTL

\* markTasksCompleteInStateDocument: of any number of completions that die, lose their
\* swap or mend one another, none answers ok before the document is complete, and the
\* document is never complete without the row.
THEOREM DocumentFollows == Spec => []DocumentAgrees
<1> QED
  BY DocGives, TaskHistory, PTL

\* activePredecessor: as long as no two runs are under way at once, the records leave
\* the gate open for a task whose last run of each chain passed and signalled, however
\* many runs died and were resubmitted before it.
THEOREM GateReopens == Spec => []RerunsClear
<1>1. TaskInv /\ HistInv /\ TurnInv => RerunsClear
  BY Cleared DEF TaskInv
<1> QED
  BY <1>1, TaskHistory, PTL

=============================================================================
