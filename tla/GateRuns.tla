------------------------------ MODULE GateRuns ------------------------------
(***************************************************************************)
(* The static-analysis runs of one task: runGate of verbs/gates/            *)
(* gate-runner.ts under runDurableGateProducer.  A run stamps the commit at *)
(* HEAD, executes the checks on the files of the tree, supersedes the       *)
(* active record of its chain, appends its evidence record and then its     *)
(* gate.executed signal.                                                    *)
(*                                                                          *)
(* A run is an operation: settle derives its id from the batch and the      *)
(* task, so the resubmission after a crash is the same run again and        *)
(* reuses the record it finds.  A chain is a branch and base of the task;   *)
(* the phase attempt, the policy and the provider do not change.            *)
(*                                                                          *)
(* Abstracted: a commit is its number; a verdict that is not a pass is a    *)
(* fail; records, signals and task events of the stream are rows of log,    *)
(* other rows are left out.                                                 *)
(***************************************************************************)
EXTENDS Naturals, Sequences, FiniteSetsExt

CONSTANTS
  Run,          \* operations of check_static_analysis
  Chain,        \* branch and base of a run
  Claimer, Completer, Failer,  \* calls of the task verbs, see Tasks
  MaxMoves,     \* bound: runs, calls, commits, reports, foreign writes and deaths
  None

Call == Claimer \cup Completer \cup Failer

ASSUME RunsAssumption ==
  /\ None \notin Run \cup Call \cup Chain \cup Nat
  /\ MaxMoves \in Nat

VARIABLES
  log,      \* the rows of the stream
  head,     \* the commit at HEAD of the tree of the task
  newest,   \* the last commit that was made
  edited,   \* the files of the tree hold changes that are not committed
  onEdits,  \* HISTORY: the runs that checked such changes
  rewound,  \* HISTORY: the runs begun before a reset or checkout moved HEAD
  clock,    \* the time of the last createdAt
  run,      \* run[r]: the progress of run r
  moves     \* how much may still begin, be committed, reported or die

worktree == <<head, newest, edited, onEdits, rewound>>

Types == {"assigned", "claimed", "progressed", "completed", "failed", "prepared",
          "revised", "record", "signal"}

\* pass, over: of a record; pass, tree: of a signal; tree: of a completion too.
Row == [type : Types, by : Run \cup Call \cup {None}, pass : BOOLEAN,
        tree : Nat \cup {None}, over : Run \cup {None}]

RowOf(type, by, pass, tree, over) ==
  [type |-> type, by |-> by, pass |-> pass, tree |-> tree, over |-> over]

\* stamp: the commit it observed; scanned: the one at HEAD when it checked the files;
\* kept: the verdict of its record; over: the run it supersedes; born: the order of
\* createdAt; again: it was resubmitted; shared: another was in progress when it began.
RunState ==
  [at : {"new", "scan", "derive", "record", "signal", "done", "dead"},
   chain : Chain \cup {None}, stamp : Nat, scanned : Nat, pass : BOOLEAN,
   kept : BOOLEAN, over : Run \cup {None}, born : Nat, again : BOOLEAN,
   shared : BOOLEAN]

RunsTypeOK ==
  /\ log \in Seq(Row)
  /\ newest \in Nat /\ head \in 0 .. newest
  /\ edited \in BOOLEAN
  /\ onEdits \subseteq Run /\ rewound \subseteq Run
  /\ clock \in Nat
  /\ run \in [Run -> RunState]
  /\ moves \in 0 .. MaxMoves

RunsInit ==
  /\ log = <<>>
  /\ head = 0 /\ newest = 0
  /\ edited = FALSE
  /\ onEdits = {} /\ rewound = {}
  /\ clock = 0
  /\ run = [r \in Run |->
              [at |-> "new", chain |-> None, stamp |-> 0, scanned |-> 0, pass |-> FALSE,
               kept |-> FALSE, over |-> None, born |-> 0, again |-> FALSE,
               shared |-> FALSE]]
  /\ moves = MaxMoves

OneMove == moves > 0 /\ moves' = moves - 1

InProgress(r) == run[r].at \notin {"new", "done", "dead"}

\* The rows of a type up to position n, and the last of them (0: none).
RowsOf(type, n) == {i \in 1 .. n : log[i].type = type}
LastOf(type, n) == Max(RowsOf(type, n) \cup {0})

Has(type, r) == \E i \in RowsOf(type, Len(log)) : log[i].by = r

\* The records up to n that no record up to n supersedes.
Active(n) ==
  {i \in RowsOf("record", n) : \A j \in RowsOf("record", n) : log[j].over # log[i].by}

-----------------------------------------------------------------------------
\* scannedTree observes the tree before the checks execute.
Begin(r, c) ==
  /\ run[r].at = "new"
  /\ run' = [run EXCEPT ![r].at = "scan", ![r].chain = c, ![r].stamp = head,
                        ![r].shared = \E q \in Run \ {r} : InProgress(q)]
  /\ OneMove
  /\ UNCHANGED <<log, worktree, clock>>

\* The resubmission: the same operation, from its start.
Resubmit(r) ==
  /\ run[r].at = "dead"
  /\ run' = [run EXCEPT ![r].at = "scan", ![r].stamp = head, ![r].again = TRUE,
                        ![r].shared = @ \/ \E q \in Run \ {r} : InProgress(q)]
  /\ UNCHANGED <<log, worktree, moves, clock>>

\* MUTANT of Scan: the tree is observed after the checks.
ScanThenStamp(r) ==
  /\ run[r].at = "scan"
  /\ \E ok \in BOOLEAN, later \in {head, newest + 1} :
       /\ IF later = head THEN UNCHANGED <<moves, newest>> ELSE OneMove /\ newest' = later
       /\ run' = [run EXCEPT ![r].at = "derive", ![r].scanned = head, ![r].pass = ok,
                             ![r].stamp = later]
       /\ head' = later
  /\ onEdits' = IF edited THEN onEdits \cup {r} ELSE onEdits \ {r}
  /\ UNCHANGED <<log, edited, rewound, clock>>

\* executeProvider: the checks pass or not on the files as they are now, committed or
\* not, whatever commit is at HEAD.
Scan(r) ==
  /\ run[r].at = "scan"
  /\ \E ok \in BOOLEAN :
       run' = [run EXCEPT ![r].at = "derive", ![r].scanned = head, ![r].pass = ok]
  /\ onEdits' = IF edited THEN onEdits \cup {r} ELSE onEdits \ {r}
  /\ UNCHANGED <<log, head, newest, edited, rewound, moves, clock>>

\* MUTANT of Predecessor: only a record that passed is superseded.
PassedPredecessor(r) ==
  LET mine == {i \in RowsOf("record", Len(log)) :
                 run[log[i].by].chain = run[r].chain /\ log[i].pass}
      active == {i \in mine : \A j \in mine : log[j].over # log[i].by}
  IN  IF active = {} THEN None
      ELSE log[CHOOSE i \in active :
                 \A j \in active : run[log[j].by].born <= run[log[i].by].born].by

\* activePredecessor: of the active records of the chain, the last by createdAt.
Predecessor(r) ==
  LET mine == {i \in RowsOf("record", Len(log)) : run[log[i].by].chain = run[r].chain}
      active == {i \in mine : \A j \in mine : log[j].over # log[i].by}
  IN  IF active = {} THEN None
      ELSE log[CHOOSE i \in active :
                 \A j \in active : run[log[j].by].born <= run[log[i].by].born].by

\* Read the records: reuse that of this operation, or derive a new one.
Derive(r) ==
  /\ run[r].at = "derive"
  /\ \/ /\ Has("record", r)
        /\ run' = [run EXCEPT ![r].at = "signal"]
        /\ UNCHANGED clock
     \/ /\ ~Has("record", r)
        /\ run' = [run EXCEPT ![r].at = "record", ![r].kept = run[r].pass,
                              ![r].over = Predecessor(r),
                              ![r].born = clock + 1]
        /\ clock' = clock + 1
  /\ UNCHANGED <<log, worktree, moves>>

AppendRecord(r) ==
  /\ run[r].at = "record"
  /\ log' = Append(log, RowOf("record", r, run[r].kept, None, run[r].over))
  /\ run' = [run EXCEPT ![r].at = "signal"]
  /\ UNCHANGED <<worktree, moves, clock>>

\* appendGateExecutedSignal: the verdict of the record, the stamp of this attempt.
AppendSignal(r) ==
  /\ run[r].at = "signal"
  /\ log' = IF Has("signal", r) THEN log
            ELSE Append(log, RowOf("signal", r, run[r].kept, run[r].stamp, None))
  /\ run' = [run EXCEPT ![r].at = "done", ![r].stamp = 0]
  /\ UNCHANGED <<worktree, moves, clock>>

\* The process of a run ends.
RunDies(r) ==
  /\ InProgress(r)
  /\ OneMove
  /\ run' = [run EXCEPT ![r].at = "dead"]
  /\ UNCHANGED <<log, worktree, clock>>

\* An agent edits the files.
Edit ==
  /\ ~edited
  /\ OneMove
  /\ edited' = TRUE
  /\ UNCHANGED <<log, head, newest, onEdits, rewound, run, clock>>

\* An agent commits in the tree, everything or a part.
Commit ==
  /\ OneMove
  /\ newest' = newest + 1
  /\ head' = newest'
  /\ edited' \in {FALSE, edited}
  /\ UNCHANGED <<log, onEdits, rewound, run, clock>>

\* HEAD goes to another commit that was made, by a reset or a checkout, which carries
\* the edits along or drops them.
Checkout ==
  /\ OneMove
  /\ head' \in (0 .. newest) \ {head}
  /\ edited' \in {FALSE, edited}
  /\ rewound' = rewound \cup {r \in Run : run[r].at # "new"}
  /\ UNCHANGED <<log, newest, onEdits, run, clock>>

RunStep(r) ==
  \/ \E c \in Chain : Begin(r, c)
  \/ Resubmit(r) \/ Scan(r) \/ Derive(r)
  \/ AppendRecord(r) \/ AppendSignal(r) \/ RunDies(r)

RunsNext == Edit \/ Commit \/ Checkout \/ \E r \in Run : RunStep(r)
=============================================================================
