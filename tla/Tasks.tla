------------------------------- MODULE Tasks -------------------------------
(***************************************************************************)
(* task_claim, task_complete and task_fail of verbs/tasks/tools.ts on one   *)
(* task of one workflow, next to the gate runs, the agents and the          *)
(* orchestrator that append to its stream, and the document in which        *)
(* task_complete marks the task.                                            *)
(*                                                                          *)
(* An action ends at an await.  An append is one step of it, so the row of  *)
(* its key may come to be stored between the lookup of the key and the      *)
(* comparison of the expected sequence (AtomicAppender): both answers are   *)
(* possible then.  A fold at the pinned tail (foldToTail) is that of log at *)
(* the tail, because rows are only added.                                   *)
(*                                                                          *)
(* Left out: the evidence of a caller, which a blocking gate ignores; the   *)
(* scope rules of a capsule; the payload of the rows.                       *)
(***************************************************************************)
EXTENDS GateRuns

CONSTANTS
  ClaimTries,      \* MAX_CLAIM_RETRIES
  CompleteTries,   \* MAX_COMPLETE_ATTEMPTS
  SyncTries        \* maxAttempts of markTasksCompleteInStateDocument

ASSUME TasksAssumption ==
  /\ Claimer \cap (Completer \cup Failer) = {} /\ Completer \cap Failer = {}
  /\ {ClaimTries, CompleteTries, SyncTries} \subseteq Nat \ {0}

VARIABLES
  doc,     \* the task in the state document, and the version of its row
  call     \* call[c]: the progress of call c

vars == <<log, worktree, clock, run, moves, doc, call>>

\* tail: the pinned tail; row: the stored completion (0: none); signal: the latest
\* signal; version: of the document it read; named: it names the tree; capsule: the
\* prepared row it names (0: the latest).
CallState ==
  [at : {"new", "fold", "raw", "claim", "pin", "stored", "failures", "mend", "mending",
         "prepared", "revised", "signals", "records", "tree", "append", "sync",
         "syncing", "over", "dead"},
   tail : Nat, row : Nat, open : BOOLEAN, since : Nat, signal : Nat, tree : Nat \cup {None},
   version : Nat, tries : Nat, syncs : Nat, named : BOOLEAN, capsule : Nat,
   answer : {"none", "ok", "already", "refused", "unsynced", "conflict"}]

TypeOK ==
  /\ RunsTypeOK
  /\ doc \in [status : {"open", "complete"}, version : Nat]
  /\ call \in [Call -> CallState]

Local ==
  [at |-> "new", tail |-> 0, row |-> 0, open |-> TRUE, since |-> 0, signal |-> 0,
   tree |-> None, version |-> 0, tries |-> 0, syncs |-> 0, named |-> FALSE,
   capsule |-> 0, answer |-> "none"]

\* The document lists the task; one that does not answers as one that has it complete.
Init ==
  /\ RunsInit
  /\ doc = [status |-> "open", version |-> 1]
  /\ call = [c \in Call |-> Local]

Moves(c, at) == call' = [call EXCEPT ![c].at = at]

\* A call ends; what its refusals read is kept for the properties.
Ended(c, at, answer) ==
  call' = [call EXCEPT ![c] = [Local EXCEPT !.at = at, !.answer = answer,
                                            !.since = call[c].since,
                                            !.capsule = call[c].capsule]]
Answers(c, answer) == Ended(c, "over", answer)

\* task-store@v1: each task row sets the status of its name.
TaskRows == {"assigned", "claimed", "progressed", "completed", "failed"}
Status(n) ==
  LET last == Max({i \in 1 .. n : log[i].type \in TaskRows} \cup {0})
  IN  IF last = 0 THEN "none" ELSE log[last].type

\* Rows that agents and the orchestrator append without a pin.
Report(type) ==
  /\ OneMove
  /\ log' = Append(log, RowOf(type, None, FALSE, None, None))
  /\ UNCHANGED <<worktree, clock, run, doc, call>>

\* Another handler writes the document, under its own compare-and-swap.  Only while
\* the task is open in it does a call compare its version.
WriteElsewhere ==
  /\ OneMove
  /\ doc.status = "open"
  /\ doc' = [doc EXCEPT !.version = @ + 1]
  /\ UNCHANGED <<log, worktree, clock, run, call>>

-----------------------------------------------------------------------------
(***************************************************************************)
(* handleTaskClaim.                                                         *)
(***************************************************************************)
Taken == {"claimed", "completed", "failed"}

FoldForClaim(c) ==
  /\ \/ call[c].at = "new" /\ OneMove
     \/ call[c].at = "fold" /\ UNCHANGED moves
  /\ \/ Status(Len(log)) \in Taken /\ Answers(c, "already")
     \/ /\ Status(Len(log)) \notin Taken
        /\ call' = [call EXCEPT
             ![c].at = IF Status(Len(log)) = "none" THEN "raw" ELSE "claim",
             ![c].tail = Len(log)]
  /\ UNCHANGED <<log, worktree, clock, run, doc>>

\* Without an entry in the view, the raw events are read too.
ReadRaw(c) ==
  /\ call[c].at = "raw"
  /\ \/ (\E i \in 1 .. Len(log) : log[i].type \in Taken) /\ Answers(c, "already")
     \/ (\A i \in 1 .. Len(log) : log[i].type \notin Taken) /\ Moves(c, "claim")
  /\ UNCHANGED <<log, worktree, clock, run, moves, doc>>

\* MUTANT of AppendClaim: the claim has no expected sequence.
AppendClaimUnpinned(c) ==
  /\ call[c].at = "claim"
  /\ log' = Append(log, RowOf("claimed", c, FALSE, None, None))
  /\ Answers(c, "ok")
  /\ UNCHANGED <<worktree, clock, run, moves, doc>>

AppendClaim(c) ==
  /\ call[c].at = "claim"
  /\ \/ /\ Len(log) = call[c].tail
        /\ log' = Append(log, RowOf("claimed", c, FALSE, None, None))
        /\ Answers(c, "ok")
     \/ /\ Len(log) # call[c].tail
        /\ IF call[c].tries + 1 < ClaimTries
             THEN call' = [call EXCEPT ![c].at = "fold", ![c].tries = @ + 1]
             ELSE Answers(c, "conflict")
        /\ UNCHANGED log
  /\ UNCHANGED <<worktree, clock, run, moves, doc>>

(***************************************************************************)
(* handleTaskFail: one key per task.                                        *)
(***************************************************************************)
AppendFailure(c) ==
  /\ call[c].at = "new"
  /\ OneMove
  /\ log' = IF RowsOf("failed", Len(log)) # {} THEN log
            ELSE Append(log, RowOf("failed", c, FALSE, None, None))
  /\ Answers(c, "ok")
  /\ UNCHANGED <<worktree, clock, run, doc>>

(***************************************************************************)
(* handleTaskComplete: completionStanding.                                  *)
(***************************************************************************)
StartComplete(c, named, capsule) ==
  /\ call[c].at = "new"
  /\ OneMove
  /\ call' = [call EXCEPT ![c].at = "pin", ![c].named = named, ![c].capsule = capsule]
  /\ UNCHANGED <<log, worktree, clock, run, doc>>

\* tailSequence, then the completion stored under the key of the task.
PinTail(c) ==
  /\ call[c].at = "pin"
  /\ call' = [call EXCEPT ![c].at = "stored", ![c].tail = Len(log), ![c].open = TRUE]
  /\ UNCHANGED <<log, worktree, clock, run, moves, doc>>

ReadStored(c) ==
  /\ call[c].at = "stored"
  /\ LET row == LastOf("completed", Len(log))
     IN  call' = [call EXCEPT ![c].row = row,
                              ![c].at = IF row = 0 THEN "prepared" ELSE "failures"]
  /\ UNCHANGED <<log, worktree, clock, run, moves, doc>>

\* A failure after it reopens the task; else the document is brought level first.
ReadFailures(c) ==
  /\ call[c].at = "failures"
  /\ Moves(c, IF LastOf("failed", Len(log)) > call[c].row THEN "prepared" ELSE "mend")
  /\ UNCHANGED <<log, worktree, clock, run, moves, doc>>

\* revisionRefusal: the reference record, then the revisions after it.  A capsule
\* that the call names was prepared.
ReadPrepared(c) ==
  /\ call[c].at = "prepared"
  /\ LET prepared == RowsOf("prepared", Len(log))
         since == IF call[c].capsule = 0 THEN Max(prepared \cup {0}) ELSE call[c].capsule
     IN  IF since = 0 THEN call' = [call EXCEPT ![c].at = "signals", ![c].since = 0]
         ELSE call' = [call EXCEPT ![c].at = "revised", ![c].since = since]
  /\ UNCHANGED <<log, worktree, clock, run, moves, doc>>

ReadRevisions(c) ==
  /\ call[c].at = "revised"
  /\ IF LastOf("revised", Len(log)) > call[c].since THEN Answers(c, "refused")
     ELSE Moves(c, "signals")
  /\ UNCHANGED <<log, worktree, clock, run, moves, doc>>

(***************************************************************************)
(* gateRefusal: the latest signal passes and cites an active record, and no *)
(* active record fails.                                                     *)
(***************************************************************************)
Passes(signal, n) ==
  /\ signal # 0 /\ log[signal].pass
  /\ \E i \in Active(n) : log[i].by = log[signal].by
  /\ \A i \in Active(n) : log[i].pass

ReadSignals(c) ==
  /\ call[c].at = "signals"
  /\ call' = [call EXCEPT ![c].at = "records", ![c].signal = LastOf("signal", Len(log))]
  /\ UNCHANGED <<log, worktree, clock, run, moves, doc>>

\* A pass answers a completion that stands; else the tree is judged.
ReadRecords(c) ==
  /\ call[c].at = "records"
  /\ IF ~Passes(call[c].signal, Len(log)) THEN Answers(c, "refused")
     ELSE IF ~call[c].open THEN Answers(c, "ok")
     ELSE Moves(c, "tree")
  /\ UNCHANGED <<log, worktree, clock, run, moves, doc>>

\* treeRefusal: the commit that git observes now is the one the signal names.
JudgeTree(c) ==
  /\ call[c].at = "tree"
  /\ IF call[c].named /\ head = log[call[c].signal].tree
       THEN call' = [call EXCEPT ![c].at = "append", ![c].tree = head]
     ELSE IF ~call[c].named /\ call[c].since = 0
       THEN call' = [call EXCEPT ![c].at = "append", ![c].tree = None]
     ELSE Answers(c, "refused")
  /\ UNCHANGED <<log, worktree, clock, run, moves, doc>>

\* MUTANT of AppendCompleted: the completion has no expected sequence.
AppendCompletedUnpinned(c) ==
  /\ call[c].at = "append"
  /\ log' = IF RowsOf("completed", Len(log)) # {} THEN log
            ELSE Append(log, RowOf("completed", c, FALSE, call[c].tree, None))
  /\ Moves(c, "sync")
  /\ UNCHANGED <<worktree, clock, run, moves, doc>>

AppendCompleted(c) ==
  /\ call[c].at = "append"
  /\ \/ /\ RowsOf("completed", Len(log)) # {}
        /\ Moves(c, "sync")
        /\ UNCHANGED log
     \/ /\ RowsOf("completed", Len(log)) = {} /\ Len(log) = call[c].tail
        /\ log' = Append(log, RowOf("completed", c, FALSE, call[c].tree, None))
        /\ Moves(c, "sync")
     \/ /\ Len(log) # call[c].tail
        /\ IF call[c].tries + 1 < CompleteTries
             THEN call' = [call EXCEPT ![c].at = "pin", ![c].tries = @ + 1]
             ELSE Answers(c, "conflict")
        /\ UNCHANGED log
  /\ UNCHANGED <<worktree, clock, run, moves, doc>>

(***************************************************************************)
(* markTasksCompleteInStateDocument, after the append ("sync") and for a    *)
(* completion that stands ("mend").                                         *)
(***************************************************************************)
ReadDocument(c) ==
  /\ call[c].at \in {"sync", "mend"}
  /\ IF doc.status = "open"
       THEN call' = [call EXCEPT ![c].version = doc.version,
                                 ![c].at = IF @ = "sync" THEN "syncing" ELSE "mending"]
     ELSE IF call[c].at = "sync" THEN Answers(c, "ok")
     ELSE call' = [call EXCEPT ![c].at = "signals", ![c].open = FALSE, ![c].syncs = 0]
  /\ UNCHANGED <<log, worktree, clock, run, moves, doc>>

\* MUTANT of WriteDocument: a conflict counts as synced.
WriteDocumentGivesUp(c) ==
  /\ call[c].at \in {"syncing", "mending"}
  /\ Answers(c, "ok")
  /\ doc' = IF doc.version = call[c].version
              THEN [status |-> "complete", version |-> doc.version + 1] ELSE doc
  /\ UNCHANGED <<log, worktree, clock, run, moves>>

WriteDocument(c) ==
  /\ call[c].at \in {"syncing", "mending"}
  /\ \/ /\ doc.version = call[c].version
        /\ doc' = [status |-> "complete", version |-> doc.version + 1]
        /\ Answers(c, "ok")
     \/ /\ doc.version # call[c].version
        /\ IF call[c].syncs + 1 < SyncTries
             THEN call' = [call EXCEPT ![c].at = IF @ = "syncing" THEN "sync" ELSE "mend",
                                       ![c].syncs = @ + 1]
             ELSE Answers(c, "unsynced")
        /\ UNCHANGED doc
  /\ UNCHANGED <<log, worktree, clock, run, moves>>

\* The process of a call ends.
CallDies(c) ==
  /\ call[c].at \notin {"new", "over", "dead"}
  /\ OneMove
  /\ Ended(c, "dead", "none")
  /\ UNCHANGED <<log, worktree, clock, run, doc>>

-----------------------------------------------------------------------------
ClaimStep(c) == FoldForClaim(c) \/ ReadRaw(c) \/ AppendClaim(c)

CompleteStep(c) ==
  \/ \E named \in BOOLEAN, capsule \in {0} \cup RowsOf("prepared", Len(log)) :
       StartComplete(c, named, capsule)
  \/ PinTail(c) \/ ReadStored(c) \/ ReadFailures(c) \/ ReadPrepared(c) \/ ReadRevisions(c)
  \/ ReadSignals(c) \/ ReadRecords(c) \/ JudgeTree(c) \/ AppendCompleted(c)
  \/ ReadDocument(c) \/ WriteDocument(c)

Outside ==
  \/ \E type \in {"assigned", "progressed", "prepared", "revised"} : Report(type)
  \/ WriteElsewhere

Finished ==
  /\ \A c \in Call : call[c].at \in {"new", "over", "dead"}
  /\ \A r \in Run : ~InProgress(r)
  /\ UNCHANGED vars

Next ==
  \/ RunsNext /\ UNCHANGED <<doc, call>>
  \/ \E c \in Claimer : ClaimStep(c)
  \/ \E c \in Failer : AppendFailure(c)
  \/ \E c \in Completer : CompleteStep(c)
  \/ \E c \in Call : CallDies(c)
  \/ Outside
  \/ Finished

Spec == Init /\ [][Next]_vars

(***************************************************************************)
(* Properties.                                                              *)
(***************************************************************************)
Completions == RowsOf("completed", Len(log))

\* No claim is logged while the last task row of the task is a claim, a completion or
\* a failure: of two agents that fold an unclaimed task, the pin refuses the second,
\* whatever it read.  Other rows reopen the task, see OneClaim.
ClaimsApart == \A i \in RowsOf("claimed", Len(log)) : Status(i - 1) \notin Taken

\* "Returns ALREADY_CLAIMED if previously claimed" (the reference of the tool): no
\* second claim before the task is assigned again.  The code does not keep it: after a
\* progress row of the first agent, Status lets a second one through.
OneClaim ==
  \A i, j \in RowsOf("claimed", Len(log)) :
    i < j => \E k \in i .. j : log[k].type = "assigned"

\* The row of a completion rests on the whole log before it: the latest run passes,
\* no record that stands fails, and no revision after its capsule names the task,
\* whatever was appended while the call read.
CompletedStands ==
  \A i \in Completions :
    /\ Passes(LastOf("signal", i - 1), i - 1)
    /\ call[log[i].by].since # 0 => LastOf("revised", i - 1) < call[log[i].by].since
    /\ call[log[i].by].capsule = 0 => call[log[i].by].since = LastOf("prepared", i - 1)

RunOf(i) == log[LastOf("signal", i - 1)].by

\* The run that a completion rests on passed with the commit of the completion at HEAD.
Checked(i) == LET r == RunOf(i) IN log[i].tree = run[r].scanned /\ run[r].pass

\* A run observes HEAD before its checks and a completion after them: a commit in
\* between shows, whenever it comes.  It says nothing of the files (CommitPassed), nor
\* of a HEAD that left and came back, nor of a resubmitted run (OnlyPassingTree).
CheckedAtHead ==
  \A i \in Completions :
    log[i].tree # None => run[RunOf(i)].again \/ RunOf(i) \in rewound \/ Checked(i)

\* "The call accepts only a passing check_static_analysis run of the task on that tree,
\* at its current commit" (the reference of the tool), when HEAD only goes forward.
OnlyPassingTree ==
  \A i \in Completions : log[i].tree # None => RunOf(i) \in rewound \/ Checked(i)

\* "A pass counts only on the tree and the commit that the completion names" (tools.ts):
\* what the run checked was the commit, with a run that was not resubmitted.  The code
\* does not keep it: files with edits pass, and the run is stamped with HEAD.
CommitPassed ==
  \A i \in Completions :
    log[i].tree # None =>
      run[RunOf(i)].again \/ (Checked(i) /\ RunOf(i) \notin onEdits)

\* The document that the transition guards read: complete only with the row in the
\* log, and complete when a caller was told so.
DocumentAgrees ==
  /\ doc.status = "complete" => Completions # {}
  /\ \A c \in Completer : call[c].answer = "ok" => doc.status # "open"

\* Runs one after the other supersede each other: when the last run of each chain
\* passed and the last signal is that of the last record, the gate accepts.
RerunsClear ==
  LET n == Len(log)
      chainOf(i) == run[log[i].by].chain
      latest == {i \in RowsOf("record", n) :
                   \A j \in RowsOf("record", n) : chainOf(j) = chainOf(i) => j <= i}
  IN  (/\ latest # {}
       /\ \A i \in latest : log[i].pass
       /\ LastOf("signal", n) # 0
       /\ log[LastOf("signal", n)].by = log[LastOf("record", n)].by
       /\ \A r \in Run : ~run[r].shared)
      => Passes(LastOf("signal", n), n)
=============================================================================
