---------------------- MODULE AtomicAppenderRefinement ----------------------
(***************************************************************************)
(* The appender implements IdempotentLog: the rows without their numbers    *)
(* are the history, the claim tables name the owners.                       *)
(***************************************************************************)
EXTENDS AtomicAppender

\* The reserved claim stream of decideOnce, DECIDE_ONCE_CLAIM_STREAM.
Ops == "__decide_once_operations__"

\* validateStreamId accepts the reserved name: that no caller uses it for a
\* stream of events is assumed.
ASSUME OpsAssumption == Ops \notin Stream

Writer(claim) == IF claim = None THEN None ELSE claim.by

history ==
  [s \in Stream |-> [i \in 1 .. Len(log[s]) |-> [key |-> log[s][i].key, by |-> log[s][i].by]]]

owner ==
  [x \in Stream \cup {Ops} |->
     [k \in Key |->
        IF x \in Stream THEN Writer(claims[x][k])
        ELSE IF opClaims[k] = None THEN None ELSE opClaims[k].batch.by]]

\* What the caller of c has learned.  A call whose process died learns no more.
told ==
  [c \in Call |->
     IF answer[c] = None THEN "open"
     ELSE IF answer[c].batch = None THEN "failed"
     ELSE IF pc[c] = "done" THEN answer[c].batch.by
     ELSE "written"]

Abstract == INSTANCE IdempotentLog WITH history <- history, owner <- owner, told <- told

\* The appender, under every interleaving of its callers, processes, crashes and
\* busy retries, is a log with at-most-once keyed writes.
ImplementsIdempotentLog == Abstract!Spec
=============================================================================
