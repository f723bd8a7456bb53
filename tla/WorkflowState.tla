---------------------------- MODULE WorkflowState ----------------------------
(***************************************************************************)
(* The document of one workflow and the events of its stream: handleInit,   *)
(* handleSet and reconcileFromEvents of src/workflow, over a backend.       *)
(*                                                                          *)
(* Every handler is async and several processes share the store, so other   *)
(* calls run between any two of its reads, appends and writes.  An append   *)
(* and a setState are one transaction each.                                 *)
(*                                                                          *)
(* Abstracted: an edge whose guard fails is an edge that is absent, and the *)
(* diagnostic events no fold of phase or fields reads (guard-failed,        *)
(* cas-failed, checkpoint) are left out; the trail of a transition is its   *)
(* first event, workflow.transition, and its last, phase.entered; an update *)
(* sets one field; the checkpoint gate is off.  Without a backend, and for  *)
(* marks of completed tasks, see README.                                    *)
(***************************************************************************)
EXTENDS Integers, Sequences, FiniteSets

CONSTANTS
  Setter, Reconciler, Initializer,  \* calls, one use each
  Phase, Initial, Edge,             \* the workflow definition
  Field, Value,
  Requests,                         \* what a set call may ask
  MaxCasRetries,                    \* MAX_CAS_RETRIES
  MaxCalls, MaxCrashes, MaxFaults,  \* bounds: set and reconcile calls, deaths, failed appends
  None

Caller == Setter \cup Reconciler \cup Initializer

\* target and field are None when the call asks for no transition, no update.
Request == [target : Phase \cup {None}, field : Field \cup {None}, value : Value]

ASSUME CallersAssumption ==
  /\ Setter \cap Reconciler = {}
  /\ Setter \cap Initializer = {}
  /\ Reconciler \cap Initializer = {}

ASSUME WorkflowAssumption ==
  /\ Initial \in Phase
  /\ Edge \subseteq Phase \X Phase
  /\ Requests \subseteq Request
  /\ \A r \in Requests : r.target # None \/ r.field # None
  /\ {MaxCasRetries, MaxCalls, MaxCrashes, MaxFaults} \subseteq Nat

VARIABLES
  log,     \* the events of the stream
  doc,     \* the stored JSON, None before it is created
  column,  \* the version column of its row, 0 without a row
  call,    \* the calls in progress and their answers
  budget

vars == <<log, doc, column, call, budget>>

\* version is that of the idempotency key; an event without one is not keyed.
Event == [type : {"started", "transition", "entered", "patched"},
          from : Phase \cup {None}, to : Phase \cup {None},
          field : Field \cup {None}, value : Value \cup {None},
          version : Nat]

\* version: _version; at: _eventSequence; es: _esVersion is the current one.
Document == [version : Nat, phase : Phase, fields : [Field -> Value \cup {None}],
             at : Nat, es : BOOLEAN]

ASSUME NoneAssumption ==
  /\ None \notin Phase \cup Field \cup Value
  /\ None \notin Document \cup Request

NoDoc == [version |-> 0, phase |-> Initial, fields |-> [f \in Field |-> None],
          at |-> 0, es |-> FALSE]

\* base: what the call read, later what it will write; seq: the highest sequence
\* its events got; expected: the version its next write expects.
CallState ==
  [pc : {"idle", "read", "trail", "entered", "patch", "write", "started", "create",
         "query", "merge", "fresh", "retry", "blind", "done", "dead"},
   req : Request \cup {None}, base : Document, seq : Nat, expected : Nat,
   attempt : 0 .. MaxCasRetries,
   out : {"none", "ok", "same", "refused", "not-found", "exists", "conflict",
          "append-failed"}]

TypeOK ==
  /\ log \in Seq(Event)
  /\ doc \in Document \cup {None}
  /\ column \in Nat
  /\ call \in [Caller -> CallState]
  /\ budget \in [crashes : 0 .. MaxCrashes, faults : 0 .. MaxFaults]

Init ==
  /\ log = <<>>
  /\ doc = None
  /\ column = 0
  /\ call = [c \in Caller |->
               [pc |-> "idle", req |-> None, base |-> NoDoc, seq |-> 0, expected |-> 0,
                attempt |-> 0, out |-> "none"]]
  /\ budget = [crashes |-> MaxCrashes, faults |-> MaxFaults]

MayBegin == Cardinality({c \in Setter \cup Reconciler : call[c].pc # "idle"}) < MaxCalls

Ended(c, out) == call' = [call EXCEPT ![c].pc = "done", ![c].out = out]

(***************************************************************************)
(* The store: a keyed append and the compare-and-swap of the row.           *)
(***************************************************************************)

\* MUTANT of SameKey: the key of a patch leaves the field names out.
SameKeyAnyField(a, b) == a.type = b.type /\ a.to = b.to /\ a.version = b.version

\* The idempotency key of an event: all but the value of its patch.
SameKey(a, b) ==
  /\ a.type = b.type /\ a.version = b.version
  /\ a.from = b.from /\ a.to = b.to /\ a.field = b.field

Stored(e) == {i \in 1 .. Len(log) : SameKey(log[i], e)}

\* The sequence the append of e answers: that of the stored event on a key hit.
SequenceOf(e) == IF Stored(e) = {} THEN Len(log) + 1 ELSE CHOOSE i \in Stored(e) : TRUE

AppendKeyed(e) == log' = IF Stored(e) = {} THEN Append(log, e) ELSE log

Started == [type |-> "started", from |-> None, to |-> Initial,
            field |-> None, value |-> None, version |-> 0]

Moved(type, from, to, version) ==
  [type |-> type, from |-> from, to |-> to, field |-> None, value |-> None,
   version |-> version]

Patched(field, value, version) ==
  [type |-> "patched", from |-> None, to |-> None, field |-> field, value |-> value,
   version |-> version]

\* The row is rewritten: the column counts up, _version is what the JSON says.
Put(d) == doc' = d /\ column' = column + 1

-----------------------------------------------------------------------------
(***************************************************************************)
(* handleInit: workflow.started, then an exclusive create.                  *)
(***************************************************************************)
AppendStarted(c) ==
  /\ call[c].pc = "idle"
  /\ AppendKeyed(Started)
  /\ call' = [call EXCEPT ![c].pc = "started", ![c].seq = SequenceOf(Started)]
  /\ UNCHANGED <<doc, column, budget>>

CreateState(c) ==
  /\ call[c].pc = "started"
  /\ IF column = 0
       THEN /\ Put([NoDoc EXCEPT !.version = 1, !.at = call[c].seq, !.es = TRUE])
            /\ Ended(c, "ok")
       ELSE /\ Ended(c, "exists")
            /\ UNCHANGED <<doc, column>>
  /\ UNCHANGED <<log, budget>>

(***************************************************************************)
(* handleSet.                                                               *)
(***************************************************************************)
StartSet(c, r) ==
  /\ call[c].pc = "idle" /\ MayBegin
  /\ call' = [call EXCEPT ![c].pc = "read", ![c].req = r]
  /\ UNCHANGED <<log, doc, column, budget>>

Moves(c, d) == call[c].req.target \notin {None, d.phase}

\* MUTANT of ReadForSet: a retry takes the new version and keeps what it read.
ReadForSetStale(c) ==
  /\ call[c].pc = "read"
  /\ LET d == IF call[c].attempt = 0 THEN doc
              ELSE [call[c].base EXCEPT !.version = doc.version]
         r == call[c].req
     IN  IF doc = None THEN Ended(c, "not-found")
         ELSE IF Moves(c, d) /\ <<d.phase, r.target>> \notin Edge THEN Ended(c, "refused")
         ELSE IF ~Moves(c, d) /\ r.field = None THEN Ended(c, "same")
         ELSE call' = [call EXCEPT ![c].base = d, ![c].seq = 0, ![c].expected = d.version,
                                   ![c].pc = IF Moves(c, d) THEN "trail" ELSE "patch"]
  /\ UNCHANGED <<log, doc, column, budget>>

\* Read the state and decide: no edge refuses, a self-transition with nothing to
\* update answers at once.  A retry starts here again.
ReadForSet(c) ==
  /\ call[c].pc = "read"
  /\ LET r == call[c].req
     IN  \/ doc = None /\ Ended(c, "not-found")
         \/ /\ doc # None /\ Moves(c, doc) /\ <<doc.phase, r.target>> \notin Edge
            /\ Ended(c, "refused")
         \/ /\ doc # None /\ ~Moves(c, doc) /\ r.field = None
            /\ Ended(c, "same")
         \/ /\ doc # None
            /\ Moves(c, doc) => <<doc.phase, r.target>> \in Edge
            /\ Moves(c, doc) \/ r.field # None
            /\ call' = [call EXCEPT
                 ![c].base = doc, ![c].seq = 0, ![c].expected = doc.version,
                 ![c].pc = IF Moves(c, doc) THEN "trail" ELSE "patch"]
  /\ UNCHANGED <<log, doc, column, budget>>

\* The events of the transition, one append each.
AppendTrail(c) ==
  /\ call[c].pc \in {"trail", "entered"}
  /\ LET first == call[c].pc = "trail"
         from == call[c].base.phase
         e == Moved(IF first THEN "transition" ELSE "entered", from,
                    call[c].req.target, call[c].expected)
         b == [call[c].base EXCEPT !.phase = IF first THEN from ELSE call[c].req.target]
     IN  /\ AppendKeyed(e)
         /\ call' = [call EXCEPT ![c] =
              [call[c] EXCEPT !.seq = SequenceOf(e), !.base = b,
                              !.pc = IF first THEN "entered" ELSE "patch"]]
  /\ UNCHANGED <<doc, column, budget>>

\* state.patched, for an event-sourced workflow and a call that updates fields.
AppendPatch(c) ==
  /\ call[c].pc = "patch"
  /\ LET r == call[c].req
         e == Patched(r.field, r.value, call[c].expected)
     IN  IF r.field # None /\ call[c].base.es
           THEN /\ AppendKeyed(e)
                /\ call' = [call EXCEPT ![c].pc = "write", ![c].seq =
                              IF SequenceOf(e) > @ THEN SequenceOf(e) ELSE @]
           ELSE /\ call' = [call EXCEPT ![c].pc = "write"]
                /\ UNCHANGED log
  /\ UNCHANGED <<doc, column, budget>>

\* MUTANT of AppendFails: an append is best effort.
AppendFailsUnseen(c) ==
  /\ call[c].pc \in {"trail", "entered", "patch"}
  /\ budget.faults > 0
  /\ budget' = [budget EXCEPT !.faults = @ - 1]
  /\ call' = [call EXCEPT ![c].pc = "write", ![c].base.phase =
                IF Moves(c, call[c].base) THEN call[c].req.target ELSE @]
  /\ UNCHANGED <<log, doc, column>>

\* An append that fails ends the call; the earlier events of its trail stay.
AppendFails(c) ==
  /\ call[c].pc \in {"trail", "entered", "patch"}
  /\ budget.faults > 0
  /\ budget' = [budget EXCEPT !.faults = @ - 1]
  /\ Ended(c, "append-failed")
  /\ UNCHANGED <<log, doc, column>>

\* MUTANT of Written: the version is written as it was read.
WrittenSameVersion(c) ==
  LET s == call[c]
      r == s.req
  IN  [s.base EXCEPT !.at = IF s.seq = 0 THEN @ ELSE s.seq,
                     !.fields = IF r.field = None THEN @
                                ELSE [@ EXCEPT ![r.field] = r.value]]

\* What a set writes: the copy it read with its own changes.
Written(c) ==
  LET s == call[c]
      r == s.req
  IN  [s.base EXCEPT !.version = @ + 1,
                     !.at = IF s.seq = 0 THEN @ ELSE s.seq,
                     !.fields = IF r.field = None THEN @
                                ELSE [@ EXCEPT ![r.field] = r.value]]

\* MUTANT of WriteSet: no compare-and-swap.
WriteSetBlind(c) ==
  /\ call[c].pc = "write"
  /\ Put(Written(c))
  /\ Ended(c, "ok")
  /\ UNCHANGED <<log, budget>>

\* A lost compare-and-swap starts over, three times at most.
WriteSet(c) ==
  /\ call[c].pc = "write"
  /\ \/ /\ column = call[c].expected
        /\ Put(Written(c))
        /\ Ended(c, "ok")
     \/ /\ column # call[c].expected
        /\ IF call[c].attempt < MaxCasRetries
             THEN call' = [call EXCEPT ![c].pc = "read", ![c].attempt = @ + 1]
             ELSE Ended(c, "conflict")
        /\ UNCHANGED <<doc, column>>
  /\ UNCHANGED <<log, budget>>

(***************************************************************************)
(* reconcileFromEvents.                                                     *)
(***************************************************************************)
\* Without a document, workflow.started asks for one to be created.
ReadForReconcile(c) ==
  /\ call[c].pc = "idle" /\ MayBegin
  /\ IF doc # None
       THEN call' = [call EXCEPT ![c].base = doc, ![c].expected = doc.version,
                                 ![c].pc = "query"]
       ELSE IF Stored(Started) = {} THEN Ended(c, "same")
       ELSE call' = [call EXCEPT ![c].pc = "create"]
  /\ UNCHANGED <<log, doc, column, budget>>

\* initStateFile without the extra fields of handleInit.
CreateFromEvents(c) ==
  /\ call[c].pc = "create"
  /\ IF column = 0
       THEN LET d == [NoDoc EXCEPT !.version = 1]
            IN  /\ Put(d)
                /\ call' = [call EXCEPT ![c].base = d, ![c].expected = 1, ![c].pc = "query"]
       ELSE /\ Ended(c, "exists")
            /\ UNCHANGED <<doc, column>>
  /\ UNCHANGED <<log, budget>>

Latest(S) == CHOOSE i \in S : \A j \in S : j <= i

\* The fold of the events after d.at: the last move and the last patch of a field.
Folded(d) ==
  LET new == (d.at + 1) .. Len(log)
      moves == {i \in new : log[i].type \in {"started", "transition"}}
      patches(f) == {i \in new : log[i].type = "patched" /\ log[i].field = f}
  IN  [d EXCEPT !.at = Len(log),
                !.phase = IF moves = {} THEN @ ELSE log[Latest(moves)].to,
                !.fields = [f \in Field |-> IF patches(f) = {} THEN @[f]
                                            ELSE log[Latest(patches(f))].value]]

\* MUTANT of QueryAndFold: the cursor moves past moves that were not folded.
QueryAndFoldKeepsPhase(c) ==
  /\ call[c].pc = "query"
  /\ IF call[c].base.at >= Len(log)
       THEN Ended(c, "same")
       ELSE call' = [call EXCEPT ![c].base = [Folded(@) EXCEPT !.phase = call[c].base.phase],
                                 ![c].pc = "merge"]
  /\ UNCHANGED <<log, doc, column, budget>>

QueryAndFold(c) ==
  /\ call[c].pc = "query"
  /\ IF call[c].base.at >= Len(log)
       THEN Ended(c, "same")
       ELSE call' = [call EXCEPT ![c].base = Folded(@), ![c].pc = "merge"]
  /\ UNCHANGED <<log, doc, column, budget>>

\* The version of what it writes is that of what it read, on every attempt.
Merged(c) == [call[c].base EXCEPT !.version = @ + 1]

WriteMerge(c) ==
  /\ call[c].pc \in {"merge", "retry"}
  /\ \/ /\ column = call[c].expected
        /\ Put(Merged(c))
        /\ Ended(c, "ok")
     \/ /\ column # call[c].expected
        /\ call' = [call EXCEPT ![c].pc = IF @ = "merge" THEN "fresh" ELSE "blind"]
        /\ UNCHANGED <<doc, column>>
  /\ UNCHANGED <<log, budget>>

ReadFreshVersion(c) ==
  /\ call[c].pc = "fresh"
  /\ call' = [call EXCEPT ![c].expected = doc.version, ![c].pc = "retry"]
  /\ UNCHANGED <<log, doc, column, budget>>

\* reconcile is the recovery path: the last write has no compare-and-swap.
WriteBlind(c) ==
  /\ call[c].pc = "blind"
  /\ Put(Merged(c))
  /\ Ended(c, "ok")
  /\ UNCHANGED <<log, budget>>

Crash(c) ==
  /\ call[c].pc \notin {"idle", "done", "dead"}
  /\ budget.crashes > 0
  /\ budget' = [budget EXCEPT !.crashes = @ - 1]
  /\ call' = [call EXCEPT ![c].pc = "dead"]
  /\ UNCHANGED <<log, doc, column>>

-----------------------------------------------------------------------------
InitStep(c) == AppendStarted(c) \/ CreateState(c)

SetStep(c) ==
  \/ \E r \in Requests : StartSet(c, r)
  \/ ReadForSet(c) \/ AppendTrail(c) \/ AppendPatch(c) \/ AppendFails(c) \/ WriteSet(c)

ReconcileStep(c) ==
  \/ ReadForReconcile(c) \/ CreateFromEvents(c) \/ QueryAndFold(c)
  \/ WriteMerge(c) \/ ReadFreshVersion(c) \/ WriteBlind(c)

Quiet == \A c \in Caller : call[c].pc \in {"idle", "done", "dead"}

Finished == Quiet /\ UNCHANGED vars

Next ==
  \/ \E c \in Initializer : InitStep(c)
  \/ \E c \in Setter : SetStep(c)
  \/ \E c \in Reconciler : ReconcileStep(c)
  \/ \E c \in Caller : Crash(c)
  \/ Finished

Spec == Init /\ [][Next]_vars

(***************************************************************************)
(* Properties.                                                              *)
(***************************************************************************)

\* No reconcile has begun.  One that races a set may undo it (ReconcileRace).
Undisturbed == \A c \in Reconciler : call[c].pc = "idle"

\* The _version a reader takes as expectedVersion is the version the write
\* compares: a set that nobody races does not conflict.
VersionIsColumn == IF doc = None THEN column = 0 ELSE doc.version = column

\* Sets that race, retry, fail and die keep it so.
VersionsAgree == Undisturbed => VersionIsColumn

\* A field update that was answered with success stays until another call
\* updates the same field, whatever calls race it, retry or die.
AcknowledgedKept ==
  Undisturbed =>
    \A c \in Setter :
      LET r == call[c].req
      IN  (/\ call[c].out = "ok" /\ r.field # None
           /\ \A o \in Setter \ {c} :
                call[o].req # None => call[o].req.field # r.field)
          => doc.fields[r.field] = r.value

\* The document changes its phase only along an edge of the workflow: no race or
\* retry takes it where the definition has no transition.
PhaseStepsLegal ==
  [][(Undisturbed' /\ doc # None /\ doc' # None) =>
       (doc'.phase = doc.phase \/ <<doc.phase, doc'.phase>> \in Edge)]_vars

\* The phase of the document has its obligations frozen in the log by a
\* phase.entered event, the initial phase apart.  (A reconcile may take the phase
\* from a trail that has not come to that event.)
ObligationFrozen ==
  (Undisturbed /\ doc # None /\ doc.phase # Initial) =>
    \E i \in 1 .. Len(log) : log[i].type = "entered" /\ log[i].to = doc.phase

\* A call logged the update of f to v and has not been answered with success.
Unanswered(f, v) ==
  \E c \in Setter : /\ call[c].req # None /\ call[c].out # "ok"
                    /\ call[c].req.field = f /\ call[c].req.value = v

\* The key of a patch leaves the values out, so of two calls that update a field at
\* one version the log keeps the first and the document may hold the second.  Then
\* the call whose patch took the key has no success: its write lost the race, or it
\* failed or died.  No value is missing from the log for a reason other than that.
UnloggedIsContested ==
  (Undisturbed /\ doc # None /\ doc.es) =>
    \A f \in Field : doc.fields[f] # None =>
      \E i \in 1 .. Len(log) :
        /\ log[i].type = "patched" /\ log[i].field = f
        /\ log[i].value = doc.fields[f] \/ Unanswered(f, log[i].value)

\* A set that updates a field of an event-sourced workflow and answers with success
\* has its state.patched in the log, as the description of the action promises.  The code
\* does not keep it: see UnloggedIsContested for what it does keep.
AcknowledgedLogged ==
  \A c \in Setter :
    LET r == call[c].req
    IN  (call[c].out = "ok" /\ r.field # None /\ call[c].base.es) =>
          \E i \in 1 .. Len(log) :
            log[i].type = "patched" /\ log[i].field = r.field /\ log[i].value = r.value

IsFold == doc.phase = Folded(NoDoc).phase /\ doc.fields = Folded(NoDoc).fields

\* Reconciles repair what one set left when it died or failed: when no call is in
\* progress and an event-sourced document claims to reflect the whole log, it is
\* the fold of the log.
CaughtUpIsFold ==
  (/\ Quiet /\ doc # None /\ doc.es /\ doc.at = Len(log)
   /\ Cardinality({c \in Setter : call[c].pc # "idle"}) <= 1) => IsFold

\* Calls that race and all succeed, at whatever retry, leave a document that is
\* the fold of the log: the write order and the append order of two calls that
\* touch the same state never disagree.
SucceededIsFold ==
  (/\ Undisturbed /\ Quiet /\ doc # None /\ doc.es
   /\ \A c \in Caller : call[c].pc # "dead" /\ call[c].out \in {"none", "ok"}) => IsFold
=============================================================================
