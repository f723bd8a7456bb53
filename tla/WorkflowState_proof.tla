------------------------- MODULE WorkflowState_proof -------------------------
(***************************************************************************)
(* What holds of WorkflowState, for any number of calls, retries, crashes   *)
(* and failed appends:                                                      *)
(*   - until a reconcile begins, _version is the version column, every      *)
(*     phase change is on an edge, what was acknowledged stays and the      *)
(*     phase has its obligations frozen;                                    *)
(*   - until then too, a value without its event lost its key to a call    *)
(*     that has had no success;                                             *)
(*   - sets that race and all succeed leave the fold of the log, and        *)
(*     reconciles repair what one set left behind.                          *)
(***************************************************************************)
EXTENDS WorkflowState, FiniteSetTheorems, WellFoundedInduction, TLAPS

\* A call between its read and its write: what it holds is what the document
\* says, unless the column has moved past the version it expects.
SetInv(c) ==
  LET s == call[c]
  IN  /\ s.pc \notin {"create", "query", "merge", "fresh", "retry", "blind"}
      /\ s.pc \in {"read", "trail", "entered", "patch", "write"} => s.req \in Request
      /\ s.pc \in {"trail", "entered"} => s.req.target \in Phase
      /\ s.pc \in {"trail", "entered", "patch", "write"} =>
           /\ doc # None
           /\ s.base.version = s.expected
           /\ s.expected <= column
           /\ s.expected = column =>
                /\ s.pc \in {"trail", "entered"} =>
                     s.base.phase = doc.phase /\ <<doc.phase, s.req.target>> \in Edge
                /\ s.pc \in {"patch", "write"} =>
                     s.base.phase = doc.phase \/ <<doc.phase, s.base.phase>> \in Edge

IInv ==
  /\ TypeOK
  /\ VersionIsColumn
  /\ doc # None => column >= 1
  /\ \A c \in Caller : SetInv(c)

LEMMA NoneApart ==
  /\ None \notin Document
  /\ None \notin Phase
  /\ None \notin Field
  /\ None \notin Request
  BY NoneAssumption DEF NoneAssumption

LEMMA NoDocTyped == NoDoc \in Document
  BY WorkflowAssumption DEF NoDoc, Document, WorkflowAssumption

\* The append of an event answers a natural number and keeps the log typed.
LEMMA AppendTyped ==
  ASSUME log \in Seq(Event), NEW e \in Event
  PROVE  /\ SequenceOf(e) \in Nat
         /\ AppendKeyed(e) => log' \in Seq(Event)
<1>1. Len(log) \in Nat
  OBVIOUS
<1>2. Stored(e) \subseteq 1 .. Len(log)
  BY DEF Stored
<1>3. CASE Stored(e) = {}
  BY <1>1, <1>3 DEF SequenceOf, AppendKeyed
<1>4. CASE Stored(e) # {}
  <2>1. (CHOOSE i \in Stored(e) : TRUE) \in Stored(e)
    BY <1>4
  <2>2. SequenceOf(e) \in 1 .. Len(log)
    BY <1>2, <1>4, <2>1 DEF SequenceOf
  <2> QED
    BY <1>1, <1>4, <2>2 DEF AppendKeyed
<1> QED
  BY <1>3, <1>4

\* One call changes its own state and at most rewrites the row to the next
\* version: that is enough when the new state of the call is right.
LEMMA OneCall ==
  ASSUME IInv, NEW c \in Caller, NEW s \in CallState,
         call' = [call EXCEPT ![c] = s],
         log' \in Seq(Event),
         budget' \in [crashes : 0 .. MaxCrashes, faults : 0 .. MaxFaults],
         \/ UNCHANGED <<doc, column>>
         \/ /\ doc' \in Document
            /\ column' = column + 1
            /\ doc'.version = column',
         SetInv(c)'
  PROVE  IInv'
<1>1. call' \in [Caller -> CallState] /\ column \in Nat
  BY DEF IInv, TypeOK
<1>2. TypeOK'
  BY <1>1 DEF IInv, TypeOK
<1>3. VersionIsColumn' /\ (doc # None => column >= 1)'
  BY <1>1, NoneApart DEF IInv, VersionIsColumn
<1>4. ASSUME NEW d \in Caller
      PROVE  SetInv(d)'
  <2>1. CASE d = c
    BY <2>1
  <2>2. CASE d # c
    <3>1. call'[d] = call[d] /\ SetInv(d) /\ call[d] \in CallState
      BY <2>2 DEF IInv, TypeOK
    <3>2. call[d].expected \in Nat
      BY <3>1 DEF CallState
    <3>3. CASE UNCHANGED <<doc, column>>
      BY <3>1, <3>3 DEF SetInv
    <3>4. CASE doc' \in Document /\ column' = column + 1
      <4>1. doc' # None
        BY <3>4, NoneApart
      <4> QED
        BY <3>1, <3>2, <3>4, <4>1, <1>1 DEF SetInv
    <3> QED
      BY <3>3, <3>4
  <2> QED
    BY <2>1, <2>2
<1> QED
  BY <1>2, <1>3, <1>4 DEF IInv

\* A call that is over asks nothing of the document.
LEMMA EndedCall ==
  ASSUME IInv, NEW c \in Caller,
         NEW pc \in {"done", "dead"},
         NEW out \in {"none", "ok", "same", "refused", "not-found", "exists", "conflict",
                      "append-failed"},
         call' = [call EXCEPT ![c].pc = pc, ![c].out = out],
         log' \in Seq(Event),
         budget' \in [crashes : 0 .. MaxCrashes, faults : 0 .. MaxFaults],
         \/ UNCHANGED <<doc, column>>
         \/ /\ doc' \in Document
            /\ column' = column + 1
            /\ doc'.version = column'
  PROVE  IInv'
<1>1. call[c] \in CallState
  BY DEF IInv, TypeOK
<1> DEFINE s == [call[c] EXCEPT !.pc = pc, !.out = out]
<1>2. s \in CallState /\ s.pc = pc
  BY <1>1 DEF CallState
<1>3. call' = [call EXCEPT ![c] = s]
  BY DEF IInv, TypeOK
<1>4. call'[c] = s
  BY <1>3 DEF IInv, TypeOK
<1> HIDE DEF s
<1>5. SetInv(c)'
  BY <1>2, <1>4 DEF SetInv
<1> QED
  BY <1>2, <1>3, <1>5, OneCall

LEMMA InitIInv == Init => IInv
<1> SUFFICES ASSUME Init
             PROVE  IInv
  OBVIOUS
<1>1. MaxCasRetries \in Nat /\ MaxCrashes \in Nat /\ MaxFaults \in Nat
  BY WorkflowAssumption DEF WorkflowAssumption
<1>2. TypeOK
  <2>1. [pc |-> "idle", req |-> None, base |-> NoDoc, seq |-> 0, expected |-> 0,
         attempt |-> 0, out |-> "none"] \in CallState
    BY <1>1, NoDocTyped DEF CallState
  <2> QED
    BY <1>1, <2>1 DEF Init, TypeOK
<1>3. \A c \in Caller : SetInv(c)
  BY DEF Init, SetInv
<1> QED
  BY <1>2, <1>3 DEF IInv, Init, VersionIsColumn

LEMMA StartedStep == ASSUME IInv, NEW c \in Caller, AppendStarted(c) PROVE IInv'
<1>1. call[c] \in CallState /\ log \in Seq(Event)
  BY DEF IInv, TypeOK
<1>2. Started \in Event
  BY WorkflowAssumption DEF WorkflowAssumption, Started, Event
<1>3. SequenceOf(Started) \in Nat /\ log' \in Seq(Event)
  BY <1>1, <1>2, AppendTyped DEF AppendStarted
<1> DEFINE s == [call[c] EXCEPT !.pc = "started", !.seq = SequenceOf(Started)]
<1>4. s \in CallState /\ s.pc = "started"
  BY <1>1, <1>3 DEF CallState
<1>5. call' = [call EXCEPT ![c] = s] /\ call'[c] = s
  BY DEF AppendStarted, IInv, TypeOK
<1> HIDE DEF s
<1>6. SetInv(c)'
  BY <1>4, <1>5 DEF SetInv
<1> QED
  BY <1>3, <1>4, <1>5, <1>6, OneCall DEF AppendStarted, IInv, TypeOK

LEMMA CreateStep == ASSUME IInv, NEW c \in Caller, CreateState(c) PROVE IInv'
<1>1. call[c] \in CallState /\ call[c].seq \in Nat /\ column \in Nat
  BY DEF IInv, TypeOK, CallState
<1>2. CASE column = 0
  <2> DEFINE d == [NoDoc EXCEPT !.version = 1, !.at = call[c].seq, !.es = TRUE]
  <2>1. d \in Document /\ d.version = 1
    BY <1>1, NoDocTyped DEF Document
  <2>2. doc' = d /\ column' = 1
    BY <1>2 DEF CreateState, Put
  <2> HIDE DEF d
  <2>3. doc' \in Document /\ column' = column + 1 /\ doc'.version = column'
    BY <1>2, <2>1, <2>2
  <2>4. call' = [call EXCEPT ![c].pc = "done", ![c].out = "ok"]
    BY <1>2 DEF CreateState, Ended
  <2>5. log' = log /\ budget' = budget
    BY DEF CreateState
  <2> QED
    BY <2>3, <2>4, <2>5, EndedCall DEF IInv, TypeOK
<1>3. CASE column # 0
  BY <1>3, EndedCall DEF CreateState, Ended, IInv, TypeOK
<1> QED
  BY <1>2, <1>3

LEMMA StartStep ==
  ASSUME IInv, NEW c \in Caller, NEW r \in Requests, StartSet(c, r) PROVE IInv'
<1>1. call[c] \in CallState /\ r \in Request
  BY WorkflowAssumption DEF IInv, TypeOK, WorkflowAssumption
<1> DEFINE s == [call[c] EXCEPT !.pc = "read", !.req = r]
<1>2. s \in CallState /\ s.pc = "read" /\ s.req = r
  BY <1>1 DEF CallState
<1>3. call' = [call EXCEPT ![c] = s] /\ call'[c] = s
  BY DEF StartSet, IInv, TypeOK
<1> HIDE DEF s
<1>4. SetInv(c)'
  BY <1>1, <1>2, <1>3 DEF SetInv
<1> QED
  BY <1>2, <1>3, <1>4, OneCall DEF StartSet, IInv, TypeOK

LEMMA ReadStep == ASSUME IInv, NEW c \in Caller, ReadForSet(c) PROVE IInv'
<1>1. call[c] \in CallState /\ call[c].req \in Request
  BY DEF IInv, TypeOK, SetInv, ReadForSet
<1>2. ASSUME NEW out \in {"not-found", "refused", "same"}, Ended(c, out)
      PROVE  IInv'
  BY <1>2, EndedCall DEF Ended, ReadForSet, IInv, TypeOK
<1>3. ASSUME doc # None,
             Moves(c, doc) => <<doc.phase, call[c].req.target>> \in Edge,
             call' = [call EXCEPT
                 ![c].base = doc, ![c].seq = 0, ![c].expected = doc.version,
                 ![c].pc = IF Moves(c, doc) THEN "trail" ELSE "patch"]
      PROVE  IInv'
  <2> DEFINE s == [call[c] EXCEPT !.base = doc, !.seq = 0, !.expected = doc.version,
                                  !.pc = IF Moves(c, doc) THEN "trail" ELSE "patch"]
  <2>1. doc \in Document /\ doc.version \in Nat /\ doc.version = column
    BY <1>3 DEF IInv, TypeOK, Document, VersionIsColumn
  <2>2. /\ s.base = doc /\ s.expected = doc.version /\ s.req = call[c].req
        /\ s.pc = IF Moves(c, doc) THEN "trail" ELSE "patch"
    BY <1>1 DEF CallState
  <2>3. s \in CallState
    BY <1>1, <2>1 DEF CallState
  <2>4. call' = [call EXCEPT ![c] = s] /\ call'[c] = s
    BY <1>3 DEF IInv, TypeOK
  <2> HIDE DEF s
  <2>5. Moves(c, doc) => call[c].req.target \in Phase
    BY <1>1 DEF Moves, Request
  <2>6. doc' = doc /\ column' = column
    BY DEF ReadForSet
  <2>7. SetInv(c)'
    <3>1. /\ call'[c].base = doc' /\ call'[c].expected = column'
          /\ call'[c].req = call[c].req /\ call'[c].base.version = column'
          /\ column' \in Nat /\ doc' # None
      BY <1>3, <2>1, <2>2, <2>4, <2>6
    <3>2. CASE Moves(c, doc)
      <4>1. /\ call'[c].pc = "trail" /\ call'[c].req.target \in Phase
            /\ <<doc'.phase, call'[c].req.target>> \in Edge
        BY <1>3, <2>2, <2>4, <2>5, <2>6, <3>2
      <4> QED
        BY <1>1, <3>1, <4>1 DEF SetInv
    <3>3. CASE ~Moves(c, doc)
      <4>1. call'[c].pc = "patch"
        BY <2>2, <2>4, <3>3
      <4> QED
        BY <1>1, <3>1, <4>1 DEF SetInv
    <3> QED
      BY <3>2, <3>3
  <2> QED
    BY <2>3, <2>4, <2>7, OneCall DEF ReadForSet, IInv, TypeOK
<1> QED
  BY <1>2, <1>3 DEF ReadForSet

LEMMA TrailStep == ASSUME IInv, NEW c \in Caller, AppendTrail(c) PROVE IInv'
<1> DEFINE first == call[c].pc = "trail"
           e == Moved(IF first THEN "transition" ELSE "entered", call[c].base.phase,
                      call[c].req.target, call[c].expected)
           b == [call[c].base EXCEPT !.phase = IF first THEN call[c].base.phase ELSE call[c].req.target]
           s == [call[c] EXCEPT !.seq = SequenceOf(e), !.base = b,
                                !.pc = IF first THEN "entered" ELSE "patch"]
<1>1. /\ call[c] \in CallState /\ call[c].req \in Request
      /\ call[c].req.target \in Phase /\ SetInv(c)
      /\ log \in Seq(Event)
  BY DEF IInv, TypeOK, SetInv, AppendTrail
<1>2. call[c].base \in Document /\ call[c].base.phase \in Phase /\ call[c].expected \in Nat
  BY <1>1 DEF CallState, Document
<1>3. e \in Event
  BY <1>1, <1>2 DEF Moved, Event
<1>4. SequenceOf(e) \in Nat /\ log' \in Seq(Event)
  BY <1>1, <1>3, AppendTyped DEF AppendTrail
<1>5. /\ b \in Document /\ b.version = call[c].base.version
      /\ b.phase = IF first THEN call[c].base.phase ELSE call[c].req.target
  BY <1>1, <1>2 DEF Document
<1>6. /\ s.pc = IF first THEN "entered" ELSE "patch"
      /\ s.base = b /\ s.req = call[c].req /\ s.expected = call[c].expected
  BY <1>1 DEF CallState
<1>7. s \in CallState
  BY <1>1, <1>4, <1>5 DEF CallState
<1>8. call' = [call EXCEPT ![c] = s]
  BY DEF AppendTrail
<1>c. call'[c] = s
  BY <1>8 DEF IInv, TypeOK
<1> HIDE DEF s, b, e
<1>9. SetInv(c)'
  BY <1>1, <1>5, <1>6, <1>c DEF SetInv, AppendTrail
<1> QED
  BY <1>4, <1>7, <1>8, <1>9, OneCall DEF AppendTrail, IInv, TypeOK

LEMMA PatchStep == ASSUME IInv, NEW c \in Caller, AppendPatch(c) PROVE IInv'
<1> DEFINE r == call[c].req
           e == Patched(r.field, r.value, call[c].expected)
           n == IF SequenceOf(e) > call[c].seq THEN SequenceOf(e) ELSE call[c].seq
<1>1. /\ call[c] \in CallState /\ r \in Request /\ SetInv(c) /\ call[c].pc = "patch"
      /\ log \in Seq(Event) /\ call[c].seq \in Nat /\ call[c].expected \in Nat
  BY DEF IInv, TypeOK, SetInv, AppendPatch, CallState
<1>2. ASSUME NEW k \in Nat, log' \in Seq(Event),
             call' = [call EXCEPT ![c].pc = "write", ![c].seq = k]
      PROVE  IInv'
  <2> DEFINE s == [call[c] EXCEPT !.pc = "write", !.seq = k]
  <2>1. /\ s \in CallState /\ s.pc = "write" /\ s.base = call[c].base
        /\ s.req = call[c].req /\ s.expected = call[c].expected
    BY <1>1 DEF CallState
  <2>2. call' = [call EXCEPT ![c] = s] /\ call'[c] = s
    BY <1>2 DEF IInv, TypeOK
  <2> HIDE DEF s
  <2>3. SetInv(c)'
    BY <1>1, <2>1, <2>2 DEF SetInv, AppendPatch
  <2> QED
    BY <1>2, <2>1, <2>2, <2>3, OneCall DEF AppendPatch, IInv, TypeOK
<1>3. CASE r.field # None /\ call[c].base.es
  <2>1. e \in Event
    BY <1>1, <1>3 DEF Patched, Event, Request
  <2>2. SequenceOf(e) \in Nat /\ log' \in Seq(Event)
    BY <1>1, <1>3, <2>1, AppendTyped DEF AppendPatch
  <2>3. n \in Nat
    BY <1>1, <2>2
  <2>4. call' = [call EXCEPT ![c].pc = "write", ![c].seq = n]
    BY <1>3 DEF AppendPatch, IInv, TypeOK
  <2> HIDE DEF n, e
  <2> QED
    BY <1>2, <2>2, <2>3, <2>4
<1>4. CASE ~(r.field # None /\ call[c].base.es)
  <2>1. call' = [call EXCEPT ![c].pc = "write", ![c].seq = call[c].seq]
    BY <1>1, <1>4 DEF AppendPatch, IInv, TypeOK, CallState
  <2>2. log' \in Seq(Event)
    BY <1>1, <1>4 DEF AppendPatch
  <2> QED
    BY <1>1, <1>2, <2>1, <2>2
<1> QED
  BY <1>3, <1>4

LEMMA FailStep == ASSUME IInv, NEW c \in Caller, AppendFails(c) PROVE IInv'
<1>1. budget' \in [crashes : 0 .. MaxCrashes, faults : 0 .. MaxFaults]
  BY WorkflowAssumption DEF AppendFails, IInv, TypeOK, WorkflowAssumption
<1> QED
  BY <1>1, EndedCall DEF AppendFails, Ended, IInv, TypeOK

LEMMA CrashStep == ASSUME IInv, NEW c \in Caller, Crash(c) PROVE IInv'
<1>1. budget' \in [crashes : 0 .. MaxCrashes, faults : 0 .. MaxFaults]
  BY WorkflowAssumption DEF Crash, IInv, TypeOK, WorkflowAssumption
<1>2. call[c] \in CallState
  BY DEF IInv, TypeOK
<1> DEFINE s == [call[c] EXCEPT !.pc = "dead"]
<1>3. s \in CallState /\ s.pc = "dead"
  BY <1>2 DEF CallState
<1>4. call' = [call EXCEPT ![c] = s] /\ call'[c] = s
  BY DEF Crash, IInv, TypeOK
<1> HIDE DEF s
<1>5. SetInv(c)'
  BY <1>3, <1>4 DEF SetInv
<1> QED
  BY <1>1, <1>3, <1>4, <1>5, OneCall DEF Crash, IInv, TypeOK

\* What a set writes has the version after the one it expects.
LEMMA WrittenTyped ==
  ASSUME IInv, NEW c \in Caller, call[c].pc = "write"
  PROVE  /\ Written(c) \in Document
         /\ Written(c).version = call[c].expected + 1
         /\ Written(c).phase = call[c].base.phase
<1> DEFINE b == call[c].base
           r == call[c].req
           at == IF call[c].seq = 0 THEN b.at ELSE call[c].seq
           fs == IF r.field = None THEN b.fields ELSE [b.fields EXCEPT ![r.field] = r.value]
<1>1. call[c] \in CallState /\ r \in Request /\ b.version = call[c].expected
  BY DEF IInv, TypeOK, SetInv
<1>2. b \in Document /\ call[c].seq \in Nat
  BY <1>1 DEF CallState
<1>3. at \in Nat /\ b.version + 1 \in Nat
  BY <1>2 DEF Document
<1>4. fs \in [Field -> Value \cup {None}]
  BY <1>1, <1>2 DEF Document, Request
<1>5. Written(c) = [b EXCEPT !.version = b.version + 1, !.at = at, !.fields = fs]
  BY <1>2 DEF Written, Document
<1> HIDE DEF at, fs
<1>6. [b EXCEPT !.version = b.version + 1, !.at = at, !.fields = fs] \in Document
  BY <1>2, <1>3, <1>4 DEF Document
<1>7. /\ [b EXCEPT !.version = b.version + 1, !.at = at, !.fields = fs].version
           = b.version + 1
      /\ [b EXCEPT !.version = b.version + 1, !.at = at, !.fields = fs].phase = b.phase
  BY <1>2 DEF Document
<1> QED
  BY <1>1, <1>5, <1>6, <1>7

LEMMA WriteStep == ASSUME IInv, NEW c \in Caller, WriteSet(c) PROVE IInv'
<1>1. /\ call[c] \in CallState /\ SetInv(c) /\ call[c].req \in Request
      /\ call[c].pc = "write" /\ column \in Nat
  BY DEF IInv, TypeOK, SetInv, WriteSet
<1>2. CASE column = call[c].expected /\ Put(Written(c)) /\ Ended(c, "ok")
  <2>1. doc' \in Document /\ doc'.version = column'
    BY <1>1, <1>2, WrittenTyped DEF Put
  <2> QED
    BY <1>2, <2>1, EndedCall DEF Put, Ended, WriteSet, IInv, TypeOK
<1>3. CASE /\ UNCHANGED <<doc, column>>
           /\ call[c].attempt < MaxCasRetries
           /\ call' = [call EXCEPT ![c].pc = "read", ![c].attempt = @ + 1]
  <2> DEFINE s == [call[c] EXCEPT !.pc = "read", !.attempt = @ + 1]
  <2>1. call[c].attempt + 1 \in 0 .. MaxCasRetries
    BY <1>1, <1>3, WorkflowAssumption DEF CallState, WorkflowAssumption
  <2>2. s \in CallState /\ s.pc = "read" /\ s.req = call[c].req
    BY <1>1, <2>1 DEF CallState
  <2>3. call' = [call EXCEPT ![c] = s] /\ call'[c] = s
    BY <1>3 DEF IInv, TypeOK
  <2> HIDE DEF s
  <2>4. SetInv(c)'
    BY <1>1, <2>2, <2>3 DEF SetInv
  <2> QED
    BY <1>3, <2>2, <2>3, <2>4, OneCall DEF WriteSet, IInv, TypeOK
<1>4. CASE UNCHANGED <<doc, column>> /\ Ended(c, "conflict")
  BY <1>4, EndedCall DEF Ended, WriteSet, IInv, TypeOK
<1> QED
  BY <1>2, <1>3, <1>4 DEF WriteSet

-----------------------------------------------------------------------------
(***************************************************************************)
(* Whether a reconcile has begun is read off pc, also when IInv is lost.    *)
(***************************************************************************)
Shape == DOMAIN call = Caller /\ \A c \in Caller : "pc" \in DOMAIN call[c]

\* A step of call c: the others stay, and it is not idle after it.
Acts(c) ==
  /\ DOMAIN call' = Caller /\ "pc" \in DOMAIN call'[c] /\ call'[c].pc # "idle"
  /\ \A d \in Caller \ {c} : call'[d] = call[d]

LEMMA InitActs == ASSUME Shape, NEW c \in Caller, InitStep(c) PROVE Acts(c)
  BY DEF Shape, Acts, InitStep, AppendStarted, CreateState, Ended

LEMMA SetActs == ASSUME Shape, NEW c \in Caller, SetStep(c) PROVE Acts(c)
<1>1. ASSUME NEW r \in Requests, StartSet(c, r) PROVE Acts(c)
  BY <1>1 DEF Shape, Acts, StartSet
<1>2. CASE ReadForSet(c)
  BY <1>2 DEF Shape, Acts, ReadForSet, Ended
<1>3. CASE AppendTrail(c)
  BY <1>3 DEF Shape, Acts, AppendTrail
<1>4. CASE AppendPatch(c)
  BY <1>4 DEF Shape, Acts, AppendPatch
<1>5. CASE AppendFails(c)
  BY <1>5 DEF Shape, Acts, AppendFails, Ended
<1>6. CASE WriteSet(c)
  BY <1>6 DEF Shape, Acts, WriteSet, Ended
<1> QED
  BY <1>1, <1>2, <1>3, <1>4, <1>5, <1>6 DEF SetStep

LEMMA ReconcileActs == ASSUME Shape, NEW c \in Caller, ReconcileStep(c) PROVE Acts(c)
<1>1. CASE ReadForReconcile(c)
  BY <1>1 DEF Shape, Acts, ReadForReconcile, Ended
<1>2. CASE CreateFromEvents(c)
  BY <1>2 DEF Shape, Acts, CreateFromEvents, Ended
<1>3. CASE QueryAndFold(c)
  BY <1>3 DEF Shape, Acts, QueryAndFold, Ended
<1>4. CASE WriteMerge(c)
  BY <1>4 DEF Shape, Acts, WriteMerge, Ended
<1>5. CASE ReadFreshVersion(c)
  BY <1>5 DEF Shape, Acts, ReadFreshVersion
<1>6. CASE WriteBlind(c)
  BY <1>6 DEF Shape, Acts, WriteBlind, Ended
<1> QED
  BY <1>1, <1>2, <1>3, <1>4, <1>5, <1>6 DEF ReconcileStep

LEMMA CrashActs == ASSUME Shape, NEW c \in Caller, Crash(c) PROVE Acts(c)
  BY DEF Shape, Acts, Crash

\* A reconcile that has begun is never idle again, and none begins unseen.
LEMMA BegunStays ==
  ASSUME Shape, [Next]_vars
  PROVE  /\ Shape'
         /\ Undisturbed' => Undisturbed /\ ~\E c \in Reconciler : ReconcileStep(c)
<1>1. CASE UNCHANGED call
  <2>1. \A c \in Caller : ~Acts(c) \/ call[c].pc # "idle"
    BY <1>1 DEF Acts
  <2>2. ASSUME NEW c \in Reconciler, ReconcileStep(c)
        PROVE  ~Undisturbed
    <3>1. c \in Caller
      BY DEF Caller
    <3> QED
      BY <2>1, <2>2, <3>1, ReconcileActs DEF Undisturbed
  <2> QED
    BY <1>1, <2>2 DEF Shape, Undisturbed
<1>2. ASSUME NEW c \in Caller, Acts(c), c \in Reconciler \/ ~\E d \in Reconciler : ReconcileStep(d)
      PROVE  /\ Shape'
             /\ Undisturbed' => Undisturbed /\ ~\E d \in Reconciler : ReconcileStep(d)
  BY <1>2 DEF Acts, Shape, Undisturbed, Caller
<1>3. ASSUME NEW c \in Reconciler, ReconcileStep(c)
      PROVE  Shape' /\ ~Undisturbed'
  <2>1. c \in Caller
    BY DEF Caller
  <2>2. Acts(c)
    BY <1>3, <2>1, ReconcileActs
  <2> QED
    BY <2>1, <2>2 DEF Acts, Shape, Undisturbed
<1>4. CASE ~\E c \in Reconciler : ReconcileStep(c)
  <2>1. \/ UNCHANGED call
        \/ \E c \in Caller : Acts(c)
    BY <1>4, InitActs, SetActs, CrashActs DEF Next, Finished, vars, Caller
  <2> QED
    BY <1>1, <1>2, <1>4, <2>1
<1> QED
  BY <1>3, <1>4

\* The invariant: IInv as long as no reconcile has begun.
FirstInv == Shape /\ (Undisturbed => IInv)

LEMMA InitFirst == Init => FirstInv
<1> SUFFICES ASSUME Init PROVE FirstInv
  OBVIOUS
<1>1. Shape
  BY DEF Init, Shape
<1> QED
  BY <1>1, InitIInv DEF FirstInv

LEMMA NextIInv ==
  ASSUME IInv, [Next]_vars, ~\E c \in Reconciler : ReconcileStep(c)
  PROVE  IInv'
<1>1. ASSUME NEW c \in Initializer, InitStep(c)
      PROVE  IInv'
  BY <1>1, StartedStep, CreateStep DEF InitStep, Caller
<1>2. ASSUME NEW c \in Setter, SetStep(c)
      PROVE  IInv'
  <2>1. c \in Caller
    BY DEF Caller
  <2> QED
    BY <1>2, <2>1, StartStep, ReadStep, TrailStep, PatchStep, FailStep, WriteStep
    DEF SetStep
<1>3. ASSUME NEW c \in Caller, Crash(c)
      PROVE  IInv'
  BY <1>3, CrashStep
<1>4. CASE UNCHANGED vars
  BY <1>4 DEF vars, IInv, TypeOK, VersionIsColumn, SetInv
<1>5. CASE Finished
  BY <1>4, <1>5 DEF Finished
<1> QED
  BY <1>1, <1>2, <1>3, <1>4, <1>5 DEF Next

LEMMA NextFirst == ASSUME FirstInv, [Next]_vars PROVE FirstInv'
<1>1. /\ Shape'
      /\ Undisturbed' => Undisturbed /\ ~\E c \in Reconciler : ReconcileStep(c)
  BY BegunStays DEF FirstInv
<1>2. Undisturbed' => IInv'
  BY <1>1, NextIInv DEF FirstInv
<1> QED
  BY <1>1, <1>2 DEF FirstInv

\* Without a reconcile two steps rewrite the row, and both are on an edge or stay.
LEMMA NextLegal ==
  ASSUME FirstInv, [Next]_vars
  PROVE  [(Undisturbed' /\ doc # None /\ doc' # None) =>
            (doc'.phase = doc.phase \/ <<doc.phase, doc'.phase>> \in Edge)]_vars
<1> SUFFICES ASSUME Next, Undisturbed', doc # None, doc' # None, doc' # doc
             PROVE  <<doc.phase, doc'.phase>> \in Edge \/ doc'.phase = doc.phase
  OBVIOUS
<1>0. IInv /\ ~\E c \in Reconciler : ReconcileStep(c)
  BY BegunStays DEF FirstInv
<1>1. PICK c \in Caller : CreateState(c) \/ WriteSet(c)
  BY <1>0 DEF Next, InitStep, SetStep, AppendStarted, StartSet, ReadForSet, AppendTrail,
         AppendPatch, AppendFails, Crash, Finished, Caller, vars
<1>2. CASE CreateState(c)
  <2>1. column = 0
    BY <1>2 DEF CreateState
  <2> QED
    BY <1>0, <2>1 DEF IInv
<1>3. CASE WriteSet(c)
  <2>1. column = call[c].expected /\ doc' = Written(c) /\ call[c].pc = "write"
    BY <1>3 DEF WriteSet, Put
  <2>2. doc'.phase = call[c].base.phase
    BY <1>0, <2>1, WrittenTyped
  <2> QED
    BY <1>0, <2>1, <2>2 DEF IInv, SetInv
<1> QED
  BY <1>1, <1>2, <1>3

\* The _version a set call reads is the version column its write compares: until a
\* reconcile begins, a conflict that handleSet answers means that another call has
\* written in between.
THEOREM SetVersions == Spec => []VersionsAgree
<1>1. FirstInv => VersionsAgree
  BY DEF FirstInv, IInv, VersionsAgree
<1>2. FirstInv /\ [Next]_vars => FirstInv'
  BY NextFirst
<1> QED
  BY <1>1, <1>2, InitFirst, PTL DEF Spec

\* Until a reconcile begins, set calls that race and retry take the document along
\* the edges of the workflow only: the transition that is written is legal from
\* the phase it replaces, not merely from the phase the call once read.
THEOREM SetPhases == Spec => PhaseStepsLegal
<1>1. FirstInv /\ [Next]_vars => FirstInv'
  BY NextFirst
<1>2. FirstInv /\ [Next]_vars =>
        [(Undisturbed' /\ doc # None /\ doc' # None) =>
           (doc'.phase = doc.phase \/ <<doc.phase, doc'.phase>> \in Edge)]_vars
  BY NextLegal
<1> QED
  BY <1>1, <1>2, InitFirst, PTL DEF Spec, PhaseStepsLegal

-----------------------------------------------------------------------------
(***************************************************************************)
(* What every step does to one call, the log and the row, reconciles        *)
(* included.                                                                *)
(***************************************************************************)
Working == {"trail", "entered", "patch", "write"}
Folding == {"query", "merge", "fresh", "retry", "blind"}

\* Which places a call comes to, and when there is a document.
Placed(c) ==
  LET s == call[c]
  IN  /\ c \in Setter =>
           /\ s.pc \in {"idle", "read", "done", "dead"} \cup Working
           /\ s.pc = "idle" => s.req = None
           /\ s.pc # "idle" => s.req \in Requests
      /\ c \in Initializer => s.pc \in {"idle", "started", "done", "dead"}
      /\ c \in Reconciler => s.pc \in {"idle", "create", "done", "dead"} \cup Folding
      /\ s.pc \in {"trail", "entered"} => s.req.target \in Phase
      /\ s.pc \in Working \cup Folding => doc # None
      /\ s.pc # "done" => s.out = "none"

\* The events carry what a fold reads of them.
Whole(e) == /\ e.type \in {"started", "transition", "entered"} => e.to \in Phase
            /\ e.type = "patched" => e.field \in Field /\ e.value \in Value

Basis ==
  /\ TypeOK
  /\ doc = None <=> column = 0
  /\ \A c \in Caller : Placed(c)
  /\ \A i \in 1 .. Len(log) : Whole(log[i])

\* The call is k after the step.
Turn(c, k) == k \in CallState /\ call' = [call EXCEPT ![c] = k]

Stays == UNCHANGED <<log, doc, column>>

\* Nothing of what a call has read changes.
Same(c, k) == /\ k.req = call[c].req /\ k.base = call[c].base
              /\ k.seq = call[c].seq /\ k.expected = call[c].expected

Begins(c, k) == /\ Stays /\ call[c].pc = "idle" /\ k.pc = "read" /\ k.req \in Requests
                /\ k.out = call[c].out

Takes(c, k) ==
  /\ Stays /\ call[c].pc = "read" /\ doc # None
  /\ k.base = doc /\ k.expected = doc.version /\ k.seq = 0 /\ k.req = call[c].req
  /\ k.out = call[c].out
  /\ IF Moves(c, doc) THEN k.pc = "trail" /\ <<doc.phase, k.req.target>> \in Edge
     ELSE k.pc = "patch" /\ k.req.field # None

\* The event of a trail, and of an update.
TrailOf(s) == Moved(IF s.pc = "trail" THEN "transition" ELSE "entered", s.base.phase,
                    s.req.target, s.expected)
PatchOf(s) == Patched(s.req.field, s.req.value, s.expected)

Trails(c, k) ==
  LET s == call[c]
  IN  /\ UNCHANGED <<doc, column>> /\ AppendKeyed(TrailOf(s)) /\ s.pc \in {"trail", "entered"}
      /\ k.pc = IF s.pc = "trail" THEN "entered" ELSE "patch"
      /\ k.base = [s.base EXCEPT !.phase = IF s.pc = "trail" THEN s.base.phase
                                           ELSE s.req.target]
      /\ k.seq = SequenceOf(TrailOf(s)) /\ k.expected = s.expected /\ k.req = s.req
      /\ k.out = s.out

Patches(c, k) ==
  LET s == call[c]
  IN  /\ UNCHANGED <<doc, column>> /\ AppendKeyed(PatchOf(s)) /\ s.pc = "patch"
      /\ s.req.field # None /\ s.base.es /\ k.pc = "write"
      /\ k.seq = IF SequenceOf(PatchOf(s)) > s.seq THEN SequenceOf(PatchOf(s)) ELSE s.seq
      /\ k.base = s.base /\ k.expected = s.expected /\ k.req = s.req /\ k.out = s.out

Skips(c, k) ==
  /\ Stays /\ call[c].pc = "patch" /\ ~(call[c].req.field # None /\ call[c].base.es)
  /\ k.pc = "write" /\ Same(c, k) /\ k.out = call[c].out

Writes(c, k) ==
  /\ log' = log /\ call[c].pc = "write" /\ column = call[c].expected /\ Put(Written(c))
  /\ k.pc = "done" /\ k.out = "ok" /\ Same(c, k)

Retries(c, k) ==
  /\ Stays /\ call[c].pc = "write" /\ column # call[c].expected
  /\ k.pc = "read" /\ Same(c, k) /\ k.out = call[c].out

Ends(c, k) ==
  /\ Stays /\ call[c].pc \notin {"idle", "done", "dead"} /\ Same(c, k)
  /\ \/ k.pc = "dead" /\ k.out = call[c].out
     \/ k.pc = "done" /\ k.out \notin {"none", "ok"}

SetTurn(c, k) ==
  Begins(c, k) \/ Takes(c, k) \/ Trails(c, k) \/ Patches(c, k) \/ Skips(c, k) \/ Writes(c, k)
  \/ Retries(c, k) \/ Ends(c, k)

LEMMA SetTurns ==
  ASSUME Basis, NEW c \in Setter, SetStep(c)
  PROVE  \E k : Turn(c, k) /\ SetTurn(c, k)
<1>1. /\ c \in Caller /\ call[c] \in CallState /\ call \in [Caller -> CallState]
      /\ Placed(c) /\ log \in Seq(Event)
      /\ Requests \subseteq Request /\ MaxCasRetries \in Nat
  BY WorkflowAssumption DEF Basis, TypeOK, Caller, WorkflowAssumption
<1>2. ASSUME NEW k, Turn(c, k), SetTurn(c, k)
      PROVE  \E m : Turn(c, m) /\ SetTurn(c, m)
  BY <1>2
<1>3. ASSUME NEW out \in {"not-found", "refused", "same", "append-failed", "conflict"},
             Ended(c, out), Stays, call[c].pc \notin {"idle", "done", "dead"}
      PROVE  \E m : Turn(c, m) /\ SetTurn(c, m)
  <2> DEFINE k == [call[c] EXCEPT !.pc = "done", !.out = out]
  <2>1. /\ k \in CallState /\ k.pc = "done" /\ k.out = out /\ Same(c, k)
    BY <1>1 DEF CallState, Same
  <2>2. call' = [call EXCEPT ![c] = k]
    BY <1>1, <1>3 DEF Ended
  <2> HIDE DEF k
  <2>3. Turn(c, k) /\ Ends(c, k)
    BY <1>3, <2>1, <2>2 DEF Turn, Ends
  <2> QED
    BY <1>2, <2>3 DEF SetTurn
<1>4. ASSUME NEW r \in Requests, StartSet(c, r)
      PROVE  \E m : Turn(c, m) /\ SetTurn(c, m)
  <2> DEFINE k == [call[c] EXCEPT !.pc = "read", !.req = r]
  <2>1. k \in CallState /\ k.pc = "read" /\ k.req = r /\ k.out = call[c].out
    BY <1>1 DEF CallState
  <2>2. call' = [call EXCEPT ![c] = k]
    BY <1>1, <1>4 DEF StartSet
  <2> HIDE DEF k
  <2>3. Turn(c, k) /\ Begins(c, k)
    BY <1>4, <2>1, <2>2 DEF Turn, Begins, StartSet, Stays
  <2> QED
    BY <1>2, <2>3 DEF SetTurn
<1>5. CASE ReadForSet(c)
  <2>0. Stays /\ call[c].pc = "read"
    BY <1>5 DEF ReadForSet, Stays
  <2>1. CASE \E out \in {"not-found", "refused", "same"} : Ended(c, out)
    BY <1>3, <2>0, <2>1
  <2>2. CASE ~\E out \in {"not-found", "refused", "same"} : Ended(c, out)
    <3> DEFINE k == [call[c] EXCEPT !.base = doc, !.seq = 0, !.expected = doc.version,
                                    !.pc = IF Moves(c, doc) THEN "trail" ELSE "patch"]
    <3>1. /\ doc # None
          /\ Moves(c, doc) => <<doc.phase, call[c].req.target>> \in Edge
          /\ Moves(c, doc) \/ call[c].req.field # None
          /\ call' = [call EXCEPT
               ![c].base = doc, ![c].seq = 0, ![c].expected = doc.version,
               ![c].pc = IF Moves(c, doc) THEN "trail" ELSE "patch"]
      BY <1>5, <2>2 DEF ReadForSet
    <3>2. doc \in Document /\ doc.version \in Nat
      BY <3>1 DEF Basis, TypeOK, Document
    <3>3. /\ k \in CallState /\ k.base = doc /\ k.expected = doc.version /\ k.seq = 0
          /\ k.req = call[c].req /\ k.out = call[c].out
          /\ k.pc = IF Moves(c, doc) THEN "trail" ELSE "patch"
      BY <1>1, <3>2 DEF CallState
    <3>4. call' = [call EXCEPT ![c] = k]
      BY <1>1, <3>1
    <3> HIDE DEF k
    <3>5. Turn(c, k) /\ Takes(c, k)
      BY <2>0, <3>1, <3>3, <3>4 DEF Turn, Takes
    <3> QED
      BY <1>2, <3>5 DEF SetTurn
  <2> QED
    BY <2>1, <2>2
<1>6. CASE AppendTrail(c)
  <2> DEFINE s == call[c]
             e == TrailOf(s)
             b == [s.base EXCEPT !.phase = IF s.pc = "trail" THEN s.base.phase
                                           ELSE s.req.target]
             k == [s EXCEPT !.seq = SequenceOf(e), !.base = b,
                            !.pc = IF s.pc = "trail" THEN "entered" ELSE "patch"]
  <2>1. s.base \in Document /\ s.base.phase \in Phase /\ s.expected \in Nat
        /\ s.req.target \in Phase /\ s.pc \in {"trail", "entered"}
    BY <1>1, <1>6 DEF CallState, Document, Placed, AppendTrail
  <2>2. e \in Event
    BY <2>1 DEF TrailOf, Moved, Event
  <2>3. SequenceOf(e) \in Nat
    BY <1>1, <2>2, AppendTyped
  <2>4. b \in Document
    BY <2>1 DEF Document
  <2>5. AppendKeyed(e) /\ UNCHANGED <<doc, column>> /\ call' = [call EXCEPT ![c] = k]
    BY <1>6 DEF AppendTrail, TrailOf
  <2>6. /\ k \in CallState /\ k.base = b /\ k.seq = SequenceOf(e) /\ k.expected = s.expected
        /\ k.req = s.req /\ k.out = s.out
        /\ k.pc = IF s.pc = "trail" THEN "entered" ELSE "patch"
    BY <1>1, <2>3, <2>4 DEF CallState
  <2>7. Turn(c, k) /\ Trails(c, k)
    <3> HIDE DEF k
    <3> QED
      BY <2>1, <2>5, <2>6 DEF Turn, Trails
  <2> QED
    BY <1>2, <2>7 DEF SetTurn
<1>7. CASE AppendPatch(c)
  <2> DEFINE s == call[c]
             e == PatchOf(s)
  <2>1. s.pc = "patch" /\ s.req \in Request /\ s.expected \in Nat /\ s.seq \in Nat
        /\ UNCHANGED <<doc, column>>
    BY <1>1, <1>7 DEF AppendPatch, CallState, Placed
  <2>2. CASE s.req.field # None /\ s.base.es
    <3> DEFINE n == IF SequenceOf(e) > s.seq THEN SequenceOf(e) ELSE s.seq
               k == [s EXCEPT !.pc = "write", !.seq = n]
    <3>1. e \in Event
      BY <2>1, <2>2 DEF PatchOf, Patched, Event, Request
    <3>2. SequenceOf(e) \in Nat
      BY <1>1, <3>1, AppendTyped
    <3>3. n \in Nat
      BY <2>1, <3>2
    <3>4. AppendKeyed(e) /\ call' = [call EXCEPT ![c].pc = "write", ![c].seq = n]
      BY <1>1, <1>7, <2>2 DEF AppendPatch, PatchOf
    <3> HIDE DEF n
    <3>5. call' = [call EXCEPT ![c] = k]
      BY <1>1, <3>4
    <3>6. /\ k \in CallState /\ k.base = s.base /\ k.seq = n /\ k.expected = s.expected
          /\ k.req = s.req /\ k.out = s.out /\ k.pc = "write"
      BY <1>1, <3>3 DEF CallState
    <3> HIDE DEF k
    <3>7. Turn(c, k) /\ Patches(c, k)
      BY <2>1, <2>2, <3>4, <3>5, <3>6 DEF Turn, Patches, n
    <3> QED
      BY <1>2, <3>7 DEF SetTurn
  <2>3. CASE ~(s.req.field # None /\ s.base.es)
    <3> DEFINE k == [s EXCEPT !.pc = "write"]
    <3>1. log' = log /\ call' = [call EXCEPT ![c] = k]
      BY <1>1, <1>7, <2>3 DEF AppendPatch
    <3>2. k \in CallState /\ Same(c, k) /\ k.pc = "write" /\ k.out = s.out
      BY <1>1 DEF CallState, Same
    <3> HIDE DEF k
    <3>3. Turn(c, k) /\ Skips(c, k)
      BY <2>1, <2>3, <3>1, <3>2 DEF Turn, Skips, Stays
    <3> QED
      BY <1>2, <3>3 DEF SetTurn
  <2> QED
    BY <2>2, <2>3
<1>8. CASE AppendFails(c)
  BY <1>3, <1>8 DEF AppendFails, Stays
<1>9. CASE WriteSet(c)
  <2>0. call[c].pc = "write" /\ log' = log
    BY <1>9 DEF WriteSet
  <2>1. CASE column = call[c].expected /\ Put(Written(c)) /\ Ended(c, "ok")
    <3> DEFINE k == [call[c] EXCEPT !.pc = "done", !.out = "ok"]
    <3>1. k \in CallState /\ k.pc = "done" /\ k.out = "ok" /\ Same(c, k)
      BY <1>1 DEF CallState, Same
    <3>2. call' = [call EXCEPT ![c] = k]
      BY <1>1, <2>1 DEF Ended
    <3> HIDE DEF k
    <3>3. Turn(c, k) /\ Writes(c, k)
      BY <2>0, <2>1, <3>1, <3>2 DEF Turn, Writes
    <3> QED
      BY <1>2, <3>3 DEF SetTurn
  <2>2. CASE /\ UNCHANGED <<doc, column>> /\ column # call[c].expected
             /\ call[c].attempt < MaxCasRetries
             /\ call' = [call EXCEPT ![c].pc = "read", ![c].attempt = @ + 1]
    <3> DEFINE k == [call[c] EXCEPT !.pc = "read", !.attempt = @ + 1]
    <3>1. call[c].attempt + 1 \in 0 .. MaxCasRetries
      BY <1>1, <2>2 DEF CallState
    <3>2. k \in CallState /\ k.pc = "read" /\ k.out = call[c].out /\ Same(c, k)
      BY <1>1, <3>1 DEF CallState, Same
    <3>3. call' = [call EXCEPT ![c] = k]
      BY <1>1, <2>2
    <3> HIDE DEF k
    <3>4. Turn(c, k) /\ Retries(c, k)
      BY <2>0, <2>2, <3>2, <3>3 DEF Turn, Retries, Stays
    <3> QED
      BY <1>2, <3>4 DEF SetTurn
  <2>3. CASE UNCHANGED <<doc, column>> /\ Ended(c, "conflict")
    BY <1>3, <2>0, <2>3 DEF Stays
  <2> QED
    BY <1>9, <2>1, <2>2, <2>3 DEF WriteSet
<1> QED
  BY <1>4, <1>5, <1>6, <1>7, <1>8, <1>9 DEF SetStep

\* The latest of some positions of the log.
LEMMA LatestIs ==
  ASSUME NEW n \in Nat, NEW S \in SUBSET (1 .. n), S # {}
  PROVE  Latest(S) \in S /\ \A i \in S : i <= Latest(S)
<1> DEFINE T == {m \in Nat : \A x \in S : x <= m}
           R == OpToRel(<, Nat)
<1>1. T # {} /\ T \subseteq Nat
  OBVIOUS
<1>2. IsWellFoundedOn(R, Nat)
  BY NatLessThanWellFounded
<1> HIDE DEF R
<1>3. PICK m \in T : \A y \in T : <<y, m>> \notin R
  <2> HIDE DEF T
  <2> QED
    BY <1>1, <1>2, WFMin
<1>4. m \in S
  <2> SUFFICES ASSUME m \notin S PROVE FALSE
    OBVIOUS
  <2>1. PICK x \in S : TRUE
    OBVIOUS
  <2>2. x <= m /\ x # m
    BY <2>1
  <2>3. m - 1 \in T
    BY <2>2
  <2>4. <<m - 1, m>> \in R
    BY <2>3 DEF R, OpToRel
  <2> QED
    BY <2>3, <2>4, <1>3
<1>5. \E i \in S : \A j \in S : j <= i
  BY <1>4
<1> QED
  BY <1>5 DEF Latest

LEMMA FoldedTyped ==
  ASSUME log \in Seq(Event), \A i \in 1 .. Len(log) : Whole(log[i]), NEW d \in Document
  PROVE  /\ Folded(d) \in Document /\ Folded(d).at = Len(log)
         /\ Folded(d).version = d.version /\ Folded(d).es = d.es
<1> DEFINE new == (d.at + 1) .. Len(log)
           moves == {i \in new : log[i].type \in {"started", "transition"}}
           patches(f) == {i \in new : log[i].type = "patched" /\ log[i].field = f}
           phase == IF moves = {} THEN d.phase ELSE log[Latest(moves)].to
           fields == [f \in Field |-> IF patches(f) = {} THEN d.fields[f]
                                      ELSE log[Latest(patches(f))].value]
<1>1. Len(log) \in Nat /\ new \subseteq 1 .. Len(log) /\ d.at \in Nat
  BY DEF Document
<1>2. phase \in Phase
  <2>1. CASE moves = {}
    BY <2>1 DEF Document
  <2>2. CASE moves # {}
    <3>1. moves \in SUBSET (1 .. Len(log))
      BY <1>1
    <3>2. Latest(moves) \in moves
      <4> HIDE DEF moves
      <4> QED
        BY <1>1, <2>2, <3>1, LatestIs
    <3> QED
      BY <1>1, <2>2, <3>2 DEF Whole
  <2> QED
    BY <2>1, <2>2
<1>3. ASSUME NEW f \in Field
      PROVE  fields[f] \in Value \cup {None}
  <2>1. CASE patches(f) = {}
    BY <2>1 DEF Document
  <2>2. CASE patches(f) # {}
    <3> DEFINE ps == patches(f)
    <3>1. ps \in SUBSET (1 .. Len(log)) /\ ps # {}
      BY <1>1, <2>2
    <3>2. Latest(ps) \in ps
      <4> HIDE DEF ps
      <4> QED
        BY <1>1, <3>1, LatestIs
    <3>3. log[Latest(ps)].value \in Value
      BY <1>1, <3>2 DEF Whole
    <3> QED
      BY <2>2, <3>3
  <2> QED
    BY <2>1, <2>2
<1>4. fields \in [Field -> Value \cup {None}]
  BY <1>3
<1>5. Folded(d) = [d EXCEPT !.at = Len(log), !.phase = phase, !.fields = fields]
  BY DEF Folded, Document
<1> HIDE DEF phase, fields
<1> QED
  BY <1>1, <1>2, <1>4, <1>5 DEF Document

\* The steps of initializers and reconciles.
Starts(c, k) ==
  /\ UNCHANGED <<doc, column>> /\ AppendKeyed(Started) /\ call[c].pc = "idle"
  /\ k.pc = "started" /\ k.seq = SequenceOf(Started) /\ k.req = call[c].req
  /\ k.out = call[c].out

Creates(c, k) ==
  /\ log' = log /\ call[c].pc = "started" /\ column = 0
  /\ Put([NoDoc EXCEPT !.version = 1, !.at = call[c].seq, !.es = TRUE])
  /\ k.pc = "done" /\ k.out = "ok" /\ Same(c, k)

Opens(c, k) ==
  /\ Stays /\ call[c].pc = "idle" /\ k.req = call[c].req
  /\ \/ /\ doc # None /\ k.pc = "query" /\ k.base = doc /\ k.expected = doc.version
        /\ k.out = call[c].out
     \/ doc = None /\ Stored(Started) # {} /\ k.pc = "create" /\ k.out = call[c].out
     \/ k.pc = "done" /\ k.out = "same"

Founds(c, k) ==
  /\ log' = log /\ call[c].pc = "create" /\ column = 0
  /\ Put([NoDoc EXCEPT !.version = 1])
  /\ k.pc = "query" /\ k.base = [NoDoc EXCEPT !.version = 1] /\ k.req = call[c].req
  /\ k.expected = 1 /\ k.out = call[c].out

Folds(c, k) ==
  /\ Stays /\ call[c].pc = "query" /\ call[c].base.at < Len(log)
  /\ k.pc = "merge" /\ k.base = Folded(call[c].base) /\ k.req = call[c].req
  /\ k.expected = call[c].expected /\ k.out = call[c].out

Merges(c, k) ==
  /\ log' = log /\ call[c].pc \in {"merge", "retry", "blind"} /\ Put(Merged(c))
  /\ call[c].pc = "blind" \/ column = call[c].expected
  /\ k.pc = "done" /\ k.out = "ok" /\ Same(c, k)

Defers(c, k) ==
  /\ Stays /\ call[c].pc \in {"merge", "fresh", "retry"}
  /\ k.pc \in {"fresh", "retry", "blind"} /\ k.base = call[c].base /\ k.req = call[c].req
  /\ k.out = call[c].out

ReconcileTurn(c, k) ==
  Opens(c, k) \/ Founds(c, k) \/ Folds(c, k) \/ Merges(c, k) \/ Defers(c, k) \/ Ends(c, k)

InitTurn(c, k) == Starts(c, k) \/ Creates(c, k) \/ Ends(c, k)

LEMMA InitTurns ==
  ASSUME Basis, NEW c \in Initializer, InitStep(c)
  PROVE  \E k : Turn(c, k) /\ InitTurn(c, k)
<1>1. /\ c \in Caller /\ call[c] \in CallState /\ call \in [Caller -> CallState]
      /\ Placed(c) /\ log \in Seq(Event)
  BY DEF Basis, TypeOK, Caller
<1>2. CASE AppendStarted(c)
  <2> DEFINE k == [call[c] EXCEPT !.pc = "started", !.seq = SequenceOf(Started)]
  <2>1. Started \in Event
    BY WorkflowAssumption DEF WorkflowAssumption, Started, Event
  <2>2. SequenceOf(Started) \in Nat
    BY <1>1, <2>1, AppendTyped
  <2>3. /\ k \in CallState /\ k.pc = "started" /\ k.seq = SequenceOf(Started)
        /\ k.req = call[c].req /\ k.out = call[c].out
    BY <1>1, <2>2 DEF CallState
  <2>4. call' = [call EXCEPT ![c] = k]
    BY <1>1, <1>2 DEF AppendStarted
  <2> HIDE DEF k
  <2> QED
    BY <1>2, <2>3, <2>4 DEF Turn, InitTurn, Starts, AppendStarted
<1>3. CASE CreateState(c)
  <2>0. call[c].pc = "started" /\ log' = log
    BY <1>3 DEF CreateState
  <2>1. CASE column = 0
    <3> DEFINE k == [call[c] EXCEPT !.pc = "done", !.out = "ok"]
    <3>1. k \in CallState /\ k.pc = "done" /\ k.out = "ok" /\ Same(c, k)
      BY <1>1 DEF CallState, Same
    <3>2. call' = [call EXCEPT ![c] = k]
      BY <1>1, <1>3, <2>1 DEF CreateState, Ended
    <3>3. Put([NoDoc EXCEPT !.version = 1, !.at = call[c].seq, !.es = TRUE])
      BY <1>3, <2>1 DEF CreateState
    <3> HIDE DEF k
    <3> QED
      BY <2>0, <2>1, <3>1, <3>2, <3>3 DEF Turn, InitTurn, Creates
  <2>2. CASE column # 0
    <3> DEFINE k == [call[c] EXCEPT !.pc = "done", !.out = "exists"]
    <3>1. k \in CallState /\ k.pc = "done" /\ k.out = "exists" /\ Same(c, k)
      BY <1>1 DEF CallState, Same
    <3>2. call' = [call EXCEPT ![c] = k] /\ Stays
      BY <1>1, <1>3, <2>2 DEF CreateState, Ended, Stays
    <3> HIDE DEF k
    <3> QED
      BY <2>0, <3>1, <3>2 DEF Turn, InitTurn, Ends
  <2> QED
    BY <2>1, <2>2
<1> QED
  BY <1>2, <1>3 DEF InitStep

LEMMA CrashTurns ==
  ASSUME Basis, NEW c \in Caller, Crash(c)
  PROVE  \E k : Turn(c, k) /\ Ends(c, k)
<1>1. call[c] \in CallState /\ call \in [Caller -> CallState]
  BY DEF Basis, TypeOK
<1> DEFINE k == [call[c] EXCEPT !.pc = "dead"]
<1>2. k \in CallState /\ k.pc = "dead" /\ k.out = call[c].out /\ Same(c, k)
  BY <1>1 DEF CallState, Same
<1>3. call' = [call EXCEPT ![c] = k] /\ Stays /\ call[c].pc \notin {"idle", "done", "dead"}
  BY <1>1 DEF Crash, Stays
<1> HIDE DEF k
<1> QED
  BY <1>2, <1>3 DEF Turn, Ends

LEMMA ReconcileTurns ==
  ASSUME Basis, NEW c \in Reconciler, ReconcileStep(c)
  PROVE  \E k : Turn(c, k) /\ ReconcileTurn(c, k)
<1>1. /\ c \in Caller /\ call[c] \in CallState /\ call \in [Caller -> CallState]
      /\ Placed(c) /\ log \in Seq(Event) /\ \A i \in 1 .. Len(log) : Whole(log[i])
      /\ call[c].base \in Document /\ Len(log) \in Nat /\ call[c].base.at \in Nat
      /\ doc # None => doc \in Document /\ doc.version \in Nat
  BY DEF Basis, TypeOK, Caller, CallState, Document
<1>2. ASSUME NEW out \in {"same", "exists"}, Ended(c, out), Stays,
             call[c].pc \notin {"idle", "done", "dead"}
      PROVE  \E k : Turn(c, k) /\ ReconcileTurn(c, k)
  <2> DEFINE k == [call[c] EXCEPT !.pc = "done", !.out = out]
  <2>1. k \in CallState /\ k.pc = "done" /\ k.out = out /\ Same(c, k)
    BY <1>1 DEF CallState, Same
  <2>2. call' = [call EXCEPT ![c] = k]
    BY <1>1, <1>2 DEF Ended
  <2> HIDE DEF k
  <2> QED
    BY <1>2, <2>1, <2>2 DEF Turn, ReconcileTurn, Ends
<1>3. CASE ReadForReconcile(c)
  <2>0. Stays /\ call[c].pc = "idle"
    BY <1>3 DEF ReadForReconcile, Stays
  <2>1. CASE doc # None
    <3> DEFINE k == [call[c] EXCEPT !.base = doc, !.expected = doc.version, !.pc = "query"]
    <3>1. /\ k \in CallState /\ k.base = doc /\ k.expected = doc.version /\ k.pc = "query"
          /\ k.req = call[c].req /\ k.out = call[c].out
      BY <1>1, <2>1 DEF CallState
    <3>2. call' = [call EXCEPT ![c] = k]
      BY <1>1, <1>3, <2>1 DEF ReadForReconcile
    <3> HIDE DEF k
    <3> QED
      BY <2>0, <2>1, <3>1, <3>2 DEF Turn, ReconcileTurn, Opens
  <2>2. CASE doc = None /\ Ended(c, "same")
    <3> DEFINE k == [call[c] EXCEPT !.pc = "done", !.out = "same"]
    <3>1. k \in CallState /\ k.pc = "done" /\ k.out = "same" /\ k.req = call[c].req
      BY <1>1 DEF CallState
    <3>2. call' = [call EXCEPT ![c] = k]
      BY <1>1, <2>2 DEF Ended
    <3> HIDE DEF k
    <3> QED
      BY <2>0, <3>1, <3>2 DEF Turn, ReconcileTurn, Opens
  <2>3. CASE doc = None /\ Stored(Started) # {} /\ call' = [call EXCEPT ![c].pc = "create"]
    <3> DEFINE k == [call[c] EXCEPT !.pc = "create"]
    <3>1. k \in CallState /\ k.pc = "create" /\ k.req = call[c].req /\ k.out = call[c].out
      BY <1>1 DEF CallState
    <3>2. call' = [call EXCEPT ![c] = k]
      BY <1>1, <2>3
    <3> HIDE DEF k
    <3> QED
      BY <2>0, <2>3, <3>1, <3>2 DEF Turn, ReconcileTurn, Opens
  <2> QED
    BY <1>3, <2>1, <2>2, <2>3 DEF ReadForReconcile
<1>4. CASE CreateFromEvents(c)
  <2>0. call[c].pc = "create" /\ log' = log
    BY <1>4 DEF CreateFromEvents
  <2>1. CASE column = 0
    <3>1. PICK d : d = [NoDoc EXCEPT !.version = 1]
      OBVIOUS
    <3>2. d \in Document
      BY <3>1, NoDocTyped DEF Document
    <3> DEFINE k == [call[c] EXCEPT !.base = d, !.expected = 1, !.pc = "query"]
    <3>3. /\ k \in CallState /\ k.pc = "query" /\ k.base = d /\ k.expected = 1
          /\ k.req = call[c].req /\ k.out = call[c].out
      BY <1>1, <3>2 DEF CallState
    <3>4. call' = [call EXCEPT ![c] = k] /\ Put(d)
      BY <1>1, <1>4, <2>1, <3>1 DEF CreateFromEvents
    <3> HIDE DEF k
    <3> QED
      BY <2>0, <2>1, <3>1, <3>3, <3>4 DEF Turn, ReconcileTurn, Founds
  <2>2. CASE column # 0
    BY <1>2, <1>4, <2>0, <2>2 DEF CreateFromEvents, Stays
  <2> QED
    BY <2>1, <2>2
<1>5. CASE QueryAndFold(c)
  <2>0. Stays /\ call[c].pc = "query"
    BY <1>5 DEF QueryAndFold, Stays
  <2>1. CASE call[c].base.at >= Len(log)
    BY <1>2, <1>5, <2>0, <2>1 DEF QueryAndFold
  <2>2. CASE ~(call[c].base.at >= Len(log))
    <3>1. PICK d : d = Folded(call[c].base)
      OBVIOUS
    <3>2. d \in Document
      BY <1>1, <3>1, FoldedTyped
    <3> DEFINE k == [call[c] EXCEPT !.base = d, !.pc = "merge"]
    <3>3. /\ k \in CallState /\ k.pc = "merge" /\ k.base = d /\ k.expected = call[c].expected
          /\ k.req = call[c].req /\ k.out = call[c].out
      BY <1>1, <3>2 DEF CallState
    <3>4. call' = [call EXCEPT ![c] = k]
      BY <1>1, <1>5, <2>2, <3>1 DEF QueryAndFold
    <3> HIDE DEF k
    <3> QED
      <4>1. call[c].base.at < Len(log)
        BY <1>1, <2>2
      <4>2. Turn(c, k)
        BY <3>3, <3>4 DEF Turn
      <4>3. Folds(c, k)
        BY <2>0, <3>1, <3>3, <4>1 DEF Folds
      <4> QED
        BY <4>2, <4>3 DEF ReconcileTurn
  <2> QED
    BY <2>1, <2>2
<1>6. CASE WriteMerge(c)
  <2>0. call[c].pc \in {"merge", "retry"} /\ log' = log
    BY <1>6 DEF WriteMerge
  <2>1. CASE column = call[c].expected /\ Put(Merged(c)) /\ Ended(c, "ok")
    <3> DEFINE k == [call[c] EXCEPT !.pc = "done", !.out = "ok"]
    <3>1. k \in CallState /\ k.pc = "done" /\ k.out = "ok" /\ Same(c, k)
      BY <1>1 DEF CallState, Same
    <3>2. call' = [call EXCEPT ![c] = k]
      BY <1>1, <2>1 DEF Ended
    <3> HIDE DEF k
    <3> QED
      BY <2>0, <2>1, <3>1, <3>2 DEF Turn, ReconcileTurn, Merges
  <2>2. CASE /\ UNCHANGED <<doc, column>>
             /\ call' = [call EXCEPT ![c].pc = IF @ = "merge" THEN "fresh" ELSE "blind"]
    <3> DEFINE k == [call[c] EXCEPT !.pc = IF call[c].pc = "merge" THEN "fresh" ELSE "blind"]
    <3>1. /\ k \in CallState /\ k.pc \in {"fresh", "blind"} /\ k.base = call[c].base
          /\ k.req = call[c].req /\ k.out = call[c].out
      BY <1>1 DEF CallState
    <3>2. call' = [call EXCEPT ![c] = k]
      BY <1>1, <2>2
    <3> HIDE DEF k
    <3> QED
      BY <2>0, <2>2, <3>1, <3>2 DEF Turn, ReconcileTurn, Defers, Stays
  <2> QED
    BY <1>6, <2>1, <2>2 DEF WriteMerge
<1>7. CASE ReadFreshVersion(c)
  <2>1. call[c].pc = "fresh" /\ Stays /\ doc \in Document /\ doc.version \in Nat
    BY <1>1, <1>7 DEF ReadFreshVersion, Placed, Folding, Stays
  <2> DEFINE k == [call[c] EXCEPT !.expected = doc.version, !.pc = "retry"]
  <2>2. /\ k \in CallState /\ k.pc = "retry" /\ k.base = call[c].base
        /\ k.req = call[c].req /\ k.out = call[c].out
    BY <1>1, <2>1 DEF CallState
  <2>3. call' = [call EXCEPT ![c] = k]
    BY <1>1, <1>7 DEF ReadFreshVersion
  <2> HIDE DEF k
  <2> QED
    BY <2>1, <2>2, <2>3 DEF Turn, ReconcileTurn, Defers
<1>8. CASE WriteBlind(c)
  <2> DEFINE k == [call[c] EXCEPT !.pc = "done", !.out = "ok"]
  <2>1. k \in CallState /\ k.pc = "done" /\ k.out = "ok" /\ Same(c, k)
    BY <1>1 DEF CallState, Same
  <2>2. call' = [call EXCEPT ![c] = k]
    BY <1>1, <1>8 DEF WriteBlind, Ended
  <2> HIDE DEF k
  <2> QED
    BY <1>8, <2>1, <2>2 DEF Turn, ReconcileTurn, Merges, WriteBlind
<1> QED
  BY <1>3, <1>4, <1>5, <1>6, <1>7, <1>8 DEF ReconcileStep

\* A keyed append answers the position of an event with the key, and the log grows
\* by the event itself or not at all.
LEMMA AppendGrows ==
  ASSUME log \in Seq(Event), NEW e \in Event, AppendKeyed(e)
  PROVE  /\ log' \in Seq(Event)
         /\ \/ Len(log') = Len(log)
            \/ Len(log') = Len(log) + 1 /\ log'[Len(log) + 1] = e
         /\ Len(log') # Len(log) => Stored(e) = {}
         /\ \A i \in 1 .. Len(log) : log'[i] = log[i]
         /\ SequenceOf(e) \in 1 .. Len(log') /\ SameKey(log'[SequenceOf(e)], e)
<1>0. Len(log) \in Nat /\ Stored(e) \subseteq 1 .. Len(log)
  BY DEF Stored
<1>1. CASE Stored(e) = {}
  <2>1. log' = Append(log, e) /\ SequenceOf(e) = Len(log) + 1
    BY <1>1 DEF AppendKeyed, SequenceOf
  <2>2. /\ Len(log') = Len(log) + 1 /\ log'[Len(log) + 1] = e /\ log' \in Seq(Event)
        /\ \A i \in 1 .. Len(log) : log'[i] = log[i]
    BY <1>0, <2>1
  <2>3. SequenceOf(e) \in 1 .. Len(log') /\ SameKey(log'[SequenceOf(e)], e)
    BY <1>0, <2>1, <2>2 DEF SameKey
  <2> QED
    BY <1>1, <2>2, <2>3
<1>2. CASE Stored(e) # {}
  <2>1. log' = log /\ SequenceOf(e) \in Stored(e)
    BY <1>2 DEF AppendKeyed, SequenceOf
  <2>2. SequenceOf(e) \in 1 .. Len(log) /\ SameKey(log[SequenceOf(e)], e)
    BY <2>1 DEF Stored
  <2>3. Len(log) = Len(log')
    BY <2>1
  <2> QED
    BY <1>0, <2>1, <2>2, <2>3
<1> QED
  BY <1>1, <1>2

\* The events that calls append, and the documents they write.
LEMMA EventsTyped ==
  ASSUME Basis, NEW c \in Caller
  PROVE  /\ Started \in Event /\ Whole(Started)
         /\ call[c].pc \in {"trail", "entered"} =>
              TrailOf(call[c]) \in Event /\ Whole(TrailOf(call[c]))
         /\ call[c].pc = "patch" /\ call[c].req.field # None =>
              /\ PatchOf(call[c]) \in Event /\ Whole(PatchOf(call[c]))
              /\ call[c].req \in Requests
<1>1. /\ call[c] \in CallState /\ Placed(c) /\ Requests \subseteq Request /\ Initial \in Phase
  BY WorkflowAssumption DEF Basis, TypeOK, WorkflowAssumption
<1>2. Started \in Event /\ Whole(Started)
  BY <1>1 DEF Started, Event, Whole
<1>3. ASSUME call[c].pc \in {"trail", "entered"}
      PROVE  TrailOf(call[c]) \in Event /\ Whole(TrailOf(call[c]))
  BY <1>1, <1>3 DEF CallState, Document, Placed, TrailOf, Moved, Event, Whole
<1>4. ASSUME call[c].pc = "patch", call[c].req.field # None
      PROVE  /\ PatchOf(call[c]) \in Event /\ Whole(PatchOf(call[c]))
             /\ call[c].req \in Requests
  <2>1. call[c].req \in Requests
    BY <1>1, <1>4 DEF Placed, Caller, Working, Folding
  <2>2. /\ call[c].req.field \in Field /\ call[c].req.value \in Value
        /\ call[c].expected \in Nat
    BY <1>1, <1>4, <2>1 DEF Request, CallState
  <2> QED
    BY <2>1, <2>2 DEF PatchOf, Patched, Event, Whole
<1> QED
  BY <1>2, <1>3, <1>4

\* The fields a set writes.
FieldsOf(s) == IF s.req.field = None THEN s.base.fields
               ELSE [s.base.fields EXCEPT ![s.req.field] = s.req.value]

LEMMA WrittenIs ==
  ASSUME Basis, NEW c \in Caller, call[c].pc = "write"
  PROVE  /\ Written(c) \in Document /\ c \in Setter /\ call[c].req \in Requests
         /\ Written(c).version = call[c].base.version + 1
         /\ Written(c).phase = call[c].base.phase /\ Written(c).es = call[c].base.es
         /\ Written(c).fields = FieldsOf(call[c])
         /\ Written(c).at = IF call[c].seq = 0 THEN call[c].base.at ELSE call[c].seq
<1> DEFINE s == call[c]
           b == call[c].base
           at == IF s.seq = 0 THEN b.at ELSE s.seq
           fs == FieldsOf(s)
<1>1. /\ s \in CallState /\ Placed(c) /\ Requests \subseteq Request /\ b \in Document
      /\ s.seq \in Nat
  BY WorkflowAssumption DEF Basis, TypeOK, WorkflowAssumption, CallState
<1>2. c \in Setter /\ s.req \in Requests
  BY <1>1 DEF Placed, Caller, Working, Folding
<1>3. at \in Nat /\ b.version + 1 \in Nat
  BY <1>1 DEF Document
<1>4. fs \in [Field -> Value \cup {None}]
  BY <1>1, <1>2 DEF Document, Request, FieldsOf
<1>5. Written(c) = [b EXCEPT !.version = b.version + 1, !.at = at, !.fields = fs]
  BY <1>1 DEF Written, Document, FieldsOf
<1> HIDE DEF at, fs
<1>6. Written(c) \in Document
  BY <1>1, <1>3, <1>4, <1>5 DEF Document
<1>7. /\ Written(c).version = b.version + 1 /\ Written(c).at = at /\ Written(c).fields = fs
      /\ Written(c).phase = b.phase /\ Written(c).es = b.es
  BY <1>1, <1>5 DEF Document
<1> QED
  BY <1>2, <1>6, <1>7 DEF at, fs

LEMMA MergedIs ==
  ASSUME Basis, NEW c \in Caller
  PROVE  /\ Merged(c) \in Document /\ Merged(c).version = call[c].base.version + 1
         /\ Merged(c).phase = call[c].base.phase /\ Merged(c).es = call[c].base.es
         /\ Merged(c).fields = call[c].base.fields /\ Merged(c).at = call[c].base.at
<1>1. call[c].base \in Document
  BY DEF Basis, TypeOK, CallState
<1> QED
  BY <1>1 DEF Merged, Document

LEMMA CreatedIs ==
  ASSUME NEW n \in Nat, NEW d,
         d = [NoDoc EXCEPT !.version = 1, !.at = n, !.es = TRUE] \/ d = [NoDoc EXCEPT !.version = 1]
  PROVE  /\ d \in Document /\ d.version = 1 /\ d.phase = Initial
         /\ \A f \in Field : d.fields[f] = None
<1>1. NoDoc \in Document /\ NoDoc.phase = Initial /\ NoDoc.fields = [f \in Field |-> None]
  BY NoDocTyped DEF NoDoc
<1>2. d \in Document /\ d.version = 1 /\ d.phase = NoDoc.phase /\ d.fields = NoDoc.fields
  <2>1. CASE d = [NoDoc EXCEPT !.version = 1]
    BY <1>1, <2>1 DEF Document
  <2>2. CASE d = [NoDoc EXCEPT !.version = 1, !.at = n, !.es = TRUE]
    <3>1. d.version = 1 /\ d.phase = NoDoc.phase /\ d.fields = NoDoc.fields
      BY <1>1, <2>2 DEF Document
    <3>2. d \in Document
      BY <1>1, <2>2 DEF Document
    <3> QED
      BY <3>1, <3>2
  <2> QED
    BY <2>1, <2>2
<1> QED
  BY <1>1, <1>2

LEMMA BudgetTyped ==
  ASSUME Basis, [Next]_vars
  PROVE  budget' \in [crashes : 0 .. MaxCrashes, faults : 0 .. MaxFaults]
<1>1. /\ budget \in [crashes : 0 .. MaxCrashes, faults : 0 .. MaxFaults]
      /\ MaxCrashes \in Nat /\ MaxFaults \in Nat
  BY WorkflowAssumption DEF Basis, TypeOK, WorkflowAssumption
<1>2. CASE budget' = budget
  BY <1>1, <1>2
<1>3. ASSUME NEW c \in Caller, Crash(c)
      PROVE  budget' \in [crashes : 0 .. MaxCrashes, faults : 0 .. MaxFaults]
  BY <1>1, <1>3 DEF Crash
<1>4. ASSUME NEW c \in Setter, AppendFails(c)
      PROVE  budget' \in [crashes : 0 .. MaxCrashes, faults : 0 .. MaxFaults]
  BY <1>1, <1>4 DEF AppendFails
<1>5. ASSUME NEW c \in Initializer, InitStep(c)
      PROVE  budget' = budget
  BY <1>5 DEF InitStep, AppendStarted, CreateState
<1>6. ASSUME NEW c \in Setter, SetStep(c), ~AppendFails(c)
      PROVE  budget' = budget
  BY <1>6 DEF SetStep, StartSet, ReadForSet, AppendTrail, AppendPatch, WriteSet
<1>7. ASSUME NEW c \in Reconciler, ReconcileStep(c)
      PROVE  budget' = budget
  BY <1>7 DEF ReconcileStep, ReadForReconcile, CreateFromEvents, QueryAndFold, WriteMerge,
              ReadFreshVersion, WriteBlind
<1>8. UNCHANGED vars => budget' = budget
  BY DEF vars
<1> QED
  BY <1>2, <1>3, <1>4, <1>5, <1>6, <1>7, <1>8 DEF Next, Finished

\* One call becomes k, and the log and the row stay well formed.
LEMMA OnePlaced ==
  ASSUME Basis, NEW c \in Caller, NEW k, Turn(c, k),
         log' \in Seq(Event), \A i \in 1 .. Len(log') : Whole(log'[i]),
         budget' \in [crashes : 0 .. MaxCrashes, faults : 0 .. MaxFaults],
         (doc' = doc /\ column' = column) \/ (doc' \in Document /\ column' = column + 1),
         Placed(c)'
  PROVE  Basis'
<1>1. call \in [Caller -> CallState] /\ column \in Nat /\ doc \in Document \cup {None}
  BY DEF Basis, TypeOK
<1>2. call' \in [Caller -> CallState] /\ \A d \in Caller \ {c} : call'[d] = call[d]
  BY <1>1 DEF Turn
<1>3. doc' = None <=> column' = 0
  BY <1>1, NoneApart DEF Basis
<1>4. doc # None => doc' # None
  BY NoneApart
<1>5. ASSUME NEW d \in Caller
      PROVE  Placed(d)'
  <2>1. CASE d = c
    BY <2>1
  <2>2. CASE d # c
    <3>1. Placed(d) /\ call'[d] = call[d]
      BY <1>2, <2>2 DEF Basis
    <3> QED
      BY <1>4, <3>1 DEF Placed
  <2> QED
    BY <2>1, <2>2
<1>6. TypeOK'
  BY <1>1, <1>2 DEF Basis, TypeOK
<1> QED
  BY <1>3, <1>5, <1>6 DEF Basis

\* A call that appends, and a call that does not.
LEMMA WholeAppended ==
  ASSUME Basis, NEW e \in Event, Whole(e), AppendKeyed(e)
  PROVE  log' \in Seq(Event) /\ \A i \in 1 .. Len(log') : Whole(log'[i])
<1>1. Len(log) \in Nat /\ log \in Seq(Event) /\ \A i \in 1 .. Len(log) : Whole(log[i])
  BY DEF Basis, TypeOK
<1>2. /\ log' \in Seq(Event)
      /\ \/ Len(log') = Len(log)
         \/ Len(log') = Len(log) + 1 /\ log'[Len(log) + 1] = e
      /\ \A i \in 1 .. Len(log) : log'[i] = log[i]
  BY <1>1, AppendGrows
<1>3. ASSUME NEW i \in 1 .. Len(log')
      PROVE  Whole(log'[i])
  <2>1. CASE i \in 1 .. Len(log)
    BY <1>1, <1>2, <2>1
  <2>2. CASE i \notin 1 .. Len(log)
    BY <1>1, <1>2, <2>2
  <2> QED
    BY <2>1, <2>2
<1> QED
  BY <1>2, <1>3

LEMMA StaysPlaced ==
  ASSUME Basis, [Next]_vars, NEW c \in Caller, NEW k, Turn(c, k), Stays, Placed(c)'
  PROVE  Basis'
<1>1. log' = log /\ doc' = doc /\ column' = column
  BY DEF Stays
<1>2. log' \in Seq(Event) /\ \A i \in 1 .. Len(log') : Whole(log'[i])
  BY <1>1 DEF Basis, TypeOK
<1>3. budget' \in [crashes : 0 .. MaxCrashes, faults : 0 .. MaxFaults]
  BY BudgetTyped
<1>4. (doc' = doc /\ column' = column) \/ (doc' \in Document /\ column' = column + 1)
  BY <1>1
<1> QED
  BY <1>2, <1>3, <1>4, OnePlaced

LEMMA AppendPlaced ==
  ASSUME Basis, [Next]_vars, NEW c \in Caller, NEW k, Turn(c, k),
         UNCHANGED <<doc, column>>, NEW e \in Event, Whole(e), AppendKeyed(e), Placed(c)'
  PROVE  Basis'
<1>2. log' \in Seq(Event) /\ \A i \in 1 .. Len(log') : Whole(log'[i])
  BY WholeAppended
<1>3. budget' \in [crashes : 0 .. MaxCrashes, faults : 0 .. MaxFaults]
  BY BudgetTyped
<1>4. (doc' = doc /\ column' = column) \/ (doc' \in Document /\ column' = column + 1)
  OBVIOUS
<1> QED
  BY <1>2, <1>3, <1>4, OnePlaced

LEMMA InitBasis == Init => Basis
<1> SUFFICES ASSUME Init PROVE Basis
  OBVIOUS
<1>1. TypeOK
  BY InitIInv DEF IInv
<1>2. ASSUME NEW c \in Caller PROVE Placed(c)
  BY <1>2 DEF Init, Placed, Working, Folding
<1> QED
  BY <1>1, <1>2 DEF Init, Basis

LEMMA SetBasis ==
  ASSUME Basis, [Next]_vars, NEW c \in Setter, NEW k, Turn(c, k), SetTurn(c, k)
  PROVE  Basis'
<1>0. /\ c \in Caller /\ c \notin Initializer /\ c \notin Reconciler
      /\ call \in [Caller -> CallState] /\ call[c] \in CallState /\ k \in CallState
      /\ call'[c] = k /\ Placed(c) /\ log \in Seq(Event)
      /\ \A i \in 1 .. Len(log) : Whole(log[i])
      /\ budget' \in [crashes : 0 .. MaxCrashes, faults : 0 .. MaxFaults]
      /\ Requests \subseteq Request
  BY CallersAssumption, WorkflowAssumption, BudgetTyped
  DEF Caller, CallersAssumption, WorkflowAssumption, Basis, TypeOK, Turn
<1>1. CASE Begins(c, k)
  <2>1. Placed(c)'
    BY <1>0, <1>1 DEF Begins, Placed, Working, Folding
  <2> QED
    BY <1>0, <1>1, <2>1, StaysPlaced DEF Begins
<1>2. CASE Takes(c, k)
  <2>0. call[c].req \in Requests /\ k.req = call[c].req
    BY <1>0, <1>2 DEF Takes, Placed
  <2>1. k.pc \in {"trail", "entered"} => k.req.target \in Phase
    BY <1>0, <1>2, <2>0 DEF Takes, Moves, Request
  <2>2. Placed(c)'
    BY <1>0, <1>2, <2>0, <2>1 DEF Takes, Stays, Placed, Working, Folding
  <2> QED
    BY <1>0, <1>2, <2>2, StaysPlaced DEF Takes
<1>3. CASE Trails(c, k)
  <2>1. TrailOf(call[c]) \in Event /\ Whole(TrailOf(call[c])) /\ AppendKeyed(TrailOf(call[c]))
    BY <1>0, <1>3, EventsTyped DEF Trails
  <2>2. Placed(c)'
    BY <1>0, <1>3 DEF Trails, Placed, Working, Folding
  <2> QED
    BY <1>0, <1>3, <2>1, <2>2, AppendPlaced DEF Trails
<1>4. CASE Patches(c, k)
  <2>1. PatchOf(call[c]) \in Event /\ Whole(PatchOf(call[c])) /\ AppendKeyed(PatchOf(call[c]))
    BY <1>0, <1>4, EventsTyped DEF Patches
  <2>2. Placed(c)'
    BY <1>0, <1>4 DEF Patches, Placed, Working, Folding
  <2> QED
    BY <1>0, <1>4, <2>1, <2>2, AppendPlaced DEF Patches
<1>5. CASE Skips(c, k)
  <2>1. Placed(c)'
    BY <1>0, <1>5 DEF Skips, Same, Stays, Placed, Working, Folding
  <2> QED
    BY <1>0, <1>5, <2>1, StaysPlaced DEF Skips
<1>6. CASE Writes(c, k)
  <2>1. doc' \in Document /\ column' = column + 1 /\ log' = log
    BY <1>0, <1>6, WrittenIs DEF Writes, Put
  <2>2. Placed(c)'
    BY <1>0, <1>6 DEF Writes, Same, Placed, Working, Folding
  <2> QED
    BY <1>0, <2>1, <2>2, OnePlaced
<1>7. CASE Retries(c, k)
  <2>1. Placed(c)'
    BY <1>0, <1>7 DEF Retries, Same, Stays, Placed, Working, Folding
  <2> QED
    BY <1>0, <1>7, <2>1, StaysPlaced DEF Retries
<1>8. CASE Ends(c, k)
  <2>1. Placed(c)'
    BY <1>0, <1>8 DEF Ends, Same, Stays, Placed, Working, Folding
  <2> QED
    BY <1>0, <1>8, <2>1, StaysPlaced DEF Ends
<1> QED
  BY <1>1, <1>2, <1>3, <1>4, <1>5, <1>6, <1>7, <1>8 DEF SetTurn

LEMMA InitializerBasis ==
  ASSUME Basis, [Next]_vars, NEW c \in Initializer, NEW k, Turn(c, k), InitTurn(c, k)
  PROVE  Basis'
<1>0. /\ c \in Caller /\ c \notin Setter /\ c \notin Reconciler
      /\ call \in [Caller -> CallState] /\ call[c] \in CallState /\ k \in CallState
      /\ call'[c] = k /\ Placed(c) /\ log \in Seq(Event) /\ call[c].seq \in Nat
      /\ \A i \in 1 .. Len(log) : Whole(log[i])
      /\ budget' \in [crashes : 0 .. MaxCrashes, faults : 0 .. MaxFaults]
  BY CallersAssumption, BudgetTyped
  DEF Caller, CallersAssumption, Basis, TypeOK, Turn, CallState
<1>1. CASE Starts(c, k)
  <2>1. Started \in Event /\ Whole(Started) /\ AppendKeyed(Started)
    BY <1>0, <1>1, EventsTyped DEF Starts
  <2>2. Placed(c)'
    BY <1>0, <1>1 DEF Starts, Placed, Working, Folding
  <2> QED
    BY <1>0, <1>1, <2>1, <2>2, AppendPlaced DEF Starts
<1>2. CASE Creates(c, k)
  <2>1. PICK d : d = [NoDoc EXCEPT !.version = 1, !.at = call[c].seq, !.es = TRUE]
    OBVIOUS
  <2>2. doc' = d /\ column' = column + 1 /\ log' = log
    BY <1>2, <2>1 DEF Creates, Put
  <2>3. d \in Document
    BY <1>0, <2>1, CreatedIs
  <2>4. Placed(c)'
    BY <1>0, <1>2 DEF Creates, Placed, Working, Folding
  <2> QED
    BY <1>0, <2>2, <2>3, <2>4, OnePlaced
<1>3. CASE Ends(c, k)
  <2>1. Placed(c)'
    BY <1>0, <1>3 DEF Ends, Same, Stays, Placed, Working, Folding
  <2> QED
    BY <1>0, <1>3, <2>1, StaysPlaced DEF Ends
<1> QED
  BY <1>1, <1>2, <1>3 DEF InitTurn

LEMMA ReconcileBasis ==
  ASSUME Basis, [Next]_vars, NEW c \in Reconciler, NEW k, Turn(c, k), ReconcileTurn(c, k)
  PROVE  Basis'
<1>0. /\ c \in Caller /\ c \notin Setter /\ c \notin Initializer
      /\ call \in [Caller -> CallState] /\ call[c] \in CallState /\ k \in CallState
      /\ call'[c] = k /\ Placed(c) /\ log \in Seq(Event)
      /\ \A i \in 1 .. Len(log) : Whole(log[i])
      /\ budget' \in [crashes : 0 .. MaxCrashes, faults : 0 .. MaxFaults]
  BY CallersAssumption, BudgetTyped DEF Caller, CallersAssumption, Basis, TypeOK, Turn
<1>1. CASE Opens(c, k)
  <2>1. Placed(c)'
    BY <1>0, <1>1 DEF Opens, Stays, Placed, Working, Folding
  <2> QED
    BY <1>0, <1>1, <2>1, StaysPlaced DEF Opens
<1>2. CASE Founds(c, k)
  <2>1. PICK d : d = [NoDoc EXCEPT !.version = 1]
    OBVIOUS
  <2>2. doc' = d /\ column' = column + 1 /\ log' = log
    BY <1>2, <2>1 DEF Founds, Put
  <2>3. d \in Document
    BY <2>1, CreatedIs
  <2>4. Placed(c)'
    BY <1>0, <1>2, <2>2, <2>3, NoneApart DEF Founds, Placed, Working, Folding
  <2> QED
    BY <1>0, <2>2, <2>3, <2>4, OnePlaced
<1>3. CASE Folds(c, k)
  <2>1. Placed(c)'
    BY <1>0, <1>3 DEF Folds, Stays, Placed, Working, Folding
  <2> QED
    BY <1>0, <1>3, <2>1, StaysPlaced DEF Folds
<1>4. CASE Merges(c, k)
  <2>1. doc' \in Document /\ column' = column + 1 /\ log' = log
    BY <1>0, <1>4, MergedIs DEF Merges, Put
  <2>2. Placed(c)'
    BY <1>0, <1>4 DEF Merges, Same, Placed, Working, Folding
  <2> QED
    BY <1>0, <2>1, <2>2, OnePlaced
<1>5. CASE Defers(c, k)
  <2>1. Placed(c)'
    BY <1>0, <1>5 DEF Defers, Stays, Placed, Working, Folding
  <2> QED
    BY <1>0, <1>5, <2>1, StaysPlaced DEF Defers
<1>6. CASE Ends(c, k)
  <2>1. Placed(c)'
    BY <1>0, <1>6 DEF Ends, Same, Stays, Placed, Working, Folding
  <2> QED
    BY <1>0, <1>6, <2>1, StaysPlaced DEF Ends
<1> QED
  BY <1>1, <1>2, <1>3, <1>4, <1>5, <1>6 DEF ReconcileTurn

\* What a step may be.
Step(c, k) ==
  /\ c \in Caller /\ Turn(c, k)
  /\ \/ c \in Initializer /\ InitTurn(c, k)
     \/ c \in Setter /\ SetTurn(c, k)
     \/ c \in Reconciler /\ ReconcileTurn(c, k)

LEMMA Steps ==
  ASSUME Basis, [Next]_vars
  PROVE  UNCHANGED vars \/ \E c, k : Step(c, k)
<1>1. ASSUME NEW c \in Initializer, InitStep(c)
      PROVE  \E d, k : Step(d, k)
  BY <1>1, InitTurns DEF Step, Caller
<1>2. ASSUME NEW c \in Setter, SetStep(c)
      PROVE  \E d, k : Step(d, k)
  BY <1>2, SetTurns DEF Step, Caller
<1>3. ASSUME NEW c \in Reconciler, ReconcileStep(c)
      PROVE  \E d, k : Step(d, k)
  BY <1>3, ReconcileTurns DEF Step, Caller
<1>4. ASSUME NEW c \in Caller, Crash(c)
      PROVE  \E d, k : Step(d, k)
  BY <1>4, CrashTurns DEF Step, Caller, InitTurn, SetTurn, ReconcileTurn
<1> QED
  BY <1>1, <1>2, <1>3, <1>4 DEF Next, Finished

LEMMA NextBasis == ASSUME Basis, [Next]_vars PROVE Basis'
<1>1. CASE UNCHANGED vars
  BY <1>1 DEF vars, Basis, TypeOK, Placed
<1>2. ASSUME NEW c, NEW k, Step(c, k)
      PROVE  Basis'
  BY <1>2, InitializerBasis, SetBasis, ReconcileBasis DEF Step
<1> QED
  BY <1>1, <1>2, Steps

\* Every step of every call, reconciles that overwrite what a set has written
\* included, keeps the variables in their types: no version, sequence or attempt
\* leaves its range, and no call acts on a document that is not there.
THEOREM EveryStepTyped == Spec => []TypeOK
<1>1. Basis => TypeOK
  BY DEF Basis
<1>2. Basis /\ [Next]_vars => Basis'
  BY NextBasis
<1> QED
  BY <1>1, <1>2, InitBasis, PTL DEF Spec

-----------------------------------------------------------------------------
(***************************************************************************)
(* The log only grows.                                                      *)
(***************************************************************************)

\* What step c, k appended, if position i is new.
News(c, k, e) ==
  \/ e = Started /\ c \in Initializer /\ Starts(c, k)
  \/ e = TrailOf(call[c]) /\ c \in Setter /\ Trails(c, k)
  \/ e = PatchOf(call[c]) /\ c \in Setter /\ Patches(c, k)

Longer(l, m) == Len(l) \in Nat /\ Len(m) \in Nat /\ Len(l) <= Len(m)
                /\ \A i \in 1 .. Len(l) : m[i] = l[i]

LEMMA LogGrows ==
  ASSUME Basis, NEW c, NEW k, Step(c, k)
  PROVE  /\ Longer(log, log')
         /\ \A i \in 1 .. Len(log') : i > Len(log) =>
              i = Len(log) + 1 /\ Stored(log'[i]) = {} /\ News(c, k, log'[i])
<1>0. c \in Caller /\ log \in Seq(Event) /\ Len(log) \in Nat
  BY DEF Step, Basis, TypeOK
<1>1. ASSUME log' = log
      PROVE  /\ Longer(log, log')
             /\ \A i \in 1 .. Len(log') : i > Len(log) =>
                  i = Len(log) + 1 /\ Stored(log'[i]) = {} /\ News(c, k, log'[i])
  BY <1>0, <1>1 DEF Longer
<1>2. ASSUME NEW e \in Event, AppendKeyed(e), News(c, k, e)
      PROVE  /\ Longer(log, log')
             /\ \A i \in 1 .. Len(log') : i > Len(log) =>
                  i = Len(log) + 1 /\ Stored(log'[i]) = {} /\ News(c, k, log'[i])
  <2>1. /\ log' \in Seq(Event)
        /\ \/ Len(log') = Len(log)
           \/ Len(log') = Len(log) + 1 /\ log'[Len(log) + 1] = e
        /\ Len(log') # Len(log) => Stored(e) = {}
        /\ \A i \in 1 .. Len(log) : log'[i] = log[i]
    BY <1>0, <1>2, AppendGrows
  <2>2. Longer(log, log')
    BY <1>0, <2>1 DEF Longer
  <2>3. ASSUME NEW i \in 1 .. Len(log'), i > Len(log)
        PROVE  i = Len(log) + 1 /\ log'[i] = e /\ Stored(e) = {}
    BY <1>0, <2>1, <2>3
  <2> QED
    BY <1>2, <2>2, <2>3
<1>3. CASE c \in Initializer /\ InitTurn(c, k)
  <2>1. CASE Starts(c, k)
    <3>1. Started \in Event /\ AppendKeyed(Started) /\ News(c, k, Started)
      BY <1>0, <1>3, <2>1, EventsTyped DEF Starts, News
    <3> QED
      BY <1>2, <3>1
  <2>2. CASE Creates(c, k) \/ Ends(c, k)
    BY <1>1, <2>2 DEF Creates, Ends, Stays
  <2> QED
    BY <1>3, <2>1, <2>2 DEF InitTurn
<1>4. CASE c \in Setter /\ SetTurn(c, k)
  <2>1. CASE Trails(c, k)
    <3>1. PICK e : e = TrailOf(call[c])
      OBVIOUS
    <3>2. e \in Event /\ AppendKeyed(e) /\ News(c, k, e)
      BY <1>0, <1>4, <2>1, <3>1, EventsTyped DEF Trails, News
    <3> QED
      BY <1>2, <3>2
  <2>2. CASE Patches(c, k)
    <3>1. PICK e : e = PatchOf(call[c])
      OBVIOUS
    <3>2. e \in Event /\ AppendKeyed(e) /\ News(c, k, e)
      BY <1>0, <1>4, <2>2, <3>1, EventsTyped DEF Patches, News
    <3> QED
      BY <1>2, <3>2
  <2>3. CASE ~Trails(c, k) /\ ~Patches(c, k)
    BY <1>1, <1>4, <2>3 DEF SetTurn, Begins, Takes, Skips, Writes, Retries, Ends, Stays
  <2> QED
    BY <2>1, <2>2, <2>3
<1>5. CASE c \in Reconciler /\ ReconcileTurn(c, k)
  BY <1>1, <1>5 DEF ReconcileTurn, Opens, Founds, Folds, Merges, Defers, Ends, Stays
<1> QED
  BY <1>3, <1>4, <1>5 DEF Step

\* The other calls keep their state, and c becomes k.
LEMMA StepCalls ==
  ASSUME Basis, NEW c, NEW k, Step(c, k)
  PROVE  /\ c \in Caller /\ k \in CallState /\ call'[c] = k /\ call[c] \in CallState
         /\ \A d \in Caller : d # c => call'[d] = call[d]
         /\ Placed(c)
         /\ c \in Setter => c \notin Reconciler \cup Initializer
         /\ c \in Reconciler => c \notin Setter \cup Initializer
         /\ c \in Initializer => c \notin Setter \cup Reconciler
  BY CallersAssumption DEF Step, Turn, Basis, TypeOK, CallersAssumption

\* What a step does to the request of its call.
LEMMA StepRequest ==
  ASSUME Basis, NEW c, NEW k, Step(c, k)
  PROVE  /\ call[c].req # None => k.req = call[c].req
         /\ c \in Setter => (call[c].req = None /\ call[c].pc = "idle") \/ k.req = call[c].req
<1>1. Placed(c) /\ c \in Caller /\ None \notin Requests /\ call[c] \in CallState
  BY StepCalls, WorkflowAssumption, NoneApart DEF WorkflowAssumption
<1>2. CASE c \in Initializer /\ InitTurn(c, k)
  BY <1>1, <1>2, StepCalls DEF InitTurn, Starts, Creates, Ends, Same
<1>3. CASE c \in Setter /\ SetTurn(c, k)
  BY <1>1, <1>3 DEF SetTurn, Begins, Takes, Trails, Patches, Skips, Writes, Retries, Ends, Same,
                    Placed
<1>4. CASE c \in Reconciler /\ ReconcileTurn(c, k)
  BY <1>1, <1>4, StepCalls
  DEF ReconcileTurn, Opens, Founds, Folds, Merges, Defers, Ends, Same
<1> QED
  BY <1>2, <1>3, <1>4 DEF Step

-----------------------------------------------------------------------------
(***************************************************************************)
(* While no reconcile has begun: the obligations of a phase are in the log  *)
(* before the phase is in the document, and an acknowledged update stays.   *)
(***************************************************************************)

LEMMA CalmStep ==
  ASSUME Basis, Shape, [Next]_vars, NEW c, NEW k, Step(c, k), Undisturbed'
  PROVE  /\ Undisturbed
         /\ (c \in Initializer /\ InitTurn(c, k)) \/ (c \in Setter /\ SetTurn(c, k))
<1>1. Undisturbed
  BY BegunStays
<1>2. c \in Caller /\ call'[c] = k
  BY StepCalls
<1>3. ASSUME c \in Reconciler, ReconcileTurn(c, k)
      PROVE  FALSE
  <2>1. call[c].pc = "idle" /\ k.pc = "idle"
    BY <1>1, <1>2, <1>3 DEF Undisturbed
  <2> QED
    BY <1>3, <2>1 DEF ReconcileTurn, Opens, Founds, Folds, Merges, Defers, Ends
<1> QED
  BY <1>1, <1>3 DEF Step

Frozen(l, p) == p = Initial \/ \E i \in 1 .. Len(l) : l[i].type = "entered" /\ l[i].to = p

\* No other call asks for the field of c.
Alone(c) == \A o \in Setter \ {c} : call[o].req # None => call[o].req.field # call[c].req.field

CalmInv ==
  /\ doc # None => Frozen(log, doc.phase)
  /\ \A c \in Setter :
       LET s == call[c]
       IN  /\ s.pc \in Working => Frozen(log, s.base.phase)
           /\ s.pc \in Working /\ s.expected = column => s.base.fields = doc.fields
           /\ s.out = "ok" =>
                /\ doc # None
                /\ s.req.field # None /\ Alone(c) => doc.fields[s.req.field] = s.req.value

LEMMA FrozenStays == ASSUME NEW l, NEW m, Longer(l, m), NEW p, Frozen(l, p) PROVE Frozen(m, p)
  BY DEF Longer, Frozen

\* The appends of a transition leave its phase.entered in the log.
LEMMA TrailFreezes ==
  ASSUME Basis, NEW c \in Setter, NEW k, Step(c, k), Trails(c, k), Frozen(log, call[c].base.phase)
  PROVE  Frozen(log', k.base.phase) /\ k.base.fields = call[c].base.fields
<1> DEFINE e == TrailOf(call[c])
           n == SequenceOf(e)
<1>0. /\ c \in Caller /\ call[c].pc \in {"trail", "entered"} /\ AppendKeyed(e)
      /\ log \in Seq(Event) /\ Longer(log, log') /\ call[c].base \in Document
  BY StepCalls, LogGrows DEF Trails, Basis, TypeOK, CallState
<1>1. e \in Event
  BY <1>0, EventsTyped
<1>2. n \in 1 .. Len(log') /\ SameKey(log'[n], e)
  <2> HIDE DEF e
  <2> QED
    BY <1>0, <1>1, AppendGrows
<1>3. k.base.fields = call[c].base.fields
  BY <1>0 DEF Trails, Document
<1>4. CASE call[c].pc = "trail"
  <2>1. k.base.phase = call[c].base.phase
    BY <1>0, <1>4 DEF Trails, Document
  <2> QED
    BY <1>0, <1>3, <2>1, FrozenStays
<1>5. CASE call[c].pc = "entered"
  <2>1. k.base.phase = call[c].req.target
    BY <1>0, <1>5 DEF Trails, Document
  <2>2. e.type = "entered" /\ e.to = call[c].req.target
    BY <1>5 DEF TrailOf, Moved
  <2> HIDE DEF e, n
  <2> QED
    BY <1>2, <1>3, <2>1, <2>2 DEF SameKey, Frozen
<1> QED
  BY <1>0, <1>4, <1>5

LEMMA CalmKept ==
  ASSUME Basis, IInv, CalmInv, NEW c, NEW k, Step(c, k),
         (c \in Initializer /\ InitTurn(c, k)) \/ (c \in Setter /\ SetTurn(c, k))
  PROVE  CalmInv'
<1>0. /\ c \in Caller /\ call'[c] = k /\ \A d \in Caller : d # c => call'[d] = call[d]
      /\ k \in CallState /\ call[c] \in CallState /\ Placed(c) /\ Longer(log, log')
      /\ doc # None => doc \in Document /\ doc.version = column
      /\ Requests \subseteq Request /\ column \in Nat
      /\ \A d \in Setter : d \in Caller
      /\ doc # None => column # 0
  BY StepCalls, LogGrows, WorkflowAssumption
  DEF WorkflowAssumption, Basis, TypeOK, IInv, VersionIsColumn, Caller
<1>1. \A p : Frozen(log, p) => Frozen(log', p)
  BY <1>0, FrozenStays
<1>2. \A d \in Setter : call[d].req # None => call'[d].req = call[d].req
  BY <1>0, StepRequest
<1>3. ASSUME NEW d \in Setter, call[d].req # None, Alone(d)'
      PROVE  Alone(d)
  BY <1>2, <1>3 DEF Alone
<1>4. ASSUME NEW d \in Setter, call[d].out = "ok"
      PROVE  call[d].pc = "done" /\ call[d].req \in Request /\ call[d].req # None
  <2>1. Placed(d)
    BY <1>0 DEF Basis
  <2> QED
    BY <1>0, <1>4, <2>1, NoneApart DEF Placed
\* When the row stays, what is new is of c.
<1>5. ASSUME doc' = doc, column' = column, c \in Setter => k.out # "ok",
             c \in Setter /\ k.pc \in Working =>
               /\ Frozen(log', k.base.phase)
               /\ k.expected = column => k.base.fields = doc.fields
      PROVE  CalmInv'
  <2>1. ASSUME NEW d \in Setter
        PROVE  LET s == call'[d]
               IN  /\ s.pc \in Working => Frozen(log', s.base.phase)
                   /\ s.pc \in Working /\ s.expected = column' => s.base.fields = doc'.fields
                   /\ s.out = "ok" =>
                        /\ doc' # None
                        /\ s.req.field # None /\ Alone(d)' =>
                             doc'.fields[s.req.field] = s.req.value
    <3>1. CASE d = c
      BY <1>0, <1>5, <3>1
    <3>2. CASE d # c
      BY <1>0, <1>1, <1>3, <1>4, <1>5, <3>2 DEF CalmInv
    <3> QED
      BY <3>1, <3>2
  <2>2. doc' # None => Frozen(log', doc'.phase)
    BY <1>1, <1>5 DEF CalmInv
  <2> QED
    BY <2>1, <2>2 DEF CalmInv
<1>6. CASE c \in Initializer /\ InitTurn(c, k)
  <2>0. c \notin Setter
    BY <1>6, CallersAssumption DEF CallersAssumption
  <2>1. CASE Creates(c, k)
    <3>1. /\ call[c].seq \in Nat /\ column = 0
          /\ doc' = [NoDoc EXCEPT !.version = 1, !.at = call[c].seq, !.es = TRUE]
      BY <1>0, <2>1 DEF Creates, Put, CallState
    <3>2. doc' \in Document /\ doc'.phase = Initial
      BY <3>1, CreatedIs
    <3>3. doc = None
      BY <1>0, <3>1
    <3>4. ASSUME NEW d \in Setter
          PROVE  call'[d].pc \notin Working /\ call'[d].out # "ok"
      <4>1. d # c /\ call'[d] = call[d] /\ Placed(d)
        BY <1>0, <2>0 DEF Basis
      <4> QED
        BY <3>3, <4>1 DEF Placed, CalmInv
    <3> QED
      BY <3>2, <3>4 DEF CalmInv, Frozen
  <2>2. CASE Starts(c, k) \/ Ends(c, k)
    BY <1>5, <2>0, <2>2 DEF Starts, Ends, Stays
  <2> QED
    BY <1>6, <2>1, <2>2 DEF InitTurn
<1>7. CASE c \in Setter /\ SetTurn(c, k)
  <2>0. call[c].pc # "done" => call[c].out # "ok"
    BY <1>4, <1>7
  <2>1. CASE Begins(c, k) \/ Retries(c, k)
    BY <1>5, <2>0, <2>1 DEF Begins, Retries, Stays, Working
  <2>2. CASE Takes(c, k)
    <3>1. Frozen(log', k.base.phase) /\ k.base.fields = doc.fields
      BY <1>1, <2>2 DEF Takes, CalmInv
    <3> QED
      BY <1>5, <2>0, <2>2, <3>1 DEF Takes, Stays
  <2>3. CASE Trails(c, k)
    <3>1. call[c].pc \in Working /\ Frozen(log, call[c].base.phase)
      BY <1>7, <2>3 DEF Trails, CalmInv, Working
    <3>2. Frozen(log', k.base.phase) /\ k.base.fields = call[c].base.fields
      BY <1>7, <2>3, <3>1, TrailFreezes
    <3> QED
      BY <1>5, <1>7, <2>0, <2>3, <3>1, <3>2 DEF Trails, CalmInv
  <2>4. CASE Patches(c, k)
    <3>1. call[c].pc \in Working /\ k.base = call[c].base /\ Frozen(log', k.base.phase)
      BY <1>1, <1>7, <2>4 DEF Patches, CalmInv, Working
    <3> QED
      BY <1>5, <1>7, <2>0, <2>4, <3>1 DEF Patches, CalmInv
  <2>5. CASE Skips(c, k)
    <3>1. call[c].pc \in Working /\ k.base = call[c].base /\ Frozen(log', k.base.phase)
      BY <1>1, <1>7, <2>5 DEF Skips, CalmInv, Working, Same
    <3> QED
      BY <1>5, <1>7, <2>0, <2>5, <3>1 DEF Skips, CalmInv, Same, Stays
  <2>6. CASE Ends(c, k)
    BY <1>5, <2>0, <2>6 DEF Ends, Stays, Working
  <2>7. CASE Writes(c, k)
    <3>1. /\ doc' = Written(c) /\ column' = column + 1 /\ call[c].pc = "write"
          /\ column = call[c].expected /\ k.req = call[c].req /\ k.pc = "done"
          /\ Written(c) \in Document /\ Written(c).phase = call[c].base.phase
          /\ Written(c).fields = FieldsOf(call[c]) /\ call[c].req \in Request
          /\ call[c].req # None
      BY <1>0, <2>7, WrittenIs, NoneApart DEF Writes, Put, Same
    <3>2. /\ call[c].base.fields = doc.fields /\ Frozen(log', doc'.phase) /\ doc' # None
          /\ call[c].base.fields \in [Field -> Value \cup {None}]
      BY <1>0, <1>1, <1>7, <3>1, NoneApart DEF CalmInv, Working, CallState, Document
    <3>3. ASSUME NEW d \in Setter
          PROVE  LET s == call'[d]
                 IN  /\ s.pc \in Working => Frozen(log', s.base.phase)
                     /\ s.pc \in Working /\ s.expected = column' => s.base.fields = doc'.fields
                     /\ s.out = "ok" =>
                          /\ doc' # None
                          /\ s.req.field # None /\ Alone(d)' =>
                               doc'.fields[s.req.field] = s.req.value
      <4>1. CASE d = c
        <5>1. k.req.field # None => doc'.fields[k.req.field] = k.req.value
          BY <3>1, <3>2 DEF FieldsOf, Request
        <5> QED
          BY <1>0, <3>1, <3>2, <4>1, <5>1 DEF Working
      <4>2. CASE d # c
        <5>1. call'[d] = call[d] /\ SetInv(d)
          BY <1>0, <4>2 DEF IInv
        <5>2. call[d].pc \in Working => call[d].expected # column'
          BY <1>0, <3>1, <5>1 DEF SetInv, Working
        <5>3. ASSUME call[d].out = "ok", call[d].req.field # None, Alone(d)'
              PROVE  doc'.fields[call[d].req.field] = call[d].req.value
          <6>1. call[d].req \in Request /\ call[d].req # None /\ Alone(d)
            BY <1>3, <1>4, <5>3
          <6>2. call[c].req.field # call[d].req.field /\ call[d].req.field \in Field
            BY <1>7, <3>1, <4>2, <5>3, <6>1 DEF Alone, Request
          <6>3. doc.fields[call[d].req.field] = call[d].req.value
            BY <5>3, <6>1 DEF CalmInv
          <6> QED
            BY <3>1, <3>2, <6>2, <6>3 DEF FieldsOf
        <5> QED
          BY <1>1, <3>2, <5>1, <5>2, <5>3 DEF CalmInv
      <4> QED
        BY <4>1, <4>2
    <3> QED
      BY <3>2, <3>3 DEF CalmInv
  <2> QED
    BY <1>7, <2>1, <2>2, <2>3, <2>4, <2>5, <2>6, <2>7 DEF SetTurn
<1> QED
  BY <1>6, <1>7

QuietInv == Basis /\ FirstInv /\ (Undisturbed => CalmInv)

LEMMA InitQuiet == Init => QuietInv
<1> SUFFICES ASSUME Init PROVE QuietInv
  OBVIOUS
<1>1. CalmInv
  BY DEF Init, CalmInv, Working, Caller
<1> QED
  BY <1>1, InitBasis, InitFirst DEF QuietInv

LEMMA NextQuiet == ASSUME QuietInv, [Next]_vars PROVE QuietInv'
<1>1. Basis' /\ FirstInv'
  BY NextBasis, NextFirst DEF QuietInv
<1>2. CASE UNCHANGED vars
  BY <1>1, <1>2 DEF vars, QuietInv, CalmInv, Alone, Undisturbed
<1>3. ASSUME NEW c, NEW k, Step(c, k), Undisturbed'
      PROVE  CalmInv'
  <2>1. /\ Undisturbed
        /\ (c \in Initializer /\ InitTurn(c, k)) \/ (c \in Setter /\ SetTurn(c, k))
    BY <1>3, CalmStep DEF QuietInv, FirstInv
  <2> QED
    BY <1>3, <2>1, CalmKept DEF QuietInv, FirstInv
<1> QED
  BY <1>1, <1>2, <1>3, Steps DEF QuietInv

\* Until a reconcile begins, the phase of the document has its obligations frozen
\* by a phase.entered event, whatever sets race, fail after the first event of
\* their trail, or die before they write.
THEOREM ObligationsFrozen == Spec => []ObligationFrozen
<1>1. QuietInv => ObligationFrozen
  BY DEF QuietInv, CalmInv, ObligationFrozen, Frozen
<1>2. QuietInv /\ [Next]_vars => QuietInv'
  BY NextQuiet
<1> QED
  BY <1>1, <1>2, InitQuiet, PTL DEF Spec

\* Until a reconcile begins, an update answered with success is not lost to a call
\* that updates other fields from an earlier read: the compare-and-swap makes such
\* a call read again.
THEOREM AcknowledgedStays == Spec => []AcknowledgedKept
<1>1. QuietInv => AcknowledgedKept
  BY DEF QuietInv, CalmInv, AcknowledgedKept, Alone
<1>2. QuietInv /\ [Next]_vars => QuietInv'
  BY NextQuiet
<1> QED
  BY <1>1, <1>2, InitQuiet, PTL DEF Spec

-----------------------------------------------------------------------------
(***************************************************************************)
(* Calls that all succeed leave the fold of the log.                        *)
(*                                                                          *)
(* An event of an attempt that lost its compare-and-swap stays in the log.  *)
(* Its call is still at work and asks for what the event says; when it      *)
(* writes at last, an event of its own attempt comes after every event that *)
(* no call at work asks for.                                                *)
(***************************************************************************)
Busy(s) == s.pc \in {"read"} \cup Working

\* A call at work asks for the phase, for the value.
WaitsTo(cs, p) == p # None /\ \E c \in Setter : Busy(cs[c]) /\ cs[c].req.target = p
WaitsFor(cs, f, v) ==
  \E c \in Setter : Busy(cs[c]) /\ cs[c].req.field = f /\ cs[c].req.value = v

Move(e) == e.type \in {"started", "transition"}
PatchOn(e, f) == e.type = "patched" /\ e.field = f

\* From some move on the log moves to p, or to what a call at work asks for.
LastTo(l, cs, p) ==
  \E m \in 1 .. Len(l) :
    /\ Move(l[m])
    /\ \A i \in 1 .. Len(l) : (i >= m /\ Move(l[i])) => (l[i].to = p \/ WaitsTo(cs, l[i].to))

\* The same for a field; without a patch of it the value is None.
LastOn(l, cs, f, v) ==
  \E m \in 0 .. Len(l) :
    /\ IF m = 0 THEN v = None ELSE PatchOn(l[m], f)
    /\ \A i \in 1 .. Len(l) :
         (i >= m /\ PatchOn(l[i], f)) => (l[i].value = v \/ WaitsFor(cs, f, l[i].value))

\* Event b comes after a, which is of the current version.
Follows(a, b, cs) ==
  /\ a.type = "transition" /\ Move(b) => WaitsTo(cs, b.to)
  /\ a.type = "patched" /\ PatchOn(b, a.field) => WaitsFor(cs, b.field, b.value)

HasStart(l) == \E i \in 1 .. Len(l) : SameKey(l[i], Started)
HasMove(l, v) == \E i \in 1 .. Len(l) : l[i].type = "transition" /\ l[i].version = v
HasPatch(l, f, v) == \E i \in 1 .. Len(l) : PatchOn(l[i], f) /\ l[i].version = v

\* A call has logged what it is about to write.
Ready(l, s, d, col) ==
  /\ s.pc \in Working => s.base.es
  /\ s.pc = "entered" => HasMove(l, s.expected)
  /\ s.pc \in {"patch", "write"} =>
       /\ s.req.target \in {None, s.base.phase}
       /\ s.expected = col /\ s.base.phase # d.phase => HasMove(l, s.expected)
  /\ s.pc = "write" /\ s.req.field # None => HasPatch(l, s.req.field, s.expected)

OrderInv ==
  /\ doc # None => doc.es /\ HasStart(log)
  /\ \A i \in 1 .. Len(log) :
       /\ log[i].version <= column
       /\ log[i].type = "started" => log[i].to = Initial
       /\ doc = None => log[i].type = "started"
  /\ \A c \in Initializer : call[c].pc = "started" => HasStart(log)
  /\ \A c \in Setter : Ready(log, call[c], doc, column)
  /\ \A m, i \in 1 .. Len(log) :
       m <= i /\ log[m].version = column => Follows(log[m], log[i], call)
  /\ doc # None => /\ LastTo(log, call, doc.phase)
                   /\ \A f \in Field : LastOn(log, call, f, doc.fields[f])

LEMMA LastStays ==
  ASSUME NEW l, NEW m, Longer(l, m), NEW cs, NEW ds, NEW p, LastTo(l, cs, p),
         \A t : WaitsTo(cs, t) => WaitsTo(ds, t) \/ t = p,
         \A i \in 1 .. Len(m) : (i > Len(l) /\ Move(m[i])) => WaitsTo(ds, m[i].to)
  PROVE  LastTo(m, ds, p)
<1>1. PICK n \in 1 .. Len(l) :
        /\ Move(l[n])
        /\ \A i \in 1 .. Len(l) : (i >= n /\ Move(l[i])) => (l[i].to = p \/ WaitsTo(cs, l[i].to))
  BY DEF LastTo
<1>2. Len(l) \in Nat /\ Len(m) \in Nat /\ Len(l) <= Len(m) /\ \A i \in 1 .. Len(l) : m[i] = l[i]
  BY DEF Longer
<1>3. n \in 1 .. Len(m) /\ Move(m[n])
  BY <1>1, <1>2
<1>4. ASSUME NEW i \in 1 .. Len(m), i >= n, Move(m[i])
      PROVE  m[i].to = p \/ WaitsTo(ds, m[i].to)
  <2>1. CASE i \in 1 .. Len(l)
    BY <1>1, <1>2, <1>4, <2>1
  <2>2. CASE i \notin 1 .. Len(l)
    BY <1>2, <1>4, <2>2
  <2> QED
    BY <2>1, <2>2
<1> QED
  BY <1>3, <1>4 DEF LastTo

LEMMA LastOnStays ==
  ASSUME NEW l, NEW m, Longer(l, m), NEW cs, NEW ds, NEW f, NEW v, LastOn(l, cs, f, v),
         \A w : WaitsFor(cs, f, w) => WaitsFor(ds, f, w) \/ w = v,
         \A i \in 1 .. Len(m) :
           (i > Len(l) /\ PatchOn(m[i], f)) => WaitsFor(ds, f, m[i].value)
  PROVE  LastOn(m, ds, f, v)
<1>1. PICK n \in 0 .. Len(l) :
        /\ IF n = 0 THEN v = None ELSE PatchOn(l[n], f)
        /\ \A i \in 1 .. Len(l) :
             (i >= n /\ PatchOn(l[i], f)) => (l[i].value = v \/ WaitsFor(cs, f, l[i].value))
  BY DEF LastOn
<1>2. Len(l) \in Nat /\ Len(m) \in Nat /\ Len(l) <= Len(m) /\ \A i \in 1 .. Len(l) : m[i] = l[i]
  BY DEF Longer
<1>3. n \in 0 .. Len(m) /\ (IF n = 0 THEN v = None ELSE PatchOn(m[n], f))
  BY <1>1, <1>2
<1>4. ASSUME NEW i \in 1 .. Len(m), i >= n, PatchOn(m[i], f)
      PROVE  m[i].value = v \/ WaitsFor(ds, f, m[i].value)
  <2>1. CASE i \in 1 .. Len(l)
    BY <1>1, <1>2, <1>4, <2>1
  <2>2. CASE i \notin 1 .. Len(l)
    BY <1>2, <1>4, <2>2
  <2> QED
    BY <2>1, <2>2
<1> QED
  BY <1>3, <1>4 DEF LastOn

LEMMA HasMoveStays ==
  ASSUME NEW l, NEW m, Longer(l, m)
  PROVE  /\ \A v : HasMove(l, v) => HasMove(m, v)
         /\ \A f, v : HasPatch(l, f, v) => HasPatch(m, f, v)
         /\ HasStart(l) => HasStart(m)
  BY DEF Longer, HasMove, HasPatch, HasStart

LEMMA ReadyStays ==
  ASSUME NEW l, NEW m, Longer(l, m), NEW s, NEW d, NEW col, Ready(l, s, d, col)
  PROVE  Ready(m, s, d, col)
  BY HasMoveStays DEF Ready

\* An event that a step appends while the row stays.
Fits(e, d, col, cs) ==
  /\ e.version <= col
  /\ e.type = "started" => e.to = Initial /\ d = None
  /\ e.type # "started" => d # None
  /\ e.type = "transition" => WaitsTo(cs, e.to)
  /\ e.type = "patched" => WaitsFor(cs, e.field, e.value)

LEMMA OrderStays ==
  ASSUME Basis, OrderInv, NEW c, NEW k, Step(c, k), doc' = doc, column' = column,
         \A t : WaitsTo(call, t) => WaitsTo(call', t),
         \A f, v : WaitsFor(call, f, v) => WaitsFor(call', f, v),
         \A i \in 1 .. Len(log') : i > Len(log) => Fits(log'[i], doc, column, call'),
         c \in Setter => Ready(log', k, doc, column),
         c \in Initializer /\ k.pc = "started" => HasStart(log')
  PROVE  OrderInv'
<1>1. /\ Longer(log, log') /\ c \in Caller /\ call'[c] = k
      /\ \A d \in Caller : d # c => call'[d] = call[d]
      /\ \A i \in 1 .. Len(log') : i > Len(log) => i = Len(log) + 1
      /\ column \in Nat
  BY LogGrows, StepCalls DEF Basis, TypeOK
<1>2. /\ Len(log) \in Nat /\ Len(log') \in Nat /\ Len(log) <= Len(log')
      /\ \A i \in 1 .. Len(log) : log'[i] = log[i]
  BY <1>1 DEF Longer
<1>3. doc' # None => doc'.es /\ HasStart(log')
  BY <1>1, HasMoveStays DEF OrderInv
<1>4. ASSUME NEW i \in 1 .. Len(log')
      PROVE  /\ log'[i].version <= column'
             /\ log'[i].type = "started" => log'[i].to = Initial
             /\ doc' = None => log'[i].type = "started"
  <2>1. CASE i \in 1 .. Len(log)
    BY <1>2, <2>1 DEF OrderInv
  <2>2. CASE i \notin 1 .. Len(log)
    <3>1. Fits(log'[i], doc, column, call')
      BY <1>2, <2>2
    <3> QED
      BY <3>1 DEF Fits
  <2> QED
    BY <2>1, <2>2
<1>5. ASSUME NEW d \in Initializer, call'[d].pc = "started"
      PROVE  HasStart(log')
  <2>1. CASE d = c
    BY <1>1, <1>5, <2>1
  <2>2. CASE d # c
    BY <1>1, <1>5, <2>2, HasMoveStays DEF OrderInv, Caller
  <2> QED
    BY <2>1, <2>2
<1>6. ASSUME NEW d \in Setter
      PROVE  Ready(log', call'[d], doc', column')
  <2>1. CASE d = c
    BY <1>1, <2>1
  <2>2. CASE d # c
    BY <1>1, <2>2, ReadyStays DEF OrderInv, Caller
  <2> QED
    BY <2>1, <2>2
<1>7. ASSUME NEW m \in 1 .. Len(log'), NEW i \in 1 .. Len(log'), m <= i,
             log'[m].version = column'
      PROVE  Follows(log'[m], log'[i], call')
  <2>1. CASE i \in 1 .. Len(log)
    <3>1. m \in 1 .. Len(log) /\ log'[m] = log[m] /\ log'[i] = log[i]
      BY <1>2, <1>7, <2>1
    <3>2. Follows(log[m], log[i], call)
      BY <1>7, <2>1, <3>1 DEF OrderInv
    <3> QED
      BY <3>1, <3>2 DEF Follows
  <2>2. CASE i \notin 1 .. Len(log)
    <3>1. i = Len(log) + 1 /\ Fits(log'[i], doc, column, call')
      BY <1>1, <1>2, <2>2
    <3>2. ASSUME log'[i].type = "started", log'[m].type = "transition"
          PROVE  FALSE
      <4>1. doc = None
        BY <3>1, <3>2 DEF Fits
      <4>2. CASE m \in 1 .. Len(log)
        BY <1>2, <3>2, <4>1, <4>2 DEF OrderInv
      <4>3. CASE m \notin 1 .. Len(log)
        BY <1>1, <1>2, <3>1, <3>2, <4>3
      <4> QED
        BY <4>2, <4>3
    <3> QED
      BY <3>1, <3>2 DEF Fits, Follows, Move, PatchOn
  <2> QED
    BY <2>1, <2>2
<1>8. ASSUME doc' # None
      PROVE  /\ LastTo(log', call', doc'.phase)
             /\ \A f \in Field : LastOn(log', call', f, doc'.fields[f])
  <2>1. \A i \in 1 .. Len(log') : i > Len(log) /\ Move(log'[i]) => WaitsTo(call', log'[i].to)
    BY <1>8 DEF Fits, Move
  <2>2. \A f : \A i \in 1 .. Len(log') :
          i > Len(log) /\ PatchOn(log'[i], f) => WaitsFor(call', f, log'[i].value)
    BY DEF Fits, PatchOn
  <2>3. LastTo(log, call, doc.phase) /\ \A f \in Field : LastOn(log, call, f, doc.fields[f])
    BY <1>8 DEF OrderInv
  <2>4. LastTo(log', call', doc.phase)
    BY <1>1, <2>1, <2>3, LastStays
  <2>5. ASSUME NEW f \in Field PROVE LastOn(log', call', f, doc.fields[f])
    BY <1>1, <2>2, <2>3, LastOnStays
  <2> QED
    BY <2>4, <2>5
<1> QED
  BY <1>3, <1>4, <1>5, <1>6, <1>7, <1>8 DEF OrderInv

\* The creation of the document.
LEMMA OrderCreates ==
  ASSUME Basis, OrderInv, NEW c \in Initializer, NEW k, Step(c, k), Creates(c, k)
  PROVE  OrderInv'
<1>1. /\ c \in Caller /\ call'[c] = k /\ \A d \in Caller : d # c => call'[d] = call[d]
      /\ c \notin Setter /\ call[c].seq \in Nat
      /\ log \in Seq(Event) /\ Len(log) \in Nat
      /\ \A i \in 1 .. Len(log) : Whole(log[i]) /\ log[i] \in Event
  BY StepCalls DEF Basis, TypeOK, CallState
<1>2. /\ log' = log /\ column = 0 /\ column' = 1 /\ HasStart(log) /\ k.pc = "done"
      /\ doc' = [NoDoc EXCEPT !.version = 1, !.at = call[c].seq, !.es = TRUE]
  BY DEF Creates, Put, OrderInv
<1>3. /\ doc' \in Document /\ doc'.phase = Initial /\ \A f \in Field : doc'.fields[f] = None
      /\ doc' # None /\ doc'.es
  <2>1. doc' \in Document /\ doc'.phase = Initial /\ \A f \in Field : doc'.fields[f] = None
    BY <1>1, <1>2, CreatedIs
  <2>2. doc'.es
    BY <1>2, NoDocTyped DEF Document
  <2> QED
    BY <2>1, <2>2, NoneApart
<1>4. doc = None
  BY <1>2 DEF Basis
<1>5. \A i \in 1 .. Len(log) : /\ log[i].version <= 0 /\ log[i].type = "started"
                              /\ log[i].to = Initial /\ log[i].version \in Nat
  BY <1>1, <1>2, <1>4 DEF OrderInv, Event
<1>6. ASSUME NEW d \in Setter
      PROVE  Ready(log', call'[d], doc', column')
  <2>1. call'[d] = call[d] /\ Placed(d)
    BY <1>1 DEF Caller, Basis
  <2>2. call[d].pc \notin Working
    BY <1>4, <2>1 DEF Placed
  <2> QED
    BY <2>1, <2>2 DEF Ready, Working
<1>7. LastTo(log', call', doc'.phase)
  <2>1. PICK m \in 1 .. Len(log) : SameKey(log[m], Started)
    BY <1>2 DEF HasStart
  <2>2. Move(log[m])
    BY <2>1, <1>5 DEF Move
  <2>3. log' = log /\ doc'.phase = Initial
    BY <1>2, <1>3
  <2> QED
    BY <1>5, <2>2, <2>3 DEF LastTo
<1>8. ASSUME NEW f \in Field
      PROVE  LastOn(log', call', f, doc'.fields[f])
  <2>1. \A i \in 1 .. Len(log') : ~PatchOn(log'[i], f)
    BY <1>2, <1>5 DEF PatchOn
  <2>2. doc'.fields[f] = None /\ 0 \in 0 .. Len(log')
    BY <1>1, <1>2, <1>3
  <2> QED
    BY <2>1, <2>2 DEF LastOn
<1>9. \A m \in 1 .. Len(log') : log'[m].version # column'
  BY <1>2, <1>5
<1>10. \A i \in 1 .. Len(log') : log'[i].version <= column' /\ log'[i].to = Initial
  BY <1>2, <1>5
<1>11. doc' # None /\ doc'.es /\ HasStart(log')
  BY <1>2, <1>3
<1> QED
  BY <1>6, <1>7, <1>8, <1>9, <1>10, <1>11 DEF OrderInv

LEMMA WaitsStay ==
  ASSUME Basis, NEW c, NEW k, Step(c, k),
         c \in Setter /\ Busy(call[c]) => Busy(k) /\ k.req = call[c].req
  PROVE  /\ \A t : WaitsTo(call, t) => WaitsTo(call', t)
         /\ \A f, v : WaitsFor(call, f, v) => WaitsFor(call', f, v)
<1>1. /\ call'[c] = k /\ \A d \in Setter : d # c => call'[d] = call[d]
  BY StepCalls DEF Caller
<1>2. \A d \in Setter : Busy(call[d]) => Busy(call'[d]) /\ call'[d].req = call[d].req
  BY <1>1
<1> QED
  BY <1>2 DEF WaitsTo, WaitsFor

\* A write that wins the compare-and-swap.
LEMMA OrderWrites ==
  ASSUME Basis, IInv, CalmInv, OrderInv, NEW c \in Setter, NEW k, Step(c, k), Writes(c, k)
  PROVE  OrderInv'
<1> DEFINE s == call[c]
<1>1. /\ c \in Caller /\ call'[c] = k /\ \A d \in Caller : d # c => call'[d] = call[d]
      /\ c \notin Initializer /\ Placed(c) /\ s \in CallState
      /\ log \in Seq(Event) /\ Len(log) \in Nat /\ column \in Nat
      /\ \A i \in 1 .. Len(log) : Whole(log[i]) /\ log[i] \in Event
  BY StepCalls DEF Basis, TypeOK
<1>2. /\ log' = log /\ s.pc = "write" /\ s.expected = column /\ column' = column + 1
      /\ doc' = Written(c) /\ k.pc = "done" /\ k.req = s.req /\ doc # None
  BY <1>1 DEF Writes, Put, Same, Placed, Working
<1>3. /\ Written(c) \in Document /\ s.req \in Request /\ Written(c).phase = s.base.phase
      /\ Written(c).es = s.base.es /\ Written(c).fields = FieldsOf(s)
  BY <1>1, <1>2, WrittenIs, WorkflowAssumption DEF WorkflowAssumption
<1>4. /\ Ready(log, s, doc, column) /\ s.base.es /\ HasStart(log)
      /\ s.base.fields = doc.fields /\ s.base.fields \in [Field -> Value \cup {None}]
  BY <1>1, <1>2 DEF OrderInv, Ready, Working, CalmInv, CallState, Document
<1>5. /\ doc' # None /\ doc'.es /\ HasStart(log')
  BY <1>2, <1>3, <1>4, NoneApart
<1>6. ASSUME NEW i \in 1 .. Len(log)
      PROVE  /\ log[i].version <= column' /\ log[i].version # column'
             /\ log[i].type = "started" => log[i].to = Initial
  <2>1. log[i].version \in Nat /\ log[i].version <= column
    BY <1>1 DEF OrderInv, Event
  <2> QED
    BY <1>1, <1>2, <2>1 DEF OrderInv
<1>7. ASSUME NEW d \in Initializer, call'[d].pc = "started"
      PROVE  HasStart(log')
  BY <1>5
<1>8. ASSUME NEW d \in Setter
      PROVE  Ready(log', call'[d], doc', column')
  <2>1. CASE d = c
    BY <1>1, <1>2, <2>1 DEF Ready, Working
  <2>2. CASE d # c
    <3>1. call'[d] = call[d] /\ SetInv(d) /\ Ready(log, call[d], doc, column) /\ call[d] \in CallState
      BY <1>1, <2>2 DEF OrderInv, IInv, Caller, Basis, TypeOK
    <3>2. call[d].pc \in Working => call[d].expected # column'
      BY <1>1, <1>2, <3>1 DEF SetInv, Working, CallState
    <3> QED
      BY <1>2, <3>1, <3>2 DEF Ready, Working
  <2> QED
    BY <2>1, <2>2
<1>9. /\ \A t : WaitsTo(call, t) => (WaitsTo(call', t) \/ (t = s.req.target /\ t # None))
      /\ \A f, v : WaitsFor(call, f, v) =>
           (WaitsFor(call', f, v) \/ (f = s.req.field /\ v = s.req.value))
  <2>1. \A d \in Setter : d # c => call'[d] = call[d]
    BY <1>1 DEF Caller
  <2>2. ASSUME NEW t, WaitsTo(call, t), t # s.req.target
        PROVE  WaitsTo(call', t)
    <3>1. PICK d \in Setter : Busy(call[d]) /\ call[d].req.target = t
      BY <2>2 DEF WaitsTo
    <3>2. call'[d] = call[d]
      BY <2>1, <2>2, <3>1
    <3> QED
      BY <2>2, <3>1, <3>2 DEF WaitsTo
  <2>3. ASSUME NEW f, NEW v, WaitsFor(call, f, v), ~(f = s.req.field /\ v = s.req.value)
        PROVE  WaitsFor(call', f, v)
    <3>1. PICK d \in Setter : Busy(call[d]) /\ call[d].req.field = f /\ call[d].req.value = v
      BY <2>3 DEF WaitsFor
    <3>2. call'[d] = call[d]
      BY <2>1, <2>3, <3>1
    <3> QED
      BY <3>1, <3>2 DEF WaitsFor
  <2>4. \A t : WaitsTo(call, t) => t # None
    BY DEF WaitsTo
  <2> QED
    BY <2>2, <2>3, <2>4
<1>10. LastTo(log', call', doc'.phase)
  <2>1. doc'.phase = s.base.phase /\ s.req.target \in {None, s.base.phase}
    BY <1>2, <1>3, <1>4 DEF Ready
  <2>2. \A t : WaitsTo(call, t) => WaitsTo(call', t) \/ t = doc'.phase
    BY <1>9, <2>1
  <2>3. CASE s.base.phase = doc.phase
    <3>1. LastTo(log, call, doc'.phase)
      BY <1>2, <2>1, <2>3 DEF OrderInv
    <3>2. Longer(log, log') /\ \A i \in 1 .. Len(log') : ~(i > Len(log))
      BY <1>1, <1>2 DEF Longer
    <3> QED
      BY <2>2, <3>1, <3>2, LastStays
  <2>4. CASE s.base.phase # doc.phase
    <3>1. HasMove(log, column)
      BY <1>2, <1>4, <2>4 DEF Ready
    <3>2. PICK m \in 1 .. Len(log) : log[m].type = "transition" /\ log[m].version = column
      BY <3>1 DEF HasMove
    <3>3. ASSUME NEW i \in 1 .. Len(log), i >= m, Move(log[i])
          PROVE  log[i].to = doc'.phase \/ WaitsTo(call', log[i].to)
      <4>1. Follows(log[m], log[i], call)
        BY <3>2, <3>3 DEF OrderInv
      <4>2. WaitsTo(call, log[i].to)
        BY <3>2, <3>3, <4>1 DEF Follows
      <4> QED
        BY <2>2, <4>2
    <3>4. Move(log[m])
      BY <3>2 DEF Move
    <3> QED
      BY <1>2, <3>3, <3>4 DEF LastTo
  <2> QED
    BY <2>3, <2>4
<1>11. ASSUME NEW f \in Field
       PROVE  LastOn(log', call', f, doc'.fields[f])
  <2>1. CASE s.req.field # f
    <3>1. doc'.fields[f] = doc.fields[f]
      BY <1>2, <1>3, <1>4, <2>1 DEF FieldsOf
    <3>2. LastOn(log, call, f, doc'.fields[f])
      BY <1>2, <3>1 DEF OrderInv
    <3>3. Longer(log, log') /\ \A i \in 1 .. Len(log') : ~(i > Len(log))
      BY <1>1, <1>2 DEF Longer
    <3>4. \A w : WaitsFor(call, f, w) => WaitsFor(call', f, w)
      BY <1>9, <2>1
    <3> QED
      BY <3>2, <3>3, <3>4, LastOnStays
  <2>2. CASE s.req.field = f
    <3>1. doc'.fields[f] = s.req.value /\ f # None
      BY <1>2, <1>3, <1>4, <2>2, NoneApart DEF FieldsOf
    <3>2. HasPatch(log, f, column)
      BY <1>2, <1>4, <2>2, <3>1 DEF Ready
    <3>3. PICK m \in 1 .. Len(log) : PatchOn(log[m], f) /\ log[m].version = column
      BY <3>2 DEF HasPatch
    <3>4. ASSUME NEW i \in 1 .. Len(log), i >= m, PatchOn(log[i], f)
          PROVE  log[i].value = doc'.fields[f] \/ WaitsFor(call', f, log[i].value)
      <4>1. Follows(log[m], log[i], call)
        BY <3>3, <3>4 DEF OrderInv
      <4>2. WaitsFor(call, f, log[i].value)
        BY <3>3, <3>4, <4>1 DEF Follows, PatchOn
      <4> QED
        BY <1>9, <3>1, <4>2
    <3>5. m \in 0 .. Len(log') /\ m # 0
      BY <1>1, <1>2, <3>3
    <3> QED
      BY <1>2, <3>3, <3>4, <3>5 DEF LastOn
  <2> QED
    BY <2>1, <2>2
<1>12. \A i \in 1 .. Len(log') : /\ log'[i].version <= column' /\ log'[i].version # column'
                                 /\ log'[i].type = "started" => log'[i].to = Initial
  BY <1>2, <1>6
<1> HIDE DEF s
<1> QED
  BY <1>5, <1>8, <1>10, <1>11, <1>12 DEF OrderInv

\* No call has died, failed or been refused.
AllWell == \A c \in Caller : call[c].pc # "dead" /\ call[c].out \in {"none", "ok"}

LEMMA WellEarlier ==
  ASSUME Basis, NEW c, NEW k, Step(c, k), AllWell'
  PROVE  AllWell /\ ~Ends(c, k)
<1>1. /\ c \in Caller /\ call'[c] = k /\ \A d \in Caller : d # c => call'[d] = call[d]
      /\ Placed(c)
  BY StepCalls
<1>2. call[c].pc \notin {"done", "dead"}
  BY DEF Step, InitTurn, SetTurn, ReconcileTurn, Starts, Creates, Ends, Begins, Takes, Trails,
         Patches, Skips, Writes, Retries, Opens, Founds, Folds, Merges, Defers
<1>3. call[c].out = "none"
  BY <1>1, <1>2 DEF Placed
<1>4. k.pc # "dead" /\ k.out \in {"none", "ok"}
  BY <1>1 DEF AllWell
<1>5. ~Ends(c, k)
  BY <1>4 DEF Ends
<1> QED
  BY <1>1, <1>2, <1>3, <1>5 DEF AllWell

LEMMA StartsFits ==
  ASSUME Basis, OrderInv, NEW c \in Initializer, NEW k, Step(c, k), Starts(c, k)
  PROVE  /\ \A i \in 1 .. Len(log') : i > Len(log) => Fits(log'[i], doc, column, call')
         /\ HasStart(log')
<1>0. Started \in Event /\ log \in Seq(Event) /\ AppendKeyed(Started) /\ c \in Caller
      /\ column \in Nat /\ c \notin Setter
  BY EventsTyped, StepCalls DEF Caller, Basis, TypeOK, Starts
<1>1. HasStart(log')
  BY <1>0, AppendGrows DEF HasStart
<1>2. ASSUME NEW i \in 1 .. Len(log'), i > Len(log)
      PROVE  Fits(log'[i], doc, column, call')
  <2>1. Stored(log'[i]) = {} /\ News(c, k, log'[i])
    BY <1>2, LogGrows
  <2>2. log'[i] = Started
    BY <1>0, <2>1 DEF News
  <2>3. ~HasStart(log)
    BY <2>1, <2>2 DEF Stored, HasStart
  <2>4. doc = None
    BY <2>3 DEF OrderInv
  <2> QED
    BY <1>0, <2>2, <2>4 DEF Fits, Started
<1> QED
  BY <1>1, <1>2

LEMMA TrailsReady ==
  ASSUME Basis, IInv, OrderInv, NEW c \in Setter, NEW k, Step(c, k), Trails(c, k)
  PROVE  /\ \A i \in 1 .. Len(log') : i > Len(log) => Fits(log'[i], doc, column, call')
         /\ Ready(log', k, doc, column)
<1> DEFINE e == TrailOf(call[c])
           n == SequenceOf(e)
<1>0. /\ c \in Caller /\ call[c].pc \in {"trail", "entered"} /\ AppendKeyed(e)
      /\ log \in Seq(Event) /\ Longer(log, log') /\ call[c].base \in Document
      /\ doc # None /\ call[c].req.target \in Phase /\ call[c].expected <= column
      /\ call'[c] = k /\ k.req = call[c].req /\ Busy(k) /\ k.expected = call[c].expected
      /\ c \notin Initializer
  <2>1. /\ c \in Caller /\ Placed(c) /\ call[c] \in CallState /\ call'[c] = k /\ c \notin Initializer
        /\ Longer(log, log') /\ SetInv(c)
    BY StepCalls, LogGrows DEF IInv
  <2>2. /\ call[c].pc \in {"trail", "entered"} /\ AppendKeyed(e) /\ k.req = call[c].req
        /\ k.expected = call[c].expected /\ Busy(k)
    BY DEF Trails, Busy, Working
  <2>3. doc # None /\ call[c].req.target \in Phase /\ call[c].expected <= column
    BY <2>1, <2>2 DEF SetInv
  <2> QED
    BY <2>1, <2>2, <2>3 DEF Basis, TypeOK, CallState
<1>1. e \in Event
  BY <1>0, EventsTyped
<1>2. n \in 1 .. Len(log') /\ SameKey(log'[n], e)
  <2> HIDE DEF e
  <2> QED
    BY <1>0, <1>1, AppendGrows
<1>3. WaitsTo(call', call[c].req.target)
  BY <1>0, NoneApart DEF WaitsTo
<1>4. ASSUME NEW i \in 1 .. Len(log'), i > Len(log)
      PROVE  Fits(log'[i], doc, column, call')
  <2>1. News(c, k, log'[i])
    BY <1>4, LogGrows
  <2>2. log'[i] = e
    BY <1>0, <2>1 DEF News, Patches
  <2> QED
    BY <1>0, <1>3, <2>2 DEF Fits, TrailOf, Moved
<1>5. k.base.es /\ Ready(log, call[c], doc, column)
  BY <1>0 DEF OrderInv, Ready, Working, Trails, Document
<1>6. CASE call[c].pc = "trail"
  <2>1. e.type = "transition" /\ e.version = call[c].expected /\ k.pc = "entered"
    BY <1>6 DEF TrailOf, Moved, Trails
  <2>2. HasMove(log', k.expected)
    <3> HIDE DEF e, n
    <3> QED
      BY <1>0, <1>2, <2>1 DEF SameKey, HasMove
  <2> QED
    BY <1>4, <1>5, <2>1, <2>2 DEF Ready
<1>7. CASE call[c].pc = "entered"
  <2>1. k.pc = "patch" /\ k.base.phase = call[c].req.target
    BY <1>0, <1>7 DEF Trails, Document
  <2>2. HasMove(log', k.expected)
    BY <1>0, <1>5, <1>7, HasMoveStays DEF Ready
  <2> QED
    BY <1>0, <1>4, <1>5, <2>1, <2>2 DEF Ready
<1> QED
  BY <1>0, <1>6, <1>7

LEMMA PatchesReady ==
  ASSUME Basis, IInv, OrderInv, NEW c \in Setter, NEW k, Step(c, k), Patches(c, k)
  PROVE  /\ \A i \in 1 .. Len(log') : i > Len(log) => Fits(log'[i], doc, column, call')
         /\ Ready(log', k, doc, column)
<1> DEFINE e == PatchOf(call[c])
           n == SequenceOf(e)
<1>0. /\ c \in Caller /\ call[c].pc = "patch" /\ AppendKeyed(e)
      /\ log \in Seq(Event) /\ Longer(log, log') /\ call[c].req.field # None
      /\ doc # None /\ call[c].expected <= column
      /\ call'[c] = k /\ k.req = call[c].req /\ Busy(k) /\ k.expected = call[c].expected
      /\ k.base = call[c].base /\ k.pc = "write" /\ c \notin Initializer
  <2>1. /\ call[c].pc = "patch" /\ AppendKeyed(e) /\ call[c].req.field # None
        /\ k.req = call[c].req /\ k.expected = call[c].expected /\ k.base = call[c].base
        /\ k.pc = "write" /\ Busy(k)
    BY DEF Patches, Busy, Working
  <2>2. /\ log \in Seq(Event) /\ Longer(log, log') /\ call'[c] = k /\ c \notin Initializer
        /\ c \in Caller
    BY <2>1, StepCalls, LogGrows DEF Basis, TypeOK, Placed
  <2>3. doc # None /\ call[c].expected <= column
    <3>1. SetInv(c)
      BY <2>2 DEF IInv
    <3> QED
      BY <2>1, <3>1 DEF SetInv
  <2> QED
    BY <2>1, <2>2, <2>3
<1>1. e \in Event
  BY <1>0, EventsTyped
<1>2. n \in 1 .. Len(log') /\ SameKey(log'[n], e)
  <2> HIDE DEF e
  <2> QED
    BY <1>0, <1>1, AppendGrows
<1>3. WaitsFor(call', call[c].req.field, call[c].req.value)
  BY <1>0 DEF WaitsFor
<1>4. ASSUME NEW i \in 1 .. Len(log'), i > Len(log)
      PROVE  Fits(log'[i], doc, column, call')
  <2>1. News(c, k, log'[i])
    BY <1>4, LogGrows
  <2>2. log'[i] = e
    BY <1>0, <2>1 DEF News, Trails
  <2> QED
    BY <1>0, <1>3, <2>2 DEF Fits, PatchOf, Patched
<1>5. Ready(log', call[c], doc, column)
  BY <1>0, ReadyStays DEF OrderInv
<1>6. HasPatch(log', k.req.field, k.expected)
  <2>1. e.type = "patched" /\ e.version = call[c].expected /\ e.field = call[c].req.field
    BY DEF PatchOf, Patched
  <2> HIDE DEF e, n
  <2> QED
    BY <1>0, <1>2, <2>1 DEF SameKey, HasPatch, PatchOn
<1> QED
  BY <1>0, <1>4, <1>5, <1>6 DEF Ready, Working

LEMMA OrderStep ==
  ASSUME Basis, IInv, CalmInv, OrderInv, NEW c, NEW k, Step(c, k), ~Ends(c, k),
         (c \in Initializer /\ InitTurn(c, k)) \/ (c \in Setter /\ SetTurn(c, k))
  PROVE  OrderInv'
<1>0. /\ c \in Caller /\ Placed(c) /\ call[c] \in CallState
      /\ doc # None => doc.version = column
      /\ \A i \in 1 .. Len(log) : ~(i > Len(log))
  BY StepCalls DEF IInv, VersionIsColumn, Basis, TypeOK
<1>1. CASE c \in Initializer /\ InitTurn(c, k)
  <2>0. c \notin Setter
    BY <1>1, CallersAssumption DEF CallersAssumption
  <2>1. CASE Creates(c, k)
    BY <1>1, <2>1, OrderCreates
  <2>2. CASE Starts(c, k)
    <3>1. /\ \A t : WaitsTo(call, t) => WaitsTo(call', t)
          /\ \A f, v : WaitsFor(call, f, v) => WaitsFor(call', f, v)
      BY <2>0, WaitsStay
    <3>2. /\ \A i \in 1 .. Len(log') : i > Len(log) => Fits(log'[i], doc, column, call')
          /\ HasStart(log')
      BY <1>1, <2>2, StartsFits
    <3>3. doc' = doc /\ column' = column
      BY <2>2 DEF Starts
    <3> QED
      BY <2>0, <3>1, <3>2, <3>3, OrderStays
  <2> QED
    BY <1>1, <2>1, <2>2 DEF InitTurn
<1>2. CASE c \in Setter /\ SetTurn(c, k)
  <2>0. c \notin Initializer /\ Ready(log, call[c], doc, column)
    BY <1>2, CallersAssumption DEF CallersAssumption, OrderInv
  <2>1. ASSUME doc' = doc, column' = column, Ready(log', k, doc, column),
               Busy(call[c]) => Busy(k) /\ k.req = call[c].req,
               \A i \in 1 .. Len(log') : i > Len(log) => Fits(log'[i], doc, column, call')
        PROVE  OrderInv'
    <3>1. /\ \A t : WaitsTo(call, t) => WaitsTo(call', t)
          /\ \A f, v : WaitsFor(call, f, v) => WaitsFor(call', f, v)
      BY <2>1, WaitsStay
    <3> QED
      BY <2>0, <2>1, <3>1, OrderStays
  <2>2. ASSUME Stays, Ready(log, k, doc, column),
               Busy(call[c]) => Busy(k) /\ k.req = call[c].req
        PROVE  OrderInv'
    <3>1. log' = log /\ doc' = doc /\ column' = column
      BY <2>2 DEF Stays
    <3> QED
      BY <1>0, <2>1, <2>2, <3>1
  <2>3. CASE Begins(c, k)
    BY <2>2, <2>3 DEF Begins, Ready, Busy, Working
  <2>4. CASE Takes(c, k)
    <3>1. /\ Stays /\ Busy(k) /\ k.req = call[c].req /\ k.base = doc /\ doc.es
          /\ k.pc \in {"trail", "patch"}
          /\ k.pc = "patch" => call[c].req.target \in {None, doc.phase}
      BY <2>4 DEF Takes, Busy, Working, Moves, OrderInv
    <3> QED
      BY <2>2, <3>1 DEF Ready
  <2>5. CASE Trails(c, k)
    BY <1>2, <2>1, <2>5, TrailsReady DEF Trails, Busy, Working
  <2>6. CASE Patches(c, k)
    BY <1>2, <2>1, <2>6, PatchesReady DEF Patches, Busy, Working
  <2>7. CASE Skips(c, k)
    <3>1. /\ Stays /\ Busy(k) /\ k.req = call[c].req /\ k.base = call[c].base /\ k.pc = "write"
          /\ k.expected = call[c].expected /\ call[c].pc = "patch" /\ call[c].base.es
          /\ k.req.field = None
      BY <2>0, <2>7 DEF Skips, Same, Busy, Working, Ready
    <3> QED
      BY <2>0, <2>2, <3>1 DEF Ready
  <2>8. CASE Writes(c, k)
    BY <1>2, <2>8, OrderWrites
  <2>9. CASE Retries(c, k)
    BY <2>2, <2>9 DEF Retries, Same, Ready, Busy, Working
  <2> QED
    BY <1>2, <2>3, <2>4, <2>5, <2>6, <2>7, <2>8, <2>9 DEF SetTurn
<1> QED
  BY <1>1, <1>2

FoldInv == QuietInv /\ (Undisturbed /\ AllWell => OrderInv)

LEMMA InitFold == Init => FoldInv
<1> SUFFICES ASSUME Init PROVE FoldInv
  OBVIOUS
<1>1. log = <<>> /\ doc = None /\ \A c \in Caller : call[c].pc = "idle"
  BY DEF Init
<1>2. OrderInv
  BY <1>1 DEF OrderInv, Ready, Working, Caller
<1> QED
  BY <1>2, InitQuiet DEF FoldInv

LEMMA NextFold == ASSUME FoldInv, [Next]_vars PROVE FoldInv'
<1>1. QuietInv'
  BY NextQuiet DEF FoldInv
<1>2. CASE UNCHANGED vars
  BY <1>1, <1>2 DEF vars, FoldInv, OrderInv, Undisturbed, AllWell
<1>3. ASSUME NEW c, NEW k, Step(c, k), Undisturbed', AllWell'
      PROVE  OrderInv'
  <2>1. /\ Undisturbed
        /\ (c \in Initializer /\ InitTurn(c, k)) \/ (c \in Setter /\ SetTurn(c, k))
    BY <1>3, CalmStep DEF FoldInv, QuietInv, FirstInv
  <2>2. AllWell /\ ~Ends(c, k)
    BY <1>3, WellEarlier DEF FoldInv, QuietInv
  <2> QED
    BY <1>3, <2>1, <2>2, OrderStep DEF FoldInv, QuietInv, FirstInv
<1> QED
  BY <1>1, <1>2, <1>3, Steps DEF FoldInv, QuietInv

\* With no call at work the last move and the last patches are the document.
LEMMA LastIsFold ==
  ASSUME Basis, doc # None,
         \A p : ~WaitsTo(call, p), \A f, v : ~WaitsFor(call, f, v),
         LastTo(log, call, doc.phase),
         \A f \in Field : LastOn(log, call, f, doc.fields[f])
  PROVE  IsFold
<1> DEFINE new == (NoDoc.at + 1) .. Len(log)
           moves == {i \in new : log[i].type \in {"started", "transition"}}
           patches(f) == {i \in new : log[i].type = "patched" /\ log[i].field = f}
           phase == IF moves = {} THEN NoDoc.phase ELSE log[Latest(moves)].to
           fields == [f \in Field |-> IF patches(f) = {} THEN NoDoc.fields[f]
                                      ELSE log[Latest(patches(f))].value]
<1>1. /\ Len(log) \in Nat /\ new = 1 .. Len(log) /\ doc.fields \in [Field -> Value \cup {None}]
  <2>1. NoDoc.at = 0
    BY DEF NoDoc
  <2>2. doc.fields \in [Field -> Value \cup {None}]
    BY DEF Document, Basis, TypeOK
  <2> QED
    BY <2>1, <2>2 DEF Basis, TypeOK
<1>2. Folded(NoDoc).phase = phase /\ Folded(NoDoc).fields = fields
  BY NoDocTyped DEF Folded, Document
<1>3. phase = doc.phase
  <2>1. PICK m \in 1 .. Len(log) :
          /\ Move(log[m])
          /\ \A i \in 1 .. Len(log) : (i >= m /\ Move(log[i])) => log[i].to = doc.phase
    BY DEF LastTo
  <2>2. m \in moves /\ moves \in SUBSET (1 .. Len(log))
    BY <1>1, <2>1 DEF Move
  <2>3. Latest(moves) \in moves /\ m <= Latest(moves)
    <3> HIDE DEF moves
    <3> QED
      BY <1>1, <2>2, LatestIs
  <2>4. Latest(moves) \in 1 .. Len(log) /\ Move(log[Latest(moves)]) /\ Latest(moves) >= m
    BY <1>1, <2>3 DEF Move
  <2>5. log[Latest(moves)].to = doc.phase
    <3> HIDE DEF moves
    <3> QED
      BY <2>1, <2>4
  <2> QED
    BY <2>2, <2>5
<1>4. ASSUME NEW f \in Field PROVE fields[f] = doc.fields[f]
  <2> DEFINE ps == patches(f)
  <2>1. PICK m \in 0 .. Len(log) :
          /\ IF m = 0 THEN doc.fields[f] = None ELSE PatchOn(log[m], f)
          /\ \A i \in 1 .. Len(log) : (i >= m /\ PatchOn(log[i], f)) => log[i].value = doc.fields[f]
    BY DEF LastOn
  <2>2. ps \in SUBSET (1 .. Len(log)) /\ \A i \in ps : PatchOn(log[i], f)
    BY <1>1 DEF PatchOn
  <2>3. fields[f] = IF ps = {} THEN NoDoc.fields[f] ELSE log[Latest(ps)].value
    OBVIOUS
  <2>a. m # 0 => m \in ps
    <3>1. m # 0 => m \in 1 .. Len(log) /\ PatchOn(log[m], f)
      BY <1>1, <2>1
    <3> QED
      BY <1>1, <3>1 DEF PatchOn
  <2>4. CASE ps = {}
    <3>1. m = 0
      BY <2>4, <2>a
    <3> QED
      BY <2>1, <2>3, <2>4, <3>1 DEF NoDoc
  <2>5. CASE ps # {}
    <3>1. Latest(ps) \in ps /\ \A i \in ps : i <= Latest(ps)
      <4> HIDE DEF ps
      <4> QED
        BY <1>1, <2>2, <2>5, LatestIs
    <3>2. Latest(ps) \in 1 .. Len(log) /\ PatchOn(log[Latest(ps)], f)
      <4> HIDE DEF ps
      <4> QED
        BY <2>2, <3>1
    <3>3. Latest(ps) >= m
      <4> HIDE DEF ps
      <4>1. CASE m = 0
        BY <1>1, <3>2, <4>1
      <4>2. CASE m # 0
        BY <1>1, <2>a, <3>1, <3>2, <4>2
      <4> QED
        BY <4>1, <4>2
    <3> HIDE DEF ps, fields
    <3> QED
      BY <2>1, <2>3, <2>5, <3>2, <3>3
  <2> QED
    BY <2>4, <2>5
<1>5. fields = doc.fields
  BY <1>1, <1>4
<1> QED
  BY <1>2, <1>3, <1>5 DEF IsFold

\* Set calls that race and all succeed, at whatever attempt, leave a document that is
\* the fold of the log: the orphaned events of the attempts that lost are each
\* followed by the events of the attempt that won.
THEOREM SuccessIsFold == Spec => []SucceededIsFold
<1>1. FoldInv => SucceededIsFold
  <2> SUFFICES ASSUME FoldInv, Undisturbed, Quiet, doc # None, AllWell
               PROVE  IsFold
    BY DEF SucceededIsFold, AllWell
  <2>1. \A c \in Setter : ~Busy(call[c])
    BY DEF Quiet, Busy, Working, Caller
  <2>2. \A p : ~WaitsTo(call, p)
    BY <2>1 DEF WaitsTo
  <2>3. \A f, v : ~WaitsFor(call, f, v)
    BY <2>1 DEF WaitsFor
  <2> QED
    BY <2>2, <2>3, LastIsFold DEF FoldInv, QuietInv, OrderInv
<1>2. FoldInv /\ [Next]_vars => FoldInv'
  BY NextFold
<1> QED
  BY <1>1, <1>2, InitFold, PTL DEF Spec

-----------------------------------------------------------------------------
(***************************************************************************)
(* A value that is not in the log lost its key to a call without success.   *)
(*                                                                          *)
(* A write that succeeds counts the version up, so the author of an event   *)
(* of the current version has not succeeded.  A write takes its value with  *)
(* an event of the current version in the log: its own, or that of a call   *)
(* that took the key before it.                                             *)
(***************************************************************************)

\* Call a asked for the update e; if it succeeded the row is past the version of e.
Author(cs, a, e, col) ==
  /\ cs[a].req # None /\ cs[a].req.field = e.field /\ cs[a].req.value = e.value
  /\ cs[a].out = "ok" => e.version < col

\* Some call asked for f to be v and has not succeeded.
Pending(cs, f, v) ==
  \E a \in Setter : /\ cs[a].req # None /\ cs[a].out # "ok"
                    /\ cs[a].req.field = f /\ cs[a].req.value = v

Held(l, cs, f, v) ==
  \E i \in 1 .. Len(l) : PatchOn(l[i], f) /\ (l[i].value = v \/ Pending(cs, f, l[i].value))

Authored(l, cs, col) ==
  \A i \in 1 .. Len(l) : l[i].type = "patched" =>
    l[i].version <= col /\ \E a \in Setter : Author(cs, a, l[i], col)

Logged(l, s) ==
  /\ s.pc \in Working => s.base.es
  /\ s.pc = "write" /\ s.req.field # None => HasPatch(l, s.req.field, s.expected)

ContestInv ==
  /\ doc # None => doc.es
  /\ Authored(log, call, column)
  /\ \A c \in Setter : Logged(log, call[c])
  /\ doc # None =>
       \A f \in Field : doc.fields[f] # None => Held(log, call, f, doc.fields[f])

\* The row changes by a create and by a write, and only a write answers a set
\* with success.
LEMMA RowMoves ==
  ASSUME Basis, NEW c, NEW k, Step(c, k),
         (c \in Initializer /\ InitTurn(c, k)) \/ (c \in Setter /\ SetTurn(c, k))
  PROVE  /\ column \in Nat /\ column' \in {column, column + 1}
         /\ c \in Setter => ~Creates(c, k)
         /\ ~Creates(c, k) /\ ~Writes(c, k) => doc' = doc /\ column' = column
         /\ c \in Setter /\ call[c].out # "ok" /\ k.out = "ok" => Writes(c, k)
<1>1. column \in Nat /\ Placed(c) /\ call[c] \in CallState
  BY StepCalls DEF Basis, TypeOK
<1>2. CASE c \in Initializer /\ InitTurn(c, k)
  BY <1>1, <1>2, StepCalls DEF InitTurn, Starts, Creates, Ends, Stays, Put
<1>3. CASE c \in Setter /\ SetTurn(c, k)
  <2>1. ~Creates(c, k)
    BY <1>1, <1>3 DEF Placed, Creates, Working
  <2>2. column' \in {column, column + 1}
    BY <1>1, <1>3
    DEF SetTurn, Begins, Takes, Trails, Patches, Skips, Writes, Retries, Ends, Stays, Put
  <2>3. ~Writes(c, k) => doc' = doc /\ column' = column
    BY <1>3 DEF SetTurn, Begins, Takes, Trails, Patches, Skips, Retries, Ends, Stays
  <2>4. ~Writes(c, k) /\ call[c].out # "ok" => k.out # "ok"
    BY <1>3 DEF SetTurn, Begins, Takes, Trails, Patches, Skips, Retries, Ends
  <2> QED
    BY <1>1, <2>1, <2>2, <2>3, <2>4
<1> QED
  BY <1>2, <1>3

LEMMA AuthoredStep ==
  ASSUME Basis, IInv, Authored(log, call, column), NEW c, NEW k, Step(c, k),
         (c \in Initializer /\ InitTurn(c, k)) \/ (c \in Setter /\ SetTurn(c, k))
  PROVE  Authored(log, call, column)'
<1>0. /\ c \in Caller /\ call'[c] = k /\ \A d \in Caller : d # c => call'[d] = call[d]
      /\ \A d \in Setter : d \in Caller
  BY StepCalls DEF Caller
<1>1. /\ column \in Nat /\ column' \in {column, column + 1}
      /\ c \in Setter /\ call[c].out # "ok" /\ k.out = "ok" => Writes(c, k)
  BY RowMoves
<1>2. \A d \in Setter : call[d].req # None => call'[d].req = call[d].req
  BY <1>0, StepRequest
<1>3. ASSUME NEW i \in 1 .. Len(log'), log'[i].type = "patched"
      PROVE  log'[i].version <= column' /\ \E a \in Setter : Author(call', a, log'[i], column')
  <2>1. CASE i \in 1 .. Len(log)
    <3>1. log'[i] = log[i] /\ log[i] \in Event
      BY <2>1, LogGrows DEF Longer, Basis, TypeOK
    <3>2. PICK a \in Setter : Author(call, a, log[i], column)
      BY <1>3, <2>1, <3>1 DEF Authored
    <3>3. log[i].version \in Nat /\ log[i].version <= column /\ column' \in Nat
      <4>1. column' \in Nat
        BY <1>1
      <4> QED
        BY <1>3, <2>1, <3>1, <4>1 DEF Authored, Event
    <3>4. call'[a].out = "ok" => log[i].version < column'
      <4>1. CASE call[a].out = "ok"
        BY <1>1, <3>2, <3>3, <4>1 DEF Author
      <4>2. CASE call[a].out # "ok"
        <5>1. call'[a].out = "ok" => a = c /\ Writes(c, k)
          BY <1>0, <1>1, <4>2
        <5>2. Writes(c, k) => column' = column + 1
          BY DEF Writes, Put
        <5> QED
          BY <1>1, <3>3, <5>1, <5>2
      <4> QED
        BY <4>1, <4>2
    <3>5. Author(call', a, log'[i], column')
      BY <1>2, <3>1, <3>2, <3>4 DEF Author
    <3> QED
      BY <1>1, <3>1, <3>3, <3>5
  <2>2. CASE i \notin 1 .. Len(log)
    <3>1. News(c, k, log'[i])
      BY <1>3, <2>2, LogGrows DEF Longer
    <3>2. log'[i] = PatchOf(call[c]) /\ c \in Setter /\ Patches(c, k)
      BY <1>3, <3>1 DEF News, Started, TrailOf, Moved
    <3>3. /\ call[c].pc = "patch" /\ k.out = call[c].out /\ k.req = call[c].req
          /\ column' = column /\ call[c].req.field # None
      BY <3>2 DEF Patches
    <3>4. call[c].out = "none"
      BY <1>0, <3>3 DEF Basis, Placed
    <3>5. call[c].req \in Requests
      BY <1>0, <3>3, EventsTyped
    <3>6. call[c].req # None
      BY <3>5, NoneApart, WorkflowAssumption DEF WorkflowAssumption
    <3>7. call[c].expected <= column
      <4>1. SetInv(c)
        BY <1>0 DEF IInv
      <4> QED
        BY <3>3, <4>1 DEF SetInv
    <3>8. Author(call', c, log'[i], column')
      BY <1>0, <3>2, <3>3, <3>4, <3>6 DEF Author, PatchOf, Patched
    <3>9. log'[i].version = call[c].expected
      BY <3>2 DEF PatchOf, Patched
    <3> QED
      BY <3>2, <3>3, <3>7, <3>8, <3>9
  <2> QED
    BY <2>1, <2>2
<1> QED
  BY <1>3 DEF Authored

\* The append of an update leaves an event with its key, by whoever it is.
LEMMA PatchLogged ==
  ASSUME Basis, NEW c \in Setter, NEW k, Step(c, k), Patches(c, k)
  PROVE  HasPatch(log', call[c].req.field, call[c].expected)
<1> DEFINE e == PatchOf(call[c])
           n == SequenceOf(e)
<1>1. /\ c \in Caller /\ call[c].pc = "patch" /\ AppendKeyed(e) /\ log \in Seq(Event)
      /\ call[c].req.field # None
  BY StepCalls DEF Patches, Basis, TypeOK
<1>2. e \in Event
  BY <1>1, EventsTyped
<1>3. e.type = "patched" /\ e.version = call[c].expected /\ e.field = call[c].req.field
  BY DEF PatchOf, Patched
<1> HIDE DEF e
<1>4. n \in 1 .. Len(log') /\ SameKey(log'[n], e)
  BY <1>1, <1>2, AppendGrows
<1> HIDE DEF n
<1> QED
  BY <1>3, <1>4 DEF SameKey, HasPatch, PatchOn

LEMMA LoggedStep ==
  ASSUME Basis, ContestInv, NEW c, NEW k, Step(c, k),
         (c \in Initializer /\ InitTurn(c, k)) \/ (c \in Setter /\ SetTurn(c, k)),
         NEW d \in Setter
  PROVE  Logged(log', call'[d])
<1>0. /\ c \in Caller /\ d \in Caller /\ call'[c] = k /\ Longer(log, log')
      /\ d # c => call'[d] = call[d]
      /\ call[c] \in CallState
  BY StepCalls, LogGrows DEF Caller
<1>1. \A s : Logged(log, s) => Logged(log', s)
  BY <1>0, HasMoveStays DEF Logged
<1>2. CASE d # c
  BY <1>0, <1>1, <1>2 DEF ContestInv
<1>3. CASE d = c
  <2>0. c \in Setter /\ SetTurn(c, k) /\ Logged(log', call[c])
    BY <1>1, <1>3, StepCalls DEF ContestInv
  <2>1. CASE Takes(c, k)
    BY <1>0, <1>3, <2>1 DEF Takes, ContestInv, Logged
  <2>2. CASE Trails(c, k)
    <3>1. k.base.es = call[c].base.es /\ k.pc \in {"entered", "patch"} /\ call[c].pc \in Working
      BY <1>0, <2>2 DEF Trails, CallState, Document, Working
    <3> QED
      BY <1>0, <1>3, <2>0, <3>1 DEF Logged
  <2>3. CASE Patches(c, k)
    <3>1. HasPatch(log', call[c].req.field, call[c].expected)
      BY <2>0, <2>3, PatchLogged
    <3> QED
      BY <1>0, <1>3, <2>3, <3>1 DEF Logged, Patches
  <2>4. CASE Skips(c, k)
    BY <1>0, <1>3, <2>0, <2>4 DEF Logged, Skips, Same, Working
  <2>5. CASE Begins(c, k) \/ Writes(c, k) \/ Retries(c, k) \/ Ends(c, k)
    BY <1>0, <1>3, <2>5 DEF Logged, Begins, Writes, Retries, Ends, Working
  <2> QED
    BY <2>0, <2>1, <2>2, <2>3, <2>4, <2>5 DEF SetTurn
<1> QED
  BY <1>2, <1>3

LEMMA HeldStep ==
  ASSUME Basis, IInv, CalmInv, ContestInv, NEW c, NEW k, Step(c, k),
         (c \in Initializer /\ InitTurn(c, k)) \/ (c \in Setter /\ SetTurn(c, k)),
         doc' # None, NEW f \in Field, doc'.fields[f] # None
  PROVE  Held(log', call', f, doc'.fields[f])
<1>0. /\ c \in Caller /\ call'[c] = k /\ \A d \in Caller : d # c => call'[d] = call[d]
      /\ \A d \in Setter : d \in Caller
      /\ call[c] \in CallState /\ Placed(c) /\ Longer(log, log')
  BY StepCalls, LogGrows DEF Caller
<1>1. \A d \in Setter : call[d].req # None => call'[d].req = call[d].req
  BY <1>0, StepRequest
\* What is pending stays so, but for the call that writes.
<1>2. ASSUME NEW v, Pending(call, f, v), Writes(c, k) => call[c].req.field # f
      PROVE  Pending(call', f, v)
  <2>1. PICK a \in Setter : /\ call[a].req # None /\ call[a].out # "ok"
                            /\ call[a].req.field = f /\ call[a].req.value = v
    BY <1>2 DEF Pending
  <2>2. call'[a].out # "ok"
    <3>1. c \in Setter /\ call[c].out # "ok" /\ k.out = "ok" => Writes(c, k)
      BY RowMoves
    <3> QED
      BY <1>0, <1>2, <2>1, <3>1
  <2> QED
    BY <1>1, <2>1, <2>2 DEF Pending
<1>3. ASSUME NEW v, Held(log, call, f, v), Writes(c, k) => call[c].req.field # f
      PROVE  Held(log', call', f, v)
  <2>1. PICK i \in 1 .. Len(log) :
          PatchOn(log[i], f) /\ (log[i].value = v \/ Pending(call, f, log[i].value))
    BY <1>3 DEF Held
  <2>2. i \in 1 .. Len(log') /\ log'[i] = log[i]
    BY <1>0, <2>1 DEF Longer
  <2>3. Pending(call, f, log[i].value) => Pending(call', f, log[i].value)
    BY <1>2, <1>3
  <2> QED
    BY <2>1, <2>2, <2>3 DEF Held
<1>4. CASE Creates(c, k)
  <2>1. call[c].seq \in Nat /\ doc' = [NoDoc EXCEPT !.version = 1, !.at = call[c].seq, !.es = TRUE]
    BY <1>0, <1>4 DEF Creates, Put, CallState
  <2>2. PICK d : d = doc'
    OBVIOUS
  <2>3. d.fields[f] = None
    <3>1. \A g \in Field : d.fields[g] = None
      BY <2>1, <2>2, CreatedIs
    <3> QED
      BY <3>1
  <2> QED
    BY <2>2, <2>3
<1>5. CASE ~Creates(c, k) /\ ~Writes(c, k)
  <2>1. doc' = doc
    BY <1>5, RowMoves
  <2>2. Held(log, call, f, doc.fields[f])
    BY <2>1 DEF ContestInv
  <2> QED
    BY <1>3, <1>5, <2>1, <2>2
<1>6. CASE Writes(c, k)
  <2>0. c \in Setter
    BY <1>0, <1>6 DEF Writes, Placed, InitTurn, Starts, Creates, Ends, Step, Folding
  <2>1. /\ doc' = Written(c) /\ column' = column + 1 /\ call[c].pc = "write"
        /\ column = call[c].expected /\ k.req = call[c].req
        /\ Written(c).fields = FieldsOf(call[c]) /\ call[c].req \in Request
        /\ call[c].req # None
    BY <1>0, <1>6, <2>0, WrittenIs, NoneApart, WorkflowAssumption
    DEF WorkflowAssumption, Writes, Put, Same
  <2>2. /\ call[c].base.fields = doc.fields
        /\ call[c].base.fields \in [Field -> Value \cup {None}]
        /\ doc # None
    BY <1>0, <2>0, <2>1, NoneApart DEF CalmInv, Working, Folding, CallState, Document, Placed
  <2>3. CASE call[c].req.field # f
    <3>1. doc'.fields[f] = doc.fields[f]
      BY <2>1, <2>2, <2>3 DEF FieldsOf
    <3>2. Held(log, call, f, doc.fields[f])
      BY <2>2, <3>1 DEF ContestInv
    <3> QED
      BY <1>3, <2>3, <3>1, <3>2
  <2>4. CASE call[c].req.field = f
    <3>1. f # None
      BY NoneApart
    <3>2. doc'.fields[f] = call[c].req.value
      BY <2>1, <2>2, <2>4, <3>1 DEF FieldsOf
    <3>3. HasPatch(log, f, column)
      BY <2>0, <2>1, <2>4, <3>1 DEF ContestInv, Logged
    <3>4. PICK i \in 1 .. Len(log) : PatchOn(log[i], f) /\ log[i].version = column
      BY <3>3 DEF HasPatch
    <3>5. PICK a \in Setter : Author(call, a, log[i], column)
      BY <3>4 DEF ContestInv, Authored, PatchOn
    <3>6. i \in 1 .. Len(log') /\ log'[i] = log[i]
      BY <1>0, <3>4 DEF Longer
    <3>7. CASE a = c
      <4>1. log[i].value = doc'.fields[f]
        BY <3>2, <3>5, <3>7 DEF Author
      <4> QED
        BY <3>4, <3>6, <4>1 DEF Held
    <3>8. CASE a # c
      <4>1. column \in Nat
        BY DEF Basis, TypeOK
      <4>2. call'[a] = call[a] /\ call[a].out # "ok"
        BY <1>0, <3>4, <3>5, <3>8, <4>1 DEF Author
      <4>3. Pending(call', f, log[i].value)
        BY <3>4, <3>5, <4>2 DEF Pending, Author, PatchOn
      <4> QED
        BY <3>4, <3>6, <4>3 DEF Held
    <3> QED
      BY <3>7, <3>8
  <2> QED
    BY <2>3, <2>4
<1> QED
  BY <1>4, <1>5, <1>6

LEMMA ContestStep ==
  ASSUME Basis, IInv, CalmInv, ContestInv, NEW c, NEW k, Step(c, k),
         (c \in Initializer /\ InitTurn(c, k)) \/ (c \in Setter /\ SetTurn(c, k))
  PROVE  ContestInv'
<1>1. Authored(log, call, column)'
  BY AuthoredStep DEF ContestInv
<1>2. \A d \in Setter : Logged(log', call'[d])
  BY LoggedStep
<1>3. doc' # None => \A f \in Field : doc'.fields[f] # None => Held(log', call', f, doc'.fields[f])
  BY HeldStep
<1>4. doc' # None => doc'.es
  <2>0. call[c] \in CallState /\ Placed(c) /\ c \in Caller
    BY StepCalls
  <2>1. CASE Creates(c, k)
    <3>1. call[c].seq \in Nat /\ doc' = [NoDoc EXCEPT !.version = 1, !.at = call[c].seq, !.es = TRUE]
      BY <2>0, <2>1 DEF Creates, Put, CallState
    <3> QED
      BY <3>1 DEF NoDoc
  <2>2. CASE ~Creates(c, k) /\ ~Writes(c, k)
    BY <2>2, RowMoves DEF ContestInv
  <2>3. CASE Writes(c, k)
    <3>1. c \in Setter
      BY <2>0, <2>3 DEF Writes, Placed, InitTurn, Starts, Creates, Ends, Step, Folding
    <3>2. doc' = Written(c) /\ call[c].pc = "write"
      BY <2>0, <2>3 DEF Writes, Put
    <3>3. Written(c).es = call[c].base.es
      BY <2>0, <3>2, WrittenIs
    <3>4. call[c].base.es
      BY <3>1, <3>2 DEF ContestInv, Logged, Working
    <3> QED
      BY <3>2, <3>3, <3>4
  <2> QED
    BY <2>1, <2>2, <2>3
<1> QED
  BY <1>1, <1>2, <1>3, <1>4 DEF ContestInv

KeptInv == QuietInv /\ (Undisturbed => ContestInv)

LEMMA InitKept == Init => KeptInv
<1> SUFFICES ASSUME Init PROVE KeptInv
  OBVIOUS
<1>1. log = <<>> /\ doc = None
  BY DEF Init
<1>2. Authored(log, call, column)
  BY <1>1 DEF Authored
<1>3. \A c \in Setter : Logged(log, call[c])
  BY DEF Init, Logged, Working, Caller
<1> QED
  BY <1>1, <1>2, <1>3, InitQuiet DEF KeptInv, ContestInv

LEMMA NextKept == ASSUME KeptInv, [Next]_vars PROVE KeptInv'
<1>1. QuietInv'
  BY NextQuiet DEF KeptInv
<1>2. CASE UNCHANGED vars
  <2>1. Undisturbed' = Undisturbed
    BY <1>2 DEF vars, Undisturbed
  <2>2. ContestInv => ContestInv'
    BY <1>2 DEF vars, ContestInv, Authored
  <2> QED
    BY <1>1, <2>1, <2>2 DEF KeptInv
<1>3. ASSUME NEW c, NEW k, Step(c, k), Undisturbed'
      PROVE  ContestInv'
  <2>1. /\ Undisturbed
        /\ (c \in Initializer /\ InitTurn(c, k)) \/ (c \in Setter /\ SetTurn(c, k))
    BY <1>3, CalmStep DEF KeptInv, QuietInv, FirstInv
  <2> QED
    BY <1>3, <2>1, ContestStep DEF KeptInv, QuietInv, FirstInv
<1> QED
  BY <1>1, <1>2, <1>3, Steps DEF KeptInv, QuietInv

\* Until a reconcile begins, a value that an event-sourced document holds and the
\* log does not was dropped for the patch of a call that has had no success.  Any
\* number of sets may put any values in one field at one version, retry and die.
THEOREM UnloggedContested == Spec => []UnloggedIsContested
<1>1. KeptInv => UnloggedIsContested
  BY DEF KeptInv, ContestInv, UnloggedIsContested, Unanswered, Held, Pending, PatchOn
<1>2. KeptInv /\ [Next]_vars => KeptInv'
  BY NextKept
<1> QED
  BY <1>1, <1>2, InitKept, PTL DEF Spec

-----------------------------------------------------------------------------
(***************************************************************************)
(* Reconciles repair what one set left.                                     *)
(*                                                                          *)
(* An event-sourced document, and what a reconcile has read of it, is the   *)
(* fold of the log up to its cursor; what the log holds beyond the cursor   *)
(* are events of the one set call, of attempts that wrote nothing.  An      *)
(* attempt whose write will win has appended under keys of its own: a key   *)
(* hit would be an attempt that failed at the same version, and the column  *)
(* has left that version for good.                                          *)
(***************************************************************************)

\* The first n events of the log move to p, put v in f, at last.
PhaseAt(l, n, p) ==
  \E m \in 1 .. n : /\ Move(l[m]) /\ l[m].to = p
                    /\ \A i \in 1 .. n : i > m => ~Move(l[i])
ValueAt(l, n, f, v) ==
  \E m \in 0 .. n : /\ IF m = 0 THEN v = None ELSE PatchOn(l[m], f) /\ l[m].value = v
                    /\ \A i \in 1 .. n : i > m => ~PatchOn(l[i], f)

Reflects(l, d) ==
  /\ d.at \in 1 .. Len(l)
  /\ PhaseAt(l, d.at, d.phase)
  /\ \A f \in Field : ValueAt(l, d.at, f, d.fields[f])

\* The events that are not the first are of a set call that has begun.
Asks(s, e) ==
  /\ s.pc # "idle" /\ s.req # None
  /\ e.type = "transition" => e.to = s.req.target
  /\ e.type = "patched" => e.field = s.req.field /\ e.value = s.req.value

Later(e) == e.type # "started"

\* The attempt of a set call.  While the column is what it expects, the events it
\* is yet to append are new, and the log is what it is about to write.
Attempt(l, s, col) ==
  /\ s.pc \in {"read"} \cup Working =>
       \A i \in 1 .. Len(l) : Later(l[i]) =>
         l[i].version < col \/ (s.pc \in Working /\ l[i].version = s.expected)
  /\ s.pc \in Working => s.expected <= col /\ s.base.version <= col /\ s.seq <= Len(l)
  /\ s.pc \in Working /\ s.expected = col /\ s.base.es =>
       /\ s.pc = "trail" => \A i \in 1 .. Len(l) : Later(l[i]) => l[i].version # col
       /\ s.pc = "entered" =>
            \A i \in 1 .. Len(l) : l[i].type \in {"entered", "patched"} => l[i].version # col
       /\ s.pc = "patch" =>
            \A i \in 1 .. Len(l) : l[i].type = "patched" => l[i].version # col
       /\ \A f \in Field : f # s.req.field \/ s.pc = "write" =>
            ValueAt(l, Len(l), f, FieldsOf(s)[f])
       /\ s.pc = "entered" => PhaseAt(l, Len(l), s.req.target)
       /\ s.pc \in {"patch", "write"} => PhaseAt(l, Len(l), s.base.phase)
       /\ s.pc \in {"entered", "write"} \/ (s.pc = "patch" /\ s.req.field = None) =>
            s.seq = Len(l)

RepairInv ==
  /\ doc # None => HasStart(log) /\ doc.version <= column /\ (doc.es => Reflects(log, doc))
  /\ \A i \in 1 .. Len(log) :
       /\ ~Later(log[i]) => i = 1 /\ log[i] = Started
       /\ Later(log[i]) => doc # None /\ \E c \in Setter : Asks(call[c], log[i])
  /\ \A c \in Initializer : call[c].pc = "started" => call[c].seq = 1 /\ HasStart(log)
  /\ \A c \in Reconciler :
       /\ call[c].pc = "create" => HasStart(log)
       /\ call[c].pc \in Folding =>
            call[c].base.version <= column /\ (call[c].base.es => Reflects(log, call[c].base))
  /\ \A c \in Setter : Attempt(log, call[c], column)

\* No more than one set call has begun.
OneSet == \A c, o \in Setter : call[c].pc # "idle" /\ call[o].pc # "idle" => c = o

LEMMA PhaseLonger ==
  ASSUME NEW l, NEW m, Longer(l, m), NEW n \in 0 .. Len(l)
  PROVE  /\ \A p : PhaseAt(l, n, p) => PhaseAt(m, n, p)
         /\ \A f, v : ValueAt(l, n, f, v) => ValueAt(m, n, f, v)
<1>1. n \in Nat /\ \A i \in 1 .. n : m[i] = l[i]
  BY DEF Longer
<1> QED
  BY <1>1 DEF PhaseAt, ValueAt

LEMMA ReflectsStays ==
  ASSUME NEW l, NEW m, Longer(l, m), NEW d, Reflects(l, d)
  PROVE  Reflects(m, d)
<1>1. d.at \in 0 .. Len(l) /\ d.at \in 1 .. Len(m)
  BY DEF Longer, Reflects
<1> QED
  BY <1>1, PhaseLonger DEF Reflects

\* The events between n and m change nothing.
LEMMA PhaseBeyond ==
  ASSUME NEW l, NEW n \in Nat, NEW m \in Nat, n <= m, NEW p, PhaseAt(l, n, p),
         \A i \in 1 .. m : i > n => ~Move(l[i])
  PROVE  PhaseAt(l, m, p)
<1>1. PICK j \in 1 .. n : /\ Move(l[j]) /\ l[j].to = p
                          /\ \A i \in 1 .. n : i > j => ~Move(l[i])
  BY DEF PhaseAt
<1>2. j \in 1 .. m /\ \A i \in 1 .. m : i > j => ~Move(l[i])
  BY <1>1
<1> QED
  BY <1>1, <1>2 DEF PhaseAt

LEMMA ValueBeyond ==
  ASSUME NEW l, NEW n \in Nat, NEW m \in Nat, n <= m, NEW f, NEW v, ValueAt(l, n, f, v),
         \A i \in 1 .. m : i > n => ~PatchOn(l[i], f)
  PROVE  ValueAt(l, m, f, v)
<1>1. PICK j \in 0 .. n : /\ IF j = 0 THEN v = None ELSE PatchOn(l[j], f) /\ l[j].value = v
                          /\ \A i \in 1 .. n : i > j => ~PatchOn(l[i], f)
  BY DEF ValueAt
<1>2. j \in 0 .. m /\ \A i \in 1 .. m : i > j => ~PatchOn(l[i], f)
  BY <1>1
<1> QED
  BY <1>1, <1>2 DEF ValueAt

\* The events between n and m move to p, where the first n lead.
LEMMA PhaseSame ==
  ASSUME NEW l, NEW n \in Nat, NEW m \in Nat, n <= m, NEW p, PhaseAt(l, n, p),
         \A i \in 1 .. m : i > n /\ Move(l[i]) => l[i].to = p
  PROVE  PhaseAt(l, m, p)
<1> DEFINE S == {i \in 1 .. m : Move(l[i])}
<1>1. PICK j \in 1 .. n : /\ Move(l[j]) /\ l[j].to = p
                          /\ \A i \in 1 .. n : i > j => ~Move(l[i])
  BY DEF PhaseAt
<1>2. S \in SUBSET (1 .. m) /\ S # {} /\ j \in S
  BY <1>1
<1>3. Latest(S) \in S /\ \A i \in S : i <= Latest(S)
  <2> HIDE DEF S
  <2> QED
    BY <1>2, LatestIs
<1>4. PICK k \in S : \A i \in S : i <= k
  BY <1>3
<1>5. k \in 1 .. m /\ Move(l[k]) /\ \A i \in 1 .. m : i > k => ~Move(l[i])
  BY <1>4
<1>6. l[k].to = p
  <2>1. CASE k > n
    BY <1>5, <2>1
  <2>2. CASE ~(k > n)
    <3>1. k \in 1 .. n /\ j <= k
      BY <1>2, <1>4, <1>5, <2>2
    <3>2. k = j
      BY <1>1, <1>5, <3>1
    <3> QED
      BY <1>1, <3>2
  <2> QED
    BY <2>1, <2>2
<1> HIDE DEF S
<1> QED
  BY <1>5, <1>6 DEF PhaseAt

\* The log that has been appended to.
LEMMA Appended ==
  ASSUME log \in Seq(Event), NEW e \in Event, AppendKeyed(e), Stored(e) = {},
         NEW n, n = Len(log)
  PROVE  /\ SequenceOf(e) = n + 1 /\ Len(log') = n + 1 /\ n \in Nat /\ log'[n + 1] = e
         /\ \A i \in 1 .. n : log'[i] = log[i]
         /\ Move(e) => PhaseAt(log', n + 1, e.to)
         /\ \A p : ~Move(e) /\ PhaseAt(log, n, p) => PhaseAt(log', n + 1, p)
         /\ \A f : PatchOn(e, f) => ValueAt(log', n + 1, f, e.value)
         /\ \A f, v : ~PatchOn(e, f) /\ ValueAt(log, n, f, v) => ValueAt(log', n + 1, f, v)
<1>1. n \in Nat /\ log' = Append(log, e) /\ SequenceOf(e) = n + 1
  BY DEF AppendKeyed, SequenceOf
<1>2. /\ Len(log') = n + 1 /\ log'[n + 1] = e /\ \A i \in 1 .. n : log'[i] = log[i]
  BY <1>1
<1>3. Longer(log, log') /\ n \in 0 .. Len(log)
  BY <1>1, <1>2 DEF Longer
<1>4. ASSUME Move(e) PROVE PhaseAt(log', n + 1, e.to)
  <2>1. n + 1 \in 1 .. n + 1 /\ \A i \in 1 .. n + 1 : ~(i > n + 1)
    BY <1>1
  <2> QED
    BY <1>2, <1>4, <2>1 DEF PhaseAt
<1>5. ASSUME NEW p, ~Move(e), PhaseAt(log, n, p)
      PROVE  PhaseAt(log', n + 1, p)
  <2>1. PhaseAt(log', n, p)
    BY <1>3, <1>5, PhaseLonger
  <2>2. \A i \in 1 .. n + 1 : i > n => ~Move(log'[i])
    <3>1. \A i \in 1 .. n + 1 : i > n => i = n + 1
      BY <1>1
    <3> QED
      BY <1>2, <1>5, <3>1
  <2> QED
    <3>1. PICK l : l = log'
      OBVIOUS
    <3>2. n + 1 \in Nat /\ n <= n + 1 /\ PhaseAt(l, n, p)
          /\ \A i \in 1 .. n + 1 : i > n => ~Move(l[i])
      BY <1>1, <2>1, <2>2, <3>1
    <3>3. PhaseAt(l, n + 1, p)
      BY <1>1, <3>2, PhaseBeyond
    <3> QED
      BY <3>1, <3>3
<1>6. ASSUME NEW f, PatchOn(e, f)
      PROVE  ValueAt(log', n + 1, f, e.value)
  <2>1. n + 1 \in 0 .. n + 1 /\ n + 1 # 0 /\ \A i \in 1 .. n + 1 : ~(i > n + 1)
    BY <1>1
  <2> QED
    BY <1>2, <1>6, <2>1 DEF ValueAt
<1>7. ASSUME NEW f, NEW v, ~PatchOn(e, f), ValueAt(log, n, f, v)
      PROVE  ValueAt(log', n + 1, f, v)
  <2>1. ValueAt(log', n, f, v)
    BY <1>3, <1>7, PhaseLonger
  <2>2. \A i \in 1 .. n + 1 : i > n => ~PatchOn(log'[i], f)
    <3>1. \A i \in 1 .. n + 1 : i > n => i = n + 1
      BY <1>1
    <3> QED
      BY <1>2, <1>7, <3>1
  <2> QED
    <3>1. PICK l : l = log'
      OBVIOUS
    <3>2. n + 1 \in Nat /\ n <= n + 1 /\ ValueAt(l, n, f, v)
          /\ \A i \in 1 .. n + 1 : i > n => ~PatchOn(l[i], f)
      BY <1>1, <2>1, <2>2, <3>1
    <3>3. ValueAt(l, n + 1, f, v)
      BY <1>1, <3>2, ValueBeyond
    <3> QED
      BY <3>1, <3>3
<1> QED
  BY <1>1, <1>2, <1>4, <1>5, <1>6, <1>7

\* The fold takes a document to the end of the log.
LEMMA FoldReflects ==
  ASSUME Basis, NEW d \in Document, Reflects(log, d)
  PROVE  Reflects(log, Folded(d))
<1> DEFINE new == (d.at + 1) .. Len(log)
           moves == {i \in new : log[i].type \in {"started", "transition"}}
           patches(f) == {i \in new : log[i].type = "patched" /\ log[i].field = f}
           phase == IF moves = {} THEN d.phase ELSE log[Latest(moves)].to
           fields == [f \in Field |-> IF patches(f) = {} THEN d.fields[f]
                                      ELSE log[Latest(patches(f))].value]
<1>1. /\ Len(log) \in Nat /\ d.at \in Nat /\ new \subseteq 1 .. Len(log)
      /\ \A i \in 1 .. Len(log) : i > d.at => i \in new
      /\ \A i \in new : i > d.at
      /\ 1 <= d.at /\ d.at <= Len(log)
  BY DEF Document, Basis, TypeOK, Reflects
<1>2. Folded(d).phase = phase /\ Folded(d).fields = fields /\ Folded(d).at = Len(log)
  BY DEF Folded, Document
<1>3. PhaseAt(log, Len(log), phase)
  <2>1. CASE moves = {}
    <3>1. \A i \in 1 .. Len(log) : i > d.at => ~Move(log[i])
      BY <1>1, <2>1 DEF Move
    <3>3. PhaseAt(log, d.at, d.phase)
      BY DEF Reflects
    <3> QED
      BY <1>1, <2>1, <3>1, <3>3, PhaseBeyond
  <2>2. CASE moves # {}
    <3>1. moves \in SUBSET (1 .. Len(log))
      BY <1>1
    <3>2. Latest(moves) \in moves /\ \A i \in moves : i <= Latest(moves)
      <4> HIDE DEF moves
      <4> QED
        BY <1>1, <2>2, <3>1, LatestIs
    <3>3. PICK m \in moves : m = Latest(moves) /\ \A i \in moves : i <= m
      BY <3>2
    <3>4. m \in 1 .. Len(log) /\ m > d.at /\ Move(log[m]) /\ phase = log[m].to
      BY <1>1, <2>2, <3>3 DEF Move
    <3>5. \A i \in 1 .. Len(log) : i > m => ~Move(log[i])
      <4>1. SUFFICES ASSUME NEW i \in 1 .. Len(log), i > m, Move(log[i]) PROVE FALSE
        OBVIOUS
      <4>2. i \in moves
        BY <1>1, <3>4, <4>1 DEF Move
      <4> HIDE DEF moves
      <4> QED
        BY <1>1, <3>3, <3>4, <4>1, <4>2
    <3> HIDE DEF moves, phase
    <3> QED
      BY <3>4, <3>5 DEF PhaseAt
  <2> QED
    BY <2>1, <2>2
<1>4. ASSUME NEW f \in Field
      PROVE  ValueAt(log, Len(log), f, fields[f])
  <2> DEFINE ps == patches(f)
  <2>0. fields[f] = IF ps = {} THEN d.fields[f] ELSE log[Latest(ps)].value
    OBVIOUS
  <2>1. CASE ps = {}
    <3>1. \A i \in 1 .. Len(log) : i > d.at => ~PatchOn(log[i], f)
      BY <1>1, <2>1 DEF PatchOn
    <3>2. ValueAt(log, d.at, f, d.fields[f])
      BY DEF Reflects
    <3> QED
      BY <1>1, <2>0, <2>1, <3>1, <3>2, ValueBeyond
  <2>2. CASE ps # {}
    <3>1. ps \in SUBSET (1 .. Len(log))
      BY <1>1
    <3>2. Latest(ps) \in ps /\ \A i \in ps : i <= Latest(ps)
      <4> HIDE DEF ps
      <4> QED
        BY <1>1, <2>2, <3>1, LatestIs
    <3>3. PICK m \in ps : m = Latest(ps) /\ \A i \in ps : i <= m
      BY <3>2
    <3>4. m \in 1 .. Len(log) /\ m > d.at /\ PatchOn(log[m], f)
      BY <1>1, <3>3 DEF PatchOn
    <3>5. \A i \in 1 .. Len(log) : i > m => ~PatchOn(log[i], f)
      <4>1. SUFFICES ASSUME NEW i \in 1 .. Len(log), i > m, PatchOn(log[i], f) PROVE FALSE
        OBVIOUS
      <4>2. i \in ps
        BY <1>1, <3>4, <4>1 DEF PatchOn
      <4> HIDE DEF ps
      <4> QED
        BY <1>1, <3>3, <3>4, <4>1, <4>2
    <3>6. fields[f] = log[m].value /\ m # 0 /\ m \in 0 .. Len(log)
      BY <1>1, <2>0, <2>2, <3>3, <3>4
    <3> HIDE DEF ps, fields
    <3> QED
      BY <3>4, <3>5, <3>6 DEF ValueAt
  <2> QED
    BY <2>1, <2>2
<1>5. Len(log) \in 1 .. Len(log)
  BY <1>1
<1> HIDE DEF phase, fields
<1> QED
  BY <1>2, <1>3, <1>4, <1>5 DEF Reflects

LEMMA StepBegun ==
  ASSUME Basis, NEW c, NEW k, Step(c, k)
  PROVE  k.pc # "idle"
  BY DEF Step, InitTurn, SetTurn, ReconcileTurn, Starts, Creates, Ends, Begins, Takes, Trails,
         Patches, Skips, Writes, Retries, Opens, Founds, Folds, Merges, Defers

LEMMA AttemptStays ==
  ASSUME NEW l, \A i \in 1 .. Len(l) : l[i].version \in Nat,
         NEW s \in CallState, NEW col \in Nat, NEW new \in {col, col + 1}, Attempt(l, s, col)
  PROVE  Attempt(l, s, new)
<1>0. s.expected \in Nat /\ s.base.version \in Nat
  BY DEF CallState, Document
<1>1. CASE new = col
  BY <1>1
<1>2. CASE new = col + 1
  <2>1. s.pc \in Working => s.expected <= col /\ s.base.version <= col /\ s.seq <= Len(l)
    BY DEF Attempt
  <2>2. s.pc \in Working => s.expected <= new /\ s.base.version <= new /\ s.expected # new
    BY <1>0, <1>2, <2>1
  <2>3. s.pc \in {"read"} \cup Working =>
          \A i \in 1 .. Len(l) : Later(l[i]) =>
            l[i].version < new \/ (s.pc \in Working /\ l[i].version = s.expected)
    <3>1. \A i \in 1 .. Len(l) : l[i].version < col => l[i].version < new
      BY <1>2
    <3> QED
      BY <3>1 DEF Attempt
  <2> QED
    BY <2>1, <2>2, <2>3 DEF Attempt
<1> QED
  BY <1>1, <1>2

\* A step keeps the invariant when what it changes is right.
LEMMA RepairFrame ==
  ASSUME Basis, RepairInv, OneSet', NEW c, NEW k, Step(c, k),
         column' \in {column, column + 1}, doc # None => doc' # None,
         log' = log \/ c \in Setter \/ doc = None,
         doc' # None =>
           HasStart(log') /\ doc'.version <= column' /\ (doc'.es => Reflects(log', doc')),
         \A i \in 1 .. Len(log') : i > Len(log) =>
           /\ ~Later(log'[i]) => i = 1 /\ log'[i] = Started
           /\ Later(log'[i]) => doc' # None /\ c \in Setter /\ Asks(k, log'[i]),
         c \in Initializer /\ k.pc = "started" => k.seq = 1 /\ HasStart(log'),
         c \in Reconciler =>
           /\ k.pc = "create" => HasStart(log')
           /\ k.pc \in Folding =>
                k.base.version <= column' /\ (k.base.es => Reflects(log', k.base)),
         c \in Setter => Attempt(log', k, column')
  PROVE  RepairInv'
<1>1. /\ Longer(log, log') /\ c \in Caller /\ call'[c] = k /\ k.pc # "idle"
      /\ \A d \in Caller : d # c => call'[d] = call[d]
      /\ column \in Nat /\ log \in Seq(Event) /\ Len(log) \in Nat
      /\ \A d \in Caller : call[d] \in CallState /\ Placed(d)
  BY LogGrows, StepCalls, StepBegun DEF Basis, TypeOK
<1>2. /\ Len(log) \in Nat /\ Len(log') \in Nat /\ Len(log) <= Len(log')
      /\ \A i \in 1 .. Len(log) : log'[i] = log[i] /\ log[i].version \in Nat
  <2>1. \A i \in 1 .. Len(log) : log[i] \in Event
    BY <1>1
  <2> QED
    BY <1>1, <2>1 DEF Longer, Event
<1>3. ASSUME NEW d \in Setter, NEW e, Asks(call[d], e)
      PROVE  Asks(call'[d], e)
  <2>1. CASE d = c
    <3>1. k.req = call[c].req
      BY <1>3, <2>1, StepRequest DEF Asks
    <3> QED
      BY <1>1, <1>3, <2>1, <3>1 DEF Asks
  <2>2. CASE d # c
    BY <1>1, <1>3, <2>2 DEF Caller
  <2> QED
    BY <2>1, <2>2
<1>4. ASSUME NEW i \in 1 .. Len(log')
      PROVE  /\ ~Later(log'[i]) => i = 1 /\ log'[i] = Started
             /\ Later(log'[i]) => doc' # None /\ \E d \in Setter : Asks(call'[d], log'[i])
  <2>1. CASE i \in 1 .. Len(log)
    BY <1>2, <1>3, <2>1 DEF RepairInv
  <2>2. CASE i \notin 1 .. Len(log)
    BY <1>1, <1>2, <2>2
  <2> QED
    BY <2>1, <2>2
<1>5. ASSUME NEW d \in Initializer, call'[d].pc = "started"
      PROVE  call'[d].seq = 1 /\ HasStart(log')
  <2>1. CASE d = c
    BY <1>1, <1>5, <2>1
  <2>2. CASE d # c
    BY <1>1, <1>5, <2>2, HasMoveStays DEF RepairInv, Caller
  <2> QED
    BY <2>1, <2>2
<1>6. ASSUME NEW d \in Reconciler
      PROVE  /\ call'[d].pc = "create" => HasStart(log')
             /\ call'[d].pc \in Folding =>
                  /\ call'[d].base.version <= column'
                  /\ call'[d].base.es => Reflects(log', call'[d].base)
  <2>1. CASE d = c
    BY <1>1, <2>1
  <2>2. CASE d # c
    <3>1. call'[d] = call[d] /\ call[d].base.version \in Nat
      BY <1>1, <2>2 DEF Caller, CallState, Document
    <3>2. call[d].pc = "create" => HasStart(log')
      BY <1>1, HasMoveStays DEF RepairInv
    <3>3. ASSUME call[d].pc \in Folding
          PROVE  /\ call[d].base.version <= column'
                 /\ call[d].base.es => Reflects(log', call[d].base)
      <4>1. call[d].base.version <= column /\ (call[d].base.es => Reflects(log, call[d].base))
        BY <3>3 DEF RepairInv
      <4> QED
        BY <1>1, <3>1, <4>1, ReflectsStays
    <3> QED
      BY <3>1, <3>2, <3>3
  <2> QED
    BY <2>1, <2>2
<1>7. ASSUME NEW d \in Setter
      PROVE  Attempt(log', call'[d], column')
  <2>1. CASE d = c
    BY <1>1, <2>1
  <2>2. CASE d # c /\ c \in Setter
    <3>1. call'[d].pc = "idle"
      BY <1>1, <2>2 DEF OneSet
    <3> QED
      BY <3>1 DEF Attempt, Working
  <2>3. CASE d # c /\ c \notin Setter
    <3>1. call'[d] = call[d] /\ call[d] \in CallState /\ Placed(d)
      BY <1>1, <2>3 DEF Caller
    <3>2. Attempt(log, call[d], column')
      BY <1>1, <1>2, <3>1, AttemptStays DEF RepairInv
    <3>3. CASE log' = log
      BY <3>1, <3>2, <3>3
    <3>4. CASE log' # log
      <4>1. call[d].pc \notin Working
        BY <2>3, <3>1, <3>4 DEF Placed
      <4>2. \A i \in 1 .. Len(log') : Later(log'[i]) => i \in 1 .. Len(log)
        BY <1>2, <2>3
      <4> QED
        BY <1>2, <3>1, <3>2, <4>1, <4>2 DEF Attempt, Working
    <3> QED
      BY <3>3, <3>4
  <2> QED
    BY <2>1, <2>2, <2>3
<1> QED
  BY <1>4, <1>5, <1>6, <1>7 DEF RepairInv

\* The step leaves the log and the row.
LEMMA RepairStays ==
  ASSUME Basis, RepairInv, OneSet', NEW c, NEW k, Step(c, k), Stays,
         c \in Initializer => k.pc # "started",
         c \in Reconciler =>
           /\ k.pc = "create" => HasStart(log)
           /\ k.pc \in Folding =>
                k.base.version <= column /\ (k.base.es => Reflects(log, k.base)),
         c \in Setter => Attempt(log, k, column)
  PROVE  RepairInv'
<1>1. log' = log /\ doc' = doc /\ column' = column
  BY DEF Stays
<1>2. \A i \in 1 .. Len(log') : ~(i > Len(log))
  BY <1>1 DEF Basis, TypeOK
<1>3. doc' # None =>
        HasStart(log') /\ doc'.version <= column' /\ (doc'.es => Reflects(log', doc'))
  BY <1>1 DEF RepairInv
<1>4. column' \in {column, column + 1} /\ (doc # None => doc' # None)
  BY <1>1
<1>5. c \in Reconciler =>
        /\ k.pc = "create" => HasStart(log')
        /\ k.pc \in Folding =>
             k.base.version <= column' /\ (k.base.es => Reflects(log', k.base))
  BY <1>1
<1>6. c \in Setter => Attempt(log', k, column')
  BY <1>1
<1> QED
  BY <1>1, <1>2, <1>3, <1>4, <1>5, <1>6, RepairFrame

\* The step writes the row.
LEMMA RepairWrites ==
  ASSUME Basis, RepairInv, OneSet', NEW c, NEW k, Step(c, k),
         log' = log, column' = column + 1, doc' # None,
         HasStart(log), doc'.version <= column + 1, doc'.es => Reflects(log, doc'),
         k.pc = "done" \/ (c \in Reconciler /\ k.pc = "query" /\ k.base = doc')
  PROVE  RepairInv'
<1>1. column \in Nat /\ \A i \in 1 .. Len(log') : ~(i > Len(log))
  BY DEF Basis, TypeOK
<1>2. c \in Setter => Attempt(log', k, column')
  <2>1. c \in Setter => k.pc = "done"
    BY CallersAssumption DEF CallersAssumption
  <2> QED
    BY <2>1 DEF Attempt, Working
<1>3. doc' # None =>
        HasStart(log') /\ doc'.version <= column' /\ (doc'.es => Reflects(log', doc'))
  OBVIOUS
<1>4. c \in Reconciler =>
        /\ k.pc = "create" => HasStart(log')
        /\ k.pc \in Folding =>
             k.base.version <= column' /\ (k.base.es => Reflects(log', k.base))
  BY DEF Folding
<1>5. column' \in {column, column + 1} /\ (doc # None => doc' # None)
  OBVIOUS
<1>6. k.pc # "started"
  OBVIOUS
<1> QED
  BY <1>1, <1>2, <1>3, <1>4, <1>5, <1>6, RepairFrame

\* The log begins with workflow.started.
LEMMA StartFirst ==
  ASSUME RepairInv, HasStart(log), log \in Seq(Event)
  PROVE  1 \in 1 .. Len(log) /\ log[1] = Started
<1>1. PICK i \in 1 .. Len(log) : SameKey(log[i], Started)
  BY DEF HasStart
<1>2. ~Later(log[i])
  BY <1>1 DEF SameKey, Started, Later
<1> QED
  BY <1>1, <1>2 DEF RepairInv

LEMMA RepairStarts ==
  ASSUME Basis, RepairInv, OneSet', NEW c \in Initializer, NEW k, Step(c, k), Starts(c, k)
  PROVE  RepairInv'
<1>0. /\ Started \in Event /\ log \in Seq(Event) /\ AppendKeyed(Started) /\ c \in Caller
      /\ doc' = doc /\ column' = column /\ k.pc = "started" /\ k.seq = SequenceOf(Started)
      /\ c \notin Setter /\ c \notin Reconciler /\ Len(log) \in Nat
  BY EventsTyped, StepCalls DEF Caller, Basis, TypeOK, Starts
<1>1. /\ SequenceOf(Started) \in 1 .. Len(log') /\ SameKey(log'[SequenceOf(Started)], Started)
  BY <1>0, AppendGrows
<1>2. HasStart(log')
  BY <1>1 DEF HasStart
<1>3. CASE Stored(Started) = {}
  <2>1. ~HasStart(log)
    BY <1>3 DEF Stored, HasStart
  <2>2. doc = None
    BY <2>1 DEF RepairInv
  <2>3. Len(log) = 0
    <3>1. SUFFICES ASSUME NEW i \in 1 .. Len(log) PROVE FALSE
      BY <1>0
    <3>2. log[i] = Started
      BY <2>2 DEF RepairInv
    <3>3. SameKey(log[i], Started)
      BY <3>2 DEF SameKey
    <3> QED
      BY <2>1, <3>3 DEF HasStart
  <2>4. log' = Append(log, Started) /\ SequenceOf(Started) = 1
    BY <1>0, <1>3, <2>3 DEF AppendKeyed, SequenceOf
  <2>5. \A i \in 1 .. Len(log') : i = 1 /\ log'[i] = Started
    BY <1>0, <2>3, <2>4
  <2>6. ~Later(Started)
    BY DEF Later, Started
  <2>7. \A i \in 1 .. Len(log') : i > Len(log) =>
          /\ ~Later(log'[i]) => i = 1 /\ log'[i] = Started
          /\ Later(log'[i]) => doc' # None /\ c \in Setter /\ Asks(k, log'[i])
    BY <2>5, <2>6
  <2>8. column' \in {column, column + 1} /\ (doc # None => doc' # None) /\ doc' = None
    BY <1>0, <2>2
  <2> QED
    BY <1>0, <1>2, <2>2, <2>4, <2>7, <2>8, RepairFrame
<1>4. CASE Stored(Started) # {}
  <2>1. log' = log /\ SequenceOf(Started) \in Stored(Started)
    BY <1>0, <1>4 DEF AppendKeyed, SequenceOf
  <2>2. ~Later(log[SequenceOf(Started)]) /\ SequenceOf(Started) \in 1 .. Len(log)
    BY <1>1, <2>1 DEF Later, SameKey, Started
  <2>3. SequenceOf(Started) = 1
    BY <2>2 DEF RepairInv
  <2>4. \A i \in 1 .. Len(log') : ~(i > Len(log))
    BY <1>0, <2>1
  <2>5. doc' # None =>
          HasStart(log') /\ doc'.version <= column' /\ (doc'.es => Reflects(log', doc'))
    BY <1>0, <2>1 DEF RepairInv
  <2>6. column' \in {column, column + 1} /\ (doc # None => doc' # None)
    BY <1>0
  <2> QED
    BY <1>0, <1>2, <2>1, <2>3, <2>4, <2>5, <2>6, RepairFrame
<1> QED
  BY <1>3, <1>4

LEMMA RepairCreates ==
  ASSUME Basis, RepairInv, OneSet', NEW c \in Initializer, NEW k, Step(c, k), Creates(c, k)
  PROVE  RepairInv'
<1>1. /\ log' = log /\ column = 0 /\ column' = column + 1 /\ k.pc = "done"
      /\ doc' = [NoDoc EXCEPT !.version = 1, !.at = call[c].seq, !.es = TRUE]
      /\ HasStart(log) /\ call[c].seq = 1
  BY DEF Creates, Put, RepairInv
<1>2. /\ doc' \in Document /\ doc'.phase = Initial /\ \A f \in Field : doc'.fields[f] = None
      /\ doc'.version = 1
  <2>1. PICK d : d = [NoDoc EXCEPT !.version = 1, !.at = call[c].seq, !.es = TRUE]
    OBVIOUS
  <2>2. doc' = d /\ call[c].seq \in Nat
    BY <1>1, <2>1
  <2> QED
    BY <2>1, <2>2, CreatedIs
<1>3. doc'.at = 1
  BY <1>1, NoDocTyped DEF Document
<1>4. 1 \in 1 .. Len(log) /\ log[1] = Started
  BY <1>1, StartFirst DEF Basis, TypeOK
<1>5. PhaseAt(log, 1, Initial)
  <2>1. 1 \in 1 .. 1 /\ \A i \in 1 .. 1 : ~(i > 1)
    OBVIOUS
  <2> QED
    BY <1>4, <2>1 DEF PhaseAt, Move, Started
<1>6. ASSUME NEW f \in Field PROVE ValueAt(log, 1, f, None)
  <2>1. 0 \in 0 .. 1 /\ \A i \in 1 .. 1 : i = 1
    OBVIOUS
  <2>2. ~PatchOn(log[1], f)
    BY <1>4 DEF PatchOn, Started
  <2>3. \A i \in 1 .. 1 : i > 0 => ~PatchOn(log[i], f)
    BY <2>1, <2>2
  <2> QED
    BY <2>1, <2>3 DEF ValueAt
<1>7. Reflects(log, doc')
  BY <1>2, <1>3, <1>4, <1>5, <1>6 DEF Reflects
<1>8. doc' # None /\ doc'.version <= column + 1
  BY <1>1, <1>2, NoneApart
<1> QED
  BY <1>1, <1>7, <1>8, RepairWrites

\* All later events are of the one set call.
LEMMA OneAsks ==
  ASSUME Basis, RepairInv, OneSet', NEW c \in Setter, NEW k, Step(c, k),
         NEW i \in 1 .. Len(log), Later(log[i])
  PROVE  Asks(call[c], log[i])
<1>1. PICK d \in Setter : Asks(call[d], log[i])
  BY DEF RepairInv
<1>2. c \in Caller /\ call'[c] = k /\ k.pc # "idle"
      /\ \A o \in Caller : o # c => call'[o] = call[o]
  BY StepCalls, StepBegun
<1>3. call'[d].pc # "idle"
  BY <1>1, <1>2 DEF Asks, Caller
<1>4. d = c
  BY <1>2, <1>3 DEF OneSet
<1> QED
  BY <1>1, <1>4

LEMMA BeginsAttempt ==
  ASSUME Basis, RepairInv, OneSet', NEW c \in Setter, NEW k, Step(c, k), Begins(c, k)
  PROVE  Attempt(log, k, column)
<1>1. \A i \in 1 .. Len(log) : ~Later(log[i])
  BY OneAsks DEF Begins, Asks
<1> QED
  BY <1>1 DEF Begins, Attempt, Working

LEMMA TakesAttempt ==
  ASSUME Basis, RepairInv, OneSet', NEW c \in Setter, NEW k, Step(c, k), Takes(c, k)
  PROVE  Attempt(log, k, column)
<1>1. /\ call[c].pc = "read" /\ k.pc \in {"trail", "patch"} /\ doc # None /\ doc \in Document
      /\ k.base = doc /\ k.expected = doc.version /\ k.seq = 0 /\ k.req = call[c].req
      /\ log \in Seq(Event) /\ Len(log) \in Nat /\ doc.version <= column
      /\ k.pc = "patch" => k.req.field # None /\ k.req.target \in {None, doc.phase}
      /\ \A i \in 1 .. Len(log) : Whole(log[i])
  BY DEF Takes, Moves, Basis, TypeOK, RepairInv
<1>2. \A i \in 1 .. Len(log) : Later(log[i]) => log[i].version < column
  <2>1. Attempt(log, call[c], column)
    BY DEF RepairInv
  <2> QED
    BY <1>1, <2>1 DEF Attempt, Working
<1>3. \A i \in 1 .. Len(log) : Later(log[i]) => Asks(call[c], log[i])
  BY OneAsks
<1>4. ASSUME k.expected = column, doc.es
      PROVE  /\ \A f \in Field : f # k.req.field => ValueAt(log, Len(log), f, FieldsOf(k)[f])
             /\ k.pc = "patch" => PhaseAt(log, Len(log), doc.phase)
             /\ \A i \in 1 .. Len(log) : Later(log[i]) => log[i].version # column
  <2>1. /\ Reflects(log, doc) /\ doc.at \in Nat /\ doc.at <= Len(log) /\ doc.at >= 1
    BY <1>1, <1>4 DEF RepairInv, Reflects
  <2>2. ASSUME NEW f \in Field, f # k.req.field
        PROVE  ValueAt(log, Len(log), f, FieldsOf(k)[f])
    <3>1. FieldsOf(k)[f] = doc.fields[f]
      BY <1>1, <2>2 DEF FieldsOf, Document
    <3>2. \A i \in 1 .. Len(log) : i > doc.at => ~PatchOn(log[i], f)
      BY <1>1, <1>3, <2>2 DEF PatchOn, Later, Asks
    <3>3. ValueAt(log, doc.at, f, doc.fields[f])
      BY <2>1 DEF Reflects
    <3> QED
      BY <1>1, <2>1, <3>1, <3>2, <3>3, ValueBeyond
  <2>3. ASSUME k.pc = "patch"
        PROVE  PhaseAt(log, Len(log), doc.phase)
    <3>1. PhaseAt(log, doc.at, doc.phase)
      BY <2>1 DEF Reflects
    <3>2. ASSUME NEW i \in 1 .. Len(log), i > doc.at, Move(log[i])
          PROVE  log[i].to = doc.phase
      <4>1. i # 1
        BY <2>1, <3>2
      <4>2. Later(log[i])
        BY <4>1 DEF RepairInv
      <4>3. log[i].type = "transition" /\ log[i].to \in Phase /\ log[i].to = k.req.target
        BY <1>1, <1>3, <3>2, <4>2 DEF Move, Later, Asks, Whole
      <4> QED
        BY <1>1, <2>3, <4>3, NoneApart
    <3> QED
      BY <1>1, <2>1, <3>1, <3>2, PhaseSame
  <2>4. \A i \in 1 .. Len(log) : Later(log[i]) => log[i].version # column
    <3>0. \A i \in 1 .. Len(log) : log[i] \in Event
      BY <1>1
    <3>1. column \in Nat /\ \A i \in 1 .. Len(log) : log[i].version \in Nat
      BY <3>0 DEF Basis, TypeOK, Event
    <3>2. \A i \in 1 .. Len(log) : log[i].version < column => log[i].version # column
      BY <3>1
    <3> QED
      BY <1>2, <3>2
  <2> QED
    BY <2>2, <2>3, <2>4
<1>5. \A i \in 1 .. Len(log) : log[i].type = "patched" => Later(log[i])
  BY DEF Later
<1>6. k.seq <= Len(log)
  BY <1>1
<1> QED
  BY <1>1, <1>2, <1>4, <1>5, <1>6 DEF Attempt, Working

\* What an append does to the versions in the log.
LEMMA AppendVersions ==
  ASSUME Basis, NEW c \in Setter, NEW k, Step(c, k), RepairInv, OneSet',
         NEW e \in Event, AppendKeyed(e),
         call[c].pc \in Working, k.pc \in Working, k.expected = call[c].expected,
         e.version = call[c].expected, Later(e), Asks(call[c], e), k.req = call[c].req,
         \A i \in 1 .. Len(log') : i > Len(log) => log'[i] = e
  PROVE  /\ \A i \in 1 .. Len(log') : Later(log'[i]) =>
              log'[i].version < column \/ (k.pc \in Working /\ log'[i].version = k.expected)
         /\ \A i \in 1 .. Len(log') : i > Len(log) =>
              /\ ~Later(log'[i]) => i = 1 /\ log'[i] = Started
              /\ Later(log'[i]) => doc # None /\ c \in Setter /\ Asks(k, log'[i])
<1>1. /\ Longer(log, log') /\ Attempt(log, call[c], column) /\ k.pc # "idle" /\ doc # None
  BY LogGrows, StepBegun, StepCalls DEF RepairInv, Placed
<1>2. ASSUME NEW i \in 1 .. Len(log'), Later(log'[i])
      PROVE  log'[i].version < column \/ log'[i].version = k.expected
  <2>1. CASE i \in 1 .. Len(log)
    <3>1. log'[i] = log[i]
      BY <1>1, <2>1 DEF Longer
    <3> QED
      BY <1>1, <1>2, <2>1, <3>1 DEF Attempt
  <2>2. CASE i \notin 1 .. Len(log)
    <3>1. i > Len(log)
      BY <1>1, <2>2 DEF Longer
    <3> QED
      BY <3>1
  <2> QED
    BY <2>1, <2>2
<1>3. Asks(k, e)
  BY <1>1 DEF Asks
<1> QED
  BY <1>1, <1>2, <1>3

LEMMA TrailsAttempt ==
  ASSUME Basis, RepairInv, OneSet', NEW c \in Setter, NEW k, Step(c, k), Trails(c, k)
  PROVE  /\ Attempt(log', k, column)
         /\ \A i \in 1 .. Len(log') : i > Len(log) =>
              /\ ~Later(log'[i]) => i = 1 /\ log'[i] = Started
              /\ Later(log'[i]) => doc # None /\ c \in Setter /\ Asks(k, log'[i])
<1>1. PICK e : e = TrailOf(call[c])
  OBVIOUS
<1>2. PICK s : s = call[c]
  OBVIOUS
<1>3. /\ c \in Caller /\ s.pc \in {"trail", "entered"} /\ AppendKeyed(e) /\ e \in Event
      /\ log \in Seq(Event) /\ Longer(log, log') /\ s \in CallState /\ Placed(c)
      /\ k.req = s.req /\ k.expected = s.expected /\ k.seq = SequenceOf(e)
      /\ k.pc = IF s.pc = "trail" THEN "entered" ELSE "patch"
      /\ k.base = [s.base EXCEPT !.phase = IF s.pc = "trail" THEN s.base.phase ELSE s.req.target]
  BY <1>1, <1>2, StepCalls, LogGrows, EventsTyped DEF Trails, Basis, TypeOK
<1>4. /\ e.version = s.expected /\ e.to = s.req.target
      /\ e.type = IF s.pc = "trail" THEN "transition" ELSE "entered"
  BY <1>1, <1>2 DEF TrailOf, Moved
<1>5. /\ k.base.version = s.base.version /\ k.base.es = s.base.es /\ k.base.fields = s.base.fields
      /\ s.pc = "entered" => k.base.phase = s.req.target
      /\ FieldsOf(k) = FieldsOf(s) /\ s.base.version \in Nat /\ s.expected \in Nat
  BY <1>3 DEF CallState, Document, FieldsOf
<1>6. Attempt(log, s, column) /\ s.pc \in Working /\ k.pc \in Working
  BY <1>2, <1>3 DEF RepairInv, Working
<1>7. Later(e) /\ Asks(s, e)
  <2>1. s.req # None
    BY <1>2, <1>3, NoneApart, WorkflowAssumption DEF Placed, WorkflowAssumption
  <2> QED
    BY <1>3, <1>4, <2>1 DEF Later, Asks
<1>8. \A i \in 1 .. Len(log') : i > Len(log) => log'[i] = e
  BY <1>3, AppendGrows
<1>9. /\ \A i \in 1 .. Len(log') : Later(log'[i]) =>
           log'[i].version < column \/ (k.pc \in Working /\ log'[i].version = k.expected)
      /\ \A i \in 1 .. Len(log') : i > Len(log) =>
           /\ ~Later(log'[i]) => i = 1 /\ log'[i] = Started
           /\ Later(log'[i]) => doc # None /\ c \in Setter /\ Asks(k, log'[i])
  BY <1>2, <1>3, <1>4, <1>6, <1>7, <1>8, AppendVersions
<1>10. k.expected <= column /\ k.base.version <= column /\ k.seq <= Len(log')
  <2>1. SequenceOf(e) \in 1 .. Len(log')
    BY <1>3, AppendGrows
  <2> QED
    BY <1>3, <1>5, <1>6, <2>1 DEF Attempt
<1>11. ASSUME k.expected = column, k.base.es
       PROVE  /\ k.pc = "entered" =>
                   \A i \in 1 .. Len(log') :
                     log'[i].type \in {"entered", "patched"} => log'[i].version # column
              /\ k.pc = "patch" =>
                   \A i \in 1 .. Len(log') : log'[i].type = "patched" => log'[i].version # column
              /\ \A f \in Field : f # k.req.field => ValueAt(log', Len(log'), f, FieldsOf(k)[f])
              /\ k.pc = "entered" => PhaseAt(log', Len(log'), k.req.target)
              /\ k.pc = "patch" => PhaseAt(log', Len(log'), k.base.phase)
              /\ k.seq = Len(log')
  <2>0. s.expected = column /\ s.base.es
    BY <1>3, <1>5, <1>11
  <2>1. Stored(e) = {}
    <3>1. SUFFICES ASSUME NEW i \in 1 .. Len(log), SameKey(log[i], e) PROVE FALSE
      BY DEF Stored
    <3>2. log[i].type = e.type /\ log[i].version = column /\ Later(log[i])
      BY <1>4, <1>7, <2>0, <3>1 DEF SameKey, Later
    <3> QED
      BY <1>3, <1>4, <1>6, <2>0, <3>2 DEF Attempt
  <2>2. PICK n : n = Len(log)
    OBVIOUS
  <2>3. /\ SequenceOf(e) = n + 1 /\ Len(log') = n + 1 /\ n \in Nat /\ log'[n + 1] = e
        /\ \A i \in 1 .. n : log'[i] = log[i]
        /\ Move(e) => PhaseAt(log', n + 1, e.to)
        /\ \A p : ~Move(e) /\ PhaseAt(log, n, p) => PhaseAt(log', n + 1, p)
        /\ \A f, v : ~PatchOn(e, f) /\ ValueAt(log, n, f, v) => ValueAt(log', n + 1, f, v)
    BY <1>3, <2>1, <2>2, Appended
  <2>4. ASSUME NEW f \in Field, f # k.req.field
        PROVE  ValueAt(log', Len(log'), f, FieldsOf(k)[f])
    <3>1. ValueAt(log, n, f, FieldsOf(s)[f])
      BY <1>3, <1>6, <2>0, <2>2, <2>4 DEF Attempt
    <3>2. ~PatchOn(e, f)
      BY <1>4 DEF PatchOn
    <3> QED
      BY <1>5, <2>3, <3>1, <3>2
  <2>5. CASE s.pc = "trail"
    <3>1. k.pc = "entered" /\ Move(e)
      BY <1>3, <1>4, <2>5 DEF Move
    <3>2. ASSUME NEW i \in 1 .. Len(log'), log'[i].type \in {"entered", "patched"}
          PROVE  log'[i].version # column
      <4>1. i \in 1 .. n
        BY <1>4, <2>3, <2>5, <3>2
      <4>2. log'[i] = log[i] /\ Later(log[i])
        BY <2>3, <3>2, <4>1 DEF Later
      <4> QED
        BY <1>6, <2>0, <2>2, <2>5, <4>1, <4>2 DEF Attempt
    <3> QED
      BY <1>3, <1>4, <2>3, <2>4, <3>1, <3>2
  <2>6. CASE s.pc = "entered"
    <3>1. k.pc = "patch" /\ ~Move(e)
      BY <1>3, <1>4, <2>6 DEF Move
    <3>2. ASSUME NEW i \in 1 .. Len(log'), log'[i].type = "patched"
          PROVE  log'[i].version # column
      <4>1. i \in 1 .. n
        BY <1>4, <2>3, <2>6, <3>2
      <4>2. log'[i] = log[i]
        BY <2>3, <4>1
      <4> QED
        BY <1>6, <2>0, <2>2, <2>6, <3>2, <4>1, <4>2 DEF Attempt
    <3>3. PhaseAt(log, n, s.req.target)
      BY <1>6, <2>0, <2>2, <2>6 DEF Attempt
    <3>4. PhaseAt(log', Len(log'), k.base.phase)
      BY <1>5, <2>3, <2>6, <3>1, <3>3
    <3> QED
      BY <1>3, <2>3, <2>4, <3>1, <3>2, <3>4
  <2> QED
    BY <1>3, <2>5, <2>6
<1>12. k.pc \in {"entered", "patch"}
  BY <1>3
<1> QED
  BY <1>9, <1>10, <1>11, <1>12 DEF Attempt

LEMMA PatchesAttempt ==
  ASSUME Basis, RepairInv, OneSet', NEW c \in Setter, NEW k, Step(c, k), Patches(c, k)
  PROVE  /\ Attempt(log', k, column)
         /\ \A i \in 1 .. Len(log') : i > Len(log) =>
              /\ ~Later(log'[i]) => i = 1 /\ log'[i] = Started
              /\ Later(log'[i]) => doc # None /\ c \in Setter /\ Asks(k, log'[i])
<1>1. PICK e : e = PatchOf(call[c])
  OBVIOUS
<1>2. PICK s : s = call[c]
  OBVIOUS
<1>3. /\ c \in Caller /\ s.pc = "patch" /\ AppendKeyed(e) /\ e \in Event
      /\ log \in Seq(Event) /\ Longer(log, log') /\ s \in CallState /\ Placed(c)
      /\ k.req = s.req /\ k.expected = s.expected /\ k.base = s.base /\ k.pc = "write"
      /\ k.seq = IF SequenceOf(e) > s.seq THEN SequenceOf(e) ELSE s.seq
      /\ s.req.field # None /\ s.req \in Request
  BY <1>1, <1>2, StepCalls, LogGrows, EventsTyped, WorkflowAssumption
  DEF Patches, Basis, TypeOK, WorkflowAssumption
<1>4. e.version = s.expected /\ e.type = "patched" /\ e.field = s.req.field
      /\ e.value = s.req.value
  BY <1>1, <1>2 DEF PatchOf, Patched
<1>5. /\ FieldsOf(k) = FieldsOf(s) /\ s.base.version \in Nat /\ s.expected \in Nat /\ s.seq \in Nat
      /\ FieldsOf(s)[s.req.field] = s.req.value
  BY <1>3 DEF CallState, Document, FieldsOf, Request
<1>6. Attempt(log, s, column) /\ s.pc \in Working /\ k.pc \in Working
  BY <1>2, <1>3 DEF RepairInv, Working
<1>7. Later(e) /\ Asks(s, e)
  <2>1. s.req # None
    BY <1>3, NoneApart
  <2> QED
    BY <1>3, <1>4, <2>1 DEF Later, Asks
<1>8. \A i \in 1 .. Len(log') : i > Len(log) => log'[i] = e
  BY <1>3, AppendGrows
<1>9. /\ \A i \in 1 .. Len(log') : Later(log'[i]) =>
           log'[i].version < column \/ (k.pc \in Working /\ log'[i].version = k.expected)
      /\ \A i \in 1 .. Len(log') : i > Len(log) =>
           /\ ~Later(log'[i]) => i = 1 /\ log'[i] = Started
           /\ Later(log'[i]) => doc # None /\ c \in Setter /\ Asks(k, log'[i])
  BY <1>2, <1>3, <1>4, <1>6, <1>7, <1>8, AppendVersions
<1>10. k.expected <= column /\ k.base.version <= column /\ k.seq <= Len(log')
  <2>1. SequenceOf(e) \in 1 .. Len(log')
    BY <1>3, AppendGrows
  <2>2. s.seq <= Len(log')
    BY <1>3, <1>5, <1>6 DEF Attempt, Longer
  <2> QED
    BY <1>3, <1>5, <1>6, <2>1, <2>2 DEF Attempt
<1>11. ASSUME k.expected = column, k.base.es
       PROVE  /\ \A f \in Field : ValueAt(log', Len(log'), f, FieldsOf(k)[f])
              /\ PhaseAt(log', Len(log'), k.base.phase)
              /\ k.seq = Len(log')
  <2>0. s.expected = column /\ s.base.es
    BY <1>3, <1>5, <1>11
  <2>1. Stored(e) = {}
    <3>1. SUFFICES ASSUME NEW i \in 1 .. Len(log), SameKey(log[i], e) PROVE FALSE
      BY DEF Stored
    <3>2. log[i].type = "patched" /\ log[i].version = column
      BY <1>4, <2>0, <3>1 DEF SameKey
    <3> QED
      BY <1>3, <1>6, <2>0, <3>2 DEF Attempt
  <2>2. PICK n : n = Len(log)
    OBVIOUS
  <2>3. /\ SequenceOf(e) = n + 1 /\ Len(log') = n + 1 /\ n \in Nat /\ log'[n + 1] = e
        /\ \A p : ~Move(e) /\ PhaseAt(log, n, p) => PhaseAt(log', n + 1, p)
        /\ \A f : PatchOn(e, f) => ValueAt(log', n + 1, f, e.value)
        /\ \A f, v : ~PatchOn(e, f) /\ ValueAt(log, n, f, v) => ValueAt(log', n + 1, f, v)
    BY <1>3, <2>1, <2>2, Appended
  <2>4. ASSUME NEW f \in Field
        PROVE  ValueAt(log', Len(log'), f, FieldsOf(k)[f])
    <3>1. CASE f = s.req.field
      <4>1. PatchOn(e, f)
        BY <1>4, <3>1 DEF PatchOn
      <4> QED
        BY <1>4, <1>5, <2>3, <3>1, <4>1
    <3>2. CASE f # s.req.field
      <4>1. ValueAt(log, n, f, FieldsOf(s)[f])
        BY <1>3, <1>6, <2>0, <2>2, <3>2 DEF Attempt
      <4>2. ~PatchOn(e, f)
        BY <1>4, <3>2 DEF PatchOn
      <4> QED
        BY <1>5, <2>3, <4>1, <4>2
    <3> QED
      BY <3>1, <3>2
  <2>5. PhaseAt(log, n, s.base.phase) /\ ~Move(e)
    BY <1>3, <1>4, <1>6, <2>0, <2>2 DEF Attempt, Move
  <2>6. PhaseAt(log', Len(log'), k.base.phase)
    BY <1>3, <2>3, <2>5
  <2>7. s.seq <= n
    BY <1>6, <2>2 DEF Attempt
  <2>8. k.seq = Len(log')
    BY <1>3, <1>5, <2>3, <2>7
  <2> QED
    BY <2>4, <2>6, <2>8
<1> QED
  BY <1>3, <1>9, <1>10, <1>11 DEF Attempt

LEMMA RepairSets ==
  ASSUME Basis, RepairInv, OneSet', NEW c \in Setter, NEW k, Step(c, k), SetTurn(c, k)
  PROVE  RepairInv'
<1>0. /\ c \in Caller /\ c \notin Initializer /\ c \notin Reconciler /\ Placed(c)
      /\ Attempt(log, call[c], column) /\ call[c] \in CallState /\ column \in Nat
      /\ log \in Seq(Event) /\ Len(log) \in Nat
  BY StepCalls DEF RepairInv, Basis, TypeOK
<1>1. ASSUME Stays, Attempt(log, k, column)
      PROVE  RepairInv'
  BY <1>0, <1>1, RepairStays
<1>2. ASSUME UNCHANGED <<doc, column>>, doc # None, Attempt(log', k, column),
             \A i \in 1 .. Len(log') : i > Len(log) =>
              /\ ~Later(log'[i]) => i = 1 /\ log'[i] = Started
              /\ Later(log'[i]) => doc # None /\ c \in Setter /\ Asks(k, log'[i])
      PROVE  RepairInv'
  <2>1. doc' = doc /\ column' = column /\ Longer(log, log')
    BY <1>2, LogGrows
  <2>2. doc' # None =>
          HasStart(log') /\ doc'.version <= column' /\ (doc'.es => Reflects(log', doc'))
    <3>1. HasStart(log) /\ doc.version <= column /\ (doc.es => Reflects(log, doc))
      BY <1>2 DEF RepairInv
    <3>2. HasStart(log') /\ (doc.es => Reflects(log', doc))
      BY <2>1, <3>1, HasMoveStays, ReflectsStays
    <3> QED
      BY <2>1, <3>1, <3>2
  <2>3. column' \in {column, column + 1} /\ (doc # None => doc' # None)
    BY <2>1
  <2>4. \A i \in 1 .. Len(log') : i > Len(log) =>
          /\ ~Later(log'[i]) => i = 1 /\ log'[i] = Started
          /\ Later(log'[i]) => doc' # None /\ c \in Setter /\ Asks(k, log'[i])
    BY <1>2, <2>1
  <2>5. Attempt(log', k, column')
    BY <1>2, <2>1
  <2> QED
    BY <1>0, <2>2, <2>3, <2>4, <2>5, RepairFrame
<1>3. CASE Begins(c, k)
  BY <1>1, <1>3, BeginsAttempt DEF Begins
<1>4. CASE Takes(c, k)
  BY <1>1, <1>4, TakesAttempt DEF Takes
<1>5. CASE Trails(c, k)
  <2>1. doc # None
    BY <1>0, <1>5 DEF Trails, Placed, Working
  <2> QED
    BY <1>2, <1>5, <2>1, TrailsAttempt DEF Trails
<1>6. CASE Patches(c, k)
  <2>1. doc # None
    BY <1>0, <1>6 DEF Patches, Placed, Working
  <2> QED
    BY <1>2, <1>6, <2>1, PatchesAttempt DEF Patches
<1>7. CASE Skips(c, k)
  <2>1. /\ Stays /\ k.pc = "write" /\ k.req = call[c].req /\ k.base = call[c].base
        /\ k.seq = call[c].seq /\ k.expected = call[c].expected /\ call[c].pc = "patch"
        /\ call[c].base.es => call[c].req.field = None
        /\ FieldsOf(k) = FieldsOf(call[c])
    BY <1>7 DEF Skips, Same, FieldsOf
  <2>2. \A f \in Field : f # None
    BY NoneApart
  <2>3. Attempt(log, k, column)
    BY <1>0, <2>1, <2>2 DEF Attempt, Working
  <2> QED
    BY <1>1, <2>1, <2>3
<1>8. CASE Writes(c, k)
  <2>1. /\ call[c].pc = "write" /\ column = call[c].expected /\ doc' = Written(c)
        /\ column' = column + 1 /\ log' = log /\ k.pc = "done" /\ doc # None
        /\ call[c].base.version <= column
    BY <1>0, <1>8 DEF Writes, Put, Placed, Attempt, Working
  <2>2. /\ Written(c) \in Document /\ Written(c).version = call[c].base.version + 1
        /\ Written(c).phase = call[c].base.phase /\ Written(c).es = call[c].base.es
        /\ Written(c).fields = FieldsOf(call[c])
        /\ Written(c).at = IF call[c].seq = 0 THEN call[c].base.at ELSE call[c].seq
    BY <1>0, <2>1, WrittenIs
  <2>3. doc' # None /\ HasStart(log) /\ doc'.version <= column + 1
    <3>1. call[c].base.version \in Nat
      BY <1>0 DEF CallState, Document
    <3> QED
      BY <1>0, <2>1, <2>2, <3>1, NoneApart DEF RepairInv
  <2>4. ASSUME doc'.es PROVE Reflects(log, doc')
    <3>1. /\ call[c].seq = Len(log) /\ PhaseAt(log, Len(log), call[c].base.phase)
          /\ \A f \in Field : ValueAt(log, Len(log), f, FieldsOf(call[c])[f])
      BY <1>0, <2>1, <2>2, <2>4 DEF Attempt, Working
    <3>2. 1 \in 1 .. Len(log)
      BY <1>0, <2>3, StartFirst
    <3>3. doc'.at = Len(log) /\ Len(log) \in 1 .. Len(log)
      BY <1>0, <2>1, <2>2, <3>1, <3>2
    <3> QED
      BY <2>1, <2>2, <3>1, <3>3 DEF Reflects
  <2> QED
    BY <2>1, <2>3, <2>4, RepairWrites
<1>9. CASE Retries(c, k)
  <2>1. /\ Stays /\ k.pc = "read" /\ call[c].pc = "write" /\ column # call[c].expected
    BY <1>9 DEF Retries
  <2>2. call[c].expected \in Nat /\ call[c].expected <= column
    BY <1>0, <2>1 DEF Attempt, Working, CallState
  <2>3. ASSUME NEW i \in 1 .. Len(log), Later(log[i]) PROVE log[i].version < column
    <3>1. log[i].version < column \/ log[i].version = call[c].expected
      BY <1>0, <2>1, <2>3 DEF Attempt, Working
    <3> QED
      BY <1>0, <2>1, <2>2, <3>1
  <2>4. Attempt(log, k, column)
    BY <2>1, <2>3 DEF Attempt, Working
  <2> QED
    BY <1>1, <2>1, <2>4
<1>10. CASE Ends(c, k)
  <2>1. Attempt(log, k, column)
    BY <1>10 DEF Ends, Attempt, Working
  <2> QED
    BY <1>1, <1>10, <2>1 DEF Ends
<1> QED
  BY <1>3, <1>4, <1>5, <1>6, <1>7, <1>8, <1>9, <1>10 DEF SetTurn

LEMMA RepairReconciles ==
  ASSUME Basis, RepairInv, OneSet', NEW c \in Reconciler, NEW k, Step(c, k), ReconcileTurn(c, k)
  PROVE  RepairInv'
<1>0. /\ c \in Caller /\ c \notin Initializer /\ c \notin Setter /\ Placed(c)
      /\ call[c] \in CallState /\ call[c].base \in Document /\ column \in Nat
      /\ log \in Seq(Event) /\ Len(log) \in Nat /\ \A i \in 1 .. Len(log) : Whole(log[i])
  BY StepCalls, CallersAssumption
  DEF Basis, TypeOK, CallState, CallersAssumption, Caller
<1>1. /\ call[c].pc = "create" => HasStart(log)
      /\ call[c].pc \in Folding =>
           /\ call[c].base.version <= column
           /\ call[c].base.es => Reflects(log, call[c].base)
           /\ doc # None
      /\ doc # None => HasStart(log) /\ doc.version <= column /\ (doc.es => Reflects(log, doc))
  BY <1>0 DEF RepairInv, Placed
<1>2. ASSUME Stays, k.pc = "create" => HasStart(log),
             k.pc \in Folding =>
               k.base.version <= column /\ (k.base.es => Reflects(log, k.base))
      PROVE  RepairInv'
  BY <1>0, <1>2, RepairStays
<1>3. CASE Opens(c, k)
  <2>1. CASE doc # None /\ k.pc = "query" /\ k.base = doc
    BY <1>1, <1>2, <1>3, <2>1 DEF Opens
  <2>2. CASE doc = None /\ Stored(Started) # {} /\ k.pc = "create"
    <3>1. HasStart(log)
      BY <2>2 DEF Stored, HasStart
    <3> QED
      BY <1>2, <1>3, <2>2, <3>1 DEF Opens, Folding
  <2>3. CASE k.pc = "done"
    BY <1>2, <1>3, <2>3 DEF Opens, Folding
  <2> QED
    BY <1>3, <2>1, <2>2, <2>3 DEF Opens
<1>4. CASE Founds(c, k)
  <2>1. PICK d : d = [NoDoc EXCEPT !.version = 1]
    OBVIOUS
  <2>2. /\ log' = log /\ doc' = d /\ column = 0 /\ column' = column + 1
        /\ k.pc = "query" /\ k.base = d /\ HasStart(log)
    BY <1>1, <1>4, <2>1 DEF Founds, Put
  <2>3. d \in Document /\ d.version = 1
    BY <2>1, CreatedIs
  <2>4. d.es = FALSE
    BY <2>1, NoDocTyped DEF NoDoc
  <2> QED
    BY <1>0, <2>2, <2>3, <2>4, NoneApart, RepairWrites
<1>5. CASE Folds(c, k)
  <2>1. Stays /\ call[c].pc = "query" /\ k.pc = "merge" /\ k.base = Folded(call[c].base)
    BY <1>5 DEF Folds
  <2>2. /\ Folded(call[c].base).version = call[c].base.version
        /\ Folded(call[c].base).es = call[c].base.es
    BY <1>0, FoldedTyped
  <2>3. call[c].base.es => Reflects(log, Folded(call[c].base))
    BY <1>0, <1>1, <2>1, FoldReflects DEF Folding
  <2> QED
    BY <1>1, <1>2, <2>1, <2>2, <2>3 DEF Folding
<1>6. CASE Merges(c, k)
  <2>1. /\ log' = log /\ doc' = Merged(c) /\ column' = column + 1 /\ k.pc = "done"
        /\ call[c].pc \in Folding
    BY <1>6 DEF Merges, Put, Folding
  <2>2. /\ Merged(c) \in Document /\ Merged(c).version = call[c].base.version + 1
        /\ Merged(c).phase = call[c].base.phase /\ Merged(c).es = call[c].base.es
        /\ Merged(c).fields = call[c].base.fields /\ Merged(c).at = call[c].base.at
    BY <1>0, MergedIs
  <2>3. doc' # None /\ HasStart(log) /\ doc'.version <= column + 1
    <3>1. call[c].base.version \in Nat
      BY <1>0 DEF Document
    <3> QED
      BY <1>0, <1>1, <2>1, <2>2, <3>1, NoneApart
  <2>4. doc'.es => Reflects(log, doc')
    BY <1>1, <2>1, <2>2 DEF Reflects
  <2> QED
    BY <2>1, <2>3, <2>4, RepairWrites
<1>7. CASE Defers(c, k)
  <2>1. call[c].pc \in Folding /\ k.base = call[c].base /\ Stays /\ k.pc # "create"
    BY <1>7 DEF Defers, Folding
  <2> QED
    BY <1>1, <1>2, <2>1
<1>8. CASE Ends(c, k)
  BY <1>2, <1>8 DEF Ends, Folding
<1> QED
  BY <1>3, <1>4, <1>5, <1>6, <1>7, <1>8 DEF ReconcileTurn

\* A set call that has begun stays begun: one set call now was one before.
LEMMA OneSetEarlier ==
  ASSUME Basis, NEW c, NEW k, Step(c, k), OneSet'
  PROVE  OneSet
<1>1. /\ c \in Caller /\ call'[c] = k /\ k.pc # "idle"
      /\ \A o \in Caller : o # c => call'[o] = call[o]
  BY StepCalls, StepBegun
<1>2. \A o \in Setter : call[o].pc # "idle" => call'[o].pc # "idle"
  BY <1>1 DEF Caller
<1> QED
  BY <1>2 DEF OneSet

\* The set calls that have begun, and that they are finitely many.
Begun == {c \in Setter : call[c].pc # "idle"}

RepairedInv == Basis /\ IsFiniteSet(Begun) /\ (OneSet => RepairInv)

LEMMA InitRepaired == Init => RepairedInv
<1> SUFFICES ASSUME Init PROVE RepairedInv
  OBVIOUS
<1>1. log = <<>> /\ doc = None /\ \A c \in Caller : call[c].pc = "idle"
  BY DEF Init
<1>2. RepairInv
  BY <1>1 DEF RepairInv, Attempt, Working, Folding, Caller
<1>3. Begun = {}
  BY <1>1 DEF Begun, Caller
<1> QED
  BY <1>2, <1>3, InitBasis, FS_EmptySet DEF RepairedInv

LEMMA NextRepaired == ASSUME RepairedInv, [Next]_vars PROVE RepairedInv'
<1>0. Basis'
  BY NextBasis DEF RepairedInv
<1>1. CASE UNCHANGED vars
  BY <1>0, <1>1 DEF vars, RepairedInv, Begun, OneSet, RepairInv
<1>2. ASSUME NEW c, NEW k, Step(c, k)
      PROVE  IsFiniteSet(Begun')
  <2>1. /\ c \in Caller /\ call'[c] = k /\ k.pc # "idle"
        /\ \A o \in Caller : o # c => call'[o] = call[o]
    BY <1>2, StepCalls, StepBegun DEF RepairedInv
  <2>2. Begun' \subseteq Begun \cup {c}
    BY <2>1 DEF Begun, Caller
  <2>3. IsFiniteSet(Begun \cup {c})
    BY FS_AddElement DEF RepairedInv
  <2> QED
    BY <2>2, <2>3, FS_Subset
<1>3. ASSUME NEW c, NEW k, Step(c, k), OneSet'
      PROVE  RepairInv'
  <2>1. Basis /\ RepairInv
    BY <1>3, OneSetEarlier DEF RepairedInv
  <2>2. CASE c \in Initializer /\ InitTurn(c, k)
    <3>1. CASE Ends(c, k)
      BY <1>3, <2>1, <2>2, <3>1, RepairStays, CallersAssumption DEF Ends, CallersAssumption
    <3> QED
      BY <1>3, <2>1, <2>2, <3>1, RepairStarts, RepairCreates DEF InitTurn
  <2> QED
    BY <1>3, <2>1, <2>2, RepairSets, RepairReconciles DEF Step
<1> QED
  BY <1>0, <1>1, <1>2, <1>3, Steps DEF RepairedInv

\* A document that reflects the whole log is the fold of the log.
LEMMA ReflectsIsFold ==
  ASSUME Basis, doc # None, Reflects(log, doc), doc.at = Len(log)
  PROVE  IsFold
<1> DEFINE new == (NoDoc.at + 1) .. Len(log)
           moves == {i \in new : log[i].type \in {"started", "transition"}}
           patches(f) == {i \in new : log[i].type = "patched" /\ log[i].field = f}
           phase == IF moves = {} THEN NoDoc.phase ELSE log[Latest(moves)].to
           fields == [f \in Field |-> IF patches(f) = {} THEN NoDoc.fields[f]
                                      ELSE log[Latest(patches(f))].value]
<1>1. /\ Len(log) \in Nat /\ new = 1 .. Len(log) /\ doc.fields \in [Field -> Value \cup {None}]
  <2>1. NoDoc.at = 0
    BY DEF NoDoc
  <2>2. doc.fields \in [Field -> Value \cup {None}]
    BY DEF Document, Basis, TypeOK
  <2> QED
    BY <2>1, <2>2 DEF Basis, TypeOK
<1>2. Folded(NoDoc).phase = phase /\ Folded(NoDoc).fields = fields
  BY NoDocTyped DEF Folded, Document
<1>3. phase = doc.phase
  <2>1. PICK m \in 1 .. Len(log) :
          /\ Move(log[m]) /\ log[m].to = doc.phase
          /\ \A i \in 1 .. Len(log) : i > m => ~Move(log[i])
    BY DEF Reflects, PhaseAt
  <2>a. m \in moves /\ moves \in SUBSET (1 .. Len(log))
    BY <1>1, <2>1 DEF Move
  <2>b. \A i \in moves : i \in 1 .. Len(log) /\ ~(i > m)
    BY <1>1, <2>1 DEF Move
  <2>c. \A i \in moves : i <= m
    <3> HIDE DEF moves
    <3> QED
      BY <1>1, <2>1, <2>b
  <2>2. m \in moves /\ moves \in SUBSET (1 .. Len(log)) /\ \A i \in moves : i <= m
    BY <2>a, <2>c
  <2>3. Latest(moves) \in moves /\ m <= Latest(moves)
    <3> HIDE DEF moves
    <3> QED
      BY <1>1, <2>2, LatestIs
  <2>4. Latest(moves) = m
    <3> HIDE DEF moves
    <3>1. Latest(moves) \in 1 .. Len(log) /\ m \in 1 .. Len(log) /\ Latest(moves) <= m
      BY <2>2, <2>3
    <3> QED
      BY <1>1, <2>3, <3>1
  <2> QED
    BY <2>1, <2>2, <2>4
<1>4. ASSUME NEW f \in Field PROVE fields[f] = doc.fields[f]
  <2> DEFINE ps == patches(f)
  <2>1. PICK m \in 0 .. Len(log) :
          /\ IF m = 0 THEN doc.fields[f] = None
                      ELSE PatchOn(log[m], f) /\ log[m].value = doc.fields[f]
          /\ \A i \in 1 .. Len(log) : i > m => ~PatchOn(log[i], f)
    BY DEF Reflects, ValueAt
  <2>a. ps \in SUBSET (1 .. Len(log)) /\ \A i \in ps : PatchOn(log[i], f)
    BY <1>1 DEF PatchOn
  <2>b. \A i \in ps : i \in 1 .. Len(log) /\ ~(i > m)
    <3> HIDE DEF ps
    <3> QED
      BY <2>1, <2>a
  <2>c. \A i \in ps : i <= m
    <3> HIDE DEF ps
    <3> QED
      BY <1>1, <2>1, <2>b
  <2>2. /\ ps \in SUBSET (1 .. Len(log)) /\ \A i \in ps : PatchOn(log[i], f)
        /\ \A i \in ps : i <= m
    BY <2>a, <2>c
  <2>3. fields[f] = IF ps = {} THEN NoDoc.fields[f] ELSE log[Latest(ps)].value
    OBVIOUS
  <2>4. CASE m = 0
    <3>1. ps = {}
      <4> HIDE DEF ps
      <4> QED
        BY <1>1, <2>2, <2>4
    <3> QED
      BY <2>1, <2>3, <2>4, <3>1 DEF NoDoc
  <2>5. CASE m # 0
    <3>0. m \in 1 .. Len(log) /\ PatchOn(log[m], f)
      BY <1>1, <2>1, <2>5
    <3>1. m \in ps
      BY <1>1, <3>0 DEF PatchOn
    <3> HIDE DEF ps, fields
    <3>2. Latest(ps) \in ps /\ m <= Latest(ps)
      BY <1>1, <2>2, <3>1, LatestIs
    <3>3. Latest(ps) \in 1 .. Len(log) /\ Latest(ps) <= m
      BY <2>2, <3>2
    <3>4. Latest(ps) = m
      BY <1>1, <3>0, <3>2, <3>3
    <3> QED
      BY <2>1, <2>3, <2>5, <3>1, <3>4
  <2> QED
    BY <2>4, <2>5
<1>5. fields = doc.fields
  BY <1>1, <1>4
<1> QED
  BY <1>2, <1>3, <1>5 DEF IsFold

\* Whatever one set call left in the log when it failed, gave up or died, a document
\* that claims to reflect the whole log is the fold of the log, with any number of
\* reconciles at work: nothing of the set is lost, and nothing is kept that the log
\* does not say.
THEOREM RepairedIsFold == Spec => []CaughtUpIsFold
<1>1. RepairedInv => CaughtUpIsFold
  <2> SUFFICES ASSUME RepairedInv, doc # None, doc.es, doc.at = Len(log),
                      Cardinality({c \in Setter : call[c].pc # "idle"}) <= 1
               PROVE  IsFold
    BY DEF CaughtUpIsFold
  <2>1. IsFiniteSet(Begun) /\ Cardinality(Begun) <= 1
    BY DEF RepairedInv, Begun
  <2>2. OneSet
    <3> SUFFICES ASSUME NEW c \in Begun, NEW o \in Begun, c # o PROVE FALSE
      BY DEF OneSet, Begun
    <3>1. IsFiniteSet(Begun \ {c}) /\ Cardinality(Begun \ {c}) = Cardinality(Begun) - 1
      BY <2>1, FS_RemoveElement
    <3>2. IsFiniteSet((Begun \ {c}) \ {o})
          /\ Cardinality((Begun \ {c}) \ {o}) = Cardinality(Begun \ {c}) - 1
      BY <3>1, FS_RemoveElement
    <3>3. Cardinality(Begun) \in Nat /\ Cardinality((Begun \ {c}) \ {o}) \in Nat
      BY <2>1, <3>2, FS_CardinalityType
    <3> QED
      BY <2>1, <3>1, <3>2, <3>3
  <2> QED
    BY <2>2, ReflectsIsFold DEF RepairedInv, RepairInv
<1> QED
  BY <1>1, InitRepaired, NextRepaired, PTL DEF Spec
=============================================================================
