---------------------------- MODULE Subscriptions ----------------------------
(***************************************************************************)
(* One subscription of events/subscriptions.ts: a cursor per stream over    *)
(* the committed log, drained by two wakes.  Tier 1 is the post-commit hook *)
(* of the appender in the same process, tier 2 a poll loop that drains when *)
(* PRAGMA data_version moved, which only a foreign commit does.             *)
(*                                                                          *)
(* The subscribing process is one JavaScript thread: registration, a drain  *)
(* and a delivery are synchronous, so own commits and timer ticks wait for  *)
(* them.  A foreign process commits between any two reads.                  *)
(*                                                                          *)
(* Abstracted: payloads (an event matches eventTypes or not), telemetry,    *)
(* the interval.  The re-run flag is left out: a listener is synchronous    *)
(* and every hook fires from a promise continuation, so no wake comes while *)
(* a drain runs.                                                            *)
(***************************************************************************)
EXTENDS GlobalOrder, FiniteSets

CONSTANTS
  Stream,       \* stream ids, as localeCompare ranks them
  MaxWrites,    \* bound: events committed and streams deleted
  MaxTime,      \* bound: timestamps
  Match,        \* whether an event is of the filter's eventTypes: may be, or is
  MaxFaults,    \* bound: reads that throw in wakes, and elsewhere
  None          \* no stream filter, no cursor entry

ASSUME BoundsAssumption ==
  MaxWrites \in Nat /\ MaxTime \in Nat /\ MaxFaults \in Nat

ASSUME StreamAssumption == Stream \subseteq Nat

ASSUME MatchAssumption == Match \subseteq BOOLEAN

ASSUME NoneAssumption == None \notin Nat

VARIABLES
  log,        \* log[s]: the committed events of s in sequence order
  gate,       \* gate[s]: the sequences row, 0 when absent
  gen,        \* gen[s]: how often s was deleted
  token,      \* data_version, as this connection reads it
  wakes,      \* wakes[s]: own commits to s whose hook has not run
  mode,       \* what the subscription is doing
  watch,      \* the streamId of the filter, None for every stream
  cursor,     \* cursor[s]: the last sequence read, None without an entry
  start,      \* start[s]: where the cursor of s began
  floor,      \* floorVersion
  drain,      \* the drain in progress
  delivered,  \* what the listener saw, in order
  budget

store == <<log, gate, gen, token>>
vars == <<store, wakes, mode, watch, cursor, start, floor, drain, delivered, budget>>

Event == [stream : Stream, gen : Nat, seq : Nat \ {0}, time : Nat, match : BOOLEAN]
Source == {"init", "wake", "tick"}

\* source: who asked; todo: streams still to read (or whose cursor is still to
\* be captured); batch: the events read; tails: pendingCursors, the sequence of the
\* last event read of a stream, None without one; base: floorVersion before the tick.
Drain == [source : Source, todo : SUBSET Stream, batch : Seq(Event),
          tails : [Stream -> Nat \cup {None}], base : Nat]
NoDrain == [source |-> "init", todo |-> {}, batch |-> <<>>,
            tails |-> [s \in Stream |-> None], base |-> 0]

TypeOK ==
  /\ log \in [Stream -> Seq(Event)]
  /\ gate \in [Stream -> Nat]
  /\ gen \in [Stream -> Nat]
  /\ token \in Nat
  /\ wakes \in [Stream -> Nat]
  /\ mode \in {"absent", "registering", "starting", "draining", "idle", "disposed",
               "failed"}
  /\ watch \in Stream \cup {None}
  /\ cursor \in [Stream -> Nat \cup {None}]
  /\ start \in [Stream -> [gen : Nat, seq : Nat]]
  /\ floor \in 0 .. token
  /\ drain \in Drain
  /\ delivered \in Seq(Event)
  /\ budget \in [writes : 0 .. MaxWrites, faults : 0 .. MaxFaults,
                 wakeFaults : 0 .. MaxFaults]

Init ==
  /\ log = [s \in Stream |-> <<>>]
  /\ gate = [s \in Stream |-> 0]
  /\ gen = [s \in Stream |-> 0]
  /\ token = 0
  /\ wakes = [s \in Stream |-> 0]
  /\ mode = "absent"
  /\ watch = None
  /\ cursor = [s \in Stream |-> None]
  /\ start = [s \in Stream |-> [gen |-> 0, seq |-> 0]]
  /\ floor = 0
  /\ drain = NoDrain
  /\ delivered = <<>>
  /\ budget = [writes |-> MaxWrites, faults |-> MaxFaults, wakeFaults |-> MaxFaults]

Watched == IF watch = None THEN Stream ELSE {watch}

\* listStreams reads the sequences table.
Known == {s \in Stream : gate[s] > 0}

\* The thread of the subscribing process runs nothing of the subscription.
ThreadFree == mode \in {"absent", "idle", "disposed", "failed"}

(***************************************************************************)
(* Commits.  The timestamp is the one the caller gives, or the clock as it   *)
(* was before the stream was locked: any.                                   *)
(***************************************************************************)
Insert(s) ==
  /\ budget.writes > 0
  /\ budget' = [budget EXCEPT !.writes = @ - 1]
  /\ \E t \in 0 .. MaxTime, m \in Match :
       log' = [log EXCEPT ![s] = Append(@, [stream |-> s, gen |-> gen[s], seq |-> gate[s] + 1,
                                            time |-> t, match |-> m])]
  /\ gate' = [gate EXCEPT ![s] = @ + 1]
  /\ UNCHANGED <<gen, mode, watch, cursor, start, floor, drain, delivered>>

ForeignCommit(s) == Insert(s) /\ token' = token + 1 /\ UNCHANGED wakes

OwnCommit(s) ==
  /\ ThreadFree
  /\ Insert(s)
  /\ wakes' = [wakes EXCEPT ![s] = @ + 1]
  /\ UNCHANGED token

\* Compaction deletes the stream, here or in another process; no hook fires.
DeleteStream(s) ==
  /\ budget.writes > 0
  /\ budget' = [budget EXCEPT !.writes = @ - 1]
  /\ log' = [log EXCEPT ![s] = <<>>]
  /\ gate' = [gate EXCEPT ![s] = 0]
  /\ gen' = [gen EXCEPT ![s] = @ + 1]
  /\ \/ token' = token + 1
     \/ ThreadFree /\ UNCHANGED token
  /\ UNCHANGED <<wakes, mode, watch, cursor, start, floor, drain, delivered>>

(***************************************************************************)
(* Registration: cursors, then the data_version baseline, then the initial  *)
(* drain, then the poll loop.                                               *)
(***************************************************************************)
Subscribe ==
  /\ mode = "absent"
  /\ mode' = "registering"
  /\ watch' \in Stream \cup {None}
  /\ drain' = [NoDrain EXCEPT !.todo = IF watch' = None THEN Known ELSE {watch'}]
  /\ UNCHANGED <<store, wakes, cursor, start, floor, delivered, budget>>

\* headSequence, or the fromSequence of the caller for a single stream.
Capture(s) ==
  /\ mode = "registering"
  /\ s \in drain.todo
  /\ drain' = [drain EXCEPT !.todo = @ \ {s}]
  /\ \E from \in {gate[s]} \cup (IF watch = None THEN {} ELSE 0 .. gate[s]) :
       /\ cursor' = [cursor EXCEPT ![s] = from]
       /\ start' = [start EXCEPT ![s] = [gen |-> gen[s], seq |-> from]]
  /\ UNCHANGED <<store, wakes, mode, watch, floor, delivered, budget>>

Baseline ==
  /\ mode = "registering"
  /\ drain.todo = {}
  /\ floor' = token
  /\ drain' = NoDrain
  /\ mode' = "starting"
  /\ UNCHANGED <<store, wakes, watch, cursor, start, delivered, budget>>

(***************************************************************************)
(* The two wakes.                                                           *)
(***************************************************************************)
Hook(s) ==
  /\ ThreadFree
  /\ wakes[s] > 0
  /\ wakes' = [wakes EXCEPT ![s] = @ - 1]
  /\ IF mode = "idle" /\ s \in Watched
       THEN /\ drain' = [NoDrain EXCEPT !.source = "wake"]
            /\ mode' = "starting"
       ELSE UNCHANGED <<drain, mode>>
  /\ UNCHANGED <<store, watch, cursor, start, floor, delivered, budget>>

\* A tick that sees the same token does nothing.
Tick ==
  /\ mode = "idle"
  /\ token # floor
  /\ floor' = token
  /\ drain' = [NoDrain EXCEPT !.source = "tick", !.base = floor]
  /\ mode' = "starting"
  /\ UNCHANGED <<store, wakes, watch, cursor, start, delivered, budget>>

(***************************************************************************)
(* drainOnce: read every stream, advance every cursor, deliver.             *)
(***************************************************************************)
StartDrain ==
  /\ mode = "starting"
  /\ drain' = [drain EXCEPT !.todo = IF watch # None THEN {watch}
                                     ELSE Known \cup {s \in Stream : cursor[s] # None}]
  /\ mode' = "draining"
  /\ UNCHANGED <<store, wakes, watch, cursor, start, floor, delivered, budget>>

After(s) == IF cursor[s] = None THEN 0 ELSE cursor[s]

\* The events of s past its cursor: sequence n is at position n.
Unread(s) == SubSeq(log[s], After(s) + 1, Len(log[s]))

\* MUTANT of Read: the cursor moves with the read, before the other reads.
ReadAdvances(s) ==
  /\ mode = "draining"
  /\ s \in drain.todo
  /\ drain' = [drain EXCEPT !.todo = @ \ {s}, !.batch = @ \o Unread(s)]
  /\ cursor' = IF Unread(s) = <<>> THEN cursor
               ELSE [cursor EXCEPT ![s] = Len(log[s])]
  /\ UNCHANGED <<store, wakes, mode, watch, start, floor, delivered, budget>>

\* MUTANT of Read: the pending cursor is that of the first event read.
ReadFirst(s) ==
  /\ mode = "draining"
  /\ s \in drain.todo
  /\ drain' = [drain EXCEPT !.todo = @ \ {s},
                            !.batch = @ \o Unread(s),
                            !.tails[s] = IF Unread(s) = <<>> THEN @ ELSE Unread(s)[1].seq]
  /\ UNCHANGED <<store, wakes, mode, watch, cursor, start, floor, delivered, budget>>

Read(s) ==
  /\ mode = "draining"
  /\ s \in drain.todo
  /\ LET rows == Unread(s)
     IN  drain' = [drain EXCEPT !.todo = @ \ {s},
                                !.batch = @ \o rows,
                                !.tails[s] = IF rows = <<>> THEN @ ELSE rows[Len(rows)].seq]
  /\ UNCHANGED <<store, wakes, mode, watch, cursor, start, floor, delivered, budget>>

\* A read in a wake throws, or one elsewhere.
Fault ==
  IF drain.source = "wake"
    THEN /\ budget.wakeFaults > 0
         /\ budget' = [budget EXCEPT !.wakeFaults = @ - 1]
    ELSE /\ budget.faults > 0
         /\ budget' = [budget EXCEPT !.faults = @ - 1]

\* MUTANT of ReadFault: a failed tick puts the token after its baseline.
ReadFaultOvershoots ==
  /\ mode \in {"registering", "starting", "draining"}
  /\ Fault
  /\ drain' = NoDrain
  /\ mode' = IF mode = "registering" \/ drain.source = "init" THEN "failed" ELSE "idle"
  /\ floor' = IF drain.source = "tick" THEN floor + 1 ELSE floor
  /\ UNCHANGED <<store, wakes, watch, cursor, start, delivered>>

\* A read throws.  The constructor throws it on, wake swallows it, and the tick
\* restores its baseline.  No cursor moves.
ReadFault ==
  /\ mode \in {"registering", "starting", "draining"}
  /\ Fault
  /\ drain' = NoDrain
  /\ mode' = IF mode = "registering" \/ drain.source = "init" THEN "failed" ELSE "idle"
  /\ floor' = IF drain.source = "tick" THEN drain.base ELSE floor
  /\ UNCHANGED <<store, wakes, watch, cursor, start, delivered>>

\* Every cursor moves past every event read, matching or not.
Advanced == [s \in Stream |-> IF drain.tails[s] = None THEN cursor[s] ELSE drain.tails[s]]

\* The events of a batch that match, in order: those among its first n, for every n.
Matching(events) ==
  LET first[n \in 0 .. Len(events)] ==
        IF n = 0 THEN <<>>
        ELSE IF events[n].match THEN Append(first[n - 1], events[n]) ELSE first[n - 1]
  IN  first[Len(events)]

\* MUTANT of Deliver: the baseline is read again after the drain.
DeliverRebases ==
  /\ mode = "draining"
  /\ drain.todo = {}
  /\ cursor' = Advanced
  /\ \E sorted \in Sorted(drain.batch) : delivered' = delivered \o Matching(sorted)
  /\ mode' = "idle"
  /\ drain' = NoDrain
  /\ floor' = token
  /\ UNCHANGED <<store, wakes, watch, start, budget>>

\* MUTANT of Deliver: the batch is delivered as it was read.
DeliverUnsorted ==
  /\ mode = "draining"
  /\ drain.todo = {}
  /\ cursor' = Advanced
  /\ delivered' = delivered \o Matching(drain.batch)
  /\ mode' = "idle"
  /\ drain' = NoDrain
  /\ UNCHANGED <<store, wakes, watch, start, floor, budget>>

\* The batch is sorted, then filtered.  The listener may dispose the subscription
\* after any event it gets, except in the initial drain, when it has no handle yet.
\* What it throws is ignored.
Deliver ==
  /\ mode = "draining"
  /\ drain.todo = {}
  /\ cursor' = Advanced
  /\ \E sorted \in Sorted(drain.batch) :
       LET batch == Matching(sorted)
       IN  \/ /\ delivered' = delivered \o batch
              /\ mode' = "idle"
           \/ /\ drain.source # "init"
              /\ \E n \in 1 .. Len(batch) : delivered' = delivered \o SubSeq(batch, 1, n)
              /\ mode' = "disposed"
  /\ drain' = NoDrain
  /\ UNCHANGED <<store, wakes, watch, start, floor, budget>>

\* The dispatch that registered it ends, or disposeAll.
Dispose ==
  /\ mode = "idle"
  /\ mode' = "disposed"
  /\ UNCHANGED <<store, wakes, watch, cursor, start, floor, drain, delivered, budget>>

-----------------------------------------------------------------------------

DrainStep == StartDrain \/ (\E s \in Stream : Read(s)) \/ Deliver

RegisterStep == (\E s \in Stream : Capture(s)) \/ Baseline

Quiet == ThreadFree /\ wakes = [s \in Stream |-> 0]

Finished == Quiet /\ mode # "absent" /\ budget.writes = 0 /\ UNCHANGED vars

Next ==
  \/ \E s \in Stream : ForeignCommit(s) \/ OwnCommit(s) \/ DeleteStream(s) \/ Hook(s)
  \/ Subscribe \/ RegisterStep \/ Tick \/ DrainStep \/ ReadFault \/ Dispose
  \/ Finished

Spec == Init /\ [][Next]_vars

(***************************************************************************)
(* The thread goes on with what it started, with its promise continuations  *)
(* and with the timer of the poll loop, whichever comes first.  Commits,     *)
(* subscriptions and disposals are free.                                     *)
(***************************************************************************)
ThreadStep == RegisterStep \/ DrainStep \/ Tick \/ \E s \in Stream : Hook(s)

Fairness == WF_vars(ThreadStep)

FairSpec == Spec /\ Fairness

(***************************************************************************)
(* Properties.                                                              *)
(***************************************************************************)
Subscribed == mode \in {"starting", "draining", "idle"}

\* The subscription owes event e: it matches and was committed after the cursor
\* of its stream began.
Owed(e) ==
  /\ e.match
  /\ e.stream \in Watched
  /\ \/ e.gen > start[e.stream].gen
     \/ e.gen = start[e.stream].gen /\ e.seq > start[e.stream].seq

WasDelivered(e) == \E i \in 1 .. Len(delivered) : delivered[i] = e

SameStream(e, f) == e.stream = f.stream /\ e.gen = f.gen

\* Whatever wakes, faults and foreign commits interleave, the listener gets no event
\* twice and none that it is not owed; and a subscription to one stream gets them in
\* the order of their sequences, also when timestamps go back.
InOrderOnce ==
  /\ \A i \in 1 .. Len(delivered) : Owed(delivered[i])
  /\ \A i, j \in 1 .. Len(delivered) :
       i < j /\ SameStream(delivered[i], delivered[j]) =>
         /\ delivered[i].seq # delivered[j].seq
         /\ watch # None => delivered[i].seq < delivered[j].seq

\* What a step hands to the listener.
Handed == SubSeq(delivered', Len(delivered) + 1, Len(delivered'))

\* An event handed over by a later drain is later in its stream: two wakes, or a wake
\* and a tick, never deliver a stream out of order between them.
LaterDrainsFollow ==
  [][\A i \in 1 .. Len(delivered), j \in 1 .. Len(Handed) :
       SameStream(delivered[i], Handed[j]) => delivered[i].seq < Handed[j].seq]_vars

\* When no timestamp of a stream goes back in the batch of a drain, the batch is
\* delivered by (timestamp, stream, sequence), in whatever order its streams were read.
GrowingInOrder == [][Growing(drain.batch) => InOrder(Handed)]_vars

\* subscriptions.ts:139: the batch of a drain is delivered in the global order, whatever
\* the timestamps of its events are.  The code does not keep it: two events of one stream
\* whose timestamps go back and one of another may give the comparator a cycle.
GlobalOrderKept == [][InOrder(Handed)]_vars

\* A cursor never passes an owed event that the listener has not seen: neither
\* registration nor a drain that fails halfway loses one.  (A stream that is
\* deleted under the cursor begins again below it.)
NothingSkipped ==
  Subscribed =>
    \A s \in Watched : \A i \in 1 .. Len(log[s]) :
      (/\ Owed(log[s][i])
       /\ log[s][i].gen = start[s].gen
       /\ log[s][i].seq <= After(s)) => WasDelivered(log[s][i])

\* No read threw in a wake.  subscriptions.ts swallows such an error, and
\* data_version does not count the own commit that woke it, so no tick drains
\* the event either.
NoWakeFailed == budget.wakeFaults = MaxFaults

\* The listener saw every event it is owed.  (Not in a stream that was deleted under its
\* cursor.)
CaughtUp ==
  \A s \in Stream :
    gen[s] = start[s].gen =>
      \A i \in 1 .. Len(log[s]) : Owed(log[s][i]) => WasDelivered(log[s][i])

\* Every owed event reaches the listener of a live subscription, also one that is
\* committed while registration or a drain runs, and although reads throw in
\* registration and in ticks: it catches up, as soon as the commits leave it time to.
EventuallyDelivered ==
  Subscribed ~> (mode \in {"disposed", "failed"} \/ ~NoWakeFailed \/ CaughtUp)
=============================================================================
