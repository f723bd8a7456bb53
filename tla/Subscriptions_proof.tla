------------------------- MODULE Subscriptions_proof -------------------------
(***************************************************************************)
(* What one subscription delivers and in which order, for any streams,      *)
(* timestamps, commits, deletions and faults.                               *)
(*                                                                          *)
(* The invariant relates three lists of one stream: the log, the batch of a *)
(* drain in progress and what the listener saw.  Between the start of the   *)
(* cursor and the cursor the listener saw all that matches; from the cursor *)
(* to the pending cursor the batch holds all; and nothing of the batch was  *)
(* seen before.  A deletion begins a new generation below the cursor, for   *)
(* which only the order and the debt are claimed.                           *)
(***************************************************************************)
EXTENDS Subscriptions, SequenceTheorems, WellFoundedInduction, TLAPS

-----------------------------------------------------------------------------
(***************************************************************************)
(* What a drain hands to the listener: the events of the batch that match,  *)
(* each once and in order.                                                  *)
(***************************************************************************)

\* A set of naturals that is not empty has a member whose predecessor is not in it.
LEMMA LeastOne ==
  ASSUME NEW S \in SUBSET Nat, S # {}
  PROVE  \E m \in S : m = 0 \/ (m # 0 /\ m - 1 \in Nat /\ m - 1 \notin S)
<1> DEFINE R == OpToRel(<, Nat)
<1>1. IsWellFoundedOn(R, Nat)
  BY NatLessThanWellFounded
<1>2. PICK m \in S : \A y \in S : <<y, m>> \notin R
  <2> HIDE DEF R
  <2> QED
    BY <1>1, WFMin
<1>3. ASSUME m # 0 PROVE m - 1 \in Nat /\ m - 1 \notin S
  <2>1. m \in Nat /\ m - 1 \in Nat /\ m - 1 < m
    BY <1>3
  <2>2. <<m - 1, m>> \in R
    BY <2>1 DEF R, OpToRel
  <2> QED
    BY <1>2, <2>1, <2>2
<1> QED
  BY <1>2, <1>3

\* g[n] is what matches among the first n events.
Firsts(g, events, m) ==
  g = [n \in 0 .. m |-> IF n = 0 THEN <<>>
                        ELSE IF events[n].match THEN Append(g[n - 1], events[n]) ELSE g[n - 1]]

LEMMA FirstsExist ==
  ASSUME NEW events, NEW m \in Nat
  PROVE  \E g : Firsts(g, events, m)
<1> DEFINE S == {n \in Nat : ~(\E g : Firsts(g, events, n))}
<1>1. 0 \notin S
  <2> DEFINE g == [n \in 0 .. 0 |-> <<>>]
  <2>1. Firsts(g, events, 0)
    BY DEF Firsts
  <2> QED
    BY <2>1
<1>2. ASSUME NEW n \in Nat, n # 0, n - 1 \in Nat, n - 1 \notin S
      PROVE  n \notin S
  <2>1. PICK g : Firsts(g, events, n - 1)
    BY <1>2
  <2> DEFINE h == [i \in 0 .. n |->
                     IF i = 0 THEN <<>>
                     ELSE IF events[i].match THEN Append(g[i - 1], events[i]) ELSE g[i - 1]]
  <2>2. ASSUME NEW i \in 0 .. n - 1 PROVE h[i] = g[i]
    <3>1. i \in 0 .. n /\ i \in 0 .. (n - 1)
      BY <1>2
    <3>2. g[i] = IF i = 0 THEN <<>>
                 ELSE IF events[i].match THEN Append(g[i - 1], events[i]) ELSE g[i - 1]
      BY <2>1, <3>1 DEF Firsts
    <3> QED
      BY <3>1, <3>2
  <2>3. \A i \in 0 .. n : i # 0 => i - 1 \in 0 .. n - 1
    BY <1>2
  <2>4. \A i \in 0 .. n : i # 0 => h[i - 1] = g[i - 1]
    <3> HIDE DEF h
    <3> QED
      BY <2>2, <2>3
  <2>5. Firsts(h, events, n)
    BY <2>4 DEF Firsts
  <2> HIDE DEF h
  <2> QED
    BY <2>5
<1>3. S = {}
  <2> SUFFICES ASSUME S # {} PROVE FALSE
    OBVIOUS
  <2>1. S \in SUBSET Nat
    OBVIOUS
  <2> HIDE DEF S
  <2>2. PICK n \in S : n = 0 \/ (n # 0 /\ n - 1 \in Nat /\ n - 1 \notin S)
    BY <2>1, LeastOne
  <2> QED
    BY <1>1, <1>2, <2>1, <2>2
<1> QED
  BY <1>3

\* m takes from the first n events those at the positions at, in order.
Takes(m, at, events, n) ==
  /\ m \in Seq(Event)
  /\ at \in [1 .. Len(m) -> 1 .. n]
  /\ \A k \in 1 .. Len(m) : m[k] = events[at[k]] /\ m[k].match
  /\ \A k, l \in 1 .. Len(m) : k < l => at[k] < at[l]

TakesAll(m, at, events, n) ==
  /\ Takes(m, at, events, n)
  /\ \A i \in 1 .. n : events[i].match => \E k \in 1 .. Len(m) : at[k] = i

LEMMA MatchingIs ==
  ASSUME NEW events \in Seq(Event)
  PROVE  \E at : TakesAll(Matching(events), at, events, Len(events))
<1>0. Len(events) \in Nat /\ \A i \in 1 .. Len(events) : events[i] \in Event
  OBVIOUS
<1>1. PICK g : Firsts(g, events, Len(events)) /\ Matching(events) = g[Len(events)]
  <2>1. \E g : Firsts(g, events, Len(events))
    BY <1>0, FirstsExist
  <2> QED
    BY <2>1 DEF Matching, Firsts
<1> DEFINE Good(n) == \E at : TakesAll(g[n], at, events, n)
           S == {n \in 0 .. Len(events) : ~Good(n)}
<1>2. 0 \notin S
  <2>1. g[0] = <<>>
    BY <1>0, <1>1 DEF Firsts
  <2> DEFINE at == [k \in 1 .. 0 |-> k]
  <2>2. Len(g[0]) = 0 /\ g[0] \in Seq(Event) /\ 1 .. 0 = {}
    BY <2>1
  <2>3. at \in [1 .. Len(g[0]) -> 1 .. 0]
    BY <2>2
  <2>4. TakesAll(g[0], at, events, 0)
    BY <2>2, <2>3 DEF TakesAll, Takes
  <2> QED
    BY <2>4
<1>3. ASSUME NEW n \in 1 .. Len(events), Good(n - 1) PROVE Good(n)
  <2>0. n \in Nat /\ n # 0 /\ n - 1 \in Nat /\ events[n] \in Event
    BY <1>0
  <2>1. g[n] = IF events[n].match THEN Append(g[n - 1], events[n]) ELSE g[n - 1]
    <3>1. n \in 0 .. Len(events)
      BY <1>0
    <3> QED
      BY <1>1, <2>0, <3>1 DEF Firsts
  <2>a. PICK old : TakesAll(g[n - 1], old, events, n - 1)
    BY <1>3
  <2>2. /\ g[n - 1] \in Seq(Event)
        /\ old \in [1 .. Len(g[n - 1]) -> 1 .. n - 1]
        /\ \A k \in 1 .. Len(g[n - 1]) : g[n - 1][k] = events[old[k]] /\ g[n - 1][k].match
        /\ \A k, l \in 1 .. Len(g[n - 1]) : k < l => old[k] < old[l]
        /\ \A i \in 1 .. n - 1 : events[i].match => \E k \in 1 .. Len(g[n - 1]) : old[k] = i
    BY <2>a DEF TakesAll, Takes
  <2>3. PICK len \in Nat : len = Len(g[n - 1])
    BY <2>2
  <2>4. CASE ~events[n].match
    <3>1. g[n] = g[n - 1] /\ old \in [1 .. len -> 1 .. n]
      BY <2>0, <2>1, <2>2, <2>3, <2>4
    <3>2. \A i \in 1 .. n : events[i].match => i \in 1 .. n - 1
      BY <2>0, <2>4
    <3>3. TakesAll(g[n], old, events, n)
      BY <2>2, <2>3, <3>1, <3>2 DEF TakesAll, Takes
    <3> QED
      BY <3>3
  <2>5. CASE events[n].match
    <3> DEFINE new == [k \in 1 .. len + 1 |-> IF k = len + 1 THEN n ELSE old[k]]
    <3>1. /\ g[n] = Append(g[n - 1], events[n]) /\ Len(g[n]) = len + 1
          /\ g[n] \in Seq(Event) /\ g[n][len + 1] = events[n]
          /\ \A k \in 1 .. len : g[n][k] = g[n - 1][k]
      BY <2>0, <2>1, <2>2, <2>3, <2>5
    <3>2. /\ \A k \in 1 .. len : k \in 1 .. len + 1 /\ k # len + 1
          /\ \A k \in 1 .. len + 1 : k = len + 1 \/ k \in 1 .. len
          /\ len + 1 \in 1 .. len + 1
      BY <2>3
    <3>3. /\ \A k \in 1 .. len : new[k] = old[k] /\ old[k] \in 1 .. n - 1
          /\ new[len + 1] = n
      BY <2>2, <2>3, <3>2
    <3>4. new \in [1 .. len + 1 -> 1 .. n]
      <4>0. \A i \in 1 .. n - 1 : i \in 1 .. n
        BY <2>0
      <4>1. \A k \in 1 .. len : old[k] \in 1 .. n
        BY <3>3, <4>0
      <4>2. n \in 1 .. n
        BY <2>0
      <4> QED
        BY <3>2, <4>1, <4>2
    <3> HIDE DEF new
    <3>5. \A k \in 1 .. len + 1 : g[n][k] = events[new[k]] /\ g[n][k].match
      BY <2>2, <2>3, <2>5, <3>1, <3>2, <3>3
    <3>6. \A k, l \in 1 .. len + 1 : k < l => new[k] < new[l]
      <4>1. SUFFICES ASSUME NEW k \in 1 .. len + 1, NEW l \in 1 .. len + 1, k < l
                     PROVE  new[k] < new[l]
        OBVIOUS
      <4>2. k \in 1 .. len
        BY <2>3, <4>1
      <4>3. CASE l \in 1 .. len
        BY <2>2, <2>3, <3>3, <4>1, <4>2, <4>3
      <4>4. CASE l = len + 1
        <5>1. new[k] \in 1 .. n - 1 /\ new[l] = n
          BY <3>3, <4>2, <4>4
        <5> QED
          BY <2>0, <5>1
      <4> QED
        BY <3>2, <4>3, <4>4
    <3>7. \A i \in 1 .. n : events[i].match => \E k \in 1 .. len + 1 : new[k] = i
      <4>1. SUFFICES ASSUME NEW i \in 1 .. n, events[i].match
                     PROVE  \E k \in 1 .. len + 1 : new[k] = i
        OBVIOUS
      <4>2. CASE i = n
        BY <3>2, <3>3, <4>2
      <4>3. CASE i # n
        <5>1. i \in 1 .. n - 1
          BY <2>0, <4>3
        <5> QED
          BY <2>2, <2>3, <3>2, <3>3, <4>1, <5>1
      <4> QED
        BY <4>2, <4>3
    <3>8. 1 .. Len(g[n]) = 1 .. len + 1
      BY <3>1
    <3>9. /\ new \in [1 .. Len(g[n]) -> 1 .. n]
          /\ \A k \in 1 .. Len(g[n]) : g[n][k] = events[new[k]] /\ g[n][k].match
          /\ \A k, l \in 1 .. Len(g[n]) : k < l => new[k] < new[l]
          /\ \A i \in 1 .. n : events[i].match => \E k \in 1 .. Len(g[n]) : new[k] = i
      BY <3>4, <3>5, <3>6, <3>7, <3>8
    <3>10. TakesAll(g[n], new, events, n)
      BY <3>1, <3>9 DEF TakesAll, Takes
    <3> QED
      BY <3>10
  <2> QED
    BY <2>4, <2>5
<1>4. S = {}
  <2> SUFFICES ASSUME S # {} PROVE FALSE
    OBVIOUS
  <2>1. /\ S \in SUBSET Nat /\ \A n \in S : n \in 0 .. Len(events) /\ ~Good(n)
        /\ \A n \in 0 .. Len(events) : n \notin S => Good(n)
    OBVIOUS
  <2> HIDE DEF S, Good
  <2>2. PICK n \in S : n = 0 \/ (n # 0 /\ n - 1 \in Nat /\ n - 1 \notin S)
    BY <2>1, LeastOne
  <2>3. n \in 1 .. Len(events) /\ n - 1 \in 0 .. Len(events) /\ n - 1 \notin S
    BY <1>0, <1>2, <2>1, <2>2
  <2> QED
    BY <1>3, <2>1, <2>3
<1>5. Good(Len(events))
  <2>1. Len(events) \in 0 .. Len(events)
    BY <1>0
  <2> QED
    BY <1>4, <2>1
<1> QED
  BY <1>1, <1>5

-----------------------------------------------------------------------------
(***************************************************************************)
(* The inductive invariant.                                                 *)
(***************************************************************************)

\* The rows of a stream are numbered from 1 and are of its present generation.
Numbered ==
  \A s \in Stream :
    /\ Len(log[s]) = gate[s]
    /\ \A i \in 1 .. Len(log[s]) :
         log[s][i].stream = s /\ log[s][i].gen = gen[s] /\ log[s][i].seq = i

\* Where the cursors are: in a stream that was not deleted, between where they began
\* and its head.
Placed ==
  /\ \A s \in Stream :
       /\ start[s].gen <= gen[s] /\ start[s].seq <= After(s)
       /\ gen[s] = start[s].gen => After(s) <= Len(log[s])
  /\ mode \in {"absent", "registering"} =>
       delivered = <<>> /\ \A s \in Stream : After(s) = start[s].seq
  /\ mode # "draining" =>
       drain.batch = <<>> /\ \A s \in Stream : drain.tails[s] = None
  /\ mode = "draining" => drain.todo \subseteq Watched
  /\ drain.base <= token

\* Event e is new to the listener, and the pending cursor of its stream covers it.
Fresh(e) ==
  /\ e.stream \in Watched /\ e.stream \notin drain.todo
  /\ start[e.stream].gen <= e.gen /\ e.gen <= gen[e.stream]
  /\ After(e.stream) < e.seq
  /\ drain.tails[e.stream] # None /\ e.seq <= drain.tails[e.stream]

\* The batch holds, of every stream that was read, all that the pending cursor covers.
Pending ==
  /\ \A i \in 1 .. Len(drain.batch) : Fresh(drain.batch[i])
  /\ \A i, j \in 1 .. Len(drain.batch) :
       i < j /\ drain.batch[i].stream = drain.batch[j].stream =>
         drain.batch[i].gen = drain.batch[j].gen /\ drain.batch[i].seq < drain.batch[j].seq
  /\ \A s \in Stream : drain.tails[s] # None =>
       /\ s \notin drain.todo /\ After(s) < drain.tails[s]
       /\ gen[s] = start[s].gen =>
            /\ drain.tails[s] <= Len(log[s])
            /\ \A n \in 1 .. Len(log[s]) : After(s) < n /\ n <= drain.tails[s] =>
                 \E k \in 1 .. Len(drain.batch) : drain.batch[k] = log[s][n]
  /\ \A i \in 1 .. Len(delivered), j \in 1 .. Len(drain.batch) :
       SameStream(delivered[i], drain.batch[j]) => delivered[i].seq < drain.batch[j].seq

\* What was delivered was owed and is not past its cursor; what is not past the cursor
\* was delivered.
Seen ==
  /\ \A i \in 1 .. Len(delivered) :
       /\ Owed(delivered[i]) /\ delivered[i].gen <= gen[delivered[i].stream]
       /\ delivered[i].gen = gen[delivered[i].stream] =>
            delivered[i].seq <= After(delivered[i].stream)
  /\ \A i, j \in 1 .. Len(delivered) :
       i < j /\ SameStream(delivered[i], delivered[j]) =>
         /\ delivered[i].seq # delivered[j].seq
         /\ watch # None => delivered[i].seq < delivered[j].seq
  /\ mode # "disposed" =>
       \A s \in Stream : gen[s] = start[s].gen =>
         \A n \in 1 .. Len(log[s]) :
           log[s][n].match /\ start[s].seq < n /\ n <= After(s) => WasDelivered(log[s][n])

Inv == TypeOK /\ Numbered /\ Placed /\ Pending /\ Seen

LEMMA AfterIs ==
  ASSUME TypeOK, NEW s \in Stream
  PROVE  After(s) \in Nat /\ None \notin Nat
  BY NoneAssumption DEF TypeOK, After

\* The rows a drain reads of a stream.
LEMMA UnreadIs ==
  ASSUME Inv, NEW s \in Stream
  PROVE  LET rows == Unread(s)
         IN  /\ rows \in Seq(Event) /\ Len(rows) \in Nat
             /\ rows = <<>> <=> Len(rows) = 0
             /\ Len(rows) # 0 => /\ After(s) < Len(log[s]) /\ Len(rows) = Len(log[s]) - After(s)
                                 /\ rows[Len(rows)].seq = Len(log[s])
             /\ \A i \in 1 .. Len(rows) :
                  /\ After(s) + i \in 1 .. Len(log[s]) /\ rows[i] = log[s][After(s) + i]
                  /\ rows[i].stream = s /\ rows[i].gen = gen[s] /\ rows[i].seq = After(s) + i
<1> DEFINE rows == Unread(s)
<1>1. /\ log[s] \in Seq(Event) /\ Len(log[s]) \in Nat /\ After(s) \in Nat
      /\ \A n \in 1 .. Len(log[s]) :
           log[s][n] \in Event /\ log[s][n].stream = s /\ log[s][n].gen = gen[s]
           /\ log[s][n].seq = n
  <2>1. log[s] \in Seq(Event) /\ After(s) \in Nat
    BY AfterIs DEF Inv, TypeOK
  <2> QED
    BY <2>1 DEF Inv, Numbered
<1>2. PICK a \in Nat : a = After(s)
  BY <1>1
<1>3. PICK l \in Seq(Event) : l = log[s]
  BY <1>1
<1>4. rows = SubSeq(l, a + 1, Len(l)) /\ Len(l) \in Nat
  BY <1>2, <1>3 DEF Unread
<1>5. \A n \in a + 1 .. Len(l) : n \in 1 .. Len(l)
  BY <1>2, <1>4
<1>6. /\ rows \in Seq(Event)
      /\ Len(rows) = IF a + 1 <= Len(l) THEN Len(l) - a ELSE 0
      /\ \A i \in 1 .. Len(rows) : rows[i] = l[a + i]
  <2>1. \A n \in a + 1 .. Len(l) : l[n] \in Event
    BY <1>5
  <2> QED
    BY <1>2, <1>4, <2>1
<1>7. \A i \in 1 .. Len(rows) : a + i \in 1 .. Len(l)
  BY <1>2, <1>4, <1>6
<1>8. Len(rows) \in Nat /\ (rows = <<>> <=> Len(rows) = 0)
  BY <1>6
<1>a. PICK k \in Nat : k = Len(rows)
  BY <1>8
<1>b. PICK m \in Nat : m = Len(l)
  BY <1>4
<1>c. k = IF a + 1 <= m THEN m - a ELSE 0
  BY <1>6, <1>a, <1>b
<1>9. ASSUME k # 0
      PROVE  a < m /\ k = m - a /\ rows[k].seq = m
  <2>1. a < m /\ k = m - a /\ k \in 1 .. k /\ m \in 1 .. m /\ a + k = m
    BY <1>c, <1>9
  <2>2. rows[k] = l[m]
    BY <1>6, <1>a, <2>1
  <2> QED
    BY <1>1, <1>3, <1>b, <2>1, <2>2
<1> HIDE DEF rows
<1> QED
  BY <1>1, <1>2, <1>3, <1>6, <1>7, <1>8, <1>9, <1>a, <1>b DEF rows

-----------------------------------------------------------------------------
(***************************************************************************)
(* What Array.sort makes of a batch.                                        *)
(***************************************************************************)

\* b has the events of the batch, that of position p[i] at i.
Rearranges(b, p, batch) ==
  /\ b \in Seq(Event) /\ Len(b) = Len(batch)
  /\ p \in [1 .. Len(batch) -> 1 .. Len(batch)]
  /\ \A i \in 1 .. Len(batch) : b[i] = batch[p[i]]
  /\ \A i, j \in 1 .. Len(batch) : p[i] = p[j] => i = j
  /\ \A i \in 1 .. Len(batch) : \E j \in 1 .. Len(batch) : p[j] = i

LEMMA SortRearranges ==
  ASSUME NEW batch \in Seq(Event), NEW b \in Sorted(batch)
  PROVE  /\ \E p : Rearranges(b, p, batch)
         /\ Consistent(Range(batch)) => InOrder(b)
<1>1. DOMAIN batch = 1 .. Len(batch) /\ Len(batch) \in Nat
      /\ \A i \in 1 .. Len(batch) : batch[i] \in Event
  OBVIOUS
<1>2. PICK p \in Bijection(DOMAIN batch, DOMAIN batch) :
        b = [i \in DOMAIN batch |-> batch[p[i]]]
  BY DEF Sorted, Arrangements
<1>3. /\ p \in [1 .. Len(batch) -> 1 .. Len(batch)]
      /\ \A i, j \in 1 .. Len(batch) : p[i] = p[j] => i = j
      /\ \A i \in 1 .. Len(batch) : \E j \in 1 .. Len(batch) : p[j] = i
  BY <1>1, <1>2 DEF Bijection, Injection, Surjection, IsInjective
<1>4. b \in [1 .. Len(batch) -> Event] /\ \A i \in 1 .. Len(batch) : b[i] = batch[p[i]]
  BY <1>1, <1>2, <1>3
<1>5. b \in Seq(Event) /\ Len(b) = Len(batch)
  BY <1>1, <1>4
<1>6. Rearranges(b, p, batch)
  BY <1>3, <1>4, <1>5 DEF Rearranges
<1> QED
  BY <1>6 DEF Sorted

\* Events of one stream are one event when they have one sequence.
Distinct(batch) ==
  \A i, j \in 1 .. Len(batch) :
    batch[i].stream = batch[j].stream /\ batch[i].seq = batch[j].seq => i = j

\* Pairs of a time and a stream, ordered by the time first.
LEMMA PairsOrdered ==
  ASSUME NEW t1 \in Nat, NEW t2 \in Nat, NEW t3 \in Nat,
         NEW s1 \in Nat, NEW s2 \in Nat, NEW s3 \in Nat,
         t1 < t2 \/ (t1 = t2 /\ s1 <= s2),
         t2 < t3 \/ (t2 = t3 /\ s2 <= s3)
  PROVE  t1 < t3 \/ (t1 = t3 /\ s1 <= s3)
<1>1. CASE t1 < t2
  BY <1>1
<1>2. CASE t1 = t2 /\ s1 <= s2
  BY <1>2
<1> QED
  BY <1>1, <1>2

\* The comparator has no cycle on a batch in which no timestamp of a stream goes back.
LEMMA GrowingConsistent ==
  ASSUME NEW batch \in Seq(Event), Growing(batch), Distinct(batch)
  PROVE  Consistent(Range(batch))
<1> SUFFICES ASSUME NEW i \in DOMAIN batch, NEW j \in DOMAIN batch, NEW k \in DOMAIN batch,
                    Before(batch[i], batch[j]), Before(batch[j], batch[k])
             PROVE  Before(batch[i], batch[k])
  BY DEF Consistent, Range
<1> DEFINE a == batch[i]
           b == batch[j]
           c == batch[k]
<1>1. i \in 1 .. Len(batch) /\ j \in 1 .. Len(batch) /\ k \in 1 .. Len(batch)
  OBVIOUS
<1>2. \A e \in Event : e.stream \in Nat /\ e.seq \in Nat /\ e.time \in Nat
  BY StreamAssumption DEF Event
<1>3. /\ a.stream \in Nat /\ a.seq \in Nat /\ a.time \in Nat
      /\ b.stream \in Nat /\ b.seq \in Nat /\ b.time \in Nat
      /\ c.stream \in Nat /\ c.seq \in Nat /\ c.time \in Nat
  BY <1>1, <1>2
<1>4. /\ a.stream = b.stream /\ a.seq < b.seq => a.time <= b.time
      /\ b.stream = c.stream /\ b.seq < c.seq => b.time <= c.time
      /\ c.stream = a.stream /\ c.seq < a.seq => c.time <= a.time
  BY DEF Growing
<1>5. a.stream = c.stream /\ a.seq = c.seq => a.time = c.time
  BY <1>1 DEF Distinct
<1>6. /\ IF a.stream = b.stream THEN a.seq < b.seq
         ELSE a.time < b.time \/ (a.time = b.time /\ a.stream < b.stream)
      /\ IF b.stream = c.stream THEN b.seq < c.seq
         ELSE b.time < c.time \/ (b.time = c.time /\ b.stream < c.stream)
  BY DEF Before
<1> HIDE DEF a, b, c
<1>7. /\ a.time < b.time \/ (a.time = b.time /\ a.stream <= b.stream)
      /\ b.time < c.time \/ (b.time = c.time /\ b.stream <= c.stream)
  BY <1>3, <1>4, <1>6
<1>8. a.time < c.time \/ (a.time = c.time /\ a.stream <= c.stream)
  BY <1>3, <1>7, PairsOrdered
<1>9. CASE a.stream # c.stream
  <2>1. a.time < c.time \/ (a.time = c.time /\ a.stream < c.stream)
    BY <1>3, <1>8, <1>9
  <2> QED
    BY <1>9, <2>1 DEF Before, a, c
<1>10. CASE a.stream = c.stream /\ a.stream = b.stream
  <2>1. a.seq < c.seq
    BY <1>3, <1>6, <1>10
  <2> QED
    BY <1>10, <2>1 DEF Before, a, c
\* b is strictly between two events of one stream.
<1>11. CASE a.stream = c.stream /\ a.stream # b.stream
  <2>1. a.time < c.time
    <3>1. a.time <= b.time /\ b.time <= c.time
      BY <1>3, <1>6, <1>11
    <3>2. a.time # c.time
      <4> SUFFICES ASSUME a.time = c.time PROVE FALSE
        OBVIOUS
      <4>1. a.time = b.time /\ b.time = c.time
        BY <1>3, <3>1
      <4>2. a.stream < b.stream /\ b.stream < c.stream
        BY <1>3, <1>6, <1>11, <4>1
      <4> QED
        BY <1>3, <1>11, <4>2
    <3> QED
      BY <1>3, <3>1, <3>2
  <2>2. ~(c.seq < a.seq) /\ a.seq # c.seq
    BY <1>3, <1>4, <1>5, <1>11, <2>1
  <2>3. a.seq < c.seq
    BY <1>3, <2>2
  <2> QED
    BY <1>11, <2>3 DEF Before, a, c
<1> QED
  BY <1>9, <1>10, <1>11

\* The comparator has no cycle on a batch of one stream, whatever its timestamps.
LEMMA OneStreamConsistent ==
  ASSUME NEW batch \in Seq(Event), NEW s, \A i \in 1 .. Len(batch) : batch[i].stream = s
  PROVE  Consistent(Range(batch))
<1>1. \A e \in Range(batch) : e.stream = s /\ e.seq \in Nat
  <2>1. \A e \in Event : e.seq \in Nat
    BY DEF Event
  <2> QED
    BY <2>1 DEF Range
<1> QED
  BY <1>1 DEF Consistent, Before

\* m draws the events of the batch at the positions at, each once.
Draws(m, at, batch) ==
  /\ m \in Seq(Event)
  /\ at \in [1 .. Len(m) -> 1 .. Len(batch)]
  /\ \A k \in 1 .. Len(m) : m[k] = batch[at[k]] /\ m[k].match
  /\ \A k, l \in 1 .. Len(m) : at[k] = at[l] => k = l

DrawsAll(m, at, batch) ==
  /\ Draws(m, at, batch)
  /\ \A i \in 1 .. Len(batch) : batch[i].match => \E k \in 1 .. Len(m) : at[k] = i

\* What is taken of a rearranged batch, in order, is drawn from the batch, and is in the
\* global order when the rearranged batch is.
LEMMA TakenIsDrawn ==
  ASSUME NEW batch \in Seq(Event), NEW b, NEW p, Rearranges(b, p, batch),
         NEW m, NEW w, Takes(m, w, b, Len(batch))
  PROVE  \E at : /\ Draws(m, at, batch)
                 /\ TakesAll(m, w, b, Len(batch)) => DrawsAll(m, at, batch)
                 /\ InOrder(b) => InOrder(m)
<1>1. PICK n \in Nat : n = Len(batch)
  OBVIOUS
<1>2. /\ p \in [1 .. n -> 1 .. n] /\ \A i \in 1 .. n : b[i] = batch[p[i]]
      /\ \A i, j \in 1 .. n : p[i] = p[j] => i = j
      /\ \A i \in 1 .. n : \E j \in 1 .. n : p[j] = i
      /\ b \in Seq(Event) /\ Len(b) = n
  BY <1>1 DEF Rearranges
<1>3. /\ m \in Seq(Event) /\ w \in [1 .. Len(m) -> 1 .. n]
      /\ \A k \in 1 .. Len(m) : m[k] = b[w[k]] /\ m[k].match
      /\ \A k, l \in 1 .. Len(m) : k < l => w[k] < w[l]
  BY <1>1 DEF Takes
<1>4. PICK c \in Nat : c = Len(m)
  BY <1>3
<1>5. \A k, l \in 1 .. c : w[k] = w[l] => k = l
  <2> SUFFICES ASSUME NEW k \in 1 .. c, NEW l \in 1 .. c, w[k] = w[l], k # l PROVE FALSE
    OBVIOUS
  <2>1. w[k] \in Nat /\ (k < l \/ l < k)
    BY <1>1, <1>3, <1>4
  <2>2. w[k] < w[l] \/ w[l] < w[k]
    BY <1>3, <1>4, <2>1
  <2> QED
    BY <2>1, <2>2
<1> DEFINE at == [k \in 1 .. c |-> p[w[k]]]
<1>6. /\ at \in [1 .. c -> 1 .. n]
      /\ \A k \in 1 .. c : at[k] = p[w[k]] /\ w[k] \in 1 .. n /\ m[k] = batch[at[k]]
  BY <1>2, <1>3, <1>4
<1> HIDE DEF at
<1>7. \A k, l \in 1 .. c : at[k] = at[l] => k = l
  <2> SUFFICES ASSUME NEW k \in 1 .. c, NEW l \in 1 .. c, at[k] = at[l] PROVE k = l
    OBVIOUS
  <2>1. w[k] \in 1 .. n /\ w[l] \in 1 .. n /\ p[w[k]] = p[w[l]]
    BY <1>6
  <2>2. w[k] = w[l]
    <3>1. \A i, j \in 1 .. n : p[i] = p[j] => i = j
      BY <1>2
    <3> QED
      BY <2>1, <3>1, Zenon
  <2> QED
    BY <1>5, <2>2
<1>8. Draws(m, at, batch)
  BY <1>1, <1>3, <1>4, <1>6, <1>7 DEF Draws
<1>9. ASSUME TakesAll(m, w, b, Len(batch)) PROVE DrawsAll(m, at, batch)
  <2> SUFFICES ASSUME NEW i \in 1 .. n, batch[i].match PROVE \E k \in 1 .. c : at[k] = i
    BY <1>1, <1>4, <1>8 DEF DrawsAll
  <2>1. PICK j \in 1 .. n : p[j] = i
    BY <1>2
  <2>2. b[j].match
    BY <1>2, <2>1
  <2>3. PICK k \in 1 .. c : w[k] = j
    BY <1>1, <1>4, <1>9, <2>2 DEF TakesAll
  <2> QED
    BY <1>6, <2>1, <2>3
<1>10. ASSUME InOrder(b) PROVE InOrder(m)
  <2> SUFFICES ASSUME NEW k \in 1 .. c, NEW l \in 1 .. c, k < l PROVE ~Before(m[l], m[k])
    BY <1>3, <1>4 DEF InOrder
  <2>1. w[k] \in DOMAIN b /\ w[l] \in DOMAIN b /\ w[k] < w[l]
    <3>1. DOMAIN b = 1 .. n
      BY <1>2
    <3>2. w[k] \in 1 .. n /\ w[l] \in 1 .. n
      BY <1>6
    <3> QED
      BY <1>3, <1>4, <3>1, <3>2
  <2>2. ~Before(b[w[l]], b[w[k]])
    BY <1>10, <2>1 DEF InOrder
  <2> QED
    BY <1>3, <1>4, <2>2
<1> QED
  BY <1>8, <1>9, <1>10

\* What a drain appends to what the listener has seen.
LEMMA Delivers ==
  ASSUME Inv, Deliver
  PROVE  \E m, at : /\ delivered' = delivered \o m
                    /\ Draws(m, at, drain.batch)
                    /\ mode' = "disposed" \/ (mode' = "idle" /\ DrawsAll(m, at, drain.batch))
                    /\ Consistent(Range(drain.batch)) => InOrder(m)
<1>1. drain.batch \in Seq(Event) /\ Len(drain.batch) \in Nat
  BY DEF Inv, TypeOK, Drain
<1>2. PICK sorted \in Sorted(drain.batch) :
        \/ delivered' = delivered \o Matching(sorted) /\ mode' = "idle"
        \/ /\ \E n \in 1 .. Len(Matching(sorted)) :
                delivered' = delivered \o SubSeq(Matching(sorted), 1, n)
           /\ mode' = "disposed"
  BY DEF Deliver
<1>3. PICK p : Rearranges(sorted, p, drain.batch)
  BY <1>1, SortRearranges
<1>4. Consistent(Range(drain.batch)) => InOrder(sorted)
  BY <1>1, SortRearranges
<1>5. PICK all : all = Matching(sorted)
  OBVIOUS
<1>6. PICK at : TakesAll(all, at, sorted, Len(drain.batch))
  BY <1>3, <1>5, MatchingIs DEF Rearranges
<1>7. CASE delivered' = delivered \o all /\ mode' = "idle"
  <2>1. Takes(all, at, sorted, Len(drain.batch))
    BY <1>6 DEF TakesAll
  <2>2. PICK w : DrawsAll(all, w, drain.batch) /\ (InOrder(sorted) => InOrder(all))
    BY <1>1, <1>3, <1>6, <2>1, TakenIsDrawn
  <2> QED
    BY <1>4, <1>7, <2>2 DEF DrawsAll
<1>8. ASSUME NEW n \in 1 .. Len(all), delivered' = delivered \o SubSeq(all, 1, n),
             mode' = "disposed"
      PROVE  \E m, w : /\ delivered' = delivered \o m
                       /\ Draws(m, w, drain.batch)
                       /\ InOrder(sorted) => InOrder(m)
  <2>1. /\ all \in Seq(Event) /\ at \in [1 .. Len(all) -> 1 .. Len(drain.batch)]
        /\ \A k \in 1 .. Len(all) : all[k] = sorted[at[k]] /\ all[k].match
        /\ \A k, l \in 1 .. Len(all) : k < l => at[k] < at[l]
    BY <1>6 DEF TakesAll, Takes
  <2>2. PICK m : m = SubSeq(all, 1, n)
    OBVIOUS
  <2>3. n \in Nat /\ n <= Len(all) /\ Len(all) \in Nat /\ 1 .. n \subseteq 1 .. Len(all)
    BY <2>1
  <2>4. m \in Seq(Event) /\ Len(m) = n /\ \A k \in 1 .. n : m[k] = all[k]
    <3>1. \A k \in 1 .. n : all[k] \in Event
      BY <2>1, <2>3
    <3> QED
      BY <2>2, <2>3, <3>1
  <2> DEFINE w == [k \in 1 .. n |-> at[k]]
  <2>5. w \in [1 .. Len(m) -> 1 .. Len(drain.batch)] /\ \A k \in 1 .. n : w[k] = at[k]
    BY <2>1, <2>3, <2>4
  <2> HIDE DEF w
  <2>6. Takes(m, w, sorted, Len(drain.batch))
    BY <2>1, <2>3, <2>4, <2>5 DEF Takes
  <2> QED
    BY <1>1, <1>3, <1>8, <2>2, <2>6, TakenIsDrawn
<1>9. CASE \E n \in 1 .. Len(all) :
             delivered' = delivered \o SubSeq(all, 1, n) /\ mode' = "disposed"
  BY <1>4, <1>8, <1>9
<1> QED
  BY <1>2, <1>5, <1>7, <1>9

LEMMA DrainTyped ==
  ASSUME Inv, NEW s \in Stream, Read(s)
  PROVE  drain' \in Drain
<1>1. PICK rows : rows = Unread(s)
  OBVIOUS
<1>2. rows \in Seq(Event) /\ drain \in Drain /\ Len(rows) \in Nat
      /\ (rows = <<>> <=> Len(rows) = 0)
  BY <1>1, UnreadIs DEF Inv, TypeOK
<1>3. rows # <<>> => rows[Len(rows)].seq \in Nat
  <2>1. ASSUME Len(rows) # 0 PROVE rows[Len(rows)] \in Event
    BY <1>2, <2>1
  <2> QED
    BY <1>2, <2>1 DEF Event
<1>4. PICK t : t = IF rows = <<>> THEN drain.tails[s] ELSE rows[Len(rows)].seq
  OBVIOUS
<1>5. t \in Nat \cup {None}
  BY <1>2, <1>3, <1>4 DEF Drain
<1>6. drain' = [drain EXCEPT !.todo = drain.todo \ {s}, !.batch = drain.batch \o rows,
                             !.tails = [drain.tails EXCEPT ![s] = t]]
  BY <1>1, <1>2, <1>4 DEF Read, Drain
<1>7. drain.batch \o rows \in Seq(Event)
  BY <1>2 DEF Drain
<1>8. [drain.tails EXCEPT ![s] = t] \in [Stream -> Nat \cup {None}]
  BY <1>2, <1>5 DEF Drain
<1> QED
  BY <1>2, <1>6, <1>7, <1>8 DEF Drain

LEMMA NoDrainTyped ==
  ASSUME NEW todo \in SUBSET Stream, NEW source \in Source, NEW base \in Nat
  PROVE  /\ NoDrain \in Drain
         /\ [NoDrain EXCEPT !.todo = todo] \in Drain
         /\ [NoDrain EXCEPT !.source = source] \in Drain
         /\ [NoDrain EXCEPT !.source = source, !.base = base] \in Drain
<1>1. PICK t \in [Stream -> Nat \cup {None}] : t = [s \in Stream |-> None]
  OBVIOUS
<1>2. NoDrain = [source |-> "init", todo |-> {}, batch |-> <<>>, tails |-> t, base |-> 0]
  BY <1>1 DEF NoDrain
<1>3. {} \in SUBSET Stream /\ <<>> \in Seq(Event) /\ 0 \in Nat /\ "init" \in Source
  BY DEF Source
<1> QED
  BY <1>2, <1>3 DEF Drain

LEMMA InsertTyped ==
  ASSUME Inv, NEW s \in Stream, Insert(s)
  PROVE  /\ log' \in [Stream -> Seq(Event)] /\ gate' \in [Stream -> Nat]
         /\ budget' \in [writes : 0 .. MaxWrites, faults : 0 .. MaxFaults,
                         wakeFaults : 0 .. MaxFaults]
<1>1. /\ log \in [Stream -> Seq(Event)] /\ gate \in [Stream -> Nat] /\ gen \in [Stream -> Nat]
      /\ budget \in [writes : 0 .. MaxWrites, faults : 0 .. MaxFaults,
                     wakeFaults : 0 .. MaxFaults]
  BY DEF Inv, TypeOK
<1>2. PICK e \in Event : log' = [log EXCEPT ![s] = Append(log[s], e)]
  <2>1. PICK t \in 0 .. MaxTime, m \in Match :
          log' = [log EXCEPT ![s] = Append(log[s], [stream |-> s, gen |-> gen[s],
                                                    seq |-> gate[s] + 1, time |-> t,
                                                    match |-> m])]
    BY DEF Insert
  <2>2. gen[s] \in Nat /\ gate[s] + 1 \in Nat \ {0} /\ t \in Nat /\ m \in BOOLEAN
    BY <1>1, BoundsAssumption, MatchAssumption
  <2>3. [stream |-> s, gen |-> gen[s], seq |-> gate[s] + 1, time |-> t, match |-> m] \in Event
    BY <2>2 DEF Event
  <2> QED
    BY <2>1, <2>3
<1>3. log' \in [Stream -> Seq(Event)]
  <2>1. log[s] \in Seq(Event)
    BY <1>1
  <2>2. Append(log[s], e) \in Seq(Event)
    BY <2>1
  <2> QED
    BY <1>1, <1>2, <2>2
<1>4. gate' \in [Stream -> Nat]
  BY <1>1 DEF Insert
<1>5. budget.writes - 1 \in 0 .. MaxWrites
  <2>1. budget.writes \in 0 .. MaxWrites /\ budget.writes > 0 /\ MaxWrites \in Nat
    BY <1>1, BoundsAssumption DEF Insert, BoundsAssumption
  <2> QED
    BY <2>1
<1> QED
  BY <1>1, <1>3, <1>4, <1>5 DEF Insert

LEMMA NextTyped ==
  ASSUME Inv, [Next]_vars
  PROVE  TypeOK'
<1> USE DEF store
<1>1. /\ TypeOK /\ drain \in Drain /\ drain.base <= token /\ NoDrain \in Drain
      /\ MaxFaults \in Nat /\ MaxWrites \in Nat /\ token \in Nat
      /\ wakes \in [Stream -> Nat] /\ budget.writes \in 0 .. MaxWrites
      /\ budget.faults \in 0 .. MaxFaults /\ budget.wakeFaults \in 0 .. MaxFaults
      /\ floor \in 0 .. token /\ floor \in Nat
  <2>1. {} \in SUBSET Stream /\ "init" \in Source /\ 0 \in Nat
    BY DEF Source
  <2>2. NoDrain \in Drain
    BY <2>1, NoDrainTyped
  <2>3. /\ TypeOK /\ drain \in Drain /\ drain.base <= token /\ token \in Nat
        /\ wakes \in [Stream -> Nat] /\ floor \in 0 .. token
        /\ budget \in [writes : 0 .. MaxWrites, faults : 0 .. MaxFaults,
                       wakeFaults : 0 .. MaxFaults]
    BY DEF Inv, TypeOK, Placed
  <2>4. floor \in Nat
    BY <2>3
  <2> QED
    BY <2>2, <2>3, <2>4, BoundsAssumption DEF BoundsAssumption
<1>2. ASSUME NEW s \in Stream, ForeignCommit(s) \/ OwnCommit(s)
      PROVE  TypeOK'
  <2>1. Insert(s) /\ token' \in {token, token + 1} /\ wakes' \in [Stream -> Nat]
    <3>1. CASE ForeignCommit(s)
      BY <1>1, <3>1 DEF ForeignCommit
    <3>2. CASE OwnCommit(s)
      BY <1>1, <3>2 DEF OwnCommit
    <3> QED
      BY <1>2, <3>1, <3>2
  <2>2. UNCHANGED <<gen, mode, watch, cursor, start, floor, drain, delivered>>
    BY <2>1 DEF Insert
  <2>3. floor' \in 0 .. token' /\ token' \in Nat
    BY <1>1, <2>1, <2>2
  <2>4. /\ log' \in [Stream -> Seq(Event)] /\ gate' \in [Stream -> Nat]
        /\ budget' \in [writes : 0 .. MaxWrites, faults : 0 .. MaxFaults,
                        wakeFaults : 0 .. MaxFaults]
    BY <2>1, InsertTyped
  <2> QED
    BY <1>1, <2>1, <2>2, <2>3, <2>4 DEF TypeOK
<1>3. ASSUME NEW s \in Stream, DeleteStream(s)
      PROVE  TypeOK'
  <2>1. /\ log' = [log EXCEPT ![s] = <<>>] /\ gate' = [gate EXCEPT ![s] = 0]
        /\ gen' = [gen EXCEPT ![s] = gen[s] + 1] /\ token' \in {token, token + 1}
        /\ budget.writes > 0 /\ budget' = [budget EXCEPT !.writes = budget.writes - 1]
        /\ UNCHANGED <<wakes, mode, watch, cursor, start, floor, drain, delivered>>
    BY <1>3 DEF DeleteStream
  <2>2. budget.writes - 1 \in 0 .. MaxWrites
    BY <1>1, <2>1
  <2>3. floor' \in 0 .. token' /\ token' \in Nat
    BY <1>1, <2>1
  <2>4. log' \in [Stream -> Seq(Event)] /\ gate' \in [Stream -> Nat] /\ gen' \in [Stream -> Nat]
    <3>a. <<>> \in Seq(Event)
      OBVIOUS
    <3>1. /\ log \in [Stream -> Seq(Event)] /\ gate \in [Stream -> Nat]
          /\ gen \in [Stream -> Nat]
      BY <1>1, Zenon DEF TypeOK
    <3>2. log' \in [Stream -> Seq(Event)]
      <4>1. log' = [log EXCEPT ![s] = <<>>]
        BY <2>1
      <4> QED
        BY <3>a, <3>1, <4>1
    <3>3. gate' \in [Stream -> Nat]
      <4>1. gate' = [gate EXCEPT ![s] = 0]
        BY <2>1
      <4> QED
        BY <3>1, <4>1
    <3>4. gen' \in [Stream -> Nat]
      <4>1. gen' = [gen EXCEPT ![s] = gen[s] + 1]
        BY <2>1
      <4> QED
        BY <3>1, <4>1
    <3> QED
      BY <3>2, <3>3, <3>4
  <2>5. budget' \in [writes : 0 .. MaxWrites, faults : 0 .. MaxFaults,
                     wakeFaults : 0 .. MaxFaults]
    BY <1>1, <2>1, <2>2 DEF TypeOK
  <2> QED
    BY <1>1, <2>1, <2>3, <2>4, <2>5 DEF TypeOK
<1>4. CASE Subscribe
  <2>1. (IF watch' = None THEN Known ELSE {watch'}) \in SUBSET Stream
    BY <1>4 DEF Subscribe, Known
  <2>2. drain' \in Drain
    <3>1. "init" \in Source /\ 0 \in Nat
      BY DEF Source
    <3> QED
      BY <1>4, <2>1, <3>1, NoDrainTyped DEF Subscribe
  <2> QED
    BY <1>1, <1>4, <2>2 DEF Subscribe, TypeOK
<1>5. ASSUME NEW s \in Stream, Capture(s)
      PROVE  TypeOK'
  <2>1. PICK from : /\ from \in {gate[s]} \cup (IF watch = None THEN {} ELSE 0 .. gate[s])
                    /\ cursor' = [cursor EXCEPT ![s] = from]
                    /\ start' = [start EXCEPT ![s] = [gen |-> gen[s], seq |-> from]]
    BY <1>5 DEF Capture
  <2>2. from \in Nat /\ gen[s] \in Nat
    BY <1>1, <2>1 DEF TypeOK
  <2>3. cursor' \in [Stream -> Nat \cup {None}]
    BY <1>1, <2>1, <2>2 DEF TypeOK
  <2>4. start' \in [Stream -> [gen : Nat, seq : Nat]]
    BY <1>1, <2>1, <2>2 DEF TypeOK
  <2>5. drain' \in Drain
    BY <1>1, <1>5 DEF Capture, Drain
  <2> QED
    BY <1>1, <1>5, <2>3, <2>4, <2>5 DEF Capture, TypeOK
<1>6. CASE Baseline
  <2>1. floor' \in 0 .. token' /\ drain' \in Drain /\ mode' = "starting"
    BY <1>1, <1>6 DEF Baseline
  <2> QED
    BY <1>1, <1>6, <2>1 DEF Baseline, TypeOK
<1>7. ASSUME NEW s \in Stream, Hook(s)
      PROVE  TypeOK'
  <2>1. [NoDrain EXCEPT !.source = "wake"] \in Drain
    BY NoDrainTyped DEF Source
  <2>2. drain' \in Drain /\ mode' \in {mode, "starting"}
    BY <1>1, <1>7, <2>1 DEF Hook
  <2>3. wakes' \in [Stream -> Nat]
    <3>1. wakes[s] - 1 \in Nat /\ wakes' = [wakes EXCEPT ![s] = wakes[s] - 1]
      BY <1>1, <1>7 DEF Hook
    <3> QED
      BY <1>1, <3>1
  <2> QED
    BY <1>1, <1>7, <2>2, <2>3 DEF Hook, TypeOK
<1>8. CASE Tick
  <2>1. floor \in Nat
    BY <1>1 DEF TypeOK
  <2>2. drain' \in Drain
    BY <1>8, <2>1, NoDrainTyped DEF Tick, Source
  <2>3. floor' \in 0 .. token' /\ mode' = "starting"
    BY <1>1, <1>8 DEF Tick
  <2> QED
    BY <1>1, <1>8, <2>2, <2>3 DEF Tick, TypeOK
<1>9. CASE StartDrain
  <2>1. drain' \in Drain
    BY <1>1, <1>9 DEF StartDrain, Drain, TypeOK, Known
  <2> QED
    BY <1>1, <1>9, <2>1 DEF StartDrain, TypeOK
<1>10. ASSUME NEW s \in Stream, Read(s)
       PROVE  TypeOK'
  BY <1>1, <1>10, DrainTyped DEF Read, TypeOK
<1>11. CASE Deliver
  <2>1. PICK m, at : delivered' = delivered \o m /\ Draws(m, at, drain.batch)
                     /\ mode' \in {"idle", "disposed"}
    BY <1>11, Delivers
  <2>2. delivered' \in Seq(Event)
    BY <1>1, <2>1 DEF Draws, TypeOK
  <2>3. cursor' \in [Stream -> Nat \cup {None}]
    BY <1>1, <1>11 DEF Deliver, Advanced, TypeOK, Drain
  <2> QED
    BY <1>1, <1>11, <2>1, <2>2, <2>3 DEF Deliver, TypeOK
<1>12. CASE ReadFault
  <2>1. budget' \in [writes : 0 .. MaxWrites, faults : 0 .. MaxFaults,
                     wakeFaults : 0 .. MaxFaults]
    <3>1. CASE budget.wakeFaults > 0 /\ budget' = [budget EXCEPT !.wakeFaults = budget.wakeFaults - 1]
      <4>1. budget.wakeFaults - 1 \in 0 .. MaxFaults
        BY <1>1, <3>1
      <4> QED
        BY <1>1, <3>1, <4>1 DEF TypeOK
    <3>2. CASE budget.faults > 0 /\ budget' = [budget EXCEPT !.faults = budget.faults - 1]
      <4>1. budget.faults - 1 \in 0 .. MaxFaults
        BY <1>1, <3>2
      <4> QED
        BY <1>1, <3>2, <4>1 DEF TypeOK
    <3> QED
      BY <1>12, <3>1, <3>2 DEF ReadFault, Fault
  <2>2. floor' \in 0 .. token'
    <3>1. floor' \in {drain.base, floor} /\ token' = token /\ drain.base \in Nat
      BY <1>1, <1>12 DEF ReadFault, Drain
    <3> QED
      BY <1>1, <3>1 DEF TypeOK
  <2>3. drain' \in Drain /\ mode' \in {"failed", "idle"}
    BY <1>1, <1>12 DEF ReadFault
  <2> QED
    BY <1>1, <1>12, <2>1, <2>2, <2>3 DEF ReadFault, TypeOK
<1>13. CASE Dispose
  BY <1>1, <1>13 DEF Dispose, TypeOK
<1>14. CASE UNCHANGED vars
  BY <1>1, <1>14 DEF vars, TypeOK
<1> QED
  BY <1>2, <1>3, <1>4, <1>5, <1>6, <1>7, <1>8, <1>9, <1>10, <1>11, <1>12, <1>13, <1>14
  DEF Next, RegisterStep, DrainStep, Finished

-----------------------------------------------------------------------------
(***************************************************************************)
(* Every step keeps it.                                                     *)
(***************************************************************************)

LEMMA InitInv == Init => Inv
<1> SUFFICES ASSUME Init PROVE Inv
  OBVIOUS
<1>0. {} \in SUBSET Stream /\ "init" \in Source /\ 0 \in Nat
  BY DEF Source
<1>1. NoDrain \in Drain /\ NoDrain.batch = <<>> /\ NoDrain.base = 0
      /\ \A s \in Stream : NoDrain.tails[s] = None
  BY <1>0, NoDrainTyped DEF NoDrain
<1>2. TypeOK
  <2>1. [s \in Stream |-> <<>>] \in [Stream -> Seq(Event)]
    OBVIOUS
  <2>2. [s \in Stream |-> [gen |-> 0, seq |-> 0]] \in [Stream -> [gen : Nat, seq : Nat]]
    OBVIOUS
  <2>3. budget \in [writes : 0 .. MaxWrites, faults : 0 .. MaxFaults,
                    wakeFaults : 0 .. MaxFaults]
    BY BoundsAssumption DEF Init, BoundsAssumption
  <2> QED
    BY <1>1, <2>1, <2>2, <2>3 DEF Init, TypeOK
<1>3. Len(delivered) = 0 /\ Len(drain.batch) = 0 /\ \A s \in Stream : Len(log[s]) = 0
  BY <1>1 DEF Init
<1>4. \A s \in Stream : After(s) = 0 /\ start[s].seq = 0 /\ start[s].gen = 0 /\ gen[s] = 0
  BY DEF Init, After
<1>5. Numbered
  BY <1>3 DEF Numbered, Init
<1>6. Placed
  BY <1>1, <1>3, <1>4 DEF Placed, Init
<1>7. Pending
  BY <1>1, <1>3 DEF Pending, Init
<1>8. Seen
  BY <1>3 DEF Seen
<1> QED
  BY <1>2, <1>5, <1>6, <1>7, <1>8 DEF Inv

\* A step that reads nothing and delivers nothing.
LEMMA FrameInv ==
  ASSUME Inv, TypeOK', UNCHANGED <<log, gate, gen, watch, cursor, start, delivered>>,
         drain'.batch = <<>>, \A s \in Stream : drain'.tails[s] = None,
         drain'.base <= token', mode' = "draining" => drain'.todo \subseteq Watched,
         mode' \in {"absent", "registering"} => mode \in {"absent", "registering"},
         mode = "disposed" => mode' = "disposed"
  PROVE  Inv'
<1>1. /\ log' = log /\ gate' = gate /\ gen' = gen /\ watch' = watch /\ cursor' = cursor
      /\ start' = start /\ delivered' = delivered
  OBVIOUS
<1>2. \A s \in Stream : After(s)' = After(s)
  BY <1>1 DEF After
<1>3. Watched' = Watched
  BY <1>1 DEF Watched
<1>4. Numbered'
  BY <1>1 DEF Inv, Numbered
<1>5. Placed'
  BY <1>1, <1>2, <1>3 DEF Inv, Placed
<1>6. Len(drain'.batch) = 0
  OBVIOUS
<1>7. Pending'
  BY <1>6 DEF Pending
<1>8. Seen'
  <2>1. /\ \A e : Owed(e)' <=> Owed(e)
        /\ \A e : WasDelivered(e)' <=> WasDelivered(e)
    BY <1>1, <1>3 DEF Owed, WasDelivered
  <2>2. \A i \in 1 .. Len(delivered) : delivered[i].stream \in Stream
    <3>1. delivered \in Seq(Event)
      BY DEF Inv, TypeOK
    <3>2. \A i \in 1 .. Len(delivered) : delivered[i] \in Event
      BY <3>1
    <3> QED
      BY <3>2 DEF Event
  <2> QED
    BY <1>1, <1>2, <2>1, <2>2 DEF Inv, Seen
<1> QED
  BY <1>4, <1>5, <1>7, <1>8 DEF Inv

\* Before the subscription starts nothing was read or delivered.
LEMMA RegisterInv ==
  ASSUME Inv, TypeOK', UNCHANGED <<log, gate, gen, delivered>>,
         mode \in {"absent", "registering"}, mode' \in {"absent", "registering"},
         drain'.batch = <<>>, \A s \in Stream : drain'.tails[s] = None, drain'.base <= token',
         \A s \in Stream :
           /\ start'[s].gen <= gen[s] /\ After(s)' = start'[s].seq
           /\ gen[s] = start'[s].gen => After(s)' <= Len(log[s])
  PROVE  Inv'
<1>1. log' = log /\ gate' = gate /\ gen' = gen /\ delivered' = delivered /\ delivered = <<>>
  BY DEF Inv, Placed
<1>2. Numbered'
  BY <1>1 DEF Inv, Numbered
<1>3. \A s \in Stream : After(s)' \in Nat /\ start'[s].seq <= After(s)'
  <2>1. cursor' \in [Stream -> Nat \cup {None}]
    BY DEF TypeOK
  <2>2. \A s \in Stream : After(s)' \in Nat
    BY <2>1 DEF After
  <2>3. \A s \in Stream : After(s)' = start'[s].seq
    OBVIOUS
  <2>4. \A a \in Nat : a <= a
    OBVIOUS
  <2> QED
    BY <2>2, <2>3, <2>4
<1>4. Placed'
  BY <1>1, <1>3 DEF Placed
<1>5. Len(drain'.batch) = 0 /\ Len(delivered') = 0
  BY <1>1
<1>6. Pending'
  BY <1>5 DEF Pending
<1>7. Seen'
  <2>1. \A s \in Stream, n \in Nat : ~(start'[s].seq < n /\ n <= After(s)')
    BY <1>3
  <2>2. \A s \in Stream : Len(log'[s]) \in Nat /\ \A n \in 1 .. Len(log'[s]) : n \in Nat
    <3>1. log' \in [Stream -> Seq(Event)]
      BY DEF TypeOK
    <3>2. \A s \in Stream : log'[s] \in Seq(Event)
      BY <3>1
    <3> QED
      BY <3>2
  <2> QED
    BY <1>5, <2>1, <2>2 DEF Seen
<1> QED
  BY <1>2, <1>4, <1>6, <1>7 DEF Inv

LEMMA CaptureInv ==
  ASSUME Inv, TypeOK', NEW s \in Stream, Capture(s)
  PROVE  Inv'
<1>1. PICK from : /\ from \in {gate[s]} \cup (IF watch = None THEN {} ELSE 0 .. gate[s])
                  /\ cursor' = [cursor EXCEPT ![s] = from]
                  /\ start' = [start EXCEPT ![s] = [gen |-> gen[s], seq |-> from]]
  BY DEF Capture
<1>2. /\ log' = log /\ gate' = gate /\ gen' = gen /\ delivered' = delivered
      /\ mode = "registering" /\ mode' = mode /\ token' = token
      /\ drain' = [drain EXCEPT !.todo = drain.todo \ {s}]
  BY DEF Capture, store
<1>3. /\ cursor \in [Stream -> Nat \cup {None}] /\ start \in [Stream -> [gen : Nat, seq : Nat]]
      /\ gate[s] \in Nat /\ gen[s] \in Nat /\ drain \in Drain /\ Len(log[s]) = gate[s]
  BY DEF Inv, TypeOK, Numbered
<1>4. from \in Nat /\ from <= gate[s]
  BY <1>1, <1>3
<1>5. ASSUME NEW r \in Stream
      PROVE  /\ start'[r].gen <= gen[r] /\ After(r)' = start'[r].seq
             /\ gen[r] = start'[r].gen => After(r)' <= Len(log[r])
  <2>1. CASE r = s
    <3>1. cursor'[s] = from /\ start'[s] = [gen |-> gen[s], seq |-> from]
      BY <1>1, <1>3
    <3>2. After(s)' = from
      BY <1>4, <3>1, NoneAssumption DEF After
    <3> QED
      BY <1>3, <1>4, <2>1, <3>1, <3>2
  <2>2. CASE r # s
    <3>1. cursor'[r] = cursor[r] /\ start'[r] = start[r]
      BY <1>1, <1>3, <2>2
    <3>2. After(r)' = After(r)
      BY <3>1 DEF After
    <3> QED
      BY <1>2, <3>1, <3>2 DEF Inv, Placed
  <2> QED
    BY <2>1, <2>2
<1>6. /\ drain'.batch = drain.batch /\ drain'.tails = drain.tails /\ drain'.base = drain.base
  BY <1>2, <1>3 DEF Drain
<1>7. drain.batch = <<>> /\ drain.base <= token /\ \A r \in Stream : drain.tails[r] = None
  BY <1>2 DEF Inv, Placed
<1> QED
  BY <1>2, <1>5, <1>6, <1>7, RegisterInv

LEMMA SubscribeInv ==
  ASSUME Inv, TypeOK', Subscribe
  PROVE  Inv'
<1>1. /\ log' = log /\ gate' = gate /\ gen' = gen /\ delivered' = delivered
      /\ mode = "absent" /\ mode' = "registering" /\ token' = token /\ token \in Nat
      /\ start' = start /\ cursor' = cursor
  BY DEF Subscribe, store, Inv, TypeOK
<1>2. PICK todo : drain' = [NoDrain EXCEPT !.todo = todo]
  BY DEF Subscribe
<1>3. drain'.batch = <<>> /\ drain'.base = 0 /\ \A s \in Stream : drain'.tails[s] = None
  BY <1>2 DEF NoDrain
<1>4. \A s \in Stream : After(s)' = After(s)
  BY <1>1 DEF After
<1>5. \A s \in Stream : /\ start'[s].gen <= gen[s] /\ After(s)' = start'[s].seq
                        /\ gen[s] = start'[s].gen => After(s)' <= Len(log[s])
  BY <1>1, <1>4 DEF Inv, Placed
<1> QED
  BY <1>1, <1>3, <1>5, RegisterInv

\* Events have their types, in the batch and at the listener.
LEMMA EventsTyped ==
  ASSUME TypeOK
  PROVE  /\ Len(delivered) \in Nat /\ Len(drain.batch) \in Nat
         /\ \A i \in 1 .. Len(delivered) :
              /\ delivered[i] \in Event /\ delivered[i].stream \in Stream
              /\ delivered[i].gen \in Nat /\ delivered[i].seq \in Nat
         /\ \A i \in 1 .. Len(drain.batch) :
              /\ drain.batch[i] \in Event /\ drain.batch[i].stream \in Stream
              /\ drain.batch[i].gen \in Nat /\ drain.batch[i].seq \in Nat
<1>1. delivered \in Seq(Event) /\ drain.batch \in Seq(Event)
  BY DEF TypeOK, Drain
<1>2. \A e \in Event : e.stream \in Stream /\ e.gen \in Nat /\ e.seq \in Nat
  BY DEF Event
<1>3. /\ \A i \in 1 .. Len(delivered) : delivered[i] \in Event
      /\ \A i \in 1 .. Len(drain.batch) : drain.batch[i] \in Event
  BY <1>1
<1> QED
  BY <1>1, <1>2, <1>3

LEMMA StateTyped ==
  ASSUME Inv, NEW s \in Stream
  PROVE  /\ log[s] \in Seq(Event) /\ Len(log[s]) \in Nat /\ gen[s] \in Nat
         /\ start[s].gen \in Nat /\ start[s].seq \in Nat /\ After(s) \in Nat
         /\ drain.tails[s] \in Nat \cup {None}
<1>1. /\ log \in [Stream -> Seq(Event)] /\ gen \in [Stream -> Nat]
      /\ start \in [Stream -> [gen : Nat, seq : Nat]]
      /\ drain.tails \in [Stream -> Nat \cup {None}]
  BY DEF Inv, TypeOK, Drain
<1>2. log[s] \in Seq(Event) /\ start[s] \in [gen : Nat, seq : Nat]
  BY <1>1
<1> QED
  BY <1>1, <1>2, AfterIs DEF Inv

\* A commit.
LEMMA InsertInv ==
  ASSUME Inv, TypeOK', NEW s \in Stream, Insert(s), token' \in {token, token + 1}
  PROVE  Inv'
<1>1. PICK e : /\ log' = [log EXCEPT ![s] = Append(log[s], e)]
               /\ e.stream = s /\ e.gen = gen[s] /\ e.seq = gate[s] + 1 /\ e \in Event
  <2>1. PICK t \in 0 .. MaxTime, m \in Match :
          log' = [log EXCEPT ![s] = Append(log[s], [stream |-> s, gen |-> gen[s],
                                                    seq |-> gate[s] + 1, time |-> t,
                                                    match |-> m])]
    BY DEF Insert
  <2>2. gen[s] \in Nat /\ gate[s] + 1 \in Nat \ {0} /\ t \in Nat /\ m \in BOOLEAN
    <3>1. gen[s] \in Nat /\ gate[s] \in Nat
      BY DEF Inv, TypeOK
    <3> QED
      BY <3>1, BoundsAssumption, MatchAssumption
  <2>3. [stream |-> s, gen |-> gen[s], seq |-> gate[s] + 1, time |-> t, match |-> m] \in Event
    BY <2>2 DEF Event
  <2> QED
    BY <2>1, <2>3
<1>2. /\ gate' = [gate EXCEPT ![s] = gate[s] + 1] /\ gen' = gen /\ mode' = mode
      /\ watch' = watch /\ cursor' = cursor /\ start' = start /\ drain' = drain
      /\ delivered' = delivered
  BY DEF Insert
<1>3. /\ log \in [Stream -> Seq(Event)] /\ gate \in [Stream -> Nat] /\ token \in Nat
      /\ drain.base \in Nat /\ \A r \in Stream : Len(log[r]) = gate[r]
  BY DEF Inv, TypeOK, Numbered, Drain
<1>4. ASSUME NEW r \in Stream
      PROVE  /\ Len(log'[r]) = gate'[r] /\ Len(log[r]) \in Nat
             /\ Len(log'[r]) = IF r = s THEN Len(log[r]) + 1 ELSE Len(log[r])
             /\ \A i \in 1 .. Len(log[r]) : log'[r][i] = log[r][i]
             /\ r = s => log'[r][Len(log[r]) + 1] = e
  <2>1. CASE r = s
    <3>1. log'[s] = Append(log[s], e) /\ log[s] \in Seq(Event) /\ gate'[s] = gate[s] + 1
      BY <1>1, <1>2, <1>3
    <3> QED
      BY <1>3, <2>1, <3>1
  <2>2. CASE r # s
    <3>1. log'[r] = log[r] /\ log[r] \in Seq(Event) /\ gate'[r] = gate[r]
      BY <1>1, <1>2, <1>3, <2>2
    <3> QED
      BY <1>3, <2>2, <3>1
  <2> QED
    BY <2>1, <2>2
<1>5. Numbered'
  <2> SUFFICES ASSUME NEW r \in Stream, NEW i \in 1 .. Len(log'[r])
               PROVE  log'[r][i].stream = r /\ log'[r][i].gen = gen[r] /\ log'[r][i].seq = i
    BY <1>2, <1>4 DEF Numbered
  <2>1. CASE i \in 1 .. Len(log[r])
    BY <1>4, <2>1 DEF Inv, Numbered
  <2>2. CASE i \notin 1 .. Len(log[r])
    <3>1. r = s /\ i = Len(log[r]) + 1
      BY <1>4, <2>2
    <3> QED
      BY <1>1, <1>3, <1>4, <3>1
  <2> QED
    BY <2>1, <2>2
<1>6. \A r \in Stream : After(r)' = After(r) /\ After(r) \in Nat
  BY <1>2, StateTyped DEF After
<1>7. Watched' = Watched
  BY <1>2 DEF Watched
<1>8. Placed'
  <2>1. drain'.base <= token'
    <3>1. drain.base <= token
      BY DEF Inv, Placed
    <3> QED
      BY <1>2, <1>3, <3>1
  <2>2. ASSUME NEW r \in Stream
        PROVE  /\ start'[r].gen <= gen'[r] /\ start'[r].seq <= After(r)'
               /\ gen'[r] = start'[r].gen => After(r)' <= Len(log'[r])
    <3>1. Len(log[r]) <= Len(log'[r]) /\ Len(log'[r]) \in Nat
      BY <1>4
    <3> QED
      BY <1>2, <1>4, <1>6, <3>1 DEF Inv, Placed
  <2> QED
    BY <1>2, <1>6, <1>7, <2>1, <2>2 DEF Inv, Placed
<1>9. Pending'
  <2>1. ASSUME NEW r \in Stream, drain.tails[r] # None, gen[r] = start[r].gen
        PROVE  /\ drain.tails[r] <= Len(log'[r])
               /\ \A n \in 1 .. Len(log'[r]) : After(r) < n /\ n <= drain.tails[r] =>
                    \E k \in 1 .. Len(drain.batch) : drain.batch[k] = log'[r][n]
    <3>1. /\ drain.tails[r] <= Len(log[r]) /\ drain.tails[r] \in Nat
          /\ \A n \in 1 .. Len(log[r]) : After(r) < n /\ n <= drain.tails[r] =>
               \E k \in 1 .. Len(drain.batch) : drain.batch[k] = log[r][n]
      BY <2>1, StateTyped DEF Inv, Pending
    <3>2. \A n \in 1 .. Len(log'[r]) : n <= drain.tails[r] => n \in 1 .. Len(log[r])
      BY <1>4, <3>1
    <3> QED
      BY <1>4, <3>1, <3>2
  <2>2. ASSUME NEW f PROVE Fresh(f)' <=> Fresh(f)
    <3>1. f.stream \in Watched => f.stream \in Stream
      BY DEF Watched, Inv, TypeOK
    <3> QED
      BY <1>2, <1>6, <1>7, <3>1 DEF Fresh
  <2>3. \A r \in Stream : drain.tails[r] # None => r \notin drain.todo /\ After(r) < drain.tails[r]
    BY DEF Inv, Pending
  <2> QED
    BY <1>2, <1>6, <2>1, <2>2, <2>3 DEF Inv, Pending
<1>10. Seen'
  <2>1. /\ \A f : Owed(f)' <=> Owed(f)
        /\ \A f : WasDelivered(f)' <=> WasDelivered(f)
    BY <1>2, <1>7 DEF Owed, WasDelivered
  <2>2. \A i \in 1 .. Len(delivered) : delivered[i].stream \in Stream
    BY EventsTyped DEF Inv
  <2>3. ASSUME mode # "disposed", NEW r \in Stream, gen[r] = start[r].gen,
               NEW n \in 1 .. Len(log'[r]), log'[r][n].match, start[r].seq < n, n <= After(r)
        PROVE  WasDelivered(log'[r][n])
    <3>1. After(r) <= Len(log[r])
      BY <2>3 DEF Inv, Placed
    <3>2. n \in 1 .. Len(log[r])
      BY <1>4, <1>6, <2>3, <3>1
    <3> QED
      BY <1>4, <2>3, <3>2 DEF Inv, Seen
  <2> QED
    BY <1>2, <1>6, <2>1, <2>2, <2>3 DEF Inv, Seen
<1> QED
  BY <1>5, <1>8, <1>9, <1>10 DEF Inv

\* A deletion: what is left of the old generation is what was read of it.
LEMMA DeleteInv ==
  ASSUME Inv, TypeOK', NEW s \in Stream, DeleteStream(s)
  PROVE  Inv'
<1>1. /\ log' = [log EXCEPT ![s] = <<>>] /\ gate' = [gate EXCEPT ![s] = 0]
      /\ gen' = [gen EXCEPT ![s] = gen[s] + 1] /\ token' \in {token, token + 1}
      /\ mode' = mode /\ watch' = watch /\ cursor' = cursor /\ start' = start
      /\ drain' = drain /\ delivered' = delivered
  BY DEF DeleteStream
<1>2. /\ log \in [Stream -> Seq(Event)] /\ gate \in [Stream -> Nat] /\ gen \in [Stream -> Nat]
      /\ token \in Nat /\ drain.base \in Nat /\ drain.base <= token
  BY DEF Inv, TypeOK, Drain, Placed
<1>3. /\ Len(log'[s]) = 0 /\ gate'[s] = 0 /\ gen'[s] = gen[s] + 1 /\ start[s].gen <= gen[s]
      /\ start[s].gen \in Nat /\ gen[s] \in Nat
      /\ \A r \in Stream : r # s => log'[r] = log[r] /\ gate'[r] = gate[r] /\ gen'[r] = gen[r]
      /\ \A r \in Stream : gen[r] <= gen'[r] /\ gen[r] \in Nat /\ gen'[r] \in Nat
  <2>1. start[s].gen <= gen[s] /\ start[s].gen \in Nat
    BY DEF Inv, Placed, TypeOK
  <2> QED
    BY <1>1, <1>2, <2>1
<1>4. gen'[s] # start[s].gen
  BY <1>3
<1>5. Numbered'
  BY <1>3 DEF Inv, Numbered
<1>6. \A r \in Stream : After(r)' = After(r) /\ After(r) \in Nat
  BY <1>1, StateTyped DEF After
<1>7. Watched' = Watched
  BY <1>1 DEF Watched
<1>8. Placed'
  <2>1. drain'.base <= token'
    BY <1>1, <1>2
  <2>2. ASSUME NEW r \in Stream
        PROVE  /\ start'[r].gen <= gen'[r] /\ start'[r].seq <= After(r)'
               /\ gen'[r] = start'[r].gen => After(r)' <= Len(log'[r])
    <3>1. start[r].gen <= gen[r] /\ start[r].gen \in Nat /\ start[r].seq <= After(r)
      BY StateTyped DEF Inv, Placed
    <3>2. start[r].gen <= gen'[r]
      BY <1>3, <3>1
    <3>3. r # s /\ gen[r] = start[r].gen => After(r) <= Len(log[r])
      BY DEF Inv, Placed
    <3> QED
      BY <1>1, <1>3, <1>4, <1>6, <3>1, <3>2, <3>3
  <2> QED
    BY <1>1, <1>6, <1>7, <2>1, <2>2 DEF Inv, Placed
<1>9. Pending'
  <2>1. ASSUME NEW i \in 1 .. Len(drain.batch) PROVE Fresh(drain.batch[i])'
    <3>1. Fresh(drain.batch[i]) /\ drain.batch[i].stream \in Stream /\ drain.batch[i].gen \in Nat
      BY EventsTyped DEF Inv, Pending
    <3>2. drain.batch[i].gen <= gen'[drain.batch[i].stream]
      BY <1>3, <3>1 DEF Fresh
    <3> QED
      BY <1>1, <1>6, <1>7, <3>1, <3>2 DEF Fresh
  <2>2. ASSUME NEW r \in Stream, drain.tails[r] # None, gen'[r] = start[r].gen
        PROVE  /\ drain.tails[r] <= Len(log'[r])
               /\ \A n \in 1 .. Len(log'[r]) : After(r) < n /\ n <= drain.tails[r] =>
                    \E k \in 1 .. Len(drain.batch) : drain.batch[k] = log'[r][n]
    <3>1. log'[r] = log[r] /\ gen[r] = start[r].gen
      BY <1>3, <1>4, <2>2
    <3> QED
      BY <2>2, <3>1 DEF Inv, Pending
  <2>3. \A r \in Stream : drain.tails[r] # None => r \notin drain.todo /\ After(r) < drain.tails[r]
    BY DEF Inv, Pending
  <2> QED
    BY <1>1, <1>6, <2>1, <2>2, <2>3 DEF Inv, Pending
<1>10. Seen'
  <2>1. /\ \A f : Owed(f)' <=> Owed(f)
        /\ \A f : WasDelivered(f)' <=> WasDelivered(f)
    BY <1>1, <1>7 DEF Owed, WasDelivered
  <2>2. ASSUME NEW i \in 1 .. Len(delivered)
        PROVE  /\ delivered[i].gen <= gen'[delivered[i].stream]
               /\ delivered[i].stream \in Stream
               /\ delivered[i].gen = gen'[delivered[i].stream] =>
                    delivered[i].seq <= After(delivered[i].stream)
    <3>1. /\ delivered[i].stream \in Stream /\ delivered[i].gen \in Nat
          /\ delivered[i].gen <= gen[delivered[i].stream]
          /\ delivered[i].gen = gen[delivered[i].stream] =>
               delivered[i].seq <= After(delivered[i].stream)
      BY EventsTyped DEF Inv, Seen
    <3> QED
      BY <1>3, <3>1
  <2>3. ASSUME mode # "disposed", NEW r \in Stream, gen'[r] = start[r].gen,
               NEW n \in 1 .. Len(log'[r]), log'[r][n].match, start[r].seq < n, n <= After(r)
        PROVE  WasDelivered(log'[r][n])
    <3>1. r # s
      BY <1>4, <2>3
    <3> QED
      BY <1>3, <2>3, <3>1 DEF Inv, Seen
  <2> QED
    BY <1>1, <1>6, <2>1, <2>2, <2>3 DEF Inv, Seen
<1> QED
  BY <1>5, <1>8, <1>9, <1>10 DEF Inv

\* A read adds to the batch what its stream holds past the cursor.
LEMMA ReadInv ==
  ASSUME Inv, TypeOK', NEW s \in Stream, Read(s)
  PROVE  Inv'
<1>0. /\ log' = log /\ gate' = gate /\ gen' = gen /\ token' = token /\ mode' = mode
      /\ watch' = watch /\ cursor' = cursor /\ start' = start /\ delivered' = delivered
      /\ mode = "draining" /\ s \in drain.todo
  BY DEF Read, store
<1>1. PICK rows : rows = Unread(s)
  OBVIOUS
<1>2. PICK old : old = drain.batch
  OBVIOUS
<1>3. PICK n \in Nat : n = Len(old)
  BY <1>2, EventsTyped DEF Inv
<1>4. /\ rows \in Seq(Event) /\ old \in Seq(Event) /\ Len(rows) \in Nat
      /\ (rows = <<>> <=> Len(rows) = 0)
      /\ Len(rows) # 0 => /\ After(s) < Len(log[s]) /\ Len(rows) = Len(log[s]) - After(s)
                          /\ rows[Len(rows)].seq = Len(log[s])
      /\ \A i \in 1 .. Len(rows) :
           /\ After(s) + i \in 1 .. Len(log[s]) /\ rows[i] = log[s][After(s) + i]
           /\ rows[i].stream = s /\ rows[i].gen = gen[s] /\ rows[i].seq = After(s) + i
  <2>1. old \in Seq(Event)
    BY <1>2 DEF Inv, TypeOK, Drain
  <2> QED
    BY <1>1, <2>1, UnreadIs
<1>5. PICK m \in Nat : m = Len(rows)
  BY <1>4
<1>6. PICK b : b = old \o rows
  OBVIOUS
<1>7. /\ b \in Seq(Event) /\ Len(b) = n + m
      /\ \A i \in 1 .. n : b[i] = old[i]
      /\ \A i \in 1 .. m : b[n + i] = rows[i]
  BY <1>3, <1>4, <1>5, <1>6
<1>8. PICK t : t = IF rows = <<>> THEN drain.tails[s] ELSE rows[Len(rows)].seq
  OBVIOUS
<1>9. /\ drain'.batch = b /\ drain'.todo = drain.todo \ {s} /\ drain'.base = drain.base
      /\ drain'.tails = [drain.tails EXCEPT ![s] = t]
  <2>1. drain' = [drain EXCEPT !.todo = drain.todo \ {s}, !.batch = drain.batch \o rows,
                               !.tails = [drain.tails EXCEPT ![s] = t]]
    BY <1>1, <1>8 DEF Read, Drain, Inv, TypeOK
  <2> QED
    BY <1>2, <1>6, <2>1 DEF Drain, Inv, TypeOK
<1>10. drain.tails[s] = None
  BY <1>0 DEF Inv, Pending
<1>11. /\ drain'.tails[s] = t /\ \A r \in Stream : r # s => drain'.tails[r] = drain.tails[r]
       /\ m = 0 => t = None
       /\ m # 0 => t = Len(log[s]) /\ t \in Nat /\ t = After(s) + m /\ t # None
  <2>1. drain.tails \in [Stream -> Nat \cup {None}]
    BY DEF Inv, TypeOK, Drain
  <2>2. m # 0 => t = Len(log[s]) /\ t \in Nat /\ t = After(s) + m
    <3>1. Len(log[s]) \in Nat /\ After(s) \in Nat
      BY StateTyped
    <3> QED
      BY <1>4, <1>5, <1>8, <3>1
  <2> QED
    BY <1>4, <1>5, <1>8, <1>9, <1>10, <2>1, <2>2, NoneAssumption
<1>12. \A r \in Stream : After(r)' = After(r) /\ After(r) \in Nat
  BY <1>0, StateTyped DEF After
<1>13. Watched' = Watched /\ Watched \subseteq Stream
  BY <1>0 DEF Watched, Inv, TypeOK
<1>14. s \in Watched
  BY <1>0 DEF Inv, Placed
\* Where an event of the new batch is from.
<1>15. ASSUME NEW i \in 1 .. n + m
       PROVE  \/ i \in 1 .. n /\ b[i] = old[i] /\ b[i].stream # s
              \/ \E k \in 1 .. m : i = n + k /\ b[i] = rows[k]
  <2>1. CASE i \in 1 .. n
    <3>1. Fresh(old[i])
      BY <1>2, <1>3, <2>1 DEF Inv, Pending
    <3> QED
      BY <1>0, <1>7, <2>1, <3>1 DEF Fresh
  <2>2. CASE i \notin 1 .. n
    <3>1. i - n \in 1 .. m /\ i = n + (i - n)
      BY <2>2
    <3> QED
      BY <1>7, <3>1
  <2> QED
    BY <2>1, <2>2
<1>16. Numbered'
  BY <1>0 DEF Inv, Numbered
<1>17. Placed'
  BY <1>0, <1>9, <1>12, <1>13 DEF Inv, Placed
<1>18. ASSUME NEW i \in 1 .. n + m PROVE Fresh(b[i])'
  <2>1. CASE i \in 1 .. n /\ b[i] = old[i] /\ b[i].stream # s
    <3>1. Fresh(b[i]) /\ b[i].stream \in Stream
      BY <1>2, <1>3, <1>13, <2>1 DEF Inv, Pending, Fresh
    <3> QED
      BY <1>0, <1>9, <1>11, <1>12, <1>13, <2>1, <3>1 DEF Fresh
  <2>2. ASSUME NEW k \in 1 .. m, b[i] = rows[k] PROVE Fresh(b[i])'
    <3>1. b[i].stream = s /\ b[i].gen = gen[s] /\ b[i].seq = After(s) + k /\ m # 0
      BY <1>4, <1>5, <2>2
    <3>2. After(s) < b[i].seq /\ b[i].seq <= t
      BY <1>11, <1>12, <3>1
    <3>3. start[s].gen <= gen[s] /\ gen[s] \in Nat
      BY StateTyped DEF Inv, Placed
    <3> QED
      BY <1>0, <1>9, <1>11, <1>12, <1>13, <1>14, <3>1, <3>2, <3>3 DEF Fresh
  <2> QED
    BY <1>15, <2>1, <2>2
<1>19. ASSUME NEW i \in 1 .. n + m, NEW j \in 1 .. n + m, i < j, b[i].stream = b[j].stream
       PROVE  b[i].gen = b[j].gen /\ b[i].seq < b[j].seq
  <2>1. CASE b[i].stream # s
    <3>1. \A k \in 1 .. m : rows[k].stream = s
      BY <1>4, <1>5
    <3>2. i \in 1 .. n /\ b[i] = old[i] /\ j \in 1 .. n /\ b[j] = old[j]
      BY <1>15, <1>19, <2>1, <3>1
    <3> QED
      BY <1>2, <1>3, <1>19, <3>2 DEF Inv, Pending
  <2>2. CASE b[i].stream = s
    <3>1. PICK k \in 1 .. m : i = n + k /\ b[i] = rows[k]
      BY <1>15, <2>2
    <3>2. PICK l \in 1 .. m : j = n + l /\ b[j] = rows[l]
      BY <1>15, <1>19, <2>2
    <3>3. k < l
      <4>1. i < j
        BY <1>19
      <4> QED
        BY <3>1, <3>2, <4>1
    <3>4. /\ b[i].gen = gen[s] /\ b[i].seq = After(s) + k
          /\ b[j].gen = gen[s] /\ b[j].seq = After(s) + l
      BY <1>4, <1>5, <3>1, <3>2
    <3>5. After(s) \in Nat
      BY <1>12
    <3> QED
      BY <3>3, <3>4, <3>5
  <2> QED
    BY <2>1, <2>2
<1>20. ASSUME NEW r \in Stream, drain'.tails[r] # None
       PROVE  /\ r \notin drain'.todo /\ After(r) < drain'.tails[r]
              /\ gen[r] = start[r].gen =>
                   /\ drain'.tails[r] <= Len(log[r])
                   /\ \A q \in 1 .. Len(log[r]) : After(r) < q /\ q <= drain'.tails[r] =>
                        \E k \in 1 .. n + m : b[k] = log[r][q]
  <2>1. CASE r # s
    <3>1. drain'.tails[r] = drain.tails[r] /\ r \notin drain.todo
      BY <1>11, <1>20, <2>1 DEF Inv, Pending
    <3>2. \A k \in 1 .. n : k \in 1 .. n + m /\ b[k] = old[k]
      BY <1>7
    <3> QED
      BY <1>2, <1>3, <1>9, <1>20, <3>1, <3>2 DEF Inv, Pending
  <2>2. CASE r = s
    <3>1. m # 0 /\ drain'.tails[s] = t /\ t = Len(log[s]) /\ t = After(s) + m
      BY <1>11, <1>20, <2>2
    <3>2. Len(log[s]) \in Nat
      BY StateTyped
    <3>3. ASSUME NEW q \in 1 .. Len(log[s]), After(s) < q
          PROVE  \E k \in 1 .. n + m : b[k] = log[s][q]
      <4>1. PICK a \in Nat : a = After(s)
        BY <1>12
      <4>2. q - a \in 1 .. m /\ a + (q - a) = q /\ n + (q - a) \in 1 .. n + m
        BY <3>1, <3>2, <3>3, <4>1
      <4>3. rows[q - a] = log[s][q]
        BY <1>4, <1>5, <4>1, <4>2
      <4>4. b[n + (q - a)] = log[s][q]
        BY <1>7, <4>2, <4>3
      <4> QED
        BY <4>2, <4>4
    <3>4. After(s) < t /\ t <= Len(log[s])
      BY <1>12, <3>1, <3>2
    <3> QED
      BY <1>9, <2>2, <3>1, <3>3, <3>4
  <2> QED
    BY <2>1, <2>2
<1>21. ASSUME NEW i \in 1 .. Len(delivered), NEW j \in 1 .. n + m, SameStream(delivered[i], b[j])
       PROVE  delivered[i].seq < b[j].seq
  <2>1. CASE j \in 1 .. n /\ b[j] = old[j]
    BY <1>2, <1>3, <1>21, <2>1 DEF Inv, Pending
  <2>2. ASSUME NEW k \in 1 .. m, b[j] = rows[k]
        PROVE  delivered[i].seq < b[j].seq
    <3>1. b[j].stream = s /\ b[j].gen = gen[s] /\ b[j].seq = After(s) + k
      BY <1>4, <1>5, <2>2
    <3>2. delivered[i].seq <= After(s) /\ delivered[i].seq \in Nat
      BY <1>21, <3>1, EventsTyped DEF Inv, Seen, SameStream
    <3> QED
      BY <1>12, <3>1, <3>2
  <2> QED
    BY <1>15, <2>1, <2>2
<1>22. Pending'
  <2>1. Len(drain'.batch) = n + m /\ drain'.batch = b
    BY <1>7, <1>9
  <2>2. \A i \in 1 .. Len(drain'.batch) : Fresh(drain.batch[i])'
    BY <1>18, <2>1 DEF Fresh
  <2> QED
    BY <1>0, <1>12, <1>19, <1>20, <1>21, <2>1, <2>2 DEF Pending
<1>23. Seen'
  <2>1. /\ \A f : Owed(f)' <=> Owed(f)
        /\ \A f : WasDelivered(f)' <=> WasDelivered(f)
    BY <1>0, <1>13 DEF Owed, WasDelivered
  <2>2. \A i \in 1 .. Len(delivered) : delivered[i].stream \in Stream
    BY EventsTyped DEF Inv
  <2> QED
    BY <1>0, <1>12, <2>1, <2>2 DEF Inv, Seen
<1> QED
  BY <1>16, <1>17, <1>22, <1>23 DEF Inv

\* A delivery moves every cursor to its pending one.
\* The events of a batch are distinct, and those of a subscription to one stream have an
\* order.
LEMMA BatchDistinct ==
  ASSUME Inv
  PROVE  drain.batch \in Seq(Event) /\ Distinct(drain.batch)
<1>1. drain.batch \in Seq(Event)
  BY DEF Inv, TypeOK, Drain
<1> SUFFICES ASSUME NEW i \in 1 .. Len(drain.batch), NEW j \in 1 .. Len(drain.batch),
                    drain.batch[i].stream = drain.batch[j].stream,
                    drain.batch[i].seq = drain.batch[j].seq, i # j
             PROVE  FALSE
  BY <1>1 DEF Distinct
<1>2. drain.batch[i].seq \in Nat /\ i \in Nat /\ j \in Nat
  BY EventsTyped DEF Inv
<1>3. i < j \/ j < i
  BY <1>2
<1>4. drain.batch[i].seq < drain.batch[j].seq \/ drain.batch[j].seq < drain.batch[i].seq
  BY <1>3 DEF Inv, Pending
<1> QED
  BY <1>2, <1>4

LEMMA WatchedConsistent ==
  ASSUME Inv, watch # None
  PROVE  Consistent(Range(drain.batch))
<1>1. drain.batch \in Seq(Event)
  BY BatchDistinct
<1>2. \A i \in 1 .. Len(drain.batch) : drain.batch[i].stream = watch
  BY DEF Inv, Pending, Fresh, Watched
<1> QED
  BY <1>1, <1>2, OneStreamConsistent

LEMMA DeliverInv ==
  ASSUME Inv, TypeOK', Deliver
  PROVE  Inv'
<1>0. /\ log' = log /\ gate' = gate /\ gen' = gen /\ token' = token /\ watch' = watch
      /\ start' = start /\ cursor' = Advanced /\ drain' = NoDrain /\ mode = "draining"
      /\ token \in Nat
  BY DEF Deliver, store, Inv, TypeOK
<1>1. PICK m, at : /\ delivered' = delivered \o m
                   /\ Draws(m, at, drain.batch)
                   /\ mode' = "disposed" \/ (mode' = "idle" /\ DrawsAll(m, at, drain.batch))
                   /\ Consistent(Range(drain.batch)) => InOrder(m)
  BY Delivers
<1>2. PICK d \in Nat : d = Len(delivered)
  BY EventsTyped DEF Inv
<1>3. PICK n \in Nat : n = Len(drain.batch)
  BY EventsTyped DEF Inv
<1>4. /\ m \in Seq(Event) /\ Len(m) \in Nat /\ at \in [1 .. Len(m) -> 1 .. n]
      /\ \A k \in 1 .. Len(m) : m[k] = drain.batch[at[k]] /\ m[k].match
      /\ \A k, l \in 1 .. Len(m) : at[k] = at[l] => k = l
  BY <1>1, <1>3 DEF Draws
<1>5. PICK c \in Nat : c = Len(m)
  BY <1>4
<1>6. /\ Len(delivered') = d + c
      /\ \A i \in 1 .. d : i \in 1 .. d + c /\ delivered'[i] = delivered[i]
      /\ \A k \in 1 .. c : d + k \in 1 .. d + c /\ delivered'[d + k] = m[k]
  <2>1. delivered \in Seq(Event)
    BY DEF Inv, TypeOK
  <2> QED
    BY <1>1, <1>2, <1>4, <1>5, <2>1
\* Where an event of the new list is from.
<1>7. ASSUME NEW i \in 1 .. d + c
      PROVE  \/ i \in 1 .. d /\ delivered'[i] = delivered[i]
             \/ \E k \in 1 .. c : i = d + k /\ delivered'[i] = m[k]
  <2>1. CASE i \in 1 .. d
    BY <1>6, <2>1
  <2>2. CASE i \notin 1 .. d
    <3>1. i - d \in 1 .. c /\ i = d + (i - d)
      BY <2>2
    <3> QED
      BY <1>6, <3>1
  <2> QED
    BY <2>1, <2>2
<1>8. Watched' = Watched /\ Watched \subseteq Stream
  BY <1>0 DEF Watched, Inv, TypeOK
<1>9. ASSUME NEW s \in Stream
      PROVE  /\ After(s)' = IF drain.tails[s] = None THEN After(s) ELSE drain.tails[s]
             /\ After(s) \in Nat /\ After(s)' \in Nat /\ After(s) <= After(s)'
             /\ start[s].seq <= After(s)
  <2>1. cursor'[s] = IF drain.tails[s] = None THEN cursor[s] ELSE drain.tails[s]
    BY <1>0 DEF Advanced
  <2>2. After(s)' = IF drain.tails[s] = None THEN After(s) ELSE drain.tails[s]
    BY <2>1 DEF After
  <2>3. /\ After(s) \in Nat /\ drain.tails[s] \in Nat \cup {None} /\ start[s].seq \in Nat
        /\ start[s].seq <= After(s)
    BY StateTyped DEF Inv, Placed
  <2>4. drain.tails[s] # None => After(s) < drain.tails[s]
    BY DEF Inv, Pending
  <2>5. CASE drain.tails[s] = None
    BY <2>2, <2>3, <2>5
  <2>6. CASE drain.tails[s] # None
    <3>1. drain.tails[s] \in Nat /\ After(s)' = drain.tails[s]
      BY <2>2, <2>3, <2>6
    <3>2. After(s) <= drain.tails[s]
      BY <2>3, <2>4, <2>6, <3>1
    <3> QED
      BY <2>2, <2>3, <3>1, <3>2
  <2> QED
    BY <2>5, <2>6
<1>10. /\ drain'.batch = <<>> /\ drain'.base = 0 /\ Len(drain'.batch) = 0
       /\ \A s \in Stream : drain'.tails[s] = None
  BY <1>0 DEF NoDrain
<1>11. Numbered'
  BY <1>0 DEF Inv, Numbered
<1>12. Placed'
  <2>1. ASSUME NEW s \in Stream
        PROVE  /\ start[s].gen <= gen[s] /\ start[s].seq <= After(s)'
               /\ gen[s] = start[s].gen => After(s)' <= Len(log[s])
    <3>1. start[s].seq \in Nat
      BY StateTyped
    <3>2. start[s].seq <= After(s)'
      BY <1>9, <3>1
    <3>3. start[s].gen <= gen[s] /\ (gen[s] = start[s].gen => After(s) <= Len(log[s]))
      BY DEF Inv, Placed
    <3>4. drain.tails[s] # None /\ gen[s] = start[s].gen => drain.tails[s] <= Len(log[s])
      BY DEF Inv, Pending
    <3> QED
      BY <1>9, <3>2, <3>3, <3>4
  <2> QED
    BY <1>0, <1>1, <1>10, <2>1 DEF Placed
<1>13. Pending'
  BY <1>10 DEF Pending
\* Of the events it adds.
<1>14. ASSUME NEW k \in 1 .. c
       PROVE  /\ at[k] \in 1 .. n /\ m[k] = drain.batch[at[k]] /\ m[k].match /\ Fresh(m[k])
              /\ m[k].stream \in Stream /\ m[k].gen \in Nat /\ m[k].seq \in Nat
  <2>1. at[k] \in 1 .. n /\ m[k] = drain.batch[at[k]] /\ m[k].match
    BY <1>4, <1>5
  <2> QED
    BY <1>3, <2>1, EventsTyped DEF Inv, Pending
<1>15. \A e : Owed(e)' <=> Owed(e)
  BY <1>0, <1>8 DEF Owed
<1>16. ASSUME NEW i \in 1 .. d + c
       PROVE  /\ Owed(delivered'[i]) /\ delivered'[i].gen <= gen[delivered'[i].stream]
              /\ \A s \in Stream :
                   s = delivered'[i].stream /\ delivered'[i].gen = gen[s] =>
                     delivered'[i].seq <= After(s)'
              /\ delivered'[i].stream \in Stream
  <2>1. CASE i \in 1 .. d /\ delivered'[i] = delivered[i]
    <3>1. delivered[i].stream \in Stream /\ delivered[i].seq \in Nat
      BY <1>2, <2>1, EventsTyped DEF Inv
    <3>2. /\ Owed(delivered[i]) /\ delivered[i].gen <= gen[delivered[i].stream]
          /\ delivered[i].gen = gen[delivered[i].stream] =>
               delivered[i].seq <= After(delivered[i].stream)
      BY <1>2, <2>1 DEF Inv, Seen
    <3>3. ASSUME NEW s \in Stream, s = delivered[i].stream, delivered[i].gen = gen[s]
          PROVE  delivered[i].seq <= After(s)'
      <4>1. After(s) <= After(s)' /\ After(s) \in Nat /\ After(s)' \in Nat
        BY <1>9
      <4>2. delivered[i].seq <= After(s)
        BY <3>2, <3>3
      <4> QED
        BY <3>1, <4>1, <4>2
    <3> QED
      BY <2>1, <3>1, <3>2, <3>3
  <2>2. ASSUME NEW k \in 1 .. c, delivered'[i] = m[k]
        PROVE  /\ Owed(m[k]) /\ m[k].gen <= gen[m[k].stream] /\ m[k].stream \in Stream
               /\ \A s \in Stream : s = m[k].stream => m[k].seq <= After(s)'
    <3>1. PICK s \in Stream : s = m[k].stream
      BY <1>14
    <3>2. /\ s \in Watched /\ start[s].gen <= m[k].gen /\ m[k].gen <= gen[s]
          /\ After(s) < m[k].seq /\ drain.tails[s] # None /\ m[k].seq <= drain.tails[s]
          /\ m[k].gen \in Nat /\ m[k].seq \in Nat /\ m[k].match
      BY <1>14, <3>1 DEF Fresh
    <3>3. /\ start[s].gen \in Nat /\ start[s].seq \in Nat /\ start[s].seq <= After(s)
          /\ After(s) \in Nat /\ After(s)' = drain.tails[s]
      BY <1>9, <3>2, StateTyped
    <3>4. m[k].gen > start[s].gen \/ (m[k].gen = start[s].gen /\ m[k].seq > start[s].seq)
      BY <3>2, <3>3
    <3> QED
      BY <3>1, <3>2, <3>3, <3>4 DEF Owed
  <2> QED
    BY <1>7, <2>1, <2>2
<1>17. ASSUME NEW i \in 1 .. d + c, NEW j \in 1 .. d + c, i < j,
              SameStream(delivered'[i], delivered'[j])
       PROVE  /\ delivered'[i].seq # delivered'[j].seq
              /\ watch # None => delivered'[i].seq < delivered'[j].seq
  <2>1. CASE i \in 1 .. d /\ delivered'[i] = delivered[i] /\ j \in 1 .. d
             /\ delivered'[j] = delivered[j]
    BY <1>2, <1>17, <2>1 DEF Inv, Seen
  <2>2. ASSUME NEW l \in 1 .. c, delivered'[j] = m[l],
               i \in 1 .. d, delivered'[i] = delivered[i]
        PROVE  delivered'[i].seq < delivered'[j].seq
    <3>1. at[l] \in 1 .. n /\ m[l] = drain.batch[at[l]]
      BY <1>14
    <3>2. SameStream(delivered[i], drain.batch[at[l]])
      BY <1>17, <2>2, <3>1
    <3>3. delivered[i].seq < drain.batch[at[l]].seq
      BY <1>2, <1>3, <2>2, <3>1, <3>2 DEF Inv, Pending
    <3> QED
      BY <2>2, <3>1, <3>3
  <2>3. ASSUME NEW k \in 1 .. c, i = d + k, delivered'[i] = m[k]
        PROVE  /\ delivered'[i].seq # delivered'[j].seq
               /\ watch # None => delivered'[i].seq < delivered'[j].seq
    <3>1. PICK l \in 1 .. c : j = d + l /\ delivered'[j] = m[l]
      BY <1>7, <1>17, <2>3
    <3>2. k < l
      BY <1>17, <2>3, <3>1
    <3>3. at[k] # at[l] /\ m[k].stream = m[l].stream
      BY <1>4, <1>5, <1>17, <2>3, <3>1, <3>2 DEF SameStream
    <3>4. m[k] = drain.batch[at[k]] /\ m[l] = drain.batch[at[l]]
          /\ at[k] \in 1 .. n /\ at[l] \in 1 .. n
          /\ m[k].seq \in Nat /\ m[l].seq \in Nat
      BY <1>14
    <3>5. m[k].seq # m[l].seq
      BY <1>3, <3>3, <3>4, BatchDistinct DEF Distinct
    <3>6. ASSUME watch # None PROVE m[k].seq < m[l].seq
      <4>1. InOrder(m)
        BY <1>1, <3>6, WatchedConsistent
      <4>2. ~Before(m[l], m[k])
        BY <1>4, <1>5, <3>2, <4>1 DEF InOrder
      <4> QED
        BY <3>3, <3>4, <3>5, <4>2 DEF Before
    <3> QED
      BY <2>3, <3>1, <3>5, <3>6
  <2>4. ASSUME i \in 1 .. d, NEW l \in 1 .. c, delivered'[i] = delivered[i], delivered'[j] = m[l]
        PROVE  /\ delivered'[i].seq # delivered'[j].seq
               /\ delivered'[i].seq < delivered'[j].seq
    <3>1. delivered[i].seq \in Nat /\ m[l].seq \in Nat
      BY <1>2, <1>14, <2>4, EventsTyped DEF Inv
    <3> QED
      BY <2>2, <2>4, <3>1
  <2> QED
    BY <1>7, <2>1, <2>3, <2>4
<1>18. ASSUME mode' # "disposed", NEW s \in Stream, gen[s] = start[s].gen,
              NEW q \in 1 .. Len(log[s]), log[s][q].match, start[s].seq < q, q <= After(s)'
       PROVE  \E i \in 1 .. d + c : delivered'[i] = log[s][q]
  <2>1. CASE q <= After(s)
    <3>1. WasDelivered(log[s][q])
      BY <1>0, <1>18, <2>1 DEF Inv, Seen
    <3>2. PICK i \in 1 .. d : delivered[i] = log[s][q]
      BY <1>2, <3>1 DEF WasDelivered
    <3> QED
      BY <1>6, <3>2
  <2>2. CASE ~(q <= After(s))
    <3>1. drain.tails[s] # None /\ q <= drain.tails[s] /\ After(s) < q
      <4>1. Len(log[s]) \in Nat
        BY StateTyped
      <4> QED
        BY <1>9, <1>18, <2>2, <4>1
    <3>2. PICK i \in 1 .. n : drain.batch[i] = log[s][q]
      BY <1>3, <1>18, <3>1 DEF Inv, Pending
    <3>3. DrawsAll(m, at, drain.batch)
      BY <1>1, <1>18
    <3>4. PICK k \in 1 .. c : at[k] = i
      BY <1>3, <1>5, <1>18, <3>2, <3>3 DEF DrawsAll
    <3>5. delivered'[d + k] = log[s][q] /\ d + k \in 1 .. d + c
      BY <1>6, <1>14, <3>2, <3>4
    <3> QED
      BY <3>5
  <2> QED
    BY <2>1, <2>2
<1>19. Seen'
  <2>1. Len(delivered') = d + c
    BY <1>6
  <2>2. ASSUME NEW i \in 1 .. Len(delivered')
        PROVE  (/\ Owed(delivered[i]) /\ delivered[i].gen <= gen[delivered[i].stream]
                /\ delivered[i].gen = gen[delivered[i].stream] =>
                     delivered[i].seq <= After(delivered[i].stream))'
    <3>1. PICK e : e = delivered'[i]
      OBVIOUS
    <3>2. PICK s \in Stream : s = e.stream
      BY <1>16, <2>1, <3>1
    <3>3. Owed(e) /\ e.gen <= gen[s] /\ (e.gen = gen[s] => e.seq <= After(s)')
      BY <1>16, <2>1, <3>1, <3>2
    <3>4. Owed(delivered[i])'
      BY <1>0, <1>8, <3>1, <3>3 DEF Owed
    <3> QED
      BY <1>0, <3>1, <3>2, <3>3, <3>4 DEF After
  <2>3. ASSUME mode' # "disposed", NEW s \in Stream, gen[s] = start[s].gen,
               NEW q \in 1 .. Len(log[s]), log[s][q].match, start[s].seq < q, q <= After(s)'
        PROVE  WasDelivered(log[s][q])'
    <3>1. \E i \in 1 .. d + c : delivered'[i] = log[s][q]
      BY <1>18, <2>3
    <3> QED
      BY <1>0, <2>1, <3>1 DEF WasDelivered
  <2> QED
    BY <1>0, <1>17, <2>1, <2>2, <2>3 DEF Seen
<1> QED
  BY <1>11, <1>12, <1>13, <1>19 DEF Inv

LEMMA NextInv ==
  ASSUME Inv, [Next]_vars
  PROVE  Inv'
<1> USE DEF store
<1>0. TypeOK'
  BY NextTyped
<1>a. /\ NoDrain.batch = <<>> /\ NoDrain.base = 0 /\ NoDrain.todo = {}
      /\ \A s \in Stream : NoDrain.tails[s] = None
  BY DEF NoDrain
<1>b. /\ token \in Nat /\ drain.base <= token /\ floor <= token /\ drain \in Drain
      /\ mode # "draining" => drain.batch = <<>> /\ \A s \in Stream : drain.tails[s] = None
      /\ mode = "draining" => drain.todo \subseteq Watched
  BY DEF Inv, TypeOK, Placed
<1>1. ASSUME NEW s \in Stream, ForeignCommit(s) \/ OwnCommit(s) PROVE Inv'
  <2>1. Insert(s) /\ token' \in {token, token + 1}
    BY <1>1 DEF ForeignCommit, OwnCommit
  <2> QED
    BY <1>0, <2>1, InsertInv
<1>2. ASSUME NEW s \in Stream, Hook(s) PROVE Inv'
  <2>1. \/ drain' = drain /\ mode' = mode
        \/ drain' = [NoDrain EXCEPT !.source = "wake"] /\ mode' = "starting" /\ mode = "idle"
    BY <1>2 DEF Hook
  <2>2. /\ log' = log /\ gate' = gate /\ gen' = gen /\ watch' = watch /\ cursor' = cursor
        /\ start' = start /\ delivered' = delivered /\ token' = token
        /\ mode # "draining"
    BY <1>2 DEF Hook, ThreadFree
  <2>3. CASE drain' = drain /\ mode' = mode
    BY <1>0, <1>b, <2>2, <2>3, FrameInv
  <2>4. CASE drain' = [NoDrain EXCEPT !.source = "wake"] /\ mode' = "starting" /\ mode = "idle"
    <3>1. drain'.batch = <<>> /\ drain'.base = 0 /\ \A r \in Stream : drain'.tails[r] = None
      BY <2>4 DEF NoDrain
    <3> QED
      BY <1>0, <1>b, <2>2, <2>4, <3>1, FrameInv
  <2> QED
    BY <2>1, <2>3, <2>4
<1>3. CASE Baseline
  <2>1. drain' = NoDrain /\ mode' = "starting" /\ mode = "registering" /\ token' = token
    BY <1>3 DEF Baseline
  <2> QED
    BY <1>0, <1>3, <1>a, <1>b, <2>1, FrameInv DEF Baseline
<1>4. CASE Tick
  <2>1. drain' = [NoDrain EXCEPT !.source = "tick", !.base = floor] /\ mode' = "starting"
        /\ mode = "idle" /\ token' = token
    BY <1>4 DEF Tick
  <2>2. drain'.batch = <<>> /\ drain'.base = floor /\ \A r \in Stream : drain'.tails[r] = None
    BY <2>1 DEF NoDrain
  <2> QED
    BY <1>0, <1>4, <1>b, <2>1, <2>2, FrameInv DEF Tick
<1>5. CASE StartDrain
  <2>1. PICK todo : /\ drain' = [drain EXCEPT !.todo = todo] /\ todo \subseteq Watched
    BY <1>5 DEF StartDrain, Watched, Known
  <2>2. drain'.batch = drain.batch /\ drain'.base = drain.base /\ drain'.tails = drain.tails
        /\ drain'.todo = todo
    BY <1>b, <2>1 DEF Drain
  <2>3. mode = "starting" /\ mode' = "draining" /\ token' = token
    BY <1>5 DEF StartDrain
  <2> QED
    BY <1>0, <1>5, <1>b, <2>1, <2>2, <2>3, FrameInv DEF StartDrain
<1>6. CASE ReadFault
  <2>1. drain' = NoDrain /\ mode' \in {"failed", "idle"} /\ token' = token
        /\ mode \in {"registering", "starting", "draining"}
    BY <1>6 DEF ReadFault
  <2> QED
    BY <1>0, <1>6, <1>a, <1>b, <2>1, FrameInv DEF ReadFault
<1>7. CASE Dispose
  <2>1. drain' = drain /\ mode' = "disposed" /\ mode = "idle" /\ token' = token
    BY <1>7 DEF Dispose
  <2> QED
    BY <1>0, <1>7, <1>b, <2>1, FrameInv DEF Dispose
<1>8. CASE UNCHANGED vars
  <2>1. /\ log' = log /\ gate' = gate /\ gen' = gen /\ watch' = watch /\ cursor' = cursor
        /\ start' = start /\ delivered' = delivered /\ token' = token /\ drain' = drain
        /\ mode' = mode
    BY <1>8 DEF vars
  <2>2. \A s \in Stream : After(s)' = After(s)
    BY <2>1 DEF After
  <2>3. Watched' = Watched
    BY <2>1 DEF Watched
  <2>4. \A e : (Owed(e)' <=> Owed(e)) /\ (WasDelivered(e)' <=> WasDelivered(e))
    BY <2>1, <2>3 DEF Owed, WasDelivered
  <2>5. \A i \in 1 .. Len(delivered) : delivered[i].stream \in Stream
    BY EventsTyped DEF Inv
  <2>6. \A i \in 1 .. Len(drain.batch) : drain.batch[i].stream \in Stream
    BY EventsTyped DEF Inv
  <2>7. Numbered' /\ Placed'
    BY <2>1, <2>2, <2>3 DEF Inv, Numbered, Placed
  <2>8. Pending'
    <3>1. ASSUME NEW e, e.stream \in Stream PROVE Fresh(e)' <=> Fresh(e)
      BY <2>1, <2>2, <2>3, <3>1 DEF Fresh
    <3> QED
      BY <2>1, <2>2, <2>6, <3>1 DEF Inv, Pending
  <2>9. Seen'
    BY <2>1, <2>2, <2>4, <2>5 DEF Inv, Seen
  <2> QED
    BY <1>0, <2>7, <2>8, <2>9 DEF Inv
<1> QED
  BY <1>0, <1>1, <1>2, <1>3, <1>4, <1>5, <1>6, <1>7, <1>8, DeleteInv, SubscribeInv, CaptureInv,
     ReadInv, DeliverInv
  DEF Next, RegisterStep, DrainStep, Finished

\* What was delivered was owed, once and in order.
LEMMA SeenInOrder == Inv => InOrderOnce
<1> SUFFICES ASSUME Inv PROVE InOrderOnce
  OBVIOUS
<1> QED
  BY DEF Inv, Seen, InOrderOnce, SameStream

LEMMA SeenNotSkipped == Inv => NothingSkipped
<1> SUFFICES ASSUME Inv, Subscribed, NEW s \in Watched, NEW i \in 1 .. Len(log[s]),
                    Owed(log[s][i]), log[s][i].gen = start[s].gen, log[s][i].seq <= After(s)
             PROVE  WasDelivered(log[s][i])
  BY DEF NothingSkipped
<1>1. s \in Stream
  BY DEF Watched, Inv, TypeOK
<1>2. log[s][i].stream = s /\ log[s][i].gen = gen[s] /\ log[s][i].seq = i
  BY <1>1 DEF Inv, Numbered
<1>3. log[s][i].match /\ start[s].seq < i /\ i <= After(s) /\ gen[s] = start[s].gen
  <2>1. start[s].gen \in Nat /\ start[s].seq \in Nat /\ i \in Nat
    BY <1>1, StateTyped
  <2> QED
    BY <1>2, <2>1 DEF Owed
<1>4. mode # "disposed"
  BY DEF Subscribed
<1> QED
  BY <1>1, <1>3, <1>4 DEF Inv, Seen

\* Every reachable state of the subscription is typed.
THEOREM SubscriptionTyped == Spec => []TypeOK
<1>1. Inv => TypeOK
  BY DEF Inv
<1>2. Inv /\ [Next]_vars => Inv'
  BY NextInv
<1> QED
  BY <1>1, <1>2, InitInv, PTL DEF Spec

\* For any streams, timestamps, commits, deletions and faults, however the wakes, the
\* reads of drainOnce and the commits of other processes interleave, and whatever
\* Array.sort makes of a batch: the listener sees only what it is owed and nothing twice,
\* and of a subscription to one stream nothing after a later event.
THEOREM DeliveredInOrder == Spec => []InOrderOnce
<1>1. Inv /\ [Next]_vars => Inv'
  BY NextInv
<1> QED
  BY <1>1, InitInv, SeenInOrder, PTL DEF Spec

\* A step that is not Deliver hands over nothing.
LEMMA HandedIs ==
  ASSUME Inv, [Next]_vars
  PROVE  \/ Handed = <<>> /\ Len(Handed) = 0
         \/ /\ \E at : Draws(Handed, at, drain.batch)
            /\ Consistent(Range(drain.batch)) => InOrder(Handed)
<1>1. delivered \in Seq(Event)
  BY DEF Inv, TypeOK
<1>2. CASE Deliver
  <2>1. PICK m, at : /\ delivered' = delivered \o m
                     /\ Draws(m, at, drain.batch)
                     /\ Consistent(Range(drain.batch)) => InOrder(m)
    BY <1>2, Delivers
  <2>2. m \in Seq(Event)
    BY <2>1 DEF Draws
  <2>3. Handed = m
    <3>1. Handed = SubSeq(delivered \o m, Len(delivered) + 1, Len(delivered \o m))
      BY <2>1 DEF Handed
    <3>2. Len(delivered \o m) = Len(delivered) + Len(m)
      BY <1>1, <2>2
    <3>3. SubSeq(delivered \o m, Len(delivered) + 1, Len(delivered) + Len(m)) = m
      BY <1>1, <2>2
    <3> QED
      BY <3>1, <3>2, <3>3
  <2> QED
    BY <2>1, <2>3
<1>3. CASE delivered' = delivered
  BY <1>1, <1>3 DEF Handed
<1>4. Deliver \/ delivered' = delivered
  BY DEF Next, vars, store, ForeignCommit, OwnCommit, Insert, DeleteStream, Hook, Subscribe,
         RegisterStep, Capture, Baseline, Tick, DrainStep, StartDrain, Read, ReadFault,
         Dispose, Finished
<1> QED
  BY <1>2, <1>3, <1>4

\* An event of a later drain is later in its stream, whatever the wakes and ticks that
\* ran the two drains and whatever was committed or deleted between them.
THEOREM DrainsFollow == Spec => LaterDrainsFollow
<1>1. Inv /\ [Next]_vars => Inv'
  BY NextInv
<1>2. ASSUME Inv, [Next]_vars,
             NEW i \in 1 .. Len(delivered), NEW j \in 1 .. Len(Handed),
             SameStream(delivered[i], Handed[j])
      PROVE  delivered[i].seq < Handed[j].seq
  <2>1. CASE Handed = <<>> /\ Len(Handed) = 0
    BY <1>2, <2>1
  <2>2. ASSUME NEW at, Draws(Handed, at, drain.batch)
        PROVE  delivered[i].seq < Handed[j].seq
    <3>1. at[j] \in 1 .. Len(drain.batch) /\ Handed[j] = drain.batch[at[j]]
      BY <2>2 DEF Draws
    <3> QED
      BY <1>2, <3>1 DEF Inv, Pending
  <2> QED
    BY <1>2, <2>1, <2>2, HandedIs
<1>3. Inv /\ [Next]_vars =>
        [\A i \in 1 .. Len(delivered), j \in 1 .. Len(Handed) :
           SameStream(delivered[i], Handed[j]) => delivered[i].seq < Handed[j].seq]_vars
  BY <1>2
<1> QED
  BY <1>1, <1>3, InitInv, PTL DEF Spec, LaterDrainsFollow

\* A batch in which no timestamp of a stream goes back is delivered in the global order,
\* for any number of streams and events and in whatever order they were read: there the
\* comparator of drainOnce has no cycle.
THEOREM GrowingBatchOrdered == Spec => GrowingInOrder
<1>1. Inv /\ [Next]_vars => Inv'
  BY NextInv
<1>2. ASSUME Inv, [Next]_vars, Growing(drain.batch)
      PROVE  InOrder(Handed)
  <2>1. Consistent(Range(drain.batch))
    BY <1>2, BatchDistinct, GrowingConsistent
  <2>2. CASE Handed = <<>>
    BY <2>2 DEF InOrder
  <2> QED
    BY <1>2, <2>1, <2>2, HandedIs
<1>3. Inv /\ [Next]_vars => [Growing(drain.batch) => InOrder(Handed)]_vars
  BY <1>2
<1> QED
  BY <1>1, <1>3, InitInv, PTL DEF Spec, GrowingInOrder

\* A cursor of a live subscription has passed no event that the listener was owed and
\* did not see: drainOnce moves the cursors only after every read and up to what it read.
THEOREM CursorSkipsNothing == Spec => []NothingSkipped
<1>1. Inv /\ [Next]_vars => Inv'
  BY NextInv
<1> QED
  BY <1>1, InitInv, SeenNotSkipped, PTL DEF Spec

=============================================================================
