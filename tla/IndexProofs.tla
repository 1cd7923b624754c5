----------------------------- MODULE IndexProofs -----------------------------
(***************************************************************************)
(* What the index guarantees for any number of workers, pushes, files and  *)
(* contents, any limits of the cache and the bus, and any faults.          *)
(***************************************************************************)
EXTENDS Indexing, FiniteSetTheorems, SequenceTheorems, TLAPS

Indices == 1..Len(queue)

(* The queue as a function on its indices.                                *)
LEMMA StreamIndices ==
  ASSUME Bus!BusTypeOK
  PROVE  /\ Len(queue) \in Nat /\ DOMAIN queue = Indices
         /\ Indices \subseteq 1..PushMessages
         /\ \A s \in Indices : /\ queue[s] \in Bus!Message
                               /\ queue[s].key \in Commits
                               /\ queue[s].deliveries \in Nat
         /\ \A w \in Indexers : busy[w] # 0 => busy[w] \in Indices
<1>1. Len(queue) \in Nat /\ DOMAIN queue = Indices /\ \A s \in Indices : queue[s] \in Bus!Message
  BY LenProperties, ElementOfSeq DEF Bus!BusTypeOK, Indices
<1>2. Indices \subseteq 1..PushMessages
  BY <1>1, IndexAssumption DEF Bus!BusTypeOK, Indices
<1> QED  BY <1>1, <1>2, IndexAssumption DEF Bus!BusTypeOK, Bus!Seqs, Bus!Message

(* The same of the queue after a step.                                    *)
LEMMA PrimedIndices ==
  ASSUME Bus!BusTypeOK'
  PROVE  \A s \in Indices' : s \in 1..PushMessages /\ queue'[s].deliveries \in Nat
<1>1. DOMAIN queue' = Indices' /\ \A s \in Indices' : queue'[s] \in Bus!Message
  BY LenProperties, ElementOfSeq DEF Bus!BusTypeOK, Indices
<1>2. Indices' \subseteq 1..PushMessages
  BY <1>1, LenProperties, IndexAssumption DEF Bus!BusTypeOK, Indices
<1> QED  BY <1>1, <1>2, IndexAssumption DEF Bus!Message

(* No step of the bus forgets a message, changes its key or takes a        *)
(* delivery back.                                                          *)
Keeps ==
  /\ Bus!BusTypeOK'
  /\ Indices \subseteq Indices'
  /\ \A s \in Indices : /\ queue'[s].key = queue[s].key
                        /\ queue'[s].deliveries >= queue[s].deliveries

(* Replacing a message by one with its key and no fewer deliveries.        *)
LEMMA Replaced ==
  ASSUME Bus!BusTypeOK, NEW s \in Indices, NEW m \in Bus!Message,
         queue' = [queue EXCEPT ![s] = m], m.key = queue[s].key,
         m.deliveries >= queue[s].deliveries,
         dedup' = dedup,
         busy' = busy \/ \E w \in Indexers, i \in {0, s} : busy' = [busy EXCEPT ![w] = i]
  PROVE  /\ Keeps /\ queue'[s] = m
         /\ Indices' = Indices /\ \A t \in Indices \ {s} : queue'[t] = queue[t]
<1>1. s \in 1..Len(queue)  BY DEF Indices
<1>2. /\ queue' \in Seq(Bus!Message) /\ Len(queue') = Len(queue)
      /\ \A t \in 1..Len(queue) : queue'[t] = IF t = s THEN m ELSE queue[t]
  BY <1>1, ExceptSeq DEF Bus!BusTypeOK
<1>3. DOMAIN queue' = Indices /\ Indices' = Indices
  BY <1>2, LenProperties DEF Indices
<1>4. s \in 1..PushMessages  BY StreamIndices
<1>5. Bus!BusTypeOK'
  BY <1>2, <1>3, <1>4, StreamIndices, IndexAssumption DEF Bus!BusTypeOK, Bus!Seqs
<1>6. \A t \in Indices : queue[t].deliveries \in Nat  BY StreamIndices
<1> QED  BY <1>2, <1>3, <1>5, <1>6 DEF Keeps, Indices

(* The messages that acks and timers leave.                                *)
LEMMA ReplacedFields ==
  ASSUME NEW m \in Bus!Message
  PROVE  /\ [m EXCEPT !.state = IF @ \in Bus!Gone THEN @ ELSE "acked"] \in Bus!Message
         /\ [m EXCEPT !.state = IF @ \in Bus!Gone THEN @ ELSE "acked"].key = m.key
         /\ [m EXCEPT !.state = IF @ \in Bus!Gone THEN @ ELSE "acked"].deliveries >= m.deliveries
         /\ [m EXCEPT !.state = "ready"] \in Bus!Message
         /\ [m EXCEPT !.state = "ready"].key = m.key
         /\ [m EXCEPT !.state = "ready"].deliveries >= m.deliveries
         /\ [m EXCEPT !.state = "expired"] \in Bus!Message
         /\ [m EXCEPT !.state = "expired"].key = m.key
         /\ [m EXCEPT !.state = "expired"].deliveries >= m.deliveries
BY IndexAssumption DEF Bus!Message, Bus!Gone

(* The message a delivery leaves.                                          *)
LEMMA DeliveredFields ==
  ASSUME NEW m \in Bus!Message, m.deliveries < PushDeliver
  PROVE  /\ [m EXCEPT !.state = "inflight", !.deliveries = @ + 1] \in Bus!Message
         /\ [m EXCEPT !.state = "inflight", !.deliveries = @ + 1].key = m.key
         /\ [m EXCEPT !.state = "inflight", !.deliveries = @ + 1].deliveries = m.deliveries + 1
<1>1. m.deliveries + 1 \in 0..PushDeliver
  BY IndexAssumption DEF Bus!Message
<1> QED  BY <1>1 DEF Bus!Message

(* Each step of the bus by itself.                                         *)
LEMMA PublishKeeps ==
  ASSUME Bus!BusTypeOK, NEW k \in Commits, Bus!Publish(k)
  PROVE  /\ Keeps /\ busy' = busy
         /\ \A s \in Indices : queue'[s] = queue[s]
         /\ \A s \in Indices' \ Indices : queue'[s].deliveries = 0 /\ queue'[s].key = k
<1>1. CASE UNCHANGED queueVars
  <2>1. \A s \in Indices : queue[s].deliveries \in Nat  BY StreamIndices
  <2> QED  BY <1>1, <2>1 DEF queueVars, Keeps, Indices, Bus!BusTypeOK, Bus!Seqs
<1>2. CASE Bus!Store(k)
  <2> DEFINE m == [key |-> k, state |-> "ready", deliveries |-> 0]
  <2>1. m \in Bus!Message /\ m.deliveries = 0 /\ m.key = k  BY IndexAssumption DEF Bus!Message
  <2>2. /\ queue' \in Seq(Bus!Message) /\ Len(queue') = Len(queue) + 1
        /\ \A s \in Indices : queue'[s] = queue[s]
        /\ queue'[Len(queue) + 1] = m
    BY <1>2, <2>1, StreamIndices DEF Bus!Store, Indices, Bus!BusTypeOK
  <2>3. DOMAIN queue' = Indices' /\ Indices' = Indices \cup {Len(queue) + 1}
    BY <2>2, StreamIndices, LenProperties DEF Indices
  <2>4. Bus!BusTypeOK'
    BY <1>2, <2>2, <2>3, StreamIndices, IndexAssumption DEF Bus!Store, Bus!BusTypeOK, Bus!Seqs
  <2>5. \A s \in Indices : queue[s].deliveries \in Nat  BY StreamIndices
  <2> QED  BY <1>2, <2>1, <2>2, <2>3, <2>4, <2>5 DEF Bus!Store, Keeps
<1> QED  BY <1>1, <1>2 DEF Bus!Publish, Bus!busVars, queueVars

(* A delivery is counted once, for the message delivered.                  *)
LEMMA DeliverKeeps ==
  ASSUME Bus!BusTypeOK, NEW w \in Indexers, NEW s \in DOMAIN queue, Bus!Deliver(w, s)
  PROVE  /\ Keeps /\ Indices' = Indices
         /\ queue'[s].deliveries = queue[s].deliveries + 1
         /\ \A t \in Indices \ {s} : queue'[t] = queue[t]
<1> DEFINE m == [queue[s] EXCEPT !.state = "inflight", !.deliveries = @ + 1]
<1>1. s \in Indices /\ queue[s] \in Bus!Message /\ queue[s].deliveries \in Nat
  BY StreamIndices
<1>2. queue' = [queue EXCEPT ![s] = m] /\ dedup' = dedup /\ busy' = [busy EXCEPT ![w] = s]
  BY DEF Bus!Deliver
<1>3. m \in Bus!Message /\ m.key = queue[s].key /\ m.deliveries = queue[s].deliveries + 1
  BY <1>1, DeliveredFields DEF Bus!Deliver
<1>4. m.deliveries >= queue[s].deliveries  BY <1>1, <1>3
<1> HIDE DEF m
<1> QED  BY <1>1, <1>2, <1>3, <1>4, Replaced

(* Neither way a callback ends counts a delivery.                          *)
LEMMA LetGoKeeps ==
  ASSUME Bus!BusTypeOK, NEW w \in Indexers, Bus!Ack(w) \/ Bus!Abandon(w)
  PROVE  Keeps /\ Indices' = Indices /\ busy' = [busy EXCEPT ![w] = 0]
<1>1. PICK s \in Indices : s = busy[w]
  BY StreamIndices DEF Bus!Ack, Bus!Abandon
<1>2. queue[s] \in Bus!Message  BY StreamIndices
<1>3. CASE Bus!Ack(w)
  <2> DEFINE m == [queue[s] EXCEPT !.state = IF @ \in Bus!Gone THEN @ ELSE "acked"]
  <2>1. queue' = [queue EXCEPT ![s] = m] /\ dedup' = dedup /\ busy' = [busy EXCEPT ![w] = 0]
    BY <1>1, <1>3 DEF Bus!Ack
  <2>2. m \in Bus!Message /\ m.key = queue[s].key /\ m.deliveries >= queue[s].deliveries
    BY <1>2, ReplacedFields
  <2> HIDE DEF m
  <2> QED  BY <1>1, <2>1, <2>2, Replaced
<1>4. CASE Bus!Abandon(w)
  <2>1. Bus!BusTypeOK'  BY <1>4, IndexAssumption DEF Bus!Abandon, Bus!BusTypeOK, Bus!Seqs
  <2>2. \A t \in Indices : queue[t].deliveries \in Nat  BY StreamIndices
  <2> QED  BY <1>4, <2>1, <2>2 DEF Bus!Abandon, Keeps, Indices
<1> QED  BY <1>3, <1>4

(* Nor do the timers of the server.                                        *)
LEMMA TimerKeeps ==
  ASSUME Bus!BusTypeOK,
         \/ \E k \in Commits : Bus!WindowExpires(k)
         \/ \E s \in DOMAIN queue : Bus!AckWaitExpires(s) \/ Bus!AgeOut(s)
  PROVE  Keeps /\ Indices' = Indices /\ busy' = busy
<1>0. \A t \in Indices : queue[t].deliveries \in Nat  BY StreamIndices
<1>1. ASSUME NEW k \in Commits, Bus!WindowExpires(k) PROVE Keeps /\ Indices' = Indices /\ busy' = busy
  BY <1>0, <1>1 DEF Bus!WindowExpires, Keeps, Indices, Bus!BusTypeOK, Bus!Seqs
<1>2. ASSUME NEW s \in DOMAIN queue, Bus!AckWaitExpires(s)
      PROVE  Keeps /\ Indices' = Indices /\ busy' = busy
  <2> DEFINE m == [queue[s] EXCEPT !.state = "ready"]
  <2>1. s \in Indices /\ queue[s] \in Bus!Message  BY StreamIndices
  <2>2. queue' = [queue EXCEPT ![s] = m] /\ dedup' = dedup /\ busy' = busy
    BY <1>2 DEF Bus!AckWaitExpires
  <2>3. m \in Bus!Message /\ m.key = queue[s].key /\ m.deliveries >= queue[s].deliveries
    BY <2>1, ReplacedFields
  <2> HIDE DEF m
  <2> QED  BY <2>1, <2>2, <2>3, Replaced
<1>3. ASSUME NEW s \in DOMAIN queue, Bus!AgeOut(s)
      PROVE  Keeps /\ Indices' = Indices /\ busy' = busy
  <2> DEFINE m == [queue[s] EXCEPT !.state = "expired"]
  <2>1. s \in Indices /\ queue[s] \in Bus!Message  BY StreamIndices
  <2>2. queue' = [queue EXCEPT ![s] = m] /\ dedup' = dedup /\ busy' = busy
    BY <1>3 DEF Bus!AgeOut
  <2>3. m \in Bus!Message /\ m.key = queue[s].key /\ m.deliveries >= queue[s].deliveries
    BY <2>1, ReplacedFields
  <2> HIDE DEF m
  <2> QED  BY <2>1, <2>2, <2>3, Replaced
<1> QED  BY <1>1, <1>2, <1>3

(* A step that leaves the bus alone.                                       *)
LEMMA BusUnchanged ==
  ASSUME Bus!BusTypeOK, UNCHANGED queueVars
  PROVE  Keeps /\ Indices' = Indices /\ \A s \in Indices : queue'[s] = queue[s]
<1>0. \A t \in Indices : queue[t].deliveries \in Nat  BY StreamIndices
<1> QED  BY <1>0 DEF queueVars, Keeps, Indices, Bus!BusTypeOK, Bus!Seqs

-----------------------------------------------------------------------------
(* Partial functions, and the sets in some order.                          *)

LEMMA PartialMapOf ==
  ASSUME NEW D, NEW R
  PROVE  /\ \A f \in PartialMap(D, R) : DOMAIN f \in SUBSET D /\ f \in [DOMAIN f -> R]
         /\ \A S \in SUBSET D : \A f \in [S -> R] : f \in PartialMap(D, R)
<1>1. ASSUME NEW f \in PartialMap(D, R) PROVE DOMAIN f \in SUBSET D /\ f \in [DOMAIN f -> R]
  <2>1. PICK S \in SUBSET D : f \in [S -> R]  BY <1>1 DEF PartialMap
  <2>2. DOMAIN f = S  BY <2>1
  <2> QED  BY <2>1, <2>2
<1>2. ASSUME NEW S \in SUBSET D, NEW f \in [S -> R] PROVE f \in PartialMap(D, R)
  BY <1>2 DEF PartialMap
<1> QED  BY <1>1, <1>2

LEMMA OrderOf ==
  ASSUME NEW S, IsFiniteSet(S), NEW p \in Orders(S)
  PROVE  /\ Cardinality(S) \in Nat /\ p \in [1..Cardinality(S) -> S]
         /\ p \in Seq(S) /\ Len(p) = Cardinality(S) /\ DOMAIN p = 1..Cardinality(S)
         /\ Range(p) = S /\ \A h \in S : \E i \in DOMAIN p : p[i] = h
         /\ \A i, j \in DOMAIN p : p[i] = p[j] => i = j
<1>1. Cardinality(S) \in Nat /\ p \in [1..Cardinality(S) -> S] /\ Range(p) = S
  BY FS_CardinalityType DEF Orders
<1>2. p \in Surjection(1..Cardinality(S), S)  BY <1>1 DEF Surjection, Range
<1>3. IsFiniteSet(1..Cardinality(S)) /\ Cardinality(1..Cardinality(S)) = Cardinality(S)
  BY <1>1, FS_Interval
<1>4. p \in Injection(1..Cardinality(S), S)  BY <1>2, <1>3, FS_SurjSameCardinalityImpliesInj
<1>5. \A i, j \in DOMAIN p : p[i] = p[j] => i = j  BY <1>1, <1>4 DEF Injection, IsInjective
<1>6. \A h \in S : \E i \in DOMAIN p : p[i] = h  BY <1>1 DEF Range
<1>7. p \in Seq(S) /\ Len(p) = Cardinality(S)  BY <1>1
<1> QED  BY <1>1, <1>5, <1>6, <1>7

(* One order behind another.                                               *)
LEMMA OrdersConcatenated ==
  ASSUME NEW S, NEW T, IsFiniteSet(S), IsFiniteSet(T), S \cap T = {}, NEW p \in Orders(S), NEW q \in Orders(T)
  PROVE  p \o q \in Orders(S \cup T)
<1>1. /\ p \in Seq(S) /\ Len(p) = Cardinality(S) /\ Cardinality(S) \in Nat /\ DOMAIN p = 1..Cardinality(S)
      /\ \A h \in S : \E i \in DOMAIN p : p[i] = h
  BY OrderOf
<1>2. /\ q \in Seq(T) /\ Len(q) = Cardinality(T) /\ Cardinality(T) \in Nat /\ DOMAIN q = 1..Cardinality(T)
      /\ \A h \in T : \E i \in DOMAIN q : q[i] = h
  BY OrderOf
<1>3. Cardinality(S \cup T) = Cardinality(S) + Cardinality(T)
  <2>1. Cardinality({}) = 0  BY FS_EmptySet
  <2>2. Cardinality(S \cup T) = Cardinality(S) + Cardinality(T) - Cardinality(S \cap T)  BY FS_Union
  <2>3. Cardinality(S \cup T) = Cardinality(S) + Cardinality(T) - 0  BY <2>1, <2>2
  <2> QED  BY <1>1, <1>2, <2>3
<1> DEFINE n == Cardinality(S)
           m == Cardinality(T)
           r == p \o q
<1>4. p \in Seq(S \cup T) /\ q \in Seq(S \cup T)  BY <1>1, <1>2
<1>5. /\ r \in Seq(S \cup T) /\ Len(r) = n + m
      /\ \A i \in 1..n + m : r[i] = IF i <= n THEN p[i] ELSE q[i - n]
  <2>1. /\ r \in Seq(S \cup T) /\ Len(r) = Len(p) + Len(q)
        /\ \A i \in 1..Len(p) + Len(q) : r[i] = IF i <= Len(p) THEN p[i] ELSE q[i - Len(p)]
    BY <1>4, ConcatProperties
  <2> HIDE DEF r
  <2> QED  BY <1>1, <1>2, <2>1
<1>6. r \in [1..Cardinality(S \cup T) -> S \cup T]  BY <1>3, <1>5, LenProperties
<1>7. ASSUME NEW h \in S \cup T PROVE \E i \in 1..n + m : r[i] = h
  <2>1. CASE h \in S
    <3>1. PICK i \in 1..n : p[i] = h  BY <1>1, <2>1
    <3>2. i \in 1..n + m /\ i <= n  BY <1>1, <1>2
    <3> HIDE DEF r
    <3> QED  BY <1>5, <3>1, <3>2
  <2>2. CASE h \in T
    <3>1. PICK i \in 1..m : q[i] = h  BY <1>2, <2>2
    <3>2. i + n \in 1..n + m /\ ~ (i + n <= n) /\ (i + n) - n = i  BY <1>1, <1>2
    <3>3. r[i + n] = q[i]
      <4> HIDE DEF r
      <4> QED  BY <1>5, <3>2
    <3> HIDE DEF r
    <3> QED  BY <3>1, <3>2, <3>3
  <2> QED  BY <2>1, <2>2
<1>8. Range(r) = S \cup T
  <2>1. DOMAIN r = 1..n + m  BY <1>3, <1>6
  <2>2. \A i \in DOMAIN r : r[i] \in S \cup T  BY <1>3, <1>6
  <2> HIDE DEF r, n, m
  <2> QED  BY <1>7, <2>1, <2>2 DEF Range
<1> QED  BY <1>6, <1>8 DEF Orders

(* The first of an order are an order of themselves.                       *)
LEMMA OrderCut ==
  ASSUME NEW S, IsFiniteSet(S), NEW p \in Orders(S), NEW k \in Nat, k <= Len(p)
  PROVE  LET cut == SubSeq(p, 1, k)
         IN  cut \in Orders(Range(cut)) /\ Range(cut) \in SUBSET S
<1> DEFINE cut == SubSeq(p, 1, k)
<1>1. /\ p \in Seq(S) /\ Len(p) \in Nat /\ DOMAIN p = 1..Len(p)
      /\ \A i, j \in DOMAIN p : p[i] = p[j] => i = j
  BY OrderOf
<1>2. \A i \in 1..k : i \in DOMAIN p /\ p[i] \in S  BY <1>1, ElementOfSeq
<1>3. cut \in Seq(S) /\ Len(cut) = k /\ \A i \in 1..k : cut[i] = p[i]
  <2>1. /\ cut \in Seq(S) /\ Len(cut) = IF 1 <= k THEN k - 1 + 1 ELSE 0
        /\ \A i \in 1..(k - 1 + 1) : cut[i] = p[1 + i - 1]
    BY <1>2, SubSeqProperties
  <2>2. \A i \in 1..k : 1 + i - 1 = i /\ i \in 1..(k - 1 + 1)  OBVIOUS
  <2> QED  BY <2>1, <2>2
<1> HIDE DEF cut
<1>4. DOMAIN cut = 1..k /\ cut \in [1..k -> Range(cut)]
  <2>1. DOMAIN cut = 1..k /\ cut \in [1..k -> S]  BY <1>3, LenProperties
  <2> QED  BY <2>1 DEF Range
<1>5. cut \in Surjection(1..k, Range(cut)) /\ cut \in Injection(1..k, Range(cut))
  <2>1. \A i, j \in 1..k : cut[i] = cut[j] => i = j  BY <1>1, <1>2, <1>3
  <2> QED  BY <1>4, <2>1 DEF Surjection, Injection, IsInjective, Range
<1>6. Cardinality(Range(cut)) = k
  <2>1. IsFiniteSet(1..k) /\ Cardinality(1..k) = k  BY FS_Interval
  <2> QED  BY <1>5, <2>1, FS_Surjection
<1>7. Range(cut) \in SUBSET S  BY <1>2, <1>3, <1>4 DEF Range
<1>8. cut \in Orders(Range(cut))  BY <1>4, <1>6 DEF Orders
<1> QED  BY <1>7, <1>8 DEF cut

-----------------------------------------------------------------------------
(* The inductive invariant.                                               *)

Open == {"list", "lookup", "embed", "put", "upsert"}

(* The workers that may still insert rows for commit n.                   *)
Working(n) == {w \in Indexers : busy[w] # 0 /\ JobCommit(w) = n /\ at[w] \in Open}

(* A job exists for pushed commits only.                                  *)
KeysPushed == Len(trees) >= 1 /\ \A s \in Indices : queue[s].key \in DOMAIN trees

(* What a worker knows is true, and complete once it has embedded.        *)
VectorsTrue ==
  /\ VectorsMatchContents
  /\ \A w \in Indexers :
       /\ \A h \in DOMAIN known[w] : known[w][h] = h
       /\ at[w] \in {"put", "upsert"} => DOMAIN group[w] \subseteq DOMAIN known[w]

(* The files a worker has collected are in the commit of its job.         *)
GroupsInCommit ==
  \A w \in Indexers : at[w] \in Open \ {"list"} =>
    \A h \in DOMAIN group[w] : \A f \in group[w][h] : trees[JobCommit(w)][f] # NoFile

(* Every delivery pays for one insertion, made or still to come.          *)
InsertionsPaid ==
  \A n \in Commits, f \in Files :
    /\ chunks[n][f] + Cardinality(Working(n)) <= Cardinality(DeliveriesOf(n))
    /\ chunks[n][f] > 0 => n \in DOMAIN trees /\ trees[n][f] # NoFile

IndexInv == IndexTypeOK /\ KeysPushed /\ VectorsTrue /\ GroupsInCommit /\ InsertionsPaid

(* The job of a worker that has one.                                      *)
LEMMA JobOf ==
  ASSUME IndexTypeOK, NEW w \in Indexers, at[w] # "idle"
  PROVE  busy[w] # 0 /\ busy[w] \in Indices /\ JobCommit(w) \in Commits
<1>1. Bus!BusTypeOK /\ busy[w] # 0  BY DEF IndexTypeOK
<1> QED  BY <1>1, StreamIndices DEF JobCommit

(* Counting.                                                              *)
LEMMA DeliveriesFinite ==
  ASSUME Bus!BusTypeOK, NEW n
  PROVE  IsFiniteSet(DeliveriesOf(n)) /\ Cardinality(DeliveriesOf(n)) \in Nat
<1>1. Len(queue) \in Nat /\ DOMAIN queue = 1..Len(queue) /\ PushDeliver \in Nat
  BY StreamIndices, IndexAssumption DEF Indices
<1>2. IsFiniteSet(1..Len(queue)) /\ IsFiniteSet(1..PushDeliver)  BY <1>1, FS_Interval
<1>3. IsFiniteSet((DOMAIN queue) \X (1..PushDeliver))  BY <1>1, <1>2, FS_Product
<1>4. DeliveriesOf(n) \subseteq (DOMAIN queue) \X (1..PushDeliver)  BY DEF DeliveriesOf
<1> QED  BY <1>3, <1>4, FS_Subset, FS_CardinalityType

LEMMA DeliveriesFiniteAfter ==
  ASSUME Bus!BusTypeOK', NEW n
  PROVE  IsFiniteSet(DeliveriesOf(n)') /\ Cardinality(DeliveriesOf(n)') \in Nat
<1>1. Len(queue') \in Nat /\ DOMAIN queue' = 1..Len(queue') /\ PushDeliver \in Nat
  BY LenProperties, IndexAssumption DEF Bus!BusTypeOK
<1>2. IsFiniteSet(1..Len(queue')) /\ IsFiniteSet(1..PushDeliver)  BY <1>1, FS_Interval
<1>3. IsFiniteSet((DOMAIN queue') \X (1..PushDeliver))  BY <1>1, <1>2, FS_Product
<1>4. DeliveriesOf(n)' \subseteq (DOMAIN queue') \X (1..PushDeliver)  BY DEF DeliveriesOf
<1> QED  BY <1>3, <1>4, FS_Subset, FS_CardinalityType

LEMMA WorkingFinite ==
  ASSUME NEW n
  PROVE  /\ IsFiniteSet(Working(n)) /\ Cardinality(Working(n)) \in Nat
         /\ IsFiniteSet(Working(n)') /\ Cardinality(Working(n)') \in Nat
<1>1. Working(n) \subseteq Indexers /\ Working(n)' \subseteq Indexers  BY DEF Working
<1> QED  BY <1>1, IndexAssumption, FS_Subset, FS_CardinalityType

LEMMA DeliveriesGrow ==
  ASSUME Bus!BusTypeOK, Keeps, NEW n
  PROVE  DeliveriesOf(n) \subseteq DeliveriesOf(n)'
         /\ Cardinality(DeliveriesOf(n)) <= Cardinality(DeliveriesOf(n)')
<1>1. DOMAIN queue = Indices /\ \A s \in Indices : queue[s].deliveries \in Nat
  BY StreamIndices
<1>2. DOMAIN queue' = Indices' /\ \A s \in Indices' : queue'[s].deliveries \in Nat
  BY PrimedIndices, LenProperties DEF Keeps, Indices, Bus!BusTypeOK
<1>3. ASSUME NEW p \in DeliveriesOf(n) PROVE p \in DeliveriesOf(n)'
  <2>1. /\ p \in Indices \X (1..PushDeliver) /\ queue[p[1]].key = n
        /\ p[2] <= queue[p[1]].deliveries /\ p[1] \in Indices /\ p[2] \in Nat
    BY <1>1, <1>3 DEF DeliveriesOf
  <2>2. p[1] \in Indices' /\ queue'[p[1]].key = n  BY <2>1 DEF Keeps
  <2>3. p[2] <= queue'[p[1]].deliveries  BY <1>1, <1>2, <2>1, <2>2 DEF Keeps
  <2>4. p \in Indices' \X (1..PushDeliver)  BY <2>1 DEF Keeps
  <2> QED  BY <1>2, <2>2, <2>3, <2>4 DEF DeliveriesOf
<1>4. DeliveriesOf(n) \subseteq DeliveriesOf(n)'  BY <1>3
<1>5. IsFiniteSet(DeliveriesOf(n)')  BY DeliveriesFiniteAfter DEF Keeps
<1> QED  BY <1>4, <1>5, FS_Subset

LEMMA DeliveryCounted ==
  ASSUME Bus!BusTypeOK, NEW w \in Indexers, NEW s \in DOMAIN queue, Bus!Deliver(w, s),
         NEW n, n = queue[s].key
  PROVE  Cardinality(DeliveriesOf(n)') >= Cardinality(DeliveriesOf(n)) + 1
<1> DEFINE p == <<s, queue[s].deliveries + 1>>
<1>1. /\ Keeps /\ Indices' = Indices /\ queue'[s].deliveries = queue[s].deliveries + 1
      /\ s \in Indices /\ queue[s].deliveries \in Nat /\ queue'[s].key = n
  BY DeliverKeeps, StreamIndices DEF Keeps
<1>2. DOMAIN queue' = Indices  BY <1>1, LenProperties DEF Keeps, Indices, Bus!BusTypeOK
<1>3. queue[s].deliveries + 1 \in 1..PushDeliver
  BY <1>1, IndexAssumption DEF Bus!Deliver
<1>4. p \in DeliveriesOf(n)' \ DeliveriesOf(n)
  BY <1>1, <1>2, <1>3 DEF DeliveriesOf
<1>5. IsFiniteSet(DeliveriesOf(n)) /\ Cardinality(DeliveriesOf(n)) \in Nat  BY DeliveriesFinite
<1>6. IsFiniteSet(DeliveriesOf(n)') /\ Cardinality(DeliveriesOf(n)') \in Nat
  BY <1>1, DeliveriesFiniteAfter DEF Keeps
<1>7. DeliveriesOf(n) \subseteq DeliveriesOf(n)'  BY <1>1, DeliveriesGrow
<1> HIDE DEF p
<1>8. /\ IsFiniteSet(DeliveriesOf(n) \cup {p})
      /\ Cardinality(DeliveriesOf(n) \cup {p}) = Cardinality(DeliveriesOf(n)) + 1
  BY <1>4, <1>5, FS_AddElement
<1>9. DeliveriesOf(n) \cup {p} \subseteq DeliveriesOf(n)'  BY <1>4, <1>7
<1>10. Cardinality(DeliveriesOf(n) \cup {p}) <= Cardinality(DeliveriesOf(n)')
  BY <1>6, <1>9, FS_Subset
<1> QED  BY <1>5, <1>6, <1>8, <1>10

(* What a worker's step does to the jobs: the others keep theirs.         *)
LEMMA JobKept ==
  ASSUME Bus!BusTypeOK, Keeps, NEW v \in Indexers, busy[v] # 0, busy'[v] = busy[v]
  PROVE  JobCommit(v)' = JobCommit(v)
BY StreamIndices DEF Keeps, JobCommit

(* A worker goes from one call to the next.                               *)
LEMMA WorkerMoves ==
  ASSUME IndexTypeOK, NEW w \in Indexers, at[w] \in Open, NEW p \in Open \cup {"ack"},
         at' = [at EXCEPT ![w] = p], UNCHANGED queueVars
  PROVE  /\ Keeps /\ Indices' = Indices /\ \A s \in Indices : queue'[s] = queue[s]
         /\ at' \in [Indexers -> Open \cup {"idle", "ack"}]
         /\ \A v \in Indexers : at'[v] = "idle" <=> busy'[v] = 0
         /\ \A v \in Indexers : JobCommit(v)' = JobCommit(v)
         /\ \A n : Working(n)' \subseteq Working(n) /\ (p = "ack" => w \notin Working(n)')
<1>1. Keeps /\ Indices' = Indices /\ \A s \in Indices : queue'[s] = queue[s]
  BY BusUnchanged DEF IndexTypeOK
<1>2. /\ at \in [Indexers -> Open \cup {"idle", "ack"}]
      /\ \A v \in Indexers : at[v] = "idle" <=> busy[v] = 0
  BY DEF IndexTypeOK, Open
<1>3. /\ at' \in [Indexers -> Open \cup {"idle", "ack"}]
      /\ \A v \in Indexers : at'[v] = "idle" <=> busy'[v] = 0
  BY <1>2 DEF Open, queueVars
<1>4. \A v : JobCommit(v)' = JobCommit(v)  BY DEF JobCommit, queueVars
<1>5. \A n : Working(n)' \subseteq Working(n) /\ (p = "ack" => w \notin Working(n)')
  BY <1>2, <1>4 DEF Working, Open, queueVars
<1> QED  BY <1>1, <1>3, <1>4, <1>5

(* A worker lets its job go.                                              *)
LEMMA WorkerRests ==
  ASSUME IndexTypeOK, NEW w \in Indexers, Bus!Ack(w) \/ Bus!Abandon(w),
         at' = [at EXCEPT ![w] = "idle"]
  PROVE  /\ Keeps /\ Indices' = Indices
         /\ at' \in [Indexers -> Open \cup {"idle", "ack"}]
         /\ \A v \in Indexers : at'[v] = "idle" <=> busy'[v] = 0
         /\ \A v \in Indexers \ {w} : busy[v] # 0 => JobCommit(v)' = JobCommit(v)
         /\ \A n : Working(n)' \subseteq Working(n)
<1>0. Bus!BusTypeOK /\ busy \in [Indexers -> 0..PushMessages]  BY DEF IndexTypeOK, Bus!BusTypeOK
<1>1. Keeps /\ Indices' = Indices /\ busy' = [busy EXCEPT ![w] = 0]
  BY <1>0, LetGoKeeps
<1>2. /\ at \in [Indexers -> Open \cup {"idle", "ack"}]
      /\ \A v \in Indexers : at[v] = "idle" <=> busy[v] = 0
  BY DEF IndexTypeOK, Open
<1>3. /\ at' \in [Indexers -> Open \cup {"idle", "ack"}]
      /\ \A v \in Indexers : at'[v] = "idle" <=> busy'[v] = 0
  BY <1>0, <1>1, <1>2
<1>4. \A v \in Indexers \ {w} : busy[v] # 0 => JobCommit(v)' = JobCommit(v)
  BY <1>0, <1>1, JobKept
<1>5. \A n : Working(n)' \subseteq Working(n)
  BY <1>0, <1>1, <1>2, <1>4 DEF Working, Open
<1> QED  BY <1>1, <1>3, <1>4, <1>5

(* A worker takes a job.                                                  *)
LEMMA WorkerTakes ==
  ASSUME IndexTypeOK, NEW w \in Indexers, NEW s \in DOMAIN queue, TakePush(w, s)
  PROVE  /\ Keeps /\ Indices' = Indices /\ s \in Indices
         /\ at' \in [Indexers -> Open \cup {"idle", "ack"}] /\ at'[w] = "list"
         /\ \A v \in Indexers : at'[v] = "idle" <=> busy'[v] = 0
         /\ \A v \in Indexers \ {w} : at'[v] = at[v] /\ (busy[v] # 0 => JobCommit(v)' = JobCommit(v))
         /\ JobCommit(w)' = queue[s].key
         /\ \A n : Working(n)' \subseteq Working(n) \cup {w}
         /\ \A n : n # queue[s].key => Working(n)' \subseteq Working(n)
<1>0. /\ Bus!BusTypeOK /\ busy \in [Indexers -> 0..PushMessages] /\ Bus!Deliver(w, s)
      /\ at' = [at EXCEPT ![w] = "list"]
  BY DEF IndexTypeOK, Bus!BusTypeOK, TakePush, IndexerTo
<1>1. Keeps /\ Indices' = Indices /\ s \in Indices /\ 0 \notin Indices
  BY <1>0, DeliverKeeps, StreamIndices DEF Indices
<1>2. busy' = [busy EXCEPT ![w] = s] /\ busy[w] = 0  BY <1>0 DEF Bus!Deliver
<1>3. /\ at \in [Indexers -> Open \cup {"idle", "ack"}]
      /\ \A v \in Indexers : at[v] = "idle" <=> busy[v] = 0
  BY DEF IndexTypeOK, Open
<1>4. s # 0  BY <1>1
<1>5. /\ at' \in [Indexers -> Open \cup {"idle", "ack"}] /\ at'[w] = "list"
      /\ \A v \in Indexers : at'[v] = "idle" <=> busy'[v] = 0
  BY <1>0, <1>2, <1>3, <1>4 DEF Open
<1>6. \A v \in Indexers \ {w} : at'[v] = at[v] /\ busy'[v] = busy[v]  BY <1>0, <1>2, <1>3
<1>7. \A v \in Indexers \ {w} : busy[v] # 0 => JobCommit(v)' = JobCommit(v)
  BY <1>0, <1>1, <1>6, JobKept
<1>8. JobCommit(w)' = queue[s].key  BY <1>0, <1>1, <1>2 DEF JobCommit, Keeps
<1>9. \A n : \A v \in Indexers \ {w} : v \in Working(n)' => v \in Working(n)
  BY <1>6, <1>7 DEF Working
<1>10. \A n : Working(n)' \subseteq Indexers /\ (w \in Working(n)' => n = queue[s].key)
  BY <1>8 DEF Working
<1> QED  BY <1>1, <1>5, <1>6, <1>7, <1>8, <1>9, <1>10

-----------------------------------------------------------------------------
(* What the steps of one kind leave as it was.                             *)

TreesKept == \A n \in DOMAIN trees : n \in DOMAIN trees' /\ trees'[n] = trees[n]

LEMMA KeysKept ==
  ASSUME IndexInv, Keeps, Indices' = Indices, UNCHANGED trees
  PROVE  KeysPushed' /\ TreesKept
BY DEF IndexInv, KeysPushed, Keeps, TreesKept

LEMMA GroupsKept ==
  ASSUME IndexInv, TreesKept,
         \A v \in Indexers : at'[v] \in Open \ {"list"} =>
           at[v] \in Open \ {"list"} /\ group'[v] = group[v] /\ JobCommit(v)' = JobCommit(v)
  PROVE  GroupsInCommit'
<1> SUFFICES ASSUME NEW v \in Indexers, at'[v] \in Open \ {"list"},
                    NEW h \in DOMAIN group'[v], NEW f \in group'[v][h]
             PROVE  trees'[JobCommit(v)'][f] # NoFile
  BY DEF GroupsInCommit
<1>1. at[v] \in Open \ {"list"} /\ group'[v] = group[v] /\ JobCommit(v)' = JobCommit(v)
  OBVIOUS
<1>2. busy[v] \in Indices  BY <1>1, JobOf DEF IndexInv, Open
<1>3. JobCommit(v) \in DOMAIN trees  BY <1>2 DEF IndexInv, KeysPushed, JobCommit
<1>4. trees[JobCommit(v)][f] # NoFile  BY <1>1 DEF IndexInv, GroupsInCommit
<1> QED  BY <1>1, <1>3, <1>4 DEF TreesKept

LEMMA PaidKept ==
  ASSUME IndexInv, Keeps, TreesKept, \A n : Working(n)' \subseteq Working(n), UNCHANGED chunks
  PROVE  InsertionsPaid'
<1> SUFFICES ASSUME NEW n \in Commits, NEW f \in Files
             PROVE  /\ chunks'[n][f] + Cardinality(Working(n)') <= Cardinality(DeliveriesOf(n)')
                    /\ chunks'[n][f] > 0 => n \in DOMAIN trees' /\ trees'[n][f] # NoFile
  BY DEF InsertionsPaid
<1>1. /\ chunks[n][f] + Cardinality(Working(n)) <= Cardinality(DeliveriesOf(n))
      /\ chunks[n][f] > 0 => n \in DOMAIN trees /\ trees[n][f] # NoFile
  BY DEF IndexInv, InsertionsPaid
<1>2. chunks[n][f] \in Nat  BY DEF IndexInv, IndexTypeOK
<1>3. Cardinality(Working(n)') <= Cardinality(Working(n))  BY WorkingFinite, FS_Subset
<1>4. Cardinality(DeliveriesOf(n)) <= Cardinality(DeliveriesOf(n)')
  BY DeliveriesGrow DEF IndexInv, IndexTypeOK
<1>5. /\ Cardinality(Working(n)) \in Nat /\ Cardinality(Working(n)') \in Nat
      /\ Cardinality(DeliveriesOf(n)) \in Nat /\ Cardinality(DeliveriesOf(n)') \in Nat
  BY WorkingFinite, DeliveriesFinite, DeliveriesFiniteAfter DEF IndexInv, IndexTypeOK, Keeps
<1>6. chunks[n][f] + Cardinality(Working(n)') <= Cardinality(DeliveriesOf(n)')
  BY <1>1, <1>2, <1>3, <1>4, <1>5
<1> QED  BY <1>1, <1>6 DEF TreesKept

LEMMA VectorsKept ==
  ASSUME IndexInv, UNCHANGED <<cache, vectors>>,
         \A v \in Indexers : \/ known'[v] = NoHashes /\ at'[v] \notin {"put", "upsert"}
                             \/ /\ known'[v] = known[v] /\ group'[v] = group[v]
                                /\ at'[v] \in {"put", "upsert"} => at[v] \in {"put", "upsert"}
                             \/ known'[v] = known[v] /\ at'[v] \notin {"put", "upsert"}
  PROVE  VectorsTrue'
<1>1. VectorsMatchContents'  BY DEF IndexInv, VectorsTrue, VectorsMatchContents
<1>2. ASSUME NEW v \in Indexers
      PROVE  /\ \A h \in DOMAIN known'[v] : known'[v][h] = h
             /\ at'[v] \in {"put", "upsert"} => DOMAIN group'[v] \subseteq DOMAIN known'[v]
  <2>1. /\ \A h \in DOMAIN known[v] : known[v][h] = h
        /\ at[v] \in {"put", "upsert"} => DOMAIN group[v] \subseteq DOMAIN known[v]
    BY DEF IndexInv, VectorsTrue
  <2>2. DOMAIN NoHashes = {}  BY DEF NoHashes
  <2> QED  BY <2>1, <2>2
<1> QED  BY <1>1, <1>2 DEF VectorsTrue

(* The empty map.                                                         *)
LEMMA NoHashesMap ==
  ASSUME NEW D, NEW R
  PROVE  DOMAIN NoHashes = {} /\ NoHashes \in PartialMap(D, R)
<1>1. DOMAIN NoHashes = {} /\ NoHashes \in [{} -> R]  BY DEF NoHashes
<1> QED  BY <1>1, PartialMapOf

(* A pushed commit and the one before it.                                 *)
LEMMA TreeOf ==
  ASSUME IndexTypeOK, KeysPushed
  PROVE  /\ DOMAIN trees = 1..Len(trees) /\ Len(trees) \in Nat /\ Len(trees) >= 1
         /\ \A n \in DOMAIN trees : trees[n] \in Tree
BY LenProperties, ElementOfSeq DEF IndexTypeOK, KeysPushed

-----------------------------------------------------------------------------
(* Each action preserves the invariant.                                   *)

LEMMA PushKeepsInv ==
  ASSUME IndexInv, \/ \E tree \in Tree : Push(tree)
                   \/ \E n \in Commits : PushAgain(n)
  PROVE  IndexInv'
<1>1. /\ IndexTypeOK /\ Bus!BusTypeOK /\ DOMAIN trees = 1..Len(trees) /\ Len(trees) \in Nat
      /\ Len(trees) >= 1 /\ MaxPushes \in Nat
  BY TreeOf, IndexAssumption DEF IndexInv, IndexTypeOK
<1>2. UNCHANGED <<provider, tableVars, failed, indexerVars>>  BY DEF Push, PushAgain
<1>3. PICK n \in Commits : Bus!Publish(n) /\ n \in DOMAIN trees' /\ TreesKept
                           /\ trees' \in Seq(Tree) /\ Len(trees') <= MaxPushes + 1
                           /\ Len(trees') >= 1
  <2>1. CASE \E n \in Commits : PushAgain(n)
    BY <1>1, <2>1 DEF PushAgain, TreesKept, IndexTypeOK
  <2>2. ASSUME NEW tree \in Tree, Push(tree)
        PROVE  \E n \in Commits : Bus!Publish(n) /\ n \in DOMAIN trees' /\ TreesKept
                           /\ trees' \in Seq(Tree) /\ Len(trees') <= MaxPushes + 1
                           /\ Len(trees') >= 1
    <3>1. trees \in Seq(Tree) /\ trees' = Append(trees, tree)
      BY <1>1, <2>2 DEF IndexTypeOK, Push
    <3>2. /\ trees' \in Seq(Tree) /\ Len(trees') = Len(trees) + 1
          /\ \A i \in 1..Len(trees) : trees'[i] = trees[i]
      BY <3>1, AppendProperties
    <3>3. DOMAIN trees' = 1..(Len(trees) + 1)  BY <3>2, LenProperties
    <3>4. Len(trees) + 1 \in Commits /\ Bus!Publish(Len(trees) + 1)
      BY <1>1, <2>2 DEF Push, Commits
    <3>5. TreesKept  BY <1>1, <3>2, <3>3 DEF TreesKept
    <3>6. Len(trees) + 1 <= MaxPushes + 1 /\ Len(trees) + 1 \in DOMAIN trees'
      BY <1>1, <2>2, <3>3 DEF Push
    <3> QED  BY <1>1, <3>2, <3>4, <3>5, <3>6
  <2> QED  BY <2>1, <2>2
<1>4. /\ Keeps /\ busy' = busy /\ \A s \in Indices : queue'[s] = queue[s]
      /\ \A s \in Indices' \ Indices : queue'[s].key = n
  BY <1>1, <1>3, PublishKeeps
<1>5. IndexTypeOK'
  BY <1>1, <1>2, <1>3, <1>4 DEF IndexTypeOK, Keeps, tableVars, indexerVars
<1>6. KeysPushed'
  <2>1. \A s \in Indices : queue'[s].key \in DOMAIN trees'
    BY <1>3, <1>4 DEF IndexInv, KeysPushed, TreesKept
  <2> QED  BY <1>3, <1>4, <2>1 DEF KeysPushed
<1>7. \A v \in Indexers : busy[v] # 0 => JobCommit(v)' = JobCommit(v)
  BY <1>1, <1>4, JobKept
<1>8. \A v \in Indexers : at[v] # "idle" => busy[v] # 0  BY <1>1 DEF IndexTypeOK
<1>9. VectorsTrue'  BY <1>2, VectorsKept DEF tableVars, indexerVars
<1>10. GroupsInCommit'
  <2>1. \A v \in Indexers : at'[v] = at[v] /\ group'[v] = group[v]  BY <1>2 DEF indexerVars
  <2> QED  BY <1>3, <1>7, <1>8, <2>1, GroupsKept DEF Open
<1>11. InsertionsPaid'
  <2>1. \A m : Working(m)' \subseteq Working(m)
    BY <1>2, <1>4, <1>7 DEF Working, indexerVars
  <2> QED  BY <1>2, <1>3, <1>4, <2>1, PaidKept DEF tableVars
<1> QED  BY <1>5, <1>6, <1>9, <1>10, <1>11 DEF IndexInv

LEMMA TakeKeepsInv ==
  ASSUME IndexInv, NEW w \in Indexers, NEW s \in DOMAIN queue, TakePush(w, s)
  PROVE  IndexInv'
<1>1. IndexTypeOK /\ Bus!BusTypeOK  BY DEF IndexInv, IndexTypeOK
<1>2. UNCHANGED <<provider, trees, tableVars, failed, group, known>> /\ Bus!Deliver(w, s) /\ at[w] = "idle"
  BY DEF TakePush
<1>3. /\ Keeps /\ Indices' = Indices /\ s \in Indices
      /\ at' \in [Indexers -> Open \cup {"idle", "ack"}] /\ at'[w] = "list"
      /\ \A v \in Indexers : at'[v] = "idle" <=> busy'[v] = 0
      /\ \A v \in Indexers \ {w} : at'[v] = at[v] /\ (busy[v] # 0 => JobCommit(v)' = JobCommit(v))
      /\ \A n : Working(n)' \subseteq Working(n) \cup {w}
      /\ \A n : n # queue[s].key => Working(n)' \subseteq Working(n)
  BY <1>1, WorkerTakes
<1>4. IndexTypeOK'
  BY <1>1, <1>2, <1>3 DEF IndexTypeOK, Keeps, tableVars, Open
<1>5. KeysPushed' /\ TreesKept  BY <1>2, <1>3, KeysKept
<1>6. VectorsTrue'
  <2>1. \A v \in Indexers : known'[v] = known[v] /\ group'[v] = group[v]  BY <1>2
  <2> QED  BY <1>2, <1>3, <2>1, VectorsKept DEF tableVars
<1>7. GroupsInCommit'
  <2>1. \A v \in Indexers : at[v] # "idle" => busy[v] # 0  BY <1>1 DEF IndexTypeOK
  <2> QED  BY <1>2, <1>3, <1>5, <2>1, GroupsKept DEF Open
<1>8. ASSUME NEW n \in Commits, NEW f \in Files
      PROVE  /\ chunks'[n][f] + Cardinality(Working(n)') <= Cardinality(DeliveriesOf(n)')
             /\ chunks'[n][f] > 0 => n \in DOMAIN trees' /\ trees'[n][f] # NoFile
  <2>1. /\ chunks[n][f] + Cardinality(Working(n)) <= Cardinality(DeliveriesOf(n))
        /\ chunks[n][f] > 0 => n \in DOMAIN trees /\ trees[n][f] # NoFile
    BY DEF IndexInv, InsertionsPaid
  <2>2. chunks[n][f] \in Nat /\ chunks' = chunks  BY <1>1, <1>2 DEF IndexTypeOK, tableVars
  <2>3. /\ Cardinality(Working(n)) \in Nat /\ Cardinality(Working(n)') \in Nat
        /\ Cardinality(DeliveriesOf(n)) \in Nat /\ Cardinality(DeliveriesOf(n)') \in Nat
    BY <1>1, <1>3, WorkingFinite, DeliveriesFinite, DeliveriesFiniteAfter DEF Keeps
  <2>4. Cardinality(DeliveriesOf(n)) <= Cardinality(DeliveriesOf(n)')
    BY <1>1, <1>3, DeliveriesGrow
  <2>5. CASE n = queue[s].key
    <3>1. Cardinality(DeliveriesOf(n)') >= Cardinality(DeliveriesOf(n)) + 1
      BY <1>1, <1>2, <2>5, DeliveryCounted
    <3>2. w \notin Working(n)  BY <1>2 DEF Working, Open
    <3>3. /\ IsFiniteSet(Working(n) \cup {w})
          /\ Cardinality(Working(n) \cup {w}) = Cardinality(Working(n)) + 1
      BY <3>2, WorkingFinite, FS_AddElement
    <3>4. Cardinality(Working(n)') <= Cardinality(Working(n) \cup {w})
      BY <1>3, <3>3, FS_Subset
    <3>5. chunks[n][f] + Cardinality(Working(n)') <= Cardinality(DeliveriesOf(n)')
      BY <2>1, <2>2, <2>3, <3>1, <3>3, <3>4
    <3> QED  BY <2>1, <2>2, <3>5, <1>5 DEF TreesKept
  <2>6. CASE n # queue[s].key
    <3>1. Cardinality(Working(n)') <= Cardinality(Working(n))
      BY <1>3, <2>6, WorkingFinite, FS_Subset
    <3>2. chunks[n][f] + Cardinality(Working(n)') <= Cardinality(DeliveriesOf(n)')
      BY <2>1, <2>2, <2>3, <2>4, <3>1
    <3> QED  BY <2>1, <2>2, <3>2, <1>5 DEF TreesKept
  <2> QED  BY <2>5, <2>6
<1> QED  BY <1>4, <1>5, <1>6, <1>7, <1>8 DEF IndexInv, InsertionsPaid

(* The changed files that are there, grouped by their content.            *)
LEMMA GroupOf ==
  ASSUME IndexTypeOK, KeysPushed, NEW n \in Commits, n \in DOMAIN trees,
         NEW files \in SUBSET {f \in ChangedFiles(n) : trees[n][f] # NoFile}
  PROVE  /\ ByHash(n, files) \in PartialMap(Contents, SUBSET Files)
         /\ \A h \in DOMAIN ByHash(n, files) : \A f \in ByHash(n, files)[h] : trees[n][f] # NoFile
<1>1. trees[n] \in Tree  BY TreeOf
<1>2. \A f \in files : f \in Files /\ trees[n][f] \in Contents
  BY <1>1 DEF ChangedFiles, Tree
<1> DEFINE S == {trees[n][f] : f \in files}
<1>3. S \in SUBSET Contents  BY <1>2
<1>4. ByHash(n, files) \in [S -> SUBSET Files]  BY <1>2 DEF ByHash
<1>5. ByHash(n, files) \in PartialMap(Contents, SUBSET Files)
  <2> HIDE DEF S
  <2> QED  BY <1>3, <1>4, PartialMapOf
<1>6. \A h \in DOMAIN ByHash(n, files) : \A f \in ByHash(n, files)[h] : trees[n][f] # NoFile
  BY DEF ByHash
<1> QED  BY <1>5, <1>6

LEMMA CollectKeepsInv ==
  ASSUME IndexInv, NEW w \in Indexers, Collect(w)
  PROVE  IndexInv'
<1> DEFINE n == JobCommit(w)
<1>1. /\ IndexTypeOK /\ KeysPushed /\ UNCHANGED <<provider, queueVars, trees, tableVars, known>>
      /\ at[w] = "list" /\ at[w] \in Open
  BY DEF IndexInv, Collect, Open
<1>2. n \in Commits /\ n \in DOMAIN trees
  BY <1>1, JobOf DEF KeysPushed, JobCommit
<1>3. /\ failed' \subseteq Commits
      /\ \/ /\ at' = [at EXCEPT ![w] = "ack"] /\ group' = group
         \/ \E files \in SUBSET {f \in ChangedFiles(n) : trees[n][f] # NoFile} :
              /\ group' = [group EXCEPT ![w] = ByHash(n, files)]
              /\ \/ at' = [at EXCEPT ![w] = "ack"]
                 \/ at' = [at EXCEPT ![w] = "lookup"]
  <2>1. CASE JobFails(w) /\ UNCHANGED group
    BY <1>1, <1>2, <2>1 DEF JobFails, IndexerTo, IndexTypeOK
  <2>2. ASSUME NEW page \in ListChangedFiles(n),
               NEW files \in SUBSET {f \in page \cap Parsed : trees[n][f] # NoFile},
               group' = [group EXCEPT ![w] = ByHash(n, files)],
               failed' \in {failed, failed \cup {n}},
               IndexerTo(w, IF files = {} THEN "ack" ELSE "lookup")
        PROVE  /\ failed' \subseteq Commits
               /\ \E collected \in SUBSET {f \in ChangedFiles(n) : trees[n][f] # NoFile} :
                    /\ group' = [group EXCEPT ![w] = ByHash(n, collected)]
                    /\ \/ at' = [at EXCEPT ![w] = "ack"]
                       \/ at' = [at EXCEPT ![w] = "lookup"]
    <3>1. failed' \subseteq Commits  BY <1>1, <1>2, <2>2 DEF IndexTypeOK
    <3>2. files \in SUBSET {f \in ChangedFiles(n) : trees[n][f] # NoFile}
      BY <2>2 DEF ListChangedFiles
    <3>3. at' = [at EXCEPT ![w] = "ack"] \/ at' = [at EXCEPT ![w] = "lookup"]
      BY <2>2 DEF IndexerTo
    <3> HIDE DEF n
    <3> QED  BY <2>2, <3>1, <3>2, <3>3
  <2> QED  BY <2>1, <2>2 DEF Collect
<1>4. PICK p \in {"ack", "lookup"} : at' = [at EXCEPT ![w] = p]  BY <1>3
<1>5. PICK g \in PartialMap(Contents, SUBSET Files) :
        /\ group' = [group EXCEPT ![w] = g]
        /\ p = "lookup" => \A h \in DOMAIN g : \A f \in g[h] : trees[n][f] # NoFile
  <2>1. group[w] \in PartialMap(Contents, SUBSET Files) /\ group = [group EXCEPT ![w] = group[w]]
        /\ at'[w] = p
    BY <1>1, <1>4 DEF IndexTypeOK
  <2>2. CASE group' = group /\ at' = [at EXCEPT ![w] = "ack"]
    <3>1. at'[w] = "ack"  BY <1>1, <2>2 DEF IndexTypeOK
    <3> QED  BY <2>1, <2>2, <3>1
  <2>3. ASSUME NEW files \in SUBSET {f \in ChangedFiles(n) : trees[n][f] # NoFile},
               group' = [group EXCEPT ![w] = ByHash(n, files)]
        PROVE  \E g \in PartialMap(Contents, SUBSET Files) :
                 /\ group' = [group EXCEPT ![w] = g]
                 /\ \A h \in DOMAIN g : \A f \in g[h] : trees[n][f] # NoFile
    <3> HIDE DEF n
    <3> QED  BY <1>1, <1>2, <2>3, GroupOf
  <2> QED  BY <1>3, <2>2, <2>3
<1>6. /\ Keeps /\ Indices' = Indices
      /\ at' \in [Indexers -> Open \cup {"idle", "ack"}]
      /\ \A v \in Indexers : at'[v] = "idle" <=> busy'[v] = 0
      /\ \A v \in Indexers : JobCommit(v)' = JobCommit(v)
      /\ \A m : Working(m)' \subseteq Working(m)
  BY <1>1, <1>4, WorkerMoves DEF Open
<1>7. IndexTypeOK'
  <2>1. group' \in [Indexers -> PartialMap(Contents, SUBSET Files)]
    BY <1>1, <1>5 DEF IndexTypeOK
  <2> QED  BY <1>1, <1>3, <1>6, <2>1 DEF IndexTypeOK, Keeps, tableVars, Open
<1>8. KeysPushed' /\ TreesKept  BY <1>1, <1>6, KeysKept
<1>9. /\ \A v \in Indexers \ {w} : at'[v] = at[v] /\ group'[v] = group[v]
      /\ at'[w] = p /\ group'[w] = g
  BY <1>1, <1>4, <1>5 DEF IndexTypeOK
<1>10. VectorsTrue'
  <2>1. \A v \in Indexers : known'[v] = known[v]  BY <1>1
  <2> QED  BY <1>1, <1>9, <2>1, VectorsKept DEF tableVars
<1>11. GroupsInCommit'
  <2>1. ASSUME NEW v \in Indexers, at'[v] \in Open \ {"list"},
               NEW h \in DOMAIN group'[v], NEW f \in group'[v][h]
        PROVE  trees'[JobCommit(v)'][f] # NoFile
    <3>1. JobCommit(v)' = JobCommit(v) /\ trees' = trees  BY <1>1, <1>6
    <3>2. CASE v = w  BY <1>5, <1>9, <2>1, <3>1, <3>2 DEF Open
    <3>3. CASE v # w
      <4>1. at'[v] = at[v] /\ group'[v] = group[v]  BY <1>9, <3>3
      <4> QED  BY <2>1, <3>1, <4>1 DEF IndexInv, GroupsInCommit
    <3> QED  BY <3>2, <3>3
  <2> QED  BY <2>1 DEF GroupsInCommit
<1>12. InsertionsPaid'  BY <1>1, <1>6, <1>8, PaidKept DEF tableVars
<1> QED  BY <1>7, <1>8, <1>10, <1>11, <1>12 DEF IndexInv

(* Looking up and embedding change only what the worker knows.            *)
LEMMA LearningKeepsInv ==
  ASSUME IndexInv, NEW w \in Indexers, at[w] \in {"lookup", "embed"},
         NEW p \in {"embed", "put", "upsert", "ack"}, at' = [at EXCEPT ![w] = p],
         NEW k \in PartialMap(Contents, Contents), known' = [known EXCEPT ![w] = k],
         \A h \in DOMAIN k : k[h] = h, p \in {"put", "upsert"} => DOMAIN group[w] \subseteq DOMAIN k,
         failed' \subseteq Commits, UNCHANGED <<provider, queueVars, trees, tableVars, group>>
  PROVE  IndexInv'
<1>1. IndexTypeOK /\ KeysPushed /\ at[w] \in Open  BY DEF IndexInv, Open
<1>2. /\ Keeps /\ Indices' = Indices
      /\ at' \in [Indexers -> Open \cup {"idle", "ack"}]
      /\ \A v \in Indexers : at'[v] = "idle" <=> busy'[v] = 0
      /\ \A v \in Indexers : JobCommit(v)' = JobCommit(v)
      /\ \A m : Working(m)' \subseteq Working(m)
  BY <1>1, WorkerMoves DEF Open
<1>3. IndexTypeOK'
  <2>1. known' \in [Indexers -> PartialMap(Contents, Contents)]  BY <1>1 DEF IndexTypeOK
  <2> QED  BY <1>1, <1>2, <2>1 DEF IndexTypeOK, Keeps, tableVars, Open
<1>4. KeysPushed' /\ TreesKept  BY <1>2, KeysKept
<1>5. /\ \A v \in Indexers \ {w} : at'[v] = at[v] /\ known'[v] = known[v]
      /\ at'[w] = p /\ known'[w] = k
  BY <1>1 DEF IndexTypeOK
<1>6. VectorsTrue'
  <2>1. VectorsMatchContents'  BY DEF IndexInv, VectorsTrue, VectorsMatchContents, tableVars
  <2>2. ASSUME NEW v \in Indexers
        PROVE  /\ \A h \in DOMAIN known'[v] : known'[v][h] = h
               /\ at'[v] \in {"put", "upsert"} => DOMAIN group'[v] \subseteq DOMAIN known'[v]
    <3>1. CASE v = w  BY <1>5, <3>1
    <3>2. CASE v # w  BY <1>5, <3>2 DEF IndexInv, VectorsTrue
    <3> QED  BY <3>1, <3>2
  <2> QED  BY <2>1, <2>2 DEF VectorsTrue
<1>7. GroupsInCommit'
  <2>1. \A v \in Indexers : at'[v] \in Open \ {"list"} => at[v] \in Open \ {"list"}
    BY <1>5 DEF Open
  <2> QED  BY <1>2, <1>4, <2>1, GroupsKept
<1>8. InsertionsPaid'  BY <1>2, <1>4, PaidKept DEF tableVars
<1> QED  BY <1>3, <1>4, <1>6, <1>7, <1>8 DEF IndexInv

LEMMA GetManyKeepsInv ==
  ASSUME IndexInv, NEW w \in Indexers, GetMany(w)
  PROVE  IndexInv'
<1>1. /\ at[w] = "lookup" /\ UNCHANGED <<provider, queueVars, trees, tableVars, group>>
      /\ IndexTypeOK /\ \A h \in DOMAIN cache : cache[h] = h
  BY DEF GetMany, IndexInv, VectorsTrue, VectorsMatchContents
<1> DEFINE found == Restrict(cache, DOMAIN cache \cap DOMAIN group[w])
<1>2. DOMAIN cache \in SUBSET Contents /\ cache \in [DOMAIN cache -> Contents]
  BY <1>1, PartialMapOf DEF IndexTypeOK
<1>3. /\ DOMAIN found = DOMAIN cache \cap DOMAIN group[w] /\ \A h \in DOMAIN found : found[h] = h
      /\ found \in PartialMap(Contents, Contents)
  <2>1. /\ found \in [DOMAIN cache \cap DOMAIN group[w] -> Contents]
        /\ DOMAIN found = DOMAIN cache \cap DOMAIN group[w] /\ \A h \in DOMAIN found : found[h] = h
    BY <1>1, <1>2 DEF Restrict
  <2>2. DOMAIN cache \cap DOMAIN group[w] \in SUBSET Contents  BY <1>2
  <2> HIDE DEF found
  <2> QED  BY <2>1, <2>2, PartialMapOf
<1>4. CASE known' = [known EXCEPT ![w] = found] /\ UNCHANGED failed
           /\ IndexerTo(w, IF DOMAIN group[w] \subseteq DOMAIN cache THEN "upsert" ELSE "embed")
  <2>1. failed' \subseteq Commits  BY <1>1, <1>4 DEF IndexTypeOK
  <2>2. CASE DOMAIN group[w] \subseteq DOMAIN cache
    <3>1. at' = [at EXCEPT ![w] = "upsert"] /\ DOMAIN group[w] \subseteq DOMAIN found
      BY <1>3, <1>4, <2>2 DEF IndexerTo
    <3> HIDE DEF found
    <3> QED  BY <1>1, <1>3, <1>4, <2>1, <3>1, LearningKeepsInv
  <2>3. CASE ~ (DOMAIN group[w] \subseteq DOMAIN cache)
    <3>1. at' = [at EXCEPT ![w] = "embed"]  BY <1>4, <2>3 DEF IndexerTo
    <3> HIDE DEF found
    <3> QED  BY <1>1, <1>3, <1>4, <2>1, <3>1, LearningKeepsInv
  <2> QED  BY <2>2, <2>3
<1>5. CASE JobFails(w) /\ UNCHANGED known
  <2>1. JobCommit(w) \in Commits  BY <1>1, JobOf
  <2>2. at' = [at EXCEPT ![w] = "ack"] /\ failed' \subseteq Commits
    BY <1>1, <1>5, <2>1 DEF JobFails, IndexerTo, IndexTypeOK
  <2>3. /\ known[w] \in PartialMap(Contents, Contents) /\ known' = [known EXCEPT ![w] = known[w]]
        /\ \A h \in DOMAIN known[w] : known[w][h] = h
    BY <1>1, <1>5 DEF IndexTypeOK, IndexInv, VectorsTrue
  <2> QED  BY <1>1, <2>2, <2>3, LearningKeepsInv
<1> QED  BY <1>4, <1>5 DEF GetMany

(* One vector per text, in the order of the texts, is the right one.      *)
LEMMA FillTrue ==
  ASSUME NEW S, IsFiniteSet(S), NEW texts \in Orders(S), NEW cached,
         \A h \in DOMAIN cached : cached[h] = h
  PROVE  /\ DOMAIN Fill(texts, cached) = S \cup DOMAIN cached
         /\ \A h \in DOMAIN Fill(texts, cached) : Fill(texts, cached)[h] = h
<1>1. Range(texts) = S /\ \A h \in S : \E i \in DOMAIN texts : texts[i] = h  BY OrderOf
<1>2. DOMAIN Fill(texts, cached) = S \cup DOMAIN cached  BY <1>1 DEF Fill
<1>3. ASSUME NEW h \in S \cup DOMAIN cached PROVE Fill(texts, cached)[h] = h
  <2>1. Fill(texts, cached)[h] = IF h \in DOMAIN cached THEN cached[h]
                                 ELSE texts[CHOOSE i \in DOMAIN texts : texts[i] = h]
    BY <1>1 DEF Fill
  <2>2. h \notin DOMAIN cached => texts[CHOOSE i \in DOMAIN texts : texts[i] = h] = h
    BY <1>1
  <2> QED  BY <2>1, <2>2
<1> QED  BY <1>2, <1>3

LEMMA EmbedKeepsInv ==
  ASSUME IndexInv, NEW w \in Indexers, Embed(w)
  PROVE  IndexInv'
<1>1. /\ at[w] = "embed" /\ UNCHANGED <<provider, queueVars, trees, tableVars, group>> /\ IndexTypeOK
      /\ \A h \in DOMAIN known[w] : known[w][h] = h
  BY DEF Embed, IndexInv, VectorsTrue
<1>2. /\ DOMAIN group[w] \in SUBSET Contents /\ DOMAIN known[w] \in SUBSET Contents
      /\ group[w] \in PartialMap(Contents, SUBSET Files) /\ known[w] \in PartialMap(Contents, Contents)
  <2>1. group[w] \in PartialMap(Contents, SUBSET Files) /\ known[w] \in PartialMap(Contents, Contents)
    BY <1>1 DEF IndexTypeOK
  <2>2. DOMAIN group[w] \in SUBSET Contents  BY <2>1, PartialMapOf
  <2>3. DOMAIN known[w] \in SUBSET Contents  BY <2>1, PartialMapOf
  <2> QED  BY <2>1, <2>2, <2>3
<1>3. ASSUME NEW texts \in ToEmbed(w), known' = [known EXCEPT ![w] = Fill(texts, known[w])],
             IndexerTo(w, "put"), UNCHANGED failed
      PROVE  IndexInv'
  <2> DEFINE S == DOMAIN group[w] \ DOMAIN known[w]
             k == Fill(texts, known[w])
  <2>1. IsFiniteSet(S)  BY <1>2, IndexAssumption, FS_Subset
  <2>2. DOMAIN k = S \cup DOMAIN known[w] /\ \A h \in DOMAIN k : k[h] = h
    <3>1. texts \in Orders(S)  BY <1>3 DEF ToEmbed
    <3> HIDE DEF S
    <3> QED  BY <1>1, <2>1, <3>1, FillTrue
  <2>3. DOMAIN k \in SUBSET Contents /\ DOMAIN group[w] \subseteq DOMAIN k  BY <1>2, <2>2
  <2>4. k = [h \in DOMAIN k |-> k[h]]  BY DEF Fill
  <2>5. k \in PartialMap(Contents, Contents)
    <3> HIDE DEF k
    <3>1. k \in [DOMAIN k -> Contents]  BY <2>2, <2>3, <2>4
    <3> QED  BY <2>3, <3>1, PartialMapOf
  <2>6. at' = [at EXCEPT ![w] = "put"] /\ failed' \subseteq Commits
    BY <1>1, <1>3 DEF IndexerTo, IndexTypeOK
  <2> HIDE DEF k
  <2> QED  BY <1>1, <1>3, <2>2, <2>3, <2>5, <2>6, LearningKeepsInv DEF k
<1>4. CASE JobFails(w) /\ UNCHANGED known
  <2>1. JobCommit(w) \in Commits  BY <1>1, JobOf
  <2>2. at' = [at EXCEPT ![w] = "ack"] /\ failed' \subseteq Commits
    BY <1>1, <1>4, <2>1 DEF JobFails, IndexerTo, IndexTypeOK
  <2>3. known' = [known EXCEPT ![w] = known[w]]  BY <1>1, <1>4 DEF IndexTypeOK
  <2> QED  BY <1>1, <1>2, <2>2, <2>3, LearningKeepsInv
<1> QED  BY <1>3, <1>4 DEF Embed

LEMMA PutManyKeepsInv ==
  ASSUME IndexInv, NEW w \in Indexers, PutMany(w)
  PROVE  IndexInv'
<1>1. /\ IndexTypeOK /\ KeysPushed /\ at[w] = "put" /\ at[w] \in Open
      /\ at' = [at EXCEPT ![w] = "upsert"]
      /\ UNCHANGED <<provider, queueVars, trees, chunks, vectors, failed, group, known>>
  BY DEF PutMany, IndexerTo, IndexInv, Open
<1>2. /\ Keeps /\ Indices' = Indices
      /\ at' \in [Indexers -> Open \cup {"idle", "ack"}]
      /\ \A v \in Indexers : at'[v] = "idle" <=> busy'[v] = 0
      /\ \A v \in Indexers : JobCommit(v)' = JobCommit(v)
      /\ \A m : Working(m)' \subseteq Working(m)
  BY <1>1, WorkerMoves DEF Open
<1>3. /\ DOMAIN cache \in SUBSET Contents /\ DOMAIN known[w] \in SUBSET Contents
      /\ \A h \in DOMAIN cache : cache[h] = h
      /\ \A h \in DOMAIN known[w] : known[w][h] = h
  BY <1>1, PartialMapOf DEF IndexTypeOK, IndexInv, VectorsTrue, VectorsMatchContents
<1>4. /\ cache' \in PartialMap(Contents, Contents) /\ born' \in Orders(DOMAIN cache')
      /\ \A h \in DOMAIN cache' : cache'[h] = h
  <2>1. CASE UNCHANGED <<cache, born>>  BY <1>1, <1>3, <2>1 DEF IndexTypeOK
  <2>2. ASSUME cache' = [h \in DOMAIN cache \cup DOMAIN known[w] |->
                           IF h \in DOMAIN cache THEN cache[h] ELSE known[w][h]],
               NEW new \in Orders(DOMAIN known[w] \ DOMAIN cache), born' = born \o new
        PROVE  /\ cache' \in PartialMap(Contents, Contents) /\ born' \in Orders(DOMAIN cache')
               /\ \A h \in DOMAIN cache' : cache'[h] = h
    <3>1. DOMAIN cache' = DOMAIN cache \cup DOMAIN known[w] /\ \A h \in DOMAIN cache' : cache'[h] = h
      BY <1>3, <2>2
    <3>2. cache' \in [DOMAIN cache' -> Contents] /\ DOMAIN cache' \in SUBSET Contents
      BY <1>3, <2>2, <3>1
    <3>3. cache' \in PartialMap(Contents, Contents)  BY <3>2, PartialMapOf
    <3> DEFINE S == DOMAIN cache
               T == DOMAIN known[w] \ DOMAIN cache
    <3>4. /\ IsFiniteSet(S) /\ IsFiniteSet(T) /\ S \cap T = {} /\ S \cup T = DOMAIN cache'
          /\ born \in Orders(S) /\ new \in Orders(T)
      BY <1>1, <1>3, <2>2, <3>1, IndexAssumption, FS_Subset DEF IndexTypeOK
    <3>5. born' \in Orders(DOMAIN cache')
      <4> HIDE DEF S, T
      <4> QED  BY <2>2, <3>4, OrdersConcatenated
    <3> QED  BY <3>1, <3>3, <3>5
  <2> QED  BY <2>1, <2>2 DEF PutMany
<1>5. IndexTypeOK'  BY <1>1, <1>2, <1>4 DEF IndexTypeOK, Keeps, Open
<1>6. KeysPushed' /\ TreesKept  BY <1>1, <1>2, KeysKept
<1>7. at'[w] = "upsert" /\ \A v \in Indexers \ {w} : at'[v] = at[v]
  BY <1>1 DEF IndexTypeOK
<1>8. VectorsTrue'
  <2>1. VectorsMatchContents'
    BY <1>1, <1>4 DEF IndexInv, VectorsTrue, VectorsMatchContents
  <2>2. \A v \in Indexers : at'[v] \in {"put", "upsert"} => at[v] \in {"put", "upsert"}
    BY <1>1, <1>7
  <2> QED  BY <1>1, <2>1, <2>2 DEF IndexInv, VectorsTrue
<1>9. GroupsInCommit'
  <2>1. \A v \in Indexers : at'[v] \in Open \ {"list"} => at[v] \in Open \ {"list"}
    BY <1>1, <1>7 DEF Open
  <2> QED  BY <1>1, <1>2, <1>6, <2>1, GroupsKept
<1>10. InsertionsPaid'  BY <1>1, <1>2, <1>6, PaidKept
<1> QED  BY <1>5, <1>6, <1>8, <1>9, <1>10 DEF IndexInv

LEMMA UpsertManyKeepsInv ==
  ASSUME IndexInv, NEW w \in Indexers, UpsertMany(w)
  PROVE  IndexInv'
<1> DEFINE n == JobCommit(w)
           files == UNION Range(group[w])
<1>1. /\ IndexTypeOK /\ KeysPushed /\ at[w] = "upsert" /\ at[w] \in Open
      /\ UNCHANGED <<provider, queueVars, trees, cache, born, group, known>>
  BY DEF UpsertMany, IndexInv, Open
<1>2. n \in Commits /\ n \in DOMAIN trees /\ w \in Working(n)
  BY <1>1, JobOf DEF KeysPushed, JobCommit, Working
<1>3. /\ at' = [at EXCEPT ![w] = "ack"] /\ failed' \subseteq Commits
      /\ RowsInserted(w) \/ UNCHANGED <<chunks, vectors>>
  BY <1>1, <1>2 DEF UpsertMany, JobFails, IndexerTo, IndexTypeOK
<1>4. /\ Keeps /\ Indices' = Indices
      /\ at' \in [Indexers -> Open \cup {"idle", "ack"}]
      /\ \A v \in Indexers : at'[v] = "idle" <=> busy'[v] = 0
      /\ \A v \in Indexers : JobCommit(v)' = JobCommit(v)
      /\ \A m : Working(m)' \subseteq Working(m) /\ w \notin Working(m)'
  BY <1>1, <1>3, WorkerMoves
<1>5. KeysPushed' /\ TreesKept  BY <1>1, <1>4, KeysKept
<1>6. at'[w] = "ack" /\ \A v \in Indexers \ {w} : at'[v] = at[v]
  BY <1>1, <1>3 DEF IndexTypeOK
<1>7. GroupsInCommit'
  <2>1. \A v \in Indexers : at'[v] \in Open \ {"list"} => at[v] \in Open \ {"list"}
    BY <1>6 DEF Open
  <2> QED  BY <1>1, <1>4, <1>5, <2>1, GroupsKept
<1>8. CASE UNCHANGED <<chunks, vectors>>
  <2>1. IndexTypeOK'  BY <1>1, <1>3, <1>4, <1>8 DEF IndexTypeOK, Keeps, Open
  <2>2. VectorsTrue'
    <3>1. \A v \in Indexers : known'[v] = known[v] /\ group'[v] = group[v]  BY <1>1
    <3>2. \A v \in Indexers : at'[v] \in {"put", "upsert"} => at[v] \in {"put", "upsert"}
      BY <1>6
    <3> QED  BY <1>1, <1>8, <3>1, <3>2, VectorsKept
  <2>3. InsertionsPaid'  BY <1>4, <1>5, <1>8, PaidKept
  <2> QED  BY <1>5, <1>7, <2>1, <2>2, <2>3 DEF IndexInv
<1>9. CASE RowsInserted(w)
  <2>1. /\ chunks' = [chunks EXCEPT ![n] = [f \in Files |-> chunks[n][f] + IF f \in files THEN 1 ELSE 0]]
        /\ vectors' = vectors \cup {<<h, known[w][h]>> : h \in DOMAIN group[w]}
    BY <1>9 DEF RowsInserted
  <2>2. \A h \in DOMAIN group[w] : h \in Contents /\ h \in DOMAIN known[w] /\ known[w][h] = h
    <3>1. group[w] \in PartialMap(Contents, SUBSET Files)  BY <1>1 DEF IndexTypeOK
    <3>2. DOMAIN group[w] \in SUBSET Contents  BY <3>1, PartialMapOf
    <3> QED  BY <1>1, <3>2 DEF IndexInv, VectorsTrue
  <2>3. chunks' \in [Commits -> [Files -> Nat]]
    <3>1. chunks[n] \in [Files -> Nat]  BY <1>1, <1>2 DEF IndexTypeOK
    <3>2. [f \in Files |-> chunks[n][f] + IF f \in files THEN 1 ELSE 0] \in [Files -> Nat]
      BY <3>1
    <3> HIDE DEF n, files
    <3> QED  BY <1>1, <2>1, <3>2 DEF IndexTypeOK
  <2>4. vectors' \subseteq Contents \X Contents /\ \A pair \in vectors' : pair[1] = pair[2]
    BY <1>1, <2>1, <2>2 DEF IndexTypeOK, IndexInv, VectorsTrue, VectorsMatchContents
  <2>5. IndexTypeOK'
    BY <1>1, <1>3, <1>4, <2>3, <2>4 DEF IndexTypeOK, Keeps, Open
  <2>6. VectorsTrue'
    <3>1. VectorsMatchContents'
      BY <1>1, <2>4 DEF IndexInv, VectorsTrue, VectorsMatchContents
    <3>2. \A v \in Indexers : at'[v] \in {"put", "upsert"} => at[v] \in {"put", "upsert"}
      BY <1>6
    <3> QED  BY <1>1, <3>1, <3>2 DEF IndexInv, VectorsTrue
  <2>7. \A f \in files : trees[n][f] # NoFile
    BY <1>1 DEF IndexInv, GroupsInCommit, Open, Range
  <2>8. ASSUME NEW m \in Commits, NEW f \in Files
        PROVE  /\ chunks'[m][f] + Cardinality(Working(m)') <= Cardinality(DeliveriesOf(m)')
               /\ chunks'[m][f] > 0 => m \in DOMAIN trees' /\ trees'[m][f] # NoFile
    <3>1. /\ chunks[m][f] + Cardinality(Working(m)) <= Cardinality(DeliveriesOf(m))
          /\ chunks[m][f] > 0 => m \in DOMAIN trees /\ trees[m][f] # NoFile
      BY DEF IndexInv, InsertionsPaid
    <3>2. chunks[m][f] \in Nat  BY <1>1 DEF IndexTypeOK
    <3>3. /\ Cardinality(Working(m)) \in Nat /\ Cardinality(Working(m)') \in Nat
          /\ Cardinality(DeliveriesOf(m)) \in Nat /\ Cardinality(DeliveriesOf(m)') \in Nat
      BY <1>1, <1>4, WorkingFinite, DeliveriesFinite, DeliveriesFiniteAfter DEF IndexTypeOK, Keeps
    <3>4. Cardinality(DeliveriesOf(m)) <= Cardinality(DeliveriesOf(m)')
      BY <1>1, <1>4, DeliveriesGrow DEF IndexTypeOK
    <3>5. CASE m = n
      <4>1. chunks'[m][f] <= chunks[m][f] + 1 /\ chunks'[m][f] \in Nat
            /\ (f \notin files => chunks'[m][f] = chunks[m][f])
        <5> HIDE DEF files
        <5> QED  BY <1>1, <1>2, <2>1, <3>2, <3>5 DEF IndexTypeOK
      <4>2. Working(m)' \cup {w} \subseteq Working(m) /\ w \notin Working(m)'
        BY <1>2, <1>4, <3>5
      <4>3. /\ IsFiniteSet(Working(m)' \cup {w})
            /\ Cardinality(Working(m)' \cup {w}) = Cardinality(Working(m)') + 1
        BY <4>2, WorkingFinite, FS_AddElement
      <4>4. Cardinality(Working(m)' \cup {w}) <= Cardinality(Working(m))
        BY <4>2, WorkingFinite, FS_Subset
      <4>5. chunks'[m][f] + Cardinality(Working(m)') <= Cardinality(DeliveriesOf(m)')
        BY <3>1, <3>2, <3>3, <3>4, <4>1, <4>3, <4>4
      <4>6. chunks'[m][f] > 0 => m \in DOMAIN trees' /\ trees'[m][f] # NoFile
        BY <1>1, <1>2, <2>7, <3>1, <3>5, <4>1
      <4> QED  BY <4>5, <4>6
    <3>6. CASE m # n
      <4>1. chunks'[m][f] = chunks[m][f]  BY <1>1, <2>1, <3>6 DEF IndexTypeOK
      <4>2. Cardinality(Working(m)') <= Cardinality(Working(m))
        BY <1>4, WorkingFinite, FS_Subset
      <4>3. chunks'[m][f] + Cardinality(Working(m)') <= Cardinality(DeliveriesOf(m)')
        BY <3>1, <3>2, <3>3, <3>4, <4>1, <4>2
      <4> QED  BY <1>1, <3>1, <4>1, <4>3
    <3> QED  BY <3>5, <3>6
  <2> QED  BY <1>5, <1>7, <2>5, <2>6, <2>8 DEF IndexInv, InsertionsPaid
<1> QED  BY <1>3, <1>8, <1>9

(* The worker lets the job go, by an ack or by dying.                     *)
LEMMA EndKeepsInv ==
  ASSUME IndexInv, NEW w \in Indexers, AckIndexed(w) \/ IndexerStops(w)
  PROVE  IndexInv'
<1>1. /\ IndexTypeOK
      /\ Bus!Ack(w) \/ Bus!Abandon(w)
      /\ at' = [at EXCEPT ![w] = "idle"] /\ Forget(w)
      /\ UNCHANGED <<provider, trees, tableVars, failed>>
  BY DEF AckIndexed, IndexerStops, IndexerTo, IndexInv
<1>2. /\ Keeps /\ Indices' = Indices
      /\ at' \in [Indexers -> Open \cup {"idle", "ack"}]
      /\ \A v \in Indexers : at'[v] = "idle" <=> busy'[v] = 0
      /\ \A v \in Indexers \ {w} : busy[v] # 0 => JobCommit(v)' = JobCommit(v)
      /\ \A m : Working(m)' \subseteq Working(m)
  BY <1>1, WorkerRests
<1>3. /\ \A v \in Indexers \ {w} : at'[v] = at[v] /\ group'[v] = group[v] /\ known'[v] = known[v]
      /\ at'[w] = "idle" /\ known'[w] = NoHashes
      /\ group' \in [Indexers -> PartialMap(Contents, SUBSET Files)]
      /\ known' \in [Indexers -> PartialMap(Contents, Contents)]
  BY <1>1, NoHashesMap DEF Forget, IndexTypeOK
<1>4. IndexTypeOK'  BY <1>1, <1>2, <1>3 DEF IndexTypeOK, Keeps, tableVars, Open
<1>5. KeysPushed' /\ TreesKept  BY <1>1, <1>2, KeysKept
<1>6. VectorsTrue'  BY <1>1, <1>3, VectorsKept DEF tableVars
<1>7. GroupsInCommit'
  <2>1. \A v \in Indexers : at[v] # "idle" => busy[v] # 0  BY <1>1 DEF IndexTypeOK
  <2> QED  BY <1>2, <1>3, <1>5, <2>1, GroupsKept DEF Open
<1>8. InsertionsPaid'  BY <1>1, <1>2, <1>5, PaidKept DEF tableVars
<1> QED  BY <1>4, <1>5, <1>6, <1>7, <1>8 DEF IndexInv

LEMMA EvictKeepsInv ==
  ASSUME IndexInv, EvictToMax
  PROVE  IndexInv'
<1>1. /\ IndexTypeOK /\ UNCHANGED <<provider, queueVars, trees, chunks, vectors, failed, indexerVars>>
      /\ born \in Orders(DOMAIN cache) /\ \A h \in DOMAIN cache : cache[h] = h
      /\ born' = SubSeq(born, 1, CacheRows) /\ cache' = Restrict(cache, Range(born'))
      /\ Len(born) > CacheRows /\ CacheRows \in Nat
  BY IndexAssumption DEF EvictToMax, IndexInv, IndexTypeOK, VectorsTrue, VectorsMatchContents
<1>2. DOMAIN cache \in SUBSET Contents /\ cache \in [DOMAIN cache -> Contents]
      /\ IsFiniteSet(DOMAIN cache)
  <2>1. DOMAIN cache \in SUBSET Contents /\ cache \in [DOMAIN cache -> Contents]
    BY <1>1, PartialMapOf DEF IndexTypeOK
  <2> QED  BY <2>1, IndexAssumption, FS_Subset
<1>3. born' \in Orders(Range(born')) /\ Range(born') \in SUBSET DOMAIN cache
  <2>1. CacheRows <= Len(born)  BY <1>1, <1>2, OrderOf
  <2> QED  BY <1>1, <1>2, <2>1, OrderCut
<1>4. /\ DOMAIN cache' = Range(born') /\ \A h \in DOMAIN cache' : cache'[h] = h
      /\ cache' \in PartialMap(Contents, Contents)
  <2>1. /\ DOMAIN cache' = Range(born') /\ \A h \in DOMAIN cache' : cache'[h] = h
        /\ cache' \in [Range(born') -> Contents] /\ Range(born') \in SUBSET Contents
    BY <1>1, <1>2, <1>3 DEF Restrict
  <2> QED  BY <2>1, PartialMapOf
<1>5. Keeps /\ Indices' = Indices  BY <1>1, BusUnchanged DEF IndexTypeOK
<1>6. IndexTypeOK'
  BY <1>1, <1>3, <1>4, <1>5 DEF IndexTypeOK, Keeps, indexerVars, queueVars
<1>7. KeysPushed' /\ TreesKept  BY <1>1, <1>5, KeysKept
<1>8. \A v : JobCommit(v)' = JobCommit(v)  BY <1>1 DEF JobCommit, queueVars
<1>9. VectorsTrue'
  BY <1>1, <1>4 DEF IndexInv, VectorsTrue, VectorsMatchContents, indexerVars
<1>10. GroupsInCommit'  BY <1>1, <1>7, <1>8, GroupsKept DEF indexerVars
<1>11. InsertionsPaid'
  <2>1. \A m : Working(m)' \subseteq Working(m)
    BY <1>1, <1>8 DEF Working, indexerVars, queueVars
  <2> QED  BY <1>1, <1>5, <1>7, <2>1, PaidKept
<1> QED  BY <1>6, <1>7, <1>9, <1>10, <1>11 DEF IndexInv

(* A timer of the bus, or no step at all.                                 *)
LEMMA ServerKeepsInv ==
  ASSUME IndexInv, IndexServer \/ UNCHANGED indexVars
  PROVE  IndexInv'
<1>1. IndexTypeOK /\ Bus!BusTypeOK /\ UNCHANGED <<provider, trees, tableVars, failed, indexerVars>>
  BY DEF IndexInv, IndexTypeOK, IndexServer, indexVars
<1>2. Keeps /\ Indices' = Indices /\ busy' = busy
  <2>1. CASE IndexServer  BY <1>1, <2>1, TimerKeeps DEF IndexServer
  <2>2. CASE UNCHANGED indexVars
    BY <1>1, <2>2, BusUnchanged DEF indexVars, queueVars
  <2> QED  BY <2>1, <2>2
<1>3. IndexTypeOK'  BY <1>1, <1>2 DEF IndexTypeOK, Keeps, tableVars, indexerVars
<1>4. KeysPushed' /\ TreesKept  BY <1>1, <1>2, KeysKept
<1>5. \A v \in Indexers : busy[v] # 0 => JobCommit(v)' = JobCommit(v)
  BY <1>1, <1>2, JobKept
<1>6. VectorsTrue'  BY <1>1, VectorsKept DEF tableVars, indexerVars
<1>7. GroupsInCommit'
  <2>1. \A v \in Indexers : at[v] # "idle" => busy[v] # 0  BY <1>1 DEF IndexTypeOK
  <2>2. \A v \in Indexers : at'[v] = at[v] /\ group'[v] = group[v]  BY <1>1 DEF indexerVars
  <2> QED  BY <1>4, <1>5, <2>1, <2>2, GroupsKept DEF Open
<1>8. InsertionsPaid'
  <2>1. \A m : Working(m)' \subseteq Working(m)
    BY <1>1, <1>2, <1>5 DEF Working, indexerVars
  <2> QED  BY <1>1, <1>2, <1>4, <2>1, PaidKept DEF tableVars
<1> QED  BY <1>3, <1>4, <1>6, <1>7, <1>8 DEF IndexInv

LEMMA InitEstablishesInv == IndexInit => IndexInv
<1> SUFFICES ASSUME IndexInit PROVE IndexInv  OBVIOUS
<1>1. /\ trees \in [{1} -> Tree] /\ queue = <<>> /\ dedup = {} /\ busy = [w \in Indexers |-> 0]
      /\ chunks = [n \in Commits |-> [f \in Files |-> 0]] /\ vectors = {} /\ failed = {}
      /\ at = [w \in Indexers |-> "idle"]
      /\ group = [w \in Indexers |-> NoHashes] /\ known = [w \in Indexers |-> NoHashes]
  BY DEF IndexInit, Bus!BusInit
<1>2. trees \in Seq(Tree) /\ Len(trees) = 1
  <2>1. \A n \in Nat : \A f \in [1..n -> Tree] : f \in Seq(Tree) /\ Len(f) = n  OBVIOUS
  <2>2. {1} = 1..1  OBVIOUS
  <2>3. trees \in [1..1 -> Tree]  BY <1>1, <2>2
  <2> QED  BY <2>1, <2>3
<1>3. Bus!BusTypeOK
  BY <1>1, IndexAssumption DEF Bus!BusTypeOK, Bus!Seqs
<1>4. PICK hashes \in SUBSET Contents : cache = [h \in hashes |-> h] /\ born \in Orders(hashes)
  BY DEF IndexInit
<1>5. /\ cache \in PartialMap(Contents, Contents) /\ born \in Orders(DOMAIN cache)
      /\ \A h \in DOMAIN cache : cache[h] = h
  <2>1. cache \in [hashes -> Contents] /\ DOMAIN cache = hashes /\ \A h \in hashes : cache[h] = h
    BY <1>4
  <2> QED  BY <1>4, <2>1, PartialMapOf
<1>6. IndexTypeOK
  <2>1. chunks \in [Commits -> [Files -> Nat]]  BY <1>1
  <2>2. /\ group \in [Indexers -> PartialMap(Contents, SUBSET Files)]
        /\ known \in [Indexers -> PartialMap(Contents, Contents)]
    BY <1>1, NoHashesMap
  <2>3. Len(trees) <= MaxPushes + 1  BY <1>2, IndexAssumption
  <2>4. provider \in {"github", "bitbucket"}  BY DEF IndexInit
  <2> QED  BY <1>1, <1>2, <1>3, <1>5, <2>1, <2>2, <2>3, <2>4 DEF IndexTypeOK
<1>7. KeysPushed  BY <1>1, <1>2 DEF KeysPushed, Indices
<1>8. VectorsTrue
  <2>1. \A w \in Indexers : DOMAIN known[w] = {} /\ at[w] = "idle"  BY <1>1, NoHashesMap
  <2> QED  BY <1>1, <1>5, <2>1 DEF VectorsTrue, VectorsMatchContents
<1>9. GroupsInCommit  BY <1>1 DEF GroupsInCommit, Open
<1>10. InsertionsPaid
  <2>1. \A n : Working(n) = {}  BY <1>1 DEF Working
  <2>2. \A n : Cardinality(DeliveriesOf(n)) \in Nat  BY <1>3, DeliveriesFinite
  <2>3. \A n \in Commits, f \in Files : chunks[n][f] = 0  BY <1>1
  <2>4. \A n : Cardinality(Working(n)) = 0  BY <2>1, FS_EmptySet
  <2>5. \A n \in Commits, f \in Files :
          /\ chunks[n][f] + Cardinality(Working(n)) <= Cardinality(DeliveriesOf(n))
          /\ ~ (chunks[n][f] > 0)
    BY <2>2, <2>3, <2>4
  <2> QED  BY <2>5 DEF InsertionsPaid
<1> QED  BY <1>6, <1>7, <1>8, <1>9, <1>10 DEF IndexInv

LEMMA StepKeepsInv == IndexInv /\ [IndexNext]_indexVars => IndexInv'
<1> SUFFICES ASSUME IndexInv, [IndexNext]_indexVars PROVE IndexInv'  OBVIOUS
<1>1. CASE \/ \E tree \in Tree : Push(tree)
           \/ \E n \in Commits : PushAgain(n)
  BY <1>1, PushKeepsInv
<1>2. ASSUME NEW w \in Indexers, NEW s \in DOMAIN queue, TakePush(w, s) PROVE IndexInv'
  BY <1>2, TakeKeepsInv
<1>3. ASSUME NEW w \in Indexers, Collect(w) PROVE IndexInv'  BY <1>3, CollectKeepsInv
<1>4. ASSUME NEW w \in Indexers, GetMany(w) PROVE IndexInv'  BY <1>4, GetManyKeepsInv
<1>5. ASSUME NEW w \in Indexers, Embed(w) PROVE IndexInv'  BY <1>5, EmbedKeepsInv
<1>6. ASSUME NEW w \in Indexers, PutMany(w) PROVE IndexInv'  BY <1>6, PutManyKeepsInv
<1>7. ASSUME NEW w \in Indexers, UpsertMany(w) PROVE IndexInv'  BY <1>7, UpsertManyKeepsInv
<1>8. ASSUME NEW w \in Indexers, AckIndexed(w) \/ IndexerStops(w) PROVE IndexInv'
  BY <1>8, EndKeepsInv
<1>9. CASE EvictToMax  BY <1>9, EvictKeepsInv
<1>10. CASE IndexServer \/ UNCHANGED indexVars  BY <1>10, ServerKeepsInv
<1> QED
  BY <1>1, <1>2, <1>3, <1>4, <1>5, <1>6, <1>7, <1>8, <1>9, <1>10 DEF IndexNext, IndexWork

-----------------------------------------------------------------------------
(* No push is lost silently.                                               *)

Accounted(n) == Indexed(n) \/ n \in failed

(* The files to index that a worker has not collected.                    *)
Uncollected(w) ==
  LET n == JobCommit(w)
  IN  {f \in ChangedFiles(n) \cap Parsed :
         trees[n][f] # NoFile /\ ~ \E h \in DOMAIN group[w] : f \in group[w][h]}

(* They are the ones the host did not list.                               *)
CollectedAll(w) == Cardinality(Uncollected(w)) <= Unlisted(JobCommit(w))

(* Of sets of changed files the smaller has no more of them.              *)
LEMMA ChangedFinite ==
  ASSUME NEW n
  PROVE  /\ IsFiniteSet(ChangedFiles(n)) /\ Cardinality(ChangedFiles(n)) \in Nat /\ Unlisted(n) \in Nat
         /\ \A T \in SUBSET ChangedFiles(n) : \A S \in SUBSET T :
              /\ Cardinality(S) \in Nat /\ Cardinality(T) \in Nat
              /\ Cardinality(S) <= Cardinality(T)
<1>1. ChangedFiles(n) \subseteq Files  BY DEF ChangedFiles
<1>2. IsFiniteSet(ChangedFiles(n)) /\ Cardinality(ChangedFiles(n)) \in Nat
  BY <1>1, IndexAssumption, FS_Subset, FS_CardinalityType
<1>3. Unlisted(n) \in Nat  BY <1>2, IndexAssumption DEF Unlisted
<1>4. ASSUME NEW T \in SUBSET ChangedFiles(n), NEW S \in SUBSET T
      PROVE  /\ Cardinality(S) \in Nat /\ Cardinality(T) \in Nat
             /\ Cardinality(S) <= Cardinality(T)
  <2>1. IsFiniteSet(T)  BY <1>2, FS_Subset
  <2>2. IsFiniteSet(S) /\ Cardinality(S) <= Cardinality(T)  BY <2>1, FS_Subset
  <2> QED  BY <2>1, <2>2, FS_CardinalityType
<1> QED  BY <1>2, <1>3, <1>4

(* What is not on the page a host returns.                                *)
LEMMA OffThePage ==
  ASSUME NEW n, NEW page \in ListChangedFiles(n), NEW S \in SUBSET (ChangedFiles(n) \ page)
  PROVE  Cardinality(S) <= Unlisted(n)
<1> DEFINE C == ChangedFiles(n)
<1>1. IsFiniteSet(C) /\ Cardinality(C) \in Nat /\ Unlisted(n) \in Nat  BY ChangedFinite
<1>2. page \in SUBSET C /\ Cardinality(page) = Cardinality(C) - Unlisted(n)  BY DEF ListChangedFiles
<1>3. Cardinality(page) \in Nat  BY <1>2, ChangedFinite
<1>4. Cardinality(C \ page) = Cardinality(C) - Cardinality(C \cap page)  BY <1>1, FS_Difference
<1>5. C \cap page = page  BY <1>2
<1>6. Cardinality(C \ page) = Cardinality(C) - Cardinality(page)  BY <1>4, <1>5
<1>7. C \ page \in SUBSET ChangedFiles(n)  OBVIOUS
<1>8. Cardinality(S) \in Nat /\ Cardinality(C \ page) \in Nat /\ Cardinality(S) <= Cardinality(C \ page)
  BY <1>7, ChangedFinite
<1> HIDE DEF C
<1> QED  BY <1>1, <1>2, <1>3, <1>6, <1>8

WorkAccounted ==
  /\ AckedPushesAccounted
  /\ \A w \in Indexers :
       /\ at[w] = "ack" => Accounted(JobCommit(w))
       /\ at[w] \in Open \ {"list"} => CollectedAll(w) \/ JobCommit(w) \in failed

(* Pushed commits, rows and errors stay.                                  *)
Grows ==
  /\ TreesKept /\ provider' = provider
  /\ failed \subseteq failed'
  /\ \A n \in Commits, f \in Files : chunks'[n][f] >= chunks[n][f]

LEMMA StepGrows ==
  ASSUME IndexInv, [IndexNext]_indexVars
  PROVE  Grows
<1>1. IndexTypeOK /\ KeysPushed  BY DEF IndexInv
<1>2. TreesKept
  <2>1. CASE UNCHANGED trees  BY <2>1 DEF TreesKept
  <2>2. ASSUME NEW tree \in Tree, Push(tree) PROVE TreesKept
    <3>1. trees \in Seq(Tree) /\ trees' = Append(trees, tree)
      BY <1>1, <2>2 DEF IndexTypeOK, Push
    <3>2. /\ trees' \in Seq(Tree) /\ Len(trees') = Len(trees) + 1
          /\ \A i \in 1..Len(trees) : trees'[i] = trees[i]
      BY <3>1, AppendProperties
    <3> QED  BY <1>1, <3>2, TreeOf, LenProperties DEF TreesKept
  <2> QED
    BY <2>1, <2>2 DEF IndexNext, indexVars, PushAgain, TakePush, IndexWork, Collect, GetMany,
       Embed, PutMany, UpsertMany, AckIndexed, IndexerStops, EvictToMax, IndexServer
<1>3. failed \subseteq failed'
  BY DEF IndexNext, indexVars, Push, PushAgain, TakePush, IndexWork, Collect, GetMany,
     Embed, PutMany, UpsertMany, AckIndexed, IndexerStops, EvictToMax, IndexServer, JobFails
<1>4. ASSUME NEW n \in Commits, NEW f \in Files PROVE chunks'[n][f] >= chunks[n][f]
  <2>1. chunks \in [Commits -> [Files -> Nat]]  BY <1>1 DEF IndexTypeOK
  <2>2. chunks[n] \in [Files -> Nat] /\ chunks[n][f] \in Nat  BY <2>1
  <2>3. CASE UNCHANGED chunks  BY <2>2, <2>3
  <2>4. ASSUME NEW w \in Indexers, RowsInserted(w) PROVE chunks'[n][f] >= chunks[n][f]
    <3> DEFINE files == UNION Range(group[w])
    <3>1. chunks' = [chunks EXCEPT ![JobCommit(w)] =
                       [g \in Files |-> chunks[JobCommit(w)][g] + IF g \in files THEN 1 ELSE 0]]
      BY <2>4 DEF RowsInserted
    <3> HIDE DEF files
    <3>2. CASE JobCommit(w) = n
      <4>1. chunks'[n][f] = chunks[n][f] + IF f \in files THEN 1 ELSE 0  BY <2>1, <3>1, <3>2
      <4> QED  BY <2>2, <4>1
    <3>3. CASE JobCommit(w) # n  BY <2>1, <2>2, <3>1, <3>3
    <3> QED  BY <3>2, <3>3
  <2> QED
    BY <2>3, <2>4 DEF IndexNext, indexVars, tableVars, Push, PushAgain, TakePush, IndexWork,
       Collect, GetMany, Embed, PutMany, UpsertMany, AckIndexed, IndexerStops, EvictToMax, IndexServer
<1>5. provider' = provider
  BY DEF IndexNext, indexVars, Push, PushAgain, TakePush, IndexWork, Collect, GetMany,
     Embed, PutMany, UpsertMany, AckIndexed, IndexerStops, EvictToMax, IndexServer
<1> QED  BY <1>2, <1>3, <1>4, <1>5 DEF Grows

(* What a push changed is fixed, and what is accounted for stays so.      *)
LEMMA AccountedKept ==
  ASSUME IndexInv, IndexTypeOK', Grows, NEW n \in Commits, n \in DOMAIN trees
  PROVE  /\ ChangedFiles(n)' = ChangedFiles(n) /\ Unlisted(n)' = Unlisted(n)
         /\ n \in DOMAIN trees' /\ trees'[n] = trees[n]
         /\ Accounted(n) => Accounted(n)'
<1>1. n - 1 \in DOMAIN trees
  BY TreeOf DEF IndexInv, Commits
<1>2. /\ n \in DOMAIN trees' /\ trees'[n] = trees[n] /\ trees'[n - 1] = trees[n - 1]
  BY <1>1 DEF Grows, TreesKept
<1>3. ChangedFiles(n)' = ChangedFiles(n)  BY <1>2 DEF ChangedFiles
<1>4. Unlisted(n)' = Unlisted(n)  BY <1>3 DEF Unlisted, Grows
<1>5. ASSUME Indexed(n) PROVE Indexed(n)'
  <2>1. ASSUME NEW f \in Missing(n)' PROVE f \in Missing(n)
    <3>1. /\ f \in ChangedFiles(n) \cap Parsed /\ f \in Files
          /\ trees[n][f] # NoFile /\ chunks'[n][f] = 0
      BY <1>2, <1>3, <2>1 DEF Missing, ChangedFiles
    <3>2. chunks[n][f] \in Nat /\ chunks'[n][f] >= chunks[n][f]
      BY <3>1 DEF IndexInv, IndexTypeOK, Grows
    <3>3. chunks[n][f] = 0  BY <3>1, <3>2
    <3> QED  BY <3>1, <3>3 DEF Missing
  <2>2. Missing(n) \in SUBSET ChangedFiles(n) /\ Missing(n)' \in SUBSET Missing(n)
    BY <2>1 DEF Missing
  <2>3. /\ Cardinality(Missing(n)') \in Nat /\ Cardinality(Missing(n)) \in Nat
        /\ Cardinality(Missing(n)') <= Cardinality(Missing(n)) /\ Unlisted(n) \in Nat
    BY <2>2, ChangedFinite
  <2>4. Cardinality(Missing(n)) <= Unlisted(n)  BY <1>5 DEF Indexed
  <2>5. Cardinality(Missing(n)') <= Unlisted(n)  BY <2>3, <2>4
  <2> QED  BY <1>4, <2>5 DEF Indexed
<1> QED  BY <1>2, <1>3, <1>4, <1>5 DEF Accounted, Grows

(* Only an indexer that has come to its ack makes a message acked.        *)
LEMMA AckedByWorker ==
  ASSUME IndexInv, [IndexNext]_indexVars, NEW s \in DOMAIN queue', queue'[s].state = "acked"
  PROVE  /\ s \in Indices /\ queue'[s].key = queue[s].key
         /\ queue[s].state = "acked" \/ \E w \in Indexers : at[w] = "ack" /\ busy[w] = s
<1>1. Bus!BusTypeOK /\ DOMAIN queue = Indices /\ \A t \in Indices : queue[t] \in Bus!Message
  BY StreamIndices DEF IndexInv, IndexTypeOK
<1>2. CASE UNCHANGED queue  BY <1>1, <1>2
<1>3. ASSUME NEW n \in Commits, Bus!Store(n)
      PROVE  s \in Indices /\ queue'[s] = queue[s]
  <2> DEFINE m == [key |-> n, state |-> "ready", deliveries |-> 0]
  <2>1. m \in Bus!Message /\ m.state = "ready"  BY IndexAssumption DEF Bus!Message
  <2>2. queue \in Seq(Bus!Message) /\ queue' = Append(queue, m)
    BY <1>1, <1>3 DEF Bus!Store, Bus!BusTypeOK
  <2> HIDE DEF m
  <2>3. /\ queue' \in Seq(Bus!Message) /\ Len(queue') = Len(queue) + 1
        /\ \A t \in 1..Len(queue) : queue'[t] = queue[t]
        /\ queue'[Len(queue) + 1] = m
    BY <2>1, <2>2, AppendProperties
  <2>4. DOMAIN queue' = Indices \cup {Len(queue) + 1}
    BY <1>1, <2>3, StreamIndices, LenProperties DEF Indices
  <2> QED  BY <2>1, <2>3, <2>4 DEF Indices
<1>4. ASSUME NEW w \in Indexers, NEW t \in DOMAIN queue, Bus!Deliver(w, t)
      PROVE  s \in Indices /\ queue'[s] = queue[s]
  <2>1. DOMAIN queue' = Indices /\ queue'[t].state = "inflight"
        /\ \A u \in Indices \ {t} : queue'[u] = queue[u]
    BY <1>1, <1>4 DEF Bus!Deliver, Bus!Message
  <2> QED  BY <2>1
<1>5. ASSUME NEW t \in DOMAIN queue, Bus!AckWaitExpires(t) \/ Bus!AgeOut(t)
      PROVE  s \in Indices /\ queue'[s] = queue[s]
  <2>1. DOMAIN queue' = Indices /\ queue'[t].state \in {"ready", "expired"}
        /\ \A u \in Indices \ {t} : queue'[u] = queue[u]
    BY <1>1, <1>5 DEF Bus!AckWaitExpires, Bus!AgeOut, Bus!Message
  <2> QED  BY <2>1
<1>6. ASSUME NEW w \in Indexers, AckIndexed(w)
      PROVE  /\ s \in Indices /\ queue'[s].key = queue[s].key
             /\ queue[s].state = "acked" \/ \E v \in Indexers : at[v] = "ack" /\ busy[v] = s
  <2>1. at[w] = "ack" /\ Bus!Ack(w)  BY <1>6 DEF AckIndexed
  <2>2. busy[w] \in Indices  BY <1>1, <2>1, StreamIndices DEF Bus!Ack
  <2>3. /\ DOMAIN queue' = Indices /\ \A u \in Indices \ {busy[w]} : queue'[u] = queue[u]
        /\ queue'[busy[w]].key = queue[busy[w]].key
    BY <1>1, <2>1, <2>2 DEF Bus!Ack, Bus!Message
  <2> QED  BY <2>1, <2>2, <2>3
<1>7. \/ UNCHANGED queue
      \/ \E n \in Commits : Bus!Store(n)
      \/ \E w \in Indexers, t \in DOMAIN queue : Bus!Deliver(w, t)
      \/ \E t \in DOMAIN queue : Bus!AckWaitExpires(t) \/ Bus!AgeOut(t)
      \/ \E w \in Indexers : AckIndexed(w)
  <2>1. CASE UNCHANGED indexVars  BY <2>1 DEF indexVars, queueVars
  <2>2. ASSUME NEW tree \in Tree, Push(tree)
        PROVE  UNCHANGED queue \/ \E n \in Commits : Bus!Store(n)
    <3>1. Len(trees) + 1 \in Commits
      BY <2>2, TreeOf, IndexAssumption DEF IndexInv, Push, Commits
    <3> QED  BY <2>2, <3>1 DEF Push, Bus!Publish, Bus!busVars
  <2>3. ASSUME NEW n \in Commits, PushAgain(n)
        PROVE  UNCHANGED queue \/ \E k \in Commits : Bus!Store(k)
    BY <2>3 DEF PushAgain, Bus!Publish, Bus!busVars
  <2>4. ASSUME NEW w \in Indexers, NEW t \in DOMAIN queue, TakePush(w, t)
        PROVE  Bus!Deliver(w, t)
    BY <2>4 DEF TakePush
  <2>5. ASSUME NEW w \in Indexers,
               Collect(w) \/ GetMany(w) \/ Embed(w) \/ PutMany(w) \/ UpsertMany(w) \/ IndexerStops(w)
        PROVE  UNCHANGED queue
    BY <2>5 DEF Collect, GetMany, Embed, PutMany, UpsertMany, IndexerStops, Bus!Abandon, queueVars
  <2>6. CASE EvictToMax  BY <2>6 DEF EvictToMax, queueVars
  <2>7. CASE IndexServer  BY <2>7 DEF IndexServer, Bus!WindowExpires
  <2> QED  BY <2>1, <2>2, <2>3, <2>4, <2>5, <2>6, <2>7 DEF IndexNext, IndexWork
<1> QED  BY <1>1, <1>2, <1>3, <1>4, <1>5, <1>6, <1>7

LEMMA AckedStayAccounted ==
  ASSUME IndexInv, IndexTypeOK', WorkAccounted, [IndexNext]_indexVars
  PROVE  AckedPushesAccounted'
<1> SUFFICES ASSUME NEW s \in DOMAIN queue', queue'[s].state = "acked",
                    NEW n, n = queue'[s].key
             PROVE  Accounted(n)'
  BY DEF AckedPushesAccounted, Accounted
<1>1. /\ s \in Indices /\ queue'[s].key = queue[s].key
      /\ queue[s].state = "acked" \/ \E w \in Indexers : at[w] = "ack" /\ busy[w] = s
  BY AckedByWorker
<1>2. /\ DOMAIN queue = Indices /\ queue[s].key \in Commits /\ queue[s].key \in DOMAIN trees
  BY <1>1, StreamIndices DEF IndexInv, IndexTypeOK, KeysPushed
<1>3. Accounted(queue[s].key)
  BY <1>1, <1>2 DEF WorkAccounted, AckedPushesAccounted, Accounted, JobCommit
<1>4. n = queue[s].key /\ n \in Commits  BY <1>1, <1>2
<1> QED  BY <1>2, <1>3, <1>4, StepGrows, AccountedKept

(* No step makes the bus forget.                                          *)
LEMMA StepKeeps ==
  ASSUME IndexInv, [IndexNext]_indexVars
  PROVE  Keeps
<1>1. Bus!BusTypeOK  BY DEF IndexInv, IndexTypeOK
<1>2. CASE UNCHANGED queueVars  BY <1>1, <1>2, BusUnchanged
<1>3. ASSUME NEW tree \in Tree, Push(tree) PROVE Keeps
  <2>1. Len(trees) + 1 \in Commits
    BY <1>3, TreeOf, IndexAssumption DEF IndexInv, Push, Commits
  <2> QED  BY <1>1, <1>3, <2>1, PublishKeeps DEF Push
<1>4. ASSUME NEW n \in Commits, PushAgain(n) PROVE Keeps
  BY <1>1, <1>4, PublishKeeps DEF PushAgain
<1>5. ASSUME NEW w \in Indexers, NEW s \in DOMAIN queue, TakePush(w, s) PROVE Keeps
  BY <1>1, <1>5, DeliverKeeps DEF TakePush
<1>6. ASSUME NEW w \in Indexers, AckIndexed(w) \/ IndexerStops(w) PROVE Keeps
  BY <1>1, <1>6, LetGoKeeps DEF AckIndexed, IndexerStops
<1>7. CASE IndexServer  BY <1>1, <1>7, TimerKeeps DEF IndexServer
<1> QED
  BY <1>2, <1>3, <1>4, <1>5, <1>6, <1>7
  DEF IndexNext, indexVars, IndexWork, Collect, GetMany, Embed, PutMany, UpsertMany, EvictToMax

(* What WorkAccounted says of one worker.                                 *)
WorkerAccounted(v) ==
  /\ at[v] = "ack" => Accounted(JobCommit(v))
  /\ at[v] \in Open \ {"list"} => CollectedAll(v) \/ JobCommit(v) \in failed

LEMMA AccountedOnTheWay ==
  ASSUME IndexInv, IndexTypeOK', [IndexNext]_indexVars, NEW v \in Indexers, WorkerAccounted(v),
         at[v] # "idle", busy'[v] = busy[v], group'[v] = group[v],
         at'[v] = at[v] \/ {at[v], at'[v]} \subseteq Open \ {"list"}
  PROVE  WorkerAccounted(v)'
<1>0. /\ Grows /\ Keeps /\ IndexTypeOK /\ Bus!BusTypeOK /\ busy[v] # 0
      /\ JobCommit(v) \in Commits /\ JobCommit(v) \in DOMAIN trees
  BY StepGrows, StepKeeps, JobOf DEF IndexInv, IndexTypeOK, KeysPushed, JobCommit
<1>1. PICK n \in Commits : n = JobCommit(v) /\ n \in DOMAIN trees  BY <1>0
<1>2. JobCommit(v)' = n  BY <1>0, <1>1, JobKept
<1>3. /\ ChangedFiles(n)' = ChangedFiles(n) /\ trees'[n] = trees[n]
      /\ Accounted(n) => Accounted(n)'
      /\ failed \subseteq failed' /\ Unlisted(n)' = Unlisted(n) /\ provider' = provider
  BY <1>0, <1>1, AccountedKept DEF Grows
<1>4. ASSUME at'[v] = "ack" PROVE Accounted(JobCommit(v))'
  <2>1. at[v] = "ack"  BY <1>4 DEF Open
  <2> QED  BY <1>1, <1>2, <1>3, <2>1 DEF WorkerAccounted, Accounted, Indexed, ChangedFiles
<1>5. ASSUME at'[v] \in Open \ {"list"} PROVE CollectedAll(v)' \/ JobCommit(v)' \in failed'
  <2>1. CollectedAll(v) \/ n \in failed  BY <1>1, <1>5 DEF WorkerAccounted, Open
  <2>2. CASE n \in failed  BY <1>2, <1>3, <2>2
  <2>3. CASE CollectedAll(v)
    <3>1. Uncollected(v)' = Uncollected(v)
      BY <1>1, <1>2, <1>3 DEF Uncollected, ChangedFiles
    <3>2. Unlisted(JobCommit(v))' = Unlisted(n)
      <4>1. ChangedFiles(JobCommit(v))' = ChangedFiles(n)  BY <1>2, <1>3 DEF ChangedFiles
      <4> QED  BY <1>3, <4>1 DEF Unlisted
    <3> QED  BY <1>1, <2>3, <3>1, <3>2 DEF CollectedAll
  <2> QED  BY <2>1, <2>2, <2>3
<1> QED  BY <1>4, <1>5 DEF WorkerAccounted

(* The job ends in the error log.                                         *)
LEMMA FailureAccounted ==
  ASSUME IndexInv, [IndexNext]_indexVars, NEW w \in Indexers, at[w] \in Open,
         UNCHANGED queueVars, JobFails(w)
  PROVE  WorkerAccounted(w)'
BY DEF JobFails, IndexerTo, IndexInv, IndexTypeOK, WorkerAccounted, Accounted, JobCommit,
       queueVars, Open

LEMMA CollectAccounted ==
  ASSUME IndexInv, IndexTypeOK', [IndexNext]_indexVars, NEW w \in Indexers, Collect(w)
  PROVE  WorkerAccounted(w)'
<1> DEFINE n == JobCommit(w)
           There(page) == {f \in page \cap Parsed : trees[n][f] # NoFile}
<1>1. /\ at[w] = "list" /\ at[w] \in Open /\ UNCHANGED <<provider, queueVars, trees, tableVars, known>>
      /\ IndexTypeOK /\ JobCommit(w)' = n /\ at' \in [Indexers -> Open \cup {"idle", "ack"}]
  BY DEF Collect, Open, IndexInv, IndexTypeOK, JobCommit, queueVars
<1>2. CASE JobFails(w)  BY <1>1, <1>2, FailureAccounted
<1>3. ASSUME NEW page \in ListChangedFiles(n), NEW files \in SUBSET There(page),
             group' = [group EXCEPT ![w] = ByHash(n, files)],
             failed' = IF files = There(page) THEN failed ELSE failed \cup {n},
             IndexerTo(w, IF files = {} THEN "ack" ELSE "lookup")
      PROVE  WorkerAccounted(w)'
  <2>1. group'[w] = ByHash(n, files) /\ at'[w] = (IF files = {} THEN "ack" ELSE "lookup")
    BY <1>1, <1>3 DEF IndexerTo, IndexTypeOK
  <2>2. CASE files # There(page)  BY <1>1, <1>3, <2>1, <2>2 DEF WorkerAccounted, Accounted, Open
  <2>3. CASE files = There(page)
    <3>1. ASSUME NEW f \in page \cap Parsed, trees[n][f] # NoFile
          PROVE  \E h \in DOMAIN group'[w] : f \in group'[w][h]
      <4>1. f \in files  BY <2>3, <3>1
      <4>2. trees[n][f] \in DOMAIN ByHash(n, files) /\ f \in ByHash(n, files)[trees[n][f]]
        BY <4>1 DEF ByHash
      <4> HIDE DEF n, There
      <4> QED  BY <2>1, <4>2
    <3>2. ChangedFiles(n)' = ChangedFiles(n) /\ Unlisted(n)' = Unlisted(n)
      BY <1>1 DEF ChangedFiles, Unlisted
    <3>3. Unlisted(JobCommit(w))' = Unlisted(n)
      BY <1>1 DEF ChangedFiles, Unlisted
    <3>4. CollectedAll(w)'
      <4>1. Uncollected(w)' \in SUBSET (ChangedFiles(n) \ page)
        BY <1>1, <3>1 DEF Uncollected, ChangedFiles
      <4>2. Cardinality(Uncollected(w)') <= Unlisted(n)
        <5> HIDE DEF n
        <5> QED  BY <1>3, <4>1, OffThePage
      <4> QED  BY <3>3, <4>2 DEF CollectedAll
    <3>5. files = {} => Indexed(JobCommit(w))'
      <4> SUFFICES ASSUME files = {} PROVE Indexed(JobCommit(w))'  OBVIOUS
      <4>1. Missing(JobCommit(w))' \in SUBSET (ChangedFiles(n) \ page)
        BY <1>1, <2>3 DEF Missing, ChangedFiles
      <4>2. Cardinality(Missing(JobCommit(w))') <= Unlisted(n)
        <5> HIDE DEF n
        <5> QED  BY <1>3, <4>1, OffThePage
      <4> QED  BY <3>3, <4>2 DEF Indexed
    <3> QED  BY <2>1, <3>4, <3>5 DEF WorkerAccounted, Accounted, Open
  <2> QED  BY <2>2, <2>3
<1> QED  BY <1>2, <1>3 DEF Collect

(* What was collected is inserted.                                        *)
LEMMA UpsertAccounted ==
  ASSUME IndexInv, IndexTypeOK', [IndexNext]_indexVars, NEW w \in Indexers, WorkerAccounted(w),
         UpsertMany(w)
  PROVE  WorkerAccounted(w)'
<1> DEFINE n == JobCommit(w)
           files == UNION Range(group[w])
<1>1. /\ at[w] = "upsert" /\ at[w] \in Open /\ IndexTypeOK
      /\ UNCHANGED <<provider, queueVars, trees, cache, born, group, known>>
      /\ JobCommit(w)' = n /\ n \in Commits
  BY JobOf DEF UpsertMany, Open, IndexInv, JobCommit, queueVars
<1>2. CASE JobFails(w)  BY <1>1, <1>2, FailureAccounted
<1>3. CASE RowsInserted(w) /\ IndexerTo(w, "ack") /\ UNCHANGED failed
  <2>1. at'[w] = "ack"  BY <1>1, <1>3 DEF IndexerTo, IndexTypeOK
  <2>2. CASE n \in failed  BY <1>1, <1>3, <2>1, <2>2 DEF WorkerAccounted, Accounted, Open
  <2>3. CASE CollectedAll(w)
    <3>1. ASSUME NEW f \in ChangedFiles(n) \cap Parsed, trees[n][f] # NoFile, f \notin Uncollected(w)
          PROVE  chunks'[n][f] # 0
      <4>1. PICK h \in DOMAIN group[w] : f \in group[w][h]
        BY <3>1 DEF Uncollected
      <4>2. f \in files /\ f \in Files  BY <3>1, <4>1 DEF Range, ChangedFiles
      <4>3. chunks' = [chunks EXCEPT ![n] = [g \in Files |-> chunks[n][g] + IF g \in files THEN 1 ELSE 0]]
        BY <1>3 DEF RowsInserted
      <4>4. chunks \in [Commits -> [Files -> Nat]]  BY <1>1 DEF IndexTypeOK
      <4> HIDE DEF n, files
      <4>5. chunks'[n][f] = chunks[n][f] + 1 /\ chunks[n][f] \in Nat
        BY <1>1, <4>2, <4>3, <4>4
      <4> QED  BY <4>5
    <3>2. Missing(JobCommit(w))' \in SUBSET Uncollected(w)
      BY <1>1, <3>1 DEF Missing, ChangedFiles
    <3>3. Unlisted(JobCommit(w))' = Unlisted(n)
      BY <1>1 DEF ChangedFiles, Unlisted
    <3>4. Uncollected(w) \in SUBSET ChangedFiles(n)  BY DEF Uncollected
    <3>5. /\ Cardinality(Missing(JobCommit(w))') \in Nat /\ Cardinality(Uncollected(w)) \in Nat
          /\ Cardinality(Missing(JobCommit(w))') <= Cardinality(Uncollected(w)) /\ Unlisted(n) \in Nat
      <4> HIDE DEF n
      <4> QED  BY <3>2, <3>4, ChangedFinite
    <3>6. Cardinality(Uncollected(w)) <= Unlisted(n)  BY <2>3 DEF CollectedAll
    <3>7. Cardinality(Missing(JobCommit(w))') <= Unlisted(n)
      <4> HIDE DEF n
      <4> QED  BY <3>5, <3>6
    <3>8. Indexed(JobCommit(w))'  BY <3>3, <3>7 DEF Indexed
    <3> QED  BY <2>1, <3>8 DEF WorkerAccounted, Accounted, Open
  <2>4. CollectedAll(w) \/ n \in failed  BY <1>1 DEF WorkerAccounted, Open
  <2> QED  BY <2>2, <2>3, <2>4
<1> QED  BY <1>2, <1>3 DEF UpsertMany

LEMMA WorkInitial == IndexInit => WorkAccounted
BY DEF IndexInit, Bus!BusInit, WorkAccounted, AckedPushesAccounted, Open

LEMMA WorkStep ==
  ASSUME IndexInv, IndexTypeOK', WorkAccounted, [IndexNext]_indexVars
  PROVE  WorkAccounted'
<1> SUFFICES ASSUME NEW v \in Indexers PROVE WorkerAccounted(v)'
  BY AckedStayAccounted DEF WorkAccounted, WorkerAccounted
<1>1. WorkerAccounted(v)  BY DEF WorkAccounted, WorkerAccounted
<1>2. IndexTypeOK /\ Bus!BusTypeOK  BY DEF IndexInv, IndexTypeOK
<1>3. ASSUME UNCHANGED <<at, group>>, busy' = busy PROVE WorkerAccounted(v)'
  <2>1. CASE at[v] = "idle"  BY <1>3, <2>1 DEF WorkerAccounted, Open
  <2>2. CASE at[v] # "idle"  BY <1>1, <1>3, <2>2, AccountedOnTheWay
  <2> QED  BY <2>1, <2>2
<1>4. ASSUME at'[v] \in {"idle", "list"} PROVE WorkerAccounted(v)'
  BY <1>4 DEF WorkerAccounted, Open
<1>5. ASSUME at'[v] = at[v], group'[v] = group[v], busy'[v] = busy[v] PROVE WorkerAccounted(v)'
  <2>1. CASE at[v] = "idle"  BY <1>4, <1>5, <2>1
  <2>2. CASE at[v] # "idle"  BY <1>1, <1>5, <2>2, AccountedOnTheWay
  <2> QED  BY <2>1, <2>2
<1>6. ASSUME UNCHANGED indexerVars, IndexServer \/ EvictToMax \/ UNCHANGED indexVars
             \/ (\E tree \in Tree : Push(tree)) \/ (\E n \in Commits : PushAgain(n))
      PROVE  WorkerAccounted(v)'
  <2>1. busy' = busy
    BY <1>6 DEF IndexServer, Bus!WindowExpires, Bus!AckWaitExpires, Bus!AgeOut, EvictToMax, queueVars, indexVars,
       Push, PushAgain, Bus!Publish, Bus!Store, Bus!busVars
  <2> QED  BY <1>3, <1>6, <2>1 DEF indexerVars
<1>7. ASSUME NEW w \in Indexers, NEW s \in DOMAIN queue, TakePush(w, s) PROVE WorkerAccounted(v)'
  <2>1. /\ at' = [at EXCEPT ![w] = "list"] /\ UNCHANGED group /\ busy' = [busy EXCEPT ![w] = s]
    BY <1>7 DEF TakePush, IndexerTo, Bus!Deliver
  <2>2. CASE v = w  BY <1>2, <1>4, <2>1, <2>2 DEF IndexTypeOK
  <2>3. CASE v # w  BY <1>2, <1>5, <2>1, <2>3 DEF IndexTypeOK
  <2> QED  BY <2>2, <2>3
<1>8. ASSUME NEW w \in Indexers, AckIndexed(w) \/ IndexerStops(w) PROVE WorkerAccounted(v)'
  <2>1. /\ at' = [at EXCEPT ![w] = "idle"] /\ group' = [group EXCEPT ![w] = NoHashes]
        /\ busy' = [busy EXCEPT ![w] = 0]
    BY <1>8 DEF AckIndexed, IndexerStops, IndexerTo, Forget, Bus!Ack, Bus!Abandon
  <2>2. CASE v = w  BY <1>2, <1>4, <2>1, <2>2 DEF IndexTypeOK
  <2>3. CASE v # w  BY <1>2, <1>5, <2>1, <2>3 DEF IndexTypeOK, Bus!BusTypeOK
  <2> QED  BY <2>2, <2>3
<1>9. ASSUME NEW w \in Indexers, Collect(w) PROVE WorkerAccounted(v)'
  <2>1. CASE v = w  BY <1>9, <2>1, CollectAccounted
  <2>2. CASE v # w
    <3>1. at'[v] = at[v] /\ group'[v] = group[v] /\ busy' = busy
      BY <1>2, <1>9, <2>2 DEF Collect, JobFails, IndexerTo, queueVars, IndexTypeOK
    <3> QED  BY <1>5, <3>1
  <2> QED  BY <2>1, <2>2
<1>10. ASSUME NEW w \in Indexers, UpsertMany(w) PROVE WorkerAccounted(v)'
  <2>1. CASE v = w  BY <1>1, <1>10, <2>1, UpsertAccounted
  <2>2. CASE v # w
    <3>1. at'[v] = at[v] /\ group'[v] = group[v] /\ busy' = busy
      BY <1>2, <1>10, <2>2 DEF UpsertMany, JobFails, IndexerTo, queueVars, IndexTypeOK
    <3> QED  BY <1>5, <3>1
  <2> QED  BY <2>1, <2>2
<1>11. ASSUME NEW w \in Indexers, GetMany(w) \/ Embed(w) \/ PutMany(w) PROVE WorkerAccounted(v)'
  <2>1. /\ at[w] \in Open \ {"list"} /\ UNCHANGED <<queueVars, group>>
        /\ JobFails(w) \/ \E p \in Open \ {"list"} : at' = [at EXCEPT ![w] = p]
    BY <1>11 DEF GetMany, Embed, PutMany, IndexerTo, Open
  <2>2. CASE v # w
    <3>1. at'[v] = at[v] /\ group'[v] = group[v] /\ busy' = busy
      BY <1>2, <2>1, <2>2 DEF JobFails, IndexerTo, queueVars, IndexTypeOK
    <3> QED  BY <1>5, <3>1
  <2>3. CASE v = w /\ JobFails(w)  BY <2>1, <2>3, FailureAccounted
  <2>4. CASE v = w /\ \E p \in Open \ {"list"} : at' = [at EXCEPT ![w] = p]
    <3>1. {at[v], at'[v]} \subseteq Open \ {"list"} /\ busy' = busy /\ group' = group /\ at[v] # "idle"
      BY <1>2, <2>1, <2>4 DEF queueVars, IndexTypeOK, Open
    <3> QED  BY <1>1, <3>1, AccountedOnTheWay
  <2> QED  BY <2>1, <2>2, <2>3, <2>4
<1> QED
  BY <1>6, <1>7, <1>8, <1>9, <1>10, <1>11
  DEF IndexNext, IndexWork, IndexServer, EvictToMax, indexVars, Push, PushAgain

(* No vector is stored with, or cached for, another content, whatever      *)
(* mixture of cached and new hashes a job has and whatever is evicted      *)
(* between two calls of its worker (splitForEmbedding, EmbeddingCache); a  *)
(* commit's chunks are inserted at most once per delivery of its jobs, and *)
(* only for files that are in it (UpsertMany); and a push that Handle has  *)
(* acked has all its rows or an entry in the error log, but for the files  *)
(* beyond the one page of a comparison that is read from GitHub.           *)
THEOREM VectorsStayWithTheirContents == IndexSafety => [](IndexTypeOK /\ IndexIsSound)
<1>1. IndexInv /\ WorkAccounted => IndexTypeOK /\ IndexIsSound
  <2> SUFFICES ASSUME IndexInv, WorkAccounted PROVE IndexIsSound  BY DEF IndexInv
  <2>1. VectorsMatchContents  BY DEF IndexInv, VectorsTrue
  <2>2. ASSUME NEW n \in Commits, NEW f \in Files
        PROVE  /\ chunks[n][f] <= Cardinality(DeliveriesOf(n))
               /\ chunks[n][f] > 0 => n \in DOMAIN trees /\ trees[n][f] # NoFile
    <3>1. chunks[n][f] \in Nat /\ Bus!BusTypeOK  BY DEF IndexInv, IndexTypeOK
    <3>2. Cardinality(Working(n)) \in Nat  BY WorkingFinite
    <3>3. Cardinality(DeliveriesOf(n)) \in Nat  BY <3>1, DeliveriesFinite
    <3>4. /\ chunks[n][f] + Cardinality(Working(n)) <= Cardinality(DeliveriesOf(n))
          /\ chunks[n][f] > 0 => n \in DOMAIN trees /\ trees[n][f] # NoFile
      BY DEF IndexInv, InsertionsPaid
    <3> QED  BY <3>1, <3>2, <3>3, <3>4
  <2>3. AckedPushesAccounted  BY DEF WorkAccounted
  <2> QED  BY <2>1, <2>2, <2>3 DEF IndexIsSound, CopiesWithinDeliveries
<1>2. IndexInit => IndexInv /\ WorkAccounted  BY InitEstablishesInv, WorkInitial
<1>3. IndexInv /\ WorkAccounted /\ [IndexNext]_indexVars => IndexInv' /\ WorkAccounted'
  BY StepKeepsInv, WorkStep DEF IndexInv
<1> QED  BY <1>1, <1>2, <1>3, PTL DEF IndexSafety

(* The gateway and the indexer workers use the bus as it is meant to be    *)
(* used, so that what was proved of the bus for any clients holds here.    *)
BusProofs == INSTANCE JobBusProofs WITH
  Keys <- Commits, Workers <- Indexers, MaxDeliver <- PushDeliver, MaxMessages <- PushMessages,
  stream <- queue, window <- dedup, holding <- busy

(* The two instances of the bus are one.                                   *)
LEMMA SameBus ==
  /\ Bus!BusInit => BusProofs!BusInit
  /\ [Bus!BusNext]_(Bus!busVars) => [BusProofs!BusNext]_(BusProofs!busVars)
  /\ BusProofs!BusInv => Bus!HoldersWithinDeliveries
<1>1. Bus!BusInit => BusProofs!BusInit  BY DEF Bus!BusInit, BusProofs!BusInit
<1>2. [Bus!BusNext]_(Bus!busVars) => [BusProofs!BusNext]_(BusProofs!busVars)
  BY DEF Bus!BusNext, Bus!busVars, Bus!Publish, Bus!Store, Bus!WindowExpires, Bus!Ack, Bus!Nak,
         Bus!Abandon, Bus!Deliver, Bus!AckWaitExpires, Bus!AgeOut, Bus!Seqs, Bus!Gone,
         BusProofs!BusNext, BusProofs!busVars, BusProofs!Publish, BusProofs!Store,
         BusProofs!WindowExpires, BusProofs!Ack, BusProofs!Nak, BusProofs!Abandon,
         BusProofs!Deliver, BusProofs!AckWaitExpires, BusProofs!AgeOut, BusProofs!Seqs, BusProofs!Gone
<1>3. BusProofs!BusInv => Bus!HoldersWithinDeliveries
  BY DEF BusProofs!BusInv, BusProofs!HoldersWithinDeliveries, BusProofs!Holders, BusProofs!Seqs,
         BusProofs!Cardinality, Bus!HoldersWithinDeliveries, Bus!Holders, Bus!Seqs, Bus!Cardinality
<1> QED  BY <1>1, <1>2, <1>3

(* The assumption of the bus.                                              *)
LEMMA BusAssumed == BusProofs!IsFiniteSet(Indexers)
BY IndexAssumption DEF IsFiniteSet, BusProofs!IsFiniteSet

(* Every step of the indexer is one of the bus.                            *)
LEMMA IndexBusSteps ==
  ASSUME IndexTypeOK, KeysPushed, [IndexNext]_indexVars
  PROVE  [Bus!BusNext]_(Bus!busVars)
<1> USE DEF Bus!BusNext, Bus!busVars, Bus!Seqs
<1>1. ASSUME NEW tree \in Tree, Push(tree) PROVE [Bus!BusNext]_(Bus!busVars)
  <2>1. Len(trees) + 1 \in Commits
    BY <1>1, LenProperties, IndexAssumption DEF Push, IndexTypeOK, KeysPushed, Commits
  <2> QED  BY <1>1, <2>1 DEF Push
<1>2. CASE \E n \in Commits : PushAgain(n)  BY <1>2 DEF PushAgain
<1>3. CASE \E w \in Indexers, s \in DOMAIN queue : TakePush(w, s)
  BY <1>3 DEF TakePush
<1>4. CASE \E w \in Indexers : Collect(w) \/ GetMany(w) \/ Embed(w) \/ PutMany(w) \/ UpsertMany(w)
  BY <1>4 DEF Collect, GetMany, Embed, PutMany, UpsertMany, queueVars
<1>5. CASE \E w \in Indexers : AckIndexed(w) \/ IndexerStops(w)
  BY <1>5 DEF AckIndexed, IndexerStops
<1>6. CASE EvictToMax \/ UNCHANGED indexVars
  BY <1>6 DEF EvictToMax, indexVars, queueVars
<1>7. CASE IndexServer  BY <1>7 DEF IndexServer
<1> QED  BY <1>1, <1>2, <1>3, <1>4, <1>5, <1>6, <1>7 DEF IndexNext, IndexWork

(* Pushes and indexer workers only ever take steps of the bus on their     *)
(* queue.                                                                  *)
LEMMA IndexUsesBus == IndexSafety => Bus!BusSafety
<1>1. IndexInit => Bus!BusInit  BY DEF IndexInit
<1>2. IndexInv /\ [IndexNext]_indexVars => [Bus!BusNext]_(Bus!busVars)
  BY IndexBusSteps DEF IndexInv
<1> QED
  BY <1>1, <1>2, InitEstablishesInv, StepKeepsInv, PTL DEF IndexSafety, Bus!BusSafety

(* A push is handled by no more workers than deliveries counted for it     *)
(* (Consume's NumDelivered), and an acked one is not brought back by a     *)
(* timer.                                                                  *)
THEOREM IndexBusIsSafe == IndexSafety => []Bus!HoldersWithinDeliveries /\ Bus!NeverRevived
<1>1. Bus!BusInit => BusProofs!BusInv
  BY SameBus, BusAssumed, IndexAssumption, BusProofs!BusInvInit
<1>2. BusProofs!BusInv /\ [Bus!BusNext]_(Bus!busVars) => BusProofs!BusInv'
  BY SameBus, BusAssumed, IndexAssumption, BusProofs!BusInvStep
<1>3. BusProofs!BusInv => Bus!HoldersWithinDeliveries  BY SameBus
<1>4. BusProofs!BusInv /\ [Bus!BusNext]_(Bus!busVars) => [BusProofs!GoneKept]_(BusProofs!busVars)
  BY SameBus, BusAssumed, IndexAssumption, BusProofs!GoneStays
<1>5. [BusProofs!GoneKept]_(BusProofs!busVars) =>
        [\A s \in Bus!Seqs : queue[s].state \in Bus!Gone => queue'[s].state = queue[s].state]_(Bus!busVars)
  BY DEF BusProofs!GoneKept, BusProofs!busVars, BusProofs!Seqs, BusProofs!Gone,
         Bus!busVars, Bus!Seqs, Bus!Gone
<1> QED
  BY <1>1, <1>2, <1>3, <1>4, <1>5, IndexUsesBus, PTL DEF Bus!BusSafety, Bus!NeverRevived
=============================================================================
