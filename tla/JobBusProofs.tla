---------------------------- MODULE JobBusProofs ----------------------------
(***************************************************************************)
(* What the bus guarantees for any number of workers, keys and messages.   *)
(***************************************************************************)
EXTENDS JobBus, FiniteSetTheorems, SequenceTheorems, TLAPS

(* The stream as a function on its indices.                                *)
LEMMA StreamFacts ==
  ASSUME BusTypeOK
  PROVE  /\ Len(stream) \in Nat /\ Seqs = 1..Len(stream)
         /\ \A s \in Seqs : stream[s] \in Message
         /\ \A w \in Workers : holding[w] # 0 => holding[w] \in Seqs
BY LenProperties, ElementOfSeq DEF BusTypeOK, Seqs

(* Replacing one message keeps the stream a stream.                        *)
LEMMA MessageUpdate ==
  ASSUME BusTypeOK, NEW s \in Seqs, NEW m \in Message, stream' = [stream EXCEPT ![s] = m]
  PROVE  /\ stream' \in Seq(Message) /\ Len(stream') = Len(stream) /\ Seqs' = Seqs
         /\ \A t \in Seqs : stream'[t] = IF t = s THEN m ELSE stream[t]
<1>1. s \in 1..Len(stream)  BY StreamFacts
<1>2. stream' \in Seq(Message) /\ Len(stream') = Len(stream)
  BY <1>1, ExceptSeq DEF BusTypeOK
<1>3. Seqs' = Seqs  BY <1>2, LenProperties DEF BusTypeOK, Seqs
<1> QED  BY <1>1, <1>2, <1>3, ExceptSeq, StreamFacts DEF BusTypeOK

(* Every step but a publish replaces at most one message, and counts no    *)
(* delivery unless it makes one.                                           *)
Replaces(s, m) == s \in Seqs /\ m \in Message /\ stream' = [stream EXCEPT ![s] = m]

(* What Ack, Nak and the two timers do to the stream.                      *)
LEMMA AckReplaces ==
  ASSUME BusTypeOK, NEW w \in Workers, holding[w] # 0, Ack(w) \/ Nak(w)
  PROVE  \E m \in Message :
           /\ Replaces(holding[w], m)
           /\ m.deliveries = stream[holding[w]].deliveries
           /\ stream[holding[w]].state \in Gone => m.state = stream[holding[w]].state
<1>1. PICK s \in Seqs : s = holding[w] /\ stream[s] \in Message  BY StreamFacts
<1>2. CASE Ack(w)
  <2> DEFINE m == [stream[s] EXCEPT !.state = IF @ \in Gone THEN @ ELSE "acked"]
  <2>1. m \in Message /\ m.deliveries = stream[s].deliveries
        /\ (stream[s].state \in Gone => m.state = stream[s].state)
    BY <1>1 DEF Message, Gone
  <2>2. stream' = [stream EXCEPT ![s] = m]  BY <1>1, <1>2 DEF Ack
  <2> QED  BY <1>1, <2>1, <2>2 DEF Replaces
<1>3. CASE Nak(w)
  <2> DEFINE m == [stream[s] EXCEPT !.state = IF @ = "inflight" THEN "ready" ELSE @]
  <2>1. m \in Message /\ m.deliveries = stream[s].deliveries
        /\ (stream[s].state \in Gone => m.state = stream[s].state)
    BY <1>1 DEF Message, Gone
  <2>2. stream' = [stream EXCEPT ![s] = m]  BY <1>1, <1>3 DEF Nak
  <2> QED  BY <1>1, <2>1, <2>2 DEF Replaces
<1> QED  BY <1>2, <1>3

(* AckWait and MaxAge change one message of the stream only.               *)
LEMMA TimerReplaces ==
  ASSUME BusTypeOK, NEW s \in Seqs, AckWaitExpires(s) \/ AgeOut(s)
  PROVE  \E m \in Message :
           /\ Replaces(s, m)
           /\ m.deliveries = stream[s].deliveries
           /\ stream[s].state \notin Gone
<1>1. stream[s] \in Message  BY StreamFacts
<1>2. CASE AckWaitExpires(s)
  <2> DEFINE m == [stream[s] EXCEPT !.state = "ready"]
  <2>1. m \in Message /\ m.deliveries = stream[s].deliveries /\ stream[s].state \notin Gone
    BY <1>1, <1>2 DEF Message, Gone, AckWaitExpires
  <2>2. stream' = [stream EXCEPT ![s] = m]  BY <1>2 DEF AckWaitExpires
  <2> QED  BY <2>1, <2>2 DEF Replaces
<1>3. CASE AgeOut(s)
  <2> DEFINE m == [stream[s] EXCEPT !.state = "expired"]
  <2>1. m \in Message /\ m.deliveries = stream[s].deliveries /\ stream[s].state \notin Gone
    BY <1>1, <1>3 DEF Message, Gone, AgeOut
  <2>2. stream' = [stream EXCEPT ![s] = m]  BY <1>3 DEF AgeOut
  <2> QED  BY <2>1, <2>2 DEF Replaces
<1> QED  BY <1>2, <1>3

(* A delivery counts itself and keeps the message well formed.             *)
LEMMA CountDelivery ==
  ASSUME NEW m \in Message, m.deliveries + 1 \in 0..MaxDeliver
  PROVE  /\ [m EXCEPT !.state = "inflight", !.deliveries = @ + 1] \in Message
         /\ [m EXCEPT !.state = "inflight", !.deliveries = @ + 1].deliveries = m.deliveries + 1
BY DEF Message

(* Deliver changes one message, which it counts one delivery for.          *)
LEMMA DeliverReplaces ==
  ASSUME BusTypeOK, NEW w \in Workers, NEW s \in Seqs, Deliver(w, s)
  PROVE  \E m \in Message :
           /\ Replaces(s, m)
           /\ m.deliveries = stream[s].deliveries + 1
           /\ stream[s].state \notin Gone
<1>1. stream[s] \in Message  BY StreamFacts
<1> DEFINE m == [stream[s] EXCEPT !.state = "inflight", !.deliveries = @ + 1]
<1>2. stream[s].deliveries \in Nat /\ stream[s].deliveries + 1 \in 0..MaxDeliver
  BY <1>1, BusAssumption DEF Message, Deliver
<1>3. m \in Message /\ m.deliveries = stream[s].deliveries + 1
  BY <1>1, <1>2, CountDelivery
<1>4. stream[s].state \notin Gone  BY DEF Deliver, Gone
<1>5. stream' = [stream EXCEPT ![s] = m]  BY DEF Deliver
<1> QED  BY <1>3, <1>4, <1>5 DEF Replaces

-----------------------------------------------------------------------------
BusInv == BusTypeOK /\ HoldersWithinDeliveries

(* A worker that lets go of its message leaves the others their number of  *)
(* holders.                                                                *)
LEMMA LetGo ==
  ASSUME BusTypeOK, NEW w \in Workers, holding' = [holding EXCEPT ![w] = 0],
         NEW s \in Seqs
  PROVE  Cardinality(Holders(s)') \in Nat /\ Cardinality(Holders(s)') <= Cardinality(Holders(s))
<1>1. IsFiniteSet(Holders(s))  BY BusAssumption, FS_Subset DEF Holders
<1>2. Holders(s)' \subseteq Holders(s)  BY StreamFacts DEF Holders, BusTypeOK
<1> QED  BY <1>1, <1>2, FS_Subset, FS_CardinalityType

(* A worker that takes a message adds at most itself to its holders.       *)
LEMMA OneMore ==
  ASSUME NEW S, NEW x, IsFiniteSet(S)
  PROVE  Cardinality(S \cup {x}) \in Nat /\ Cardinality(S \cup {x}) <= Cardinality(S) + 1
<1>1. Cardinality(S) \in Nat  BY FS_CardinalityType
<1>2. CASE x \in S
  <2>1. S \cup {x} = S  BY <1>2
  <2> QED  BY <1>1, <2>1
<1>3. CASE x \notin S
  <2>1. Cardinality(S \cup {x}) = Cardinality(S) + 1  BY <1>3, FS_AddElement
  <2> QED  BY <1>1, <2>1
<1> QED  BY <1>2, <1>3

(* The holders of a message can be counted.                                *)
LEMMA HoldersNat ==
  ASSUME NEW s PROVE IsFiniteSet(Holders(s)) /\ Cardinality(Holders(s)) \in Nat
BY BusAssumption, FS_Subset, FS_CardinalityType DEF Holders

(* Every step of the bus preserves BusInv.                                 *)
LEMMA BusInvStep ==
  ASSUME BusInv, [BusNext]_busVars
  PROVE  BusInv'
<1> USE DEF BusInv
<1>1. ASSUME NEW k \in Keys, Publish(k) PROVE BusInv'
  <2>1. CASE k \in window /\ UNCHANGED busVars
    BY <2>1 DEF busVars, BusTypeOK, HoldersWithinDeliveries, Holders, Seqs
  <2>2. CASE Store(k)
    <3> DEFINE m == [key |-> k, state |-> "ready", deliveries |-> 0]
    <3>1. m \in Message  BY BusAssumption DEF Message
    <3>2. /\ stream' \in Seq(Message) /\ Len(stream') = Len(stream) + 1
          /\ \A s \in Seqs : stream'[s] = stream[s]
          /\ stream'[Len(stream) + 1] = m
      BY <2>2, <3>1, StreamFacts DEF Store, BusTypeOK
    <3>3. Seqs' = Seqs \cup {Len(stream) + 1}
      BY <3>2, StreamFacts, LenProperties DEF Seqs
    <3>4. BusTypeOK'
      BY <2>2, <3>2, <3>3, StreamFacts, BusAssumption DEF Store, BusTypeOK
    <3>5. \A s \in Seqs : Holders(s)' = Holders(s)  BY <2>2 DEF Store, Holders
    <3>6. ASSUME NEW s \in Seqs' PROVE Cardinality(Holders(s)') <= stream'[s].deliveries
      <4>1. CASE s \in Seqs
        <5>1. Cardinality(Holders(s)) <= stream[s].deliveries  BY <4>1 DEF HoldersWithinDeliveries
        <5> QED  BY <3>2, <3>5, <4>1, <5>1
      <4>2. CASE s = Len(stream) + 1
        <5>1. Holders(s)' = {}  BY <2>2, <4>2, StreamFacts DEF Store, Holders, BusTypeOK
        <5>2. stream'[s].deliveries = 0  BY <3>2, <4>2
        <5> QED  BY <5>1, <5>2, FS_EmptySet
      <4> QED  BY <3>3, <4>1, <4>2
    <3> QED  BY <3>4, <3>6 DEF HoldersWithinDeliveries
  <2> QED  BY <1>1, <2>1, <2>2 DEF Publish
<1>2. ASSUME NEW k \in Keys, WindowExpires(k) PROVE BusInv'
  BY <1>2 DEF WindowExpires, BusTypeOK, HoldersWithinDeliveries, Holders, Seqs
<1>3. ASSUME NEW w \in Workers, Ack(w) \/ Nak(w) PROVE BusInv'
  <2>1. holding[w] # 0 /\ holding' = [holding EXCEPT ![w] = 0] /\ window' = window
    BY <1>3 DEF Ack, Nak
  <2>2. PICK m \in Message :
          Replaces(holding[w], m) /\ m.deliveries = stream[holding[w]].deliveries
    BY <1>3, <2>1, AckReplaces
  <2>3. /\ stream' \in Seq(Message) /\ Len(stream') = Len(stream) /\ Seqs' = Seqs
        /\ \A s \in Seqs : stream'[s] = IF s = holding[w] THEN m ELSE stream[s]
    BY <2>2, MessageUpdate DEF Replaces
  <2>4. BusTypeOK'  BY <2>1, <2>3, BusAssumption DEF BusTypeOK
  <2>5. \A s \in Seqs : stream[s].deliveries \in Nat  BY StreamFacts DEF Message
  <2>6. \A s \in Seqs : stream'[s].deliveries = stream[s].deliveries  BY <2>2, <2>3
  <2>7. HoldersWithinDeliveries'
    <3> SUFFICES ASSUME NEW s \in Seqs
                 PROVE  Cardinality(Holders(s)') <= stream'[s].deliveries
      BY <2>3 DEF HoldersWithinDeliveries
    <3>1. Cardinality(Holders(s)') \in Nat /\ Cardinality(Holders(s)') <= Cardinality(Holders(s))
      BY <2>1, LetGo
    <3>2. Cardinality(Holders(s)) <= stream[s].deliveries  BY DEF HoldersWithinDeliveries
    <3> QED  BY <2>5, <2>6, <3>1, <3>2, HoldersNat
  <2> QED  BY <2>4, <2>7
<1>4. ASSUME NEW w \in Workers, Abandon(w) PROVE BusInv'
  <2>1. BusTypeOK'  BY <1>4, BusAssumption DEF Abandon, BusTypeOK, Seqs
  <2>2. \A s \in Seqs : stream[s].deliveries \in Nat  BY StreamFacts DEF Message
  <2>3. HoldersWithinDeliveries'
    <3> SUFFICES ASSUME NEW s \in Seqs
                 PROVE  Cardinality(Holders(s)') <= stream[s].deliveries
      BY <1>4 DEF Abandon, HoldersWithinDeliveries, Seqs
    <3>1. Cardinality(Holders(s)') \in Nat /\ Cardinality(Holders(s)') <= Cardinality(Holders(s))
      BY <1>4, LetGo DEF Abandon
    <3>2. Cardinality(Holders(s)) <= stream[s].deliveries  BY DEF HoldersWithinDeliveries
    <3> QED  BY <2>2, <3>1, <3>2, HoldersNat
  <2> QED  BY <2>1, <2>3
<1>5. ASSUME NEW w \in Workers, NEW s \in Seqs, Deliver(w, s) PROVE BusInv'
  <2>1. PICK m \in Message : Replaces(s, m) /\ m.deliveries = stream[s].deliveries + 1
    BY <1>5, DeliverReplaces
  <2>2. /\ stream' \in Seq(Message) /\ Len(stream') = Len(stream) /\ Seqs' = Seqs
        /\ \A t \in Seqs : stream'[t] = IF t = s THEN m ELSE stream[t]
    BY <2>1, MessageUpdate DEF Replaces
  <2>3. holding[w] = 0 /\ holding' = [holding EXCEPT ![w] = s] /\ window' = window
    BY <1>5 DEF Deliver
  <2>4. BusTypeOK'  BY <2>2, <2>3, StreamFacts, BusAssumption DEF BusTypeOK
  <2>5. ASSUME NEW t \in Seqs PROVE Cardinality(Holders(t)') <= stream'[t].deliveries
    <3>0. stream[t].deliveries \in Nat  BY StreamFacts DEF Message
    <3>1. Cardinality(Holders(t)) <= stream[t].deliveries
      BY DEF HoldersWithinDeliveries
    <3>2. CASE t = s
      <4>1. Holders(t)' = Holders(t) \cup {w}  BY <2>3, <3>2 DEF Holders, BusTypeOK
      <4>2. IsFiniteSet(Holders(t)) /\ Cardinality(Holders(t)) \in Nat  BY HoldersNat
      <4>3. Cardinality(Holders(t) \cup {w}) \in Nat
            /\ Cardinality(Holders(t) \cup {w}) <= Cardinality(Holders(t)) + 1
        BY <4>2, OneMore
      <4> QED  BY <2>1, <2>2, <3>0, <3>1, <3>2, <4>1, <4>2, <4>3
    <3>3. CASE t # s
      <4>1. Holders(t)' = Holders(t)
        BY <2>3, <3>3, StreamFacts DEF Holders, BusTypeOK
      <4> QED  BY <2>2, <3>1, <3>3, <4>1
    <3> QED  BY <3>2, <3>3
  <2> QED  BY <2>2, <2>4, <2>5 DEF HoldersWithinDeliveries
<1>6. ASSUME NEW s \in Seqs, AckWaitExpires(s) \/ AgeOut(s) PROVE BusInv'
  <2>1. PICK m \in Message : Replaces(s, m) /\ m.deliveries = stream[s].deliveries
    BY <1>6, TimerReplaces
  <2>2. /\ stream' \in Seq(Message) /\ Len(stream') = Len(stream) /\ Seqs' = Seqs
        /\ \A t \in Seqs : stream'[t] = IF t = s THEN m ELSE stream[t]
    BY <2>1, MessageUpdate DEF Replaces
  <2>3. UNCHANGED <<window, holding>>  BY <1>6 DEF AckWaitExpires, AgeOut
  <2>4. BusTypeOK'  BY <2>2, <2>3 DEF BusTypeOK
  <2>5. \A t \in Seqs : stream'[t].deliveries = stream[t].deliveries  BY <2>1, <2>2
  <2> QED  BY <2>2, <2>3, <2>4, <2>5 DEF HoldersWithinDeliveries, Holders
<1>7. CASE UNCHANGED busVars
  BY <1>7 DEF busVars, BusTypeOK, HoldersWithinDeliveries, Holders, Seqs
<1> QED  BY <1>1, <1>2, <1>3, <1>4, <1>5, <1>6, <1>7 DEF BusNext

(* The empty bus satisfies BusInv.                                         *)
LEMMA BusInvInit == BusInit => BusInv
<1> SUFFICES ASSUME BusInit PROVE BusInv  OBVIOUS
<1>1. stream \in Seq(Message) /\ Len(stream) = 0 /\ Seqs = {}
  BY EmptySeq DEF BusInit, Seqs
<1>2. BusTypeOK  BY <1>1, BusAssumption DEF BusInit, BusTypeOK
<1> QED  BY <1>1, <1>2 DEF BusInv, HoldersWithinDeliveries

(* BusTypeCorrect: the bus keeps its types; in particular no message is    *)
(* delivered more than MaxDeliver times.                                   *)
THEOREM BusTypeCorrect == BusSafety => []BusTypeOK
<1>1. BusInv => BusTypeOK  BY DEF BusInv
<1> QED  BY <1>1, BusInvInit, BusInvStep, PTL DEF BusSafety

(* HoldersCounted: the callbacks that run for a message never outnumber    *)
(* its deliveries.                                                         *)
THEOREM HoldersCounted == BusSafety => []HoldersWithinDeliveries
<1>1. BusInv => HoldersWithinDeliveries  BY DEF BusInv
<1> QED  BY <1>1, BusInvInit, BusInvStep, PTL DEF BusSafety

(* A step leaves the messages that are gone as they were.                  *)
GoneKept == \A s \in Seqs : stream[s].state \in Gone => stream'[s].state = stream[s].state

LEMMA GoneStays ==
  ASSUME BusInv, [BusNext]_busVars
  PROVE  [GoneKept]_busVars
<1> SUFFICES GoneKept \/ UNCHANGED busVars  OBVIOUS
<1> USE DEF BusInv, GoneKept
<1>1. ASSUME NEW k \in Keys, Publish(k) PROVE GoneKept \/ UNCHANGED busVars
  <2>1. CASE Store(k)
    BY <2>1, StreamFacts DEF Store, BusTypeOK
  <2> QED  BY <1>1, <2>1 DEF Publish
<1>2. ASSUME NEW w \in Workers, Ack(w) \/ Nak(w) PROVE GoneKept
  <2>1. holding[w] # 0  BY <1>2 DEF Ack, Nak
  <2>2. PICK m \in Message :
          /\ Replaces(holding[w], m)
          /\ stream[holding[w]].state \in Gone => m.state = stream[holding[w]].state
    BY <1>2, <2>1, AckReplaces
  <2> QED  BY <2>2, MessageUpdate DEF Replaces
<1>3. ASSUME NEW w \in Workers, NEW s \in Seqs, Deliver(w, s) PROVE GoneKept
  <2>1. PICK m \in Message : Replaces(s, m) /\ stream[s].state \notin Gone
    BY <1>3, DeliverReplaces
  <2> QED  BY <2>1, MessageUpdate DEF Replaces
<1>4. ASSUME NEW s \in Seqs, AckWaitExpires(s) \/ AgeOut(s) PROVE GoneKept
  <2>1. PICK m \in Message : Replaces(s, m) /\ stream[s].state \notin Gone
    BY <1>4, TimerReplaces
  <2> QED  BY <2>1, MessageUpdate DEF Replaces
<1>5. ASSUME NEW k \in Keys, NEW w \in Workers, WindowExpires(k) \/ Abandon(w) PROVE GoneKept
  BY <1>5 DEF WindowExpires, Abandon
<1> QED  BY <1>1, <1>2, <1>3, <1>4, <1>5 DEF BusNext, WindowExpires, Abandon

(* GoneForGood: no late Nak, timer or second worker brings a message back. *)
THEOREM GoneForGood == BusSafety => NeverRevived
<1>1. BusInv /\ [BusNext]_busVars => [GoneKept]_busVars  BY GoneStays
<1>2. BusInv /\ [BusNext]_busVars => BusInv'  BY BusInvStep
<1> QED  BY <1>1, <1>2, BusInvInit, PTL DEF BusSafety, NeverRevived, GoneKept
=============================================================================
