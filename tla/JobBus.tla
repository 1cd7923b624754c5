------------------------------- MODULE JobBus -------------------------------
(***************************************************************************)
(* One queue of the JetStream message bus (internal/adapters/busnats) as   *)
(* the workers see it: a work-queue stream with a duplicate window on the  *)
(* idempotency key, one durable consumer with explicit acks, redelivery    *)
(* on Nak and on AckWait expiry, a delivery limit, and a maximum age.      *)
(*                                                                         *)
(* The stream itself lives in the NATS server; the code chooses its        *)
(* settings (ensureStream, CreateOrUpdateConsumer) and its use of them     *)
(* (the message id, the callback, Ack and Nak).  Time is abstracted: the   *)
(* end of a window, of an AckWait and of MaxAge are steps of the           *)
(* environment.                                                            *)
(***************************************************************************)
EXTENDS Naturals, FiniteSets, Sequences

CONSTANTS
  Keys,        \* idempotency keys a publisher may use
  Workers,     \* worker processes, each running one handler call at a time
  MaxDeliver,  \* ConsumerConfig.MaxDeliver
  MaxMessages  \* bound of the model: messages the stream ever stores

ASSUME BusAssumption ==
  /\ MaxDeliver \in Nat \ {0}
  /\ MaxMessages \in Nat \ {0}
  /\ IsFiniteSet(Workers)

VARIABLES
  stream,  \* every message ever stored: its key, whether it is still there, deliveries
  window,  \* keys the duplicate window still remembers
  holding  \* holding[w]: index of the message worker w's callback runs for, 0 if none

busVars == <<stream, window, holding>>

Seqs == DOMAIN stream

(* A message leaves the work queue when it is acked or reaches MaxAge.     *)
Gone == {"acked", "expired"}

Message == [key: Keys, state: {"ready", "inflight"} \cup Gone, deliveries: 0..MaxDeliver]

BusTypeOK ==
  /\ stream \in Seq(Message)
  /\ Len(stream) <= MaxMessages
  /\ window \subseteq Keys
  /\ holding \in [Workers -> 0..MaxMessages]
  /\ \A w \in Workers : holding[w] \in Seqs \cup {0}

BusInit ==
  /\ stream = <<>>
  /\ window = {}
  /\ holding = [w \in Workers |-> 0]

-----------------------------------------------------------------------------
Store(k) ==
  /\ Len(stream) < MaxMessages
  /\ stream' = Append(stream, [key |-> k, state |-> "ready", deliveries |-> 0])
  /\ window' = window \cup {k}
  /\ UNCHANGED holding

(* The stream accepts a message whose Nats-Msg-Id it does not remember;    *)
(* a duplicate is acknowledged to the publisher and dropped.               *)
Publish(k) ==
  \/ /\ k \in window
     /\ UNCHANGED busVars
  \/ /\ k \notin window
     /\ Store(k)

(* Five minutes after the publish the window forgets the key.              *)
WindowExpires(k) ==
  /\ k \in window
  /\ window' = window \ {k}
  /\ UNCHANGED <<stream, holding>>

(* Mutant: a redelivery does not count.                                    *)
DeliverUncounted(w, s) ==
  /\ holding[w] = 0
  /\ stream[s].state = "ready"
  /\ stream' = [stream EXCEPT ![s].state = "inflight", ![s].deliveries = 1]
  /\ holding' = [holding EXCEPT ![w] = s]
  /\ UNCHANGED window

(* The client library calls the callback of an idle worker with a message  *)
(* that waits for its first delivery or for a redelivery.                  *)
Deliver(w, s) ==
  /\ holding[w] = 0
  /\ stream[s].state = "ready"
  /\ stream[s].deliveries < MaxDeliver
  /\ stream' = [stream EXCEPT ![s].state = "inflight", ![s].deliveries = @ + 1]
  /\ holding' = [holding EXCEPT ![w] = s]
  /\ UNCHANGED window

(* Ack removes the message, also when AckWait has passed meanwhile and     *)
(* another worker holds a later delivery of it.                            *)
Ack(w) ==
  /\ holding[w] # 0
  /\ stream' = [stream EXCEPT ![holding[w]].state = IF @ \in Gone THEN @ ELSE "acked"]
  /\ holding' = [holding EXCEPT ![w] = 0]
  /\ UNCHANGED window

(* Mutant: a late Nak is honoured. *)
NakRevives(w) ==
  /\ holding[w] # 0
  /\ stream' = [stream EXCEPT ![holding[w]].state = "ready"]
  /\ holding' = [holding EXCEPT ![w] = 0]
  /\ UNCHANGED window

(* Nak asks for an immediate redelivery.                                   *)
Nak(w) ==
  /\ holding[w] # 0
  /\ stream' = [stream EXCEPT ![holding[w]].state = IF @ = "inflight" THEN "ready" ELSE @]
  /\ holding' = [holding EXCEPT ![w] = 0]
  /\ UNCHANGED window

(* The handler returns without either, or its process dies: the message    *)
(* stays in flight until AckWait.                                          *)
Abandon(w) ==
  /\ holding[w] # 0
  /\ holding' = [holding EXCEPT ![w] = 0]
  /\ UNCHANGED <<stream, window>>

(* Five minutes after a delivery without an ack the server offers the      *)
(* message again.  The handler's own deadline is ten minutes, so the       *)
(* worker of the earlier delivery may still be running.                    *)
AckWaitExpires(s) ==
  /\ stream[s].state = "inflight"
  /\ stream' = [stream EXCEPT ![s].state = "ready"]
  /\ UNCHANGED <<window, holding>>

(* MaxAge drops the message whatever its state.                            *)
AgeOut(s) ==
  /\ stream[s].state \notin Gone
  /\ stream' = [stream EXCEPT ![s].state = "expired"]
  /\ UNCHANGED <<window, holding>>

BusNext ==
  \/ \E k \in Keys : Publish(k) \/ WindowExpires(k)
  \/ \E w \in Workers : Ack(w) \/ Nak(w) \/ Abandon(w)
  \/ \E w \in Workers, s \in Seqs : Deliver(w, s)
  \/ \E s \in Seqs : AckWaitExpires(s) \/ AgeOut(s)

(* The client library keeps delivering, the server's timers fire, and a    *)
(* handler call ends (its context expires after ten minutes at the latest).*)
BusFairness ==
  /\ \A s \in 1..MaxMessages : WF_busVars(s \in Seqs /\ AckWaitExpires(s))
  /\ \A s \in 1..MaxMessages : WF_busVars(s \in Seqs /\ \E w \in Workers : Deliver(w, s))
  /\ \A w \in Workers : WF_busVars(Ack(w) \/ Nak(w) \/ Abandon(w))

BusSafety == BusInit /\ [][BusNext]_busVars
BusSpec == BusSafety /\ BusFairness

-----------------------------------------------------------------------------
(* The deliveries of a message are used up: it stays in the stream but the *)
(* consumer is never offered it again.                                     *)
Exhausted(s) == stream[s].state = "ready" /\ stream[s].deliveries = MaxDeliver

(* No process handles message s and the server will offer it to none.      *)
Settled(s) == stream[s].state \in Gone \/ Exhausted(s)

Holders(s) == {w \in Workers : holding[w] = s}

(* The callbacks running for a message never outnumber the deliveries the  *)
(* consumer has counted for it (NumDelivered, which Consume turns into the *)
(* attempt number): a message on its first attempt runs in one worker only,*)
(* and MaxDeliver bounds how many workers can ever handle it at once.      *)
HoldersWithinDeliveries ==
  \A s \in Seqs : Cardinality(Holders(s)) <= stream[s].deliveries

(* A settled message stays settled: no late Nak, no timer and no second    *)
(* worker brings an acked or expired message back to the consumers.        *)
NeverRevived ==
  [][\A s \in Seqs : stream[s].state \in Gone => stream'[s].state = stream[s].state]_busVars

(* Every stored message is settled in the end: acked, aged out, or out of  *)
(* deliveries; none is offered forever and none stays in flight forever.   *)
EveryMessageSettles ==
  \A s \in 1..MaxMessages : [](s \in Seqs => <>(s \in Seqs /\ Settled(s)))

=============================================================================
