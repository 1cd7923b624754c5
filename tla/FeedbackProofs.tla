--------------------------- MODULE FeedbackProofs ---------------------------
(***************************************************************************)
(* What the feedback loop guarantees for any number of workers, comments   *)
(* and signals, any limits and any faults.                                 *)
(***************************************************************************)
EXTENDS FeedbackLoop, FiniteSetTheorems, SequenceTheorems, TLAPS

Indices == 1..Len(stream)

(* The stream as a function on its indices.                                *)
LEMMA StreamIndices ==
  ASSUME Bus!BusTypeOK
  PROVE  /\ Len(stream) \in Nat /\ DOMAIN stream = Indices
         /\ Indices \subseteq 1..MaxMessages
         /\ \A s \in Indices : /\ stream[s] \in Bus!Message
                               /\ stream[s].key \in Signals
                               /\ stream[s].deliveries \in Nat
         /\ \A w \in Workers : holding[w] # 0 => holding[w] \in Indices
<1>1. Len(stream) \in Nat /\ DOMAIN stream = Indices /\ \A s \in Indices : stream[s] \in Bus!Message
  BY LenProperties, ElementOfSeq DEF Bus!BusTypeOK, Indices
<1>2. Indices \subseteq 1..MaxMessages
  BY <1>1, FeedbackAssumption DEF Bus!BusTypeOK, Indices
<1> QED  BY <1>1, <1>2, FeedbackAssumption DEF Bus!BusTypeOK, Bus!Seqs, Bus!Message

(* The same of the stream after a step.                                    *)
LEMMA PrimedIndices ==
  ASSUME Bus!BusTypeOK'
  PROVE  \A s \in Indices' : s \in 1..MaxMessages /\ stream'[s].deliveries \in Nat
<1>1. DOMAIN stream' = Indices' /\ \A s \in Indices' : stream'[s] \in Bus!Message
  BY LenProperties, ElementOfSeq DEF Bus!BusTypeOK, Indices
<1>2. Indices' \subseteq 1..MaxMessages
  BY <1>1, LenProperties, FeedbackAssumption DEF Bus!BusTypeOK, Indices
<1> QED  BY <1>1, <1>2, FeedbackAssumption DEF Bus!Message

(* No step of the bus forgets a message, changes its key or takes a        *)
(* delivery back.                                                          *)
Keeps ==
  /\ Bus!BusTypeOK'
  /\ Indices \subseteq Indices'
  /\ \A s \in Indices : /\ stream'[s].key = stream[s].key
                        /\ stream'[s].deliveries >= stream[s].deliveries

(* Replacing a message by one with its key and no fewer deliveries.        *)
LEMMA Replaced ==
  ASSUME Bus!BusTypeOK, NEW s \in Indices, NEW m \in Bus!Message,
         stream' = [stream EXCEPT ![s] = m], m.key = stream[s].key,
         m.deliveries >= stream[s].deliveries,
         window' = window,
         holding' = holding \/ \E w \in Workers, i \in {0, s} : holding' = [holding EXCEPT ![w] = i]
  PROVE  /\ Keeps /\ stream'[s] = m
         /\ Indices' = Indices /\ \A t \in Indices \ {s} : stream'[t] = stream[t]
<1>1. s \in 1..Len(stream)  BY DEF Indices
<1>2. /\ stream' \in Seq(Bus!Message) /\ Len(stream') = Len(stream)
      /\ \A t \in 1..Len(stream) : stream'[t] = IF t = s THEN m ELSE stream[t]
  BY <1>1, ExceptSeq DEF Bus!BusTypeOK
<1>3. DOMAIN stream' = Indices /\ Indices' = Indices
  BY <1>2, LenProperties DEF Indices
<1>4. s \in 1..MaxMessages  BY StreamIndices
<1>5. Bus!BusTypeOK'
  BY <1>2, <1>3, <1>4, StreamIndices, FeedbackAssumption DEF Bus!BusTypeOK, Bus!Seqs
<1>6. \A t \in Indices : stream[t].deliveries \in Nat  BY StreamIndices
<1> QED  BY <1>2, <1>3, <1>5, <1>6 DEF Keeps, Indices

(* The messages that acks, Naks, timers and deliveries leave.              *)
LEMMA ReplacedFields ==
  ASSUME NEW m \in Bus!Message
  PROVE  /\ [m EXCEPT !.state = IF @ \in Bus!Gone THEN @ ELSE "acked"] \in Bus!Message
         /\ [m EXCEPT !.state = IF @ \in Bus!Gone THEN @ ELSE "acked"].key = m.key
         /\ [m EXCEPT !.state = IF @ \in Bus!Gone THEN @ ELSE "acked"].deliveries >= m.deliveries
         /\ [m EXCEPT !.state = IF @ = "inflight" THEN "ready" ELSE @] \in Bus!Message
         /\ [m EXCEPT !.state = IF @ = "inflight" THEN "ready" ELSE @].key = m.key
         /\ [m EXCEPT !.state = IF @ = "inflight" THEN "ready" ELSE @].deliveries >= m.deliveries
         /\ [m EXCEPT !.state = "ready"] \in Bus!Message
         /\ [m EXCEPT !.state = "ready"].key = m.key
         /\ [m EXCEPT !.state = "ready"].deliveries >= m.deliveries
         /\ [m EXCEPT !.state = "expired"] \in Bus!Message
         /\ [m EXCEPT !.state = "expired"].key = m.key
         /\ [m EXCEPT !.state = "expired"].deliveries >= m.deliveries
BY FeedbackAssumption DEF Bus!Message, Bus!Gone

(* The message a delivery leaves.                                          *)
LEMMA DeliveredFields ==
  ASSUME NEW m \in Bus!Message, m.deliveries < MaxDeliver
  PROVE  /\ [m EXCEPT !.state = "inflight", !.deliveries = @ + 1] \in Bus!Message
         /\ [m EXCEPT !.state = "inflight", !.deliveries = @ + 1].key = m.key
         /\ [m EXCEPT !.state = "inflight", !.deliveries = @ + 1].deliveries = m.deliveries + 1
<1>1. m.deliveries + 1 \in 0..MaxDeliver
  BY FeedbackAssumption DEF Bus!Message
<1> QED  BY <1>1 DEF Bus!Message

(* Each step of the bus by itself.                                         *)
LEMMA PublishKeeps ==
  ASSUME Bus!BusTypeOK, NEW k \in Signals, Bus!Publish(k)
  PROVE  /\ Keeps /\ holding' = holding
         /\ \A s \in Indices : stream'[s] = stream[s]
         /\ \A s \in Indices' \ Indices : stream'[s].deliveries = 0
<1>1. CASE UNCHANGED busVars
  <2>1. \A s \in Indices : stream[s].deliveries \in Nat  BY StreamIndices
  <2> QED  BY <1>1, <2>1 DEF busVars, Keeps, Indices, Bus!BusTypeOK, Bus!Seqs
<1>2. CASE Bus!Store(k)
  <2> DEFINE m == [key |-> k, state |-> "ready", deliveries |-> 0]
  <2>1. m \in Bus!Message /\ m.deliveries = 0  BY FeedbackAssumption DEF Bus!Message
  <2>2. /\ stream' \in Seq(Bus!Message) /\ Len(stream') = Len(stream) + 1
        /\ \A s \in Indices : stream'[s] = stream[s]
        /\ stream'[Len(stream) + 1] = m
    BY <1>2, <2>1, StreamIndices DEF Bus!Store, Indices, Bus!BusTypeOK
  <2>3. DOMAIN stream' = Indices' /\ Indices' = Indices \cup {Len(stream) + 1}
    BY <2>2, StreamIndices, LenProperties DEF Indices
  <2>4. Bus!BusTypeOK'
    BY <1>2, <2>2, <2>3, StreamIndices, FeedbackAssumption DEF Bus!Store, Bus!BusTypeOK, Bus!Seqs
  <2>5. \A s \in Indices : stream[s].deliveries \in Nat  BY StreamIndices
  <2> QED  BY <1>2, <2>1, <2>2, <2>3, <2>4, <2>5 DEF Bus!Store, Keeps
<1> QED  BY <1>1, <1>2 DEF Bus!Publish, Bus!busVars, busVars

(* A delivery is counted once, for the message delivered.                  *)
LEMMA DeliverKeeps ==
  ASSUME Bus!BusTypeOK, NEW w \in Workers, NEW s \in DOMAIN stream, Bus!Deliver(w, s)
  PROVE  /\ Keeps /\ Indices' = Indices
         /\ stream'[s].deliveries = stream[s].deliveries + 1
         /\ \A t \in Indices \ {s} : stream'[t] = stream[t]
<1> DEFINE m == [stream[s] EXCEPT !.state = "inflight", !.deliveries = @ + 1]
<1>1. s \in Indices /\ stream[s] \in Bus!Message /\ stream[s].deliveries \in Nat
  BY StreamIndices
<1>2. stream' = [stream EXCEPT ![s] = m] /\ window' = window /\ holding' = [holding EXCEPT ![w] = s]
  BY DEF Bus!Deliver
<1>3. m \in Bus!Message /\ m.key = stream[s].key /\ m.deliveries = stream[s].deliveries + 1
  BY <1>1, DeliveredFields DEF Bus!Deliver
<1>4. m.deliveries >= stream[s].deliveries  BY <1>1, <1>3
<1> HIDE DEF m
<1> QED  BY <1>1, <1>2, <1>3, <1>4, Replaced

(* The three ways a callback ends count no delivery.                       *)
LEMMA LetGoKeeps ==
  ASSUME Bus!BusTypeOK, NEW w \in Workers, Bus!Ack(w) \/ Bus!Nak(w) \/ Bus!Abandon(w)
  PROVE  Keeps /\ Indices' = Indices /\ holding' = [holding EXCEPT ![w] = 0]
<1>1. PICK s \in Indices : s = holding[w]
  BY StreamIndices DEF Bus!Ack, Bus!Nak, Bus!Abandon
<1>2. stream[s] \in Bus!Message  BY StreamIndices
<1>3. CASE Bus!Ack(w)
  <2> DEFINE m == [stream[s] EXCEPT !.state = IF @ \in Bus!Gone THEN @ ELSE "acked"]
  <2>1. stream' = [stream EXCEPT ![s] = m] /\ window' = window /\ holding' = [holding EXCEPT ![w] = 0]
    BY <1>1, <1>3 DEF Bus!Ack
  <2>2. m \in Bus!Message /\ m.key = stream[s].key /\ m.deliveries >= stream[s].deliveries
    BY <1>2, ReplacedFields
  <2> HIDE DEF m
  <2> QED  BY <1>1, <2>1, <2>2, Replaced
<1>4. CASE Bus!Nak(w)
  <2> DEFINE m == [stream[s] EXCEPT !.state = IF @ = "inflight" THEN "ready" ELSE @]
  <2>1. stream' = [stream EXCEPT ![s] = m] /\ window' = window /\ holding' = [holding EXCEPT ![w] = 0]
    BY <1>1, <1>4 DEF Bus!Nak
  <2>2. m \in Bus!Message /\ m.key = stream[s].key /\ m.deliveries >= stream[s].deliveries
    BY <1>2, ReplacedFields
  <2> HIDE DEF m
  <2> QED  BY <1>1, <2>1, <2>2, Replaced
<1>5. CASE Bus!Abandon(w)
  <2>1. Bus!BusTypeOK'  BY <1>5, FeedbackAssumption DEF Bus!Abandon, Bus!BusTypeOK, Bus!Seqs
  <2>2. \A t \in Indices : stream[t].deliveries \in Nat  BY StreamIndices
  <2> QED  BY <1>5, <2>1, <2>2 DEF Bus!Abandon, Keeps, Indices
<1> QED  BY <1>3, <1>4, <1>5

(* Nor do the timers of the server.                                        *)
LEMMA TimerKeeps ==
  ASSUME Bus!BusTypeOK,
         \/ \E k \in Signals : Bus!WindowExpires(k)
         \/ \E s \in DOMAIN stream : Bus!AckWaitExpires(s) \/ Bus!AgeOut(s)
  PROVE  Keeps /\ Indices' = Indices /\ holding' = holding
<1>0. \A t \in Indices : stream[t].deliveries \in Nat  BY StreamIndices
<1>1. ASSUME NEW k \in Signals, Bus!WindowExpires(k) PROVE Keeps /\ Indices' = Indices /\ holding' = holding
  BY <1>0, <1>1 DEF Bus!WindowExpires, Keeps, Indices, Bus!BusTypeOK, Bus!Seqs
<1>2. ASSUME NEW s \in DOMAIN stream, Bus!AckWaitExpires(s)
      PROVE  Keeps /\ Indices' = Indices /\ holding' = holding
  <2> DEFINE m == [stream[s] EXCEPT !.state = "ready"]
  <2>1. s \in Indices /\ stream[s] \in Bus!Message  BY StreamIndices
  <2>2. stream' = [stream EXCEPT ![s] = m] /\ window' = window /\ holding' = holding
    BY <1>2 DEF Bus!AckWaitExpires
  <2>3. m \in Bus!Message /\ m.key = stream[s].key /\ m.deliveries >= stream[s].deliveries
    BY <2>1, ReplacedFields
  <2> HIDE DEF m
  <2> QED  BY <2>1, <2>2, <2>3, Replaced
<1>3. ASSUME NEW s \in DOMAIN stream, Bus!AgeOut(s)
      PROVE  Keeps /\ Indices' = Indices /\ holding' = holding
  <2> DEFINE m == [stream[s] EXCEPT !.state = "expired"]
  <2>1. s \in Indices /\ stream[s] \in Bus!Message  BY StreamIndices
  <2>2. stream' = [stream EXCEPT ![s] = m] /\ window' = window /\ holding' = holding
    BY <1>3 DEF Bus!AgeOut
  <2>3. m \in Bus!Message /\ m.key = stream[s].key /\ m.deliveries >= stream[s].deliveries
    BY <2>1, ReplacedFields
  <2> HIDE DEF m
  <2> QED  BY <2>1, <2>2, <2>3, Replaced
<1> QED  BY <1>1, <1>2, <1>3

(* A step that leaves the bus alone.                                       *)
LEMMA BusUnchanged ==
  ASSUME Bus!BusTypeOK, UNCHANGED busVars
  PROVE  Keeps /\ Indices' = Indices /\ \A s \in Indices : stream'[s] = stream[s]
<1>0. \A t \in Indices : stream[t].deliveries \in Nat  BY StreamIndices
<1> QED  BY <1>0 DEF busVars, Keeps, Indices, Bus!BusTypeOK, Bus!Seqs

-----------------------------------------------------------------------------
(* A worker at work holds the message of its signal, and none of its steps *)
(* touches the bus or another worker.                                      *)
LEMMA WorkFrame ==
  ASSUME FeedbackTypeOK, NEW w \in Workers, Work(w)
  PROVE  /\ UNCHANGED <<busVars, unsaved, rows, overspent, signal>>
         /\ pc[w] # "idle" /\ holding[w] \in Indices
         /\ signal[w] = stream[holding[w]].key /\ signal[w] \in Signals
         /\ CommentOf(signal[w]) \in Comments
         /\ \E p \in Places \ {"idle"} : pc' = [pc EXCEPT ![w] = p]
<1>1. pc[w] # "idle"
  BY DEF Work, Lookup, AppendEvent, UpdateOutcome, CountReplies, CheckCap, Chat, PostReply, StoreReply
<1>2. Bus!BusTypeOK /\ holding[w] # 0 /\ signal[w] = stream[holding[w]].key
  BY <1>1 DEF FeedbackTypeOK
<1>3. holding[w] \in Indices /\ signal[w] \in Signals  BY <1>2, StreamIndices
<1>4. CommentOf(signal[w]) \in Comments  BY <1>3 DEF Signals, CommentOf
<1>5. \E p \in Places \ {"idle"} : pc' = [pc EXCEPT ![w] = p]
  BY DEF Work, Lookup, AppendEvent, UpdateOutcome, CountReplies, CheckCap, Chat, PostReply,
    StoreReply, Goto, Places, Conversing
<1>6. UNCHANGED <<busVars, unsaved, rows, overspent, signal>>
  BY DEF Work, Lookup, AppendEvent, UpdateOutcome, CountReplies, CheckCap, Chat, PostReply,
    StoreReply, storeVars
<1> QED  BY <1>1, <1>2, <1>3, <1>4, <1>5, <1>6

(* What a signal counts for.                                               *)
LEMMA ClassifyType ==
  ASSUME NEW k \in Signals
  PROVE  Classify(KindOf(k)) \in Outcomes \ {"none"}
<1>1. KindOf(k) \in AllKinds  BY FeedbackAssumption DEF Signals, KindOf
<1> QED  BY <1>1 DEF Classify, AllKinds, Outcomes

(* The steps of a worker that ends its callback.                           *)
LEMMA EndFrame ==
  ASSUME FeedbackTypeOK, NEW w \in Workers, End(w) \/ WorkerStops(w)
  PROVE  /\ Keeps /\ Indices' = Indices /\ holding' = [holding EXCEPT ![w] = 0]
         /\ Idle(w) /\ UNCHANGED <<storeVars, answered>>
BY LetGoKeeps DEF End, WorkerStops, FeedbackTypeOK

(* The steps in which no worker moves.                                     *)
LEMMA OtherFrame ==
  ASSUME FeedbackTypeOK,
         \/ \E c \in Comments : StoreComment(c)
         \/ \E k \in Signals : Signal(k)
         \/ Tombstone \/ BudgetTurns \/ ServerStep \/ UNCHANGED feedbackVars
  PROVE  /\ Keeps /\ UNCHANGED <<holding, pc, signal, events>>
         /\ counted' = counted \/ counted' = 0
         /\ outcome' = outcome
            \/ (outcome' = [c \in Comments |-> "none"] /\ \A s \in DOMAIN events : events[s] = 0)
<1>0. Bus!BusTypeOK  BY DEF FeedbackTypeOK
<1>1. ASSUME NEW k \in Signals, Signal(k) PROVE Keeps /\ UNCHANGED <<holding, storeVars, localVars>>
  BY <1>0, <1>1, PublishKeeps DEF Signal
<1>2. CASE ServerStep
  BY <1>0, <1>2, TimerKeeps DEF ServerStep, storeVars, localVars
<1>3. CASE (\E c \in Comments : StoreComment(c)) \/ Tombstone \/ BudgetTurns \/ UNCHANGED feedbackVars
  <2>1. UNCHANGED busVars  BY <1>3 DEF StoreComment, Tombstone, BudgetTurns, feedbackVars
  <2>2. Keeps  BY <1>0, <2>1, BusUnchanged
  <2> QED
    BY <1>3, <2>1, <2>2 DEF StoreComment, Tombstone, BudgetTurns, feedbackVars, busVars, localVars, storeVars
<1> QED  BY <1>1, <1>2, <1>3 DEF storeVars, localVars

(* Every step keeps the types.                                             *)
LEMMA TypeStep ==
  ASSUME FeedbackTypeOK, [FeedbackNext]_feedbackVars
  PROVE  FeedbackTypeOK'
<1>0. Bus!BusTypeOK  BY DEF FeedbackTypeOK
<1>1. ASSUME NEW w \in Workers, Work(w) PROVE FeedbackTypeOK'
  <2>1. /\ UNCHANGED <<busVars, unsaved, rows, overspent, signal>>
        /\ pc[w] # "idle" /\ holding[w] \in Indices /\ signal[w] \in Signals
        /\ CommentOf(signal[w]) \in Comments
    BY <1>1, WorkFrame
  <2>2. PICK p \in Places \ {"idle"} : pc' = [pc EXCEPT ![w] = p]  BY <1>1, WorkFrame
  <2>3. holding[w] \in 1..MaxMessages  BY <1>0, <2>1, StreamIndices
  <2>4. Bus!BusTypeOK'  BY <1>0, <2>1, BusUnchanged DEF Keeps
  <2>5. Classify(KindOf(signal[w])) \in Outcomes  BY <2>1, ClassifyType
  <2>6. outcome' \in [Comments -> Outcomes]
    BY <1>1, <2>1, <2>5 DEF Work, Lookup, AppendEvent, UpdateOutcome, CountReplies, CheckCap, Chat,
      PostReply, StoreReply, OutcomeStored, storeVars, FeedbackTypeOK
  <2>7. events' \in [1..MaxMessages -> Nat]
    BY <1>1, <2>3 DEF Work, Lookup, AppendEvent, UpdateOutcome, CountReplies, CheckCap, Chat,
      PostReply, StoreReply, EventAppears, storeVars, FeedbackTypeOK
  <2>8. answered' \subseteq Comments
    BY <1>1, <2>1 DEF Work, Lookup, AppendEvent, UpdateOutcome, CountReplies, CheckCap, Chat,
      PostReply, StoreReply, AnswerAppears, FeedbackTypeOK
  <2>9. counted' \in Nat
    BY <1>1 DEF Work, Lookup, AppendEvent, UpdateOutcome, CountReplies, CheckCap, Chat,
      PostReply, StoreReply, storeVars, FeedbackTypeOK
  <2>10. /\ pc' \in [Workers -> Places]
         /\ \A v \in Workers : pc'[v] = "idle" <=> holding'[v] = 0
    BY <2>1, <2>2 DEF FeedbackTypeOK, busVars
  <2> QED
    BY <2>1, <2>4, <2>6, <2>7, <2>8, <2>9, <2>10 DEF FeedbackTypeOK, busVars
<1>2. ASSUME NEW w \in Workers, NEW s \in DOMAIN stream, HandleSignal(w, s) PROVE FeedbackTypeOK'
  <2>1. Keeps /\ s \in Indices  BY <1>0, <1>2, DeliverKeeps, StreamIndices DEF HandleSignal
  <2>2. /\ holding' = [holding EXCEPT ![w] = s]
        /\ pc' = [pc EXCEPT ![w] = "lookup"]
        /\ signal' = [signal EXCEPT ![w] = stream[s].key]
        /\ UNCHANGED <<storeVars, answered>>
    BY <1>2 DEF HandleSignal, Bus!Deliver, Goto
  <2>3. s # 0 /\ stream[s].key \in Signals /\ holding \in [Workers -> 0..MaxMessages]
    BY <1>0, <2>1, StreamIndices DEF Indices, Bus!BusTypeOK
  <2>4. \A v \in Workers : holding[v] # 0 => holding[v] \in Indices
    BY <1>0, StreamIndices
  <2>5. /\ pc' \in [Workers -> Places]
        /\ signal' \in [Workers -> Signals \cup {<<>>}]
    BY <2>2, <2>3 DEF FeedbackTypeOK, Places
  <2>6. \A v \in Workers : /\ pc'[v] = "idle" <=> holding'[v] = 0
                           /\ holding'[v] # 0 => signal'[v] = stream'[holding'[v]].key
    BY <2>1, <2>2, <2>3, <2>4 DEF FeedbackTypeOK, Keeps
  <2> QED
    BY <2>1, <2>2, <2>5, <2>6 DEF FeedbackTypeOK, Keeps, storeVars
<1>3. ASSUME NEW w \in Workers, End(w) \/ WorkerStops(w) PROVE FeedbackTypeOK'
  <2>1. /\ Keeps /\ holding' = [holding EXCEPT ![w] = 0]
        /\ pc' = [pc EXCEPT ![w] = "idle"] /\ signal' = [signal EXCEPT ![w] = <<>>]
        /\ UNCHANGED <<storeVars, answered>>
    BY <1>3, EndFrame DEF Idle
  <2>2. holding \in [Workers -> 0..MaxMessages]  BY <1>0 DEF Bus!BusTypeOK
  <2>3. \A v \in Workers : holding[v] # 0 => holding[v] \in Indices
    BY <1>0, StreamIndices
  <2>4. \A v \in Workers : /\ pc'[v] = "idle" <=> holding'[v] = 0
                           /\ holding'[v] # 0 => signal'[v] = stream'[holding'[v]].key
    BY <2>1, <2>2, <2>3 DEF FeedbackTypeOK, Keeps
  <2>5. /\ pc' \in [Workers -> Places]
        /\ signal' \in [Workers -> Signals \cup {<<>>}]
    BY <2>1 DEF FeedbackTypeOK, Places
  <2> QED
    BY <2>1, <2>4, <2>5 DEF FeedbackTypeOK, Keeps, storeVars
<1>4. CASE \/ \E c \in Comments : StoreComment(c)
           \/ \E k \in Signals : Signal(k)
           \/ Tombstone \/ BudgetTurns \/ ServerStep \/ UNCHANGED feedbackVars
  <2>1. /\ Keeps /\ UNCHANGED <<holding, pc, signal, events>>
        /\ counted' = counted \/ counted' = 0
        /\ outcome' = outcome \/ outcome' = [c \in Comments |-> "none"]
    BY <1>4, OtherFrame
  <2>2. rows' \subseteq Comments /\ unsaved' \subseteq Comments \ rows' /\ overspent' \in BOOLEAN
    BY <1>4 DEF StoreComment, Signal, Tombstone, BudgetTurns, ServerStep, feedbackVars, storeVars,
      FeedbackTypeOK
  <2>3. UNCHANGED answered
    BY <1>4 DEF StoreComment, Signal, Tombstone, BudgetTurns, ServerStep, feedbackVars
  <2>4. \A v \in Workers : holding[v] # 0 => holding[v] \in Indices
    BY <1>0, StreamIndices
  <2>5. \A v \in Workers : holding'[v] # 0 => signal'[v] = stream'[holding'[v]].key
    BY <2>1, <2>4 DEF FeedbackTypeOK, Keeps
  <2>6. outcome' \in [Comments -> Outcomes] /\ counted' \in Nat
    BY <2>1 DEF FeedbackTypeOK, Outcomes
  <2> QED
    BY <2>1, <2>2, <2>3, <2>5, <2>6 DEF FeedbackTypeOK, Keeps
<1> QED  BY <1>1, <1>2, <1>3, <1>4 DEF FeedbackNext

-----------------------------------------------------------------------------
(* Events.  A delivery pays for the event its worker may still append, so  *)
(* the workers before their append count as events to come.                *)
Fresh(s) == {w \in Workers : holding[w] = s /\ pc[w] \in {"lookup", "append"}}

EventsPaid ==
  /\ \A s \in Indices : events[s] + Cardinality(Fresh(s)) <= stream[s].deliveries
  /\ \A s \in (1..MaxMessages) \ Indices : events[s] = 0

(* A subset of the workers can be counted, and a part of it has no more.   *)
LEMMA Counting ==
  ASSUME NEW S, S \subseteq Workers
  PROVE  /\ IsFiniteSet(S) /\ Cardinality(S) \in Nat
         /\ Cardinality(S) <= Cardinality(Workers) /\ Cardinality(Workers) \in Nat
         /\ \A T : T \subseteq S => Cardinality(T) \in Nat /\ Cardinality(T) <= Cardinality(S)
         /\ \A w : Cardinality(S \cup {w}) \in Nat /\ Cardinality(S \cup {w}) <= Cardinality(S) + 1
         /\ \A w \in S : Cardinality(S \ {w}) \in Nat /\ Cardinality(S \ {w}) = Cardinality(S) - 1
<1>1. IsFiniteSet(Workers)  BY FeedbackAssumption
<1>2. /\ IsFiniteSet(S) /\ Cardinality(S) \in Nat
      /\ Cardinality(S) <= Cardinality(Workers) /\ Cardinality(Workers) \in Nat
  BY <1>1, FS_Subset, FS_CardinalityType
<1>3. \A T : T \subseteq S => Cardinality(T) \in Nat /\ Cardinality(T) <= Cardinality(S)
  BY <1>2, FS_Subset, FS_CardinalityType
<1>4. ASSUME NEW w PROVE Cardinality(S \cup {w}) \in Nat /\ Cardinality(S \cup {w}) <= Cardinality(S) + 1
  <2>1. CASE w \in S
    <3>1. S \cup {w} = S  BY <2>1
    <3> QED  BY <1>2, <3>1
  <2>2. CASE w \notin S
    <3>1. Cardinality(S \cup {w}) = Cardinality(S) + 1  BY <1>2, <2>2, FS_AddElement
    <3> QED  BY <1>2, <3>1
  <2> QED  BY <2>1, <2>2
<1>5. ASSUME NEW w \in S PROVE Cardinality(S \ {w}) \in Nat /\ Cardinality(S \ {w}) = Cardinality(S) - 1
  <2>1. Cardinality(S \ {w}) \in Nat  BY <1>3
  <2>2. Cardinality(S \ {w}) = Cardinality(S) - 1  BY <1>2, FS_RemoveElement
  <2> QED  BY <2>1, <2>2
<1> QED  BY <1>2, <1>3, <1>4, <1>5

(* A step that appends no event and makes no worker fresh.                 *)
LEMMA NothingAppended ==
  ASSUME FeedbackTypeOK, Keeps, EventsPaid, events' = events,
         \A s \in Indices' : Fresh(s)' \subseteq Fresh(s)
  PROVE  EventsPaid'
<1>0. Bus!BusTypeOK /\ Bus!BusTypeOK'  BY DEF FeedbackTypeOK, Keeps
<1>1. ASSUME NEW s \in Indices' PROVE events[s] + Cardinality(Fresh(s)') <= stream'[s].deliveries
  <2>1. Fresh(s)' \subseteq Fresh(s) /\ Fresh(s) \subseteq Workers  BY DEF Fresh
  <2>2. /\ Cardinality(Fresh(s)') \in Nat /\ Cardinality(Fresh(s)) \in Nat
        /\ Cardinality(Fresh(s)') <= Cardinality(Fresh(s))
    BY <2>1, Counting
  <2>3. stream'[s].deliveries \in Nat /\ s \in 1..MaxMessages
    BY <1>0, StreamIndices, PrimedIndices
  <2>4. events[s] \in Nat  BY <2>3 DEF FeedbackTypeOK
  <2>5. CASE s \in Indices
    <3>1. stream[s].deliveries \in Nat /\ stream'[s].deliveries >= stream[s].deliveries
      BY <1>0, <2>5, StreamIndices DEF Keeps
    <3>2. events[s] + Cardinality(Fresh(s)) <= stream[s].deliveries  BY <2>5 DEF EventsPaid
    <3> QED  BY <2>2, <2>3, <2>4, <3>1, <3>2
  <2>6. CASE s \notin Indices
    <3>1. Fresh(s) = {}
      <4>1. \A w \in Workers : holding[w] # s
        BY <1>0, <2>3, <2>6, StreamIndices
      <4> QED  BY <4>1 DEF Fresh
    <3>2. Cardinality(Fresh(s)) = 0  BY <3>1, FS_EmptySet
    <3>3. events[s] = 0  BY <2>3, <2>6 DEF EventsPaid
    <3> QED  BY <2>2, <2>3, <3>2, <3>3
  <2> QED  BY <2>5, <2>6
<1>2. ASSUME NEW s \in (1..MaxMessages) \ Indices' PROVE events[s] = 0
  BY <1>2 DEF EventsPaid, Keeps
<1> QED  BY <1>1, <1>2 DEF EventsPaid

(* Deliveries pay for events.                                              *)
LEMMA EventsStep ==
  ASSUME FeedbackTypeOK, EventsPaid, [FeedbackNext]_feedbackVars
  PROVE  EventsPaid'
<1>0. Bus!BusTypeOK  BY DEF FeedbackTypeOK
<1>1. ASSUME NEW w \in Workers, Work(w) PROVE EventsPaid'
  <2>1. holding' = holding /\ stream' = stream /\ holding[w] \in Indices
    BY <1>1, WorkFrame DEF busVars
  <2>2. PICK p \in Places \ {"idle"} : pc' = [pc EXCEPT ![w] = p]  BY <1>1, WorkFrame
  <2>3. Keeps /\ Indices' = Indices  BY <1>0, <1>1, WorkFrame, BusUnchanged
  <2>4. pc'[w] \in {"lookup", "append"} => pc[w] \in {"lookup", "append"}
    BY <1>1 DEF Work, Lookup, AppendEvent, UpdateOutcome, CountReplies, CheckCap, Chat, PostReply,
      StoreReply, Goto, FeedbackTypeOK
  <2>5. \A s : Fresh(s)' \subseteq Fresh(s)
    BY <2>1, <2>2, <2>4 DEF Fresh, FeedbackTypeOK
  <2>6. CASE events' = events  BY <2>3, <2>5, <2>6, NothingAppended
  <2>7. CASE AppendEvent(w) /\ EventAppears(w)
    <3>1. pc[w] = "append" /\ pc'[w] \notin {"lookup", "append"}
      BY <2>7 DEF AppendEvent, Goto, FeedbackTypeOK
    <3> PICK h \in Indices : h = holding[w]  BY <2>1
    <3>2. /\ h \in 1..MaxMessages /\ events[h] \in Nat /\ events'[h] = events[h] + 1
          /\ \A s \in (1..MaxMessages) \ {h} : events'[s] = events[s]
      BY <1>0, <2>1, <2>7, StreamIndices DEF EventAppears, FeedbackTypeOK
    <3>3. Fresh(h)' = Fresh(h) \ {w} /\ w \in Fresh(h)
      BY <2>1, <2>2, <3>1 DEF Fresh, FeedbackTypeOK
    <3>4. /\ Cardinality(Fresh(h)') \in Nat /\ Cardinality(Fresh(h)) \in Nat
          /\ Cardinality(Fresh(h)') = Cardinality(Fresh(h)) - 1
      <4>1. Fresh(h) \subseteq Workers  BY DEF Fresh
      <4> QED  BY <3>3, <4>1, Counting
    <3>5. ASSUME NEW s \in Indices PROVE events'[s] + Cardinality(Fresh(s)') <= stream[s].deliveries
      <4>1. events[s] + Cardinality(Fresh(s)) <= stream[s].deliveries  BY DEF EventsPaid
      <4>2. s \in 1..MaxMessages /\ stream[s].deliveries \in Nat  BY <1>0, StreamIndices
      <4>3. CASE s = h  BY <3>2, <3>4, <4>1, <4>2, <4>3
      <4>4. CASE s # h
        <5>1. Fresh(s)' = Fresh(s)  BY <2>1, <2>2, <4>4 DEF Fresh, FeedbackTypeOK
        <5> QED  BY <3>2, <4>1, <4>2, <4>4, <5>1
      <4> QED  BY <4>3, <4>4
    <3>6. \A s \in (1..MaxMessages) \ Indices : events'[s] = 0
      BY <2>1, <3>2 DEF EventsPaid
    <3> QED  BY <2>1, <2>3, <3>5, <3>6 DEF EventsPaid
  <2> QED
    BY <1>1, <2>6, <2>7 DEF Work, Lookup, AppendEvent, UpdateOutcome, CountReplies, CheckCap, Chat,
      PostReply, StoreReply, storeVars
<1>2. ASSUME NEW w \in Workers, NEW s \in DOMAIN stream, HandleSignal(w, s) PROVE EventsPaid'
  <2>1. /\ Keeps /\ Indices' = Indices /\ s \in Indices
        /\ stream'[s].deliveries = stream[s].deliveries + 1
        /\ \A t \in Indices \ {s} : stream'[t] = stream[t]
    BY <1>0, <1>2, DeliverKeeps, StreamIndices DEF HandleSignal
  <2>2. /\ holding' = [holding EXCEPT ![w] = s] /\ holding[w] = 0
        /\ pc' = [pc EXCEPT ![w] = "lookup"]
        /\ events' = events
    BY <1>2 DEF HandleSignal, Bus!Deliver, Goto, storeVars
  <2>3. ASSUME NEW t \in Indices PROVE events[t] + Cardinality(Fresh(t)') <= stream'[t].deliveries
    <3>1. events[t] + Cardinality(Fresh(t)) <= stream[t].deliveries  BY DEF EventsPaid
    <3>2. t \in 1..MaxMessages /\ stream[t].deliveries \in Nat /\ events[t] \in Nat
      BY <1>0, StreamIndices DEF FeedbackTypeOK
    <3>3. Fresh(t) \subseteq Workers  BY DEF Fresh
    <3>4. CASE t = s
      <4>1. Fresh(t)' = Fresh(t) \cup {w}
        BY <2>2, <3>4 DEF Fresh, FeedbackTypeOK, Bus!BusTypeOK
      <4>2. /\ Cardinality(Fresh(t)') \in Nat /\ Cardinality(Fresh(t)) \in Nat
            /\ Cardinality(Fresh(t)') <= Cardinality(Fresh(t)) + 1
        BY <3>3, <4>1, Counting
      <4> QED  BY <2>1, <3>1, <3>2, <3>4, <4>2
    <3>5. CASE t # s
      <4>0. t # 0  BY DEF Indices
      <4>1. Fresh(t)' = Fresh(t)
        BY <2>2, <3>5, <4>0 DEF Fresh, FeedbackTypeOK, Bus!BusTypeOK
      <4> QED  BY <2>1, <3>1, <3>5, <4>1
    <3> QED  BY <3>4, <3>5
  <2> QED  BY <2>1, <2>2, <2>3 DEF EventsPaid
<1>3. ASSUME NEW w \in Workers, End(w) \/ WorkerStops(w) PROVE EventsPaid'
  <2>1. /\ Keeps /\ holding' = [holding EXCEPT ![w] = 0] /\ events' = events
        /\ pc' = [pc EXCEPT ![w] = "idle"]
    BY <1>3, EndFrame DEF Idle, storeVars
  <2>2. \A s : Fresh(s)' \subseteq Fresh(s)
    BY <2>1 DEF Fresh, FeedbackTypeOK, Bus!BusTypeOK
  <2> QED  BY <2>1, <2>2, NothingAppended
<1>4. CASE \/ \E c \in Comments : StoreComment(c)
           \/ \E k \in Signals : Signal(k)
           \/ Tombstone \/ BudgetTurns \/ ServerStep \/ UNCHANGED feedbackVars
  <2>1. Keeps /\ UNCHANGED <<holding, pc, events>>  BY <1>4, OtherFrame
  <2>2. \A s : Fresh(s)' = Fresh(s)  BY <2>1 DEF Fresh
  <2> QED  BY <2>1, <2>2, NothingAppended
<1> QED  BY <1>1, <1>2, <1>3, <1>4 DEF FeedbackNext

-----------------------------------------------------------------------------
(* Outcomes.  A worker that goes on to the outcome has appended its event. *)
Evidence(c) ==
  \E s \in Indices : /\ events[s] > 0
                     /\ CommentOf(stream[s].key) = c
                     /\ Classify(KindOf(stream[s].key)) = outcome[c]

OutcomesEvidenced ==
  /\ \A c \in Comments : outcome[c] # "none" => Evidence(c)
  /\ \A w \in Workers : pc[w] = "update" => events[holding[w]] > 0

(* No step takes an event away, and one that appends goes on to the        *)
(* outcome or gives up.                                                    *)
LEMMA EventsGrow ==
  ASSUME FeedbackTypeOK, [FeedbackNext]_feedbackVars
  PROVE  /\ Keeps
         /\ \A s \in Indices : events[s] \in Nat /\ events'[s] \in Nat /\ events'[s] >= events[s]
<1>0. Bus!BusTypeOK  BY DEF FeedbackTypeOK
<1>1. ASSUME events' = events PROVE \A s \in Indices : events'[s] >= events[s]
  BY <1>0, <1>1, StreamIndices DEF FeedbackTypeOK
<1>2. ASSUME NEW w \in Workers, Work(w)
      PROVE  Keeps /\ \A s \in Indices : events'[s] >= events[s]
  <2>1. Keeps /\ holding[w] \in 1..MaxMessages
    BY <1>0, <1>2, WorkFrame, BusUnchanged, StreamIndices
  <2>2. CASE EventAppears(w)
    BY <1>0, <2>1, <2>2, StreamIndices DEF EventAppears, FeedbackTypeOK
  <2> QED
    BY <1>1, <1>2, <2>1, <2>2 DEF Work, Lookup, AppendEvent, UpdateOutcome, CountReplies, CheckCap,
      Chat, PostReply, StoreReply, storeVars
<1>3. ASSUME NEW w \in Workers, NEW s \in DOMAIN stream, HandleSignal(w, s)
      PROVE  Keeps /\ events' = events
  BY <1>0, <1>3, DeliverKeeps DEF HandleSignal, storeVars
<1>4. ASSUME NEW w \in Workers, End(w) \/ WorkerStops(w) PROVE Keeps /\ events' = events
  BY <1>4, EndFrame DEF storeVars
<1>5. ASSUME \/ \E c \in Comments : StoreComment(c)
             \/ \E k \in Signals : Signal(k)
             \/ Tombstone \/ BudgetTurns \/ ServerStep \/ UNCHANGED feedbackVars
      PROVE  Keeps /\ events' = events
  BY <1>5, OtherFrame
<1>6. Keeps /\ \A s \in Indices : events'[s] >= events[s]
  BY <1>1, <1>2, <1>3, <1>4, <1>5 DEF FeedbackNext
<1>7. FeedbackTypeOK'  BY TypeStep
<1> QED  BY <1>0, <1>6, <1>7, StreamIndices DEF FeedbackTypeOK

(* The evidence of an outcome that does not change stays.                  *)
LEMMA EvidenceStays ==
  ASSUME FeedbackTypeOK, [FeedbackNext]_feedbackVars, NEW c \in Comments,
         Evidence(c), outcome'[c] = outcome[c]
  PROVE  Evidence(c)'
<1>1. PICK s \in Indices : /\ events[s] > 0
                           /\ CommentOf(stream[s].key) = c
                           /\ Classify(KindOf(stream[s].key)) = outcome[c]
  BY DEF Evidence
<1>2. s \in Indices' /\ stream'[s].key = stream[s].key  BY EventsGrow DEF Keeps
<1>3. events'[s] > 0
  <2>1. events[s] \in Nat /\ events'[s] \in Nat /\ events'[s] >= events[s]  BY EventsGrow
  <2> QED  BY <1>1, <2>1
<1> QED  BY <1>1, <1>2, <1>3 DEF Evidence

(* A worker that is at the outcome before and after a step of another.     *)
LEMMA StillUpdating ==
  ASSUME FeedbackTypeOK, OutcomesEvidenced, [FeedbackNext]_feedbackVars, NEW w \in Workers,
         pc[w] = "update", holding'[w] = holding[w]
  PROVE  events'[holding'[w]] > 0
<1>1. holding[w] \in Indices  BY StreamIndices DEF FeedbackTypeOK
<1>2. /\ events[holding[w]] \in Nat /\ events'[holding[w]] \in Nat
      /\ events'[holding[w]] >= events[holding[w]]
  BY <1>1, EventsGrow
<1>3. events[holding[w]] > 0  BY DEF OutcomesEvidenced
<1> QED  BY <1>2, <1>3

(* Outcomes keep their evidence.                                           *)
LEMMA OutcomesStep ==
  ASSUME FeedbackTypeOK, OutcomesEvidenced, [FeedbackNext]_feedbackVars
  PROVE  OutcomesEvidenced'
<1>0. Bus!BusTypeOK  BY DEF FeedbackTypeOK
<1>1. ASSUME outcome' = outcome, NEW c \in Comments, outcome'[c] # "none" PROVE Evidence(c)'
  BY <1>1, EvidenceStays DEF OutcomesEvidenced
<1>2. ASSUME NEW w \in Workers, Work(w) PROVE OutcomesEvidenced'
  <2>1. /\ holding' = holding /\ stream' = stream /\ holding[w] \in Indices
        /\ signal[w] = stream[holding[w]].key /\ CommentOf(signal[w]) \in Comments
    BY <1>2, WorkFrame DEF busVars
  <2>2. PICK p \in Places \ {"idle"} : pc' = [pc EXCEPT ![w] = p]  BY <1>2, WorkFrame
  <2>3. ASSUME NEW c \in Comments, outcome'[c] # "none" PROVE Evidence(c)'
    <3>1. CASE outcome' = outcome  BY <1>1, <2>3, <3>1
    <3>2. CASE UpdateOutcome(w) /\ OutcomeStored(w) /\ c # CommentOf(signal[w])
      <4>1. outcome'[c] = outcome[c]
        BY <3>2 DEF OutcomeStored, FeedbackTypeOK
      <4> QED  BY <2>3, <4>1, EvidenceStays DEF OutcomesEvidenced
    <3>3. CASE UpdateOutcome(w) /\ OutcomeStored(w) /\ c = CommentOf(signal[w])
      <4>1. PICK h \in Indices : h = holding[w]  BY <2>1
      <4>2. /\ outcome'[c] = Classify(KindOf(stream[h].key))
            /\ CommentOf(stream[h].key) = c
        BY <2>1, <3>3, <4>1 DEF OutcomeStored, FeedbackTypeOK
      <4>3. events'[h] > 0
        <5>1. events[h] > 0  BY <3>3, <4>1 DEF UpdateOutcome, OutcomesEvidenced
        <5>2. events' = events  BY <3>3 DEF UpdateOutcome
        <5> QED  BY <5>1, <5>2
      <4>4. h \in Indices' /\ stream'[h] = stream[h]  BY <2>1 DEF Indices
      <4> QED  BY <4>2, <4>3, <4>4 DEF Evidence
    <3> QED
      BY <1>2, <3>1, <3>2, <3>3 DEF Work, Lookup, AppendEvent, UpdateOutcome, CountReplies, CheckCap,
        Chat, PostReply, StoreReply, storeVars
  <2>4. ASSUME NEW v \in Workers, pc'[v] = "update" PROVE events'[holding'[v]] > 0
    <3>1. CASE pc[v] = "update"  BY <2>1, <3>1, StillUpdating
    <3>2. CASE pc[v] # "update"
      <4>1. v = w /\ AppendEvent(w) /\ EventAppears(w)
        BY <1>2, <2>2, <2>4, <3>2 DEF Work, Lookup, AppendEvent, UpdateOutcome, CountReplies, CheckCap,
          Chat, PostReply, StoreReply, Goto, FeedbackTypeOK
      <4>2. PICK h \in Indices : h = holding[w]  BY <2>1
      <4>3. events[h] \in Nat /\ events'[h] = events[h] + 1
        BY <1>0, <4>1, <4>2, StreamIndices DEF EventAppears, FeedbackTypeOK
      <4>4. events'[h] > 0  BY <4>3
      <4> QED  BY <2>1, <4>1, <4>2, <4>4
    <3> QED  BY <3>1, <3>2
  <2> QED  BY <2>3, <2>4 DEF OutcomesEvidenced
<1>3. ASSUME NEW w \in Workers, NEW i, holding' = [holding EXCEPT ![w] = i], outcome' = outcome,
             NEW p \in {"idle", "lookup"}, pc' = [pc EXCEPT ![w] = p]
      PROVE  OutcomesEvidenced'
  <2>1. ASSUME NEW v \in Workers, pc'[v] = "update" PROVE events'[holding'[v]] > 0
    <3>1. pc[v] = "update" /\ v # w  BY <1>3, <2>1 DEF FeedbackTypeOK
    <3>2. holding'[v] = holding[v]  BY <1>0, <1>3, <3>1 DEF Bus!BusTypeOK
    <3> QED  BY <3>1, <3>2, StillUpdating
  <2> QED  BY <1>1, <1>3, <2>1 DEF OutcomesEvidenced
<1>4. ASSUME NEW w \in Workers, NEW s \in DOMAIN stream, HandleSignal(w, s) PROVE OutcomesEvidenced'
  BY <1>3, <1>4 DEF HandleSignal, Bus!Deliver, Goto, storeVars
<1>5. ASSUME NEW w \in Workers, End(w) \/ WorkerStops(w) PROVE OutcomesEvidenced'
  BY <1>3, <1>5, EndFrame DEF Idle, storeVars
<1>6. CASE \/ \E c \in Comments : StoreComment(c)
           \/ \E k \in Signals : Signal(k)
           \/ Tombstone \/ BudgetTurns \/ ServerStep \/ UNCHANGED feedbackVars
  <2>1. /\ UNCHANGED <<holding, pc>>
        /\ outcome' = outcome \/ outcome' = [c \in Comments |-> "none"]
    BY <1>6, OtherFrame
  <2>2. ASSUME NEW c \in Comments, outcome'[c] # "none" PROVE Evidence(c)'
    BY <1>1, <2>1, <2>2
  <2>3. \A v \in Workers : pc'[v] = "update" => events'[holding'[v]] > 0
    BY <2>1, StillUpdating
  <2> QED  BY <2>2, <2>3 DEF OutcomesEvidenced
<1> QED  BY <1>2, <1>4, <1>5, <1>6 DEF FeedbackNext

-----------------------------------------------------------------------------
(* Replies.  A worker past the count may still add a row; the count it     *)
(* passed was below the limit.                                             *)
Answering == {w \in Workers : pc[w] \in {"check_cap", "chat", "post", "store_reply"}}

RepliesCounted == counted + Cardinality(Answering) + 1 <= MaxReplies + Cardinality(Workers)

(* A step that adds no row and sends nobody past the count.                *)
LEMMA NothingAnswered ==
  ASSUME FeedbackTypeOK, RepliesCounted, counted' = counted \/ counted' = 0, Answering' \subseteq Answering
  PROVE  RepliesCounted'
<1>1. Answering \subseteq Workers  BY DEF Answering
<1>2. /\ Cardinality(Answering) \in Nat /\ Cardinality(Answering') \in Nat
      /\ Cardinality(Answering') <= Cardinality(Answering)
      /\ Cardinality(Workers) \in Nat
  BY <1>1, Counting
<1>3. counted \in Nat /\ MaxReplies \in Nat  BY FeedbackAssumption DEF FeedbackTypeOK
<1> QED  BY <1>2, <1>3 DEF RepliesCounted

(* The answers to come and the rows stay below limit and workers together. *)
LEMMA RepliesStep ==
  ASSUME FeedbackTypeOK, RepliesCounted, [FeedbackNext]_feedbackVars
  PROVE  RepliesCounted'
<1>0. counted \in Nat /\ MaxReplies \in Nat /\ Answering \subseteq Workers
  BY FeedbackAssumption DEF FeedbackTypeOK, Answering
<1>1. ASSUME NEW w \in Workers, Work(w) PROVE RepliesCounted'
  <2>1. PICK p \in Places \ {"idle"} : pc' = [pc EXCEPT ![w] = p]  BY <1>1, WorkFrame
  <2>2. CASE CountReplies(w) /\ counted < MaxReplies
    <3>1. counted' = counted  BY <2>2 DEF CountReplies, storeVars
    <3>2. Answering' \subseteq Workers  BY DEF Answering
    <3>3. Cardinality(Answering') \in Nat /\ Cardinality(Workers) \in Nat
          /\ Cardinality(Answering') <= Cardinality(Workers)
      BY <3>2, Counting
    <3> QED  BY <1>0, <2>2, <3>1, <3>3 DEF RepliesCounted
  <2>3. CASE StoreReply(w) /\ counted' = counted + 1
    <3>1. w \in Answering /\ Answering' = Answering \ {w}
      BY <2>3 DEF StoreReply, Goto, Answering, FeedbackTypeOK
    <3>2. /\ Cardinality(Answering) \in Nat /\ Cardinality(Answering') \in Nat
          /\ Cardinality(Answering') = Cardinality(Answering) - 1
          /\ Cardinality(Workers) \in Nat
      BY <1>0, <3>1, Counting
    <3> QED  BY <1>0, <2>3, <3>2 DEF RepliesCounted
  <2>4. CASE ~(CountReplies(w) /\ counted < MaxReplies) /\ counted' = counted
    <3>1. pc'[w] \in {"check_cap", "chat", "post", "store_reply"} => w \in Answering
      BY <1>0, <1>1, <2>4 DEF Work, Lookup, AppendEvent, UpdateOutcome, CountReplies, CheckCap,
        Chat, PostReply, StoreReply, Goto, Answering, FeedbackTypeOK
    <3>2. Answering' \subseteq Answering
      BY <2>1, <3>1 DEF Answering, FeedbackTypeOK
    <3> QED  BY <2>4, <3>2, NothingAnswered
  <2> QED
    BY <1>1, <2>2, <2>3, <2>4 DEF Work, Lookup, AppendEvent, UpdateOutcome, CountReplies, CheckCap,
      Chat, PostReply, StoreReply, storeVars
<1>2. ASSUME NEW w \in Workers, NEW p \in {"idle", "lookup"}, pc' = [pc EXCEPT ![w] = p],
             counted' = counted
      PROVE  RepliesCounted'
  <2>1. Answering' \subseteq Answering  BY <1>2 DEF Answering, FeedbackTypeOK
  <2> QED  BY <1>2, <2>1, NothingAnswered
<1>3. ASSUME NEW w \in Workers, NEW s \in DOMAIN stream, HandleSignal(w, s) PROVE RepliesCounted'
  BY <1>2, <1>3 DEF HandleSignal, Goto, storeVars
<1>4. ASSUME NEW w \in Workers, End(w) \/ WorkerStops(w) PROVE RepliesCounted'
  BY <1>2, <1>4, EndFrame DEF Idle, storeVars
<1>5. CASE \/ \E c \in Comments : StoreComment(c)
           \/ \E k \in Signals : Signal(k)
           \/ Tombstone \/ BudgetTurns \/ ServerStep \/ UNCHANGED feedbackVars
  <2>1. pc' = pc /\ (counted' = counted \/ counted' = 0)  BY <1>5, OtherFrame
  <2>2. Answering' \subseteq Answering  BY <2>1 DEF Answering
  <2> QED  BY <2>1, <2>2, NothingAnswered
<1> QED  BY <1>1, <1>3, <1>4, <1>5 DEF FeedbackNext

-----------------------------------------------------------------------------
(* An outcome is that of a row.                                            *)
OutcomesHaveRows == \A c \in Comments \ rows : outcome[c] = "none"

LEMMA RowsStep ==
  ASSUME FeedbackTypeOK, OutcomesHaveRows, [FeedbackNext]_feedbackVars
  PROVE  OutcomesHaveRows'
<1>1. CASE UNCHANGED <<rows, outcome>>
  BY <1>1 DEF OutcomesHaveRows
<1>2. ASSUME NEW w \in Workers, UpdateOutcome(w) PROVE OutcomesHaveRows'
  BY <1>2 DEF UpdateOutcome, OutcomeStored, OutcomesHaveRows, FeedbackTypeOK
<1>3. ASSUME NEW c \in Comments, StoreComment(c) PROVE OutcomesHaveRows'
  BY <1>3 DEF StoreComment, OutcomesHaveRows, FeedbackTypeOK
<1>4. CASE Tombstone
  BY <1>4 DEF Tombstone, OutcomesHaveRows
<1> QED
  BY <1>1, <1>2, <1>3, <1>4
     DEF FeedbackNext, Signal, HandleSignal, Work, Lookup, AppendEvent, CountReplies, CheckCap, Chat, PostReply,
         StoreReply, End, WorkerStops, BudgetTurns, ServerStep, storeVars, feedbackVars

-----------------------------------------------------------------------------
(* The inductive invariant.                                                *)
FeedbackInv == FeedbackTypeOK /\ EventsPaid /\ OutcomesEvidenced /\ RepliesCounted /\ OutcomesHaveRows

(* It holds of the idle workers, the empty queue and the empty tables.     *)
LEMMA FeedbackInvInit == FeedbackInit => FeedbackInv
<1> SUFFICES ASSUME FeedbackInit PROVE FeedbackInv  OBVIOUS
<1>1. /\ stream = <<>> /\ window = {} /\ holding = [w \in Workers |-> 0]
      /\ pc = [w \in Workers |-> "idle"] /\ signal = [w \in Workers |-> <<>>]
      /\ events = [s \in 1..MaxMessages |-> 0] /\ counted = 0
      /\ outcome = [c \in Comments |-> "none"]
  BY DEF FeedbackInit, Bus!BusInit
<1>2. stream \in Seq(Bus!Message) /\ Len(stream) = 0 /\ Indices = {}
  BY <1>1, EmptySeq DEF Indices
<1>3. Bus!BusTypeOK  BY <1>1, <1>2, FeedbackAssumption DEF Bus!BusTypeOK
<1>4. FeedbackTypeOK
  <2>1. /\ rows \subseteq Comments /\ unsaved \subseteq Comments \ rows
        /\ answered \subseteq Comments /\ overspent \in BOOLEAN
    BY DEF FeedbackInit
  <2>2. /\ outcome \in [Comments -> Outcomes] /\ events \in [1..MaxMessages -> Nat]
        /\ counted \in Nat
    BY <1>1 DEF Outcomes
  <2>3. pc \in [Workers -> Places] /\ signal \in [Workers -> Signals \cup {<<>>}]
    BY <1>1 DEF Places
  <2>4. \A w \in Workers : pc[w] = "idle" /\ holding[w] = 0  BY <1>1
  <2> QED  BY <1>3, <2>1, <2>2, <2>3, <2>4 DEF FeedbackTypeOK
<1>5. EventsPaid  BY <1>1, <1>2 DEF EventsPaid
<1>6. OutcomesEvidenced  BY <1>1 DEF OutcomesEvidenced
<1>7. RepliesCounted
  <2>1. Answering = {}  BY <1>1 DEF Answering
  <2>2. Cardinality(Answering) = 0 /\ Cardinality(Workers) \in Nat
    BY <2>1, FS_EmptySet, FS_CardinalityType, FeedbackAssumption
  <2>3. MaxReplies \in Nat \ {0}  BY FeedbackAssumption
  <2> QED  BY <1>1, <2>2, <2>3 DEF RepliesCounted
<1>8. OutcomesHaveRows  BY <1>1 DEF OutcomesHaveRows
<1> QED  BY <1>4, <1>5, <1>6, <1>7, <1>8 DEF FeedbackInv

(* It holds throughout.                                                    *)
LEMMA FeedbackInvariant == FeedbackSafety => []FeedbackInv
<1>1. FeedbackInv /\ [FeedbackNext]_feedbackVars => FeedbackInv'
  BY TypeStep, EventsStep, OutcomesStep, RepliesStep, RowsStep DEF FeedbackInv
<1> QED  BY <1>1, FeedbackInvInit, PTL DEF FeedbackSafety

(* FeedbackTypeCorrect: the variables keep their types, and a busy worker  *)
(* handles the signal of the message it holds.                             *)
THEOREM FeedbackTypeCorrect == FeedbackSafety => []FeedbackTypeOK
<1>1. FeedbackInv => FeedbackTypeOK  BY DEF FeedbackInv
<1> QED  BY <1>1, FeedbackInvariant, PTL

(* DeliveriesPayEvents: whatever fails and whoever takes over, a signal    *)
(* leaves no more events behind than it had deliveries.                    *)
THEOREM DeliveriesPayEvents == FeedbackSafety => []EventsWithinDeliveries
<1>1. FeedbackInv => EventsWithinDeliveries
  <2> SUFFICES ASSUME FeedbackInv, NEW s \in DOMAIN stream
               PROVE  events[s] <= stream[s].deliveries
    BY DEF EventsWithinDeliveries
  <2>1. s \in Indices /\ s \in 1..MaxMessages /\ stream[s].deliveries \in Nat
    BY StreamIndices DEF FeedbackInv, FeedbackTypeOK
  <2>2. events[s] \in Nat  BY <2>1 DEF FeedbackInv, FeedbackTypeOK
  <2>3. Cardinality(Fresh(s)) \in Nat
    <3>1. Fresh(s) \subseteq Workers  BY DEF Fresh
    <3> QED  BY <3>1, Counting
  <2>4. events[s] + Cardinality(Fresh(s)) <= stream[s].deliveries
    BY <2>1 DEF FeedbackInv, EventsPaid
  <2> QED  BY <2>1, <2>2, <2>3, <2>4
<1> QED  BY <1>1, FeedbackInvariant, PTL

(* OutcomesHaveEvents: no comment is learned from without a recorded       *)
(* signal of that meaning.                                                 *)
THEOREM OutcomesHaveEvents == FeedbackSafety => []OutcomeHasEvent
<1>1. FeedbackInv => OutcomeHasEvent
  <2> SUFFICES ASSUME FeedbackInv PROVE OutcomeHasEvent  OBVIOUS
  <2>1. DOMAIN stream = Indices  BY StreamIndices DEF FeedbackInv, FeedbackTypeOK
  <2> QED  BY <2>1 DEF FeedbackInv, OutcomesEvidenced, Evidence, OutcomeHasEvent
<1> QED  BY <1>1, FeedbackInvariant, PTL

(* RepliesAreBounded: the recorded answers overshoot the limit by less     *)
(* than the number of workers, whatever is asked and redelivered.          *)
THEOREM RepliesAreBounded == FeedbackSafety => []ReplyOvershootBounded
<1>1. FeedbackInv => ReplyOvershootBounded
  <2> SUFFICES ASSUME FeedbackInv PROVE ReplyOvershootBounded  OBVIOUS
  <2>1. Answering \subseteq Workers  BY DEF Answering
  <2>2. Cardinality(Answering) \in Nat /\ Cardinality(Workers) \in Nat  BY <2>1, Counting
  <2>3. counted \in Nat /\ MaxReplies \in Nat
    BY FeedbackAssumption DEF FeedbackInv, FeedbackTypeOK
  <2> QED  BY <2>2, <2>3 DEF FeedbackInv, RepliesCounted, ReplyOvershootBounded
<1> QED  BY <1>1, FeedbackInvariant, PTL

-----------------------------------------------------------------------------
(* The feedback loop as one of the writers of the past comments.           *)
RecordedHere == {<<CommentOf(k), Classify(KindOf(k))>> : k \in Appended}
ReferencedHere == {CommentOf(k) : k \in Appended}
RowsHere == [c \in rows |-> RowOf(c)]

(* A step that appends nothing leaves the events as they are: the messages *)
(* it adds have none.                                                      *)
LEMMA NothingRecorded ==
  ASSUME FeedbackInv, Keeps, events' = events
  PROVE  Appended' = Appended
<1>1. /\ DOMAIN stream = Indices /\ \A s \in Indices : stream'[s].key = stream[s].key
      /\ Indices \subseteq Indices' /\ DOMAIN stream' = Indices'
  BY StreamIndices, LenProperties DEF FeedbackInv, FeedbackTypeOK, Keeps, Bus!BusTypeOK, Indices
<1>2. \A s \in Indices' \ Indices : events[s] = 0
  BY PrimedIndices DEF FeedbackInv, EventsPaid, Keeps
<1>3. \A s \in Indices' : events'[s] > 0 <=> s \in Indices /\ events[s] > 0
  BY <1>1, <1>2
<1> QED  BY <1>1, <1>3 DEF Appended

(* So it leaves the table to the others, if it writes no row either.       *)
LEMMA NothingWritten ==
  ASSUME FeedbackInv, Keeps, UNCHANGED <<events, rows, outcome>>
  PROVE  UNCHANGED History!historyVars
<1>1. Appended' = Appended  BY NothingRecorded
<1>2. RowsHere' = RowsHere  BY DEF RowsHere, RowOf
<1> QED
  BY <1>1, <1>2 DEF RowsHere, History!historyVars, History!feedbackRows, History!backfillVars

(* The append is one event more for the signal's comment.                  *)
LEMMA AppendRecords ==
  ASSUME FeedbackInv, NEW w \in Workers, AppendEvent(w), EventAppears(w), CommentOf(signal[w]) \in rows
  PROVE  History!HistoryNext
<1>1. FeedbackTypeOK /\ Bus!BusTypeOK /\ Work(w)  BY DEF FeedbackInv, FeedbackTypeOK, Work
<1>2. /\ UNCHANGED <<busVars, rows, outcome>> /\ holding[w] \in Indices /\ signal[w] = stream[holding[w]].key
      /\ CommentOf(signal[w]) \in Comments /\ signal[w] \in Signals
  BY <1>1, WorkFrame DEF AppendEvent
<1>3. PICK h \in Indices : h = holding[w]  BY <1>2
<1>4. /\ h \in 1..MaxMessages /\ events[h] \in Nat
      /\ events' = [events EXCEPT ![h] = @ + 1] /\ DOMAIN stream = Indices
  BY <1>1, <1>3, StreamIndices DEF EventAppears, FeedbackTypeOK
<1>5. Appended' = Appended \cup {signal[w]}
  <2>1. stream' = stream  BY <1>2 DEF busVars
  <2>2. \A s \in Indices : events'[s] > 0 <=> events[s] > 0 \/ s = h
    BY <1>1, <1>4, StreamIndices DEF FeedbackTypeOK
  <2> QED  BY <1>2, <1>3, <1>4, <2>1, <2>2 DEF Appended
<1>6. /\ RecordedHere' = RecordedHere \cup {<<CommentOf(signal[w]), Classify(KindOf(signal[w]))>>}
      /\ ReferencedHere' = ReferencedHere \cup {CommentOf(signal[w])}
  BY <1>5 DEF RecordedHere, ReferencedHere
<1>7. RowsHere' = RowsHere  BY <1>2 DEF RowsHere, RowOf
<1>8. CommentOf(signal[w]) \in DOMAIN RowsHere /\ RowsHere[CommentOf(signal[w])].source = "bot"
  BY DEF RowsHere, RowOf
<1>9. History!AppendFeedback(CommentOf(signal[w]), Classify(KindOf(signal[w])))
  BY <1>6, <1>7, <1>8 DEF RecordedHere, ReferencedHere, RowsHere, History!AppendFeedback, History!backfillVars
<1>10. Classify(KindOf(signal[w])) \in Outcomes \ {"none"}  BY <1>2, ClassifyType
<1> QED  BY <1>2, <1>9, <1>10 DEF History!HistoryNext

(* The outcome that is stored was appended before.                         *)
LEMMA UpdateStores ==
  ASSUME FeedbackInv, NEW w \in Workers, UpdateOutcome(w), OutcomeStored(w), CommentOf(signal[w]) \in rows
  PROVE  History!HistoryNext
<1> DEFINE c == CommentOf(signal[w])
           meaning == Classify(KindOf(signal[w]))
<1>1. FeedbackTypeOK /\ Bus!BusTypeOK /\ Work(w)  BY DEF FeedbackInv, FeedbackTypeOK, Work
<1>2. /\ UNCHANGED <<busVars, rows, events>> /\ holding[w] \in Indices /\ signal[w] = stream[holding[w]].key
      /\ c \in Comments /\ signal[w] \in Signals
  BY <1>1, WorkFrame DEF UpdateOutcome
<1>3. Appended' = Appended
  BY <1>2 DEF Appended, busVars
<1>4. signal[w] \in Appended
  BY <1>1, <1>2, StreamIndices DEF FeedbackInv, OutcomesEvidenced, UpdateOutcome, Appended
<1>5. meaning \in Outcomes \ {"none"}  BY <1>2, ClassifyType
<1>6. RowsHere' = [RowsHere EXCEPT ![c].outcome = meaning]
  <2>1. outcome' = [outcome EXCEPT ![c] = meaning] /\ outcome \in [Comments -> Outcomes] /\ rows \subseteq Comments
    BY <1>1 DEF OutcomeStored, FeedbackTypeOK
  <2> HIDE DEF c, meaning
  <2> QED  BY <1>2, <1>5, <2>1 DEF RowsHere, RowOf
<1>7. c \in DOMAIN RowsHere /\ RowsHere[c].source = "bot"
  BY DEF RowsHere, RowOf
<1>8. <<c, meaning>> \in RecordedHere  BY <1>4 DEF RecordedHere
<1>9. RecordedHere' = RecordedHere /\ ReferencedHere' = ReferencedHere  BY <1>3 DEF RecordedHere, ReferencedHere
<1>10. History!StoreOutcome(c, meaning)
  BY <1>6, <1>7, <1>8, <1>9
     DEF RecordedHere, ReferencedHere, RowsHere, History!StoreOutcome, History!feedbackRows, History!backfillVars
<1> QED  BY <1>2, <1>5, <1>10 DEF History!HistoryNext

(* A comment's row appears without an outcome.                             *)
LEMMA StoreIsUpsert ==
  ASSUME FeedbackInv, NEW c \in Comments, StoreComment(c), rows' = rows \cup {c}
  PROVE  History!HistoryNext
<1> DEFINE row == [source |-> "bot", text |-> "text", outcome |-> "pending", vec |-> "none"]
<1>1. c \notin rows /\ outcome[c] = "none" /\ UNCHANGED <<outcome, events, busVars>>
  BY DEF FeedbackInv, FeedbackTypeOK, OutcomesHaveRows, StoreComment
<1>2. Appended' = Appended  BY <1>1 DEF Appended, busVars
<1>3. RowsHere' = [d \in rows \cup {c} |-> IF d # c THEN RowsHere[d] ELSE row]
  BY <1>1 DEF RowsHere, RowOf
<1>4. DOMAIN RowsHere = rows  BY DEF RowsHere
<1>5. RecordedHere' = RecordedHere /\ ReferencedHere' = ReferencedHere  BY <1>2 DEF RecordedHere, ReferencedHere
<1>6. History!StoreBotComment(c, "text")
  BY <1>1, <1>3, <1>4, <1>5
     DEF RecordedHere, ReferencedHere, RowsHere, History!StoreBotComment, History!RowsUpserted, History!feedbackRows,
         History!backfillVars
<1> QED  BY <1>6 DEF History!HistoryNext

(* The rows go together, and only while no event refers to one.            *)
LEMMA TombstoneDeletes ==
  ASSUME FeedbackInv, Tombstone, rows' = {}, \A s \in DOMAIN events : events[s] = 0
  PROVE  History!HistoryNext
<1>1. /\ DOMAIN stream = Indices /\ Indices \subseteq 1..MaxMessages
      /\ events \in [1..MaxMessages -> Nat] /\ UNCHANGED <<busVars, events>>
  BY StreamIndices DEF FeedbackInv, FeedbackTypeOK, Tombstone
<1>2. Appended = {} /\ Appended' = Appended
  <2>1. \A s \in DOMAIN stream : events[s] = 0  BY <1>1
  <2>2. {s \in DOMAIN stream : events[s] > 0} = {}  BY <2>1
  <2>3. Appended = {}  BY <2>2 DEF Appended
  <2> QED  BY <1>1, <2>3 DEF Appended, busVars
<1>3. RecordedHere = {} /\ RecordedHere' = {} /\ ReferencedHere = {} /\ ReferencedHere' = {}
  BY <1>2 DEF RecordedHere, ReferencedHere
<1>4. RowsHere' = <<>>  BY DEF RowsHere
<1>5. History!Tombstone
  BY <1>3, <1>4
     DEF RecordedHere, ReferencedHere, RowsHere, History!Tombstone, History!feedbackRows, History!backfillVars
<1> QED  BY <1>5 DEF History!HistoryNext

(* Every step of the feedback loop writes the table as one of its writers. *)
LEMMA FeedbackHistorySteps ==
  ASSUME FeedbackInv, [FeedbackNext]_feedbackVars
  PROVE  [History!HistoryNext]_(History!historyVars)
<1>1. Keeps  BY EventsGrow DEF FeedbackInv
<1>2. CASE UNCHANGED <<events, rows, outcome>>  BY <1>1, <1>2, NothingWritten
<1>3. ASSUME NEW w \in Workers, AppendEvent(w), events' # events PROVE History!HistoryNext
  BY <1>3, AppendRecords DEF AppendEvent
<1>4. ASSUME NEW w \in Workers, UpdateOutcome(w), outcome' # outcome PROVE History!HistoryNext
  BY <1>4, UpdateStores DEF UpdateOutcome
<1>5. ASSUME NEW c \in Comments, StoreComment(c), rows' # rows PROVE History!HistoryNext
  BY <1>5, StoreIsUpsert DEF StoreComment
<1>6. ASSUME Tombstone, ~UNCHANGED <<rows, outcome>> PROVE History!HistoryNext
  BY <1>6, TombstoneDeletes DEF Tombstone
<1>7. \/ UNCHANGED <<events, rows, outcome>>
      \/ \E w \in Workers : AppendEvent(w) /\ UNCHANGED <<rows, outcome>>
      \/ \E w \in Workers : UpdateOutcome(w) /\ UNCHANGED <<rows, events>>
      \/ \E c \in Comments : StoreComment(c) /\ UNCHANGED <<outcome, events>>
      \/ Tombstone /\ UNCHANGED events
  BY DEF FeedbackNext, Signal, HandleSignal, Work, Lookup, AppendEvent, UpdateOutcome, CountReplies, CheckCap, Chat,
         PostReply, StoreReply, End, WorkerStops, StoreComment, Tombstone, BudgetTurns, ServerStep, storeVars,
         feedbackVars
<1> QED  BY <1>2, <1>3, <1>4, <1>5, <1>6, <1>7

(* FeedbackWritesHistory: the feedback loop implements what CommentHistory *)
(* lets the writers of past comments do, so that no number of workers,     *)
(* redeliveries or failures makes retrieval learn an outcome before an     *)
(* event of that meaning was appended, or from a row that was not stored   *)
(* (Handle of the feedback pipeline, CommentStore, Tombstone).             *)
THEOREM FeedbackWritesHistory == FeedbackSafety => WritesHistory
<1>1. FeedbackInit => History!HistoryInit
  <2> SUFFICES ASSUME FeedbackInit PROVE History!HistoryInit  OBVIOUS
  <2>1. stream = <<>> /\ rows = {}  BY DEF FeedbackInit, Bus!BusInit
  <2>2. Appended = {}  BY <2>1 DEF Appended
  <2>3. RecordedHere = {} /\ ReferencedHere = {} /\ RowsHere = <<>>
    BY <2>1, <2>2 DEF RecordedHere, ReferencedHere, RowsHere
  <2> QED  BY <2>3 DEF RecordedHere, ReferencedHere, RowsHere, History!HistoryInit
<1>2. FeedbackInv /\ [FeedbackNext]_feedbackVars => [History!HistoryNext]_(History!historyVars)
  BY FeedbackHistorySteps
<1> QED  BY <1>1, <1>2, FeedbackInvariant, PTL DEF FeedbackSafety, WritesHistory, History!HistorySpec


(* The gateway and the feedback workers use the bus as it is meant to be   *)
(* used, so that what was proved of the bus for any clients holds here.    *)
BusProofs == INSTANCE JobBusProofs WITH Keys <- Signals

(* The two instances of the bus are one.                                   *)
LEMMA SameBus ==
  /\ Bus!BusInit => BusProofs!BusInit
  /\ [Bus!BusNext]_(Bus!busVars) => [BusProofs!BusNext]_(BusProofs!busVars)
  /\ BusProofs!BusInv => Bus!HoldersWithinDeliveries
<1>1. Bus!BusInit => BusProofs!BusInit  BY DEF Bus!BusInit, BusProofs!BusInit
<1>2. [Bus!BusNext]_(Bus!busVars) => [BusProofs!BusNext]_(BusProofs!busVars)
  BY DEF Bus!BusNext, Bus!busVars, Bus!Publish, Bus!Store, Bus!WindowExpires, Bus!Ack, Bus!Nak,
         Bus!Abandon, Bus!Deliver, Bus!AckWaitExpires, Bus!AgeOut, Bus!Seqs, Bus!Gone,
         BusProofs!BusNext, BusProofs!busVars, BusProofs!Publish, BusProofs!Store,
         BusProofs!WindowExpires, BusProofs!Ack, BusProofs!Nak, BusProofs!Abandon,
         BusProofs!Deliver, BusProofs!AckWaitExpires, BusProofs!AgeOut, BusProofs!Seqs, BusProofs!Gone
<1>3. BusProofs!BusInv => Bus!HoldersWithinDeliveries
  BY DEF BusProofs!BusInv, BusProofs!HoldersWithinDeliveries, BusProofs!Holders, BusProofs!Seqs,
         BusProofs!Cardinality, Bus!HoldersWithinDeliveries, Bus!Holders, Bus!Seqs, Bus!Cardinality
<1> QED  BY <1>1, <1>2, <1>3

(* The assumption of the bus.                                              *)
LEMMA BusAssumed == BusProofs!IsFiniteSet(Workers)
BY FeedbackAssumption DEF IsFiniteSet, BusProofs!IsFiniteSet

(* Every step of the feedback loop is one of the bus.                      *)
LEMMA FeedbackBusSteps ==
  ASSUME [FeedbackNext]_feedbackVars
  PROVE  [Bus!BusNext]_(Bus!busVars)
<1> USE DEF Bus!BusNext, Bus!busVars, Bus!Seqs
<1>1. CASE \E c \in Comments : StoreComment(c)
  BY <1>1 DEF StoreComment, busVars
<1>2. CASE \E k \in Signals : Signal(k)  BY <1>2 DEF Signal
<1>3. CASE \E w \in Workers, s \in DOMAIN stream : HandleSignal(w, s)
  BY <1>3 DEF HandleSignal
<1>4. CASE \E w \in Workers : Work(w)
  BY <1>4 DEF Work, Lookup, AppendEvent, UpdateOutcome, CountReplies, CheckCap, Chat, PostReply,
              StoreReply, busVars
<1>5. CASE \E w \in Workers : End(w) \/ WorkerStops(w)
  BY <1>5 DEF End, WorkerStops
<1>6. CASE Tombstone \/ BudgetTurns \/ UNCHANGED feedbackVars
  BY <1>6 DEF Tombstone, BudgetTurns, feedbackVars, busVars
<1>7. CASE ServerStep  BY <1>7 DEF ServerStep
<1> QED  BY <1>1, <1>2, <1>3, <1>4, <1>5, <1>6, <1>7 DEF FeedbackNext

(* The gateway and the feedback workers only ever take steps of the bus on *)
(* its queue.                                                              *)
LEMMA FeedbackUsesBus == FeedbackSafety => Bus!BusSafety
<1>1. FeedbackInit => Bus!BusInit  BY DEF FeedbackInit
<1>2. [FeedbackNext]_feedbackVars => [Bus!BusNext]_(Bus!busVars)  BY FeedbackBusSteps
<1> QED  BY <1>1, <1>2, PTL DEF FeedbackSafety, Bus!BusSafety

(* A signal is handled by no more workers than deliveries counted for it   *)
(* (Consume's NumDelivered), and an acked or expired one is not brought    *)
(* back by a late Nak or a timer.                                          *)
THEOREM FeedbackBusIsSafe == FeedbackSafety => []Bus!HoldersWithinDeliveries /\ Bus!NeverRevived
<1>1. Bus!BusInit => BusProofs!BusInv
  BY SameBus, BusAssumed, FeedbackAssumption, BusProofs!BusInvInit
<1>2. BusProofs!BusInv /\ [Bus!BusNext]_(Bus!busVars) => BusProofs!BusInv'
  BY SameBus, BusAssumed, FeedbackAssumption, BusProofs!BusInvStep
<1>3. BusProofs!BusInv => Bus!HoldersWithinDeliveries  BY SameBus
<1>4. BusProofs!BusInv /\ [Bus!BusNext]_(Bus!busVars) => [BusProofs!GoneKept]_(BusProofs!busVars)
  BY SameBus, BusAssumed, FeedbackAssumption, BusProofs!GoneStays
<1>5. [BusProofs!GoneKept]_(BusProofs!busVars) =>
        [\A s \in Bus!Seqs : stream[s].state \in Bus!Gone => stream'[s].state = stream[s].state]_(Bus!busVars)
  BY DEF BusProofs!GoneKept, BusProofs!busVars, BusProofs!Seqs, BusProofs!Gone,
         Bus!busVars, Bus!Seqs, Bus!Gone
<1> QED
  BY <1>1, <1>2, <1>3, <1>4, <1>5, FeedbackUsesBus, PTL DEF Bus!BusSafety, Bus!NeverRevived
=============================================================================
