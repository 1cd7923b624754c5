------------------------- MODULE ReviewSystemProofs -------------------------
(***************************************************************************)
(* The composed system: the bus drives the pipeline only in ways the       *)
(* pipeline is proved safe for, and no acked job is lost without a trace.  *)
(***************************************************************************)
EXTENDS ReviewSystem, ReviewPipelineProofs, SequenceTheorems

Indices == 1..Len(stream)

(* A worker's callback runs for a message of the stream, with the job of   *)
(* that message.                                                           *)
SysInv ==
  /\ IInv
  /\ stream \in Seq(Bus!Message)
  /\ holding \in [Workers -> Nat]
  /\ \A w \in Workers : holding[w] # 0 => holding[w] \in Indices /\ stream[holding[w]].key = job[w]
  /\ \A w \in Workers : holding[w] = 0 <=> pc[w] = "idle"

(* What every step of the bus does to the stream: messages keep their      *)
(* place and key, and only an Ack makes one acked.                         *)
Keeps ==
  /\ stream' \in Seq(Bus!Message)
  /\ Indices \subseteq Indices'
  /\ \A s \in Indices : stream'[s].key = stream[s].key

AcksOnly(S) ==
  \A s \in Indices' : stream'[s].state = "acked" =>
    s \in S \/ (s \in Indices /\ stream[s].state = "acked")

(* The stream as a function on its indices.                                *)
LEMMA StreamIndices ==
  ASSUME stream \in Seq(Bus!Message)
  PROVE  /\ Len(stream) \in Nat /\ DOMAIN stream = Indices
         /\ \A s \in Indices : stream[s] \in Bus!Message
BY LenProperties, ElementOfSeq DEF Indices

(* Replacing a message by one with its key keeps the keys, and acks at most it. *)
LEMMA Replaced ==
  ASSUME stream \in Seq(Bus!Message), NEW s \in Indices, NEW m \in Bus!Message,
         stream' = [stream EXCEPT ![s] = m], m.key = stream[s].key
  PROVE  /\ Keeps
         /\ AcksOnly({s})
         /\ m.state # "acked" \/ stream[s].state = "acked" => AcksOnly({})
<1>1. s \in 1..Len(stream)  BY DEF Indices
<1>2. /\ stream' \in Seq(Bus!Message) /\ Len(stream') = Len(stream)
      /\ \A t \in 1..Len(stream) : stream'[t] = IF t = s THEN m ELSE stream[t]
  BY <1>1, ExceptSeq
<1> QED  BY <1>2 DEF Keeps, AcksOnly, Indices

(* The messages an ack, an AckWait and a MaxAge leave.                     *)
LEMMA ReplacedFields ==
  ASSUME NEW m \in Bus!Message
  PROVE  /\ [m EXCEPT !.state = IF @ \in Bus!Gone THEN @ ELSE "acked"] \in Bus!Message
         /\ [m EXCEPT !.state = IF @ \in Bus!Gone THEN @ ELSE "acked"].key = m.key
         /\ [m EXCEPT !.state = "ready"] \in Bus!Message
         /\ [m EXCEPT !.state = "ready"].key = m.key
         /\ [m EXCEPT !.state = "ready"].state = "ready"
         /\ [m EXCEPT !.state = "expired"] \in Bus!Message
         /\ [m EXCEPT !.state = "expired"].key = m.key
         /\ [m EXCEPT !.state = "expired"].state = "expired"
BY DEF Bus!Message, Bus!Gone

(* The message a delivery leaves.                                          *)
LEMMA DeliveredFields ==
  ASSUME NEW m \in Bus!Message, m.deliveries < MaxDeliver
  PROVE  /\ [m EXCEPT !.state = "inflight", !.deliveries = @ + 1] \in Bus!Message
         /\ [m EXCEPT !.state = "inflight", !.deliveries = @ + 1].key = m.key
         /\ [m EXCEPT !.state = "inflight", !.deliveries = @ + 1].state = "inflight"
<1>1. m.deliveries + 1 \in 0..MaxDeliver
  BY SystemAssumption DEF Bus!Message
<1> QED  BY <1>1 DEF Bus!Message

(* A publish changes no stored message.                                    *)
LEMMA PublishKeeps ==
  ASSUME stream \in Seq(Bus!Message), NEW k \in Jobs, Bus!Publish(k)
  PROVE  Keeps /\ AcksOnly({}) /\ holding' = holding
<1>1. CASE UNCHANGED busVars
  BY <1>1 DEF busVars, Keeps, AcksOnly, Indices
<1>2. CASE Bus!Store(k)
  <2> DEFINE m == [key |-> k, state |-> "ready", deliveries |-> 0]
  <2>1. m \in Bus!Message  BY SystemAssumption DEF Bus!Message
  <2>2. /\ stream' \in Seq(Bus!Message) /\ Len(stream') = Len(stream) + 1
        /\ \A s \in Indices : stream'[s] = stream[s]
        /\ stream'[Len(stream) + 1] = m
    BY <1>2, <2>1, StreamIndices DEF Bus!Store, Indices
  <2> QED  BY <1>2, <2>2, StreamIndices DEF Bus!Store, Keeps, AcksOnly, Indices
<1> QED  BY <1>1, <1>2 DEF Bus!Publish, Bus!busVars, busVars

(* A delivery keeps the keys and acks nothing.                             *)
LEMMA DeliverKeeps ==
  ASSUME stream \in Seq(Bus!Message), NEW w \in Workers, NEW s \in DOMAIN stream, Bus!Deliver(w, s)
  PROVE  Keeps /\ AcksOnly({})
<1>1. s \in Indices /\ stream[s] \in Bus!Message  BY StreamIndices
<1>2. stream' = [stream EXCEPT ![s] = [stream[s] EXCEPT !.state = "inflight", !.deliveries = @ + 1]]
  BY DEF Bus!Deliver
<1> QED  BY <1>1, <1>2, DeliveredFields, Replaced DEF Bus!Deliver

(* An ack acks the message its worker holds, and no other.                 *)
LEMMA AckKeeps ==
  ASSUME stream \in Seq(Bus!Message), NEW w \in Workers, holding[w] \in Indices, Bus!Ack(w)
  PROVE  Keeps /\ AcksOnly({holding[w]})
<1> PICK s \in Indices : s = holding[w]  OBVIOUS
<1>1. stream[s] \in Bus!Message  BY StreamIndices
<1>2. stream' = [stream EXCEPT ![s] = [stream[s] EXCEPT !.state = IF @ \in Bus!Gone THEN @ ELSE "acked"]]
  BY DEF Bus!Ack
<1> QED  BY <1>1, <1>2, ReplacedFields, Replaced

(* The timers of the server ack nothing.                                   *)
LEMMA TimerKeeps ==
  ASSUME stream \in Seq(Bus!Message), NEW s \in DOMAIN stream,
         Bus!AckWaitExpires(s) \/ Bus!AgeOut(s)
  PROVE  Keeps /\ AcksOnly({})
<1>1. s \in Indices /\ stream[s] \in Bus!Message  BY StreamIndices
<1>2. \/ stream' = [stream EXCEPT ![s] = [stream[s] EXCEPT !.state = "ready"]]
      \/ stream' = [stream EXCEPT ![s] = [stream[s] EXCEPT !.state = "expired"]]
  BY DEF Bus!AckWaitExpires, Bus!AgeOut
<1> QED  BY <1>1, <1>2, ReplacedFields, Replaced

-----------------------------------------------------------------------------
(* Each step of the system, seen from the pipeline.                        *)
LEMMA SystemSteps ==
  ASSUME SysInv, [SystemNext]_systemVars
  PROVE  [PipelineNext]_pipelineVars
<1>1. ASSUME NEW w \in Workers, NEW s \in DOMAIN stream, HandleJob(w, s) PROVE PipelineNext
  <2>1. stream[s].key \in Jobs  BY StreamIndices DEF SysInv, Bus!Message
  <2> QED  BY <1>1, <2>1 DEF HandleJob, PipelineNext
<1>2. ASSUME NEW w \in Workers, Work(w) \/ AckJob(w) \/ WorkerStops(w) PROVE PipelineNext
  BY <1>2 DEF Work, AckJob, WorkerStops, PipelineNext
<1>3. CASE Operator  BY <1>3 DEF Operator, PipelineNext
<1> QED
  BY <1>1, <1>2, <1>3 DEF SystemNext, PullRequestEvent, AskForReview, ServerStep, systemVars

(* The initial states satisfy SysInv.                                      *)
LEMMA SysInvInit == SystemInit => SysInv
<1> SUFFICES ASSUME SystemInit PROVE SysInv  OBVIOUS
<1>1. IInv  BY InitIInv DEF SystemInit
<1>2. stream = <<>> /\ holding = [w \in Workers |-> 0] /\ pc = [w \in Workers |-> "idle"]
  BY DEF SystemInit, Bus!BusInit, PipelineInit
<1>3. stream \in Seq(Bus!Message)  BY <1>2, EmptySeq
<1> QED  BY <1>1, <1>2, <1>3 DEF SysInv

(* A step in which no worker takes or lets go of a message.                *)
LEMMA SameHolding ==
  ASSUME SysInv, IInv', Keeps, holding' = holding, job' = job,
         \A w \in Workers : pc'[w] = "idle" <=> pc[w] = "idle"
  PROVE  SysInv'
BY DEF SysInv, Keeps

(* A step in which worker w lets go of its message and forgets its job.    *)
LEMMA LetsGo ==
  ASSUME SysInv, IInv', Keeps, NEW w \in Workers, Leave(w), holding' = [holding EXCEPT ![w] = 0]
  PROVE  SysInv'
<1>1. /\ pc'[w] = "idle"
      /\ \A v \in Workers \ {w} : pc'[v] = pc[v] /\ job'[v] = job[v]
  BY DEF Leave, Goto, SysInv, IInv, PipelineTypeOK
<1> QED  BY <1>1 DEF SysInv, Keeps

(* A step that leaves the stream alone.                                    *)
LEMMA StreamUnchanged ==
  ASSUME stream \in Seq(Bus!Message), stream' = stream
  PROVE  Keeps /\ AcksOnly({})
BY DEF Keeps, AcksOnly, Indices

(* What a step does to the stream and which runs it acks.                  *)
LEMMA SysInvStep ==
  ASSUME SysInv, [SystemNext]_systemVars
  PROVE  /\ SysInv' /\ Keeps
         /\ \/ AcksOnly({})
            \/ \E w \in Workers : Return(w) /\ holding[w] \in Indices /\ AcksOnly({holding[w]})
<1>0. IInv'  BY SystemSteps, NextIInv DEF SysInv
<1>1. ASSUME NEW j \in Jobs, PullRequestEvent(j) \/ AskForReview(j) PROVE SysInv' /\ Keeps /\ AcksOnly({})
  <2>1. Keeps /\ AcksOnly({}) /\ holding' = holding
    BY <1>1, PublishKeeps DEF PullRequestEvent, AskForReview, SysInv
  <2>2. job' = job /\ pc' = pc
    BY <1>1 DEF PullRequestEvent, AskForReview, pipelineVars, localVars
  <2> QED  BY <1>0, <2>1, <2>2, SameHolding
<1>2. ASSUME NEW w \in Workers, NEW s \in DOMAIN stream, HandleJob(w, s)
      PROVE  SysInv' /\ Keeps /\ AcksOnly({})
  <2>1. Keeps /\ AcksOnly({})  BY <1>2, DeliverKeeps DEF HandleJob, SysInv
  <2>2. s \in Indices  BY StreamIndices DEF SysInv
  <2>3. /\ holding' = [holding EXCEPT ![w] = s]
        /\ job' = [job EXCEPT ![w] = stream[s].key]
        /\ pc' = [pc EXCEPT ![w] = "check_repo"]
    BY <1>2 DEF HandleJob, Bus!Deliver, Start, Goto
  <2>4. s \in Nat \ {0}  BY <2>2, StreamIndices DEF Indices, SysInv
  <2> QED
    BY <1>0, <2>1, <2>2, <2>3, <2>4 DEF SysInv, Keeps, IInv, PipelineTypeOK
<1>3. ASSUME NEW w \in Workers, Work(w) PROVE SysInv' /\ Keeps /\ AcksOnly({})
  <2>1. Keeps /\ AcksOnly({}) /\ holding' = holding
    BY <1>3, StreamUnchanged DEF Work, busVars, SysInv
  <2>2. /\ job' = job /\ pc[w] # "idle"
        /\ \A v \in Workers \ {w} : SameWorker(v)
    BY <1>3, StepFrame DEF Work, SysInv, IInv
  <2>3. pc'[w] # "idle"
    BY <1>3 DEF Work, Step, CheckRepo, Begin, CheckBudget, FindBase, FetchDiff, Chat, Answered,
      Unreadable, AttemptFails, PostReview, PostComments, PostSummary, SaveComments, UpdateCheck,
      PostNeutral, PassCheck, Finish, Goto, FailOpen, SysInv, IInv,
      PipelineTypeOK
  <2> QED  BY <1>0, <2>1, <2>2, <2>3, SameHolding DEF SameWorker
<1>4. ASSUME NEW w \in Workers, AckJob(w)
      PROVE  /\ SysInv' /\ Keeps
             /\ \/ AcksOnly({})
                \/ Return(w) /\ holding[w] \in Indices /\ AcksOnly({holding[w]})
  <2>1. Leave(w) /\ holding' = [holding EXCEPT ![w] = 0]
    BY <1>4 DEF AckJob, Return, Bus!Ack, Bus!Abandon
  <2>2. CASE Bus!Ack(w)
    <3>1. holding[w] \in Indices  BY <2>2 DEF Bus!Ack, SysInv
    <3>2. Keeps /\ AcksOnly({holding[w]})  BY <2>2, <3>1, AckKeeps DEF SysInv
    <3> QED  BY <1>0, <1>4, <2>1, <3>1, <3>2, LetsGo DEF AckJob
  <2>3. CASE Bus!Abandon(w)
    <3>1. Keeps /\ AcksOnly({})  BY <2>3, StreamUnchanged DEF Bus!Abandon, SysInv
    <3> QED  BY <1>0, <2>1, <3>1, LetsGo
  <2> QED  BY <1>4, <2>2, <2>3 DEF AckJob
<1>5. ASSUME NEW w \in Workers, WorkerStops(w) PROVE SysInv' /\ Keeps /\ AcksOnly({})
  <2>1. Keeps /\ AcksOnly({})
    BY <1>5, StreamUnchanged DEF WorkerStops, Bus!Abandon, SysInv
  <2>2. Leave(w) /\ holding' = [holding EXCEPT ![w] = 0]
    BY <1>5 DEF WorkerStops, Crash, Bus!Abandon
  <2> QED  BY <1>0, <2>1, <2>2, LetsGo
<1>6. CASE ServerStep
  <2>1. Keeps /\ AcksOnly({}) /\ holding' = holding
    <3>1. ASSUME NEW j \in Jobs, Bus!WindowExpires(j) PROVE Keeps /\ AcksOnly({}) /\ holding' = holding
      BY <3>1, StreamUnchanged DEF Bus!WindowExpires, SysInv
    <3>2. ASSUME NEW s \in DOMAIN stream, Bus!AckWaitExpires(s) \/ Bus!AgeOut(s)
          PROVE  Keeps /\ AcksOnly({}) /\ holding' = holding
      BY <3>2, TimerKeeps DEF Bus!AckWaitExpires, Bus!AgeOut, SysInv
    <3> QED  BY <1>6, <3>1, <3>2 DEF ServerStep
  <2>2. job' = job /\ pc' = pc  BY <1>6 DEF ServerStep, pipelineVars, localVars
  <2> QED  BY <1>0, <2>1, <2>2, SameHolding
<1>7. CASE Operator \/ UNCHANGED systemVars
  <2>1. Keeps /\ AcksOnly({}) /\ holding' = holding
    BY <1>7, StreamUnchanged DEF Operator, systemVars, busVars, SysInv
  <2>2. job' = job /\ pc' = pc
    BY <1>7 DEF Operator, SetEnabled, Tombstone, systemVars, pipelineVars, localVars
  <2> QED  BY <1>0, <2>1, <2>2, SameHolding
<1> QED  BY <1>1, <1>2, <1>3, <1>4, <1>5, <1>6, <1>7 DEF SystemNext

(* SystemInvariant: a busy worker holds the message of the job it works on, *)
(* and the pipeline invariant holds in the composed system.                *)
THEOREM SystemInvariant == SystemSafety => []SysInv
<1>1. SysInv /\ [SystemNext]_systemVars => SysInv'  BY SysInvStep
<1> QED  BY <1>1, SysInvInit, PTL DEF SystemSafety

(* Every step of the composed system is one of the pipeline or leaves it   *)
(* as it is, so that the pipeline's safety theorems carry over.            *)
LEMMA SystemRunsPipeline == SystemSafety => PipelineSafety
<1>1. SystemInit => PipelineInit  BY DEF SystemInit
<1>2. SysInv /\ [SystemNext]_systemVars => [PipelineNext]_pipelineVars  BY SystemSteps
<1> QED
  BY <1>1, <1>2, SystemInvariant, PTL DEF SystemSafety, PipelineSafety

(* SystemReviewsOnce: with the real bus too, a head is reviewed at most    *)
(* once and paid for in one ChatWithRetry at most, however often its       *)
(* message is delivered.                                                   *)
THEOREM SystemReviewsOnce == SystemSafety => []AtMostOnce
BY SystemRunsPipeline, ReviewedOnce, PTL

-----------------------------------------------------------------------------
(* Somebody knows of job j: it has a row, or a line in the log.            *)
Known(j) == status[j] # "absent" \/ j \in logged

(* A handler comes to its return only with a job that is known.            *)
ReturnsKnown ==
  \A w \in Workers : pc[w] \in Begun \cup {"return"} => Known(job[w])

(* A row of pr_runs never disappears.                                      *)
LEMMA RowsStay ==
  ASSUME IInv, [PipelineNext]_pipelineVars, NEW j \in Jobs, status[j] # "absent"
  PROVE  status'[j] # "absent"
<1>1. CASE \E w \in Workers : Step(w)
  <2> PICK w \in Workers : Step(w)  BY <1>1
  <2>1. CASE j # job[w]  BY <2>1, StepFrame DEF SameJob, IInv
  <2>2. CASE j = job[w]
    <3>1. CASE Begin(w)
      BY <2>2, <3>1 DEF Begin, InsertRun, runVars, IInv, PipelineTypeOK
    <3>2. CASE Finish(w)
      BY <2>2, <3>2 DEF Finish, FinishRow, runVars, IInv, PipelineTypeOK, Outcomes
    <3>3. CASE ~Begin(w) /\ ~Finish(w)
      BY <3>3 DEF Step, CheckRepo, CheckBudget, FindBase, FetchDiff, Chat, PostReview,
        PostComments, PostSummary, SaveComments, UpdateCheck, PostNeutral, PassCheck, runVars
    <3> QED  BY <3>1, <3>2, <3>3
  <2> QED  BY <2>1, <2>2
<1>2. CASE ~ \E w \in Workers : Step(w)  BY <1>2, OtherFrame DEF SameJob, IInv
<1> QED  BY <1>1, <1>2

(* Nor does a line of the log.                                             *)
LEMMA KnownStays ==
  ASSUME IInv, [PipelineNext]_pipelineVars, NEW j \in Jobs, Known(j)
  PROVE  Known(j)'
<1>1. logged \subseteq logged'
  <2>1. CASE \E w \in Workers : Step(w)  BY <2>1, StepExplained
  <2>2. CASE ~ \E w \in Workers : Step(w)
    BY <2>2 DEF PipelineNext, Start, Return, Crash, SetEnabled, Tombstone, pipelineVars, histVars
  <2> QED  BY <2>1, <2>2
<1> QED  BY <1>1, RowsStay DEF Known

(* A worker that returns leaves a job that is known.                       *)
LEMMA ReturnsKnownStep ==
  ASSUME IInv, ReturnsKnown, [PipelineNext]_pipelineVars
  PROVE  ReturnsKnown'
<1>1. CASE \E w \in Workers : Step(w)
  <2> PICK w \in Workers : Step(w)  BY <1>1
  <2>1. /\ job[w] \in Jobs /\ job' = job
        /\ \A v \in Workers \ {w} : SameWorker(v)
    BY StepFrame DEF IInv
  <2>2. \A v \in Workers \ {w} : pc'[v] \in Begun \cup {"return"} => Known(job[v])'
    <3> SUFFICES ASSUME NEW v \in Workers \ {w}, pc[v] \in Begun \cup {"return"}
                 PROVE  Known(job[v])'
      BY <2>1 DEF SameWorker
    <3>1. job[v] \in Jobs  BY DEF IInv, PipelineTypeOK, Begun
    <3>2. Known(job[v])  BY DEF ReturnsKnown
    <3> QED  BY <2>1, <3>1, <3>2, KnownStays DEF Known
  <2>3. pc'[w] \in Begun \cup {"return"} => Known(job[w])'
    <3>1. CASE pc[w] \in Begun \cup {"return"}
      <4>1. Known(job[w])  BY <3>1 DEF ReturnsKnown
      <4> QED  BY <2>1, <4>1, KnownStays DEF Known
    <3>2. CASE CheckRepo(w)
      BY <2>1, <3>2 DEF CheckRepo, Log, Goto, Begun, Known, IInv, PipelineTypeOK
    <3>3. CASE Begin(w)
      BY <2>1, <3>3 DEF Begin, InsertRun, Log, runVars, Known, IInv, PipelineTypeOK
    <3> QED
      BY <3>1, <3>2, <3>3 DEF Step, CheckBudget, FindBase, FetchDiff, Chat, PostReview,
        PostComments, PostSummary, SaveComments, UpdateCheck, PostNeutral, PassCheck, Finish, Begun
  <2> QED  BY <2>1, <2>2, <2>3 DEF ReturnsKnown, Known
<1>2. CASE ~ \E w \in Workers : Step(w)
  <2>1. \A w \in Workers : SameWorker(w) \/ pc'[w] \notin Begun \cup {"return"}
    <3>1. ASSUME NEW w \in Workers, NEW j \in Jobs, Start(w, j)
          PROVE  \A v \in Workers : SameWorker(v) \/ pc'[v] \notin Begun \cup {"return"}
      BY <3>1 DEF Start, Goto, SameWorker, Begun, IInv, PipelineTypeOK
    <3>2. ASSUME NEW w \in Workers, Leave(w)
          PROVE  \A v \in Workers : SameWorker(v) \/ pc'[v] \notin Begun \cup {"return"}
      BY <3>2 DEF Leave, Goto, SameWorker, Begun, IInv, PipelineTypeOK
    <3>3. ASSUME (\E want \in BOOLEAN : SetEnabled(want)) \/ Tombstone \/ UNCHANGED pipelineVars
          PROVE  \A v \in Workers : SameWorker(v)
      <4>1. UNCHANGED localVars  BY <3>3 DEF SetEnabled, Tombstone, pipelineVars
      <4> QED  BY <4>1 DEF localVars, SameWorker
    <3> QED  BY <1>2, <3>1, <3>2, <3>3 DEF PipelineNext, Return, Crash
  <2>2. ASSUME NEW w \in Workers, pc'[w] \in Begun \cup {"return"}
        PROVE  Known(job[w])'
    <3>1. pc[w] \in Begun \cup {"return"} /\ job'[w] = job[w]
      BY <2>1, <2>2 DEF SameWorker
    <3>2. job[w] \in Jobs /\ Known(job[w])
      BY <3>1 DEF IInv, PipelineTypeOK, Begun, ReturnsKnown
    <3> QED  BY <3>1, <3>2, KnownStays DEF Known
  <2> QED  BY <2>2 DEF ReturnsKnown
<1> QED  BY <1>1, <1>2

AckedKnown == \A s \in Indices : stream[s].state = "acked" => Known(stream[s].key)

(* Acks go to messages whose job is known.                                 *)
LEMMA ReceiptStep ==
  ASSUME SysInv, ReturnsKnown, AckedKnown, [SystemNext]_systemVars
  PROVE  ReturnsKnown' /\ AckedKnown'
<1>1. IInv /\ [PipelineNext]_pipelineVars /\ SysInv'
  BY SystemSteps, SysInvStep DEF SysInv
<1>2. ReturnsKnown'  BY <1>1, ReturnsKnownStep
<1>3. Keeps  BY SysInvStep
<1>4. ASSUME NEW s \in Indices', stream'[s].state = "acked"
      PROVE  Known(stream[s].key)'
  <2>1. CASE s \in Indices /\ stream[s].state = "acked"
    <3>1. Known(stream[s].key)  BY <2>1 DEF AckedKnown
    <3>2. stream[s].key \in Jobs  BY <2>1, StreamIndices DEF SysInv, Bus!Message
    <3>3. stream'[s].key = stream[s].key  BY <1>3, <2>1 DEF Keeps
    <3> QED  BY <1>1, <3>1, <3>2, <3>3, KnownStays DEF Known
  <2>2. CASE ~(s \in Indices /\ stream[s].state = "acked")
    <3> PICK w \in Workers : Return(w) /\ holding[w] \in Indices /\ AcksOnly({holding[w]})
      BY <1>4, <2>2, SysInvStep DEF AcksOnly
    <3>1. s = holding[w]  BY <1>4, <2>2 DEF AcksOnly
    <3>2. stream'[s].key = job[w]
      BY <1>3, <3>1, StreamIndices DEF Keeps, SysInv, Indices
    <3>3. job[w] \in Jobs /\ Known(job[w])
      BY <1>1 DEF Return, ReturnsKnown, IInv, PipelineTypeOK
    <3> QED  BY <1>1, <3>2, <3>3, KnownStays DEF Known
  <2> QED  BY <2>1, <2>2
<1> QED  BY <1>2, <1>4 DEF AckedKnown

(* AckedMeansAccounted: whatever fails, is disabled, expires or stops, an  *)
(* acked job is decided, in a worker's hands, in the log, or its worker    *)
(* was stopped.                                                            *)
THEOREM AckedMeansAccounted == SystemSafety => []AckedJobIsAccounted
<1>1. SystemInit => ReturnsKnown /\ AckedKnown
  <2> SUFFICES ASSUME SystemInit PROVE ReturnsKnown /\ AckedKnown  OBVIOUS
  <2>1. Indices = {}  BY DEF SystemInit, Bus!BusInit, Indices
  <2> QED  BY <2>1 DEF SystemInit, PipelineInit, ReturnsKnown, AckedKnown, Begun
<1>2. SysInv /\ ReturnsKnown /\ AckedKnown /\ [SystemNext]_systemVars
        => ReturnsKnown' /\ AckedKnown'
  BY ReceiptStep
<1>3. SysInv /\ AckedKnown /\ PendingRowsExplained => AckedJobIsAccounted
  <2> SUFFICES ASSUME SysInv, AckedKnown, PendingRowsExplained,
                      NEW s \in DOMAIN stream, stream[s].state = "acked"
               PROVE  AccountedFor(stream[s].key)
    BY DEF AckedJobIsAccounted
  <2>1. s \in Indices /\ stream[s].key \in Jobs  BY StreamIndices DEF SysInv, Bus!Message
  <2>2. Known(stream[s].key)  BY <2>1 DEF AckedKnown
  <2> QED
    BY <2>1, <2>2 DEF Known, AccountedFor, PendingRowsExplained, SysInv, IInv, PipelineTypeOK
<1> QED
  BY <1>1, <1>2, <1>3, SystemInvariant, SystemRunsPipeline, PendingIsExplained, PTL DEF SystemSafety
-----------------------------------------------------------------------------
(* The bounds of the bus: nothing but a publish lengthens the stream or    *)
(* adds a key to the window.                                               *)
BusBounded == Len(stream) <= MaxMessages /\ window \subseteq Jobs

LEMMA BusBoundedStep ==
  ASSUME SysInv, BusBounded, [SystemNext]_systemVars
  PROVE  BusBounded'
<1>1. stream' \in Seq(Bus!Message) /\ stream \in Seq(Bus!Message)
  BY SysInvStep DEF Keeps, SysInv
<1>2. ASSUME DOMAIN stream' = DOMAIN stream, window' \subseteq window PROVE BusBounded'
  <2>1. Len(stream') = Len(stream)  BY <1>1, <1>2
  <2> QED  BY <1>2, <2>1 DEF BusBounded
<1>3. ASSUME NEW j \in Jobs, Bus!Publish(j) PROVE BusBounded'
  <2>1. CASE UNCHANGED busVars  BY <1>2, <2>1 DEF busVars
  <2>2. CASE Bus!Store(j)
    <3>1. /\ Len(stream') = Len(stream) + 1 /\ Len(stream) < MaxMessages
          /\ window' = window \cup {j}
      BY <1>1, <2>2 DEF Bus!Store
    <3> QED  BY <1>1, <3>1, SystemAssumption DEF BusBounded
  <2> QED  BY <1>3, <2>1, <2>2 DEF Bus!Publish, Bus!busVars, busVars
<1>4. ASSUME NEW w \in Workers, Bus!Ack(w) \/ Bus!Abandon(w) PROVE BusBounded'
  BY <1>2, <1>4 DEF Bus!Ack, Bus!Abandon
<1>5. ASSUME NEW w \in Workers, NEW s \in DOMAIN stream, Bus!Deliver(w, s) PROVE BusBounded'
  BY <1>2, <1>5 DEF Bus!Deliver
<1>6. CASE ServerStep
  BY <1>2, <1>6 DEF ServerStep, Bus!WindowExpires, Bus!AckWaitExpires, Bus!AgeOut
<1>7. CASE UNCHANGED busVars
  BY <1>2, <1>7 DEF busVars
<1> QED
  BY <1>3, <1>4, <1>5, <1>6, <1>7
  DEF SystemNext, PullRequestEvent, AskForReview, HandleJob, Work, AckJob, WorkerStops, Operator,
      systemVars, busVars

(* SystemTyped: the composed system keeps its types, and a worker is busy  *)
(* exactly while its callback holds the message of its job.                *)
THEOREM SystemTyped == SystemSafety => []SystemTypeOK
<1>1. SystemInit => BusBounded
  BY SystemAssumption DEF SystemInit, Bus!BusInit, BusBounded
<1>2. SysInv /\ BusBounded /\ [SystemNext]_systemVars => BusBounded'
  BY BusBoundedStep
<1>3. SysInv /\ BusBounded => SystemTypeOK
  <2> SUFFICES ASSUME SysInv, BusBounded PROVE SystemTypeOK  OBVIOUS
  <2>1. Indices \subseteq 1..MaxMessages /\ Indices = DOMAIN stream
    BY StreamIndices, SystemAssumption DEF SysInv, BusBounded, Indices
  <2>2. holding \in [Workers -> 0..MaxMessages] /\ \A w \in Workers : holding[w] \in DOMAIN stream \cup {0}
    BY <2>1, SystemAssumption DEF SysInv
  <2>3. Bus!BusTypeOK
    BY <2>2 DEF SysInv, BusBounded, Bus!BusTypeOK, Bus!Seqs
  <2> QED  BY <2>3 DEF SysInv, IInv, SystemTypeOK
<1> QED  BY <1>1, <1>2, <1>3, SystemInvariant, PTL DEF SystemSafety

-----------------------------------------------------------------------------
(* From the webhook to the pull request: the composed system implements    *)
(* what the author of a pull request is promised, with no bus in sight.    *)
THEOREM SystemImplementsLedger == SystemSafety => ImplementsLedger
BY SystemRunsPipeline, LedgerImplemented, PTL

(* What was proved of the pipeline alone holds of it on the bus: no two    *)
(* workers process a job, a failing check is explained by its review, a    *)
(* row that stays pending by the log or a stop, a recorded cost was spent, *)
(* the daily cap is overshot by less than one run per worker, and a        *)
(* finished run stays as it is.                                            *)
THEOREM SystemKeepsPromises ==
  SystemSafety =>
    /\ [](OneWorkerPerJob /\ CheckMatchesReview /\ PendingRowsExplained)
    /\ [](RecordedCostIsReal /\ SpendOvershootBounded)
    /\ FinishedRunsAreFinal
BY SystemRunsPipeline, ClaimsExclude, ChecksMatchReviews, CostsAreReal, OvershootIsBounded,
   PendingIsExplained, FinishedForGood, PTL

(* The gateway and the workers use the bus as it is meant to be used, so   *)
(* that what was proved of the bus for any clients holds in the system.    *)
BusProofs == INSTANCE JobBusProofs WITH Keys <- Jobs

(* The two instances of the bus are one.                                   *)
LEMMA SameBus ==
  /\ Bus!BusInit => BusProofs!BusInit
  /\ [Bus!BusNext]_(Bus!busVars) => [BusProofs!BusNext]_(BusProofs!busVars)
  /\ BusProofs!BusInv => Bus!HoldersWithinDeliveries
<1>1. Bus!BusInit => BusProofs!BusInit  BY DEF Bus!BusInit, BusProofs!BusInit
<1>2. [Bus!BusNext]_(Bus!busVars) => [BusProofs!BusNext]_(BusProofs!busVars)
  BY DEF Bus!BusNext, Bus!busVars, Bus!Publish, Bus!Store, Bus!WindowExpires, Bus!Ack, Bus!Nak,
         Bus!Abandon, Bus!Deliver, Bus!AckWaitExpires, Bus!AgeOut, Bus!Seqs, Bus!Gone,
         BusProofs!BusNext, BusProofs!busVars, BusProofs!Publish, BusProofs!Store,
         BusProofs!WindowExpires, BusProofs!Ack, BusProofs!Nak, BusProofs!Abandon,
         BusProofs!Deliver, BusProofs!AckWaitExpires, BusProofs!AgeOut, BusProofs!Seqs, BusProofs!Gone
<1>3. BusProofs!BusInv => Bus!HoldersWithinDeliveries
  BY DEF BusProofs!BusInv, BusProofs!HoldersWithinDeliveries, BusProofs!Holders, BusProofs!Seqs,
         BusProofs!Cardinality, Bus!HoldersWithinDeliveries, Bus!Holders, Bus!Seqs, Bus!Cardinality
<1> QED  BY <1>1, <1>2, <1>3

(* The assumption of the bus.                                              *)
LEMMA BusAssumed == BusProofs!IsFiniteSet(Workers)
BY PipelineAssumption DEF IsFiniteSet, BusProofs!IsFiniteSet

(* Every step of the system is one of the bus.                             *)
LEMMA SystemBusSteps ==
  ASSUME [SystemNext]_systemVars
  PROVE  [Bus!BusNext]_(Bus!busVars)
<1> USE DEF Bus!BusNext, Bus!busVars, Bus!Seqs
<1>1. CASE \E j \in Jobs : PullRequestEvent(j) \/ AskForReview(j)
  BY <1>1 DEF PullRequestEvent, AskForReview
<1>2. CASE \E w \in Workers, s \in DOMAIN stream : HandleJob(w, s)
  BY <1>2 DEF HandleJob
<1>3. CASE \E w \in Workers : Work(w) \/ AckJob(w) \/ WorkerStops(w)
  BY <1>3 DEF Work, AckJob, WorkerStops, busVars
<1>4. CASE ServerStep  BY <1>4 DEF ServerStep
<1>5. CASE Operator \/ UNCHANGED systemVars
  BY <1>5 DEF Operator, systemVars, busVars
<1> QED  BY <1>1, <1>2, <1>3, <1>4, <1>5 DEF SystemNext

(* The queue of the system is a run of the bus.                            *)
LEMMA SystemUsesBus == SystemSafety => Bus!BusSafety
<1>1. SystemInit => Bus!BusInit  BY DEF SystemInit
<1>2. [SystemNext]_systemVars => [Bus!BusNext]_(Bus!busVars)  BY SystemBusSteps
<1> QED  BY <1>1, <1>2, PTL DEF SystemSafety, Bus!BusSafety

(* In the composed system, too, the callbacks running for a job never      *)
(* outnumber the deliveries counted for it, and an acked or expired job is *)
(* not brought back, whatever the workers do and however they stop.        *)
THEOREM SystemBusIsSafe == SystemSafety => []Bus!HoldersWithinDeliveries /\ Bus!NeverRevived
<1>1. Bus!BusInit => BusProofs!BusInv
  BY SameBus, BusAssumed, SystemAssumption, BusProofs!BusInvInit
<1>2. BusProofs!BusInv /\ [Bus!BusNext]_(Bus!busVars) => BusProofs!BusInv'
  BY SameBus, BusAssumed, SystemAssumption, BusProofs!BusInvStep
<1>3. BusProofs!BusInv => Bus!HoldersWithinDeliveries  BY SameBus
<1>4. BusProofs!BusInv /\ [Bus!BusNext]_(Bus!busVars) => [BusProofs!GoneKept]_(BusProofs!busVars)
  BY SameBus, BusAssumed, SystemAssumption, BusProofs!GoneStays
<1>5. [BusProofs!GoneKept]_(BusProofs!busVars) =>
        [\A s \in Bus!Seqs : stream[s].state \in Bus!Gone => stream'[s].state = stream[s].state]_(Bus!busVars)
  BY DEF BusProofs!GoneKept, BusProofs!busVars, BusProofs!Seqs, BusProofs!Gone,
         Bus!busVars, Bus!Seqs, Bus!Gone
<1> QED
  BY <1>1, <1>2, <1>3, <1>4, <1>5, SystemUsesBus, PTL DEF Bus!BusSafety, Bus!NeverRevived

-----------------------------------------------------------------------------
(* A row that is pending has its worker, where no worker stops, the        *)
(* database answers and the handler's time does not run out.               *)
PendingInHand == \A j \in Jobs : status[j] = "pending" => InHand(j)

LEMMA PendingStepOwn ==
  ASSUME Faults \cap {"store", "deadline"} = {}, IInv, NEW w \in Workers, Step(w)
  PROVE  /\ Running(w) => Running(w)' \/ status'[job[w]] # "pending"
         /\ status'[job[w]] = "pending" => Running(w)' \/ status[job[w]] = "pending"
<1>0. PipelineTypeOK /\ job[w] \in Jobs /\ pc[w] # "idle"
  BY StepFrame DEF IInv
<1> USE <1>0 DEF PipelineTypeOK, runVars, Goto, Running, Begun, FailOpen, Fails
<1>1. CASE CheckRepo(w)
  BY <1>1 DEF CheckRepo
<1>2. CASE Begin(w)
  BY <1>2 DEF Begin, InsertRun
<1>3. CASE Finish(w)
  BY <1>3 DEF Finish, FinishRow, Outcomes
<1>4. CASE CheckBudget(w) \/ FindBase(w) \/ FetchDiff(w) \/ Chat(w)
  BY <1>4 DEF CheckBudget, FindBase, FetchDiff, Chat, Answered, Unreadable, AttemptFails
<1>5. CASE \/ PostReview(w) \/ PostComments(w) \/ PostSummary(w) \/ SaveComments(w)
         \/ UpdateCheck(w) \/ PostNeutral(w) \/ PassCheck(w)
  BY <1>5 DEF PostReview, PostComments, PostSummary, SaveComments, UpdateCheck, PostNeutral, PassCheck
<1> QED  BY <1>1, <1>2, <1>3, <1>4, <1>5 DEF Step

LEMMA PendingStep ==
  ASSUME Faults \cap {"crash", "store", "deadline"} = {}, IInv, PendingInHand, [PipelineNext]_pipelineVars
  PROVE  PendingInHand'
<1>0. PipelineTypeOK /\ OneWorkerPerJob
  BY DEF IInv
<1>1. CASE \E w \in Workers : Step(w)
  <2> PICK w \in Workers : Step(w)  BY <1>1
  <2>1. /\ job[w] \in Jobs /\ job' = job
        /\ \A j \in Jobs \ {job[w]} : SameJob(j)
        /\ \A v \in Workers \ {w} : SameWorker(v)
    BY <1>0, StepFrame
  <2>2. /\ Running(w) => Running(w)' \/ status'[job[w]] # "pending"
        /\ status'[job[w]] = "pending" => Running(w)' \/ status[job[w]] = "pending"
    BY PendingStepOwn
  <2>3. ASSUME NEW j \in Jobs, status'[j] = "pending" PROVE \E v \in Workers : Running(v)' /\ job'[v] = j
    <3>1. CASE j = job[w] /\ Running(w)'
      BY <2>1, <3>1
    <3>2. CASE status[j] = "pending"
      <4>1. PICK v \in Workers : Running(v) /\ job[v] = j
        BY <3>2 DEF PendingInHand, InHand
      <4>2. CASE v = w
        BY <2>1, <2>2, <2>3, <4>1, <4>2
      <4>3. CASE v # w
        <5>1. Running(v)'
          BY <2>1, <4>1, <4>3 DEF SameWorker, Running
        <5> QED  BY <2>1, <4>1, <5>1
      <4> QED  BY <4>2, <4>3
    <3>3. j # job[w] => status[j] = "pending"
      BY <2>1, <2>3 DEF SameJob
    <3> QED  BY <2>2, <2>3, <3>1, <3>2, <3>3
  <2> QED  BY <2>3 DEF PendingInHand, InHand
<1>2. CASE ~ \E w \in Workers : Step(w)
  <2>1. \A j \in Jobs : SameJob(j)
    BY <1>0, <1>2, OtherFrame
  <2>2. ASSUME NEW v \in Workers, Running(v) PROVE Running(v)' /\ job'[v] = job[v]
    <3> USE <2>2 DEF PipelineTypeOK, Running, Begun, Goto
    <3>1. ASSUME NEW w \in Workers, NEW j \in Jobs, Start(w, j) PROVE Running(v)' /\ job'[v] = job[v]
      BY <1>0, <3>1 DEF Start
    <3>2. ASSUME NEW w \in Workers, Return(w) PROVE Running(v)' /\ job'[v] = job[v]
      BY <1>0, <3>2 DEF Return, Leave
    <3>3. CASE (\E want \in BOOLEAN : SetEnabled(want)) \/ Tombstone \/ UNCHANGED pipelineVars
      BY <3>3 DEF SetEnabled, Tombstone, pipelineVars, localVars
    <3> QED  BY <1>2, <3>1, <3>2, <3>3 DEF PipelineNext, Crash
  <2> QED  BY <2>1, <2>2 DEF PendingInHand, InHand, SameJob
<1> QED  BY <1>1, <1>2

(* NothingElseLosesJobs: as long as no worker is stopped, the database     *)
(* answers and the handler's ten minutes do not run out, a begun job is in *)
(* hand until it is decided, whatever the code host, the model and the bus *)
(* do and however often the repository is disabled.  The three conditions  *)
(* are the three ways of PendingRowsExplained to leave a row pending; the  *)
(* violation that MCSystemRestart finds is the first of them.              *)
THEOREM NothingElseLosesJobs ==
  Faults \cap {"crash", "store", "deadline"} = {} => (SystemSafety => []RestartLosesNoJob)
<1> SUFFICES ASSUME Faults \cap {"crash", "store", "deadline"} = {}
             PROVE  SystemSafety => []RestartLosesNoJob
  OBVIOUS
<1>1. PipelineInit => PendingInHand
  BY DEF PipelineInit, PendingInHand
<1>2. IInv /\ PendingInHand /\ [PipelineNext]_pipelineVars => PendingInHand'
  BY PendingStep
<1>3. PendingInHand => RestartLosesNoJob
  BY DEF PendingInHand, RestartLosesNoJob
<1> QED
  BY <1>1, <1>2, <1>3, PipelineInvariant, SystemRunsPipeline, PTL DEF PipelineSafety
=============================================================================
