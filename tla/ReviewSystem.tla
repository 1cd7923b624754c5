---------------------------- MODULE ReviewSystem ----------------------------
(***************************************************************************)
(* Reviews from webhook to pull request: the gateway publishes review      *)
(* jobs (cmd/webhook-gateway), the bus of JobBus delivers them, and the    *)
(* workers of ReviewPipeline process and ack them (cmd/review-worker).     *)
(* The key of a message is the idempotency key of its job, which is also   *)
(* the key of the job's row in pr_runs.                                    *)
(***************************************************************************)
EXTENDS ReviewPipeline, Sequences

CONSTANTS MaxDeliver, MaxMessages  \* as in JobBus

ASSUME SystemAssumption ==
  /\ MaxDeliver \in Nat \ {0}
  /\ MaxMessages \in Nat \ {0}

VARIABLES
  stream, window, holding  \* as in JobBus

Bus == INSTANCE JobBus WITH Keys <- Jobs

busVars == <<stream, window, holding>>
systemVars == <<busVars, pipelineVars>>

SystemTypeOK ==
  /\ Bus!BusTypeOK
  /\ PipelineTypeOK
  /\ \A w \in Workers : holding[w] # 0 <=> pc[w] # "idle"
  /\ \A w \in Workers : holding[w] # 0 => stream[holding[w]].key = job[w]

SystemInit ==
  /\ Bus!BusInit
  /\ PipelineInit

-----------------------------------------------------------------------------
(* A pull_request event with action opened, synchronize or reopened.       *)
PullRequestEvent(j) ==
  /\ Bus!Publish(j)
  /\ UNCHANGED pipelineVars

(* A comment "/review", or the retry button of the admin UI: the same job  *)
(* with another trigger, hence with the same key.                          *)
AskForReview(j) ==
  /\ Bus!Publish(j)
  /\ UNCHANGED pipelineVars

(* The callback of Consume runs Handle.                                    *)
HandleJob(w, s) ==
  /\ Bus!Deliver(w, s)
  /\ Start(w, stream[s].key)

Work(w) == Step(w) /\ UNCHANGED busVars

(* Mutant: the job may be acked before its run has begun.                  *)
AckEarly(w) ==
  /\ pc[w] \in {"return", "begin"}
  /\ Bus!Ack(w)
  /\ Leave(w)
  /\ UNCHANGED histVars

(* Mutant: a failed job is left to AckWait. *)
AckOrAbandon(w) ==
  /\ Return(w)
  /\ Bus!Ack(w) \/ Bus!Abandon(w)

(* Handle acks at its end; an ack that does not reach the server is an     *)
(* error nobody reads, and the message is left to AckWait.                 *)
AckJob(w) ==
  /\ Return(w)
  /\ Bus!Ack(w) \/ ("bus" \in Faults /\ Bus!Abandon(w))

(* Mutant: the bus is not told that the callback is gone.                  *)
WorkerHangs(w) ==
  /\ Crash(w)
  /\ UNCHANGED busVars

WorkerStops(w) ==
  /\ Crash(w)
  /\ Bus!Abandon(w)

ServerStep ==
  /\ \/ \E j \in Jobs : Bus!WindowExpires(j)
     \/ \E s \in DOMAIN stream : Bus!AckWaitExpires(s) \/ Bus!AgeOut(s)
  /\ UNCHANGED pipelineVars

Operator ==
  /\ (\E want \in BOOLEAN : SetEnabled(want)) \/ Tombstone
  /\ UNCHANGED busVars

SystemNext ==
  \/ \E j \in Jobs : PullRequestEvent(j) \/ AskForReview(j)
  \/ \E w \in Workers, s \in DOMAIN stream : HandleJob(w, s)
  \/ \E w \in Workers : Work(w) \/ AckJob(w) \/ WorkerStops(w)
  \/ ServerStep
  \/ Operator

(* The client library hands over what it can, a running handler goes on,   *)
(* and AckWait passes.  Nothing makes a window or a message expire, a      *)
(* worker stop, or an event arrive.                                        *)
SystemFairness ==
  /\ \A w \in Workers : WF_systemVars(Work(w) \/ AckJob(w))
  /\ \A s \in 1..MaxMessages :
       /\ WF_systemVars(s \in DOMAIN stream /\ \E w \in Workers : HandleJob(w, s))
       /\ WF_systemVars(s \in DOMAIN stream /\ Bus!AckWaitExpires(s) /\ UNCHANGED pipelineVars)

SystemSafety == SystemInit /\ [][SystemNext]_systemVars
SystemSpec == SystemSafety /\ SystemFairness

-----------------------------------------------------------------------------
Copies(j) == {s \in DOMAIN stream : stream[s].key = j}

(* What has become of job j is known: it is decided, or some process works *)
(* on it, or the log or a stop of its worker tells why not.                *)
AccountedFor(j) ==
  status[j] \in Terminal \/ InHand(j) \/ j \in logged \/ j \in stopped

(* An ack is a receipt.  Handle acks whatever became of the job, a message *)
(* acked is never delivered again, and yet no job is lost without a trace: *)
(* it is decided, or in the hands of the worker whose redelivered copy was *)
(* taken for a duplicate, or the log has a line (a disabled repository, a  *)
(* database error, the handler's deadline), or its worker was stopped.     *)
AckedJobIsAccounted ==
  \A s \in DOMAIN stream : stream[s].state = "acked" => AccountedFor(stream[s].key)

(* Fail open, but do fail.  If no worker is stopped, every published job   *)
(* is decided in the end, whatever the code host, the model and the clock  *)
(* of the handler do, and however often AckWait hands the job to a second  *)
(* worker.  The exceptions are a message that waited MaxAge, and a job     *)
(* that a handler gave up with a line in the log: the repository was       *)
(* disabled, or Begin or Finish failed.                                    *)
EveryJobIsDecided ==
  \A j \in Jobs :
    (Copies(j) # {}) ~>
      \/ status[j] \in Terminal
      \/ j \in logged
      \/ \E s \in Copies(j) : stream[s].state = "expired"

(* No job wears out its deliveries.  Whatever fails, the handler's own     *)
(* deadline included, and however often the repository is disabled         *)
(* meanwhile, the handler comes to an end and acks, so unless workers are  *)
(* stopped or acks are lost every message leaves the stream: none stays    *)
(* behind with MaxDeliver reached.                                         *)
NoJobWearsOut ==
  \A s \in 1..MaxMessages :
    (s \in DOMAIN stream) ~> (s \in DOMAIN stream /\ stream[s].state \in Bus!Gone)

(* No webhook event is lost during a planned worker restart                *)
(* (docs/design.md, section 14): the message of a job that was begun and   *)
(* not finished, and that no worker has in hand, is not acked.  But the    *)
(* redelivery finds the row of the stopped worker, takes the job for a     *)
(* duplicate and acks it.                                                  *)
RestartLosesNoJob ==
  \A j \in Jobs :
    status[j] = "pending" => InHand(j) \/ \E s \in Copies(j) : stream[s].state # "acked"
=============================================================================
