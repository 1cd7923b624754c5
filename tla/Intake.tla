-------------------------------- MODULE Intake --------------------------------
(***************************************************************************)
(* The webhook gateway from the HTTP request to the answer                 *)
(* (cmd/webhook-gateway, and VerifyWebhook of the two code hosts): verify, *)
(* register the repository, publish a job, answer.  Requests are handled   *)
(* concurrently; a host may deliver an event again.                        *)
(***************************************************************************)
EXTENDS Naturals, FiniteSets

CONSTANTS
  Requests,    \* requests in flight
  HookRepos,   \* owner/name pairs; the two hosts may have one of the same name each
  HookKinds,   \* kinds of events that occur
  Configured,  \* hosts whose adapter is configured
  MaxHookJobs  \* bound: with this many different jobs published no more requests come

HookHosts == {"github", "bitbucket"}

(* What an event is, as far as the gateway looks: an action that is        *)
(* reviewed or not, a draft, a push to the default branch or to another, a *)
(* comment by its command, a reply, a bot's.                               *)
AllKinds == {"opened", "draft", "closed", "push", "push other", "/review", "/context", "/ask", "reply",
             "remark", "bot remark", "reaction", "ping", "unsupported", "forged"}

ASSUME IntakeAssumption ==
  /\ HookKinds \subseteq AllKinds /\ HookKinds # {} /\ HookRepos # {}
  /\ Configured \subseteq HookHosts
  /\ MaxHookJobs \in Nat

VARIABLES
  event,       \* event[q]: the event request q carries
  stage,       \* stage[q]: "free", what q does next, or the status it is answered with
  registered,  \* repos: repository -> host, a partial function
  jobs         \* jobs published, <<queue, event>>

intakeVars == <<event, stage, registered, jobs>>

-----------------------------------------------------------------------------
HookEvents == [host: HookHosts, repo: HookRepos, kind: HookKinds]

Statuses == {"202", "401", "404", "500"}

IntakeTypeOK ==
  /\ event \in [Requests -> HookEvents]
  /\ stage \in [Requests -> {"free", "verify", "ensure", "publish", "append"} \cup Statuses]
  /\ DOMAIN registered \subseteq HookRepos /\ \A r \in DOMAIN registered : registered[r] \in HookHosts
  /\ jobs \subseteq {"review", "index", "feedback"} \X HookEvents
  /\ \A job \in jobs : job[2].host \in Configured

IntakeInit ==
  /\ event = [q \in Requests |-> CHOOSE e \in HookEvents : TRUE]
  /\ stage = [q \in Requests |-> "free"]
  /\ registered = <<>> /\ jobs = {}

StageTo(q, place) == stage' = [stage EXCEPT ![q] = place]

Receive(q, e) ==
  /\ stage[q] \in {"free"} \cup Statuses
  /\ Cardinality(jobs) < MaxHookJobs
  /\ event' = [event EXCEPT ![q] = e]
  /\ StageTo(q, "verify")
  /\ UNCHANGED <<registered, jobs>>

(* VerifyWebhook: the signature, then parseEvent.  GitHub knows pings and  *)
(* reactions; Bitbucket has neither, knows no drafts, and takes a push     *)
(* without a change of the default branch for an error.                    *)
Refused(e) ==
  \/ e.kind \in {"forged", "unsupported"}
  \/ e.host = "bitbucket" /\ e.kind \in {"ping", "reaction", "push other"}

(* The queue an event's job goes to; "" when there is nothing to publish.  *)
QueueOf(e) ==
  CASE e.kind \in {"opened", "/review"} \/ (e.kind = "draft" /\ e.host = "bitbucket") -> "review"
    [] e.kind = "push" -> "index"
    [] e.kind \in {"reply", "reaction"} -> "feedback"
    [] OTHER -> ""

(* A pull request or a push comes with the repository's description; a     *)
(* comment or a reaction does not, and registers nothing.                  *)
Describes(e) == e.kind \in {"opened", "draft", "push"}

Verify(q) ==
  LET e == event[q]
  IN  /\ stage[q] = "verify"
      /\ StageTo(q, IF e.host \notin Configured THEN "404"
                    ELSE IF Refused(e) THEN "401"
                    ELSE IF e.kind = "/context" THEN "append"
                    ELSE IF QueueOf(e) = "" THEN "202"
                    ELSE IF Describes(e) THEN "ensure" ELSE "publish")
      /\ UNCHANGED <<event, registered, jobs>>

(* EnsureExists: one row per owner and name, whose host is the last to say.*)
EnsureRepo(q) ==
  /\ stage[q] = "ensure"
  /\ \/ /\ registered' = [r \in DOMAIN registered \cup {event[q].repo} |->
                            IF r = event[q].repo THEN event[q].host ELSE registered[r]]
        /\ StageTo(q, "publish")
     \/ StageTo(q, "500") /\ UNCHANGED registered
  /\ UNCHANGED <<event, jobs>>

(* Mutant: an error of the bus is logged only.                             *)
PublishLogged(q) ==
  /\ stage[q] = "publish"
  /\ jobs' = jobs \cup {<<QueueOf(event[q]), event[q]>>} \/ UNCHANGED jobs
  /\ StageTo(q, "202")
  /\ UNCHANGED <<event, registered>>

(* The bus may have stored a job whose publish ends in an error.           *)
PublishJob(q) ==
  /\ stage[q] = "publish"
  /\ \/ jobs' = jobs \cup {<<QueueOf(event[q]), event[q]>>} /\ StageTo(q, "202")
     \/ StageTo(q, "500") /\ (jobs' = jobs \cup {<<QueueOf(event[q]), event[q]>>} \/ UNCHANGED jobs)
  /\ UNCHANGED <<event, registered>>

(* handleContextCommand; the note itself is in PrContext.                  *)
AppendContext(q) ==
  /\ stage[q] = "append"
  /\ \E status \in {"202", "500"} : StageTo(q, status)
  /\ UNCHANGED <<event, registered, jobs>>

IntakeNext ==
  \E q \in Requests :
    \/ \E e \in HookEvents : Receive(q, e)
    \/ Verify(q) \/ EnsureRepo(q) \/ PublishJob(q) \/ AppendContext(q)

IntakeSpec == IntakeInit /\ [][IntakeNext]_intakeVars

-----------------------------------------------------------------------------
(* A host that is told 202 never delivers again: by then the event's job is*)
(* on its queue and, where the event describes its repository, the row its *)
(* handler needs is there, whatever failed for the requests handled at the *)
(* same time.                                                              *)
AcceptedIsPublished ==
  \A q \in Requests :
    stage[q] = "202" /\ QueueOf(event[q]) # "" =>
      /\ <<QueueOf(event[q]), event[q]>> \in jobs
      /\ Describes(event[q]) => event[q].repo \in DOMAIN registered
=============================================================================
