--------------------------- MODULE ReviewPipeline ---------------------------
(***************************************************************************)
(* The review pipeline (internal/core/pipelines/review/pipeline.go) run by *)
(* several worker processes over one pr_runs table and one code host, for  *)
(* the pull requests of one repository on one budget day.                  *)
(*                                                                         *)
(* A job may be handed to any idle worker at any time, any number of       *)
(* times: this is what a bus with redelivery can do to the pipeline, and   *)
(* ReviewSystem shows that the real bus does no more.  Every call the      *)
(* pipeline makes to the store, the code host or the model is a step of    *)
(* its own, may fail if Faults says so, and a failed call may or may not   *)
(* have had its effect.  A worker may die between any two calls, and the   *)
(* ten minutes the bus gives a handler may end in any of them: from then   *)
(* on every call of that worker fails, those that clean up included.       *)
(*                                                                         *)
(* Money is counted in model calls: a run that posts a review records the  *)
(* cost of one call.                                                       *)
(***************************************************************************)
EXTENDS Naturals, FiniteSets

CONSTANTS
  Workers,      \* review-worker processes
  PRs,          \* pull requests of the repository
  Heads,        \* head commits
  NoHead,       \* no base: the whole pull request is reviewed
  NoJob,        \* a worker that handles nothing
  RecentLimit,  \* how many runs GetRecent returns (20 in the code)
  DailyCap,     \* daily_usd_cap, in model calls
  MaxCalls,     \* attempts of ChatWithRetry, both tiers together (6 in the code)
  Providers,    \* code hosts the repository may be on
  Faults        \* what the environment may do: a subset of FaultKinds

FaultKinds == {"store", "vcs", "llm", "bus", "crash", "disable", "deadline"}

ASSUME PipelineAssumption ==
  /\ NoHead \notin Heads
  /\ NoJob \notin PRs \X Heads
  /\ RecentLimit \in Nat \ {0}
  /\ DailyCap \in Nat
  /\ MaxCalls \in Nat \ {0}
  /\ Providers \subseteq {"github", "bitbucket"}
  /\ Faults \subseteq FaultKinds
  /\ IsFiniteSet(Workers)

(* ReviewJob.IdempotencyKey: the trigger is not part of it. *)
Jobs == PRs \X Heads
PrOf(j) == j[1]
HeadOf(j) == j[2]

VARIABLES
  enabled,   \* repos.enabled
  tombstone, \* the admin UI has disabled the repository and has yet to clear its data
  provider,  \* the code host of the repository; it never changes
  status,    \* status[j]: pr_runs.status of the row with key j, "absent" if none
  cost,      \* cost[j]: pr_runs.cost_usd of that row
  rank,      \* rank[j]: place of the row in started_at order, from 1; 0 if none
  since,     \* history: since[j] is the base of the diff the finished run of j covers
  reviews,   \* reviews[j]: how often findings were sent to the code host for head j
  neutrals,  \* neutrals[j]: neutral reviews ("the check passes by policy") posted
  found,     \* found[j]: the worst of the inline comments that are up for j
  headline,  \* headline[j]: what the summary of the posted review of j says
  check,     \* check[j]: conclusion of the check run code-review-bot/review of head j
  saved,     \* jobs whose bot comments are in review_comments
  answers,   \* answers[j]: calls of the model that were paid for j
  logged,    \* history: jobs a handler gave up with a line in the log
  stopped,   \* history: jobs of workers that were stopped while they ran them
  pc, job, base, verdict, outcome,  \* each worker's place in process and its locals
  tries,     \* tries[w]: attempts w has made in its call of ChatWithRetry
  late       \* workers whose handler context has expired

repoVars == <<enabled, tombstone, provider>>
runVars == <<status, cost, rank, since>>
hostVars == <<reviews, neutrals, found, headline, check>>
bookVars == <<saved, answers>>
histVars == <<logged, stopped>>
localVars == <<pc, job, base, verdict, outcome, tries, late>>
pipelineVars == <<repoVars, runVars, hostVars, bookVars, histVars, localVars>>

-----------------------------------------------------------------------------
Terminal == {"posted", "failed-open", "budget-exceeded"}
Verdicts == {"silent", "nits", "blocker"}   \* no comment, harmless ones, a blocking one
Outcomes == {"none", "reviewed", "unchanged", "failed-open", "budget-exceeded"}

(* Where a worker may be while its run is pending and it is the one that    *)
(* began it, in the order of process.                                       *)
Begun == {"check_budget", "find_base", "fetch_diff", "chat", "post_review", "post_summary",
          "save_comments", "update_check", "post_neutral", "pass_check", "finish"}
Places == {"idle", "check_repo", "begin", "return"} \cup Begun

PipelineTypeOK ==
  /\ enabled \in BOOLEAN
  /\ tombstone \in BOOLEAN
  /\ provider \in Providers
  /\ status \in [Jobs -> {"absent", "pending"} \cup Terminal]
  /\ cost \in [Jobs -> {0, 1}]
  /\ rank \in [Jobs -> Nat]
  /\ since \in [Jobs -> Heads \cup {NoHead}]
  /\ reviews \in [Jobs -> Nat]
  /\ neutrals \in [Jobs -> Nat]
  /\ found \in [Jobs -> {"none"} \cup Verdicts]
  /\ headline \in [Jobs -> {"none"} \cup Verdicts]
  /\ check \in [Jobs -> {"none", "success", "failure"}]
  /\ saved \subseteq Jobs
  /\ answers \in [Jobs -> Nat]
  /\ logged \subseteq Jobs
  /\ stopped \subseteq Jobs
  /\ pc \in [Workers -> Places]
  /\ job \in [Workers -> Jobs \cup {NoJob}]
  /\ \A w \in Workers : pc[w] # "idle" => job[w] \in Jobs
  /\ base \in [Workers -> Heads \cup {NoHead}]
  /\ verdict \in [Workers -> {"none"} \cup Verdicts]
  /\ outcome \in [Workers -> Outcomes]
  /\ tries \in [Workers -> Nat]
  /\ late \subseteq Workers

PipelineInit ==
  /\ enabled = TRUE
  /\ tombstone = FALSE
  /\ provider \in Providers
  /\ status = [j \in Jobs |-> "absent"]
  /\ cost = [j \in Jobs |-> 0]
  /\ rank = [j \in Jobs |-> 0]
  /\ since = [j \in Jobs |-> NoHead]
  /\ reviews = [j \in Jobs |-> 0]
  /\ neutrals = [j \in Jobs |-> 0]
  /\ found = [j \in Jobs |-> "none"]
  /\ headline = [j \in Jobs |-> "none"]
  /\ check = [j \in Jobs |-> "none"]
  /\ saved = {}
  /\ answers = [j \in Jobs |-> 0]
  /\ logged = {}
  /\ stopped = {}
  /\ pc = [w \in Workers |-> "idle"]
  /\ job = [w \in Workers |-> NoJob]
  /\ base = [w \in Workers |-> NoHead]
  /\ verdict = [w \in Workers |-> "none"]
  /\ outcome = [w \in Workers |-> "none"]
  /\ tries = [w \in Workers |-> 0]
  /\ late = {}

-----------------------------------------------------------------------------
Running(w) == pc[w] \in Begun

Goto(w, place) == pc' = [pc EXCEPT ![w] = place]

(* A call returns without an error, which it only does before the deadline *)
(* of the handler's context.                                               *)
InTime(w) == w \notin late /\ UNCHANGED late

(* A call fails: the callee's fault, or the context's, which expires during*)
(* the call or had expired before it.                                      *)
Fails(w, kind) ==
  \/ kind \in Faults /\ UNCHANGED late
  \/ "deadline" \in Faults /\ late' = late \cup {w}

(* The only trace of a job that is given up.                               *)
Log(w) == logged' = logged \cup {job[w]} /\ UNCHANGED stopped

(* failOpen and its two siblings: from here on only the outcome differs.   *)
FailOpen(w) ==
  /\ outcome' = [outcome EXCEPT ![w] = "failed-open"]
  /\ Goto(w, "post_neutral")

(* TodaySpend: the sum of cost_usd over today's runs.                      *)
Spend == Cardinality({j \in Jobs : cost[j] = 1})

(* Mutant: off by one. *)
CapPassed == DailyCap = 0 \/ Spend > DailyCap

(* ExceedsDailyCap; a cap of zero switches the bot off.                    *)
CapReached == DailyCap = 0 \/ Spend >= DailyCap

(* GetRecent: the latest RecentLimit runs of the pull request.  Rows are   *)
(* ranked in the order of their inserts, which is the order of started_at  *)
(* up to the delay between reading the clock and the insert.               *)
Recent(pr) ==
  {j \in Jobs :
     /\ PrOf(j) = pr
     /\ status[j] # "absent"
     /\ Cardinality({i \in Jobs : PrOf(i) = pr /\ rank[i] > rank[j]}) < RecentLimit}

(* Mutant: a run that is still pending, or that failed open, serves as a   *)
(* base too.                                                               *)
Attempted(j) == {i \in Recent(PrOf(j)) : HeadOf(i) # HeadOf(j)}

(* findPreviousReviewedHead takes the latest of the runs that were posted, *)
(* for another head.                                                       *)
Reviewed(j) == {i \in Recent(PrOf(j)) : status[i] = "posted" /\ HeadOf(i) # HeadOf(j)}

LatestReviewed(j) == {i \in Reviewed(j) : \A h \in Reviewed(j) : rank[h] <= rank[i]}

-----------------------------------------------------------------------------
(* The bus calls Handle with job j.                                        *)
Start(w, j) ==
  /\ pc[w] = "idle"
  /\ Goto(w, "check_repo")
  /\ job' = [job EXCEPT ![w] = j]
  /\ UNCHANGED <<repoVars, runVars, hostVars, bookVars, histVars, base, verdict, outcome, tries,
                 late>>

(* A disabled repository is skipped; an unreadable row counts as enabled.  *)
CheckRepo(w) ==
  /\ pc[w] = "check_repo"
  /\ \/ /\ (InTime(w) /\ enabled) \/ Fails(w, "store")
        /\ Goto(w, "begin")
        /\ UNCHANGED histVars
     \/ /\ InTime(w) /\ ~enabled
        /\ Goto(w, "return")
        /\ Log(w)
  /\ UNCHANGED <<repoVars, runVars, hostVars, bookVars, job, base, verdict, outcome, tries>>

(* Mutant: ON CONFLICT DO UPDATE instead of DO NOTHING. *)
InsertRunAgain(j) ==
  /\ status' = [status EXCEPT ![j] = "pending"]
  /\ rank' = [rank EXCEPT ![j] = Cardinality({i \in Jobs : status[i] # "absent"}) + 1]
  /\ UNCHANGED <<cost, since>>

InsertRun(j) ==
  /\ status[j] = "absent"
  /\ status' = [status EXCEPT ![j] = "pending"]
  /\ rank' = [rank EXCEPT ![j] = Cardinality({i \in Jobs : status[i] # "absent"}) + 1]
  /\ UNCHANGED <<cost, since>>

(* PrRuns.Begin: insert, or find the row that is already there.  The job   *)
(* of a conflict, or of an error, is done and will be acked.               *)
Begin(w) ==
  /\ pc[w] = "begin"
  /\ \/ /\ InTime(w)
        /\ InsertRun(job[w])
        /\ Goto(w, "check_budget")
        /\ UNCHANGED histVars
     \/ /\ InTime(w)
        /\ status[job[w]] # "absent"
        /\ Goto(w, "return")
        /\ UNCHANGED <<runVars, histVars>>
     \/ /\ Fails(w, "store")
        /\ (w \notin late /\ InsertRun(job[w])) \/ UNCHANGED runVars
        /\ Goto(w, "return")
        /\ Log(w)
  /\ UNCHANGED <<repoVars, hostVars, bookVars, job, base, verdict, outcome, tries>>

(* GetEffective and TodaySpend.                                            *)
CheckBudget(w) ==
  /\ pc[w] = "check_budget"
  /\ \/ /\ InTime(w) /\ CapReached
        /\ outcome' = [outcome EXCEPT ![w] = "budget-exceeded"]
        /\ Goto(w, "post_neutral")
     \/ /\ InTime(w) /\ ~CapReached
        /\ Goto(w, "find_base")
        /\ UNCHANGED outcome
     \/ /\ Fails(w, "store")
        /\ FailOpen(w)
  /\ UNCHANGED <<repoVars, runVars, hostVars, bookVars, histVars, job, base, verdict, tries>>

(* The head the diff starts from.  If there is none, or GetRecent fails,   *)
(* the base stays empty.                                                   *)
FindBase(w) ==
  /\ pc[w] = "find_base"
  /\ \/ /\ InTime(w)
        /\ \E i \in LatestReviewed(job[w]) : base' = [base EXCEPT ![w] = HeadOf(i)]
     \/ /\ (InTime(w) /\ Reviewed(job[w]) = {}) \/ Fails(w, "store")
        /\ UNCHANGED base
  /\ Goto(w, "fetch_diff")
  /\ UNCHANGED <<repoVars, runVars, hostVars, bookVars, histVars, job, verdict, outcome, tries>>

(* The diff against the base, or the whole pull request's; an empty        *)
(* difference to a reviewed head goes to postNoChanges.                    *)
FetchDiff(w) ==
  /\ pc[w] = "fetch_diff"
  /\ \/ /\ InTime(w)
        /\ Goto(w, "chat")
        /\ UNCHANGED outcome
     \/ /\ InTime(w) /\ base[w] # NoHead
        /\ outcome' = [outcome EXCEPT ![w] = "unchanged"]
        /\ Goto(w, "pass_check")
     \/ /\ Fails(w, "vcs")
        /\ FailOpen(w)
  /\ UNCHANGED <<repoVars, runVars, hostVars, bookVars, histVars, job, base, verdict, tries>>

Paid(w) == answers' = [answers EXCEPT ![job[w]] = @ + 1]

(* The model answers, and ParseOutput reads a verdict in it.               *)
Answered(w) ==
  /\ InTime(w)
  /\ Paid(w)
  /\ \E v \in Verdicts : verdict' = [verdict EXCEPT ![w] = v]
  /\ tries' = [tries EXCEPT ![w] = 0]
  /\ Goto(w, "post_review")
  /\ UNCHANGED outcome

(* The model answers what cannot be parsed: paid, and not asked again.     *)
Unreadable(w) ==
  /\ "llm" \in Faults
  /\ InTime(w)
  /\ Paid(w)
  /\ tries' = [tries EXCEPT ![w] = 0]
  /\ FailOpen(w)
  /\ UNCHANGED verdict

(* An attempt fails, whether it was paid (it timed out here, or came back  *)
(* without choices) or not.  The next attempt follows, on the fallback     *)
(* model when those of the primary are used up; after the last, or when    *)
(* the context has expired, ChatWithRetry returns the error.               *)
AttemptFails(w) ==
  /\ Fails(w, "llm")
  /\ (w \notin late /\ Paid(w)) \/ UNCHANGED answers
  /\ \/ /\ tries[w] + 1 < MaxCalls /\ w \notin late'
        /\ tries' = [tries EXCEPT ![w] = @ + 1]
        /\ UNCHANGED <<pc, outcome>>
     \/ /\ tries[w] + 1 = MaxCalls \/ w \in late'
        /\ tries' = [tries EXCEPT ![w] = 0]
        /\ FailOpen(w)
  /\ UNCHANGED verdict

(* One attempt of ChatWithRetry, and what follows from it.                 *)
Chat(w) ==
  /\ pc[w] = "chat"
  /\ Answered(w) \/ Unreadable(w) \/ AttemptFails(w)
  /\ UNCHANGED <<repoVars, runVars, hostVars, saved, histVars, job, base>>

(* Mutant: a comment whose line is not in the diff is dropped after the    *)
(* verdict was taken, not before.                                          *)
ReviewTrimmed(w) ==
  /\ reviews' = [reviews EXCEPT ![job[w]] = @ + 1]
  /\ \E v \in {verdict[w], "nits"} :
       /\ found' = [found EXCEPT ![job[w]] = v]
       /\ headline' = [headline EXCEPT ![job[w]] = v]

ReviewAppears(w) ==
  /\ reviews' = [reviews EXCEPT ![job[w]] = @ + 1]
  /\ found' = [found EXCEPT ![job[w]] = verdict[w]]
  /\ headline' = [headline EXCEPT ![job[w]] = verdict[w]]

(* GitHub takes the summary and all comments in one call.                  *)
PostReview(w) ==
  /\ pc[w] = "post_review"
  /\ provider = "github"
  /\ \/ /\ InTime(w)
        /\ ReviewAppears(w)
        /\ Goto(w, "save_comments")
        /\ UNCHANGED outcome
     \/ /\ Fails(w, "vcs")
        /\ (w \notin late /\ ReviewAppears(w)) \/ UNCHANGED <<reviews, found, headline>>
        /\ FailOpen(w)
  /\ UNCHANGED <<repoVars, runVars, neutrals, check, bookVars, histVars, job, base, verdict,
                 tries>>

(* Bitbucket takes one call per comment.  So far some of them are up; a    *)
(* failed call is passed over.                                             *)
PostComments(w) ==
  /\ pc[w] = "post_review"
  /\ provider = "bitbucket"
  /\ InTime(w)
  /\ reviews' = [reviews EXCEPT ![job[w]] = @ + 1]
  /\ \E v \in {"silent", verdict[w]} \cup (IF verdict[w] = "blocker" THEN {"nits"} ELSE {}) :
       found' = [found EXCEPT ![job[w]] = v]
  /\ Goto(w, "post_summary")
  /\ UNCHANGED <<repoVars, runVars, neutrals, headline, check, bookVars, histVars, job, base,
                 verdict, outcome, tries>>

RestAppears(w) == found' = [found EXCEPT ![job[w]] = verdict[w]]

(* The rest of the comments, unless their calls fail too, and the summary, *)
(* whose failure alone is PostReview's.                                    *)
PostSummary(w) ==
  /\ pc[w] = "post_summary"
  /\ \/ /\ InTime(w)
        /\ RestAppears(w) \/ ("vcs" \in Faults /\ UNCHANGED found)
        /\ headline' = [headline EXCEPT ![job[w]] = verdict[w]]
        /\ Goto(w, "save_comments")
        /\ UNCHANGED outcome
     \/ /\ Fails(w, "vcs")
        /\ \/ /\ w \notin late
              /\ RestAppears(w) \/ UNCHANGED found
              /\ headline' \in {headline, [headline EXCEPT ![job[w]] = verdict[w]]}
           \/ UNCHANGED <<found, headline>>
        /\ FailOpen(w)
  /\ UNCHANGED <<repoVars, runVars, reviews, neutrals, check, bookVars, histVars, job, base,
                 verdict, tries>>

(* The comments of the review are stored; an error is logged only.         *)
SaveComments(w) ==
  /\ pc[w] = "save_comments"
  /\ \/ /\ InTime(w)
        /\ saved' = IF verdict[w] = "silent" THEN saved ELSE saved \cup {job[w]}
     \/ /\ Fails(w, "store")
        /\ UNCHANGED saved
  /\ Goto(w, "update_check")
  /\ UNCHANGED <<repoVars, runVars, hostVars, answers, histVars, job, base, verdict, outcome,
                 tries>>

Concludes(w, conclusion) == check' = [check EXCEPT ![job[w]] = conclusion]

UpdateCheck(w) ==
  LET conclusion == IF verdict[w] = "blocker" THEN "failure" ELSE "success"
  IN  /\ pc[w] = "update_check"
      /\ \/ /\ InTime(w)
            /\ Concludes(w, conclusion)
            /\ outcome' = [outcome EXCEPT ![w] = "reviewed"]
            /\ Goto(w, "finish")
         \/ /\ Fails(w, "vcs")
            /\ (w \notin late /\ Concludes(w, conclusion)) \/ UNCHANGED check
            /\ FailOpen(w)
      /\ UNCHANGED <<repoVars, runVars, reviews, neutrals, found, headline, bookVars, histVars,
                     job, base, verdict, tries>>

(* Mutant: an error in posting the neutral review ends failOpen.           *)
NeutralOrNothing(w) ==
  /\ pc[w] = "post_neutral"
  /\ \/ /\ InTime(w)
        /\ neutrals' = [neutrals EXCEPT ![job[w]] = @ + 1]
        /\ Goto(w, "pass_check")
     \/ /\ Fails(w, "vcs")
        /\ UNCHANGED neutrals
        /\ Goto(w, "return")
  /\ UNCHANGED <<repoVars, runVars, reviews, found, headline, check, bookVars, histVars, job,
                 base, verdict, outcome, tries>>

(* failOpen and postBudgetExceeded post a neutral review; an error is only *)
(* logged.                                                                 *)
PostNeutral(w) ==
  /\ pc[w] = "post_neutral"
  /\ \/ /\ InTime(w)
        /\ neutrals' = [neutrals EXCEPT ![job[w]] = @ + 1]
     \/ /\ Fails(w, "vcs")
        /\ UNCHANGED neutrals
  /\ Goto(w, "pass_check")
  /\ UNCHANGED <<repoVars, runVars, reviews, found, headline, check, bookVars, histVars, job,
                 base, verdict, outcome, tries>>

(* They and postNoChanges pass the check.                                  *)
PassCheck(w) ==
  /\ pc[w] = "pass_check"
  /\ \/ /\ InTime(w)
        /\ Concludes(w, "success")
     \/ /\ Fails(w, "vcs")
        /\ UNCHANGED check
  /\ Goto(w, "finish")
  /\ UNCHANGED <<repoVars, runVars, reviews, neutrals, found, headline, bookVars, histVars, job,
                 base, verdict, outcome, tries>>

(* Mutants: the outcome is stored as it is; every posted run is charged.   *)
FinishRowRaw(w) ==
  /\ status' = [status EXCEPT ![job[w]] = outcome[w]]
  /\ UNCHANGED <<cost, rank, since>>

FinishRowCharged(w) ==
  /\ status' = [status EXCEPT ![job[w]] =
                  IF outcome[w] \in {"reviewed", "unchanged"} THEN "posted" ELSE outcome[w]]
  /\ cost' = [cost EXCEPT ![job[w]] = IF outcome[w] \in {"reviewed", "unchanged"} THEN 1 ELSE 0]
  /\ UNCHANGED <<rank, since>>

(* The columns PrRuns.Finish writes.  Only a run that posted findings      *)
(* records its cost.                                                       *)
FinishRow(w) ==
  /\ status' = [status EXCEPT ![job[w]] =
                  IF outcome[w] \in {"reviewed", "unchanged"} THEN "posted" ELSE outcome[w]]
  /\ cost' = [cost EXCEPT ![job[w]] = IF outcome[w] = "reviewed" THEN 1 ELSE 0]
  /\ since' = [since EXCEPT ![job[w]] = base[w]]
  /\ UNCHANGED rank

Finish(w) ==
  /\ pc[w] = "finish"
  /\ \/ /\ InTime(w)
        /\ FinishRow(w)
        /\ UNCHANGED histVars
     \/ /\ Fails(w, "store")
        /\ (w \notin late /\ FinishRow(w)) \/ UNCHANGED runVars
        /\ Log(w)
  /\ Goto(w, "return")
  /\ UNCHANGED <<repoVars, hostVars, bookVars, job, base, verdict, outcome, tries>>

(* The handler's frame is gone, and its context with it.                   *)
Leave(w) ==
  /\ Goto(w, "idle")
  /\ job' = [job EXCEPT ![w] = NoJob]
  /\ base' = [base EXCEPT ![w] = NoHead]
  /\ verdict' = [verdict EXCEPT ![w] = "none"]
  /\ outcome' = [outcome EXCEPT ![w] = "none"]
  /\ tries' = [tries EXCEPT ![w] = 0]
  /\ late' = late \ {w}
  /\ UNCHANGED <<repoVars, runVars, hostVars, bookVars>>

(* Handle acks, whatever process returned.                                 *)
Return(w) ==
  /\ pc[w] = "return"
  /\ Leave(w)
  /\ UNCHANGED histVars

Step(w) ==
  \/ CheckRepo(w) \/ Begin(w) \/ CheckBudget(w) \/ FindBase(w) \/ FetchDiff(w)
  \/ Chat(w) \/ PostReview(w) \/ PostComments(w) \/ PostSummary(w) \/ SaveComments(w)
  \/ UpdateCheck(w) \/ PostNeutral(w) \/ PassCheck(w) \/ Finish(w)

(* The process dies, or is told to stop: main returns without waiting for  *)
(* the handler.                                                            *)
Crash(w) ==
  /\ "crash" \in Faults
  /\ pc[w] # "idle"
  /\ Leave(w)
  /\ stopped' = IF Running(w) THEN stopped \cup {job[w]} ELSE stopped
  /\ UNCHANGED logged

(* The operator's /repos toggle: the flag first, then, when disabling, the *)
(* repository's comments are deleted; a failure of that is logged only.    *)
SetEnabled(want) ==
  /\ "disable" \in Faults
  /\ enabled' = want
  /\ tombstone' = (tombstone \/ ~want)
  /\ UNCHANGED <<provider, runVars, hostVars, bookVars, histVars, localVars>>

Tombstone ==
  /\ tombstone
  /\ tombstone' = FALSE
  /\ saved' \in {{}, saved}
  /\ UNCHANGED <<enabled, provider, runVars, hostVars, answers, histVars, localVars>>

PipelineNext ==
  \/ \E w \in Workers, j \in Jobs : Start(w, j)
  \/ \E w \in Workers : Step(w) \/ Return(w) \/ Crash(w)
  \/ \E want \in BOOLEAN : SetEnabled(want)
  \/ Tombstone

PipelineSafety == PipelineInit /\ [][PipelineNext]_pipelineVars

-----------------------------------------------------------------------------
(* SAFETY *)

(* Some process works on job j past Begin.                                 *)
InHand(j) == \E w \in Workers : Running(w) /\ job[w] = j

(* One job is reviewed once.  Whatever the bus redelivers and whoever      *)
(* crashes, findings are sent to the code host at most once for a head,    *)
(* and so is a neutral review, and the model is paid for no more calls     *)
(* than one ChatWithRetry may make (paid attempts that failed included):   *)
(* the claim is the row that Begin inserts, and only the worker that       *)
(* inserted it goes on.                                                    *)
AtMostOnce ==
  \A j \in Jobs : reviews[j] <= 1 /\ neutrals[j] <= 1 /\ answers[j] <= MaxCalls

(* No two workers process the same job past Begin.                         *)
OneWorkerPerJob ==
  \A v, w \in Workers : Running(v) /\ Running(w) /\ job[v] = job[w] => v = w

(* A run stays "pending" for a reason.  If nobody works on it any more,    *)
(* the log has a line about it (Begin or Finish failed, the latter for     *)
(* instance because the handler's ten minutes were over), or its worker    *)
(* was stopped: no path through process, whatever fails on it, forgets to  *)
(* close the run.                                                          *)
PendingRowsExplained ==
  \A j \in Jobs : status[j] = "pending" => InHand(j) \/ j \in logged \/ j \in stopped

FailureIsExplained ==
  \A j \in Jobs :
    check[j] = "failure" =>
      /\ headline[j] = "blocker"
      /\ provider = "github" => found[j] = "blocker"

PostedBlockerFails ==
  \A j \in Jobs :
    status[j] = "posted" /\ "blocker" \in {found[j], headline[j]} => check[j] = "failure"

(* The check run and the review tell the same, whichever calls failed in   *)
(* between.  A pull request is only blocked by a review that says so: on   *)
(* GitHub with the blocking comment itself, on Bitbucket, which may have   *)
(* lost any inline comment, at least in its summary.  And a run recorded   *)
(* as posted has not lost its verdict: with a blocking comment or summary  *)
(* its check fails.                                                        *)
CheckMatchesReview == FailureIsExplained /\ PostedBlockerFails

(* A run that posted its review and reached "posted" counts against the    *)
(* daily cap, and only such a run does: each counted call was answered by  *)
(* the model and its review is up, with its summary.                       *)
RecordedCostIsReal ==
  \A j \in Jobs :
    /\ cost[j] = 1 => answers[j] >= 1 /\ reviews[j] = 1 /\ headline[j] # "none"
    /\ status[j] = "posted" /\ reviews[j] = 1 => cost[j] = 1

(* The cap is checked before the call and charged after it, so workers     *)
(* that checked at the same time overshoot it; but never by more than one  *)
(* call per worker but one.                                                *)
SpendOvershootBounded ==
  Spend <= IF DailyCap = 0 THEN 0 ELSE DailyCap - 1 + Cardinality(Workers)

(* What passed review was read.  A run recorded as posted covers the diff  *)
(* since a head whose own run was posted, and following these bases down   *)
(* never goes round in a circle: it ends at a review of the whole pull     *)
(* request.  Two heads processed at the same time cannot each take the     *)
(* other as read.                                                          *)
PostedJobs == {j \in Jobs : status[j] = "posted"}
BaseOf(j) == <<PrOf(j), since[j]>>

ReviewChainsGrounded ==
  /\ \A j \in PostedJobs : since[j] = NoHead \/ BaseOf(j) \in PostedJobs
  /\ \A S \in SUBSET PostedJobs : S # {} => \E j \in S : BaseOf(j) \notin S

(* A run that has left "pending" is over: no redelivery and no slow worker *)
(* changes its row or the check and reviews of its head afterwards.        *)
FinishedRunsAreFinal ==
  [][\A j \in Jobs : status[j] \in Terminal =>
        /\ status'[j] = status[j] /\ cost'[j] = cost[j]
        /\ check'[j] = check[j] /\ reviews'[j] = reviews[j]
        /\ neutrals'[j] = neutrals[j]]_pipelineVars

(* The pipeline implements the ledger: the phase of a job is told by its   *)
(* row, its findings by the code host, and it blocks while its check run   *)
(* fails.                                                                  *)
PhaseOf(j) ==
  CASE status[j] = "absent"    -> "unclaimed"
    [] status[j] = "pending"   -> "claimed"
    [] status[j] \in Terminal -> "closed"

Ledger == INSTANCE ReviewLedger WITH
  phase <- [j \in Jobs |-> PhaseOf(j)],
  findings <- reviews,
  blocked <- {j \in Jobs : check[j] = "failure"}

ImplementsLedger == Ledger!LedgerSpec

(* The status check succeeds unless blocking comments were posted          *)
(* (docs/design.md, section 8).  failOpen after an UpdateCheck error       *)
(* passes the check of a head whose blocking comments are up.              *)
PostedBlockerNeverPasses ==
  \A j \in Jobs : status[j] \in Terminal /\ found[j] = "blocker" => check[j] # "success"
=============================================================================
