------------------------ MODULE ReviewPipelineProofs ------------------------
(***************************************************************************)
(* Proofs that the pipeline keeps its safety invariants for any number of  *)
(* workers, pull requests, heads and faults.                               *)
(***************************************************************************)
EXTENDS ReviewPipeline, FiniteSetTheorems, TLAPS

(* A job has no trace on the code host, or none at all outside its row.    *)
Unseen(j) ==
  /\ reviews[j] = 0 /\ neutrals[j] = 0
  /\ found[j] = "none" /\ headline[j] = "none" /\ check[j] = "none"

Untouched(j) == answers[j] = 0 /\ Unseen(j)

(* A blocking comment, or a summary that speaks of one, is up.             *)
Blocking(j) == found[j] = "blocker" \/ headline[j] = "blocker"

(* What is true of a job at all times.                                     *)
JobOK(j) ==
  /\ status[j] = "absent" => Untouched(j)
  /\ status[j] \notin Terminal => cost[j] = 0
  /\ reviews[j] <= 1 /\ neutrals[j] <= 1 /\ answers[j] <= MaxCalls
  /\ check[j] = "failure" => headline[j] = "blocker"
  /\ check[j] = "failure" /\ provider = "github" => found[j] = "blocker"
  /\ status[j] = "posted" /\ Blocking(j) => check[j] = "failure"
  /\ cost[j] = 1 => answers[j] >= 1 /\ reviews[j] = 1 /\ headline[j] # "none"
  /\ status[j] = "posted" /\ reviews[j] = 1 => cost[j] = 1

(* What the place of a worker tells of its job's traces.                   *)
Traces(w, j) ==
  /\ pc[w] \in {"check_budget", "find_base", "fetch_diff"} => Untouched(j)
  /\ pc[w] = "chat" => Unseen(j) /\ answers[j] <= tries[w] /\ tries[w] < MaxCalls
  /\ pc[w] = "post_review" => answers[j] >= 1 /\ Unseen(j) /\ verdict[w] # "none"
  /\ pc[w] = "post_summary" =>
       /\ answers[j] >= 1 /\ reviews[j] = 1 /\ neutrals[j] = 0 /\ verdict[w] # "none"
       /\ provider = "bitbucket"
       /\ headline[j] = "none" /\ check[j] = "none"
       /\ found[j] = "blocker" => verdict[w] = "blocker"
  /\ pc[w] \in {"save_comments", "update_check"} =>
       /\ answers[j] >= 1 /\ reviews[j] = 1 /\ neutrals[j] = 0 /\ verdict[w] # "none"
       /\ headline[j] = verdict[w] /\ check[j] = "none"
       /\ found[j] = "blocker" => verdict[w] = "blocker"
       /\ provider = "github" => found[j] = verdict[w]
  /\ pc[w] = "post_neutral" =>
       neutrals[j] = 0 /\ outcome[w] \in {"failed-open", "budget-exceeded"}
  /\ pc[w] = "pass_check" =>
       /\ outcome[w] \in {"unchanged", "failed-open", "budget-exceeded"}
       /\ outcome[w] = "unchanged" => Untouched(j)
  /\ pc[w] = "finish" =>
       /\ outcome[w] # "none"
       /\ outcome[w] = "unchanged" => reviews[j] = 0 /\ ~Blocking(j)
       /\ outcome[w] = "reviewed" =>
            /\ answers[j] >= 1 /\ reviews[j] = 1 /\ headline[j] # "none"
            /\ Blocking(j) => check[j] = "failure"

(* A worker past Begin holds the claim: the row is pending for as long as  *)
(* it is, so that no other worker gets past Begin with the same job.       *)
WorkerOK(w) == Running(w) => status[job[w]] = "pending" /\ Traces(w, job[w])

(* The rows inserted so far are finitely many, so a place among them is a  *)
(* natural number.                                                         *)
Rows == {j \in Jobs : status[j] # "absent"}

(* Attempts are only counted while ChatWithRetry runs.                     *)
TriesCounted == \A w \in Workers : pc[w] # "chat" => tries[w] = 0

IInv ==
  /\ PipelineTypeOK
  /\ TriesCounted
  /\ IsFiniteSet(Rows)
  /\ OneWorkerPerJob
  /\ \A j \in Jobs : JobOK(j)
  /\ \A w \in Workers : WorkerOK(w)

-----------------------------------------------------------------------------
(* Moving a worker to another place keeps pc and job well typed.           *)
LEMMA GotoType ==
  ASSUME PipelineTypeOK, NEW w \in Workers, pc[w] # "idle",
         NEW place \in Places, Goto(w, place), job' = job
  PROVE  /\ pc' \in [Workers -> Places]
         /\ \A v \in Workers : pc'[v] # "idle" => job'[v] \in Jobs
BY DEF PipelineTypeOK, Goto

(* Every step keeps the types.                                             *)
LEMMA TypeStep ==
  ASSUME IInv, [PipelineNext]_pipelineVars
  PROVE  PipelineTypeOK'
<1>0. PipelineTypeOK /\ IsFiniteSet(Rows)  BY DEF IInv
<1> USE <1>0, PipelineAssumption DEF PipelineTypeOK, Terminal, Verdicts, Outcomes
<1> USE DEF repoVars, runVars, hostVars, bookVars, histVars, localVars, InTime, Fails, Log
<1>1. ASSUME NEW w \in Workers, NEW j \in Jobs, Start(w, j) PROVE PipelineTypeOK'
  BY <1>1 DEF Start, Goto, Places
<1>2. ASSUME NEW w \in Workers, CheckRepo(w) PROVE PipelineTypeOK'
  BY <1>2 DEF CheckRepo, Goto, Places, Begun
<1>3. ASSUME NEW w \in Workers, Begin(w) PROVE PipelineTypeOK'
  <2>1. job[w] \in Jobs /\ job' = job  BY <1>3 DEF Begin
  <2>2. Cardinality(Rows) \in Nat  BY FS_CardinalityType
  <2>3. rank' \in [Jobs -> Nat] /\ status' \in [Jobs -> {"absent", "pending"} \cup Terminal]
    BY <1>3, <2>1, <2>2 DEF Begin, InsertRun, Rows
  <2>4. cost' = cost /\ since' = since  BY <1>3 DEF Begin, InsertRun
  <2>5. PICK place \in {"check_budget", "return"} : Goto(w, place)  BY <1>3 DEF Begin
  <2>6. pc[w] # "idle"  BY <1>3 DEF Begin
  <2> QED BY <1>3, <2>1, <2>3, <2>4, <2>5, <2>6, GotoType DEF Begin, Places, Begun
<1>4. ASSUME NEW w \in Workers, CheckBudget(w) PROVE PipelineTypeOK'
  BY <1>4, GotoType DEF CheckBudget, FailOpen, Places, Begun
<1>5. ASSUME NEW w \in Workers, FindBase(w) PROVE PipelineTypeOK'
  <2>1. \A i \in LatestReviewed(job[w]) : HeadOf(i) \in Heads
    BY DEF LatestReviewed, Reviewed, Recent, HeadOf, Jobs
  <2> QED BY <1>5, <2>1, GotoType DEF FindBase, Places, Begun
<1>6. ASSUME NEW w \in Workers, FetchDiff(w) PROVE PipelineTypeOK'
  BY <1>6, GotoType DEF FetchDiff, FailOpen, Places, Begun
<1>7. ASSUME NEW w \in Workers, Chat(w) PROVE PipelineTypeOK'
  <2> USE DEF Chat, Answered, Unreadable, AttemptFails, Paid
  <2>1. job[w] \in Jobs  BY <1>7
  <2>2. answers' \in [Jobs -> Nat]  BY <1>7, <2>1
  <2>3. verdict' \in [Workers -> {"none"} \cup Verdicts]  BY <1>7
  <2>4. outcome' \in [Workers -> Outcomes]  BY <1>7 DEF FailOpen
  <2>5. PICK place \in {"chat", "post_review", "post_neutral"} : Goto(w, place)
    BY <1>7 DEF FailOpen, Goto
  <2>6. tries' \in [Workers -> Nat] /\ late' \subseteq Workers  BY <1>7
  <2> QED BY <1>7, <2>2, <2>3, <2>4, <2>5, <2>6, GotoType DEF Places, Begun
<1>8. ASSUME NEW w \in Workers, PostReview(w) PROVE PipelineTypeOK'
  <2>1. job[w] \in Jobs  BY <1>8 DEF PostReview
  <2>2. /\ reviews' \in [Jobs -> Nat]
        /\ found' \in [Jobs -> {"none"} \cup Verdicts]
        /\ headline' \in [Jobs -> {"none"} \cup Verdicts]
    BY <1>8, <2>1 DEF PostReview, ReviewAppears
  <2>3. outcome' \in [Workers -> Outcomes]  BY <1>8 DEF PostReview, FailOpen
  <2>4. PICK place \in {"save_comments", "post_neutral"} : Goto(w, place)
    BY <1>8 DEF PostReview, FailOpen
  <2> QED BY <1>8, <2>2, <2>3, <2>4, GotoType DEF PostReview, Places, Begun
<1>18. ASSUME NEW w \in Workers, PostComments(w) PROVE PipelineTypeOK'
  <2>1. job[w] \in Jobs  BY <1>18 DEF PostComments
  <2>2. reviews' \in [Jobs -> Nat] /\ found' \in [Jobs -> {"none"} \cup Verdicts]
    BY <1>18, <2>1 DEF PostComments
  <2> QED BY <1>18, <2>2, GotoType DEF PostComments, Places, Begun
<1>19. ASSUME NEW w \in Workers, PostSummary(w) PROVE PipelineTypeOK'
  <2>1. job[w] \in Jobs  BY <1>19 DEF PostSummary
  <2>2. /\ found' \in [Jobs -> {"none"} \cup Verdicts]
        /\ headline' \in [Jobs -> {"none"} \cup Verdicts]
    BY <1>19, <2>1 DEF PostSummary, RestAppears
  <2>3. outcome' \in [Workers -> Outcomes]  BY <1>19 DEF PostSummary, FailOpen
  <2>4. PICK place \in {"save_comments", "post_neutral"} : Goto(w, place)
    BY <1>19 DEF PostSummary, FailOpen
  <2> QED BY <1>19, <2>2, <2>3, <2>4, GotoType DEF PostSummary, Places, Begun
<1>9. ASSUME NEW w \in Workers, SaveComments(w) PROVE PipelineTypeOK'
  BY <1>9, GotoType DEF SaveComments, Places, Begun
<1>10. ASSUME NEW w \in Workers, UpdateCheck(w) PROVE PipelineTypeOK'
  <2>1. check' \in [Jobs -> {"none", "success", "failure"}]
    BY <1>10 DEF UpdateCheck, Concludes
  <2>2. outcome' \in [Workers -> Outcomes]  BY <1>10 DEF UpdateCheck, FailOpen
  <2>3. PICK place \in {"finish", "post_neutral"} : Goto(w, place)
    BY <1>10 DEF UpdateCheck, FailOpen
  <2> QED BY <1>10, <2>1, <2>2, <2>3, GotoType DEF UpdateCheck, Places, Begun
<1>11. ASSUME NEW w \in Workers, PostNeutral(w) PROVE PipelineTypeOK'
  BY <1>11, GotoType DEF PostNeutral, Places, Begun
<1>12. ASSUME NEW w \in Workers, PassCheck(w) PROVE PipelineTypeOK'
  BY <1>12, GotoType DEF PassCheck, Concludes, Places, Begun
<1>13. ASSUME NEW w \in Workers, Finish(w) PROVE PipelineTypeOK'
  <2>1. job[w] \in Jobs /\ outcome[w] # "none"
    BY <1>13 DEF Finish, IInv, WorkerOK, Running, Begun, Traces
  <2>2. status' \in [Jobs -> {"absent", "pending"} \cup Terminal]
    BY <1>13, <2>1 DEF Finish, FinishRow
  <2>3. cost' \in [Jobs -> {0, 1}]  BY <1>13, <2>1 DEF Finish, FinishRow
  <2>4. since' \in [Jobs -> Heads \cup {NoHead}] /\ rank' = rank
    BY <1>13, <2>1 DEF Finish, FinishRow
  <2> QED BY <1>13, <2>2, <2>3, <2>4, GotoType DEF Finish, Places, Begun
<1>14. ASSUME NEW w \in Workers, Return(w) \/ Crash(w) PROVE PipelineTypeOK'
  <2>1. stopped' \subseteq Jobs /\ logged' \subseteq Jobs
    BY <1>14 DEF Return, Crash, Running, Begun
  <2>2. Leave(w)  BY <1>14 DEF Return, Crash
  <2>3. /\ pc' \in [Workers -> Places] /\ job' \in [Workers -> Jobs \cup {NoJob}]
        /\ \A v \in Workers : pc'[v] # "idle" => job'[v] \in Jobs
    BY <2>2 DEF Leave, Goto, Places
  <2>4. /\ base' \in [Workers -> Heads \cup {NoHead}] /\ outcome' \in [Workers -> Outcomes]
        /\ verdict' \in [Workers -> {"none"} \cup Verdicts]
        /\ tries' \in [Workers -> Nat] /\ late' \subseteq Workers
    BY <2>2 DEF Leave
  <2> QED BY <2>1, <2>2, <2>3, <2>4 DEF Leave
<1>15. ASSUME NEW want \in BOOLEAN, SetEnabled(want) PROVE PipelineTypeOK'
  BY <1>15 DEF SetEnabled
<1>16. CASE Tombstone
  BY <1>16 DEF Tombstone
<1>17. CASE UNCHANGED pipelineVars
  BY <1>17 DEF pipelineVars
<1> QED
  BY <1>1, <1>2, <1>3, <1>4, <1>5, <1>6, <1>7, <1>8, <1>9, <1>10, <1>11, <1>12, <1>13, <1>14, <1>15, <1>16, <1>17, <1>18,
     <1>19 DEF PipelineNext, Step
-----------------------------------------------------------------------------
(* A step of the environment of the workers changes neither a job nor what *)
(* a worker knows.                                                         *)
SameJob(j) ==
  /\ status'[j] = status[j] /\ cost'[j] = cost[j] /\ since'[j] = since[j]
  /\ reviews'[j] = reviews[j] /\ neutrals'[j] = neutrals[j] /\ answers'[j] = answers[j]
  /\ found'[j] = found[j] /\ headline'[j] = headline[j] /\ check'[j] = check[j]

SameWorker(w) ==
  /\ pc'[w] = pc[w] /\ job'[w] = job[w] /\ base'[w] = base[w]
  /\ verdict'[w] = verdict[w] /\ outcome'[w] = outcome[w] /\ tries'[w] = tries[w]
  /\ w \in late' <=> w \in late

(* A step of a worker's handler changes no other job and no other worker.  *)
LEMMA StepFrame ==
  ASSUME PipelineTypeOK, NEW w \in Workers, Step(w)
  PROVE  /\ pc[w] # "idle" /\ job[w] \in Jobs /\ job' = job /\ provider' = provider
         /\ \A j \in Jobs \ {job[w]} : SameJob(j)
         /\ \A v \in Workers \ {w} : SameWorker(v)
<1> USE DEF PipelineTypeOK, repoVars, runVars, hostVars, bookVars, localVars, SameJob, SameWorker,
            Goto, FailOpen, InTime, Fails
<1>0. pc[w] # "idle" /\ job[w] \in Jobs /\ job' = job /\ provider' = provider
  BY DEF Step, CheckRepo, Begin, CheckBudget, FindBase, FetchDiff, Chat, Answered, Unreadable, AttemptFails, Paid,
        PostReview, PostComments, PostSummary, RestAppears,
         SaveComments, UpdateCheck, PostNeutral, PassCheck, Finish
<1>1. CASE CheckRepo(w)
  BY <1>0, <1>1 DEF CheckRepo
<1>2. CASE Begin(w)
  BY <1>0, <1>2 DEF Begin, InsertRun
<1>3. CASE CheckBudget(w)
  BY <1>0, <1>3 DEF CheckBudget
<1>4. CASE FindBase(w)
  BY <1>0, <1>4 DEF FindBase
<1>5. CASE FetchDiff(w)
  BY <1>0, <1>5 DEF FetchDiff
<1>6. CASE Chat(w)
  BY <1>0, <1>6 DEF Chat, Answered, Unreadable, AttemptFails, Paid
<1>7. CASE PostReview(w)
  BY <1>0, <1>7 DEF PostReview, ReviewAppears
<1>13. CASE PostComments(w)
  BY <1>0, <1>13 DEF PostComments
<1>14. CASE PostSummary(w)
  BY <1>0, <1>14 DEF PostSummary, RestAppears
<1>8. CASE SaveComments(w)
  BY <1>0, <1>8 DEF SaveComments
<1>9. CASE UpdateCheck(w)
  BY <1>0, <1>9 DEF UpdateCheck, Concludes
<1>10. CASE PostNeutral(w)
  BY <1>0, <1>10 DEF PostNeutral
<1>11. CASE PassCheck(w)
  BY <1>0, <1>11 DEF PassCheck, Concludes
<1>12. CASE Finish(w)
  BY <1>0, <1>12 DEF Finish, FinishRow
<1> QED
  BY <1>0, <1>1, <1>2, <1>3, <1>4, <1>5, <1>6, <1>7, <1>8, <1>9, <1>10, <1>11, <1>12, <1>13, <1>14
  DEF Step

(* What a step makes of its own worker and job.                            *)
LEMMA StepOwn ==
  ASSUME IInv, NEW w \in Workers, Step(w)
  PROVE  /\ JobOK(job[w])'
         /\ WorkerOK(w)'
         /\ Running(w)' => Running(w) \/ status[job[w]] = "absent"
         /\ Running(w) \/ status[job[w]] = "absent" \/ SameJob(job[w])
         /\ pc'[w] # "chat" => tries'[w] = 0
<1> DEFINE j == job[w]
<1>0. /\ PipelineTypeOK /\ j \in Jobs /\ job' = job /\ provider' = provider
      /\ JobOK(j) /\ WorkerOK(w) /\ (pc[w] # "chat" => tries[w] = 0)
  BY StepFrame DEF IInv, TriesCounted
<1> USE <1>0, PipelineAssumption
        DEF PipelineTypeOK, Terminal, Verdicts, Outcomes, repoVars, runVars, hostVars,
                 bookVars, localVars, InTime, Fails, Goto, JobOK, WorkerOK, Running, Begun, Traces, Untouched, Unseen,
                 Blocking, TriesCounted, SameJob
<1>1. CASE CheckRepo(w)
  BY <1>1, SMTT(30) DEF CheckRepo
<1>2. CASE Begin(w)
  BY <1>2, SMTT(30) DEF Begin, InsertRun
<1>3. CASE CheckBudget(w)
  BY <1>3, SMTT(30) DEF CheckBudget, FailOpen
<1>4. CASE FindBase(w)
  BY <1>4, SMTT(30) DEF FindBase
<1>5. CASE FetchDiff(w)
  BY <1>5, SMTT(30) DEF FetchDiff, FailOpen
<1>6. CASE Chat(w)
  <2> USE DEF Chat, Paid, FailOpen
  <2>1. CASE Answered(w)  BY <1>6, <2>1, SMTT(30) DEF Answered
  <2>2. CASE Unreadable(w)  BY <1>6, <2>2, SMTT(30) DEF Unreadable
  <2>3. CASE AttemptFails(w)  BY <1>6, <2>3, SMTT(30) DEF AttemptFails
  <2> QED BY <1>6, <2>1, <2>2, <2>3
<1>7. CASE PostReview(w)
  BY <1>7, SMTT(30) DEF PostReview, ReviewAppears, FailOpen
<1>13. CASE PostComments(w)
  BY <1>13, SMTT(30) DEF PostComments
<1>14. CASE PostSummary(w)
  BY <1>14, SMTT(30) DEF PostSummary, RestAppears, FailOpen
<1>8. CASE SaveComments(w)
  BY <1>8, SMTT(30) DEF SaveComments
<1>9. CASE UpdateCheck(w)
  BY <1>9, SMTT(30) DEF UpdateCheck, Concludes, FailOpen
<1>10. CASE PostNeutral(w)
  BY <1>10, SMTT(30) DEF PostNeutral
<1>11. CASE PassCheck(w)
  BY <1>11, SMTT(30) DEF PassCheck, Concludes
<1>12. CASE Finish(w)
  BY <1>12, SMTT(30) DEF Finish, FinishRow
<1> QED
  BY <1>1, <1>2, <1>3, <1>4, <1>5, <1>6, <1>7, <1>8, <1>9, <1>10, <1>11, <1>12, <1>13, <1>14
  DEF Step
-----------------------------------------------------------------------------
(* Steps that no handler takes: a job is handed over, a handler ends or    *)
(* dies, the operator acts, or nothing happens.                            *)
LEMMA OtherFrame ==
  ASSUME PipelineTypeOK, [PipelineNext]_pipelineVars,
         ~ \E w \in Workers : Step(w)
  PROVE  /\ \A j \in Jobs : SameJob(j)
         /\ \A w \in Workers : SameWorker(w) \/ ~Running(w)'
         /\ provider' = provider
<1> USE DEF PipelineTypeOK, repoVars, runVars, hostVars, bookVars, localVars, SameJob, SameWorker,
            Goto, Running, Begun
<1>1. ASSUME NEW w \in Workers, NEW j \in Jobs, Start(w, j)
      PROVE  /\ \A i \in Jobs : SameJob(i)
             /\ \A v \in Workers : SameWorker(v) \/ ~Running(v)'
             /\ provider' = provider
  BY <1>1 DEF Start
<1>2. ASSUME NEW w \in Workers, Leave(w)
      PROVE  /\ \A i \in Jobs : SameJob(i)
             /\ \A v \in Workers : SameWorker(v) \/ ~Running(v)'
             /\ provider' = provider
  BY <1>2 DEF Leave
<1>3. CASE (\E want \in BOOLEAN : SetEnabled(want)) \/ Tombstone \/ UNCHANGED pipelineVars
  BY <1>3 DEF SetEnabled, Tombstone, pipelineVars
<1> QED  BY <1>1, <1>2, <1>3 DEF PipelineNext, Return, Crash

(* The initial states satisfy IInv.                                        *)
LEMMA InitIInv ==
  PipelineInit => IInv
<1> SUFFICES ASSUME PipelineInit PROVE IInv  OBVIOUS
<1> USE DEF PipelineInit
<1>1. PipelineTypeOK  BY DEF PipelineTypeOK, Places, Verdicts, Outcomes
<1>2. Rows = {}  BY DEF Rows
<1>3. IsFiniteSet(Rows)  BY <1>2, FS_EmptySet
<1>4. \A w \in Workers : ~Running(w)  BY DEF Running, Begun
<1>5. \A j \in Jobs : JobOK(j)
  BY PipelineAssumption
  DEF JobOK, Untouched, Unseen, Terminal, Blocking
<1> QED  BY <1>1, <1>3, <1>4, <1>5 DEF IInv, OneWorkerPerJob, WorkerOK, TriesCounted

(* Every step preserves IInv.                                              *)
LEMMA NextIInv ==
  IInv /\ [PipelineNext]_pipelineVars => IInv'
<1> SUFFICES ASSUME IInv, [PipelineNext]_pipelineVars PROVE IInv'  OBVIOUS
<1>1. PipelineTypeOK /\ PipelineTypeOK'  BY TypeStep DEF IInv
<1>2. CASE \E w \in Workers : Step(w)
  <2> PICK w \in Workers : Step(w)  BY <1>2
  <2>1. /\ job[w] \in Jobs /\ job' = job /\ provider' = provider
        /\ \A j \in Jobs \ {job[w]} : SameJob(j)
        /\ \A v \in Workers \ {w} : SameWorker(v)
    BY <1>1, StepFrame
  <2>2. /\ JobOK(job[w])' /\ WorkerOK(w)'
        /\ pc'[w] # "chat" => tries'[w] = 0
        /\ Running(w)' => Running(w) \/ status[job[w]] = "absent"
        /\ Running(w) \/ status[job[w]] = "absent" \/ SameJob(job[w])
    BY StepOwn
  <2>3. \A v \in Workers \ {w} : Running(v)' => Running(v)
    BY <2>1 DEF SameWorker, Running
  <2>4. OneWorkerPerJob'
    BY <2>1, <2>2, <2>3 DEF IInv, OneWorkerPerJob, WorkerOK
  <2>5. IsFiniteSet(Rows')
    <3>1. Rows' \subseteq Rows \cup {job[w]}  BY <2>1 DEF Rows, SameJob
    <3>2. IsFiniteSet(Rows \cup {job[w]})  BY FS_AddElement DEF IInv
    <3> QED  BY <3>1, <3>2, FS_Subset
  <2>6. \A j \in Jobs : JobOK(j)'
    BY <2>1, <2>2 DEF IInv, JobOK, SameJob, Untouched, Unseen, Blocking
  <2>7. ASSUME NEW v \in Workers, v # w PROVE WorkerOK(v)'
    <3> SUFFICES ASSUME Running(v) PROVE status'[job[v]] = "pending" /\ Traces(v, job[v])'
      BY <2>1, <2>3, <2>7 DEF WorkerOK
    <3>1. job[v] \in Jobs  BY <1>1 DEF PipelineTypeOK, Running, Begun
    <3>2. status[job[v]] = "pending" /\ Traces(v, job[v])  BY DEF IInv, WorkerOK
    <3>3. job[v] # job[w] \/ SameJob(job[w])
      BY <2>2, <2>7, <3>2 DEF IInv, OneWorkerPerJob
    <3>4. SameJob(job[v]) /\ SameWorker(v)  BY <2>1, <2>7, <3>1, <3>3
    <3> QED  BY <2>1, <3>2, <3>4 DEF SameJob, SameWorker, Traces, Untouched, Unseen,
      Blocking
  <2>8. TriesCounted'
    BY <2>1, <2>2 DEF IInv, TriesCounted, SameWorker
  <2> QED  BY <1>1, <2>2, <2>4, <2>5, <2>6, <2>7, <2>8 DEF IInv
<1>3. CASE ~ \E w \in Workers : Step(w)
  <2>1. /\ \A j \in Jobs : SameJob(j)
        /\ \A w \in Workers : SameWorker(w) \/ ~Running(w)'
        /\ provider' = provider
    BY <1>1, <1>3, OtherFrame
  <2>2. OneWorkerPerJob'
    BY <2>1 DEF IInv, OneWorkerPerJob, SameWorker, Running
  <2>3. Rows' = Rows  BY <2>1 DEF Rows, SameJob
  <2>4. \A j \in Jobs : JobOK(j)'
    BY <2>1 DEF IInv, JobOK, SameJob, Untouched, Unseen, Blocking
  <2>5. ASSUME NEW w \in Workers PROVE WorkerOK(w)'
    <3> SUFFICES ASSUME SameWorker(w), Running(w)
                 PROVE  status'[job'[w]] = "pending" /\ Traces(w, job[w])'
      BY <2>1 DEF WorkerOK, SameWorker, Running
    <3>1. job[w] \in Jobs  BY <1>1 DEF PipelineTypeOK, Running, Begun
    <3> QED  BY <2>1, <3>1 DEF IInv, WorkerOK, SameJob, SameWorker, Traces, Untouched, Unseen,
      Blocking
  <2>6. TriesCounted'
    BY <1>1, <1>3 DEF IInv, TriesCounted, PipelineTypeOK, PipelineNext, Start, Return, Crash, Leave,
      SetEnabled, Tombstone, pipelineVars, localVars, Goto
  <2> QED  BY <1>1, <2>2, <2>3, <2>4, <2>5, <2>6 DEF IInv
<1> QED  BY <1>2, <1>3

(* PipelineInvariant: IInv, which ties each row to the one worker that may *)
(* still change it, holds in every state of the pipeline.                  *)
THEOREM PipelineInvariant == PipelineSafety => []IInv
<1> QED  BY InitIInv, NextIInv, PTL DEF PipelineSafety

-----------------------------------------------------------------------------
(* TypeCorrect: every variable keeps its type; in particular Finish never  *)
(* writes an outcome that process did not choose.                          *)
THEOREM TypeCorrect == PipelineSafety => []PipelineTypeOK
<1>1. IInv => PipelineTypeOK  BY DEF IInv
<1> QED  BY <1>1, PipelineInvariant, PTL

(* ReviewedOnce: however jobs are redelivered, a head gets at most one     *)
(* review, one neutral review and the paid calls of one ChatWithRetry.     *)
THEOREM ReviewedOnce == PipelineSafety => []AtMostOnce
<1>1. IInv => AtMostOnce  BY DEF IInv, JobOK, AtMostOnce
<1> QED  BY <1>1, PipelineInvariant, PTL

(* ClaimsExclude: no two workers process the same job past Begin.          *)
THEOREM ClaimsExclude == PipelineSafety => []OneWorkerPerJob
<1>1. IInv => OneWorkerPerJob  BY DEF IInv
<1> QED  BY <1>1, PipelineInvariant, PTL

(* ChecksMatchReviews: a failing check is explained by the review that is  *)
(* up, on GitHub by the blocking comment itself, on Bitbucket at least by  *)
(* the summary, and a run recorded as posted has not lost its verdict.     *)
THEOREM ChecksMatchReviews == PipelineSafety => []CheckMatchesReview
<1>1. IInv => CheckMatchesReview
  BY DEF IInv, JobOK, CheckMatchesReview, FailureIsExplained, PostedBlockerFails, Blocking
<1> QED  BY <1>1, PipelineInvariant, PTL

(* CostsAreReal: a run is charged exactly if it posted its review and was  *)
(* recorded as posted.                                                     *)
THEOREM CostsAreReal == PipelineSafety => []RecordedCostIsReal
<1>1. IInv => RecordedCostIsReal  BY DEF IInv, JobOK, RecordedCostIsReal
<1> QED  BY <1>1, PipelineInvariant, PTL

(* What is decided stays decided, for one step.                            *)
LEMMA TerminalFrame ==
  ASSUME IInv, [PipelineNext]_pipelineVars, NEW j \in Jobs, status[j] \in Terminal
  PROVE  SameJob(j)
<1>1. CASE \E w \in Workers : Step(w)
  <2> PICK w \in Workers : Step(w)  BY <1>1
  <2>1. CASE j = job[w]
    <3>1. ~Running(w) /\ status[j] # "absent"
      BY <2>1 DEF IInv, WorkerOK, Terminal
    <3> QED  BY <2>1, <3>1, StepOwn
  <2>2. CASE j # job[w]  BY <2>2, StepFrame DEF IInv
  <2> QED  BY <2>1, <2>2
<1>2. CASE ~ \E w \in Workers : Step(w)  BY <1>2, OtherFrame DEF IInv
<1> QED  BY <1>1, <1>2

(* FinishedForGood: once a run has left "pending", no redelivery and no    *)
(* slow worker changes its row, its check or its reviews.                  *)
THEOREM FinishedForGood == PipelineSafety => FinishedRunsAreFinal
<1> DEFINE Keeps == \A j \in Jobs : status[j] \in Terminal =>
                       /\ status'[j] = status[j] /\ cost'[j] = cost[j]
                       /\ check'[j] = check[j] /\ reviews'[j] = reviews[j]
                       /\ neutrals'[j] = neutrals[j]
<1>1. IInv /\ [PipelineNext]_pipelineVars => [Keeps]_pipelineVars
  BY TerminalFrame DEF SameJob
<1> QED  BY <1>1, PipelineInvariant, PTL DEF PipelineSafety, FinishedRunsAreFinal

-----------------------------------------------------------------------------
(* A worker leaves its claim with the row closed or with a line in the log,*)
(* and a row that appears without a worker is in the log.                  *)
LEMMA StepExplained ==
  ASSUME IInv, NEW w \in Workers, Step(w)
  PROVE  /\ logged \subseteq logged' /\ stopped \subseteq stopped'
         /\ status'[job[w]] = "pending" =>
              \/ Running(w)'
              \/ job[w] \in logged'
              \/ ~Running(w) /\ status[job[w]] = "pending"
<1>0. PipelineTypeOK /\ job[w] \in Jobs /\ WorkerOK(w)
  BY StepFrame DEF IInv
<1> USE <1>0 DEF PipelineTypeOK, runVars, histVars, Log, Goto, Running, Begun, WorkerOK, Traces
<1>1. CASE CheckRepo(w)
  BY <1>1 DEF CheckRepo
<1>2. CASE Begin(w)
  BY <1>2 DEF Begin, InsertRun
<1>3. CASE Finish(w)
  BY <1>3 DEF Finish, FinishRow, Outcomes, Terminal
<1>4. CASE ~CheckRepo(w) /\ ~Begin(w) /\ ~Finish(w)
  BY <1>4 DEF Step, CheckBudget, FindBase, FetchDiff, Chat, Answered, Unreadable, AttemptFails,
    PostReview, PostComments, PostSummary, SaveComments, UpdateCheck, PostNeutral, PassCheck, FailOpen
<1> QED  BY <1>1, <1>2, <1>3, <1>4

(* Every step keeps pending rows explained.                                *)
LEMMA ExplainedStep ==
  ASSUME IInv, PendingRowsExplained, [PipelineNext]_pipelineVars
  PROVE  PendingRowsExplained'
<1> SUFFICES ASSUME NEW j \in Jobs, status'[j] = "pending"
             PROVE  InHand(j)' \/ j \in logged' \/ j \in stopped'
  BY DEF PendingRowsExplained
<1>1. CASE \E w \in Workers : Step(w)
  <2> PICK w \in Workers : Step(w)  BY <1>1
  <2>1. /\ job[w] \in Jobs /\ job' = job
        /\ \A i \in Jobs \ {job[w]} : SameJob(i)
        /\ \A v \in Workers \ {w} : SameWorker(v)
    BY StepFrame DEF IInv
  <2>2. logged \subseteq logged' /\ stopped \subseteq stopped'
    BY StepExplained
  <2>3. ASSUME NEW v \in Workers \ {w}, Running(v), job[v] = j PROVE InHand(j)'
    BY <2>1, <2>3 DEF InHand, Running, SameWorker
  <2>4. CASE j # job[w]
    <3>1. InHand(j) \/ j \in logged \/ j \in stopped
      BY <2>1, <2>4 DEF PendingRowsExplained, SameJob
    <3> QED  BY <2>2, <2>3, <2>4, <3>1 DEF InHand
  <2>5. CASE j = job[w]
    <3>1. CASE Running(w)'  BY <2>1, <2>5, <3>1 DEF InHand
    <3>2. CASE ~Running(w) /\ status[j] = "pending"
      <4>1. InHand(j) \/ j \in logged \/ j \in stopped
        BY <3>2 DEF PendingRowsExplained
      <4> QED  BY <2>2, <2>3, <3>2, <4>1 DEF InHand
    <3> QED  BY <2>5, <3>1, <3>2, StepExplained
  <2> QED  BY <2>4, <2>5
<1>2. CASE ~ \E w \in Workers : Step(w)
  <2>1. status[j] = "pending"
    BY <1>2, OtherFrame DEF IInv, SameJob
  <2>2. InHand(j) \/ j \in logged \/ j \in stopped
    BY <2>1 DEF PendingRowsExplained
  <2>3. ASSUME NEW w \in Workers, NEW i \in Jobs, Start(w, i)
        PROVE  InHand(j)' \/ j \in logged' \/ j \in stopped'
    BY <2>2, <2>3 DEF Start, Goto, histVars, InHand, Running, Begun, IInv, PipelineTypeOK
  <2>4. ASSUME NEW w \in Workers, Return(w)
        PROVE  InHand(j)' \/ j \in logged' \/ j \in stopped'
    BY <2>2, <2>4 DEF Return, Leave, Goto, histVars, InHand, Running, Begun, IInv, PipelineTypeOK
  <2>5. ASSUME NEW w \in Workers, Crash(w)
        PROVE  InHand(j)' \/ j \in logged' \/ j \in stopped'
    BY <2>2, <2>5 DEF Crash, Leave, Goto, InHand, Running, Begun, IInv, PipelineTypeOK
  <2>6. CASE (\E want \in BOOLEAN : SetEnabled(want)) \/ Tombstone \/ UNCHANGED pipelineVars
    BY <2>2, <2>6 DEF SetEnabled, Tombstone, pipelineVars, localVars, histVars, InHand, Running
  <2> QED  BY <1>2, <2>3, <2>4, <2>5, <2>6 DEF PipelineNext
<1> QED  BY <1>1, <1>2

(* PendingIsExplained: a run that stays pending is in a worker's hands, or *)
(* the log or a stop of its worker tells why it is not.                    *)
THEOREM PendingIsExplained == PipelineSafety => []PendingRowsExplained
<1>1. PipelineInit => PendingRowsExplained
  BY DEF PipelineInit, PendingRowsExplained
<1>2. IInv /\ PendingRowsExplained /\ [PipelineNext]_pipelineVars => PendingRowsExplained'
  BY ExplainedStep
<1> QED  BY <1>1, <1>2, PipelineInvariant, PTL DEF PipelineSafety

-----------------------------------------------------------------------------
(* The heads a worker or a posted run takes as read were posted, and a     *)
(* worker never takes its own head.                                        *)
BasePosted(w) ==
  base[w] # NoHead =>
    /\ job[w] \in Jobs
    /\ base[w] # HeadOf(job[w])
    /\ <<PrOf(job[w]), base[w]>> \in PostedJobs

BasesPosted ==
  \A w \in Workers : BasePosted(w) /\ (pc[w] = "idle" => base[w] = NoHead)

(* A base a worker has chosen stays posted while the worker uses it.       *)
LEMMA BasesPostedStep ==
  ASSUME IInv, IInv', BasesPosted, [PipelineNext]_pipelineVars
  PROVE  BasesPosted' /\ PostedJobs \subseteq PostedJobs'
<1> USE DEF PrOf, HeadOf
<1>1. PostedJobs \subseteq PostedJobs'
  BY TerminalFrame DEF PostedJobs, SameJob, Terminal
<1>2. CASE \E w \in Workers : Step(w)
  <2> PICK w \in Workers : Step(w)  BY <1>2
  <2>1. /\ job[w] \in Jobs /\ job' = job
        /\ \A v \in Workers \ {w} : SameWorker(v)
    BY StepFrame DEF IInv
  <2>2. \A v \in Workers \ {w} : BasePosted(v)' /\ (pc'[v] = "idle" => base'[v] = NoHead)
    BY <1>1, <2>1 DEF BasesPosted, BasePosted, SameWorker
  <2>3. CASE FindBase(w)
    <3>1. CASE base' = base
      BY <1>1, <2>1, <3>1, <2>3 DEF BasesPosted, BasePosted, FindBase, Goto, IInv, PipelineTypeOK
    <3>2. ASSUME NEW i \in LatestReviewed(job[w]), base' = [base EXCEPT ![w] = HeadOf(i)]
          PROVE  BasePosted(w)' /\ pc'[w] # "idle"
      <4>1. /\ i \in PostedJobs /\ PrOf(i) = PrOf(job[w]) /\ HeadOf(i) # HeadOf(job[w])
            /\ i = <<PrOf(i), HeadOf(i)>>
        BY DEF LatestReviewed, Reviewed, Recent, PostedJobs, Jobs, PrOf, HeadOf
      <4>2. base'[w] = HeadOf(i) /\ pc'[w] = "fetch_diff"
        BY <2>3, <3>2 DEF FindBase, Goto, IInv, PipelineTypeOK
      <4> QED  BY <1>1, <2>1, <4>1, <4>2 DEF BasePosted
    <3> QED  BY <1>1, <2>2, <2>3, <3>1, <3>2 DEF FindBase, BasesPosted
  <2>4. CASE ~FindBase(w)
    <3>1. base' = base /\ pc'[w] # "idle"
      BY <2>4 DEF Step, CheckRepo, Begin, CheckBudget, FetchDiff, Chat, Answered, Unreadable, AttemptFails, Paid,
        PostReview, PostComments, PostSummary, RestAppears, SaveComments,
        UpdateCheck, PostNeutral, PassCheck, Finish, Goto, FailOpen, IInv, PipelineTypeOK
    <3> QED  BY <1>1, <2>1, <2>2, <3>1 DEF BasesPosted, BasePosted
  <2> QED  BY <1>1, <2>3, <2>4
<1>3. CASE ~ \E w \in Workers : Step(w)
  <2>1. ASSUME NEW w \in Workers, NEW j \in Jobs, Start(w, j) PROVE BasesPosted'
    BY <1>1, <2>1 DEF Start, Goto, BasesPosted, BasePosted, IInv, PipelineTypeOK
  <2>2. ASSUME NEW w \in Workers, Leave(w) PROVE BasesPosted'
    BY <1>1, <2>2 DEF Leave, Goto, BasesPosted, BasePosted, IInv, PipelineTypeOK
  <2>3. CASE (\E want \in BOOLEAN : SetEnabled(want)) \/ Tombstone \/ UNCHANGED pipelineVars
    BY <1>1, <2>3 DEF SetEnabled, Tombstone, pipelineVars, localVars, BasesPosted, BasePosted
  <2> QED  BY <1>1, <1>3, <2>1, <2>2, <2>3 DEF PipelineNext, Return, Crash
<1> QED  BY <1>2, <1>3

(* A run that becomes posted has a posted base.                            *)
LEMMA PostedBases ==
  ASSUME IInv, BasesPosted, [PipelineNext]_pipelineVars,
         NEW j \in Jobs, j \in PostedJobs', j \notin PostedJobs
  PROVE  since'[j] # NoHead => BaseOf(j)' \in PostedJobs /\ BaseOf(j)' # j
<1>1. PICK w \in Workers : Step(w)
  BY OtherFrame DEF PostedJobs, SameJob, IInv
<1>2. j = job[w] /\ job[w] \in Jobs
  BY <1>1, StepFrame DEF PostedJobs, SameJob, IInv
<1>3. Finish(w)
  BY <1>1, <1>2 DEF Step, CheckRepo, Begin, CheckBudget, FindBase, FetchDiff, Chat, Answered, Unreadable, AttemptFails, Paid,
        PostReview, PostComments, PostSummary, RestAppears,
    SaveComments, UpdateCheck, PostNeutral, PassCheck, InsertRun, runVars, PostedJobs, IInv,
    PipelineTypeOK
<1>4. since'[j] = base[w]
  BY <1>2, <1>3 DEF Finish, FinishRow, runVars, PostedJobs, IInv, PipelineTypeOK
<1> QED  BY <1>2, <1>4 DEF BasesPosted, BasePosted, BaseOf, PrOf, HeadOf

(* A step adds no circle of bases.                                         *)
LEMMA ChainStep ==
  ASSUME IInv, BasesPosted, ReviewChainsGrounded, [PipelineNext]_pipelineVars
  PROVE  ReviewChainsGrounded'
<1>1. PostedJobs \subseteq PostedJobs' /\ \A j \in PostedJobs : since'[j] = since[j]
  BY TerminalFrame DEF PostedJobs, SameJob, Terminal
<1>2. \A j \in PostedJobs : BaseOf(j)' = BaseOf(j)  BY <1>1 DEF BaseOf
<1>3. \A j \in PostedJobs' \ PostedJobs :
        since'[j] # NoHead => BaseOf(j)' \in PostedJobs /\ BaseOf(j)' # j
  BY PostedBases DEF PostedJobs
<1>4. \A j \in PostedJobs' : since'[j] = NoHead \/ BaseOf(j)' \in PostedJobs'
  BY <1>1, <1>2, <1>3 DEF ReviewChainsGrounded
<1>5. ASSUME NEW S \in SUBSET PostedJobs', S # {} PROVE \E j \in S : BaseOf(j)' \notin S
  <2>1. CASE S \cap PostedJobs = {}
    <3> PICK j \in S : TRUE  BY <1>5
    <3>1. BaseOf(j)' \notin PostedJobs => since'[j] = NoHead  BY <1>3, <2>1
    <3>2. since'[j] = NoHead => BaseOf(j)' \notin PostedJobs'
      BY PipelineAssumption DEF BaseOf, PostedJobs, Jobs
    <3> QED  BY <2>1, <3>1, <3>2
  <2>2. CASE S \cap PostedJobs # {}
    <3> PICK j \in S \cap PostedJobs : BaseOf(j) \notin S \cap PostedJobs
      BY <2>2 DEF ReviewChainsGrounded
    <3>1. since[j] = NoHead \/ BaseOf(j) \in PostedJobs  BY DEF ReviewChainsGrounded
    <3>2. since[j] = NoHead => BaseOf(j) \notin PostedJobs'
      BY PipelineAssumption DEF BaseOf, PostedJobs, Jobs
    <3> QED  BY <1>2, <3>1, <3>2
  <2> QED  BY <2>1, <2>2
<1> QED  BY <1>4, <1>5 DEF ReviewChainsGrounded

(* ChainsEnd: two heads processed at the same time never take each other   *)
(* as read, and every posted run's diffs go back to the whole pull         *)
(* request.                                                                *)
THEOREM ChainsEnd == PipelineSafety => []ReviewChainsGrounded
<1>1. PipelineInit => BasesPosted /\ ReviewChainsGrounded
  BY DEF PipelineInit, BasesPosted, BasePosted, ReviewChainsGrounded, PostedJobs
<1>2. IInv /\ IInv' /\ BasesPosted /\ ReviewChainsGrounded /\ [PipelineNext]_pipelineVars
        => BasesPosted' /\ ReviewChainsGrounded'
  BY BasesPostedStep, ChainStep
<1> QED  BY <1>1, <1>2, PipelineInvariant, PTL DEF PipelineSafety

-----------------------------------------------------------------------------
(* The runs that count against the cap, and the workers that have passed   *)
(* the check and may still add one.                                        *)
Charged == {j \in Jobs : cost[j] = 1}

MayCharge(w) ==
  \/ pc[w] \in {"find_base", "fetch_diff", "chat", "post_review", "post_summary",
             "save_comments", "update_check"}
  \/ pc[w] = "finish" /\ outcome[w] = "reviewed"

Chargers == {w \in Workers : MayCharge(w)}

SpendInv ==
  /\ IsFiniteSet(Charged)
  /\ DailyCap = 0 => Charged = {} /\ Chargers = {}
  /\ DailyCap # 0 => Cardinality(Charged) + Cardinality(Chargers) <= DailyCap - 1 + Cardinality(Workers)

(* A step adds at most its own run to the charged ones, at the expense of  *)
(* its own worker, or its worker to the chargers, when the cap allows it.  *)
LEMMA SpendStep ==
  ASSUME IInv, [PipelineNext]_pipelineVars
  PROVE  \/ Charged' = Charged /\ Chargers' \subseteq Chargers
         \/ Charged' = Charged /\ ~CapReached
         \/ \E w \in Chargers, j \in Jobs :
              Charged' = Charged \cup {j} /\ Chargers' \subseteq Chargers \ {w}
<1>1. CASE \E w \in Workers : Step(w)
  <2> PICK w \in Workers : Step(w)  BY <1>1
  <2>0. /\ PipelineTypeOK /\ job[w] \in Jobs
        /\ \A j \in Jobs \ {job[w]} : SameJob(j)
        /\ \A v \in Workers \ {w} : SameWorker(v)
    BY StepFrame DEF IInv
  <2>1. CASE Finish(w)
    <3>1. Chargers' \subseteq Chargers \ {w}
      BY <2>0, <2>1 DEF Finish, Goto, Chargers, MayCharge, SameWorker, PipelineTypeOK
    <3>2. CASE cost'[job[w]] = cost[job[w]]
      <4>1. Charged' = Charged  BY <2>0, <3>2 DEF Charged, SameJob
      <4> QED  BY <3>1, <4>1
    <3>3. CASE cost'[job[w]] # cost[job[w]]
      <4>1. outcome[w] = "reviewed" /\ cost'[job[w]] = 1
        BY <2>0, <2>1, <3>3 DEF Finish, FinishRow, runVars, PipelineTypeOK, IInv, WorkerOK, JobOK,
          Running, Begun, Terminal
      <4>2. Charged' = Charged \cup {job[w]}  BY <2>0, <4>1 DEF Charged, SameJob
      <4>3. w \in Chargers  BY <2>1, <4>1 DEF Finish, Chargers, MayCharge
      <4> QED  BY <2>0, <3>1, <4>2, <4>3
    <3> QED  BY <3>2, <3>3
  <2>2. CASE CheckBudget(w)
    <3>1. Charged' = Charged  BY <2>2 DEF CheckBudget, runVars, Charged
    <3>2. CASE ~CapReached  BY <3>1, <3>2
    <3>3. CASE CapReached
      <4>1. pc'[w] = "post_neutral"
        BY <2>0, <2>2, <3>3 DEF CheckBudget, FailOpen, Goto, PipelineTypeOK
      <4>2. Chargers' \subseteq Chargers
        BY <2>0, <4>1 DEF Chargers, MayCharge, SameWorker
      <4> QED  BY <3>1, <4>2
    <3> QED  BY <3>2, <3>3
  <2>3. CASE ~Finish(w) /\ ~CheckBudget(w)
    <3>1. Charged' = Charged
      BY <2>3 DEF Step, CheckRepo, Begin, FindBase, FetchDiff, Chat, Answered, Unreadable, AttemptFails, Paid,
        PostReview, PostComments, PostSummary, RestAppears, SaveComments,
        UpdateCheck, PostNeutral, PassCheck, InsertRun, runVars, Charged
    <3>2. MayCharge(w)' => MayCharge(w)
      <4>1. CASE PassCheck(w)
        <5>1. outcome[w] # "reviewed"
          BY <4>1 DEF PassCheck, IInv, WorkerOK, Running, Begun, Traces
        <5> QED  BY <2>0, <4>1, <5>1 DEF PassCheck, Goto, MayCharge, PipelineTypeOK
      <4>2. CASE ~PassCheck(w)
        BY <2>0, <2>3, <4>2 DEF Step, CheckRepo, Begin, FindBase, FetchDiff, Chat, Answered, Unreadable, AttemptFails, Paid,
        PostReview, PostComments, PostSummary, RestAppears,
          SaveComments, UpdateCheck, PostNeutral, FailOpen, Goto, MayCharge, PipelineTypeOK
      <4> QED  BY <4>1, <4>2
    <3>3. Chargers' \subseteq Chargers
      BY <2>0, <3>2 DEF Chargers, MayCharge, SameWorker
    <3> QED  BY <3>1, <3>3
  <2> QED  BY <2>1, <2>2, <2>3
<1>2. CASE ~ \E w \in Workers : Step(w)
  <2>1. /\ \A j \in Jobs : SameJob(j)
        /\ \A w \in Workers : SameWorker(w) \/ ~Running(w)'
    BY <1>2, OtherFrame DEF IInv
  <2> QED  BY <2>1 DEF Charged, Chargers, MayCharge, SameJob, SameWorker, Running, Begun
<1> QED  BY <1>1, <1>2

(* Every step keeps the spend within what the workers in flight may add.   *)
LEMMA SpendInvStep ==
  ASSUME IInv, SpendInv, [PipelineNext]_pipelineVars
  PROVE  SpendInv'
<1>1. IsFiniteSet(Workers) /\ DailyCap \in Nat  BY PipelineAssumption
<1>2. /\ Chargers \subseteq Workers /\ Chargers' \subseteq Workers
      /\ IsFiniteSet(Chargers) /\ IsFiniteSet(Chargers')
      /\ Cardinality(Chargers') <= Cardinality(Workers)
  <2>1. Chargers \subseteq Workers /\ Chargers' \subseteq Workers  BY DEF Chargers
  <2> QED  BY <1>1, <2>1, FS_Subset
<1>3. /\ Cardinality(Workers) \in Nat /\ Cardinality(Chargers) \in Nat
      /\ Cardinality(Chargers') \in Nat /\ Cardinality(Charged) \in Nat
  BY <1>1, <1>2, FS_CardinalityType DEF SpendInv
<1>4. CASE Charged' = Charged /\ Chargers' \subseteq Chargers
  <2>1. Cardinality(Chargers') <= Cardinality(Chargers)  BY <1>2, <1>4, FS_Subset
  <2> QED  BY <1>1, <1>3, <1>4, <2>1 DEF SpendInv
<1>5. CASE Charged' = Charged /\ ~CapReached
  <2>1. DailyCap # 0 /\ Cardinality(Charged) < DailyCap
    BY <1>1, <1>3, <1>5 DEF CapReached, Spend, Charged
  <2> QED  BY <1>1, <1>2, <1>3, <1>5, <2>1 DEF SpendInv
<1>6. ASSUME NEW w \in Chargers, NEW j \in Jobs,
             Charged' = Charged \cup {j}, Chargers' \subseteq Chargers \ {w}
      PROVE  SpendInv'
  <2>1. IsFiniteSet(Charged') /\ Cardinality(Charged') <= Cardinality(Charged) + 1
    BY <1>3, <1>6, FS_AddElement DEF SpendInv
  <2>2. /\ IsFiniteSet(Chargers \ {w})
        /\ Cardinality(Chargers \ {w}) = Cardinality(Chargers) - 1
    BY <1>2, FS_RemoveElement
  <2>3. Cardinality(Chargers') <= Cardinality(Chargers) - 1
    BY <1>6, <2>2, FS_Subset
  <2>4. Cardinality(Charged') \in Nat  BY <2>1, FS_CardinalityType
  <2> QED  BY <1>1, <1>3, <1>6, <2>1, <2>3, <2>4 DEF SpendInv
<1> QED  BY <1>4, <1>5, <1>6, SpendStep

(* OvershootIsBounded: however many workers check the cap at the same      *)
(* time, the recorded spend exceeds it by one call per worker but one.     *)
THEOREM OvershootIsBounded == PipelineSafety => []SpendOvershootBounded
<1>1. PipelineInit => SpendInv
  <2> SUFFICES ASSUME PipelineInit PROVE SpendInv  OBVIOUS
  <2>1. Charged = {} /\ Chargers = {}  BY DEF PipelineInit, Charged, Chargers, MayCharge
  <2> QED
    BY <2>1, FS_EmptySet, FS_CardinalityType, PipelineAssumption DEF SpendInv
<1>2. IInv /\ SpendInv /\ [PipelineNext]_pipelineVars => SpendInv'
  BY SpendInvStep
<1>3. SpendInv => SpendOvershootBounded
  <2> SUFFICES ASSUME SpendInv PROVE SpendOvershootBounded  OBVIOUS
  <2>1. Cardinality(Charged) \in Nat /\ Spend = Cardinality(Charged)
    BY FS_CardinalityType DEF SpendInv, Spend, Charged
  <2>2. IsFiniteSet(Chargers) /\ Cardinality(Chargers) \in Nat
    BY FS_Subset, FS_CardinalityType, PipelineAssumption DEF Chargers
  <2>3. Cardinality(Workers) \in Nat  BY FS_CardinalityType, PipelineAssumption
  <2> QED
    BY <2>1, <2>2, <2>3, FS_EmptySet, PipelineAssumption DEF SpendInv, SpendOvershootBounded
<1> QED  BY <1>1, <1>2, <1>3, PipelineInvariant, PTL DEF PipelineSafety

-----------------------------------------------------------------------------
(* The pipeline implements the ledger: under the mapping of ReviewPipeline *)
(* (phase from the row, findings from the code host, blocked from the      *)
(* check runs) every step of the pipeline is a step of the ledger or       *)
(* leaves it as it is.                                                     *)
Phase == [j \in Jobs |-> PhaseOf(j)]
Blocked == {j \in Jobs : check[j] = "failure"}

(* The rows that a step leaves alone keep their phase.                     *)
LEMMA PhaseUpdate ==
  ASSUME PipelineTypeOK, PipelineTypeOK', NEW i \in Jobs,
         \A j \in Jobs \ {i} : status'[j] = status[j]
  PROVE  Phase' = [Phase EXCEPT ![i] = PhaseOf(i)']
BY DEF Phase, PhaseOf, PipelineTypeOK, Terminal

(* The initial states of the pipeline map to that of the ledger.           *)
LEMMA LedgerInitial ==
  PipelineInit => Ledger!LedgerInit
BY DEF PipelineInit, Ledger!LedgerInit, PhaseOf, Terminal

(* Every step of the pipeline maps to a step of the ledger or a stutter.   *)
LEMMA LedgerStep ==
  ASSUME IInv, IInv', [PipelineNext]_pipelineVars
  PROVE  [Ledger!LedgerNext]_(Ledger!ledgerVars)
<1> DEFINE Same == Phase' = Phase /\ reviews' = reviews /\ Blocked' = Blocked
<1>0. Same => UNCHANGED Ledger!ledgerVars
  BY DEF Ledger!ledgerVars, Phase, Blocked
<1>1. CASE \E w \in Workers : Step(w)
  <2> PICK w \in Workers : Step(w)  BY <1>1
  <2> PICK j \in Jobs : j = job[w]  BY StepFrame DEF IInv
  <2>0. /\ PipelineTypeOK /\ PipelineTypeOK' /\ j \in Jobs /\ j = job[w]
        /\ \A i \in Jobs \ {j} : SameJob(i)
    BY StepFrame DEF IInv
  <2>1. CASE /\ status' = status /\ reviews' = reviews /\ check' = check
    BY <1>0, <2>1 DEF Phase, PhaseOf, Blocked
  <2>2. CASE status' # status
    <3>1. reviews' = reviews /\ check' = check
      BY <2>2 DEF Step, CheckRepo, Begin, CheckBudget, FindBase, FetchDiff, Chat, Answered, Unreadable, AttemptFails, Paid,
        PostReview, PostComments, PostSummary, RestAppears,
        SaveComments, UpdateCheck, PostNeutral, PassCheck, Finish, runVars, hostVars
    <3>2. \/ status[j] = "absent" /\ status'[j] = "pending"
          \/ status[j] = "pending" /\ status'[j] \in Terminal
      <4>1. CASE Begin(w)
        BY <2>0, <2>2, <4>1 DEF Begin, InsertRun, runVars, PipelineTypeOK
      <4>2. CASE Finish(w)
        <5>1. status[j] = "pending" /\ outcome[w] # "none"
          BY <4>2 DEF Finish, IInv, WorkerOK, Running, Begun, Traces
        <5> QED
          BY <2>0, <2>2, <4>2, <5>1 DEF Finish, FinishRow, runVars, PipelineTypeOK, Outcomes, Terminal
      <4> QED
        BY <2>2, <4>1, <4>2 DEF Step, CheckRepo, CheckBudget, FindBase, FetchDiff, Chat, Answered, Unreadable, AttemptFails, Paid,
        PostReview, PostComments, PostSummary, RestAppears,
          SaveComments, UpdateCheck, PostNeutral, PassCheck, runVars
    <3>3. Phase' = [Phase EXCEPT ![j] = PhaseOf(j)']
      BY <2>0, PhaseUpdate DEF SameJob
    <3>4. \/ Phase[j] = "unclaimed" /\ Phase' = [Phase EXCEPT ![j] = "claimed"]
          \/ Phase[j] = "claimed" /\ Phase' = [Phase EXCEPT ![j] = "closed"]
      BY <2>0, <3>2, <3>3 DEF Phase, PhaseOf, Terminal
    <3>5. Blocked' = Blocked  BY <3>1 DEF Blocked
    <3>6. Ledger!Claim(j) \/ Ledger!Close(j)
      BY <3>1, <3>4, <3>5 DEF Ledger!Claim, Ledger!Close, Phase, Blocked
    <3> QED  BY <3>6 DEF Ledger!LedgerNext
  <2>3. CASE status' = status /\ reviews' # reviews
    <3>1. PostReview(w) \/ PostComments(w)
      BY <2>3 DEF Step, CheckRepo, Begin, CheckBudget, FindBase, FetchDiff, Chat, PostSummary,
        SaveComments, UpdateCheck, PostNeutral, PassCheck, Finish, hostVars
    <3>2. /\ status[j] = "pending" /\ reviews[j] = 0
      BY <3>1 DEF PostReview, PostComments, IInv, WorkerOK, Running, Begun, Traces, Unseen
    <3>3. reviews' = [reviews EXCEPT ![j] = 1]
      BY <2>0, <2>3, <3>1, <3>2 DEF PostReview, PostComments, ReviewAppears, PipelineTypeOK
    <3>4. Phase' = Phase /\ Blocked' = Blocked
      BY <2>3, <3>1 DEF PostReview, PostComments, Phase, PhaseOf, Blocked
    <3>5. Phase[j] = "claimed"  BY <2>0, <3>2 DEF Phase, PhaseOf, Terminal
    <3>6. Ledger!PublishFindings(j)
      BY <3>2, <3>3, <3>4, <3>5 DEF Ledger!PublishFindings, Phase, Blocked
    <3> QED  BY <3>6 DEF Ledger!LedgerNext
  <2>4. CASE status' = status /\ reviews' = reviews /\ check' # check
    <3>1. UpdateCheck(w) \/ PassCheck(w)
      BY <2>4 DEF Step, CheckRepo, Begin, CheckBudget, FindBase, FetchDiff, Chat, Answered, Unreadable, AttemptFails, Paid,
        PostReview, PostComments, PostSummary, RestAppears,
        SaveComments, PostNeutral, Finish, hostVars
    <3>2. status[j] = "pending" /\ Traces(w, j)
      BY <3>1 DEF UpdateCheck, PassCheck, IInv, WorkerOK, Running, Begun
    <3>3. Phase' = Phase /\ Phase[j] = "claimed"
      BY <2>0, <2>4, <3>2 DEF Phase, PhaseOf, Terminal
    <3>4. CASE check'[j] = "failure"
      <4>1. reviews[j] = 1
        <5>1. UpdateCheck(w)
          BY <2>0, <2>4, <3>1, <3>4 DEF PassCheck, Concludes, PipelineTypeOK
        <5> QED  BY <3>2, <5>1 DEF UpdateCheck, Traces
      <4>2. Blocked' = Blocked \cup {j}  BY <2>0, <3>4 DEF Blocked, SameJob
      <4>3. Ledger!Block(j)
        BY <2>4, <3>3, <4>1, <4>2 DEF Ledger!Block, Phase, Blocked
      <4> QED  BY <4>3 DEF Ledger!LedgerNext
    <3>5. CASE check'[j] # "failure"
      <4>1. Blocked' = Blocked \ {j}  BY <2>0, <3>5 DEF Blocked, SameJob
      <4>2. Ledger!Unblock(j)
        BY <2>4, <3>3, <4>1 DEF Ledger!Unblock, Phase, Blocked
      <4> QED  BY <4>2 DEF Ledger!LedgerNext
    <3> QED  BY <3>4, <3>5
  <2> QED  BY <2>1, <2>2, <2>3, <2>4
<1>2. CASE ~ \E w \in Workers : Step(w)
  <2>1. status' = status /\ reviews' = reviews /\ check' = check
    BY <1>2 DEF PipelineNext, Start, Return, Crash, Leave, SetEnabled, Tombstone, pipelineVars,
      runVars, hostVars
  <2> QED  BY <1>0, <2>1 DEF Phase, PhaseOf, Blocked
<1> QED  BY <1>1, <1>2

(* LedgerImplemented: whatever fails, is redelivered or crashes, a pull    *)
(* request sees each head claimed once, findings published at most once    *)
(* while it is claimed, and its check turned to failure only by published  *)
(* findings.                                                               *)
THEOREM LedgerImplemented == PipelineSafety => ImplementsLedger
<1>1. IInv /\ IInv' /\ [PipelineNext]_pipelineVars => [Ledger!LedgerNext]_(Ledger!ledgerVars)
  BY LedgerStep
<1> QED
  BY <1>1, LedgerInitial, PipelineInvariant, PTL
  DEF PipelineSafety, ImplementsLedger, Ledger!LedgerSpec

-----------------------------------------------------------------------------
(* A worker whose review holds a blocking comment is on its way to fail the*)
(* check, where no call to the code host fails but for the deadline, after *)
(* which it cannot pass the check either.                                  *)
WillFailCheck(w) ==
  Running(w) /\ found[job[w]] = "blocker" =>
    \/ pc[w] \in {"post_summary", "save_comments", "update_check"}
    \/ pc[w] = "finish" /\ outcome[w] = "reviewed"
    \/ w \in late

BlockersFail ==
  /\ \A j \in Jobs : found[j] = "blocker" => check[j] # "success"
  /\ \A w \in Workers : WillFailCheck(w)

LEMMA BlockerStepOwn ==
  ASSUME "vcs" \notin Faults, IInv, BlockersFail, NEW w \in Workers, Step(w)
  PROVE  WillFailCheck(w)' /\ (found'[job[w]] = "blocker" => check'[job[w]] # "success")
<1> DEFINE j == job[w]
<1>0. PipelineTypeOK /\ j \in Jobs /\ job' = job /\ JobOK(j) /\ WorkerOK(w) /\ WillFailCheck(w)
      /\ (found[j] = "blocker" => check[j] # "success")
  BY StepFrame DEF IInv, BlockersFail
<1> USE <1>0 DEF PipelineTypeOK, hostVars, bookVars, localVars, InTime, Fails, Goto, JobOK, WorkerOK,
                 Running, Begun, Traces, Untouched, Unseen, WillFailCheck
<1>1. CASE CheckRepo(w)
  BY <1>1 DEF CheckRepo
<1>2. CASE Begin(w)
  BY <1>2 DEF Begin, InsertRun
<1>3. CASE CheckBudget(w)
  BY <1>3 DEF CheckBudget, FailOpen
<1>4. CASE FindBase(w)
  BY <1>4 DEF FindBase
<1>5. CASE FetchDiff(w)
  BY <1>5 DEF FetchDiff, FailOpen
<1>6. CASE Chat(w)
  BY <1>6 DEF Chat, Answered, Unreadable, AttemptFails, FailOpen
<1>7. CASE PostReview(w)
  BY <1>7 DEF PostReview, ReviewAppears, FailOpen
<1>8. CASE SaveComments(w)
  BY <1>8 DEF SaveComments
<1>9. CASE UpdateCheck(w)
  BY <1>9 DEF UpdateCheck, Concludes, FailOpen
<1>10. CASE PostNeutral(w)
  BY <1>10 DEF PostNeutral
<1>11. CASE PassCheck(w)
  BY <1>11 DEF PassCheck, Concludes
<1>12. CASE Finish(w)
  BY <1>12 DEF Finish, FinishRow
<1>13. CASE PostComments(w)
  BY <1>13 DEF PostComments
<1>14. CASE PostSummary(w)
  BY <1>14 DEF PostSummary, RestAppears, FailOpen
<1> QED
  BY <1>1, <1>2, <1>3, <1>4, <1>5, <1>6, <1>7, <1>8, <1>9, <1>10, <1>11, <1>12, <1>13, <1>14
  DEF Step

LEMMA BlockersFailStep ==
  ASSUME "vcs" \notin Faults, IInv, IInv', BlockersFail, [PipelineNext]_pipelineVars
  PROVE  BlockersFail'
<1>1. PipelineTypeOK /\ PipelineTypeOK'
  BY DEF IInv
<1>2. CASE \E w \in Workers : Step(w)
  <2> PICK w \in Workers : Step(w)  BY <1>2
  <2>1. /\ job[w] \in Jobs /\ job' = job
        /\ \A j \in Jobs \ {job[w]} : SameJob(j)
        /\ \A v \in Workers \ {w} : SameWorker(v)
    BY <1>1, StepFrame
  <2>2. WillFailCheck(w)' /\ (found'[job[w]] = "blocker" => check'[job[w]] # "success")
    BY BlockerStepOwn
  <2>3. \A j \in Jobs : found'[j] = "blocker" => check'[j] # "success"
    BY <2>1, <2>2 DEF BlockersFail, SameJob
  <2>4. ASSUME NEW v \in Workers, v # w PROVE WillFailCheck(v)'
    <3> SUFFICES ASSUME Running(v)' PROVE WillFailCheck(v)'
      BY DEF WillFailCheck
    <3>1. SameWorker(v) /\ Running(v) /\ job[v] \in Jobs
      BY <1>1, <2>1, <2>4 DEF SameWorker, Running, PipelineTypeOK, Begun
    <3>2. job[v] # job[w] \/ SameJob(job[w])
      BY <2>4, <3>1, StepOwn DEF IInv, OneWorkerPerJob, WorkerOK
    <3>3. SameJob(job[v])
      BY <2>1, <3>1, <3>2
    <3> QED  BY <2>1, <3>1, <3>3 DEF BlockersFail, WillFailCheck, SameJob, SameWorker
  <2> QED  BY <2>2, <2>3, <2>4 DEF BlockersFail
<1>3. CASE ~ \E w \in Workers : Step(w)
  <2>1. /\ \A j \in Jobs : SameJob(j)
        /\ \A w \in Workers : SameWorker(w) \/ ~Running(w)'
    BY <1>1, <1>3, OtherFrame
  <2>2. ASSUME NEW w \in Workers PROVE WillFailCheck(w)'
    <3> SUFFICES ASSUME SameWorker(w), Running(w), job[w] \in Jobs PROVE WillFailCheck(w)'
      BY <1>1, <2>1 DEF WillFailCheck, SameWorker, Running, PipelineTypeOK, Begun
    <3> QED  BY <2>1 DEF BlockersFail, WillFailCheck, SameJob, SameWorker
  <2> QED  BY <2>1, <2>2 DEF BlockersFail, SameJob
<1> QED  BY <1>2, <1>3

(* OnlyFailedCallsPassBlockers: what design.md says of the status check is *)
(* true whenever no call to the code host fails, whatever else does; the   *)
(* violation that MCPipelineCheck finds needs such a call.                 *)
THEOREM OnlyFailedCallsPassBlockers ==
  "vcs" \notin Faults => (PipelineSafety => []PostedBlockerNeverPasses)
<1> SUFFICES ASSUME "vcs" \notin Faults PROVE PipelineSafety => []PostedBlockerNeverPasses
  OBVIOUS
<1>1. PipelineInit => BlockersFail
  BY DEF PipelineInit, BlockersFail, WillFailCheck, Running, Begun
<1>2. IInv /\ IInv' /\ BlockersFail /\ [PipelineNext]_pipelineVars => BlockersFail'
  BY BlockersFailStep
<1>3. BlockersFail => PostedBlockerNeverPasses
  BY DEF BlockersFail, PostedBlockerNeverPasses
<1> QED  BY <1>1, <1>2, <1>3, PipelineInvariant, PTL DEF PipelineSafety
=============================================================================
