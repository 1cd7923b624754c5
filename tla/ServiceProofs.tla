---------------------------- MODULE ServiceProofs ----------------------------
(***************************************************************************)
(* The services around the pipelines: an accepted event has its job, a     *)
(* limiter lets twice its limit through at most, the in-memory bus calls a *)
(* handler once for a key, only valid settings are in effect, and the      *)
(* context operators add to prompts is kept.                               *)
(***************************************************************************)
EXTENDS MCServices, ReviewStepProofs

(* A request that has passed Verify comes from a configured host and has a *)
(* job exactly if it is on its way to publish it; by then its repository is*)
(* registered.                                                             *)
Passed(q) ==
  /\ stage[q] \in {"ensure", "publish", "append"} => event[q].host \in Configured
  /\ stage[q] \in {"ensure", "publish"} => QueueOf(event[q]) # ""
  /\ stage[q] = "append" => QueueOf(event[q]) = ""
  /\ stage[q] = "publish" /\ Describes(event[q]) => event[q].repo \in DOMAIN registered
  /\ stage[q] = "202" /\ QueueOf(event[q]) # "" =>
       /\ <<QueueOf(event[q]), event[q]>> \in jobs
       /\ Describes(event[q]) => event[q].repo \in DOMAIN registered

IntakeInv == IntakeTypeOK /\ \A q \in Requests : Passed(q)

LEMMA QueueNamed ==
  ASSUME NEW e, QueueOf(e) # ""
  PROVE  QueueOf(e) \in {"review", "index", "feedback"}
BY DEF QueueOf

LEMMA IntakeInitial == IntakeInit => IntakeInv
<1>1. PICK r \in HookRepos, k \in HookKinds : TRUE
  BY IntakeAssumption
<1>2. [host |-> "github", repo |-> r, kind |-> k] \in HookEvents
  BY <1>1 DEF HookEvents, HookHosts
<1>3. (CHOOSE e \in HookEvents : TRUE) \in HookEvents
  BY <1>2
<1> QED  BY <1>3 DEF IntakeInit, IntakeInv, IntakeTypeOK, Passed

(* A request that is not the one handled keeps what it has.                *)
LEMMA OthersKeep ==
  ASSUME IntakeInv, NEW q \in Requests, NEW place, StageTo(q, place), UNCHANGED event,
         DOMAIN registered \subseteq DOMAIN registered', jobs \subseteq jobs',
         NEW r \in Requests \ {q}
  PROVE  Passed(r)'
<1>1. Passed(r) /\ stage'[r] = stage[r]
  BY DEF IntakeInv, IntakeTypeOK, StageTo
<1> QED  BY <1>1 DEF Passed

LEMMA IntakeStep == IntakeInv /\ [IntakeNext]_intakeVars => IntakeInv'
<1> SUFFICES ASSUME IntakeInv, [IntakeNext]_intakeVars PROVE IntakeInv'
  OBVIOUS
<1>0. IntakeTypeOK /\ \A q \in Requests : Passed(q)
  BY DEF IntakeInv
<1>1. ASSUME NEW q \in Requests, NEW e \in HookEvents, Receive(q, e) PROVE IntakeInv'
  <2>1. IntakeTypeOK'
    BY <1>0, <1>1 DEF Receive, IntakeTypeOK, StageTo
  <2>2. ASSUME NEW r \in Requests PROVE Passed(r)'
    <3>1. CASE r = q
      BY <1>0, <1>1, <3>1 DEF Receive, IntakeTypeOK, StageTo, Passed
    <3>2. CASE r # q
      <4>1. Passed(r) /\ stage'[r] = stage[r] /\ event'[r] = event[r] /\ UNCHANGED <<registered, jobs>>
        BY <1>0, <1>1, <3>2 DEF Receive, IntakeTypeOK, StageTo
      <4> QED  BY <4>1 DEF Passed
    <3> QED  BY <3>1, <3>2
  <2> QED  BY <2>1, <2>2 DEF IntakeInv
<1>2. ASSUME NEW q \in Requests, Verify(q) PROVE IntakeInv'
  <2> DEFINE e == event[q]
             place == IF e.host \notin Configured THEN "404"
                      ELSE IF Refused(e) THEN "401"
                      ELSE IF e.kind = "/context" THEN "append"
                      ELSE IF QueueOf(e) = "" THEN "202"
                      ELSE IF Describes(e) THEN "ensure" ELSE "publish"
  <2>1. StageTo(q, place) /\ UNCHANGED <<event, registered, jobs>>
    BY <1>2 DEF Verify
  <2>2. /\ place \in {"ensure", "publish", "append"} => e.host \in Configured
        /\ place \in {"ensure", "publish"} => QueueOf(e) # ""
        /\ place = "append" => e.kind = "/context"
        /\ place \in {"publish", "202"} => ~Describes(e) \/ QueueOf(e) = ""
        /\ place = "202" => QueueOf(e) = ""
        /\ place \in {"ensure", "publish", "append"} \cup Statuses
    BY DEF Statuses
  <2>3. place = "append" => QueueOf(e) = ""
    BY <2>2 DEF QueueOf
  <2>4. IntakeTypeOK'
    BY <1>0, <2>1, <2>2 DEF IntakeTypeOK, StageTo
  <2>5. stage'[q] = place /\ event' = event
    BY <1>0, <2>1 DEF IntakeTypeOK, StageTo
  <2>6. Passed(q)'
    BY <2>2, <2>3, <2>5 DEF Passed
  <2>7. \A r \in Requests \ {q} : Passed(r)'
    BY <2>1, OthersKeep
  <2> QED  BY <2>4, <2>6, <2>7 DEF IntakeInv
<1>3. ASSUME NEW q \in Requests, EnsureRepo(q) PROVE IntakeInv'
  <2>1. stage[q] = "ensure" /\ UNCHANGED <<event, jobs>> /\ event[q] \in HookEvents
    BY <1>0, <1>3 DEF EnsureRepo, IntakeTypeOK
  <2>2. CASE /\ registered' = [r \in DOMAIN registered \cup {event[q].repo} |->
                                 IF r = event[q].repo THEN event[q].host ELSE registered[r]]
             /\ StageTo(q, "publish")
    <3>1. /\ DOMAIN registered' = DOMAIN registered \cup {event[q].repo}
          /\ event[q].repo \in HookRepos /\ event[q].host \in HookHosts
      BY <2>1, <2>2 DEF HookEvents
    <3>2. IntakeTypeOK'
      BY <1>0, <2>1, <2>2, <3>1 DEF IntakeTypeOK, StageTo
    <3>3. Passed(q)'
      <4>1. stage'[q] = "publish" /\ event' = event /\ Passed(q)
        BY <1>0, <2>1, <2>2 DEF IntakeTypeOK, StageTo
      <4> QED  BY <2>1, <3>1, <4>1 DEF Passed
    <3>4. \A r \in Requests \ {q} : Passed(r)'
      BY <2>1, <2>2, <3>1, OthersKeep
    <3> QED  BY <3>2, <3>3, <3>4 DEF IntakeInv
  <2>3. CASE StageTo(q, "500") /\ UNCHANGED registered
    <3>1. IntakeTypeOK' /\ Passed(q)'
      BY <1>0, <2>1, <2>3 DEF IntakeTypeOK, StageTo, Statuses, Passed
    <3>2. \A r \in Requests \ {q} : Passed(r)'
      BY <2>1, <2>3, OthersKeep
    <3> QED  BY <3>1, <3>2 DEF IntakeInv
  <2> QED  BY <1>3, <2>2, <2>3 DEF EnsureRepo
<1>4. ASSUME NEW q \in Requests, PublishJob(q) PROVE IntakeInv'
  <2> DEFINE entry == <<QueueOf(event[q]), event[q]>>
  <2>1. /\ stage[q] = "publish" /\ UNCHANGED <<event, registered>> /\ event[q] \in HookEvents
        /\ Passed(q) /\ event[q].host \in Configured
    BY <1>0, <1>4 DEF PublishJob, IntakeTypeOK, Passed
  <2>2. entry \in {"review", "index", "feedback"} \X HookEvents
    BY <2>1, QueueNamed DEF Passed
  <2>3. jobs' = jobs \cup {entry} \/ jobs' = jobs
    BY <1>4 DEF PublishJob
  <2>4. CASE jobs' = jobs \cup {entry} /\ StageTo(q, "202")
    <3>1. stage'[q] = "202" /\ entry \in jobs'
      BY <1>0, <2>4 DEF IntakeTypeOK, StageTo
    <3>2. IntakeTypeOK'
      BY <1>0, <2>1, <2>2, <2>4 DEF IntakeTypeOK, StageTo, Statuses
    <3>3. Passed(q)'
      BY <2>1, <2>4, <3>1 DEF Passed
    <3>4. \A r \in Requests \ {q} : Passed(r)'
      BY <2>1, <2>4, OthersKeep
    <3> QED  BY <3>2, <3>3, <3>4 DEF IntakeInv
  <2>5. CASE StageTo(q, "500")
    <3>1. stage'[q] = "500"
      BY <1>0, <2>5 DEF IntakeTypeOK, StageTo
    <3>2. IntakeTypeOK'
      BY <1>0, <2>1, <2>2, <2>3, <2>5 DEF IntakeTypeOK, StageTo, Statuses
    <3>3. Passed(q)'
      BY <3>1 DEF Passed
    <3>4. \A r \in Requests \ {q} : Passed(r)'
      BY <2>1, <2>3, <2>5, OthersKeep
    <3> QED  BY <3>2, <3>3, <3>4 DEF IntakeInv
  <2> QED  BY <1>4, <2>4, <2>5 DEF PublishJob
<1>5. ASSUME NEW q \in Requests, AppendContext(q) PROVE IntakeInv'
  <2>1. PICK status \in {"202", "500"} : StageTo(q, status)
    BY <1>5 DEF AppendContext
  <2>2. stage[q] = "append" /\ UNCHANGED <<event, registered, jobs>> /\ Passed(q)
    BY <1>0, <1>5 DEF AppendContext
  <2>3. stage'[q] = status /\ IntakeTypeOK'
    BY <1>0, <2>1, <2>2 DEF IntakeTypeOK, StageTo, Statuses
  <2>4. Passed(q)'
    BY <2>1, <2>2, <2>3 DEF Passed
  <2>5. \A r \in Requests \ {q} : Passed(r)'
    BY <2>1, <2>2, OthersKeep
  <2> QED  BY <2>3, <2>4, <2>5 DEF IntakeInv
<1>6. CASE UNCHANGED intakeVars
  BY <1>0, <1>6 DEF intakeVars, IntakeInv, IntakeTypeOK, Passed
<1> QED  BY <1>1, <1>2, <1>3, <1>4, <1>5, <1>6 DEF IntakeNext

(* An event that was answered 202 has its job and, if it describes its     *)
(* repository, the repository's row, for any number of concurrent requests *)
(* (webhookHandler and the route functions of cmd/webhook-gateway).          *)
THEOREM AcceptedHaveJobs == IntakeSpec => [](IntakeTypeOK /\ AcceptedIsPublished)
<1>1. IntakeInv => AcceptedIsPublished
  BY DEF IntakeInv, Passed, AcceptedIsPublished
<1>2. IntakeInv => IntakeTypeOK
  BY DEF IntakeInv
<1> QED  BY IntakeInitial, IntakeStep, <1>1, <1>2, PTL DEF IntakeSpec

-----------------------------------------------------------------------------
(* What a bucket that has let used requests through since it began, age    *)
(* steps ago, says of the requests passed in the last i steps: all those of*)
(* steps after it began are its own, and the bucket before it had let no   *)
(* more than the limit through.                                            *)
Accounts(passed, used, age) ==
  \A i \in 1..Window : passed[i] <= used + Limit /\ (i <= age => passed[i] <= used)

LimitInv ==
  /\ LimitTypeOK
  /\ \A a \in Addresses :
       /\ IF a \in DOMAIN logins THEN Accounts(passedLogins[a], logins[a].n, logins[a].age)
          ELSE \A i \in 1..Window : passedLogins[a][i] <= Limit
       /\ IF a \in DOMAIN hooks THEN Accounts(passedHooks[a], Limit - hooks[a].n, hooks[a].age)
          ELSE \A i \in 1..Window : passedHooks[a][i] = 0

LEMMA LimitInitial == LimitInit => LimitInv
BY LimitAssumption DEF LimitInit, LimitInv, LimitTypeOK, Counts, Buckets

LEMMA OneMoreCounted ==
  ASSUME NEW counts \in Counts, NEW a \in Addresses
  PROVE  /\ OneMore(counts, a) \in Counts
         /\ \A i \in 1..Window : OneMore(counts, a)[a][i] = counts[a][i] + 1
         /\ \A x \in Addresses \ {a} : OneMore(counts, a)[x] = counts[x]
<1>1. \A x \in Addresses : counts[x] \in [1..Window -> Nat]
  BY DEF Counts
<1>2. \A x \in Addresses, i \in 1..Window : OneMore(counts, a)[x][i] = IF x = a THEN counts[x][i] + 1 ELSE counts[x][i]
  BY DEF OneMore
<1>3. OneMore(counts, a) = [x \in Addresses |-> OneMore(counts, a)[x]]
      /\ \A x \in Addresses : OneMore(counts, a)[x] = [i \in 1..Window |-> OneMore(counts, a)[x][i]]
  BY DEF OneMore
<1>4. \A x \in Addresses : OneMore(counts, a)[x] \in [1..Window -> Nat]
  <2> SUFFICES ASSUME NEW x \in Addresses PROVE OneMore(counts, a)[x] \in [1..Window -> Nat]
    OBVIOUS
  <2>1. \A i \in 1..Window : counts[x][i] \in Nat
    BY <1>1
  <2>2. \A i \in 1..Window : OneMore(counts, a)[x][i] \in Nat
    BY <1>2, <2>1
  <2> QED  BY <1>3, <2>2
<1>5. OneMore(counts, a) \in Counts
  BY <1>3, <1>4 DEF Counts
<1>6. \A x \in Addresses \ {a} : OneMore(counts, a)[x] = counts[x]
  <2>1. \A x \in Addresses : counts[x] = [i \in 1..Window |-> counts[x][i]]
    BY <1>1
  <2>2. \A x \in Addresses \ {a} : OneMore(counts, a)[x] = [i \in 1..Window |-> counts[x][i]]
    BY DEF OneMore
  <2> QED  BY <2>1, <2>2
<1> QED  BY <1>2, <1>5, <1>6

(* A bucket of its own opened anew: the one before has let the limit       *)
(* through at most.                                                        *)
LEMMA NewBucketAccounts ==
  ASSUME NEW before \in [1..Window -> Nat], NEW after \in [1..Window -> Nat],
         NEW used \in Nat,
         \A i \in 1..Window : before[i] <= Limit /\ after[i] = before[i] + used
  PROVE  Accounts(after, used, 0)
BY LimitAssumption DEF Accounts

(* A step of time: what passed in the last i steps passed in the last      *)
(* i - 1 of the step before.                                               *)
LEMMA OlderAccounts ==
  ASSUME NEW passed \in [1..Window -> Nat], NEW used \in 0..Limit, NEW age \in 0..MaxAge,
         Accounts(passed, used, age)
  PROVE  Accounts([i \in 1..Window |-> IF i = 1 THEN 0 ELSE passed[i - 1]], used,
                  IF age = MaxAge THEN age ELSE age + 1)
<1> SUFFICES ASSUME NEW i \in 1..Window
             PROVE  LET n == IF i = 1 THEN 0 ELSE passed[i - 1]
                        older == IF age = MaxAge THEN age ELSE age + 1
                    IN  n <= used + Limit /\ (i <= older => n <= used)
  BY DEF Accounts
<1>1. CASE i = 1
  BY <1>1, LimitAssumption
<1>2. CASE i # 1
  <2>1. i - 1 \in 1..Window /\ passed[i - 1] \in Nat
    BY <1>2, LimitAssumption
  <2>2. passed[i - 1] <= used + Limit /\ (i - 1 <= age => passed[i - 1] <= used)
    BY <2>1 DEF Accounts
  <2> QED  BY <1>2, <2>1, <2>2, LimitAssumption
<1> QED  BY <1>1, <1>2

(* A bucket older than the window has accounted for all of it.             *)
LEMMA OldBucketHeldAll ==
  ASSUME NEW passed \in [1..Window -> Nat], NEW used \in 0..Limit, NEW age \in 0..MaxAge,
         Accounts(passed, used, age), age >= Window
  PROVE  \A i \in 1..Window : passed[i] <= Limit
BY LimitAssumption DEF Accounts

LEMMA LimitStep == LimitInv /\ [LimitNext]_limitVars => LimitInv'
<1> SUFFICES ASSUME LimitInv, [LimitNext]_limitVars PROVE LimitInv'
  OBVIOUS
<1>0. /\ passedLogins \in Counts /\ passedHooks \in Counts
      /\ DOMAIN logins \subseteq Addresses /\ \A a \in DOMAIN logins : logins[a] \in Buckets
      /\ DOMAIN hooks \subseteq Addresses /\ \A a \in DOMAIN hooks : hooks[a] \in Buckets
      /\ \A a \in Addresses : passedLogins[a] \in [1..Window -> Nat] /\ passedHooks[a] \in [1..Window -> Nat]
  BY DEF LimitInv, LimitTypeOK, Counts
<1>00. \A b \in Buckets : /\ b = [n |-> b.n, age |-> b.age] /\ b.n \in 0..Limit /\ b.age \in 0..MaxAge
                          /\ b.n \in Nat /\ b.age \in Nat
  BY LimitAssumption DEF Buckets
<1>1. ASSUME NEW a \in Addresses, AllowLogin(a) PROVE LimitInv'
  <2>1. /\ passedLogins' = OneMore(passedLogins, a) /\ UNCHANGED <<hooks, passedHooks>>
    BY <1>1 DEF AllowLogin
  <2>2. /\ passedLogins' \in Counts
        /\ \A i \in 1..Window : passedLogins'[a][i] = passedLogins[a][i] + 1
        /\ \A x \in Addresses \ {a} : passedLogins'[x] = passedLogins[x]
    BY <1>0, <2>1, OneMoreCounted
  <2>3. passedLogins'[a] \in [1..Window -> Nat] /\ passedLogins[a] \in [1..Window -> Nat]
    BY <1>0, <2>2 DEF Counts
  <2>4. CASE a \notin DOMAIN logins \/ (a \in DOMAIN logins /\ logins[a].age >= Window)
    <3> DEFINE with == With(logins, a, [n |-> 1, age |-> 0])
    <3>1. logins' = GcOld(with)
      BY <1>1, <2>4 DEF AllowLogin
    <3>2. \A i \in 1..Window : passedLogins[a][i] <= Limit
      <4>1. CASE a \notin DOMAIN logins
        BY <4>1 DEF LimitInv
      <4>2. CASE a \in DOMAIN logins /\ logins[a].age >= Window
        BY <1>0, <1>00, <4>2, OldBucketHeldAll DEF LimitInv
      <4> QED  BY <2>4, <4>1, <4>2
    <3>3. Accounts(passedLogins'[a], 1, 0)
      BY <2>2, <2>3, <3>2, NewBucketAccounts
    <3>4. /\ DOMAIN with = DOMAIN logins \cup {a} /\ with[a] = [n |-> 1, age |-> 0]
          /\ \A x \in DOMAIN logins \ {a} : with[x] = logins[x]
      BY DEF With
    <3> HIDE DEF with
    <3>5. /\ DOMAIN logins' = {x \in DOMAIN with : with[x].age <= 2 * Window}
          /\ \A x \in DOMAIN logins' : logins'[x] = with[x]
      BY <3>1 DEF GcOld
    <3>6. a \in DOMAIN logins' /\ logins'[a] = [n |-> 1, age |-> 0]
      BY <3>4, <3>5, LimitAssumption
    <3>7. DOMAIN logins' \subseteq Addresses /\ \A x \in DOMAIN logins' : logins'[x] \in Buckets
      <4>1. [n |-> 1, age |-> 0] \in Buckets
        BY LimitAssumption DEF Buckets
      <4> QED  BY <1>0, <3>4, <3>5, <3>6, <4>1
    <3>8. ASSUME NEW x \in Addresses
          PROVE  IF x \in DOMAIN logins' THEN Accounts(passedLogins'[x], logins'[x].n, logins'[x].age)
                 ELSE \A i \in 1..Window : passedLogins'[x][i] <= Limit
      <4>1. CASE x = a
        BY <3>3, <3>6, <4>1
      <4>2. CASE x # a /\ x \in DOMAIN logins'
        BY <2>2, <3>4, <3>5, <4>2 DEF LimitInv
      <4>3. CASE x # a /\ x \notin DOMAIN logins
        BY <2>2, <3>4, <3>5, <4>3 DEF LimitInv
      <4>4. CASE x # a /\ x \in DOMAIN logins /\ x \notin DOMAIN logins'
        <5>1. logins[x].age >= Window /\ logins[x] \in Buckets
          BY <1>0, <1>00, <3>4, <3>5, <4>4, LimitAssumption
        <5>2. \A i \in 1..Window : passedLogins[x][i] <= Limit
          BY <1>0, <1>00, <4>4, <5>1, OldBucketHeldAll DEF LimitInv
        <5> QED  BY <2>2, <4>4, <5>2
      <4> QED  BY <4>1, <4>2, <4>3, <4>4
    <3> QED  BY <1>0, <2>1, <2>2, <3>7, <3>8 DEF LimitInv, LimitTypeOK
  <2>5. CASE a \in DOMAIN logins /\ ~(logins[a].age >= Window)
    <3>1. logins[a].n < Limit /\ logins' = [logins EXCEPT ![a].n = @ + 1]
      BY <1>1, <2>5 DEF AllowLogin
    <3>2. /\ DOMAIN logins' = DOMAIN logins
          /\ logins'[a] = [n |-> logins[a].n + 1, age |-> logins[a].age]
          /\ \A x \in DOMAIN logins \ {a} : logins'[x] = logins[x]
      BY <1>0, <1>00, <2>5, <3>1
    <3>3. logins'[a] \in Buckets
      BY <1>0, <1>00, <2>5, <3>1, <3>2, LimitAssumption DEF Buckets
    <3>4. Accounts(passedLogins'[a], logins[a].n + 1, logins[a].age)
      <4>1. /\ Accounts(passedLogins[a], logins[a].n, logins[a].age)
            /\ logins[a].n \in Nat /\ logins[a].age \in Nat
        BY <1>0, <1>00, <2>5 DEF LimitInv
      <4>2. ASSUME NEW i \in 1..Window
            PROVE  /\ passedLogins'[a][i] <= (logins[a].n + 1) + Limit
                   /\ i <= logins[a].age => passedLogins'[a][i] <= logins[a].n + 1
        <5>1. /\ passedLogins[a][i] <= logins[a].n + Limit
              /\ i <= logins[a].age => passedLogins[a][i] <= logins[a].n
          BY <4>1 DEF Accounts
        <5>2. passedLogins'[a][i] = passedLogins[a][i] + 1 /\ passedLogins[a][i] \in Nat
          BY <2>2, <2>3
        <5> QED  BY <4>1, <5>1, <5>2, LimitAssumption
      <4> QED  BY <4>2 DEF Accounts
    <3> QED  BY <1>0, <2>1, <2>2, <2>5, <3>2, <3>3, <3>4 DEF LimitInv, LimitTypeOK
  <2> QED  BY <2>4, <2>5
<1>2. ASSUME NEW a \in Addresses, AllowHook(a) PROVE LimitInv'
  <2> DEFINE b == IF a \in DOMAIN hooks THEN Refilled(hooks[a]) ELSE [n |-> Limit, age |-> 0]
  <2>1. /\ b.n > 0 /\ hooks' = With(hooks, a, [b EXCEPT !.n = @ - 1])
        /\ passedHooks' = OneMore(passedHooks, a) /\ UNCHANGED <<logins, passedLogins>>
    BY <1>2 DEF AllowHook
  <2>2. /\ passedHooks' \in Counts
        /\ \A i \in 1..Window : passedHooks'[a][i] = passedHooks[a][i] + 1
        /\ \A x \in Addresses \ {a} : passedHooks'[x] = passedHooks[x]
    BY <1>0, <2>1, OneMoreCounted
  <2>3. passedHooks'[a] \in [1..Window -> Nat] /\ passedHooks[a] \in [1..Window -> Nat]
    BY <1>0, <2>2 DEF Counts
  <2>4. b \in Buckets /\ Accounts(passedHooks[a], Limit - b.n, b.age)
    <3>1. CASE a \notin DOMAIN hooks
      <4>1. b = [n |-> Limit, age |-> 0] /\ \A i \in 1..Window : passedHooks[a][i] = 0
        BY <3>1 DEF LimitInv
      <4> QED  BY <4>1, LimitAssumption DEF Buckets, Accounts
    <3>2. CASE a \in DOMAIN hooks /\ hooks[a].age >= Window
      <4>1. b = [n |-> Limit, age |-> 0]
        BY <3>2 DEF Refilled
      <4>2. /\ Accounts(passedHooks[a], Limit - hooks[a].n, hooks[a].age)
            /\ Limit - hooks[a].n \in 0..Limit /\ hooks[a].age \in 0..MaxAge
        BY <1>0, <1>00, <3>2, LimitAssumption DEF LimitInv
      <4>3. \A i \in 1..Window : passedHooks[a][i] <= Limit
        BY <2>3, <3>2, <4>2, OldBucketHeldAll
      <4> QED  BY <2>3, <4>1, <4>3, LimitAssumption DEF Buckets, Accounts
    <3>3. CASE a \in DOMAIN hooks /\ ~(hooks[a].age >= Window)
      BY <1>0, <3>3 DEF Refilled, LimitInv
    <3> QED  BY <3>1, <3>2, <3>3
  <2>5. b = [n |-> b.n, age |-> b.age] /\ b.n \in 0..Limit /\ b.age \in 0..MaxAge
    BY <1>00, <2>4
  <2> HIDE DEF b
  <2> DEFINE c == [n |-> b.n - 1, age |-> b.age]
  <2>6. c = [b EXCEPT !.n = @ - 1] /\ c \in Buckets
    BY <2>1, <2>5, LimitAssumption DEF Buckets
  <2>7. Accounts(passedHooks'[a], Limit - (b.n - 1), b.age)
    <3>1. ASSUME NEW i \in 1..Window
          PROVE  /\ passedHooks'[a][i] <= (Limit - (b.n - 1)) + Limit
                 /\ i <= b.age => passedHooks'[a][i] <= Limit - (b.n - 1)
      <4>1. /\ passedHooks[a][i] <= (Limit - b.n) + Limit
            /\ i <= b.age => passedHooks[a][i] <= Limit - b.n
        BY <2>4 DEF Accounts
      <4>2. passedHooks'[a][i] = passedHooks[a][i] + 1 /\ passedHooks[a][i] \in Nat
        BY <2>2, <2>3
      <4> QED  BY <2>5, <4>1, <4>2, LimitAssumption
    <3> QED  BY <3>1 DEF Accounts
  <2>8. /\ DOMAIN hooks' = DOMAIN hooks \cup {a} /\ hooks'[a] = c
        /\ \A x \in DOMAIN hooks \ {a} : hooks'[x] = hooks[x]
    BY <2>1, <2>6 DEF With
  <2>9. ASSUME NEW x \in Addresses
        PROVE  IF x \in DOMAIN hooks' THEN Accounts(passedHooks'[x], Limit - hooks'[x].n, hooks'[x].age)
               ELSE \A i \in 1..Window : passedHooks'[x][i] = 0
    BY <2>2, <2>7, <2>8 DEF LimitInv
  <2> QED  BY <1>0, <2>1, <2>2, <2>6, <2>8, <2>9 DEF LimitInv, LimitTypeOK
<1>3. CASE TickTime
  <2>1. /\ logins' = Older(logins) /\ hooks' = Older(hooks)
        /\ passedLogins' = Shifted(passedLogins) /\ passedHooks' = Shifted(passedHooks)
    BY <1>3 DEF TickTime
  <2>2. ASSUME NEW counts \in Counts PROVE Shifted(counts) \in Counts
    <3>1. \A x \in Addresses, i \in 1..Window : counts[x][i] \in Nat
      BY DEF Counts
    <3>2. \A i \in 1..Window : i = 1 \/ i - 1 \in 1..Window
      BY LimitAssumption
    <3>3. \A x \in Addresses, i \in 1..Window : (IF i = 1 THEN 0 ELSE counts[x][i - 1]) \in Nat
      BY <3>1, <3>2
    <3>4. \A x \in Addresses : [i \in 1..Window |-> IF i = 1 THEN 0 ELSE counts[x][i - 1]] \in [1..Window -> Nat]
      BY <3>3
    <3> QED  BY <3>4 DEF Counts, Shifted
  <2>3. ASSUME NEW x \in Addresses
        PROVE  /\ passedLogins'[x] = [i \in 1..Window |-> IF i = 1 THEN 0 ELSE passedLogins[x][i - 1]]
               /\ passedHooks'[x] = [i \in 1..Window |-> IF i = 1 THEN 0 ELSE passedHooks[x][i - 1]]
               /\ \A i \in 1..Window :
                    /\ passedLogins'[x][i] = IF i = 1 THEN 0 ELSE passedLogins[x][i - 1]
                    /\ passedHooks'[x][i] = IF i = 1 THEN 0 ELSE passedHooks[x][i - 1]
    BY <2>1 DEF Shifted
  <2>4. /\ DOMAIN logins' = DOMAIN logins /\ DOMAIN hooks' = DOMAIN hooks
        /\ \A x \in DOMAIN logins : logins'[x] = [n |-> logins[x].n,
             age |-> IF logins[x].age = MaxAge THEN logins[x].age ELSE logins[x].age + 1]
        /\ \A x \in DOMAIN hooks : hooks'[x] = [n |-> hooks[x].n,
             age |-> IF hooks[x].age = MaxAge THEN hooks[x].age ELSE hooks[x].age + 1]
    <3>1. \A b \in Buckets : [b EXCEPT !.age = IF @ = MaxAge THEN @ ELSE @ + 1] =
            [n |-> b.n, age |-> IF b.age = MaxAge THEN b.age ELSE b.age + 1]
      BY <1>00
    <3> QED  BY <1>0, <2>1, <3>1 DEF Older
  <2>5. LimitTypeOK'
    <3>1. passedLogins' \in Counts /\ passedHooks' \in Counts
      BY <1>0, <2>1, <2>2
    <3>2. \A b \in Buckets : [n |-> b.n, age |-> IF b.age = MaxAge THEN b.age ELSE b.age + 1] \in Buckets
      BY LimitAssumption DEF Buckets
    <3> QED  BY <1>0, <2>1, <2>4, <3>1, <3>2 DEF LimitTypeOK
  <2>6. ASSUME NEW x \in Addresses
        PROVE  IF x \in DOMAIN logins' THEN Accounts(passedLogins'[x], logins'[x].n, logins'[x].age)
               ELSE \A i \in 1..Window : passedLogins'[x][i] <= Limit
    <3>1. CASE x \in DOMAIN logins
      <4>1. /\ Accounts(passedLogins[x], logins[x].n, logins[x].age)
            /\ logins[x].n \in 0..Limit /\ logins[x].age \in 0..MaxAge
        BY <1>0, <1>00, <3>1 DEF LimitInv
      <4>2. /\ logins'[x].n = logins[x].n
            /\ logins'[x].age = IF logins[x].age = MaxAge THEN logins[x].age ELSE logins[x].age + 1
        BY <1>0, <2>1, <2>4, <3>1
      <4>3. passedLogins'[x] = [i \in 1..Window |-> IF i = 1 THEN 0 ELSE passedLogins[x][i - 1]]
        BY <2>1, <2>3
      <4>4. Accounts(passedLogins'[x], logins'[x].n, logins'[x].age)
        BY <1>0, <4>1, <4>2, <4>3, OlderAccounts
      <4> QED  BY <2>1, <2>4, <3>1, <4>4
    <3>2. CASE x \notin DOMAIN logins
      <4>1. \A i \in 1..Window : passedLogins[x][i] <= Limit /\ passedLogins[x][i] \in Nat
        BY <1>0, <3>2 DEF LimitInv
      <4>2. \A i \in 1..Window : passedLogins'[x][i] = IF i = 1 THEN 0 ELSE passedLogins[x][i - 1]
        BY <2>1, <2>3
      <4>3. \A i \in 1..Window : i = 1 \/ i - 1 \in 1..Window
        BY LimitAssumption
      <4>4. \A i \in 1..Window : passedLogins'[x][i] <= Limit
        BY <4>1, <4>2, <4>3, LimitAssumption
      <4> QED  BY <2>1, <2>4, <3>2, <4>4
    <3> QED  BY <3>1, <3>2
  <2>7. ASSUME NEW x \in Addresses
        PROVE  IF x \in DOMAIN hooks' THEN Accounts(passedHooks'[x], Limit - hooks'[x].n, hooks'[x].age)
               ELSE \A i \in 1..Window : passedHooks'[x][i] = 0
    <3>1. CASE x \in DOMAIN hooks
      <4>1. /\ Accounts(passedHooks[x], Limit - hooks[x].n, hooks[x].age)
            /\ Limit - hooks[x].n \in 0..Limit /\ hooks[x].age \in 0..MaxAge
        BY <1>0, <1>00, <3>1, LimitAssumption DEF LimitInv
      <4>2. /\ hooks'[x].n = hooks[x].n
            /\ hooks'[x].age = IF hooks[x].age = MaxAge THEN hooks[x].age ELSE hooks[x].age + 1
        BY <1>0, <2>1, <2>4, <3>1
      <4>3. passedHooks'[x] = [i \in 1..Window |-> IF i = 1 THEN 0 ELSE passedHooks[x][i - 1]]
        BY <2>1, <2>3
      <4>4. Accounts([i \in 1..Window |-> IF i = 1 THEN 0 ELSE passedHooks[x][i - 1]], Limit - hooks[x].n,
                     IF hooks[x].age = MaxAge THEN hooks[x].age ELSE hooks[x].age + 1)
        BY <1>0, <4>1, OlderAccounts
      <4>5. Accounts(passedHooks'[x], Limit - hooks'[x].n, hooks'[x].age)
        BY <4>2, <4>3, <4>4
      <4> QED  BY <2>1, <2>4, <3>1, <4>5
    <3>2. CASE x \notin DOMAIN hooks
      <4>1. \A i \in 1..Window : passedHooks[x][i] = 0
        BY <3>2 DEF LimitInv
      <4>2. \A i \in 1..Window : passedHooks'[x][i] = IF i = 1 THEN 0 ELSE passedHooks[x][i - 1]
        BY <2>1, <2>3
      <4>3. \A i \in 1..Window : i = 1 \/ i - 1 \in 1..Window
        BY LimitAssumption
      <4> QED  BY <2>1, <2>4, <3>2, <4>1, <4>2, <4>3
    <3> QED  BY <3>1, <3>2
  <2> QED  BY <2>5, <2>6, <2>7 DEF LimitInv
<1>4. CASE UNCHANGED limitVars
  BY <1>4 DEF limitVars, LimitInv, LimitTypeOK
<1> QED  BY <1>1, <1>2, <1>3, <1>4 DEF LimitNext

(* Whatever the limit and the window, no window lets more than twice the   *)
(* limit of one address through (rateLimiter.allow of admin/ratelimit.go,  *)
(* webhookLimiterState.allow of cmd/webhook-gateway/main.go).              *)
THEOREM LimitersHold == LimitSpec => [](LimitTypeOK /\ TwiceTheLimitAtMost)
<1>1. LimitInv => TwiceTheLimitAtMost
  <2> SUFFICES ASSUME LimitInv, NEW a \in Addresses
               PROVE  passedLogins[a][Window] <= 2 * Limit /\ passedHooks[a][Window] <= 2 * Limit
    BY DEF TwiceTheLimitAtMost
  <2>1. /\ Window \in 1..Window /\ passedLogins[a][Window] \in Nat /\ passedHooks[a][Window] \in Nat
        /\ a \in DOMAIN logins => logins[a].n \in 0..Limit
        /\ a \in DOMAIN hooks => hooks[a].n \in 0..Limit
    BY LimitAssumption DEF LimitInv, LimitTypeOK, Counts, Buckets
  <2>2. passedLogins[a][Window] <= 2 * Limit
    BY <2>1, LimitAssumption DEF LimitInv, Accounts
  <2>3. passedHooks[a][Window] <= 2 * Limit
    BY <2>1, LimitAssumption DEF LimitInv, Accounts
  <2> QED  BY <2>2, <2>3
<1>2. LimitInv => LimitTypeOK
  BY DEF LimitInv
<1> QED  BY LimitInitial, LimitStep, <1>1, <1>2, PTL DEF LimitSpec

-----------------------------------------------------------------------------
(* A key has one publisher past the lock at most, and none once its handler*)
(* has been called; in either case it is remembered.                       *)
OneForKey ==
  /\ \A k \in MemKeys : attempts[k] <= 1
  /\ \A p \in pastLock : publishing[p] \in MemKeys /\ attempts[publishing[p]] = 0
  /\ \A k \in MemKeys : attempts[k] > 0 => k \in seen
  /\ \A p, q \in pastLock : publishing[p] = publishing[q] => p = q

MemInv == MemTypeOK /\ OneForKey

LEMMA MemInitial == MemInit => MemInv
<1> SUFFICES ASSUME MemInit PROVE MemInv
  OBVIOUS
<1>1. MemTypeOK
  BY DEF MemInit, MemTypeOK
<1>2. OneForKey
  BY DEF MemInit, OneForKey
<1> QED  BY <1>1, <1>2 DEF MemInv

LEMMA MemStep == MemInv /\ [MemNext]_memVars => MemInv'
<1> SUFFICES ASSUME MemInv, [MemNext]_memVars PROVE MemInv'
  OBVIOUS
<1>0. MemTypeOK /\ OneForKey /\ \A k \in MemKeys : attempts[k] \in Nat
  BY DEF MemInv, MemTypeOK
<1>1. CASE Consume \/ StopConsumer
  BY <1>0, <1>1 DEF Consume, StopConsumer, MemInv, MemTypeOK, OneForKey
<1>2. ASSUME NEW p \in Publishers, NEW k \in MemKeys, MemPublish(p, k) PROVE MemInv'
  <2>1. p \notin pastLock
    BY <1>0, <1>2, MemAssumption DEF MemPublish, OneForKey
  <2> QED  BY <1>0, <1>2, <2>1 DEF MemPublish, MemInv, MemTypeOK, OneForKey
<1>3. ASSUME NEW p \in Publishers, Dedup(p) PROVE MemInv'
  <2>1. publishing[p] \in MemKeys /\ p \notin pastLock /\ UNCHANGED <<hasHandler, attempts>>
    BY <1>0, <1>3 DEF Dedup, MemTypeOK
  <2>2. CASE Return(p) /\ pastLock' = pastLock /\ (seen' = seen \/ seen' = seen \cup {publishing[p]})
    BY <1>0, <2>1, <2>2 DEF Return, MemInv, MemTypeOK, OneForKey
  <2>3. CASE /\ publishing[p] \notin seen /\ seen' = seen \cup {publishing[p]}
             /\ pastLock' = pastLock \cup {p} /\ UNCHANGED publishing
    <3>1. \A q \in pastLock : publishing[q] # publishing[p]
      BY <1>0, <2>3 DEF MemTypeOK
    <3>2. attempts[publishing[p]] = 0
      BY <1>0, <2>1, <2>3 DEF OneForKey
    <3> QED  BY <1>0, <2>1, <2>3, <3>1, <3>2 DEF MemInv, MemTypeOK, OneForKey
  <2> QED  BY <1>3, <2>2, <2>3 DEF Dedup, Mark
<1>4. ASSUME NEW p \in Publishers, CallHandler(p) PROVE MemInv'
  <2>1. /\ p \in pastLock /\ pastLock' = pastLock \ {p} /\ UNCHANGED <<seen, hasHandler>>
        /\ attempts' = [attempts EXCEPT ![publishing[p]] = @ + 1]
        /\ publishing' = [publishing EXCEPT ![p] = NoKey]
        /\ publishing[p] \in MemKeys /\ attempts[publishing[p]] = 0 /\ publishing[p] \in seen
    BY <1>0, <1>4 DEF CallHandler, Return, MemTypeOK, OneForKey
  <2>2. \A q \in pastLock' : publishing'[q] = publishing[q] /\ publishing[q] # publishing[p]
    BY <1>0, <2>1 DEF MemTypeOK, OneForKey
  <2>3. MemTypeOK'
    BY <1>0, <2>1, <2>2 DEF MemTypeOK
  <2>4. /\ attempts'[publishing[p]] = 1
        /\ \A k \in MemKeys \ {publishing[p]} : attempts'[k] = attempts[k]
    BY <1>0, <2>1 DEF MemTypeOK
  <2>5. OneForKey'
    BY <1>0, <2>1, <2>2, <2>4 DEF OneForKey
  <2> QED  BY <2>3, <2>5 DEF MemInv
<1>5. CASE UNCHANGED memVars
  BY <1>0, <1>5 DEF memVars, MemInv, MemTypeOK, OneForKey
<1> QED  BY <1>1, <1>2, <1>3, <1>4, <1>5 DEF MemNext

(* Any number of concurrent publishers of a key make one handler call      *)
(* (Bus.Publish of internal/adapters/busmem/bus.go).                       *)
THEOREM MemBusHandlesOnce == MemSpec => [](MemTypeOK /\ HandledOnce)
<1>1. MemInv => HandledOnce
  <2> SUFFICES ASSUME MemInv, NEW k \in MemKeys
               PROVE  attempts[k] + Cardinality({p \in pastLock : publishing[p] = k}) <= 1
    BY DEF HandledOnce
  <2> DEFINE calling == {p \in pastLock : publishing[p] = k}
  <2>1. attempts[k] \in Nat /\ attempts[k] <= 1
    BY DEF MemInv, MemTypeOK, OneForKey
  <2>2. CASE calling = {}
    <3>1. Cardinality(calling) = 0
      BY <2>2, FS_EmptySet
    <3> QED  BY <2>1, <3>1
  <2>3. CASE calling # {}
    <3>1. PICK p \in pastLock : publishing[p] = k
      BY <2>3
    <3>2. calling = {p} /\ attempts[k] = 0
      BY <3>1 DEF MemInv, OneForKey
    <3>3. Cardinality(calling) = 1
      BY <3>2, FS_Singleton
    <3> QED  BY <3>2, <3>3
  <2> QED  BY <2>2, <2>3
<1>2. MemInv => MemTypeOK
  BY DEF MemInv
<1> QED  BY MemInitial, MemStep, <1>1, <1>2, PTL DEF MemSpec

-----------------------------------------------------------------------------
(* The rows and the pairs still to be written are values of their keys, and*)
(* a process that has started works with good ones.                        *)
Rows == SettingValues \cup {NoRow}
GoodConfiguration == [SettingSet -> GoodValues]

SettingsInv ==
  /\ appSettings \in [SettingSet -> Rows]
  /\ unwritten \in Seq(SettingSet \X Rows) /\ Len(unwritten) <= Len(SettingKeys)
  /\ settled \in BOOLEAN
  /\ phase \in [Processes -> {"down", "booting", "up"}]
  /\ boot \in [Processes -> GoodConfiguration]
  /\ current \in [Processes -> GoodConfiguration]

(* An overlay that applies makes a good configuration of a good one.       *)
LEMMA OverlayIsGood ==
  ASSUME appSettings \in [SettingSet -> Rows], Applies, NEW cfg \in GoodConfiguration
  PROVE  ApplyOverlay(cfg) \in GoodConfiguration
<1>1. ParsedKeys = SettingSet
  BY DEF Applies, ParsedKeys
<1>2. ASSUME NEW k \in SettingSet PROVE Overlaid(cfg)[k] \in GoodValues \cup {Zero}
  <2>1. Overlaid(cfg)[k] = IF appSettings[k] # NoRow THEN appSettings[k] ELSE cfg[k]
    BY <1>1 DEF Overlaid
  <2>2. appSettings[k] \in Rows /\ appSettings[k] \notin {Unparsable, Unknown} /\ cfg[k] \in GoodValues
    BY DEF Applies, GoodConfiguration
  <2> QED  BY <2>1, <2>2 DEF Rows, SettingValues
<1>3. \A k \in SettingSet : ApplyOverlay(cfg)[k] \in GoodValues
  BY <1>2, SettingsAssumption DEF ApplyOverlay, Validated
<1>4. ApplyOverlay(cfg) = [k \in SettingSet |-> ApplyOverlay(cfg)[k]]
  BY DEF ApplyOverlay, Validated
<1> QED  BY <1>3, <1>4 DEF GoodConfiguration

LEMMA TomlIsGood == FromToml \in GoodConfiguration
BY SettingsAssumption DEF FromToml, GoodConfiguration

LEMMA KeysFinite ==
  /\ DOMAIN SettingKeys = 1..Len(SettingKeys) /\ Len(SettingKeys) \in Nat
  /\ IsFiniteSet(SettingSet) /\ Cardinality(SettingSet) <= Len(SettingKeys)
<1>1. SettingKeys \in Seq(SettingSet)
  BY SettingsAssumption
<1>2. DOMAIN SettingKeys = 1..Len(SettingKeys) /\ Len(SettingKeys) \in Nat
  BY <1>1
<1>3. IsFiniteSet(1..Len(SettingKeys)) /\ Cardinality(1..Len(SettingKeys)) = Len(SettingKeys)
  <2>1. IsFiniteSet(1..Len(SettingKeys))
    BY <1>2, FS_Interval
  <2>2. Cardinality(1..Len(SettingKeys)) = IF 1 > Len(SettingKeys) THEN 0 ELSE Len(SettingKeys) - 1 + 1
    BY <1>2, FS_Interval
  <2> QED  BY <1>2, <2>1, <2>2
<1>4. SettingKeys \in Surjection(1..Len(SettingKeys), SettingSet)
  BY <1>1, <1>2 DEF Surjection, SettingSet
<1> QED  BY <1>2, <1>3, <1>4, FS_Surjection

LEMMA SettingsStep == SettingsInv /\ [SettingsNext]_settingsVars => SettingsInv'
<1> SUFFICES ASSUME SettingsInv, [SettingsNext]_settingsVars PROVE SettingsInv'
  OBVIOUS
<1>1. ASSUME NEW form \in [SettingSet -> Rows], SaveForm(form) PROVE SettingsInv'
  <2>1. \A i \in 1..Len(SettingKeys) : SettingKeys[i] \in SettingSet
    BY KeysFinite DEF SettingSet
  <2>2. unwritten' = [i \in 1..Len(SettingKeys) |-> <<SettingKeys[i], form[SettingKeys[i]]>>]
    BY <1>1, KeysFinite DEF SaveForm
  <2>3. unwritten' \in Seq(SettingSet \X Rows) /\ Len(unwritten') = Len(SettingKeys)
    BY <2>1, <2>2, KeysFinite
  <2> QED  BY <1>1, <2>3, KeysFinite DEF SaveForm, processVars, SettingsInv
<1>2. ASSUME NEW ks \in SUBSET SettingSet, NEW order \in SetToSeqs(ks), NEW v \in [ks -> SettingValues],
             ImportConfig([i \in DOMAIN order |-> <<order[i], v[order[i]]>>])
      PROVE  SettingsInv'
  <2>1. Cardinality(ks) \in Nat /\ Cardinality(ks) <= Len(SettingKeys)
    <3>1. IsFiniteSet(ks) /\ Cardinality(ks) <= Cardinality(SettingSet)
      BY KeysFinite, FS_Subset
    <3>2. Cardinality(ks) \in Nat /\ Cardinality(SettingSet) \in Nat
      BY <3>1, KeysFinite, FS_CardinalityType
    <3> QED  BY <3>1, <3>2, KeysFinite
  <2>2. order \in [1..Cardinality(ks) -> ks]
    BY DEF SetToSeqs
  <2>3. unwritten' = [i \in 1..Cardinality(ks) |-> <<order[i], v[order[i]]>>]
    BY <1>2, <2>2 DEF ImportConfig
  <2>4. \A i \in 1..Cardinality(ks) : <<order[i], v[order[i]]>> \in SettingSet \X Rows
    BY <2>2 DEF Rows
  <2>5. unwritten' \in Seq(SettingSet \X Rows) /\ Len(unwritten') = Cardinality(ks)
    BY <2>1, <2>3, <2>4
  <2> QED  BY <1>2, <2>1, <2>5 DEF ImportConfig, processVars, SettingsInv
<1>3. CASE WriteNext
  <2>1. /\ unwritten # <<>> /\ unwritten \in Seq(SettingSet \X Rows) /\ UNCHANGED <<settled, phase, boot, current>>
        /\ Len(unwritten) <= Len(SettingKeys) /\ Len(SettingKeys) \in Nat
    BY <1>3, KeysFinite DEF WriteNext, processVars, SettingsInv
  <2>2. /\ Head(unwritten) \in SettingSet \X Rows /\ Tail(unwritten) \in Seq(SettingSet \X Rows)
        /\ Len(Tail(unwritten)) = Len(unwritten) - 1 /\ Len(unwritten) \in Nat
    BY <2>1, HeadTailProperties, LenProperties
  <2>3. <<>> \in Seq(SettingSet \X Rows) /\ Len(<<>>) = 0
    BY EmptySeq
  <2>4. appSettings' \in [SettingSet -> Rows] /\ unwritten' \in Seq(SettingSet \X Rows)
    BY <1>3, <2>2, <2>3 DEF WriteNext, SettingsInv
  <2>5. Len(unwritten') <= Len(SettingKeys)
    BY <1>3, <2>1, <2>2, <2>3 DEF WriteNext
  <2> QED  BY <2>1, <2>4, <2>5 DEF SettingsInv
<1>4. CASE Settle
  BY <1>4 DEF Settle, processVars, SettingsInv
<1>5. ASSUME NEW p \in Processes, StartProcess(p) PROVE SettingsInv'
  <2>1. ApplyOverlay(FromToml) \in GoodConfiguration
    BY <1>5, TomlIsGood, OverlayIsGood DEF StartProcess, SettingsInv
  <2> QED  BY <1>5, <2>1 DEF StartProcess, SettingsInv
<1>6. ASSUME NEW p \in Processes, StartReloader(p) PROVE SettingsInv'
  <2>1. Applies => ApplyOverlay(boot[p]) \in GoodConfiguration
    BY OverlayIsGood DEF SettingsInv
  <2> QED  BY <1>6, <2>1 DEF StartReloader, SettingsInv
<1>7. ASSUME NEW p \in Processes, Reload(p) PROVE SettingsInv'
  <2>1. ApplyOverlay(boot[p]) \in GoodConfiguration
    BY <1>7, OverlayIsGood DEF Reload, SettingsInv
  <2> QED  BY <1>7, <2>1 DEF Reload, SettingsInv
<1>8. ASSUME NEW p \in Processes, ExitProcess(p) PROVE SettingsInv'
  BY <1>8, TomlIsGood DEF ExitProcess, SettingsInv
<1>9. CASE UNCHANGED settingsVars
  BY <1>9 DEF settingsVars, SettingsInv
<1>10. CASE \E form \in [SettingSet -> SettingValues \cup {NoRow}] : SaveForm(form)
  BY <1>1, <1>10 DEF Rows
<1>11. CASE \E ks \in SUBSET SettingSet : \E order \in SetToSeqs(ks), v \in [ks -> SettingValues] :
              ImportConfig([i \in DOMAIN order |-> <<order[i], v[order[i]]>>])
  BY <1>2, <1>11
<1> QED  BY <1>3, <1>4, <1>5, <1>6, <1>7, <1>8, <1>9, <1>10, <1>11 DEF SettingsNext

(* For any keys, values and number of processes, a running process works   *)
(* with values that parse and validate, whatever rows the operator leaves  *)
(* (ApplyOverlay of internal/config, Reloader of internal/boot).           *)
THEOREM SettingsStayValid == SettingsSafety => [](SettingsTypeOK /\ OnlyValidInEffect)
<1>1. SettingsInit => SettingsInv
  <2>1. <<>> \in Seq(SettingSet \X Rows) /\ Len(<<>>) = 0
    BY EmptySeq
  <2> SUFFICES ASSUME SettingsInit PROVE SettingsInv
    OBVIOUS
  <2>2. NoRow \in Rows /\ Len(SettingKeys) \in Nat
    BY KeysFinite DEF Rows
  <2>3. appSettings \in [SettingSet -> Rows]
    BY <2>2 DEF SettingsInit
  <2>4. unwritten \in Seq(SettingSet \X Rows) /\ Len(unwritten) <= Len(SettingKeys)
    BY <2>1, <2>2 DEF SettingsInit
  <2>5. /\ settled \in BOOLEAN /\ phase \in [Processes -> {"down", "booting", "up"}]
        /\ boot \in [Processes -> GoodConfiguration] /\ current \in [Processes -> GoodConfiguration]
    BY TomlIsGood DEF SettingsInit
  <2> QED  BY <2>3, <2>4, <2>5 DEF SettingsInv
<1>2. SettingsInv => SettingsTypeOK /\ OnlyValidInEffect
  <2>1. \A cfg \in GoodConfiguration : cfg \in Configuration
    BY DEF GoodConfiguration, Configuration, SettingValues
  <2>2. SettingsInv => OnlyValidInEffect
    <3> SUFFICES ASSUME SettingsInv, NEW p \in Processes, NEW k \in Uses(p)
                 PROVE  InEffect(p, k) \in GoodValues
      BY DEF OnlyValidInEffect
    <3>1. k \in SettingSet
      BY SettingsAssumption DEF Uses
    <3>2. boot[p] \in GoodConfiguration /\ current[p] \in GoodConfiguration
      BY DEF SettingsInv
    <3> QED  BY <3>1, <3>2 DEF InEffect, GoodConfiguration
  <2> QED
    BY <2>1, <2>2 DEF SettingsInv, SettingsTypeOK, GoodConfiguration, Rows
<1> QED  BY <1>1, <1>2, SettingsStep, PTL DEF SettingsSafety

-----------------------------------------------------------------------------
(* RemoveAt, where there is something to remove.                           *)
LEMMA RemovedNote ==
  ASSUME NEW items \in Seq(BOOLEAN), NEW i \in DOMAIN items
  PROVE  RemoveAt(items, i) \in Seq(BOOLEAN) /\ Len(RemoveAt(items, i)) <= Len(items)
<1>1. i \in 1..Len(items) /\ Len(items) \in Nat /\ \A j \in 1..Len(items) : items[j] \in BOOLEAN
  BY LenProperties, ElementOfSeq
<1>2. SubSeq(items, 1, i - 1) \in Seq(BOOLEAN) /\ Len(SubSeq(items, 1, i - 1)) = i - 1
  BY <1>1, SubSeqProperties
<1>3. SubSeq(items, i + 1, Len(items)) \in Seq(BOOLEAN) /\ Len(SubSeq(items, i + 1, Len(items))) = Len(items) - i
  BY <1>1, SubSeqProperties
<1>4. RemoveAt(items, i) = SubSeq(items, 1, i - 1) \o SubSeq(items, i + 1, Len(items))
  BY DEF RemoveAt
<1> QED  BY <1>1, <1>2, <1>3, <1>4, ConcatProperties

(* The types are inductive: an assignment names a set that exists, for the *)
(* sets that go take their assignments along, and what a transaction holds *)
(* nobody else changes.                                                    *)
LEMMA OperatorContextStep == ContextTypeOK /\ [ContextNext]_contextVars => ContextTypeOK'
<1> SUFFICES ASSUME ContextTypeOK, [ContextNext]_contextVars PROVE ContextTypeOK'
  OBVIOUS
<1>0. MaxNotes \in Nat /\ notes \in Seq(BOOLEAN) /\ Len(notes) \in Nat /\ Len(notes) <= MaxNotes
  BY ContextAssumption, LenProperties DEF ContextTypeOK
<1>1. ASSUME NEW blank \in BOOLEAN, AppendNote(blank) PROVE ContextTypeOK'
  <2>1. notes' \in Seq(BOOLEAN) /\ Len(notes') = Len(notes) + 1 /\ Len(notes) < MaxNotes
    BY <1>0, <1>1, AppendProperties DEF AppendNote
  <2>2. Len(notes') <= MaxNotes
    BY <1>0, <2>1
  <2> QED  BY <1>1, <2>1, <2>2 DEF AppendNote, ContextTypeOK
<1>2. ASSUME NEW i \in DOMAIN notes, DeleteNote(i) PROVE ContextTypeOK'
  <2>1. notes' \in Seq(BOOLEAN) /\ Len(notes') <= Len(notes)
    BY <1>0, <1>2, RemovedNote DEF DeleteNote
  <2>2. Len(notes') \in Nat
    BY <2>1, LenProperties
  <2> QED  BY <1>0, <1>2, <2>1, <2>2 DEF DeleteNote, ContextTypeOK
<1>3. ASSUME NEW i \in DOMAIN notes, DeleteNotesBefore(i) PROVE ContextTypeOK'
  <2>1. i \in 1..Len(notes) /\ \A j \in 1..Len(notes) : notes[j] \in BOOLEAN
    BY <1>0, LenProperties, ElementOfSeq
  <2>2. notes' \in Seq(BOOLEAN) /\ Len(notes') = Len(notes) - i
    BY <1>0, <1>3, <2>1, SubSeqProperties DEF DeleteNotesBefore
  <2>3. Len(notes') <= MaxNotes
    BY <1>0, <2>1, <2>2
  <2> QED  BY <1>3, <2>2, <2>3 DEF DeleteNotesBefore, ContextTypeOK
<1>4. ASSUME NEW s \in InsSets, UpsertSet(s) PROVE ContextTypeOK'
  BY <1>4 DEF UpsertSet, ContextTypeOK
<1>5. ASSUME NEW s \in InsSets, DeleteAssignments(s) PROVE ContextTypeOK'
  BY <1>5 DEF DeleteAssignments, AssignedTo, ContextTypeOK
<1>6. ASSUME NEW s \in InsSets, NEW r \in CtxRepos, Assign(r, s) PROVE ContextTypeOK'
  <2>1. /\ DOMAIN assigned' = DOMAIN assigned \cup {r} /\ assigned'[r] = s /\ s \in insSets /\ r \notin locked
        /\ \A q \in DOMAIN assigned \ {r} : assigned'[q] = assigned[q]
        /\ UNCHANGED <<insSets, deleting, locked, notes>>
    BY <1>6 DEF Assign
  <2> QED  BY <2>1 DEF ContextTypeOK
<1>7. ASSUME NEW r \in CtxRepos, Unassign(r) PROVE ContextTypeOK'
  <2>1. /\ DOMAIN assigned' = DOMAIN assigned \ {r} /\ r \notin locked
        /\ \A q \in DOMAIN assigned \ {r} : assigned'[q] = assigned[q]
        /\ UNCHANGED <<insSets, deleting, locked, notes>>
    BY <1>7 DEF Unassign, Without
  <2> QED  BY <2>1 DEF ContextTypeOK
<1>8. CASE DeleteSet
  <2>1. deleting' = NoSet /\ locked' = {} /\ UNCHANGED notes
    BY <1>8 DEF DeleteSet
  <2>2. CASE UNCHANGED <<insSets, assigned>>
    BY <2>1, <2>2 DEF ContextTypeOK
  <2>3. CASE AssignedTo(deleting) = locked /\ insSets' = insSets \ {deleting} /\ assigned' = Without(locked)
    <3>1. /\ DOMAIN assigned' = DOMAIN assigned \ AssignedTo(deleting)
          /\ \A r \in DOMAIN assigned' : assigned'[r] = assigned[r] /\ assigned[r] # deleting
      BY <2>3 DEF Without, AssignedTo
    <3> QED  BY <2>1, <2>3, <3>1 DEF ContextTypeOK
  <2> QED  BY <1>8, <2>2, <2>3 DEF DeleteSet
<1>9. CASE UNCHANGED contextVars
  BY <1>9 DEF contextVars, ContextTypeOK
<1> QED  BY <1>1, <1>2, <1>3, <1>4, <1>5, <1>6, <1>7, <1>8, <1>9 DEF ContextNext

(* A note that is not among the newest MaxItems has MaxItems newer ones.   *)
LEMMA OldNotesYield == ContextTypeOK => NoteYieldsToNewer
<1> SUFFICES ASSUME ContextTypeOK, NEW i \in DOMAIN notes, ~notes[i], i \notin FetchNotes
             PROVE  Cardinality({j \in DOMAIN notes : j > i}) >= MaxItems
  BY DEF NoteYieldsToNewer
<1>1. DOMAIN notes = 1..Len(notes) /\ Len(notes) \in Nat
  BY LenProperties DEF ContextTypeOK
<1>2. i \in Nat /\ i <= Len(notes) - MaxItems
  BY <1>1, ContextAssumption DEF FetchNotes
<1>3. {j \in DOMAIN notes : j > i} = (i + 1)..Len(notes)
  BY <1>1, <1>2
<1>4. Cardinality((i + 1)..Len(notes)) = Len(notes) - i
  BY <1>1, <1>2, ContextAssumption, FS_Interval
<1>5. Len(notes) - i >= MaxItems
  BY <1>1, <1>2, ContextAssumption
<1>6. Cardinality({j \in DOMAIN notes : j > i}) = Len(notes) - i
  BY <1>3, <1>4
<1> QED  BY <1>5, <1>6

Lost(s) == {r \in AssignedTo(s) : r \notin DOMAIN assigned' \/ assigned'[r] # s}

LEMMA FewElements ==
  ASSUME NEW S, NEW x, S \subseteq {x}
  PROVE  Cardinality(S) <= 1
<1>1. Cardinality({x}) = 1 /\ IsFiniteSet({x})
  BY FS_Singleton
<1> QED  BY <1>1, FS_Subset

(* A step of an operator takes a set that stays from one repository at     *)
(* most.                                                                   *)
LEMMA OperatorTakesOne ==
  ASSUME [ContextNext]_contextVars, NEW s \in insSets'
  PROVE  Cardinality(Lost(s)) <= 1
<1>1. ASSUME NEW r \in CtxRepos, Unassign(r) PROVE Cardinality(Lost(s)) <= 1
  <2>1. Lost(s) \subseteq {r}
    BY <1>1 DEF Unassign, Without, Lost, AssignedTo
  <2> QED  BY <2>1, FewElements
<1>2. ASSUME NEW r \in CtxRepos, NEW t \in InsSets, Assign(r, t) PROVE Cardinality(Lost(s)) <= 1
  <2>1. Lost(s) \subseteq {r}
    BY <1>2 DEF Assign, Lost, AssignedTo
  <2> QED  BY <2>1, FewElements
<1>3. ASSUME Lost(s) = {} PROVE Cardinality(Lost(s)) <= 1
  BY <1>3, FS_EmptySet
<1>4. ASSUME UNCHANGED assigned PROVE Lost(s) = {}
  BY <1>4 DEF Lost, AssignedTo
<1>5. CASE DeleteSet
  <2>1. CASE UNCHANGED assigned
    BY <1>3, <1>4, <2>1
  <2>2. CASE AssignedTo(deleting) = locked /\ insSets' = insSets \ {deleting} /\ assigned' = Without(locked)
    <3>1. \A r \in AssignedTo(s) : r \notin locked /\ r \in DOMAIN assigned' /\ assigned'[r] = s
      BY <2>2 DEF AssignedTo, Without
    <3> QED  BY <1>3, <3>1 DEF Lost
  <2> QED  BY <1>5, <2>1, <2>2 DEF DeleteSet
<1>6. ASSUME NEW t \in InsSets, UpsertSet(t) \/ DeleteAssignments(t) PROVE Cardinality(Lost(s)) <= 1
  BY <1>3, <1>4, <1>6 DEF UpsertSet, DeleteAssignments
<1>7. CASE \/ \E blank \in BOOLEAN : AppendNote(blank)
           \/ \E i \in DOMAIN notes : DeleteNote(i) \/ DeleteNotesBefore(i)
           \/ UNCHANGED contextVars
  BY <1>3, <1>4, <1>7 DEF AppendNote, DeleteNote, DeleteNotesBefore, contextVars
<1> QED  BY <1>1, <1>2, <1>5, <1>6, <1>7 DEF ContextNext

(* For any number of repositories, sets and notes, a repository loses its  *)
(* instructions only by its own change or with the set, and a note with a  *)
(* body leaves the prompt only for MaxItems newer ones (ContextStore of    *)
(* storepostgres/context.go, Fetch of contextadhoc/provider.go).           *)
THEOREM OperatorContextKept == ContextSpec => []ContextTypeOK /\ ContextIsKept
<1>1. ContextInit => ContextTypeOK
  <2>1. <<>> \in Seq(BOOLEAN) /\ Len(<<>>) = 0 /\ MaxNotes \in Nat /\ DOMAIN <<>> = {}
    BY ContextAssumption, EmptySeq
  <2> QED  BY <2>1 DEF ContextInit, ContextTypeOK
<1>2. ContextTypeOK /\ [ContextNext]_contextVars =>
        [ /\ \A s \in insSets' :
               Cardinality({r \in AssignedTo(s) : r \notin DOMAIN assigned' \/ assigned'[r] # s}) <= 1
          /\ NoteYieldsToNewer' ]_contextVars
  <2> SUFFICES ASSUME ContextTypeOK, [ContextNext]_contextVars
               PROVE  /\ \A s \in insSets' : Cardinality(Lost(s)) <= 1
                      /\ NoteYieldsToNewer'
    BY DEF Lost
  <2>1. \A s \in insSets' : Cardinality(Lost(s)) <= 1
    BY OperatorTakesOne
  <2>2. NoteYieldsToNewer'
    BY OperatorContextStep, OldNotesYield, PTL
  <2> QED  BY <2>1, <2>2
<1> QED  BY <1>1, <1>2, OperatorContextStep, PTL DEF ContextSpec, ContextIsKept

-----------------------------------------------------------------------------
(* Posting, with an id for every comment the host keeps.                   *)
LEMMA WiderSeq ==
  ASSUME NEW S, NEW T, S \subseteq T, NEW s \in Seq(S)
  PROVE  s \in Seq(T)
<1>1. Len(s) \in Nat /\ s \in [1..Len(s) -> T]
  BY LenProperties
<1> QED  BY <1>1

LEMMA PostingTyped == PostingTypeOK /\ [PostingNext]_postingVars => PostingTypeOK'
<1> SUFFICES ASSUME PostingTypeOK, [PostingNext]_postingVars PROVE PostingTypeOK'
  OBVIOUS
<1>0. /\ Inline \in Nat /\ next \in Nat /\ next >= 1 /\ next <= Inline + 3
      /\ onHost \in Seq(1..Inline) /\ Len(onHost) \in Nat /\ Len(onHost) < next
      /\ DOMAIN onHost = 1..Len(onHost)
  BY PostingAssumption, LenProperties DEF PostingTypeOK
<1>1. ASSUME onHost' = Append(onHost, next), next <= Inline
      PROVE  /\ onHost' \in Seq(1..Inline) /\ Len(onHost') = Len(onHost) + 1
             /\ DOMAIN onHost' = 1..Len(onHost') /\ DOMAIN onHost \subseteq DOMAIN onHost'
             /\ Len(onHost') \in DOMAIN onHost'
  <2>1. next \in 1..Inline
    BY <1>0, <1>1
  <2>2. onHost' \in Seq(1..Inline) /\ Len(onHost') = Len(onHost) + 1
    BY <1>0, <1>1, <2>1, AppendProperties
  <2>3. DOMAIN onHost' = 1..Len(onHost')
    BY <2>2, LenProperties
  <2> QED  BY <1>0, <2>2, <2>3
<1>2. CASE PostInline
  <2>1. next <= Inline /\ next' = next + 1 /\ UNCHANGED <<host, rows>>
    BY <1>2 DEF PostInline
  <2>2. CASE onHost' = Append(onHost, next) /\ returned' = Append(returned, Len(onHost')) /\ UNCHANGED lost
    <3>1. returned \in Seq(DOMAIN onHost')
      BY <1>1, <2>1, <2>2, WiderSeq DEF PostingTypeOK
    <3>2. returned' \in Seq(DOMAIN onHost')
      BY <1>1, <2>1, <2>2, <3>1, AppendProperties
    <3> QED  BY <1>0, <1>1, <2>1, <2>2, <3>2 DEF PostingTypeOK
  <2>3. CASE lost' = lost \cup {next} /\ onHost' = Append(onHost, next) /\ UNCHANGED returned
    <3>1. returned' \in Seq(DOMAIN onHost')
      BY <1>1, <2>1, <2>3, WiderSeq DEF PostingTypeOK
    <3> QED  BY <1>0, <1>1, <2>1, <2>3, <3>1 DEF PostingTypeOK
  <2>4. CASE lost' = lost \cup {next} /\ UNCHANGED <<onHost, returned>>
    BY <1>0, <2>1, <2>4 DEF PostingTypeOK
  <2> QED  BY <1>2, <2>2, <2>3, <2>4 DEF PostInline
<1>3. CASE PostSummary
  <2>1. <<>> \in Seq(DOMAIN onHost)
    BY EmptySeq
  <2>2. /\ next' \in 1..(Inline + 3) /\ Len(onHost) < next' /\ returned' \in Seq(DOMAIN onHost)
        /\ UNCHANGED <<host, onHost, lost, rows>>
    <3>1. /\ next = Inline + 1 /\ returned \in Seq(DOMAIN onHost) /\ UNCHANGED <<host, onHost, lost, rows>>
          /\ \/ next' = Inline + 2 /\ returned' = returned
             \/ next' = Inline + 3 /\ returned' = <<>>
      BY <1>3 DEF PostSummary, PostingTypeOK
    <3>2. returned' \in Seq(DOMAIN onHost)
      BY <2>1, <3>1
    <3>3. next' \in 1..(Inline + 3) /\ Len(onHost) < next'
      BY <1>0, <3>1
    <3> QED  BY <3>1, <3>2, <3>3
  <2> QED  BY <2>2 DEF PostingTypeOK
<1>4. CASE CreateReview
  <2>1. next = 1 /\ DOMAIN onHost = {} /\ next' \in {Inline + 2, Inline + 3} /\ UNCHANGED <<host, lost, returned, rows>>
    BY <1>0, <1>4 DEF CreateReview
  <2>2. CASE onHost' = [i \in 1..Inline |-> i]
    <3>1. onHost' \in [1..Inline -> 1..Inline]
      BY <2>2
    <3>2. onHost' \in Seq(1..Inline) /\ Len(onHost') = Inline
      BY <1>0, <3>1
    <3>3. returned' \in Seq(DOMAIN onHost')
      BY <2>1, WiderSeq DEF PostingTypeOK
    <3> QED  BY <1>0, <2>1, <3>2, <3>3 DEF PostingTypeOK
  <2>3. CASE UNCHANGED onHost
    BY <1>0, <2>1, <2>3 DEF PostingTypeOK
  <2> QED  BY <1>4, <2>2, <2>3 DEF CreateReview
<1>5. CASE PersistComments
  <2>1. PICK stored \in SUBSET (1..Inline) : rows' = [c \in stored |-> IdFor(c)]
    BY <1>5 DEF PersistComments
  <2>2. \A c \in stored : IdFor(c) \in (DOMAIN onHost) \cup {0}
    <3>1. \A c \in DOMAIN returned : returned[c] \in DOMAIN onHost
      BY LenProperties, ElementOfSeq DEF PostingTypeOK
    <3> QED  BY <3>1 DEF IdFor
  <2> QED  BY <1>0, <1>5, <2>1, <2>2 DEF PersistComments, PostingTypeOK
<1>6. CASE UNCHANGED postingVars
  BY <1>6 DEF postingVars, PostingTypeOK
<1> QED  BY <1>2, <1>3, <1>4, <1>5, <1>6 DEF PostingNext

LEMMA PostingTypeCorrect == PostingSpec => []PostingTypeOK
<1>1. PostingInit => PostingTypeOK
  <2> SUFFICES ASSUME PostingInit PROVE PostingTypeOK
    OBVIOUS
  <2>1. onHost \in Seq(1..Inline) /\ returned \in Seq(DOMAIN onHost) /\ Len(onHost) = 0 /\ DOMAIN rows = {}
    BY EmptySeq DEF PostingInit
  <2> QED  BY <2>1, PostingAssumption DEF PostingInit, PostingTypeOK
<1> QED  BY <1>1, PostingTyped, PTL DEF PostingSpec

-----------------------------------------------------------------------------
(* A listing comes to an end: the host numbers what it lists, so that its  *)
(* items and the ones it has removed fill an interval, and no page beyond  *)
(* the last one is asked for.                                              *)
Numbered(m) == m <= Items /\ ToSet(there) \cup removed = 1..m /\ squeezed <= m

ListingCounted ==
  /\ \E m \in Nat : Numbered(m)
  /\ page \in 0..(Items \div PageSize + 1)
  /\ listFailed => page = 0 /\ gathered = <<>>

LEMMA PagesWithinItems ==
  ASSUME NEW n \in Nat, n * PageSize <= Items
  PROVE  Items \div PageSize \in Nat /\ n <= Items \div PageSize
<1> DEFINE q == Items \div PageSize
<1>1. /\ Items \in Nat /\ PageSize \in Nat /\ PageSize > 0
  BY ListingAssumption
<1>2. q \in Int /\ Items = q * PageSize + (Items % PageSize) /\ Items % PageSize \in 0..(PageSize - 1)
  BY <1>1
<1> HIDE DEF q
<1>3. n * PageSize < q * PageSize + PageSize
  BY <1>1, <1>2
<1>4. q >= n
  <2> SUFFICES ASSUME q + 1 <= n PROVE FALSE
    BY <1>2
  <2>1. (q + 1) * PageSize <= n * PageSize
    BY <1>1, <1>2
  <2>2. (q + 1) * PageSize = q * PageSize + PageSize
    BY <1>1, <1>2
  <2> QED  BY <1>1, <1>2, <1>3, <2>1, <2>2
<1> QED  BY <1>2, <1>4 DEF q

LEMMA ListingLength ==
  ASSUME ListingTyped
  PROVE  Items \in Nat /\ Len(there) \in Nat /\ Len(there) <= Items
<1>1. Items \in Nat /\ IsFiniteSet(1..Items) /\ Cardinality(1..Items) = Items
  <2>1. Items \in Nat /\ IsFiniteSet(1..Items)
    BY ListingAssumption, FS_Interval
  <2>2. Cardinality(1..Items) = IF 1 > Items THEN 0 ELSE Items - 1 + 1
    BY <2>1, FS_Interval
  <2> QED  BY <2>1, <2>2
<1>2. there \in Seq(1..Items) /\ Len(there) \in Nat /\ DOMAIN there = 1..Len(there)
  BY LenProperties DEF ListingTyped
<1>3. \A i, j \in 1..Len(there) : there[i] = there[j] => i = j
  BY <1>2 DEF ListingTyped, IsInjective
<1>4. Cardinality(ToSet(there)) = Len(there) /\ ToSet(there) \subseteq 1..Items
  BY <1>2, <1>3, ItemsCounted, ItemsOf
<1> QED  BY <1>1, <1>2, <1>4, FS_Subset

LEMMA ListingCountedStep ==
  ListingTyped /\ ListingTyped' /\ ListingCounted /\ [ListingNext]_listingVars => ListingCounted'
<1> SUFFICES ASSUME ListingTyped, ListingTyped', ListingCounted, [ListingNext]_listingVars
             PROVE  ListingCounted'
  OBVIOUS
<1>0. /\ Items \in Nat /\ PageSize \in Nat /\ Len(there) \in Nat /\ Len(there) <= Items
      /\ DOMAIN there = 1..Len(there)
  BY ListingLength, ListingAssumption, LenProperties DEF ListingTyped
<1>1. PICK m \in Nat : Numbered(m)
  BY DEF ListingCounted
<1>2. CASE FetchPage
  <2>1. page # 0 /\ UNCHANGED <<there, removed, squeezed>> /\ page \in Nat
    BY <1>2 DEF FetchPage, ListingTyped
  <2>2. Numbered(m)'
    BY <1>1, <2>1 DEF Numbered
  <2>3. HasNext(page) => page + 1 \in 0..(Items \div PageSize + 1)
    <3> SUFFICES ASSUME HasNext(page) PROVE page + 1 \in 0..(Items \div PageSize + 1)
      OBVIOUS
    <3>1. page * PageSize \in Nat /\ page * PageSize <= Items
      BY <1>0, <2>1 DEF HasNext, More
    <3>2. Items \div PageSize \in Nat /\ page <= Items \div PageSize
      BY <2>1, <3>1, PagesWithinItems
    <3> QED  BY <2>1, <3>2
  <2>4. 0 \in 0..(Items \div PageSize + 1)
    <3>1. 0 * PageSize <= Items
      BY <1>0
    <3> QED  BY <3>1, PagesWithinItems
  <2>5. page' \in 0..(Items \div PageSize + 1)
    BY <1>2, <2>3, <2>4 DEF FetchPage
  <2>6. listFailed' => page' = 0 /\ gathered' = <<>>
    BY <1>2, <2>1 DEF FetchPage, ListingCounted
  <2> QED  BY <2>2, <2>5, <2>6 DEF ListingCounted
<1>3. ASSUME NEW i \in 1..(Len(there) + 1), Added(i) PROVE ListingCounted'
  <2>1. PICK new \in 1..Items : /\ 1..(new - 1) = ToSet(there) \cup removed
                                /\ there' = InsertAt(there, i, new)
    BY <1>3 DEF Added
  <2>2. m = new - 1 /\ new \in Nat /\ m + 1 <= Items /\ squeezed \in Nat /\ squeezed <= m
    <3>1. 1..(new - 1) = 1..m
      BY <1>1, <2>1 DEF Numbered
    <3>2. m = new - 1
      <4>1. m \in 1..m \/ m = 0
        OBVIOUS
      <4>2. new - 1 \in 1..(new - 1) \/ new - 1 = 0
        BY <1>0, <2>1
      <4> QED  BY <1>0, <2>1, <3>1, <4>1, <4>2
    <3> QED  BY <1>0, <1>1, <2>1, <3>2 DEF Numbered, ListingTyped
  <2>3. /\ Len(there') = Len(there) + 1 /\ there' \in Seq(1..Items)
        /\ \A j \in 1..(Len(there) + 1) :
             there'[j] = IF j < i THEN there[j] ELSE IF j = i THEN new ELSE there[j - 1]
    <3> DEFINE S == 1..Items
    <3>1. there \in Seq(S) /\ new \in S
      BY <2>1 DEF ListingTyped
    <3> HIDE DEF S
    <3>2. /\ InsertAt(there, i, new) \in Seq(S) /\ Len(InsertAt(there, i, new)) = Len(there) + 1
          /\ \A j \in 1..(Len(there) + 1) :
               InsertAt(there, i, new)[j] = IF j < i THEN there[j] ELSE IF j = i THEN new ELSE there[j - 1]
      BY <3>1, InsertedAt
    <3> QED  BY <2>1, <3>2 DEF S
  <2>4. \A x : x \in ToSet(there') <=> x \in ToSet(there) \/ x = new
    <3>1. /\ \A x : x \in ToSet(there) <=> \E j \in 1..Len(there) : there[j] = x
          /\ \A x : x \in ToSet(there') <=> \E j \in 1..Len(there') : there'[j] = x
      BY <2>3, ItemsOf DEF ListingTyped
    <3>2. ASSUME NEW j \in 1..Len(there) PROVE \E k \in 1..Len(there') : there'[k] = there[j]
      <4>1. CASE j < i
        <5>1. j \in 1..(Len(there) + 1)
          BY <1>0
        <5> QED  BY <2>3, <4>1, <5>1
      <4>2. CASE j >= i
        <5>1. j + 1 \in 1..(Len(there) + 1) /\ ~(j + 1 < i) /\ j + 1 # i /\ (j + 1) - 1 = j
          BY <1>0, <4>2
        <5> QED  BY <2>3, <5>1
      <4> QED  BY <1>0, <4>1, <4>2
    <3>3. ASSUME NEW k \in 1..Len(there') PROVE there'[k] = new \/ \E j \in 1..Len(there) : there'[k] = there[j]
      <4>1. CASE k < i
        <5>1. k \in 1..Len(there)
          BY <1>0, <2>3, <4>1
        <5> QED  BY <1>0, <2>3, <4>1, <5>1
      <4>2. CASE k > i
        <5>1. k - 1 \in 1..Len(there) /\ ~(k < i) /\ k # i
          BY <1>0, <2>3, <4>2
        <5> QED  BY <2>3, <5>1
      <4>3. CASE k = i
        BY <1>0, <2>3, <4>3
      <4> QED  BY <1>0, <2>3, <4>1, <4>2, <4>3
    <3>4. \E k \in 1..Len(there') : there'[k] = new
      <4>1. i \in 1..Len(there') /\ there'[i] = new
        BY <1>0, <2>3
      <4> QED  BY <4>1
    <3> QED  BY <3>1, <3>2, <3>3, <3>4
  <2>5. removed' = removed /\ squeezed' \in {squeezed, squeezed + 1}
    BY <1>3 DEF Added
  <2>6. ToSet(there') \cup removed' = 1..(m + 1)
    <3>1. \A x : x \in ToSet(there') \cup removed' <=> x \in 1..m \/ x = m + 1
      BY <1>1, <2>2, <2>4, <2>5 DEF Numbered
    <3> QED  BY <3>1
  <2>7. squeezed' <= m + 1
    BY <2>2, <2>5
  <2>8. Numbered(m + 1)'
    BY <2>2, <2>6, <2>7 DEF Numbered
  <2> QED  BY <1>3, <2>8 DEF Added, ListingCounted
<1>4. ASSUME NEW i \in DOMAIN there, Removed(i) PROVE ListingCounted'
  <2>1. /\ Len(there') = Len(there) - 1 /\ there' \in Seq(1..Items) /\ removed' = removed \cup {there[i]}
        /\ \A j \in 1..(Len(there) - 1) : there'[j] = IF j < i THEN there[j] ELSE there[j + 1]
    <3> DEFINE S == 1..Items
    <3>1. there \in Seq(S) /\ i \in 1..Len(there)
      BY <1>0 DEF ListingTyped
    <3> HIDE DEF S
    <3>2. /\ RemoveAt(there, i) \in Seq(S) /\ Len(RemoveAt(there, i)) = Len(there) - 1
          /\ \A j \in 1..(Len(there) - 1) : RemoveAt(there, i)[j] = IF j < i THEN there[j] ELSE there[j + 1]
      BY <3>1, RemovedAt
    <3> QED  BY <1>4, <3>2 DEF S, Removed
  <2>2. /\ \A x : x \in ToSet(there) <=> \E j \in 1..Len(there) : there[j] = x
        /\ \A x : x \in ToSet(there') <=> \E j \in 1..Len(there') : there'[j] = x
    BY <2>1, ItemsOf DEF ListingTyped
  <2>3. ASSUME NEW j \in 1..Len(there), j # i PROVE \E k \in 1..Len(there') : there'[k] = there[j]
    <3>1. CASE j < i
      <4>1. j \in 1..(Len(there) - 1)
        BY <1>0, <3>1
      <4> QED  BY <2>1, <3>1, <4>1
    <3>2. CASE j > i
      <4>1. j - 1 \in 1..(Len(there) - 1) /\ ~(j - 1 < i) /\ (j - 1) + 1 = j
        BY <1>0, <3>2
      <4> QED  BY <2>1, <4>1
    <3> QED  BY <1>0, <2>3, <3>1, <3>2
  <2>4. ASSUME NEW k \in 1..Len(there') PROVE \E j \in 1..Len(there) : there'[k] = there[j]
    <3>1. k \in 1..Len(there) /\ k + 1 \in 1..Len(there) /\ k \in 1..(Len(there) - 1)
      BY <1>0, <2>1
    <3> QED  BY <2>1, <3>1
  <2>5. ToSet(there') \cup removed' = ToSet(there) \cup removed
    <3>1. there[i] \in ToSet(there)
      BY <1>0, <2>2
    <3> QED  BY <2>1, <2>2, <2>3, <2>4, <3>1
  <2>6. Numbered(m)'
    BY <1>1, <1>4, <2>5 DEF Removed, Numbered
  <2> QED  BY <1>4, <2>6 DEF Removed, ListingCounted
<1>5. CASE UNCHANGED listingVars
  BY <1>5 DEF listingVars, ListingCounted, Numbered
<1> QED  BY <1>2, <1>3, <1>4, <1>5 DEF ListingNext

(* ListingsMissFew rests on the types of its variables.                    *)
LEMMA ListingTypeCorrect == ListingSpec => []ListingTypeOK
<1>1. ListingInit => ListingCounted
  <2> SUFFICES ASSUME ListingInit PROVE ListingCounted
    OBVIOUS
  <2>1. PICK n \in 0..Items : there = [i \in 1..n |-> i]
    BY DEF ListingInit
  <2>2. n \in Nat /\ n <= Items /\ ToSet(there) = 1..n
    BY <2>1, ListingAssumption DEF ToSet
  <2>3. Numbered(n)
    BY <2>2 DEF ListingInit, Numbered
  <2>4. 1 \in 0..(Items \div PageSize + 1)
    <3>1. 0 * PageSize <= Items
      BY ListingAssumption
    <3>2. Items \div PageSize \in Nat
      BY <3>1, PagesWithinItems
    <3> QED  BY <3>2
  <2> QED  BY <2>2, <2>3, <2>4 DEF ListingInit, ListingCounted
<1>2. ListingTyped /\ ListingCounted => ListingTypeOK
  <2> SUFFICES ASSUME ListingTyped, ListingCounted PROVE ListingTypeOK
    OBVIOUS
  <2>1. squeezed \in 0..Items
    <3>1. PICK m \in Nat : Numbered(m)
      BY DEF ListingCounted
    <3> QED  BY <3>1, ListingAssumption DEF Numbered, ListingTyped
  <2> QED  BY <2>1 DEF ListingTyped, ListingCounted, ListingTypeOK
<1>3. ListingInv => ListingTyped
  BY DEF ListingInv
<1>4. ListingInv /\ ListingCounted /\ [ListingNext]_listingVars => ListingInv' /\ ListingCounted'
  <2>1. ListingInv' => ListingTyped'
    BY DEF ListingInv
  <2> QED  BY <1>3, <2>1, ListingStep, ListingCountedStep
<1> QED  BY <1>1, <1>2, <1>3, <1>4, ListingInitial, PTL DEF ListingSpec

-----------------------------------------------------------------------------
(* The tries of a tier: one more than have failed while a call is out.     *)
TriesInv ==
  /\ tries \in [Tiers -> 0 .. MaxAttempts] /\ tier \in Tiers
  /\ step \in Early \cup {"assemble"} => tier = "primary" /\ tries["primary"] = 0
  /\ tier = "primary" => tries["fallback"] = 0
  /\ step \in {"ready", "backoff"} => tries[tier] < MaxAttempts

LEMMA TriesStep == TriesInv /\ [PromptNext]_promptVars => TriesInv'
<1> SUFFICES ASSUME TriesInv, [PromptNext]_promptVars PROVE TriesInv'
  OBVIOUS
<1> USE PromptAssumption DEF TriesInv, Tiers, Early
<1>1. CASE Retrieve
  BY <1>1 DEF Retrieve, chatVars
<1>2. ASSUME NEW p \in ProviderSet, NEW ref \in Refs, FetchFrom(p, ref) PROVE TriesInv'
  BY <1>2 DEF FetchFrom, chatVars
<1>3. CASE AllAsked
  BY <1>3 DEF AllAsked, chatVars
<1>4. ASSUME NEW n \in 0 .. Len(context), SortItem(n) PROVE TriesInv'
  BY <1>4 DEF SortItem, chatVars
<1>5. ASSUME NEW n \in TokenCaps, BeginAssembly(n) PROVE TriesInv'
  BY <1>5 DEF BeginAssembly, chatVars
<1>6. ASSUME NEW i \in DOMAIN Optional, DropSection(i) PROVE TriesInv'
  BY <1>6 DEF DropSection, chatVars
<1>7. CASE Send
  BY <1>7 DEF Send, chatVars
<1>8. CASE StartCall
  BY <1>8 DEF StartCall
<1>9. CASE Answered \/ CallFails \/ WaitIsCut \/ WaitIsOver
  BY <1>9 DEF Answered, CallFails, WaitIsCut, WaitIsOver, chatVars
<1>10. CASE NextTier
  BY <1>10 DEF NextTier
<1>11. CASE Cancel
  BY <1>11 DEF Cancel
<1>12. CASE UNCHANGED promptVars
  BY <1>12 DEF promptVars
<1> QED  BY <1>1, <1>2, <1>3, <1>4, <1>5, <1>6, <1>7, <1>8, <1>9, <1>10, <1>11, <1>12 DEF PromptNext

(* The context holds an item once, so it cannot have more of them than the *)
(* providers can name.                                                     *)
LEMMA ContextFits ==
  ASSUME ContextHeld, ContextSortedSoFar
  PROVE  Len(context) <= Len(Providers) * MaxRefs
<1> DEFINE S == ProviderSet \X Refs
<1>1. /\ Len(context) \in Nat /\ context \in Seq(S)
      /\ \A k \in 1 .. Len(context) : context[k] \in S
  BY LenProperties, ElementOfSeq DEF ContextHeld
<1>2. /\ Len(Providers) \in Nat /\ DOMAIN Providers = 1 .. Len(Providers) /\ MaxRefs \in Nat
      /\ Providers \in Seq(ProviderSet)
      /\ \A i, j \in 1 .. Len(Providers) : Providers[i] = Providers[j] => i = j
  <2>1. \A i \in 1 .. Len(Providers) : Providers[i] \in ProviderSet
    BY ProvidersRanked
  <2>2. Providers \in Seq(ProviderSet)
    BY <2>1, ProvidersRanked, PromptAssumption
  <2> QED  BY <2>2, ProvidersRanked, PromptAssumption DEF IsInjective
<1>3. \A item \in S : ~Earlier(item, item)
  BY <1>2 DEF Earlier, Refs
<1>4. \A item \in S : ~Before(item, item)
  <2>1. \A item \in S : ~Outranks(item, item)
    BY ProvidersRanked DEF Outranks
  <2> QED  BY <1>3, <2>1 DEF Before
<1>5. ASSUME NEW i \in 1 .. Len(context), NEW j \in 1 .. Len(context), context[i] = context[j]
      PROVE  i = j
  <2>1. ~(i < j)
    BY <1>1, <1>3, <1>4, <1>5 DEF ContextSortedSoFar
  <2>2. ~(j < i)
    BY <1>1, <1>3, <1>4, <1>5 DEF ContextSortedSoFar
  <2> QED  BY <1>1, <2>1, <2>2
<1> HIDE DEF S
<1>6. Cardinality(ToSet(context)) = Len(context) /\ ToSet(context) \subseteq S
  BY <1>1, <1>5, ItemsCounted, ItemsOf
<1>7. IsFiniteSet(ProviderSet) /\ Cardinality(ProviderSet) = Len(Providers)
  <2>1. ToSet(Providers) = ProviderSet
    BY DEF ProviderSet
  <2> QED  BY <1>2, <2>1, ItemsCounted
<1>8. IsFiniteSet(Refs) /\ Cardinality(Refs) = MaxRefs
  <2>1. IsFiniteSet(1 .. MaxRefs)
    BY <1>2, FS_Interval
  <2>2. Cardinality(1 .. MaxRefs) = IF 1 > MaxRefs THEN 0 ELSE MaxRefs - 1 + 1
    BY <1>2, FS_Interval
  <2> QED  BY <1>2, <2>1, <2>2 DEF Refs
<1>9. IsFiniteSet(S) /\ Cardinality(S) = Len(Providers) * MaxRefs
  BY <1>7, <1>8, FS_Product DEF S
<1> QED  BY <1>6, <1>9, FS_Subset

LEMMA PromptStep == PromptInv /\ [PromptNext]_promptVars => PromptInv'
BY SectionsStep, ContextStep DEF PromptInv

(* What is not counted or ordered: the step, the cap and the cancellation. *)
RestTyped ==
  /\ step \in Early \cup {"assemble", "ready", "calling", "backoff", "tierEnds", "done"}
  /\ cap \in TokenCaps /\ ctxDone \in BOOLEAN

LEMMA RestStep == RestTyped /\ [PromptNext]_promptVars => RestTyped'
BY DEF RestTyped, PromptNext, Retrieve, FetchFrom, AllAsked, SortItem, BeginAssembly, DropSection, Send,
       StartCall, Answered, CallFails, WaitIsCut, WaitIsOver, NextTier, Cancel, promptVars, inputVars,
       chatVars, Early

LEMMA PromptTypeCorrect == PromptSpec => []PromptTypeOK
<1>1. PromptInit => TriesInv /\ RestTyped
  <2> SUFFICES ASSUME PromptInit PROVE TriesInv /\ RestTyped
    OBVIOUS
  <2>1. (CHOOSE n \in TokenCaps : TRUE) \in TokenCaps
    BY PromptAssumption
  <2>2. TriesInv
    BY PromptAssumption DEF PromptInit, TriesInv, Tiers, Early
  <2>3. RestTyped
    BY <2>1 DEF PromptInit, RestTyped, Early
  <2> QED  BY <2>2, <2>3
<1>2. PromptInv /\ TriesInv /\ RestTyped /\ CallsInv => PromptTypeOK
  <2> SUFFICES ASSUME PromptInv, TriesInv, RestTyped, CallsInv PROVE PromptTypeOK
    OBVIOUS
  <2>1. Len(context) <= Len(Providers) * MaxRefs
    BY ContextFits DEF PromptInv
  <2>2. lateCalls \in 0 .. 2 * MaxAttempts
    BY PromptAssumption DEF CallsInv
  <2> QED  BY <2>1, <2>2 DEF PromptInv, SectionsInv, ContextHeld, ContextSortedSoFar, TriesInv, RestTyped, Early,
                             PromptTypeOK
<1> QED
  BY <1>1, <1>2, PromptInitial, PromptStep, CallsInitial, CallsStep, TriesStep, RestStep, PTL DEF PromptSpec

-----------------------------------------------------------------------------
(* The services side by side.                                              *)
OneService ==
  focus \in {"settings", "context", "token", "posting", "listing", "limits", "intake", "membus", "prompt", "diff"}

LEMMA ServicesInitial ==
  ServicesInit =>
    /\ OneService /\ SettingsInit /\ ContextInit /\ TokenInit /\ PostingInit /\ ListingInit
    /\ LimitInit /\ IntakeInit /\ MemInit /\ PromptInit /\ DiffInit
BY DEF ServicesInit, OneService

LEMMA ServicesStep ==
  [ServicesNext]_ServicesVars =>
    /\ OneService => OneService'
    /\ [SettingsNext]_settingsVars /\ [ContextNext]_contextVars /\ [TokenNext]_tokenVars
    /\ [PostingNext]_postingVars /\ [ListingNext]_listingVars /\ [LimitNext]_limitVars
    /\ [IntakeNext]_intakeVars /\ [MemNext]_memVars /\ [PromptNext]_promptVars /\ [DiffNext]_diffVars
<1> SUFFICES ASSUME [ServicesNext]_ServicesVars
             PROVE  /\ OneService => OneService'
                    /\ [SettingsNext]_settingsVars /\ [ContextNext]_contextVars /\ [TokenNext]_tokenVars
                    /\ [PostingNext]_postingVars /\ [ListingNext]_listingVars /\ [LimitNext]_limitVars
                    /\ [IntakeNext]_intakeVars /\ [MemNext]_memVars /\ [PromptNext]_promptVars
                    /\ [DiffNext]_diffVars
  OBVIOUS
<1>1. CASE SettingsNext /\ Others("settings")
  BY <1>1 DEF Others, OneService
<1>2. CASE ContextNext /\ Others("context")
  BY <1>2 DEF Others, OneService
<1>3. CASE TokenNext /\ Others("token")
  BY <1>3 DEF Others, OneService
<1>4. CASE PostingNext /\ Others("posting")
  BY <1>4 DEF Others, OneService
<1>5. CASE ListingNext /\ Others("listing")
  BY <1>5 DEF Others, OneService
<1>6. CASE LimitNext /\ Others("limits")
  BY <1>6 DEF Others, OneService
<1>7. CASE IntakeNext /\ Others("intake")
  BY <1>7 DEF Others, OneService
<1>8. CASE MemNext /\ Others("membus")
  BY <1>8 DEF Others, OneService
<1>9. CASE PromptNext /\ Others("prompt")
  BY <1>9 DEF Others, OneService
<1>10. CASE DiffNext /\ Others("diff")
  BY <1>10 DEF Others, OneService
<1>11. CASE UNCHANGED ServicesVars
  BY <1>11 DEF ServicesVars, OneService
<1> QED
  BY <1>1, <1>2, <1>3, <1>4, <1>5, <1>6, <1>7, <1>8, <1>9, <1>10, <1>11 DEF ServicesNext

(* Each service of a behaviour behaves as it does alone.                   *)
LEMMA ServicesAlone ==
  ServicesSpec =>
    /\ []OneService /\ SettingsSafety /\ ContextSpec /\ TokenSpec /\ PostingSpec /\ ListingSpec
    /\ LimitSpec /\ IntakeSpec /\ MemSpec /\ PromptSpec /\ DiffSpec
BY ServicesInitial, ServicesStep, PTL
   DEF ServicesSpec, SettingsSafety, ContextSpec, TokenSpec, PostingSpec, ListingSpec, LimitSpec,
       IntakeSpec, MemSpec, PromptSpec, DiffSpec

(* ServicesAreKept: the variables of every service keep their types, and   *)
(* what is proved of each holds of them side by side, as they are checked. *)
THEOREM ServicesAreKept ==
  ServicesSpec =>
    /\ []ServicesTypeOK
    /\ [](/\ OnlyValidInEffect /\ TokenOutlivesCall /\ MispairedOnlyAfterLoss /\ TwiceTheLimitAtMost
          /\ AcceptedIsPublished /\ HandledOnce /\ PromptKeepsWhatFits /\ CancelStopsTheCalls
          /\ AnchorsAreInDiff)
    /\ ContextIsKept /\ ListingMissesFew
<1>1. /\ OneService /\ SettingsTypeOK /\ ContextTypeOK /\ TokenTypeOK /\ PostingTypeOK /\ ListingTypeOK
      /\ LimitTypeOK /\ IntakeTypeOK /\ MemTypeOK /\ PromptTypeOK /\ DiffTypeOK
      => ServicesTypeOK
  BY DEF ServicesTypeOK, OneService
<1> QED
  BY <1>1, ServicesAlone, SettingsStayValid, OperatorContextKept, TokenSuffices, PostingTypeCorrect,
     LossesExplainMispairing, ListingTypeCorrect, ListingsMissFew, LimitersHold, AcceptedHaveJobs,
     MemBusHandlesOnce, PromptTypeCorrect, PromptHoldsWhatFits, CancelledJobCallsTwice,
     KeptCommentsAreOnDiff, PTL
=============================================================================
