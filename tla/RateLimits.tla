------------------------------ MODULE RateLimits ------------------------------
(***************************************************************************)
(* The two limiters in front of the HTTP servers: the admin UI counts      *)
(* login attempts per address in a window (internal/admin/ratelimit.go),   *)
(* the gateway webhooks in a bucket filled once a second                   *)
(* (cmd/webhook-gateway).  Both run under a lock.  A window, or the second,*)
(* is Window steps of time long.                                           *)
(***************************************************************************)
EXTENDS Naturals, Sequences

CONSTANTS
  Addresses,  \* client addresses
  Limit,      \* requests allowed
  Window,     \* steps of time in a window
  MaxAge      \* bound: ages above it are not told apart

ASSUME LimitAssumption ==
  Limit \in Nat \ {0} /\ Window \in Nat \ {0} /\ MaxAge \in Nat /\ MaxAge > 2 * Window

VARIABLES
  logins,  \* address -> [count, age of windowStart], a partial function
  hooks,   \* address -> [tokens, age of lastFill], a partial function
  passedLogins, passedHooks  \* [a][i]: requests of a allowed in the last i steps, for i in 1..Window

limitVars == <<logins, hooks, passedLogins, passedHooks>>

-----------------------------------------------------------------------------
Buckets == [n: 0..Limit, age: 0..MaxAge]
Counts == [Addresses -> [1..Window -> Nat]]

LimitTypeOK ==
  /\ DOMAIN logins \subseteq Addresses /\ \A a \in DOMAIN logins : logins[a] \in Buckets
  /\ DOMAIN hooks \subseteq Addresses /\ \A a \in DOMAIN hooks : hooks[a] \in Buckets
  /\ passedLogins \in Counts /\ passedHooks \in Counts

LimitInit ==
  /\ logins = <<>> /\ hooks = <<>>
  /\ passedLogins = [a \in Addresses |-> [i \in 1..Window |-> 0]] /\ passedHooks = passedLogins

With(buckets, a, b) == [x \in DOMAIN buckets \cup {a} |-> IF x = a THEN b ELSE buckets[x]]

(* Mutant: the cutoff lies two windows ahead.                              *)
GcAhead(buckets) == [a \in {} |-> buckets[a]]

(* gcOldLocked drops what is older than two windows.                       *)
GcOld(buckets) == [a \in {x \in DOMAIN buckets : buckets[x].age <= 2 * Window} |-> buckets[a]]

OneMore(counts, a) ==
  [x \in Addresses |-> [i \in 1..Window |-> IF x = a THEN counts[x][i] + 1 ELSE counts[x][i]]]

AllowLogin(a) ==
  /\ IF a \notin DOMAIN logins \/ (a \in DOMAIN logins /\ logins[a].age >= Window)
     THEN logins' = GcOld(With(logins, a, [n |-> 1, age |-> 0]))
     ELSE logins[a].n < Limit /\ logins' = [logins EXCEPT ![a].n = @ + 1]
  /\ passedLogins' = OneMore(passedLogins, a)
  /\ UNCHANGED <<hooks, passedHooks>>

Refilled(b) == IF b.age >= Window THEN [n |-> Limit, age |-> 0] ELSE b

AllowHook(a) ==
  LET b == IF a \in DOMAIN hooks THEN Refilled(hooks[a]) ELSE [n |-> Limit, age |-> 0]
  IN  /\ b.n > 0
      /\ hooks' = With(hooks, a, [b EXCEPT !.n = @ - 1])
      /\ passedHooks' = OneMore(passedHooks, a)
      /\ UNCHANGED <<logins, passedLogins>>

Older(buckets) == [a \in DOMAIN buckets |-> [buckets[a] EXCEPT !.age = IF @ = MaxAge THEN @ ELSE @ + 1]]
Shifted(counts) == [a \in Addresses |-> [i \in 1..Window |-> IF i = 1 THEN 0 ELSE counts[a][i - 1]]]

TickTime ==
  /\ logins' = Older(logins) /\ hooks' = Older(hooks)
  /\ passedLogins' = Shifted(passedLogins) /\ passedHooks' = Shifted(passedHooks)

(* A refused request changes nothing: Refilled never leaves a bucket empty.*)
LimitNext == TickTime \/ \E a \in Addresses : AllowLogin(a) \/ AllowHook(a)

LimitSpec == LimitInit /\ [][LimitNext]_limitVars

-----------------------------------------------------------------------------
(* However the requests fall on the boundaries of the windows, and whoever *)
(* else's request collects old buckets, no stretch of time as long as a    *)
(* window lets more than twice the limit of one address through.           *)
TwiceTheLimitAtMost ==
  \A a \in Addresses : passedLogins[a][Window] <= 2 * Limit /\ passedHooks[a][Window] <= 2 * Limit
=============================================================================
