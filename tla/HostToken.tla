------------------------------ MODULE HostToken -------------------------------
(***************************************************************************)
(* Bitbucket's access token (internal/adapters/vcsbitbucket auth.go and    *)
(* client.go): one cached token serves every call of a process and is      *)
(* exchanged anew, under a lock, shortly before it expires.                *)
(*                                                                         *)
(* Time passes in steps of 30 seconds, which is the timeout of the HTTP    *)
(* client: an exchange and a call see one such step at most.               *)
(***************************************************************************)
EXTENDS Naturals

CONSTANTS
  Callers,    \* goroutines that call the code host
  TokenLife,  \* steps for which the host accepts a token it has issued
  DefaultLife,  \* steps counted for a token whose answer does not say how long it lives
  Free        \* nobody holds the lock

(* auth.go:93 takes the two hours for the host's default.                  *)
ASSUME TokenAssumption ==
  /\ TokenLife \in Nat /\ TokenLife > 2 /\ Free \notin Callers
  /\ DefaultLife \in Nat /\ DefaultLife <= TokenLife

VARIABLES
  tok,        \* the cached token: steps it has left, and steps the cache counts for it
  holder,     \* the caller that exchanges tokens, or Free
  issued,     \* steps left to the token the host has issued to it, 0 before
  calls,      \* calls[c]: steps left to the token of the call of c in flight, or NoCall
  waited      \* waited[c]: the exchange or call of c has seen a step of time

tokenVars == <<tok, holder, issued, calls, waited>>

-----------------------------------------------------------------------------
NoCall == TokenLife + 1
Lives == 0..TokenLife

TokenTypeOK ==
  /\ tok \in [left: Lives, counted: Lives]
  /\ holder \in Callers \cup {Free}
  /\ issued \in Lives
  /\ calls \in [Callers -> Lives \cup {NoCall}]
  /\ waited \in [Callers -> BOOLEAN]
  /\ holder # Free => calls[holder] = NoCall

TokenInit ==
  /\ tok = [left |-> 0, counted |-> 0] /\ holder = Free /\ issued = 0
  /\ calls = [c \in Callers |-> NoCall] /\ waited = [c \in Callers |-> FALSE]

(* Mutant: a margin of one timeout.                                        *)
StillGoodForOne == tok.counted > 1

(* Token reuses what the cache has more than 60 seconds for.               *)
StillGood == tok.counted > 2

UseCached(c) ==
  /\ holder = Free /\ calls[c] = NoCall
  /\ StillGood
  /\ calls' = [calls EXCEPT ![c] = tok.left] /\ waited' = [waited EXCEPT ![c] = FALSE]
  /\ UNCHANGED <<tok, holder, issued>>

StartExchange(c) ==
  /\ holder = Free /\ calls[c] = NoCall
  /\ ~StillGood
  /\ holder' = c /\ issued' = 0 /\ waited' = [waited EXCEPT ![c] = FALSE]
  /\ UNCHANGED <<tok, calls>>

HostIssues ==
  /\ holder # Free /\ issued = 0
  /\ issued' = TokenLife
  /\ UNCHANGED <<tok, holder, calls, waited>>

(* Mutant: the lock is released after an error only.                       *)
ExchangeKeepsLock ==
  /\ holder # Free /\ issued > 0 /\ issued' = 0
  /\ tok' = [left |-> issued, counted |-> TokenLife]
  /\ calls' = [calls EXCEPT ![holder] = issued]
  /\ UNCHANGED <<holder, waited>>

(* The answer arrives: its lifetime, or the default if it gives none, is   *)
(* counted from now on, and the call that wanted it goes out.  An error    *)
(* leaves the cache as it is.                                              *)
EndExchange ==
  /\ holder # Free /\ holder' = Free /\ issued' = 0
  /\ \/ /\ issued > 0
        /\ \E life \in {TokenLife, DefaultLife} : tok' = [left |-> issued, counted |-> life]
        /\ calls' = [calls EXCEPT ![holder] = issued] /\ waited' = [waited EXCEPT ![holder] = FALSE]
     \/ UNCHANGED <<tok, calls, waited>>

EndCall(c) ==
  /\ calls[c] # NoCall
  /\ calls' = [calls EXCEPT ![c] = NoCall]
  /\ UNCHANGED <<tok, holder, issued, waited>>

(* A step of time; what has waited for one has ended by its timeout.       *)
Sooner(n) == IF n \in {0, NoCall} THEN n ELSE n - 1

PassTime ==
  /\ \A c \in Callers : waited[c] => calls[c] = NoCall /\ holder # c
  /\ tok' = [left |-> Sooner(tok.left), counted |-> Sooner(tok.counted)]
  /\ issued' = Sooner(issued)
  /\ calls' = [c \in Callers |-> Sooner(calls[c])]
  /\ waited' = [c \in Callers |-> calls[c] # NoCall \/ holder = c]
  /\ UNCHANGED holder

TokenNext ==
  \/ \E c \in Callers : UseCached(c) \/ StartExchange(c) \/ EndCall(c)
  \/ HostIssues \/ EndExchange \/ PassTime

TokenSpec == TokenInit /\ [][TokenNext]_tokenVars

-----------------------------------------------------------------------------
(* The host never refuses a call for its token: the margin covers the time *)
(* the exchange took, which the cache does not count, and that of the call,*)
(* whoever exchanged the token and however many calls share it.            *)
TokenOutlivesCall == \A c \in Callers : calls[c] # 0
=============================================================================
