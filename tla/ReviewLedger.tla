---------------------------- MODULE ReviewLedger ----------------------------
(***************************************************************************)
(* What the pipeline promises to the author of a pull request, with no     *)
(* workers, no bus and no failures in sight.  Each job, a head of a pull   *)
(* request, is claimed once and closed at most once; while it is claimed   *)
(* its findings may be published, once; only published findings may block  *)
(* the pull request, and nothing changes after it is closed.               *)
(***************************************************************************)
EXTENDS Naturals

CONSTANT Jobs

VARIABLES
  phase,     \* phase[j]: "unclaimed", "claimed" or "closed"
  findings,  \* findings[j]: how often findings were published for j
  blocked    \* the jobs whose check run fails

ledgerVars == <<phase, findings, blocked>>

LedgerTypeOK ==
  /\ phase \in [Jobs -> {"unclaimed", "claimed", "closed"}]
  /\ findings \in [Jobs -> {0, 1}]
  /\ blocked \subseteq Jobs

LedgerInit ==
  /\ phase = [j \in Jobs |-> "unclaimed"]
  /\ findings = [j \in Jobs |-> 0]
  /\ blocked = {}

Claim(j) ==
  /\ phase[j] = "unclaimed"
  /\ phase' = [phase EXCEPT ![j] = "claimed"]
  /\ UNCHANGED <<findings, blocked>>

PublishFindings(j) ==
  /\ phase[j] = "claimed"
  /\ findings[j] = 0
  /\ findings' = [findings EXCEPT ![j] = 1]
  /\ UNCHANGED <<phase, blocked>>

Block(j) ==
  /\ phase[j] = "claimed"
  /\ findings[j] = 1
  /\ blocked' = blocked \cup {j}
  /\ UNCHANGED <<phase, findings>>

Unblock(j) ==
  /\ phase[j] = "claimed"
  /\ blocked' = blocked \ {j}
  /\ UNCHANGED <<phase, findings>>

Close(j) ==
  /\ phase[j] = "claimed"
  /\ phase' = [phase EXCEPT ![j] = "closed"]
  /\ UNCHANGED <<findings, blocked>>

LedgerNext ==
  \E j \in Jobs : Claim(j) \/ PublishFindings(j) \/ Block(j) \/ Unblock(j) \/ Close(j)

LedgerSpec == LedgerInit /\ [][LedgerNext]_ledgerVars
=============================================================================
