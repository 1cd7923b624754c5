------------------------------ MODULE RulesSync -------------------------------
(***************************************************************************)
(* The rules repository and its copy in the table rules: every run of      *)
(* cmd/rules-sync clones the repository, embeds and upserts what it can    *)
(* parse and disables what is missing (internal/core/pipelines/rulessync). *)
(* Nothing keeps two runs from overlapping.                                *)
(***************************************************************************)
EXTENDS Naturals, Sequences

CONSTANTS
  Paths,       \* files of the rules repository; a rule's id is its path
  Fits,        \* paths the type of rules.rule_id accepts
  Syncs,       \* runs of rules-sync
  MaxCommits,  \* bound on the commits of the rules repository
  RuleFaults   \* calls that may fail: a subset of {"git", "llm", "store"}

ASSUME RulesAssumption ==
  /\ Fits \subseteq Paths
  /\ MaxCommits \in Nat \ {0}
  /\ RuleFaults \subseteq {"git", "llm", "store"}

VARIABLES
  repoLog,   \* repoLog[c]: the files at commit c that parse as rules
  ruleRows,  \* the table: path -> [commit, enabled], a partial function
  syncStep,  \* syncStep[s]: the call run s makes next
  cloned     \* cloned[s]: the commit run s has cloned, 0 if none

rulesVars == <<repoLog, ruleRows, syncStep, cloned>>

-----------------------------------------------------------------------------
RuleRow == [commit: 1..MaxCommits, enabled: BOOLEAN]

(* parseFiles skips a file without frontmatter or title.                   *)
ParsedFiles(c) == repoLog[c]

RulesTypeOK ==
  /\ repoLog \in Seq(SUBSET Paths) /\ Len(repoLog) <= MaxCommits
  /\ DOMAIN ruleRows \subseteq Paths /\ ruleRows \in [DOMAIN ruleRows -> RuleRow]
  /\ \A p \in DOMAIN ruleRows : ruleRows[p].commit \in DOMAIN repoLog
  /\ syncStep \in [Syncs -> {"fetch", "embed", "upsert", "tombstone", "done"}]
  /\ cloned \in [Syncs -> 0..MaxCommits]
  /\ \A s \in Syncs : /\ cloned[s] <= Len(repoLog)
                      /\ syncStep[s] \in {"embed", "upsert", "tombstone"} => cloned[s] # 0

RulesInit ==
  /\ repoLog = <<>>
  /\ ruleRows = <<>>
  /\ syncStep = [s \in Syncs |-> "done"]
  /\ cloned = [s \in Syncs |-> 0]

SyncTo(s, place) == syncStep' = [syncStep EXCEPT ![s] = place]

CommitRules(files) ==
  /\ Len(repoLog) < MaxCommits
  /\ repoLog' = Append(repoLog, files)
  /\ UNCHANGED <<ruleRows, syncStep, cloned>>

StartSync(s) ==
  /\ syncStep[s] = "done"
  /\ SyncTo(s, "fetch")
  /\ UNCHANGED <<repoLog, ruleRows, cloned>>

(* FetchAt, a shallow clone of the branch, and parseFiles.  Without a rule *)
(* the run ends here: what is in the table stays.                          *)
Fetch(s) ==
  /\ syncStep[s] = "fetch"
  /\ \/ /\ repoLog # <<>>
        /\ cloned' = [cloned EXCEPT ![s] = Len(repoLog)]
        /\ SyncTo(s, IF ParsedFiles(Len(repoLog)) = {} THEN "done" ELSE "embed")
     \/ /\ "git" \in RuleFaults \/ repoLog = <<>>
        /\ SyncTo(s, "done")
        /\ UNCHANGED cloned
  /\ UNCHANGED <<repoLog, ruleRows>>

(* embed: the cache, then the model for the texts it lacks; a cache that   *)
(* cannot be written is logged only.                                       *)
EmbedRules(s) ==
  /\ syncStep[s] = "embed"
  /\ SyncTo(s, "upsert") \/ ({"llm", "store"} \cap RuleFaults # {} /\ SyncTo(s, "done"))
  /\ UNCHANGED <<repoLog, ruleRows, cloned>>

RulesWith(ids, c) ==
  [p \in DOMAIN ruleRows \cup ids |->
     IF p \in ids THEN [commit |-> c, enabled |-> TRUE] ELSE ruleRows[p]]

(* Mutant: the rows are written one by one, outside a transaction.         *)
UpsertRowByRow(s) ==
  /\ syncStep[s] = "upsert"
  /\ \E ids \in SUBSET (ParsedFiles(cloned[s]) \cap Fits) :
       /\ ruleRows' = RulesWith(ids, cloned[s])
       /\ SyncTo(s, IF ids = ParsedFiles(cloned[s]) THEN "tombstone" ELSE "done")
  /\ UNCHANGED <<repoLog, cloned>>

(* UpsertFromRepo: one transaction, which a single bad id undoes.  A commit*)
(* whose answer is lost has its effect all the same.                       *)
UpsertFromRepo(s) ==
  LET ids == ParsedFiles(cloned[s])
  IN  /\ syncStep[s] = "upsert"
      /\ \/ /\ ids \subseteq Fits
            /\ ruleRows' = RulesWith(ids, cloned[s])
            /\ SyncTo(s, "tombstone") \/ ("store" \in RuleFaults /\ SyncTo(s, "done"))
         \/ /\ ~(ids \subseteq Fits) \/ "store" \in RuleFaults
            /\ SyncTo(s, "done")
            /\ UNCHANGED ruleRows
      /\ UNCHANGED <<repoLog, cloned>>

Disable(stale) ==
  ruleRows' = [p \in DOMAIN ruleRows |-> IF p \in stale THEN [ruleRows[p] EXCEPT !.enabled = FALSE] ELSE ruleRows[p]]

(* TombstoneMissing disables rows of the cloned commit itself that are not *)
(* among its rules; an error is logged only.                               *)
TombstoneMissing(s) ==
  /\ syncStep[s] = "tombstone"
  /\ \/ Disable({p \in DOMAIN ruleRows \ ParsedFiles(cloned[s]) : ruleRows[p].commit = cloned[s]})
     \/ "store" \in RuleFaults /\ UNCHANGED ruleRows
  /\ SyncTo(s, "done")
  /\ UNCHANGED <<repoLog, cloned>>

SyncRun(s) ==
  StartSync(s) \/ Fetch(s) \/ EmbedRules(s) \/ UpsertFromRepo(s) \/ TombstoneMissing(s)

RulesNext ==
  \/ \E files \in SUBSET Paths : CommitRules(files)
  \/ \E s \in Syncs : SyncRun(s)

RulesSpec == RulesInit /\ [][RulesNext]_rulesVars

-----------------------------------------------------------------------------
(* A commit is taken over as a whole: where one of its rules is in the     *)
(* table, all of them are, each in its version or that of another commit;  *)
(* no row names a commit in which its file is no rule.  And a rule that    *)
(* every commit has is in force, whichever runs for older and newer commits*)
(* overlap.  Of a rule that was removed nothing is said: TombstoneMissing  *)
(* is there to disable it.                                                 *)
CommitIsTakenWhole ==
  \A p \in DOMAIN ruleRows :
    /\ p \in ParsedFiles(ruleRows[p].commit)
    /\ ParsedFiles(ruleRows[p].commit) \subseteq DOMAIN ruleRows
    /\ ~ruleRows[p].enabled => \E c \in DOMAIN repoLog : p \notin ParsedFiles(c)
=============================================================================
