----------------------------- MODULE MCKnowledge -----------------------------
(* What reviews draw on, one part of it per behaviour: the indexer, a bus  *)
(* with any handler, the rules, the past comments, exports and imports.    *)
EXTENDS Indexing, JobBus, RulesSync, CommentHistory, Snapshots

VARIABLE focus   \* the part this behaviour is about

(* The branch starts with one file: a push changes or removes it and adds  *)
(* others.  The cache was swept a moment ago.                              *)
MCFile == CHOOSE f \in Files : TRUE
MCContent == CHOOSE c \in Contents : TRUE

KnowledgeInit ==
  /\ focus \in {"index", "bus", "rules", "history", "snapshots"}
  /\ IndexInit
  /\ IF focus = "index" THEN Len(born) <= CacheRows /\ trees[1] = [f \in Files |-> IF f = MCFile THEN MCContent ELSE NoFile]
     ELSE provider = "github" /\ cache = <<>> /\ trees[1] = [f \in Files |-> NoFile]
  /\ BusInit /\ RulesInit /\ HistoryInit /\ SnapshotInit

(* Nothing reads a file that the parser does not support: one content will *)
(* do for it.                                                              *)
PlainTrees == \A n \in DOMAIN trees : \A f \in Files \ Parsed : trees[n][f] \in {MCContent, NoFile}

KnowledgeNext ==
  /\ \/ focus = "index" /\ IndexNext /\ PlainTrees' /\ UNCHANGED <<busVars, rulesVars, historyVars, snapshotVars>>
     \/ focus = "bus" /\ BusNext /\ UNCHANGED <<indexVars, rulesVars, historyVars, snapshotVars>>
     \/ focus = "rules" /\ RulesNext /\ UNCHANGED <<indexVars, busVars, historyVars, snapshotVars>>
     \/ focus = "history" /\ HistoryNext /\ UNCHANGED <<indexVars, busVars, rulesVars, snapshotVars>>
     \/ focus = "snapshots" /\ SnapshotNext /\ UNCHANGED <<indexVars, busVars, rulesVars, historyVars>>
  /\ UNCHANGED focus

KnowledgeVars == <<focus, indexVars, busVars, rulesVars, historyVars, snapshotVars>>

(* IndexFairness and BusFairness, each where its part runs.                *)
KnowledgeFairness ==
  /\ \A w \in Indexers : WF_indexVars(focus = "index" /\ IndexWork(w))
  /\ \A s \in 1..PushMessages : WF_indexVars(focus = "index" /\ PushDelivered(s)) /\ WF_indexVars(focus = "index" /\ PushExpires(s))
  /\ \A s \in 1..MaxMessages : WF_busVars(focus = "bus" /\ s \in Seqs /\ AckWaitExpires(s))
  /\ \A s \in 1..MaxMessages : WF_busVars(focus = "bus" /\ s \in Seqs /\ \E w \in Workers : Deliver(w, s))
  /\ \A w \in Workers : WF_busVars(focus = "bus" /\ (Ack(w) \/ Nak(w) \/ Abandon(w)))

KnowledgeSpec == KnowledgeInit /\ [][KnowledgeNext]_KnowledgeVars /\ KnowledgeFairness

(* The type invariants of the parts.                                       *)
KnowledgeTypeOK ==
  CASE focus = "index" -> IndexTypeOK
    [] focus = "bus" -> BusTypeOK /\ HoldersWithinDeliveries
    [] focus = "rules" -> RulesTypeOK
    [] focus = "history" -> HistoryTypeOK
    [] focus = "snapshots" -> SnapshotTypeOK

(* Comments of one pull request; a repository for every chunk; the same    *)
(* id on the host for the comments of both databases.                      *)
MCPrOf == [c \in AllComments |-> 1]
MCRepoOf == [a1 |-> "r1", a2 |-> "r2"]
MCGithubId == [c \in SnapComments |-> 7]
=============================================================================
