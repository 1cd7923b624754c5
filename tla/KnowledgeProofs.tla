-------------------------- MODULE KnowledgeProofs --------------------------
(***************************************************************************)
(* What the stored knowledge guarantees, for any number of its rows: the   *)
(* table of rules under overlapping runs of rules-sync, the past comments  *)
(* under their three writers, and exports taken meanwhile.                 *)
(***************************************************************************)
EXTENDS MCKnowledge, IndexProofs, JobBusProofs, WellFoundedInduction

(* A set of naturals that is not empty has a least element.                *)
LEMMA LeastExists ==
  ASSUME NEW S \in SUBSET Nat, S # {}
  PROVE  \E n \in S : \A m \in S : n <= m
<1> DEFINE R == OpToRel(<, Nat)
<1>1. IsWellFoundedOn(R, Nat)  BY NatLessThanWellFounded
<1>2. \A x, y \in Nat : x < y => <<x, y>> \in R  BY DEF OpToRel
<1> HIDE DEF R
<1>3. PICK n \in S : \A m \in S : ~ (<<m, n>> \in R)  BY <1>1, WFMin
<1>4. \A m \in S : ~ (m < n)  BY <1>2, <1>3
<1> QED  BY <1>4

-----------------------------------------------------------------------------
(* Rules.                                                                  *)

(* The type invariant and the property are inductive together: the rows    *)
(* name commits whose files no later commit changes.                       *)
RulesInv == RulesTypeOK /\ CommitIsTakenWhole

LEMMA RulesInitial == RulesInit => RulesInv
BY RulesAssumption DEF RulesInit, RulesInv, RulesTypeOK, CommitIsTakenWhole

(* The log only grows, and a commit keeps its files.                       *)
LEMMA CommitKeepsFiles ==
  ASSUME RulesTypeOK, NEW files \in SUBSET Paths, CommitRules(files)
  PROVE  /\ repoLog' \in Seq(SUBSET Paths) /\ Len(repoLog') = Len(repoLog) + 1
         /\ Len(repoLog') <= MaxCommits
         /\ DOMAIN repoLog \subseteq DOMAIN repoLog'
         /\ \A c \in DOMAIN repoLog : repoLog'[c] = repoLog[c]
<1>1. /\ repoLog \in Seq(SUBSET Paths) /\ repoLog' = Append(repoLog, files)
      /\ Len(repoLog) < MaxCommits /\ MaxCommits \in Nat
  BY RulesAssumption DEF RulesTypeOK, CommitRules
<1> QED  BY <1>1

(* An upsert writes rows that name the cloned commit, all its rules at once.*)
LEMMA UpsertIsWhole ==
  ASSUME RulesInv, NEW s \in Syncs, syncStep[s] = "upsert", UNCHANGED repoLog,
         ruleRows' = RulesWith(ParsedFiles(cloned[s]), cloned[s])
  PROVE  /\ DOMAIN ruleRows' \subseteq Paths
         /\ ruleRows' \in [DOMAIN ruleRows' -> RuleRow]
         /\ \A p \in DOMAIN ruleRows' : ruleRows'[p].commit \in DOMAIN repoLog
         /\ CommitIsTakenWhole'
<1> DEFINE c == cloned[s]
           ids == repoLog[c]
<1>1. c \in 1..Len(repoLog) /\ DOMAIN repoLog = 1..Len(repoLog) /\ c \in 1..MaxCommits /\ ids \subseteq Paths
  BY RulesAssumption DEF RulesInv, RulesTypeOK
<1>2. /\ DOMAIN ruleRows' = DOMAIN ruleRows \cup ids
      /\ \A p \in ids : ruleRows'[p] = [commit |-> c, enabled |-> TRUE]
      /\ \A p \in DOMAIN ruleRows \ ids : ruleRows'[p] = ruleRows[p]
  BY DEF RulesWith, ParsedFiles
<1>3. ASSUME NEW p \in DOMAIN ruleRows'
      PROVE  /\ ruleRows'[p] \in RuleRow /\ ruleRows'[p].commit \in DOMAIN repoLog
             /\ p \in repoLog[ruleRows'[p].commit]
             /\ ~ruleRows'[p].enabled => \E d \in DOMAIN repoLog : p \notin repoLog[d]
             /\ repoLog[ruleRows'[p].commit] \subseteq DOMAIN ruleRows'
  <2>1. CASE p \in ids
    <3>1. ruleRows'[p] = [commit |-> c, enabled |-> TRUE]
      BY <1>2, <2>1
    <3> QED  BY <1>1, <1>2, <2>1, <3>1 DEF RuleRow
  <2>2. CASE p \notin ids
    <3>1. p \in DOMAIN ruleRows /\ ruleRows'[p] = ruleRows[p]
      BY <1>2, <2>2
    <3>2. /\ ruleRows[p] \in RuleRow /\ ruleRows[p].commit \in DOMAIN repoLog
          /\ p \in repoLog[ruleRows[p].commit]
          /\ ~ruleRows[p].enabled => \E d \in DOMAIN repoLog : p \notin repoLog[d]
          /\ repoLog[ruleRows[p].commit] \subseteq DOMAIN ruleRows
      BY <3>1 DEF RulesInv, RulesTypeOK, CommitIsTakenWhole, ParsedFiles
    <3> QED  BY <1>2, <3>1, <3>2
  <2> QED  BY <2>1, <2>2
<1>4. DOMAIN ruleRows' \subseteq Paths
  BY <1>1, <1>2 DEF RulesInv, RulesTypeOK
<1>5. ruleRows' \in [DOMAIN ruleRows' -> RuleRow]
  BY <1>3 DEF RulesWith
<1> QED  BY <1>3, <1>4, <1>5 DEF CommitIsTakenWhole, ParsedFiles

LEMMA RulesStep == RulesInv /\ [RulesNext]_rulesVars => RulesInv'
<1> SUFFICES ASSUME RulesInv, [RulesNext]_rulesVars PROVE RulesInv'
  OBVIOUS
<1>0. RulesTypeOK /\ CommitIsTakenWhole
  BY DEF RulesInv
<1>1. ASSUME NEW files \in SUBSET Paths, CommitRules(files) PROVE RulesInv'
  <2>1. /\ repoLog' \in Seq(SUBSET Paths) /\ Len(repoLog') = Len(repoLog) + 1
        /\ Len(repoLog') <= MaxCommits /\ DOMAIN repoLog \subseteq DOMAIN repoLog'
        /\ \A c \in DOMAIN repoLog : repoLog'[c] = repoLog[c]
    BY <1>0, <1>1, CommitKeepsFiles
  <2>2. ruleRows' = ruleRows /\ syncStep' = syncStep /\ cloned' = cloned
    BY <1>1 DEF CommitRules
  <2>3. RulesTypeOK'
    BY <1>0, <2>1, <2>2 DEF RulesTypeOK
  <2>4. CommitIsTakenWhole'
    BY <1>0, <2>1, <2>2 DEF RulesTypeOK, CommitIsTakenWhole, ParsedFiles
  <2> QED  BY <2>3, <2>4 DEF RulesInv
<1>2. ASSUME NEW s \in Syncs, StartSync(s) PROVE RulesInv'
  BY <1>0, <1>2 DEF StartSync, SyncTo, RulesInv, RulesTypeOK, CommitIsTakenWhole, ParsedFiles
<1>3. ASSUME NEW s \in Syncs, Fetch(s) PROVE RulesInv'
  <2>1. CommitIsTakenWhole'
    BY <1>0, <1>3 DEF Fetch, CommitIsTakenWhole, ParsedFiles
  <2>2. CASE repoLog # <<>> /\ cloned' = [cloned EXCEPT ![s] = Len(repoLog)]
    <3>1. Len(repoLog) \in 1..MaxCommits
      BY <1>0, <2>2, RulesAssumption DEF RulesTypeOK
    <3> QED  BY <1>0, <1>3, <2>1, <2>2, <3>1 DEF Fetch, SyncTo, RulesInv, RulesTypeOK
  <2>3. CASE SyncTo(s, "done") /\ UNCHANGED cloned
    BY <1>0, <1>3, <2>1, <2>3 DEF Fetch, SyncTo, RulesInv, RulesTypeOK
  <2> QED  BY <1>3, <2>2, <2>3 DEF Fetch
<1>4. ASSUME NEW s \in Syncs, EmbedRules(s) PROVE RulesInv'
  BY <1>0, <1>4 DEF EmbedRules, SyncTo, RulesInv, RulesTypeOK, CommitIsTakenWhole, ParsedFiles
<1>5. ASSUME NEW s \in Syncs, UpsertFromRepo(s) PROVE RulesInv'
  <2>1. CASE ruleRows' = RulesWith(ParsedFiles(cloned[s]), cloned[s])
    <3>1. /\ DOMAIN ruleRows' \subseteq Paths /\ CommitIsTakenWhole'
          /\ ruleRows' \in [DOMAIN ruleRows' -> RuleRow]
          /\ \A p \in DOMAIN ruleRows' : ruleRows'[p].commit \in DOMAIN repoLog
      BY <1>5, <2>1, UpsertIsWhole DEF UpsertFromRepo
    <3>2. syncStep[s] = "upsert" /\ (SyncTo(s, "tombstone") \/ SyncTo(s, "done")) /\ UNCHANGED <<repoLog, cloned>>
      BY <1>5 DEF UpsertFromRepo
    <3> QED  BY <1>0, <3>1, <3>2 DEF SyncTo, RulesInv, RulesTypeOK
  <2>2. CASE SyncTo(s, "done") /\ UNCHANGED ruleRows
    BY <1>0, <1>5, <2>2 DEF UpsertFromRepo, SyncTo, RulesInv, RulesTypeOK, CommitIsTakenWhole, ParsedFiles
  <2> QED  BY <1>5, <2>1, <2>2 DEF UpsertFromRepo
<1>6. ASSUME NEW s \in Syncs, TombstoneMissing(s) PROVE RulesInv'
  (* A row of the cloned commit is one of its rules, so none is disabled.  *)
  <2>1. UNCHANGED ruleRows
    <3>1. ASSUME Disable({p \in DOMAIN ruleRows \ ParsedFiles(cloned[s]) : ruleRows[p].commit = cloned[s]})
          PROVE  UNCHANGED ruleRows
      <4>1. {p \in DOMAIN ruleRows \ ParsedFiles(cloned[s]) : ruleRows[p].commit = cloned[s]} = {}
        BY <1>0 DEF CommitIsTakenWhole
      <4>2. ruleRows' = [p \in DOMAIN ruleRows |-> ruleRows[p]]
        BY <3>1, <4>1 DEF Disable
      <4> QED  BY <1>0, <4>2 DEF RulesTypeOK
    <3> QED  BY <1>6, <3>1 DEF TombstoneMissing
  <2> QED  BY <1>0, <1>6, <2>1 DEF TombstoneMissing, SyncTo, RulesInv, RulesTypeOK, CommitIsTakenWhole, ParsedFiles
<1>7. CASE UNCHANGED rulesVars
  BY <1>0, <1>7 DEF rulesVars, RulesInv, RulesTypeOK, CommitIsTakenWhole, ParsedFiles
<1> QED  BY <1>1, <1>2, <1>3, <1>4, <1>5, <1>6, <1>7 DEF RulesNext, SyncRun

(* However runs overlap and whatever fails, the rules of a commit are in   *)
(* the table together or not at all, and none that every commit has is     *)
(* disabled (UpsertFromRepo and TombstoneMissing of storepostgres/         *)
(* rules.go).  Nothing is claimed of rules a commit no longer has.         *)
THEOREM CommitsAreWhole == RulesSpec => [](RulesTypeOK /\ CommitIsTakenWhole)
<1>1. RulesInv => RulesTypeOK /\ CommitIsTakenWhole
  BY DEF RulesInv
<1> QED  BY RulesInitial, RulesStep, <1>1, PTL DEF RulesSpec

-----------------------------------------------------------------------------
(* Past comments.                                                          *)

(* A listing says of the reactions what somebody meant, and its vectors    *)
(* are those of its texts.                                                 *)
ListedTruly ==
  /\ \A i \in DOMAIN listing : listing[i].votes = "even" \/ <<listing[i].id, OutcomeOf(listing[i].votes)>> \in said
  /\ \A i \in DOMAIN listing : listingVecs[i] = listing[i].text

HistoryInv == HistoryTypeOK /\ ListedTruly /\ RowsAreTrue

(* Among finitely many places each has a number of its own.                *)
LEMMA PlacesDiffer ==
  ASSUME NEW S \in SUBSET Nat, IsFiniteSet(S)
  PROVE  /\ \A i \in S : PlaceIn(S, i) \in 1..Cardinality(S)
         /\ \A i, k \in S : PlaceIn(S, i) = PlaceIn(S, k) => i = k
<1> DEFINE Upto(i) == {j \in S : j <= i}
<1>1. ASSUME NEW i \in S
      PROVE  /\ IsFiniteSet(Upto(i)) /\ Cardinality(Upto(i)) \in 1..Cardinality(S)
  <2>1. Upto(i) \in SUBSET S  OBVIOUS
  <2>2. i \in Upto(i)  OBVIOUS
  <2> HIDE DEF Upto
  <2>3. IsFiniteSet(Upto(i)) /\ Cardinality(Upto(i)) <= Cardinality(S)  BY <2>1, FS_Subset
  <2>4. Cardinality(Upto(i)) # 0  BY <2>2, <2>3, FS_EmptySet
  <2> QED  BY <2>3, <2>4, FS_CardinalityType
<1>2. ASSUME NEW i \in S, NEW k \in S, i < k PROVE Cardinality(Upto(i)) # Cardinality(Upto(k))
  <2>0. \A j \in S : j \in Nat /\ (j <= i => j <= k)  BY <1>2
  <2>1. Upto(i) \in SUBSET Upto(k)  BY <2>0
  <2>2. k \in Upto(k) /\ k \notin Upto(i)  BY <1>2
  <2> HIDE DEF Upto
  <2> QED  BY <1>1, <2>1, <2>2, FS_Subset
<1>3. \A i \in S : PlaceIn(S, i) = Cardinality(Upto(i))  BY DEF PlaceIn
<1> HIDE DEF Upto
<1>4. \A i, k \in S : i < k => PlaceIn(S, i) # PlaceIn(S, k)  BY <1>2, <1>3
<1>5. \A i, k \in S : i < k \/ k < i \/ i = k  OBVIOUS
<1> QED  BY <1>1, <1>3, <1>4, <1>5

(* processPr pairs every comment with the vector of its own text.          *)
LEMMA VectorsAreOfTexts ==
  ASSUME NEW list \in Seq(Listing), NEW cached \in SUBSET Texts
  PROVE  /\ Vectors(list, cached) \in Seq(Texts \cup {NoText})
         /\ Len(Vectors(list, cached)) = Len(list)
         /\ \A i \in DOMAIN list : Vectors(list, cached)[i] = list[i].text
<1> DEFINE sent == ToEmbedOf(list, cached)
           results == ResultsFor(list, sent)
           FirstLike(i) == CHOOSE j \in sent : list[j].text = list[i].text
<1>1. /\ Len(list) \in Nat /\ DOMAIN list = 1..Len(list)
      /\ \A i \in DOMAIN list : list[i].text \in Texts \cup {NoText}
  <2>1. Len(list) \in Nat /\ DOMAIN list = 1..Len(list)  BY LenProperties
  <2>2. \A i \in 1..Len(list) : list[i] \in Listing  BY ElementOfSeq
  <2> QED  BY <2>1, <2>2 DEF Listing
<1>2. sent \in SUBSET (1..Len(list))  BY <1>1 DEF ToEmbedOf
<1>3. sent \in SUBSET Nat /\ IsFiniteSet(sent)
  <2> HIDE DEF sent
  <2>1. IsFiniteSet(1..Len(list)) /\ 1..Len(list) \subseteq Nat  BY <1>1, FS_Interval
  <2> QED  BY <1>2, <2>1, FS_Subset
<1>4. ASSUME NEW i \in sent PROVE results[PlaceIn(sent, i)] = list[i].text
  <2> HIDE DEF sent
  <2>1. PlaceIn(sent, i) \in 1..Cardinality(sent)  BY <1>3, PlacesDiffer
  <2>2. (CHOOSE k \in sent : PlaceIn(sent, k) = PlaceIn(sent, i)) = i  BY <1>3, PlacesDiffer
  <2>3. results[PlaceIn(sent, i)] = list[CHOOSE k \in sent : PlaceIn(sent, k) = PlaceIn(sent, i)].text
    BY <2>1 DEF ResultsFor
  <2> QED  BY <2>2, <2>3
<1>5. ASSUME NEW i \in DOMAIN list, list[i].text \notin cached \cup {NoText}
      PROVE  \E j \in sent : list[j].text = list[i].text
  <2> DEFINE Alike == {j \in 1..Len(list) : list[j].text = list[i].text}
  <2>1. Alike \in SUBSET Nat /\ i \in Alike  BY <1>1
  <2>2. PICK j \in Alike : \A m \in Alike : j <= m
    <3> HIDE DEF Alike
    <3> QED  BY <2>1, LeastExists
  <2>3. \A m \in 1..(j - 1) : list[m].text # list[j].text  BY <1>1, <2>2
  <2>4. j \in sent  BY <1>1, <1>5, <2>2, <2>3 DEF ToEmbedOf
  <2> QED  BY <2>2, <2>4
<1>6. ASSUME NEW i \in DOMAIN list PROVE Vectors(list, cached)[i] = list[i].text
  <2>1. Vectors(list, cached)[i] =
          IF list[i].text \in cached \cup {NoText} THEN list[i].text ELSE results[PlaceIn(sent, FirstLike(i))]
    BY DEF Vectors
  <2>2. CASE list[i].text \notin cached \cup {NoText}
    <3>1. FirstLike(i) \in sent /\ list[FirstLike(i)].text = list[i].text  BY <1>5, <2>2
    <3> HIDE DEF sent, results, FirstLike
    <3> QED  BY <1>4, <2>1, <2>2, <3>1
  <2> QED  BY <2>1, <2>2
<1>7. Vectors(list, cached) \in [1..Len(list) -> Texts \cup {NoText}]
  <2>1. Vectors(list, cached) = [i \in 1..Len(list) |-> Vectors(list, cached)[i]]  BY <1>1 DEF Vectors
  <2> QED  BY <1>1, <1>6, <2>1
<1> QED
  <2> DEFINE vecs == Vectors(list, cached)
  <2> HIDE DEF vecs
  <2>1. vecs \in Seq(Texts \cup {NoText}) /\ Len(vecs) = Len(list)  BY <1>1, <1>7 DEF vecs
  <2> QED  BY <1>6, <2>1 DEF vecs

(* An arrangement of a finite set is a sequence.                           *)
LEMMA ArrangementIsSeq ==
  ASSUME NEW S, IsFiniteSet(S), NEW p \in SetToSeqs(S)
  PROVE  p \in Seq(S) /\ DOMAIN p = 1..Len(p)
<1>1. Cardinality(S) \in Nat /\ p \in [1..Cardinality(S) -> S]
  BY FS_CardinalityType DEF SetToSeqs
<1> QED  BY <1>1

LEMMA HistoryInitial == HistoryInit => HistoryInv
BY DEF HistoryInit, HistoryInv, HistoryTypeOK, ListedTruly, RowsAreTrue, OutcomeIsExplained, EmbeddingIsOfItsText

LEMMA OutcomeOfSome ==
  /\ OutcomeOf("more") = "accepted" /\ OutcomeOf("fewer") = "dismissed" /\ OutcomeOf("even") = "pending"
BY DEF OutcomeOf

(* An upsert leaves the other rows; the row it writes says what its row    *)
(* argument says, but for the source of a row that was there.              *)
LEMMA UpsertIsOfOneRow ==
  ASSUME HistoryTypeOK, NEW c \in AllComments, NEW row \in HistoryRow
  PROVE  LET rows == RowsUpserted(c, row)
         IN  /\ DOMAIN rows = DOMAIN commentRows \cup {c}
             /\ \A d \in DOMAIN rows : rows[d] \in HistoryRow
             /\ \A d \in DOMAIN rows : d # c => d \in DOMAIN commentRows /\ rows[d] = commentRows[d]
             /\ rows[c].text = row.text /\ rows[c].outcome = row.outcome /\ rows[c].vec = row.vec
BY DEF HistoryTypeOK, RowsUpserted, HistoryRow

LEMMA UpsertKeepsRowsTrue ==
  ASSUME HistoryInv, NEW c \in AllComments, NEW row \in HistoryRow,
         commentRows' = RowsUpserted(c, row), UNCHANGED <<said, recorded>>,
         row.outcome # "pending" => <<c, row.outcome>> \in said,
         row.vec \in {row.text, NoText}
  PROVE  /\ DOMAIN commentRows' \subseteq AllComments
         /\ \A d \in DOMAIN commentRows' : commentRows'[d] \in HistoryRow
         /\ RowsAreTrue'
<1>1. /\ DOMAIN commentRows' = DOMAIN commentRows \cup {c}
      /\ \A d \in DOMAIN commentRows' : commentRows'[d] \in HistoryRow
      /\ \A d \in DOMAIN commentRows' : d # c => d \in DOMAIN commentRows /\ commentRows'[d] = commentRows[d]
      /\ commentRows'[c].text = row.text /\ commentRows'[c].outcome = row.outcome /\ commentRows'[c].vec = row.vec
  BY UpsertIsOfOneRow DEF HistoryInv
<1>2. /\ DOMAIN commentRows \subseteq AllComments
      /\ \A d \in DOMAIN commentRows : commentRows[d].outcome # "pending" =>
           <<d, commentRows[d].outcome>> \in said \cup IF commentRows[d].source = "bot" THEN recorded ELSE {}
      /\ \A d \in DOMAIN commentRows : commentRows[d].vec \in {commentRows[d].text, NoText}
  BY DEF HistoryInv, HistoryTypeOK, RowsAreTrue, OutcomeIsExplained, EmbeddingIsOfItsText
<1>3. OutcomeIsExplained'  BY <1>1, <1>2 DEF OutcomeIsExplained
<1>4. EmbeddingIsOfItsText'  BY <1>1, <1>2 DEF EmbeddingIsOfItsText
<1> QED  BY <1>1, <1>2, <1>3, <1>4 DEF RowsAreTrue

LEMMA HistoryStep == HistoryInv /\ [HistoryNext]_historyVars => HistoryInv'
<1> SUFFICES ASSUME HistoryInv, [HistoryNext]_historyVars PROVE HistoryInv'
  OBVIOUS
<1>0. /\ HistoryTypeOK /\ ListedTruly /\ RowsAreTrue /\ OutcomeIsExplained /\ EmbeddingIsOfItsText
      /\ IsFiniteSet(AllComments) /\ DOMAIN PrOf = AllComments
  BY HistoryAssumption DEF HistoryInv, RowsAreTrue
<1>1. ASSUME NEW c \in AllComments, NEW balance \in {"more", "fewer"}, React(c, balance) PROVE HistoryInv'
  <2>1. OutcomeOf(balance) \in Meanings  BY <1>1 DEF React
  <2>2. /\ said' = said \cup {<<c, OutcomeOf(balance)>>}
        /\ UNCHANGED <<recorded, referenced, commentRows, prQueue, listing, listingVecs>>
    BY <1>1 DEF React, backfillVars, feedbackRows
  <2> QED  BY <1>0, <2>1, <2>2
           DEF HistoryInv, HistoryTypeOK, ListedTruly, RowsAreTrue, OutcomeIsExplained, EmbeddingIsOfItsText
<1>2. ASSUME NEW c \in Bots, NEW t \in Texts, StoreBotComment(c, t) PROVE HistoryInv'
  <2> DEFINE row == [source |-> "bot", text |-> t, outcome |-> "pending", vec |-> NoText]
  <2>1. row \in HistoryRow /\ c \in AllComments  BY DEF HistoryRow, AllComments
  <2>2. /\ DOMAIN commentRows' \subseteq AllComments /\ RowsAreTrue'
        /\ \A d \in DOMAIN commentRows' : commentRows'[d] \in HistoryRow
    BY <1>2, <2>1, UpsertKeepsRowsTrue DEF StoreBotComment, feedbackRows
  <2>3. UNCHANGED <<said, recorded, referenced, prQueue, listing, listingVecs>>
    BY <1>2 DEF StoreBotComment, backfillVars, feedbackRows
  <2> QED  BY <1>0, <2>2, <2>3 DEF HistoryInv, HistoryTypeOK, ListedTruly
<1>3. ASSUME NEW c \in Bots, NEW o \in Meanings, StoreOutcome(c, o) PROVE HistoryInv'
  <2>1. /\ c \in DOMAIN commentRows /\ c \in AllComments /\ <<c, o>> \in recorded /\ commentRows[c].source = "bot"
        /\ commentRows' = [commentRows EXCEPT ![c].outcome = o]
        /\ UNCHANGED <<said, recorded, referenced, prQueue, listing, listingVecs>>
    BY <1>3 DEF StoreOutcome, backfillVars, feedbackRows, AllComments
  <2>2. /\ DOMAIN commentRows' = DOMAIN commentRows
        /\ \A d \in DOMAIN commentRows : commentRows'[d] \in HistoryRow
        /\ \A d \in DOMAIN commentRows : d # c => commentRows'[d] = commentRows[d]
        /\ commentRows'[c].outcome = o /\ commentRows'[c].text = commentRows[c].text
        /\ commentRows'[c].vec = commentRows[c].vec /\ commentRows'[c].source = "bot"
    BY <1>0, <2>1 DEF HistoryTypeOK, HistoryRow
  <2>3. OutcomeIsExplained'  BY <1>0, <2>1, <2>2 DEF OutcomeIsExplained
  <2>4. EmbeddingIsOfItsText'  BY <1>0, <2>1, <2>2 DEF EmbeddingIsOfItsText
  <2>5. HistoryTypeOK'
    <3>1. DOMAIN commentRows' \subseteq AllComments /\ \A d \in DOMAIN commentRows' : commentRows'[d] \in HistoryRow
      BY <1>0, <2>2 DEF HistoryTypeOK
    <3> QED  BY <1>0, <2>1, <3>1 DEF HistoryTypeOK
  <2>6. ListedTruly'  BY <1>0, <2>1 DEF ListedTruly
  <2> QED  BY <2>3, <2>4, <2>5, <2>6 DEF HistoryInv, RowsAreTrue
<1>4. ASSUME NEW c \in Bots, NEW o \in Meanings, AppendFeedback(c, o) PROVE HistoryInv'
  <2>1. /\ recorded' = recorded \cup {<<c, o>>} /\ referenced' = referenced \cup {c}
        /\ UNCHANGED <<said, commentRows, prQueue, listing, listingVecs>>
    BY <1>4 DEF AppendFeedback, backfillVars
  <2> QED  BY <1>0, <2>1
           DEF HistoryInv, HistoryTypeOK, ListedTruly, RowsAreTrue, OutcomeIsExplained, EmbeddingIsOfItsText
<1>5. CASE DeleteOldFeedback
  <2>1. referenced' \subseteq referenced /\ UNCHANGED <<said, recorded, commentRows, prQueue, listing, listingVecs>>
    BY <1>5 DEF DeleteOldFeedback, backfillVars
  <2> QED  BY <1>0, <2>1
           DEF HistoryInv, HistoryTypeOK, ListedTruly, RowsAreTrue, OutcomeIsExplained, EmbeddingIsOfItsText
<1>6. CASE Tombstone
  <2>1. commentRows' = <<>> /\ UNCHANGED <<said, recorded, referenced, prQueue, listing, listingVecs>>
    BY <1>6 DEF Tombstone, backfillVars, feedbackRows
  <2>2. DOMAIN commentRows' = {}  BY <2>1
  <2> QED  BY <1>0, <2>1, <2>2
           DEF HistoryInv, HistoryTypeOK, ListedTruly, RowsAreTrue, OutcomeIsExplained, EmbeddingIsOfItsText
<1>7. CASE SearchClosedPrs
  <2>1. PICK closed \in SUBSET Range(PrOf) : prQueue' \in SetToSeqs(closed)
    BY <1>7 DEF SearchClosedPrs
  <2>2. IsFiniteSet(Range(PrOf))
    <3> DEFINE place == [c \in AllComments |-> PrOf[c]]
    <3>1. place \in Surjection(AllComments, Range(PrOf))  BY <1>0 DEF Range, Surjection
    <3> HIDE DEF place
    <3> QED  BY <1>0, <3>1, FS_Surjection
  <2>3. IsFiniteSet(closed)  BY <2>2, FS_Subset
  <2>4. prQueue' \in Seq(closed)  BY <2>1, <2>3, ArrangementIsSeq
  <2>5. prQueue' \in Seq(Range(PrOf))  BY <2>4
  <2>6. UNCHANGED <<said, recorded, referenced, commentRows, listing, listingVecs>>
    BY <1>7 DEF SearchClosedPrs, feedbackRows
  <2> QED  BY <1>0, <2>5, <2>6
           DEF HistoryInv, HistoryTypeOK, ListedTruly, RowsAreTrue, OutcomeIsExplained, EmbeddingIsOfItsText
<1>8. CASE ListAndEmbed
  <2>1. prQueue # <<>> /\ prQueue' = Tail(prQueue) /\ UNCHANGED <<said, recorded, referenced, commentRows>>
    BY <1>8 DEF ListAndEmbed, feedbackRows
  <2>2. prQueue' \in Seq(Range(PrOf))  BY <1>0, <2>1, HeadTailProperties DEF HistoryTypeOK
  <2>3. RowsAreTrue'  BY <1>0, <2>1 DEF RowsAreTrue, OutcomeIsExplained, EmbeddingIsOfItsText
  <2>4. CASE UNCHANGED <<listing, listingVecs>>
    BY <1>0, <2>1, <2>2, <2>3, <2>4 DEF HistoryInv, HistoryTypeOK, ListedTruly
  <2>5. ASSUME NEW there \in SetToSeqs({c \in AllComments : PrOf[c] = Head(prQueue)}), NEW cached \in SUBSET Texts,
               listing' \in Listings(there), listingVecs' = Vectors(listing', cached)
        PROVE  HistoryInv'
    <3> DEFINE S == {c \in AllComments : PrOf[c] = Head(prQueue)}
    <3>1. IsFiniteSet(S)  BY <1>0, FS_Subset
    <3>2. there \in Seq(S) /\ DOMAIN there = 1..Len(there)  BY <2>5, <3>1, ArrangementIsSeq
    <3>3. Len(there) \in Nat  BY <3>2, LenProperties
    <3>4. /\ listing' \in [DOMAIN there -> Listing]
          /\ \A i \in DOMAIN there :
               listing'[i].id = there[i] /\ (listing'[i].votes = "even" \/ <<there[i], OutcomeOf(listing'[i].votes)>> \in said)
      BY <2>5 DEF Listings
    <3>5. listing' \in Seq(Listing)  BY <3>2, <3>3, <3>4
    <3>6. /\ listingVecs' \in Seq(Texts \cup {NoText}) /\ Len(listingVecs') = Len(listing')
          /\ \A i \in DOMAIN listing' : listingVecs'[i] = listing'[i].text
      BY <2>5, <3>5, VectorsAreOfTexts
    <3>7. ListedTruly'  BY <2>1, <3>4, <3>6 DEF ListedTruly
    <3> QED  BY <1>0, <2>1, <2>2, <2>3, <3>5, <3>6, <3>7 DEF HistoryInv, HistoryTypeOK
  <2> QED  BY <1>8, <2>4, <2>5 DEF ListAndEmbed
<1>9. CASE UpsertListed
  <2> DEFINE c == Head(listing)
             row == [source |-> "human", text |-> c.text, outcome |-> OutcomeOf(c.votes), vec |-> Head(listingVecs)]
  <2>1. /\ listing # <<>> /\ listing' = Tail(listing) /\ listingVecs' = Tail(listingVecs)
        /\ UNCHANGED <<said, recorded, referenced, prQueue>>
    BY <1>9 DEF UpsertListed, NextVector, feedbackRows
  <2>2. /\ listing \in Seq(Listing) /\ listingVecs \in Seq(Texts \cup {NoText}) /\ Len(listingVecs) = Len(listing)
        /\ listingVecs # <<>>
    BY <1>0, <2>1 DEF HistoryTypeOK
  <2>3. /\ c \in Listing /\ c = listing[1] /\ 1 \in DOMAIN listing /\ Head(listingVecs) = listingVecs[1]
        /\ Tail(listing) \in Seq(Listing) /\ Len(Tail(listing)) = Len(listing) - 1
        /\ Tail(listingVecs) \in Seq(Texts \cup {NoText}) /\ Len(Tail(listingVecs)) = Len(listingVecs) - 1
        /\ \A i \in 1..Len(Tail(listing)) : Tail(listing)[i] = listing[i + 1] /\ Tail(listingVecs)[i] = listingVecs[i + 1]
    BY <2>1, <2>2, HeadTailProperties
  <2>4. ListedTruly'
    <3>1. /\ Len(listing) \in Nat /\ DOMAIN listing = 1..Len(listing)
          /\ DOMAIN Tail(listing) = 1..(Len(listing) - 1)
      BY <2>2, <2>3, LenProperties
    <3>2. ASSUME NEW i \in 1..(Len(listing) - 1)
          PROVE  i + 1 \in DOMAIN listing /\ Tail(listing)[i] = listing[i + 1] /\ Tail(listingVecs)[i] = listingVecs[i + 1]
      <4>1. i + 1 \in DOMAIN listing  BY <3>1
      <4>2. i \in 1..Len(Tail(listing))  BY <2>3
      <4> QED  BY <2>3, <4>1, <4>2
    <3> QED  BY <1>0, <2>1, <3>1, <3>2 DEF ListedTruly
  <2>5. /\ Head(listingVecs) = c.text
        /\ OutcomeOf(c.votes) # "pending" => <<c.id, OutcomeOf(c.votes)>> \in said
    BY <1>0, <2>3, OutcomeOfSome DEF ListedTruly
  <2>6. CASE UNCHANGED commentRows
    BY <1>0, <2>1, <2>2, <2>3, <2>4, <2>6
       DEF HistoryInv, HistoryTypeOK, RowsAreTrue, OutcomeIsExplained, EmbeddingIsOfItsText
  <2>7. CASE commentRows' = RowsUpserted(c.id, row)
    <3>1. c.id \in AllComments /\ c.text \in Texts \cup {NoText} /\ c.votes \in {"more", "fewer", "even"}
      BY <2>3 DEF Listing
    <3>2. OutcomeOf(c.votes) \in Meanings \cup {"pending"}  BY <1>0, <2>5 DEF HistoryTypeOK
    <3>3. row \in HistoryRow  BY <2>5, <3>1, <3>2 DEF HistoryRow
    <3>4. /\ DOMAIN commentRows' \subseteq AllComments /\ RowsAreTrue'
          /\ \A d \in DOMAIN commentRows' : commentRows'[d] \in HistoryRow
      <4>1. UNCHANGED <<said, recorded>> /\ row.vec \in {row.text, NoText} /\ (row.outcome # "pending" => <<c.id, row.outcome>> \in said)
        BY <2>1, <2>5
      <4> HIDE DEF row, c
      <4> QED  BY <2>7, <3>1, <3>3, <4>1, UpsertKeepsRowsTrue
    <3> QED  BY <1>0, <2>1, <2>2, <2>3, <2>4, <3>4 DEF HistoryInv, HistoryTypeOK
  <2> QED  BY <1>9, <2>6, <2>7 DEF UpsertListed
<1>10. CASE Interrupt
  BY <1>0, <1>10
     DEF Interrupt, feedbackRows, HistoryInv, HistoryTypeOK, ListedTruly, RowsAreTrue, OutcomeIsExplained, EmbeddingIsOfItsText
<1>11. CASE UNCHANGED historyVars
  BY <1>0, <1>11
     DEF historyVars, feedbackRows, backfillVars, HistoryInv, HistoryTypeOK, ListedTruly, RowsAreTrue, OutcomeIsExplained,
         EmbeddingIsOfItsText
<1> QED  BY <1>1, <1>2, <1>3, <1>4, <1>5, <1>6, <1>7, <1>8, <1>9, <1>10, <1>11 DEF HistoryNext

(* Whichever of the three writers wrote a row last, what was learned from  *)
(* it has a cause, and its vector is that of its own text: for any number  *)
(* of comments, pull requests and texts, cached or repeated (processPr of  *)
(* the backfill, CommentStore.Upsert, Handle of the feedback pipeline).    *)
THEOREM LearnedRowsAreTrue == HistorySpec => [](HistoryTypeOK /\ RowsAreTrue)
<1>1. HistoryInv => HistoryTypeOK /\ RowsAreTrue
  BY DEF HistoryInv
<1> QED  BY HistoryInitial, HistoryStep, <1>1, PTL DEF HistorySpec

-----------------------------------------------------------------------------
(* Exports and imports.                                                    *)

(* Of the exports made, files has the newest: all of them, or at least as  *)
(* many as a sweep keeps.                                                  *)
NewestOf(files, made) ==
  /\ files \subseteq made
  /\ \A old \in made \ files, new \in files : old < new
  /\ files # made => Cardinality(files) >= MaxFiles

(* Both kinds have the newest files of the same exports; the one under way *)
(* has no data yet.                                                        *)
SameExports ==
  \E made \in SUBSET (1..MaxExports) :
    /\ NewestOf(exportDir.config, made)
    /\ IF exporting = "idle" THEN NewestOf(exportDir.data, made)
       ELSE \E last \in made : (\A s \in made : s <= last) /\ NewestOf(exportDir.data, made \ {last})

(* What the export has read so far: the repositories of its chunks, but    *)
(* for those registered too late, and comments without a clash.            *)
SnapshotIsOrdered ==
  /\ exporting = "repos" => snapshot = EmptyDb
  /\ exporting = "chunks" => snapshot.chunks = {} /\ liveDb.repos \subseteq snapshot.repos \cup lateRepos
  /\ \A c \in snapshot.chunks : RepoOf[c] \in snapshot.repos \cup lateRepos
  /\ \A c, d \in DOMAIN snapshot.comments : GithubId[c] = GithubId[d] => c = d
  /\ exporting # "idle" => exportDir.config # {}

SnapshotInv == SnapshotTypeOK /\ SnapshotIsOrdered /\ (~exportBroken => SameExports)

(* A set of timestamps that is not empty has a largest.                    *)
LEMMA LatestExists ==
  ASSUME NEW files \in SUBSET (1..MaxExports), files # {}
  PROVE  \E s \in files : \A t \in files : t <= s
<1>1. MaxExports \in Nat  BY SnapshotAssumption
<1> DEFINE Ages == {MaxExports - s : s \in files}
<1>2. Ages \in SUBSET Nat /\ Ages # {}
  <2>1. \A s \in files : MaxExports - s \in Nat  BY <1>1
  <2> QED  BY <2>1
<1>3. PICK a \in Ages : \A b \in Ages : a <= b
  <2> HIDE DEF Ages
  <2> QED  BY <1>2, LeastExists
<1>4. PICK s \in files : a = MaxExports - s  BY <1>3
<1>5. ASSUME NEW t \in files PROVE t <= s
  <2>1. a <= MaxExports - t  BY <1>3
  <2> QED  BY <1>1, <1>4, <2>1
<1> QED  BY <1>5

LEMMA MaxIsLatest ==
  ASSUME NEW files \in SUBSET (1..MaxExports), files # {}
  PROVE  Max(files) \in files /\ \A t \in files : t <= Max(files)
<1>1. PICK s \in files : \A t \in files : t <= s  BY LatestExists
<1>2. \A t \in files : s >= t
  <2>1. MaxExports \in Nat  BY SnapshotAssumption
  <2> QED  BY <1>1, <2>1
<1>3. Max(files) \in files /\ \A t \in files : Max(files) >= t  BY <1>2 DEF Max
<1>4. MaxExports \in Nat  BY SnapshotAssumption
<1> QED  BY <1>3, <1>4

LEMMA FilesFinite ==
  ASSUME NEW files \in SUBSET (1..MaxExports)
  PROVE  IsFiniteSet(files) /\ Cardinality(files) \in Nat
<1>1. MaxExports \in Int  BY SnapshotAssumption
<1>2. IsFiniteSet(1..MaxExports)  BY <1>1, FS_Interval
<1> QED  BY <1>2, FS_Subset, FS_CardinalityType

(* A sweep leaves the newest files of what was made, and one at least.     *)
LEMMA SweepKeepsNewest ==
  ASSUME NEW files \in SUBSET (1..MaxExports)
  PROVE  /\ KeepNewest(files, MaxFiles) \subseteq files
         /\ files # {} => KeepNewest(files, MaxFiles) # {}
         /\ \A made \in SUBSET (1..MaxExports) : NewestOf(files, made) => NewestOf(KeepNewest(files, MaxFiles), made)
<1> DEFINE kept == KeepNewest(files, MaxFiles)
           After(i) == {j \in files : j > i}
<1>0. MaxExports \in Nat /\ MaxFiles \in Nat /\ MaxFiles >= 1  BY SnapshotAssumption
<1> files \subseteq Nat  BY <1>0
<1>1. kept \subseteq files /\ \A i \in files : i \in kept <=> Cardinality(After(i)) < MaxFiles  BY DEF KeepNewest
<1>2. \A i \in files : After(i) \in SUBSET files  OBVIOUS
<1>3. \A i \in files : IsFiniteSet(After(i)) /\ Cardinality(After(i)) \in Nat
  <2> HIDE DEF After
  <2> QED  BY <1>2, FilesFinite
<1>4. ASSUME files # {} PROVE kept # {}
  <2>1. PICK s \in files : \A t \in files : t <= s  BY <1>4, LatestExists
  <2>2. After(s) = {}
    <3>1. \A t \in files : ~ (t > s)  BY <2>1
    <3> QED  BY <3>1
  <2>3. Cardinality(After(s)) = 0  BY <2>2, FS_EmptySet
  <2> QED  BY <1>0, <1>1, <2>3
<1>5. ASSUME NEW i \in files \ kept, NEW k \in kept PROVE i < k
  <2>0. i \in files /\ i \notin kept /\ k \in files /\ i \in Nat /\ k \in Nat  BY <1>1, <1>5
  <2>1. Cardinality(After(i)) >= MaxFiles /\ Cardinality(After(k)) < MaxFiles
    <3> HIDE DEF After, kept
    <3> QED  BY <1>0, <1>1, <1>3, <1>5, <2>0
  <2>2. CASE k <= i
    <3>1. After(i) \in SUBSET After(k)
      <4>1. \A j \in files : j > i => j > k
        <5>1. \A j \in Nat : j > i => j > k  BY <2>0, <2>2
        <5> QED  BY <5>1
      <4> QED  BY <4>1
    <3>2. Cardinality(After(i)) <= Cardinality(After(k))
      <4> HIDE DEF After
      <4> QED  BY <1>1, <1>3, <3>1, FS_Subset
    <3> HIDE DEF After
    <3> QED  BY <1>0, <1>3, <2>0, <2>1, <3>2
  <2> QED  BY <2>0, <2>2
<1>6. ASSUME kept # files PROVE Cardinality(kept) >= MaxFiles
  <2>1. files \ kept # {} /\ files \ kept \in SUBSET (1..MaxExports)  BY <1>1, <1>6
  <2>2. PICK i \in files \ kept : \A t \in files \ kept : t <= i
    <3> HIDE DEF kept
    <3> QED  BY <2>1, LatestExists
  <2>3. After(i) \in SUBSET kept
    <3>1. \A j \in files : j > i => j \in kept  BY <1>0, <2>2
    <3> QED  BY <3>1
  <2>4. Cardinality(After(i)) <= Cardinality(kept) /\ Cardinality(kept) \in Nat
    <3> HIDE DEF After, kept
    <3>1. IsFiniteSet(kept) /\ Cardinality(kept) \in Nat  BY <1>1, FilesFinite
    <3> QED  BY <2>3, <3>1, FS_Subset
  <2> QED  BY <1>0, <1>1, <1>3, <2>2, <2>4
<1>7. ASSUME NEW made \in SUBSET (1..MaxExports), NewestOf(files, made) PROVE NewestOf(kept, made)
  <2> HIDE DEF kept
  <2>1. files \subseteq made /\ (\A old \in made \ files, new \in files : old < new)
        /\ (files # made => Cardinality(files) >= MaxFiles)
    BY <1>7 DEF NewestOf
  <2>2. ASSUME NEW old \in made \ kept, NEW new \in kept PROVE old < new
    BY <1>1, <1>5, <2>1
  <2>3. kept # made => Cardinality(kept) >= MaxFiles  BY <1>6, <2>1
  <2> QED  BY <1>1, <2>1, <2>2, <2>3 DEF NewestOf
<1> QED  BY <1>1, <1>4, <1>7

(* The newest of a set of exports with a newer one are the newest still.   *)
LEMMA NewerIsNewest ==
  ASSUME NEW made \in SUBSET (1..MaxExports), NEW files \in SUBSET made, NewestOf(files, made),
         NEW stamp \in 1..MaxExports, \A s \in made : s < stamp
  PROVE  NewestOf(files \cup {stamp}, made \cup {stamp})
<1>0. MaxExports \in Nat /\ MaxFiles \in Nat  BY SnapshotAssumption
<1>1. (\A old \in made \ files, new \in files : old < new) /\ (files # made => Cardinality(files) >= MaxFiles)
  BY DEF NewestOf
<1>2. IsFiniteSet(files) /\ Cardinality(files) \in Nat  BY FilesFinite
<1>3. Cardinality(files \cup {stamp}) >= Cardinality(files)
  <2>1. stamp \notin files  BY <1>0
  <2>2. Cardinality(files \cup {stamp}) = Cardinality(files) + 1  BY <1>2, <2>1, FS_AddElement
  <2> QED  BY <1>2, <2>2
<1>4. Cardinality(files \cup {stamp}) \in Nat
  <2>1. files \cup {stamp} \in SUBSET (1..MaxExports)  OBVIOUS
  <2> QED  BY <2>1, FilesFinite
<1>5. files \cup {stamp} # made \cup {stamp} => Cardinality(files \cup {stamp}) >= MaxFiles
  BY <1>0, <1>1, <1>2, <1>3, <1>4
<1>6. \A old \in (made \cup {stamp}) \ (files \cup {stamp}), new \in files \cup {stamp} : old < new  BY <1>1
<1> QED  BY <1>5, <1>6 DEF NewestOf

(* Two sets of the newest exports, neither larger than a sweep leaves.     *)
LEMMA SmallNewestAgree ==
  ASSUME NEW made \in SUBSET (1..MaxExports), NEW a \in SUBSET made, NEW b \in SUBSET made,
         NewestOf(a, made), NewestOf(b, made), Cardinality(a) <= MaxFiles, Cardinality(b) <= MaxFiles
  PROVE  a = b
<1>0. MaxExports \in Nat /\ MaxFiles \in Nat  BY SnapshotAssumption
<1>1. /\ IsFiniteSet(a) /\ Cardinality(a) \in Nat /\ IsFiniteSet(b) /\ Cardinality(b) \in Nat  BY FilesFinite
<1>2. ASSUME NEW x \in SUBSET made, NEW y \in SUBSET made, NewestOf(x, made),
             x \subseteq y, x # y, IsFiniteSet(y), Cardinality(x) \in Nat, Cardinality(y) \in Nat
      PROVE  Cardinality(y) > MaxFiles
  <2>1. Cardinality(x) >= MaxFiles  BY <1>2 DEF NewestOf
  <2>2. Cardinality(x) <= Cardinality(y) /\ Cardinality(x) # Cardinality(y)  BY <1>2, FS_Subset
  <2> QED  BY <1>0, <1>2, <2>1, <2>2
<1>3. a \subseteq b \/ b \subseteq a
  <2>1. SUFFICES ASSUME NEW i \in a, i \notin b, NEW k \in b, k \notin a PROVE FALSE
    OBVIOUS
  <2>2. i < k /\ k < i  BY <2>1 DEF NewestOf
  <2>3. i \in Nat /\ k \in Nat  BY <1>0
  <2> QED  BY <2>2, <2>3
<1> QED  BY <1>0, <1>1, <1>2, <1>3

CommentTables == UNION {[ids -> BOOLEAN] : ids \in SUBSET SnapComments}

LEMMA CommentTableOf ==
  /\ \A f \in CommentTables : DOMAIN f \in SUBSET SnapComments /\ f \in [DOMAIN f -> BOOLEAN]
  /\ \A ids \in SUBSET SnapComments : \A f \in [ids -> BOOLEAN] : f \in CommentTables
<1>1. ASSUME NEW f \in CommentTables PROVE DOMAIN f \in SUBSET SnapComments /\ f \in [DOMAIN f -> BOOLEAN]
  <2>1. PICK ids \in SUBSET SnapComments : f \in [ids -> BOOLEAN]  BY <1>1 DEF CommentTables
  <2>2. DOMAIN f = ids  BY <2>1
  <2> QED  BY <2>1, <2>2
<1>2. ASSUME NEW ids \in SUBSET SnapComments, NEW f \in [ids -> BOOLEAN] PROVE f \in CommentTables
  BY <1>2 DEF CommentTables
<1> QED  BY <1>1, <1>2

LEMMA DatabaseOf == Database = [repos : SUBSET SnapRepos, chunks : SUBSET SnapChunks, comments : CommentTables]
BY DEF Database, CommentTables

(* One more comment that clashes with none keeps a database consistent.    *)
LEMMA WithCommentConsistent ==
  ASSUME NEW db \in Database, Consistent(db), NEW c \in SnapComments, NEW vec \in BOOLEAN, Unclashing(db, c)
  PROVE  /\ WithComment(db, c, vec) \in Database /\ Consistent(WithComment(db, c, vec))
         /\ WithComment(db, c, vec).repos = db.repos /\ WithComment(db, c, vec).chunks = db.chunks
<1> DEFINE table == [d \in DOMAIN db.comments \cup {c} |-> IF d = c THEN vec ELSE db.comments[d]]
           new == WithComment(db, c, vec)
<1>1. db.comments \in CommentTables /\ db.repos \in SUBSET SnapRepos /\ db.chunks \in SUBSET SnapChunks
  BY DatabaseOf
<1>2. DOMAIN db.comments \in SUBSET SnapComments /\ \A d \in DOMAIN db.comments : db.comments[d] \in BOOLEAN
  BY <1>1, CommentTableOf
<1>3. table \in [DOMAIN db.comments \cup {c} -> BOOLEAN]  BY <1>2
<1>4. table \in CommentTables  BY <1>2, <1>3, CommentTableOf
<1>5. new = [repos |-> db.repos, chunks |-> db.chunks, comments |-> table]
  <2>1. db = [repos |-> db.repos, chunks |-> db.chunks, comments |-> db.comments]  BY DatabaseOf
  <2> QED  BY <2>1 DEF WithComment
<1>6. new.repos = db.repos /\ new.chunks = db.chunks /\ DOMAIN new.comments = DOMAIN db.comments \cup {c}
  BY <1>5
<1>7. new \in Database  BY <1>1, <1>4, <1>5, DatabaseOf
<1>8. Consistent(new)  BY <1>6 DEF Consistent, Unclashing
<1> QED  BY <1>6, <1>7, <1>8

(* An import that the tables accept leaves the database consistent.        *)
LEMMA ImportConsistent ==
  ASSUME SnapshotTypeOK, SnapshotIsOrdered, ImportData
  PROVE  coldDb' \in Database /\ Consistent(coldDb)'
<1>1. /\ coldDb \in Database /\ Consistent(coldDb) /\ snapshot \in Database
      /\ \A c, d \in DOMAIN snapshot.comments : GithubId[c] = GithubId[d] => c = d
  BY DEF SnapshotTypeOK, SnapshotIsOrdered
<1>2. CASE UNCHANGED coldDb  BY <1>1, <1>2 DEF Consistent
<1>3. CASE FitsInOrder /\ ~UNCHANGED coldDb
  <2> DEFINE ids == DOMAIN coldDb.comments \cup DOMAIN snapshot.comments
             table == [c \in ids |-> IF c \in DOMAIN snapshot.comments THEN snapshot.comments[c] ELSE coldDb.comments[c]]
  <2>1. coldDb' = [repos |-> coldDb.repos \cup snapshot.repos, chunks |-> coldDb.chunks \cup snapshot.chunks,
                   comments |-> table]
    BY <1>3 DEF ImportData
  <2>2. /\ coldDb.comments \in CommentTables /\ snapshot.comments \in CommentTables
        /\ coldDb.repos \in SUBSET SnapRepos /\ coldDb.chunks \in SUBSET SnapChunks
        /\ snapshot.repos \in SUBSET SnapRepos /\ snapshot.chunks \in SUBSET SnapChunks
    BY <1>1, DatabaseOf
  <2>3. /\ ids \in SUBSET SnapComments
        /\ \A d \in DOMAIN snapshot.comments : snapshot.comments[d] \in BOOLEAN
        /\ \A d \in DOMAIN coldDb.comments : coldDb.comments[d] \in BOOLEAN
    BY <2>2, CommentTableOf
  <2>4. table \in [ids -> BOOLEAN]  BY <2>3
  <2>5. table \in CommentTables
    <3> HIDE DEF table, ids
    <3> QED  BY <2>3, <2>4, CommentTableOf
  <2>6. coldDb' \in Database  BY <2>1, <2>2, <2>5, DatabaseOf
  <2>7. /\ coldDb'.repos = coldDb.repos \cup snapshot.repos /\ coldDb'.chunks = coldDb.chunks \cup snapshot.chunks
        /\ DOMAIN coldDb'.comments = ids
    BY <2>1
  <2>8. /\ \A c \in snapshot.chunks : RepoOf[c] \in coldDb'.repos
        /\ \A c \in DOMAIN snapshot.comments : Unclashing(coldDb, c)
    <3>1. \A c \in snapshot.chunks : RepoOf[c] \in [coldDb EXCEPT !.repos = @ \cup snapshot.repos].repos
      BY <1>3 DEF FitsInOrder, ChunksFit
    <3>2. [coldDb EXCEPT !.repos = @ \cup snapshot.repos].repos = coldDb.repos \cup snapshot.repos
      BY <1>1 DEF Database
    <3> QED  BY <1>3, <2>7, <3>1, <3>2 DEF FitsInOrder, CommentsFit
  <2>9. ASSUME NEW c \in ids, NEW d \in ids, GithubId[c] = GithubId[d] PROVE c = d
    BY <1>1, <2>8, <2>9 DEF Consistent, Unclashing
  <2>10. \A c \in coldDb'.chunks : RepoOf[c] \in coldDb'.repos  BY <1>1, <2>7, <2>8 DEF Consistent
  <2> QED  BY <2>6, <2>7, <2>9, <2>10 DEF Consistent
<1> QED  BY <1>2, <1>3 DEF ImportData

LEMMA SnapshotInitial == SnapshotInit => SnapshotInv
<1> SUFFICES ASSUME SnapshotInit PROVE SnapshotInv
  OBVIOUS
<1>1. EmptyDb \in Database /\ Consistent(EmptyDb)
  <2>1. <<>> \in [{} -> BOOLEAN]  OBVIOUS
  <2>2. <<>> \in CommentTables  BY <2>1, CommentTableOf
  <2>3. DOMAIN EmptyDb.comments = {} /\ EmptyDb.chunks = {}  BY DEF EmptyDb
  <2> QED  BY <2>2, <2>3, DatabaseOf DEF EmptyDb, Consistent
<1>2. exportDir \in ExportFiles  BY DEF SnapshotInit, ExportFiles
<1>3. SnapshotTypeOK  BY <1>1, <1>2 DEF SnapshotInit, SnapshotTypeOK
<1>4. SnapshotIsOrdered
  <2>1. DOMAIN EmptyDb.comments = {} /\ EmptyDb.chunks = {}  BY DEF EmptyDb
  <2> QED  BY <2>1 DEF SnapshotInit, SnapshotIsOrdered
<1>5. SameExports
  <2>1. NewestOf({}, {})  BY DEF NewestOf
  <2>2. exportDir.config = {} /\ exportDir.data = {} /\ exporting = "idle"  BY DEF SnapshotInit
  <2> QED  BY <2>1, <2>2 DEF SameExports
<1> QED  BY <1>3, <1>4, <1>5 DEF SnapshotInv

SnapshotWrites ==
  \/ \E r \in SnapRepos : Register(r)
  \/ \E c \in SnapChunks : IndexChunk(c)
  \/ \E c \in SnapComments : ColdComment(c) \/ \E vec \in BOOLEAN : StoreComment(c, vec)

(* The type invariant: an import and the writers keep both databases       *)
(* consistent.                                                             *)
LEMMA SnapshotStepTyped ==
  ASSUME SnapshotInv, [SnapshotNext]_snapshotVars
  PROVE  SnapshotTypeOK'
<1>0. SnapshotTypeOK /\ SnapshotIsOrdered  BY DEF SnapshotInv
<1>1. /\ liveDb \in Database /\ Consistent(liveDb) /\ coldDb \in Database /\ Consistent(coldDb)
      /\ snapshot \in Database /\ lateRepos \subseteq liveDb.repos /\ exportDir \in ExportFiles
      /\ exporting \in {"idle", "repos", "chunks", "comments"} /\ exportBroken \in BOOLEAN
      /\ imported \in {"none", "ok", "error"}
  BY <1>0 DEF SnapshotTypeOK
<1>2. ASSUME UNCHANGED coldDb PROVE coldDb' \in Database /\ Consistent(coldDb)'
  BY <1>1, <1>2 DEF Consistent
<1>3. ASSUME UNCHANGED liveDb PROVE liveDb' \in Database /\ Consistent(liveDb)'
  BY <1>1, <1>3 DEF Consistent
<1>4. EmptyDb \in Database
  <2>1. <<>> \in [{} -> BOOLEAN]  OBVIOUS
  <2>2. <<>> \in CommentTables  BY <2>1, CommentTableOf
  <2> QED  BY <2>2, DatabaseOf DEF EmptyDb
<1>5. MaxExports \in Nat  BY SnapshotAssumption
<1>6. ASSUME NEW r \in SnapRepos, Register(r) PROVE SnapshotTypeOK'
  <2>1. liveDb' = [liveDb EXCEPT !.repos = @ \cup {r}] /\ lateRepos' \in {lateRepos, lateRepos \cup {r}}
        /\ UNCHANGED <<coldDb, exporting, snapshot, exportDir, exportBroken, imported>>
    BY <1>6 DEF Register, exportVars
  <2>2. liveDb' \in Database /\ liveDb'.repos = liveDb.repos \cup {r} /\ liveDb'.chunks = liveDb.chunks
        /\ liveDb'.comments = liveDb.comments
    BY <1>1, <2>1, DatabaseOf
  <2>3. Consistent(liveDb)'  BY <1>1, <2>2 DEF Consistent
  <2> QED  BY <1>1, <1>2, <2>1, <2>2, <2>3 DEF SnapshotTypeOK
<1>7. ASSUME NEW c \in SnapChunks, IndexChunk(c) PROVE SnapshotTypeOK'
  <2>1. RepoOf[c] \in liveDb.repos /\ liveDb' = [liveDb EXCEPT !.chunks = @ \cup {c}]
        /\ UNCHANGED <<coldDb, lateRepos, exporting, snapshot, exportDir, exportBroken, imported>>
    BY <1>7 DEF IndexChunk, exportVars
  <2>2. liveDb' \in Database /\ liveDb'.chunks = liveDb.chunks \cup {c} /\ liveDb'.repos = liveDb.repos
        /\ liveDb'.comments = liveDb.comments
    BY <1>1, <2>1, DatabaseOf
  <2>3. Consistent(liveDb)'  BY <1>1, <2>1, <2>2 DEF Consistent
  <2> QED  BY <1>1, <1>2, <2>1, <2>2, <2>3 DEF SnapshotTypeOK
<1>8. ASSUME NEW c \in SnapComments, ColdComment(c) PROVE SnapshotTypeOK'
  <2>1. Unclashing(coldDb, c) /\ coldDb' = WithComment(coldDb, c, TRUE)
        /\ UNCHANGED <<liveDb, lateRepos, exporting, snapshot, exportDir, exportBroken, imported>>
    BY <1>8 DEF ColdComment, exportVars
  <2>2. coldDb' \in Database /\ Consistent(WithComment(coldDb, c, TRUE))  BY <1>1, <2>1, WithCommentConsistent
  <2>3. Consistent(coldDb)'  BY <2>1, <2>2 DEF Consistent
  <2> QED  BY <1>1, <1>3, <2>1, <2>2, <2>3 DEF SnapshotTypeOK
<1>9. ASSUME NEW c \in SnapComments, NEW vec \in BOOLEAN, StoreComment(c, vec) PROVE SnapshotTypeOK'
  <2>1. Unclashing(liveDb, c) /\ liveDb' = WithComment(liveDb, c, vec)
        /\ UNCHANGED <<coldDb, lateRepos, exporting, snapshot, exportDir, exportBroken, imported>>
    BY <1>9 DEF StoreComment, exportVars
  <2>2. liveDb' \in Database /\ Consistent(WithComment(liveDb, c, vec)) /\ liveDb'.repos = liveDb.repos
    BY <1>1, <2>1, WithCommentConsistent
  <2>3. Consistent(liveDb)'  BY <2>1, <2>2 DEF Consistent
  <2> QED  BY <1>1, <1>2, <2>1, <2>2, <2>3 DEF SnapshotTypeOK
<1>10. CASE StartExport
  <2>1. PICK stamp \in 1..MaxExports : exportDir' = [exportDir EXCEPT !.config = @ \cup {stamp}]
    BY <1>10 DEF StartExport
  <2>2. exportDir' \in ExportFiles  BY <1>1, <2>1 DEF ExportFiles
  <2>3. exporting' = "repos" /\ snapshot' = EmptyDb /\ lateRepos' = {} /\ UNCHANGED <<liveDb, coldDb, exportBroken, imported>>
    BY <1>10 DEF StartExport
  <2> QED  BY <1>1, <1>2, <1>3, <1>4, <2>2, <2>3 DEF SnapshotTypeOK
<1>11. CASE ReadRepos
  <2>1. snapshot' = [snapshot EXCEPT !.repos = liveDb.repos] /\ exporting' = "chunks"
        /\ UNCHANGED <<liveDb, coldDb, lateRepos, exportDir, exportBroken, imported>>
    BY <1>11 DEF ReadRepos
  <2>2. snapshot' \in Database  BY <1>1, <2>1, DatabaseOf
  <2> QED  BY <1>1, <1>2, <1>3, <2>1, <2>2 DEF SnapshotTypeOK
<1>12. CASE ReadChunks
  <2>1. snapshot' = [snapshot EXCEPT !.chunks = liveDb.chunks] /\ exporting' = "comments"
        /\ UNCHANGED <<liveDb, coldDb, lateRepos, exportDir, exportBroken, imported>>
    BY <1>12 DEF ReadChunks
  <2>2. snapshot' \in Database  BY <1>1, <2>1, DatabaseOf
  <2> QED  BY <1>1, <1>2, <1>3, <2>1, <2>2 DEF SnapshotTypeOK
<1>13. CASE ReadComments
  <2>1. snapshot' = [snapshot EXCEPT !.comments = liveDb.comments] /\ exporting' = "idle" /\ exporting = "comments"
        /\ exportDir' = [exportDir EXCEPT !.data = @ \cup {Max(exportDir.config)}]
        /\ UNCHANGED <<liveDb, coldDb, lateRepos, exportBroken, imported>>
    BY <1>13 DEF ReadComments
  <2>2. snapshot' \in Database  BY <1>1, <2>1, DatabaseOf
  <2>3. exportDir' \in ExportFiles
    <3>1. exportDir.config # {} /\ exportDir.config \in SUBSET (1..MaxExports)
      BY <1>0, <1>1, <2>1 DEF SnapshotIsOrdered, ExportFiles
    <3>2. Max(exportDir.config) \in 1..MaxExports  BY <3>1, MaxIsLatest
    <3> QED  BY <1>1, <2>1, <3>2 DEF ExportFiles
  <2> QED  BY <1>1, <1>2, <1>3, <2>1, <2>2, <2>3 DEF SnapshotTypeOK
<1>14. CASE ExportFails
  BY <1>1, <1>2, <1>3, <1>4, <1>14 DEF ExportFails, SnapshotTypeOK
<1>15. CASE SweepExports
  <2>1. exportDir' = [config |-> KeepNewest(exportDir.config, MaxFiles), data |-> KeepNewest(exportDir.data, MaxFiles)]
        /\ UNCHANGED <<liveDb, coldDb, exporting, snapshot, lateRepos, exportBroken, imported>>
    BY <1>15 DEF SweepExports
  <2>2. exportDir.config \in SUBSET (1..MaxExports) /\ exportDir.data \in SUBSET (1..MaxExports)
    BY <1>1 DEF ExportFiles
  <2>3. /\ KeepNewest(exportDir.config, MaxFiles) \subseteq exportDir.config
        /\ KeepNewest(exportDir.data, MaxFiles) \subseteq exportDir.data
    BY <2>2, SweepKeepsNewest
  <2>4. exportDir' \in ExportFiles  BY <2>1, <2>2, <2>3 DEF ExportFiles
  <2> QED  BY <1>1, <1>2, <1>3, <2>1, <2>4 DEF SnapshotTypeOK
<1>16. CASE ImportData
  <2>1. UNCHANGED <<liveDb, lateRepos, exporting, snapshot, exportDir, exportBroken>> /\ imported' \in {"ok", "error"}
    BY <1>16 DEF ImportData, exportVars
  <2>2. coldDb' \in Database /\ Consistent(coldDb)'  BY <1>0, <1>16, ImportConsistent
  <2> QED  BY <1>1, <1>3, <2>1, <2>2 DEF SnapshotTypeOK
<1>17. CASE UNCHANGED snapshotVars
  BY <1>1, <1>2, <1>3, <1>17 DEF snapshotVars, SnapshotTypeOK
<1> QED
  BY <1>6, <1>7, <1>8, <1>9, <1>10, <1>11, <1>12, <1>13, <1>14, <1>15, <1>16, <1>17 DEF SnapshotNext

(* The export reads the repositories before their chunks.                  *)
LEMMA SnapshotStepOrdered ==
  ASSUME SnapshotInv, [SnapshotNext]_snapshotVars
  PROVE  SnapshotIsOrdered'
<1>0. SnapshotTypeOK /\ SnapshotIsOrdered  BY DEF SnapshotInv
<1>1. /\ liveDb \in Database /\ Consistent(liveDb) /\ snapshot \in Database
      /\ lateRepos \subseteq liveDb.repos /\ exportDir \in ExportFiles
  BY <1>0 DEF SnapshotTypeOK
<1>2. DOMAIN EmptyDb.comments = {} /\ EmptyDb.chunks = {}  BY DEF EmptyDb
<1>3. CASE SnapshotWrites \/ ImportData
  <2>1. UNCHANGED <<exporting, snapshot, exportDir>> /\ lateRepos \subseteq lateRepos'
    BY <1>3 DEF SnapshotWrites, ImportData, Register, IndexChunk, ColdComment, StoreComment, exportVars
  <2>2. exporting = "chunks" => liveDb'.repos \subseteq snapshot.repos \cup lateRepos'
    <3>1. ASSUME NEW r \in SnapRepos, Register(r), exporting = "chunks"
          PROVE  liveDb'.repos \subseteq snapshot.repos \cup lateRepos'
      <4>1. liveDb'.repos = liveDb.repos \cup {r} /\ (r \notin liveDb.repos => lateRepos' = lateRepos \cup {r})
        BY <1>1, <3>1 DEF Register, Database
      <4> QED  BY <1>0, <2>1, <3>1, <4>1 DEF SnapshotIsOrdered
    <3>2. ASSUME NEW c \in SnapChunks, IndexChunk(c) PROVE liveDb'.repos = liveDb.repos
      BY <1>1, <3>2 DEF IndexChunk, Database
    <3>3. ASSUME NEW c \in SnapComments, NEW vec \in BOOLEAN, StoreComment(c, vec) PROVE liveDb'.repos = liveDb.repos
      BY <1>1, <3>3, WithCommentConsistent DEF StoreComment
    <3>4. ASSUME NEW c \in SnapComments, ColdComment(c) PROVE liveDb'.repos = liveDb.repos
      BY <3>4 DEF ColdComment
    <3>5. ASSUME ImportData PROVE liveDb'.repos = liveDb.repos
      BY <3>5 DEF ImportData
    <3> QED  BY <1>0, <1>3, <2>1, <3>1, <3>2, <3>3, <3>4, <3>5 DEF SnapshotWrites, SnapshotIsOrdered
  <2> QED  BY <1>0, <2>1, <2>2 DEF SnapshotIsOrdered
<1>4. CASE StartExport
  <2>1. exporting' = "repos" /\ snapshot' = EmptyDb  BY <1>4 DEF StartExport
  <2>2. exportDir'.config # {}  BY <1>1, <1>4 DEF StartExport, ExportFiles
  <2> QED  BY <1>2, <2>1, <2>2 DEF SnapshotIsOrdered
<1>5. CASE ReadRepos
  <2>1. exporting = "repos" /\ exporting' = "chunks" /\ snapshot' = [snapshot EXCEPT !.repos = liveDb.repos]
        /\ UNCHANGED <<liveDb, lateRepos, exportDir>>
    BY <1>5 DEF ReadRepos
  <2>2. snapshot'.repos = liveDb.repos /\ snapshot'.chunks = snapshot.chunks /\ snapshot'.comments = snapshot.comments
    BY <1>1, <2>1 DEF Database
  <2>3. snapshot = EmptyDb  BY <1>0, <2>1 DEF SnapshotIsOrdered
  <2> QED  BY <1>0, <1>2, <2>1, <2>2, <2>3 DEF SnapshotIsOrdered
<1>6. CASE ReadChunks
  <2>1. exporting = "chunks" /\ exporting' = "comments" /\ snapshot' = [snapshot EXCEPT !.chunks = liveDb.chunks]
        /\ UNCHANGED <<liveDb, lateRepos, exportDir>>
    BY <1>6 DEF ReadChunks
  <2>2. snapshot'.repos = snapshot.repos /\ snapshot'.chunks = liveDb.chunks /\ snapshot'.comments = snapshot.comments
    BY <1>1, <2>1 DEF Database
  <2> QED  BY <1>0, <1>1, <2>1, <2>2 DEF SnapshotIsOrdered, Consistent
<1>7. CASE ReadComments
  <2>1. exporting' = "idle" /\ snapshot' = [snapshot EXCEPT !.comments = liveDb.comments] /\ UNCHANGED <<liveDb, lateRepos>>
    BY <1>7 DEF ReadComments
  <2>2. snapshot'.repos = snapshot.repos /\ snapshot'.chunks = snapshot.chunks /\ snapshot'.comments = liveDb.comments
    BY <1>1, <2>1 DEF Database
  <2> QED  BY <1>0, <1>1, <2>1, <2>2 DEF SnapshotIsOrdered, Consistent
<1>8. CASE ExportFails
  <2>1. exporting' = "idle" /\ snapshot' = EmptyDb  BY <1>8 DEF ExportFails
  <2> QED  BY <1>2, <2>1 DEF SnapshotIsOrdered
<1>9. CASE SweepExports
  <2>1. exportDir'.config = KeepNewest(exportDir.config, MaxFiles)
        /\ UNCHANGED <<liveDb, exporting, snapshot, lateRepos>>
    BY <1>9 DEF SweepExports
  <2>2. exportDir.config # {} => exportDir'.config # {}  BY <1>1, <2>1, SweepKeepsNewest DEF ExportFiles
  <2> QED  BY <1>0, <2>1, <2>2 DEF SnapshotIsOrdered
<1>10. CASE UNCHANGED snapshotVars
  BY <1>0, <1>10 DEF snapshotVars, SnapshotIsOrdered
<1> QED  BY <1>3, <1>4, <1>5, <1>6, <1>7, <1>8, <1>9, <1>10 DEF SnapshotNext, SnapshotWrites

(* What is larger than all the newest exports is larger than all.          *)
LEMMA BeyondNewest ==
  ASSUME NEW made \in SUBSET (1..MaxExports), NEW files \in SUBSET made, NewestOf(files, made)
  PROVE  /\ made # {} => files # {}
         /\ \A stamp \in Nat : (\A s \in files : s < stamp) => \A s \in made : s < stamp
<1>0. MaxExports \in Nat /\ MaxFiles \in Nat /\ MaxFiles >= 1  BY SnapshotAssumption
<1>1. files = {} => Cardinality(files) = 0  BY FS_EmptySet
<1>2. (\A old \in made \ files, new \in files : old < new) /\ (files # made => Cardinality(files) >= MaxFiles)
  BY DEF NewestOf
<1>3. made # {} => files # {}  BY <1>0, <1>1, <1>2
<1>4. ASSUME NEW stamp \in Nat, \A s \in files : s < stamp, NEW s \in made PROVE s < stamp
  <2>1. CASE s \notin files
    <3>1. PICK n \in files : TRUE  BY <1>3
    <3>2. s < n /\ n < stamp  BY <1>2, <1>4, <2>1
    <3>3. s \in Nat /\ n \in Nat  BY <1>0
    <3> QED  BY <3>2, <3>3
  <2> QED  BY <1>4, <2>1
<1> QED  BY <1>3, <1>4

(* As long as no export fails, both kinds of file are the newest of the    *)
(* same exports.                                                           *)
LEMMA SnapshotStepPaired ==
  ASSUME SnapshotInv, [SnapshotNext]_snapshotVars, ~exportBroken'
  PROVE  SameExports'
<1>0. SnapshotTypeOK /\ SnapshotIsOrdered /\ MaxExports \in Nat  BY SnapshotAssumption DEF SnapshotInv
<1>1. /\ exportDir.config \in SUBSET (1..MaxExports) /\ exportDir.data \in SUBSET (1..MaxExports)
      /\ exportDir \in ExportFiles
  BY <1>0 DEF SnapshotTypeOK, ExportFiles
<1>2. ~ExportFails
  BY DEF ExportFails
<1>3. ~exportBroken
  BY <1>2 DEF SnapshotNext, Register, IndexChunk, ColdComment, StoreComment, exportVars, StartExport, ReadRepos,
              ReadChunks, ReadComments, SweepExports, ImportData, snapshotVars
<1>4. PICK made \in SUBSET (1..MaxExports) :
        /\ NewestOf(exportDir.config, made)
        /\ IF exporting = "idle" THEN NewestOf(exportDir.data, made)
           ELSE \E last \in made : (\A s \in made : s <= last) /\ NewestOf(exportDir.data, made \ {last})
  BY <1>3 DEF SnapshotInv, SameExports
<1>5. CASE UNCHANGED <<exportDir, exporting>>
  BY <1>4, <1>5 DEF SameExports
<1>6. CASE ReadRepos \/ ReadChunks
  <2>1. exporting # "idle" /\ exporting' # "idle" /\ exportDir' = exportDir  BY <1>6 DEF ReadRepos, ReadChunks
  <2> QED  BY <1>4, <2>1 DEF SameExports
<1>7. CASE StartExport
  <2>1. PICK stamp \in 1..MaxExports :
          /\ \A old \in exportDir.config \cup exportDir.data : old < stamp
          /\ exportDir' = [exportDir EXCEPT !.config = @ \cup {stamp}]
    BY <1>7 DEF StartExport
  <2>2. exporting = "idle" /\ exporting' # "idle"  BY <1>7 DEF StartExport
  <2>3. exportDir'.config = exportDir.config \cup {stamp} /\ exportDir'.data = exportDir.data
    BY <1>1, <2>1 DEF ExportFiles
  <2>4. \A s \in made : s < stamp
    <3>1. exportDir.config \in SUBSET made /\ \A s \in exportDir.config : s < stamp  BY <1>4, <2>1 DEF NewestOf
    <3> QED  BY <1>4, <3>1, BeyondNewest
  <2>5. NewestOf(exportDir'.config, made \cup {stamp})
    <3>1. exportDir.config \in SUBSET made  BY <1>4 DEF NewestOf
    <3> QED  BY <1>4, <2>3, <2>4, <3>1, NewerIsNewest
  <2>6. NewestOf(exportDir'.data, (made \cup {stamp}) \ {stamp})
    <3>1. stamp \notin made  BY <1>0, <2>4
    <3>2. (made \cup {stamp}) \ {stamp} = made  BY <3>1
    <3> QED  BY <1>4, <2>2, <2>3, <3>2
  <2>7. \A s \in made \cup {stamp} : s <= stamp  BY <1>0, <2>4
  <2>8. made \cup {stamp} \in SUBSET (1..MaxExports)  OBVIOUS
  <2> QED  BY <2>2, <2>5, <2>6, <2>7, <2>8 DEF SameExports
<1>8. CASE ReadComments
  <2>1. /\ exporting = "comments" /\ exporting' = "idle"
        /\ exportDir' = [exportDir EXCEPT !.data = @ \cup {Max(exportDir.config)}]
    BY <1>8 DEF ReadComments
  <2>2. PICK last \in made : (\A s \in made : s <= last) /\ NewestOf(exportDir.data, made \ {last})
    BY <1>4, <2>1
  <2>3. Max(exportDir.config) = last
    <3>0. \A s \in made : s \in Nat
      <4>1. MaxExports \in Nat /\ made \subseteq 1..MaxExports  BY SnapshotAssumption
      <4> QED  BY <4>1
    <3>1. exportDir.config \in SUBSET made  BY <1>4 DEF NewestOf
    <3>2. exportDir.config # {}  BY <1>4, <3>1, BeyondNewest
    <3>3. last \in exportDir.config
      <4>1. CASE last \notin exportDir.config
        <5>1. PICK n \in exportDir.config : TRUE  BY <3>2
        <5>2. last < n /\ n <= last  BY <1>4, <2>2, <3>1, <4>1 DEF NewestOf
        <5>3. last \in Nat /\ n \in Nat  BY <2>2, <3>0, <3>1, <5>1
        <5> QED  BY <5>2, <5>3
      <4> QED  BY <4>1
    <3>4. Max(exportDir.config) \in exportDir.config /\ last <= Max(exportDir.config)
      BY <1>1, <3>2, <3>3, MaxIsLatest
    <3>5. Max(exportDir.config) <= last  BY <2>2, <3>1, <3>4
    <3>6. Max(exportDir.config) \in Nat /\ last \in Nat  BY <2>2, <3>0, <3>1, <3>4
    <3> QED  BY <3>4, <3>5, <3>6
  <2>4. exportDir'.config = exportDir.config /\ exportDir'.data = exportDir.data \cup {last}
    BY <1>1, <2>1, <2>3 DEF ExportFiles
  <2>5. NewestOf(exportDir'.data, made)
    <3>1. exportDir.data \in SUBSET (made \ {last}) /\ made \ {last} \in SUBSET (1..MaxExports)  BY <2>2 DEF NewestOf
    <3>2. \A s \in made \ {last} : s < last
      <4>1. \A s \in made : s \in Nat  BY <1>0
      <4> QED  BY <2>2, <4>1
    <3>3. NewestOf(exportDir.data \cup {last}, (made \ {last}) \cup {last})  BY <2>2, <3>1, <3>2, NewerIsNewest
    <3>4. (made \ {last}) \cup {last} = made  OBVIOUS
    <3> QED  BY <2>4, <3>3, <3>4
  <2> QED  BY <1>4, <2>1, <2>4, <2>5 DEF SameExports
<1>9. CASE SweepExports
  <2>1. /\ exportDir' = [config |-> KeepNewest(exportDir.config, MaxFiles), data |-> KeepNewest(exportDir.data, MaxFiles)]
        /\ exporting' = exporting
    BY <1>9 DEF SweepExports
  <2>2. exportDir'.config = KeepNewest(exportDir.config, MaxFiles) /\ exportDir'.data = KeepNewest(exportDir.data, MaxFiles)
    BY <2>1
  <2>3. NewestOf(exportDir'.config, made)  BY <1>1, <1>4, <2>2, SweepKeepsNewest
  <2>4. \A last \in made : NewestOf(exportDir.data, made \ {last}) => NewestOf(exportDir'.data, made \ {last})
    <3>1. \A last \in made : made \ {last} \in SUBSET (1..MaxExports)  OBVIOUS
    <3> QED  BY <1>1, <2>2, <3>1, SweepKeepsNewest
  <2>5. NewestOf(exportDir.data, made) => NewestOf(exportDir'.data, made)  BY <1>1, <2>2, SweepKeepsNewest
  <2> QED  BY <1>4, <2>1, <2>3, <2>4, <2>5 DEF SameExports
<1> QED
  BY <1>2, <1>5, <1>6, <1>7, <1>8, <1>9
     DEF SnapshotNext, Register, IndexChunk, ColdComment, StoreComment, ImportData, exportVars, snapshotVars

LEMMA SnapshotStep == SnapshotInv /\ [SnapshotNext]_snapshotVars => SnapshotInv'
BY SnapshotStepTyped, SnapshotStepOrdered, SnapshotStepPaired DEF SnapshotInv

LEMMA OrderedIsUsable == SnapshotInv => ExportIsUsable
<1> SUFFICES ASSUME SnapshotInv, exporting = "idle" PROVE ImportFailureIsExplained /\ PairsStayTogether
  BY DEF ExportIsUsable
<1>1. /\ coldDb \in Database /\ \A c \in snapshot.chunks : RepoOf[c] \in snapshot.repos \cup lateRepos
  BY DEF SnapshotInv, SnapshotTypeOK, SnapshotIsOrdered
<1>2. ImportFailureIsExplained
  <2>1. ASSUME NEW c \in snapshot.chunks, RepoOf[c] \notin [coldDb EXCEPT !.repos = @ \cup snapshot.repos].repos
        PROVE  RepoOf[c] \in lateRepos
    <3>1. [coldDb EXCEPT !.repos = @ \cup snapshot.repos].repos = coldDb.repos \cup snapshot.repos
      BY <1>1 DEF Database
    <3> QED  BY <1>1, <2>1, <3>1
  <2> QED  BY <2>1 DEF ImportFailureIsExplained, FitsInOrder, ChunksFit, CommentsFit
<1>3. PairsStayTogether
  <2>1. SUFFICES ASSUME ~exportBroken, Cardinality(exportDir.config) <= MaxFiles, Cardinality(exportDir.data) <= MaxFiles
                 PROVE  exportDir.config = exportDir.data
    BY DEF PairsStayTogether
  <2>2. PICK made \in SUBSET (1..MaxExports) : NewestOf(exportDir.config, made) /\ NewestOf(exportDir.data, made)
    BY <2>1 DEF SnapshotInv, SameExports
  <2>3. exportDir.config \in SUBSET made /\ exportDir.data \in SUBSET made  BY <2>2 DEF NewestOf
  <2> QED  BY <2>1, <2>2, <2>3, SmallNewestAgree
<1> QED  BY <1>2, <1>3

(* Whatever the workers write while an export reads, and whenever a sweep  *)
(* falls into it: an import fails only for one of the three reasons, and   *)
(* the files left are pairs (ExportData and ImportData of                  *)
(* export_import.go, exportOnce of scheduler.go, rotateExportFiles of      *)
(* janitor.go).  The imports keep the other database consistent.           *)
THEOREM ExportsAreUsable == SnapshotSpec => [](SnapshotTypeOK /\ ExportIsUsable)
<1>1. SnapshotInv => SnapshotTypeOK /\ ExportIsUsable
  BY OrderedIsUsable DEF SnapshotInv
<1> QED  BY SnapshotInitial, SnapshotStep, <1>1, PTL DEF SnapshotSpec

-----------------------------------------------------------------------------
(* The parts side by side.                                                 *)
OnePart == focus \in {"index", "bus", "rules", "history", "snapshots"}

LEMMA PartsInitial ==
  KnowledgeInit => OnePart /\ IndexInit /\ BusInit /\ RulesInit /\ HistoryInit /\ SnapshotInit
BY DEF KnowledgeInit, OnePart

LEMMA PartsStep ==
  [KnowledgeNext]_KnowledgeVars =>
    /\ OnePart => OnePart'
    /\ [IndexNext]_indexVars /\ [BusNext]_busVars /\ [RulesNext]_rulesVars
    /\ [HistoryNext]_historyVars /\ [SnapshotNext]_snapshotVars
BY DEF KnowledgeNext, KnowledgeVars, OnePart

(* Each part of a behaviour is a behaviour of the part.                    *)
LEMMA PartsOfKnowledge ==
  KnowledgeSpec => []OnePart /\ IndexSafety /\ BusSafety /\ RulesSpec /\ HistorySpec /\ SnapshotSpec
BY PartsInitial, PartsStep, PTL
   DEF KnowledgeSpec, IndexSafety, BusSafety, RulesSpec, HistorySpec, SnapshotSpec

(* KnowledgeIsKept: the variables of every part keep their types, and what *)
(* is proved of the parts holds of them side by side, as they are checked. *)
THEOREM KnowledgeIsKept ==
  KnowledgeSpec =>
    /\ [](KnowledgeTypeOK /\ IndexIsSound /\ CommitIsTakenWhole /\ RowsAreTrue /\ ExportIsUsable)
    /\ NeverRevived
<1>1. /\ OnePart /\ IndexTypeOK /\ BusTypeOK /\ HoldersWithinDeliveries /\ RulesTypeOK
      /\ HistoryTypeOK /\ SnapshotTypeOK
      => KnowledgeTypeOK
  BY DEF KnowledgeTypeOK, OnePart
<1> QED
  BY <1>1, PartsOfKnowledge, VectorsStayWithTheirContents, BusTypeCorrect, HoldersCounted, GoneForGood,
     CommitsAreWhole, LearnedRowsAreTrue, ExportsAreUsable, PTL
=============================================================================
