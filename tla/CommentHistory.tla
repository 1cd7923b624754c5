---------------------------- MODULE CommentHistory ----------------------------
(***************************************************************************)
(* The rows of review_comments the retrieval learns from, written by three *)
(* programs: the review worker stores the bot's comments, the feedback     *)
(* worker their outcomes, and a backfill ingests every comment it lists on *)
(* closed pull requests, the bot's included                                *)
(* (internal/core/pipelines/backfill).  Disabling the repository deletes   *)
(* them, unless a row of feedback_events refers to one.                    *)
(*                                                                         *)
(* A comment's text is its body with its diff hunk as listed, its content  *)
(* hash and the vector embedded for it: all four are one value.  The column*)
(* diff_hunk, which an update leaves as it is and only an export reads, is *)
(* not part of it.                                                         *)
(***************************************************************************)
EXTENDS Naturals, Sequences, FiniteSets, Functions, SequencesExt

CONSTANTS
  Bots, Humans,   \* comments on the host, by whom they are
  PrOf,           \* PrOf[c]: the pull request of comment c
  Texts, NoText,  \* what a comment may say; NoText when it has neither body nor hunk
  Meanings,       \* what people mean by their feedback, some of the outcomes
  HistoryFaults   \* calls that may fail: a subset of {"vcs", "llm", "store"}

AllComments == Bots \cup Humans

ASSUME HistoryAssumption ==
  /\ Bots \cap Humans = {} /\ IsFiniteSet(AllComments)
  /\ DOMAIN PrOf = AllComments
  /\ NoText \notin Texts
  /\ Meanings \subseteq {"accepted", "dismissed", "discussed"}
  /\ HistoryFaults \subseteq {"vcs", "llm", "store"}

VARIABLES
  said,         \* the <<c, outcome>> that reactions to c ever meant
  recorded,     \* the <<c, outcome>> of the events the feedback pipeline ever appended
  referenced,   \* comments a row of feedback_events refers to
  commentRows,  \* review_comments by github_id, a partial function
  prQueue,      \* pull requests the backfill has yet to process, in SearchClosedPrs order
  listing,      \* comments of the current one, in the order of ListPrComments
  listingVecs   \* listingVecs[i]: the vector for listing[i]

feedbackRows == <<recorded, referenced>>
backfillVars == <<prQueue, listing, listingVecs>>
historyVars == <<said, feedbackRows, commentRows, backfillVars>>

-----------------------------------------------------------------------------
HistoryRow == [source: {"bot", "human"}, text: Texts \cup {NoText},
        outcome: Meanings \cup {"pending"}, vec: Texts \cup {NoText}]
Listing == [id: AllComments, text: Texts \cup {NoText}, votes: {"more", "fewer", "even"}]

HistoryTypeOK ==
  /\ said \subseteq AllComments \X Meanings
  /\ recorded \subseteq Bots \X Meanings /\ referenced \subseteq Bots
  /\ DOMAIN commentRows \subseteq AllComments /\ \A c \in DOMAIN commentRows : commentRows[c] \in HistoryRow
  /\ prQueue \in Seq(Range(PrOf))
  /\ listing \in Seq(Listing)
  /\ listingVecs \in Seq(Texts \cup {NoText}) /\ Len(listingVecs) = Len(listing)

HistoryInit ==
  /\ said = {} /\ recorded = {} /\ referenced = {} /\ commentRows = <<>>
  /\ prQueue = <<>> /\ listing = <<>> /\ listingVecs = <<>>

(* outcomeFromReactions.                                                   *)
OutcomeOf(balance) ==
  CASE balance = "more" -> "accepted" [] balance = "fewer" -> "dismissed" [] balance = "even" -> "pending"

-----------------------------------------------------------------------------
(* Somebody reacts to a comment on the host.                               *)
React(c, balance) ==
  /\ OutcomeOf(balance) \in Meanings
  /\ said' = said \cup {<<c, OutcomeOf(balance)>>}
  /\ UNCHANGED <<feedbackRows, commentRows, backfillVars>>

(* CommentStore.Upsert: over a row with the same github_id it replaces the *)
(* text, the outcome and the vector; the source stays, and the place and   *)
(* the hunk, which are not modelled.                                       *)
RowsUpserted(c, row) == [d \in DOMAIN commentRows \cup {c} |->
  IF d # c THEN commentRows[d] ELSE IF c \in DOMAIN commentRows THEN [row EXCEPT !.source = commentRows[c].source] ELSE row]

(* The review worker stores a comment it has posted.  Where the code host  *)
(* reports no id (GitHub) nothing finds that row again, and it is not here.*)
StoreBotComment(c, text) ==
  /\ commentRows' = RowsUpserted(c, [source |-> "bot", text |-> text, outcome |-> "pending", vec |-> NoText])
  /\ UNCHANGED <<said, feedbackRows, backfillVars>>

(* The feedback pipeline appends an event for what a signal means.  The    *)
(* comment has to be the bot's, and its row there still.                   *)
AppendFeedback(c, meaning) ==
  /\ c \in DOMAIN commentRows /\ commentRows[c].source = "bot"
  /\ recorded' = recorded \cup {<<c, meaning>>}
  /\ referenced' = referenced \cup {c}
  /\ UNCHANGED <<said, commentRows, backfillVars>>

(* Then it updates the outcome; between the two others take their steps.   *)
StoreOutcome(c, meaning) ==
  /\ <<c, meaning>> \in recorded
  /\ c \in DOMAIN commentRows /\ commentRows[c].source = "bot"
  /\ commentRows' = [commentRows EXCEPT ![c].outcome = meaning]
  /\ UNCHANGED <<said, feedbackRows, backfillVars>>

(* The janitor deletes the events that are older than their retention.     *)
DeleteOldFeedback ==
  /\ referenced' \in SUBSET referenced
  /\ UNCHANGED <<said, recorded, commentRows, backfillVars>>

(* Disabling the repository deletes its comments in one transaction, which *)
(* fails as a whole while an event refers to one of them.                  *)
Tombstone ==
  /\ referenced = {}
  /\ commentRows' = <<>>
  /\ UNCHANGED <<said, feedbackRows, backfillVars>>

-----------------------------------------------------------------------------
(* Run: SearchClosedPrs.                                                   *)
SearchClosedPrs ==
  /\ prQueue = <<>> /\ listing = <<>>
  /\ \E closed \in SUBSET Range(PrOf) : prQueue' \in SetToSeqs(closed)
  /\ UNCHANGED <<said, feedbackRows, commentRows, listing, listingVecs>>

(* The comments whose text is sent to be embedded: of those that say the   *)
(* same the first, if there is no cached vector.                           *)
ToEmbedOf(list, cached) ==
  {i \in DOMAIN list : list[i].text \notin cached \cup {NoText} /\ \A j \in 1..(i - 1) : list[j].text # list[i].text}

PlaceIn(places, i) == Cardinality({j \in places : j <= i})

(* The model answers with one vector per text, in the order of the texts.  *)
ResultsFor(list, places) ==
  [k \in 1..Cardinality(places) |-> list[CHOOSE i \in places : PlaceIn(places, i) = k].text]

(* Mutant: the texts of the first hashes are sent, cached or not.          *)
VectorsOfFirst(list, cached) ==
  LET sent == ToEmbedOf(list, cached)
      results == ResultsFor(list, ToEmbedOf(list, {}))
  IN  [i \in DOMAIN list |->
         IF list[i].text \in cached \cup {NoText} THEN list[i].text
         ELSE results[PlaceIn(sent, CHOOSE j \in sent : list[j].text = list[i].text)]]

(* The vector of each comment: cached, or at the place of its text among   *)
(* the results; a comment without text has none.                           *)
Vectors(list, cached) ==
  LET sent == ToEmbedOf(list, cached)
      results == ResultsFor(list, sent)
  IN  [i \in DOMAIN list |->
         IF list[i].text \in cached \cup {NoText} THEN list[i].text
         ELSE results[PlaceIn(sent, CHOOSE j \in sent : list[j].text = list[i].text)]]

(* What ListPrComments may say of the comments: a text that its author may *)
(* have edited, and the balance of the reactions, or none.                 *)
Listings(there) ==
  {list \in [DOMAIN there -> Listing] :
     \A i \in DOMAIN there :
       list[i].id = there[i] /\ (list[i].votes = "even" \/ <<there[i], OutcomeOf(list[i].votes)>> \in said)}

(* processPr up to its loop.  A pull request that fails is passed over.    *)
ListAndEmbed ==
  /\ prQueue # <<>> /\ listing = <<>>
  /\ prQueue' = Tail(prQueue)
  /\ \/ \E there \in SetToSeqs({c \in AllComments : PrOf[c] = Head(prQueue)}), cached \in SUBSET Texts :
          listing' \in Listings(there) /\ listingVecs' = Vectors(listing', cached)
     \/ HistoryFaults # {} /\ UNCHANGED <<listing, listingVecs>>
  /\ UNCHANGED <<said, feedbackRows, commentRows>>

(* Each comment takes its vector with it.                                  *)
NextVector(c) == listingVecs' = Tail(listingVecs)

(* The loop: the next comment is upserted; an error passes over it.        *)
UpsertListed ==
  LET c == Head(listing)
  IN  /\ listing # <<>>
      /\ listing' = Tail(listing) /\ NextVector(c)
      /\ \/ /\ c.text # NoText
            /\ commentRows' = RowsUpserted(c.id, [source |-> "human", text |-> c.text,
                                       outcome |-> OutcomeOf(c.votes), vec |-> Head(listingVecs)])
         \/ (c.text = NoText \/ "store" \in HistoryFaults) /\ UNCHANGED commentRows
      /\ UNCHANGED <<said, feedbackRows, prQueue>>

(* The operator interrupts the command.                                    *)
Interrupt ==
  /\ prQueue' = <<>> /\ listing' = <<>> /\ listingVecs' = <<>>
  /\ UNCHANGED <<said, feedbackRows, commentRows>>

HistoryNext ==
  \/ Interrupt \/ SearchClosedPrs \/ ListAndEmbed \/ UpsertListed
  \/ \E c \in AllComments, balance \in {"more", "fewer"} : React(c, balance)
  \/ \E c \in Bots, t \in Texts : StoreBotComment(c, t)
  \/ \E c \in Bots, meaning \in Meanings : AppendFeedback(c, meaning) \/ StoreOutcome(c, meaning)
  \/ DeleteOldFeedback \/ Tombstone

HistorySpec == HistoryInit /\ [][HistoryNext]_historyVars

-----------------------------------------------------------------------------
OutcomeIsExplained ==
  \A c \in DOMAIN commentRows : commentRows[c].outcome # "pending" =>
    <<c, commentRows[c].outcome>> \in said \cup IF commentRows[c].source = "bot" THEN recorded ELSE {}

EmbeddingIsOfItsText ==
  \A c \in DOMAIN commentRows : commentRows[c].vec \in {commentRows[c].text, NoText}

(* What was learned has a cause: a row counts as accepted, dismissed or    *)
(* discussed only if reactions to its comment, or for a row of the bot an  *)
(* event, once said so, whichever of the three writers wrote last and      *)
(* whatever was deleted meanwhile.  And a row is found by its own text:    *)
(* repeated texts, comments without any, cached vectors and edits between  *)
(* a listing and its upserts never pair a row with the vector of another   *)
(* comment.                                                                *)
RowsAreTrue == OutcomeIsExplained /\ EmbeddingIsOfItsText
=============================================================================
