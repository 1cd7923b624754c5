---------------------------- MODULE ReviewPosting -----------------------------
(***************************************************************************)
(* A review on the code host and its rows in review_comments: the adapters *)
(* post the inline comments and a summary, and the review pipeline pairs   *)
(* the ids they return with the comments it had asked for.                 *)
(***************************************************************************)
EXTENDS Naturals, Sequences

CONSTANTS
  Inline,     \* how many inline comments the review has
  PostHosts   \* adapters in use: a subset of {"github", "bitbucket"}

ASSUME PostingAssumption == Inline \in Nat /\ PostHosts \subseteq {"github", "bitbucket"}

VARIABLES
  host,      \* the adapter of this review
  next,      \* the comment posted next; Inline + 1 for the summary, + 2 for the rows, + 3 at the end
  onHost,    \* onHost[id]: the comment the host keeps under that id
  lost,      \* comments whose post ended in an error
  returned,  \* CommentIds
  rows       \* rows[c]: the github_id of comment c's row, 0 for NULL; a partial function

postingVars == <<host, next, onHost, lost, returned, rows>>

-----------------------------------------------------------------------------
PostingTypeOK ==
  /\ host \in PostHosts
  /\ next \in 1..(Inline + 3)
  /\ onHost \in Seq(1..Inline) /\ Len(onHost) < next
  /\ lost \subseteq 1..Inline
  /\ returned \in Seq(DOMAIN onHost)
  /\ DOMAIN rows \subseteq 1..Inline /\ \A c \in DOMAIN rows : rows[c] \in (DOMAIN onHost) \cup {0}

PostingInit ==
  /\ host \in PostHosts
  /\ next = 1 /\ onHost = <<>> /\ lost = {} /\ returned = <<>> /\ rows = <<>>

(* Bitbucket: one POST per inline comment.  After an error, with or without*)
(* effect on the host, the loop goes on.                                   *)
PostInline ==
  /\ host = "bitbucket" /\ next <= Inline
  /\ next' = next + 1
  /\ \/ onHost' = Append(onHost, next) /\ returned' = Append(returned, Len(onHost')) /\ UNCHANGED lost
     \/ /\ lost' = lost \cup {next}
        /\ onHost' = Append(onHost, next) \/ UNCHANGED onHost
        /\ UNCHANGED returned
  /\ UNCHANGED <<host, rows>>

(* Its error loses the ids: the pipeline fails open and stores no row.     *)
PostSummary ==
  /\ host = "bitbucket" /\ next = Inline + 1
  /\ \/ next' = Inline + 2 /\ UNCHANGED returned
     \/ next' = Inline + 3 /\ returned' = <<>>
  /\ UNCHANGED <<host, onHost, lost, rows>>

(* GitHub: CreateReview posts everything at once and reports no ids.       *)
CreateReview ==
  /\ host = "github" /\ next = 1
  /\ \/ onHost' = [i \in 1..Inline |-> i] /\ next' \in {Inline + 2, Inline + 3}
     \/ next' = Inline + 3 /\ UNCHANGED onHost
  /\ UNCHANGED <<host, lost, returned, rows>>

(* Mutant: the ids are taken to be those of the last comments.             *)
PairFromEnd(c) == IF c > Inline - Len(returned) THEN returned[c - (Inline - Len(returned))] ELSE 0

(* The pipeline takes the i-th id for that of the i-th comment.            *)
IdFor(c) == IF c \in DOMAIN returned THEN returned[c] ELSE 0

(* A row that cannot be stored is logged only.                             *)
PersistComments ==
  /\ next = Inline + 2 /\ next' = Inline + 3
  /\ \E stored \in SUBSET (1..Inline) : rows' = [c \in stored |-> IdFor(c)]
  /\ UNCHANGED <<host, onHost, lost, returned>>

PostingNext == PostInline \/ PostSummary \/ CreateReview \/ PersistComments
PostingSpec == PostingInit /\ [][PostingNext]_postingVars

-----------------------------------------------------------------------------
(* What a reaction to a comment teaches goes to another comment's row only *)
(* after a post that failed before it, then always to an earlier comment's,*)
(* and never to two rows.                                                  *)
MispairedOnlyAfterLoss ==
  \A c \in DOMAIN rows : rows[c] # 0 =>
    /\ onHost[rows[c]] # c => \E d \in lost : d < onHost[rows[c]]
    /\ c <= onHost[rows[c]]
    /\ \A d \in DOMAIN rows : rows[d] = rows[c] => d = c

(* CommentIds holds the id of each posted inline comment, in order (vcs.go *)
(* of the ports), so that the feedback worker finds its row by that id.    *)
PostedCommentIsFound ==
  \A id \in DOMAIN onHost : onHost[id] \in (DOMAIN rows) \ lost => rows[onHost[id]] = id
=============================================================================
