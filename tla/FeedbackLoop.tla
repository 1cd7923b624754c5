---------------------------- MODULE FeedbackLoop ----------------------------
(***************************************************************************)
(* What people make of the bot's comments on one pull request: reactions   *)
(* and replies arrive as feedback jobs on a queue of their own, and the    *)
(* feedback workers record an event and an outcome for each and may answer *)
(* a reply (internal/core/pipelines/feedback).                             *)
(*                                                                         *)
(* The review with these comments is on the code host; its author stores   *)
(* them one by one, so a signal may come before its comment is stored, or  *)
(* for a comment that never is.  Unlike the review pipeline nothing in the *)
(* database tells a worker that a job was done before.                     *)
(***************************************************************************)
EXTENDS Naturals, FiniteSets, Sequences

CONSTANTS
  Comments,     \* inline comments of the bot on the pull request
  Kinds,        \* what a signal may be: a subset of AllKinds
  Workers,      \* feedback-worker processes
  MaxReplies,   \* conversation.max_replies_per_pr
  MaxDeliver, MaxMessages,  \* as in JobBus
  Faults        \* what the environment may do: a subset of FaultKinds

(* A thumb up or down, a reply, a reply that asks for an answer (it has a  *)
(* trigger's suffix or prefix), and the webhook of the bot's own answer,   *)
(* which names the comment it was given under.                             *)
AllKinds == {"up", "down", "reply", "question", "echo"}
FaultKinds == {"store", "vcs", "llm", "crash", "disable", "spend"}

ASSUME FeedbackAssumption ==
  /\ Kinds \subseteq AllKinds
  /\ Faults \subseteq FaultKinds
  /\ MaxReplies \in Nat \ {0}
  /\ MaxDeliver \in Nat \ {0}
  /\ MaxMessages \in Nat \ {0}
  /\ IsFiniteSet(Workers)

(* FeedbackJob.IdempotencyKey: kind, comment, reaction and author, not the *)
(* text.  Signals of the same kind and comment have the same author here.  *)
Signals == Comments \X Kinds
CommentOf(k) == k[1]
KindOf(k) == k[2]

VARIABLES
  stream, window, holding,  \* the feedback queue, as in JobBus
  unsaved,   \* comments the review worker has yet to store
  rows,      \* bot comments that are in review_comments
  outcome,   \* outcome[c]: review_comments.outcome of that row
  events,    \* events[s]: rows of feedback_events appended for message s
  answered,  \* comments with an answer of the bot under them
  counted,   \* bot-reply rows in review_comments
  overspent, \* the reviews have used up the repository's budget of the day
  pc, signal \* each worker's place in Handle and the signal it handles

Bus == INSTANCE JobBus WITH Keys <- Signals

busVars == <<stream, window, holding>>
storeVars == <<unsaved, rows, outcome, events, counted, overspent>>
localVars == <<pc, signal>>
feedbackVars == <<busVars, storeVars, answered, localVars>>

-----------------------------------------------------------------------------
Outcomes == {"none", "accepted", "dismissed", "discussed"}
Conversing == {"count_replies", "check_cap", "chat", "post", "store_reply"}
Places == {"idle", "lookup", "append", "update", "ack", "nack"} \cup Conversing

FeedbackTypeOK ==
  /\ Bus!BusTypeOK
  /\ rows \subseteq Comments
  /\ unsaved \subseteq Comments \ rows
  /\ outcome \in [Comments -> Outcomes]
  /\ events \in [1..MaxMessages -> Nat]
  /\ answered \subseteq Comments
  /\ counted \in Nat
  /\ overspent \in BOOLEAN
  /\ pc \in [Workers -> Places]
  /\ signal \in [Workers -> Signals \cup {<<>>}]
  /\ \A w \in Workers : /\ pc[w] = "idle" <=> holding[w] = 0
                        /\ holding[w] # 0 => signal[w] = stream[holding[w]].key

FeedbackInit ==
  /\ Bus!BusInit
  /\ unsaved = Comments
  /\ rows = {}
  /\ outcome = [c \in Comments |-> "none"]
  /\ events = [s \in 1..MaxMessages |-> 0]
  /\ answered = {}
  /\ counted = 0
  /\ overspent = FALSE
  /\ pc = [w \in Workers |-> "idle"]
  /\ signal = [w \in Workers |-> <<>>]

-----------------------------------------------------------------------------
(* classify, for the signals it acts on.                                   *)
Classify(kind) ==
  CASE kind = "up" -> "accepted"
    [] kind = "down" -> "dismissed"
    [] kind \in {"reply", "question", "echo"} -> "discussed"

(* matchesTrigger.  What the bot itself wrote may end like a question.     *)
MayAsk(kind) == kind \in {"question", "echo"}
MayNotAsk(kind) == kind # "question"

Goto(w, place) == pc' = [pc EXCEPT ![w] = place]
Idle(w) == pc' = [pc EXCEPT ![w] = "idle"] /\ signal' = [signal EXCEPT ![w] = <<>>]

(* The review worker stores a comment after the review is up, or logs that *)
(* it could not.                                                           *)
StoreComment(c) ==
  /\ c \in unsaved
  /\ unsaved' = unsaved \ {c}
  /\ \/ rows' = rows \cup {c}
     \/ "store" \in Faults /\ UNCHANGED rows
  /\ UNCHANGED <<busVars, outcome, events, counted, overspent, answered, localVars>>

(* The gateway publishes a reaction, or a reply by anybody its code host   *)
(* does not call a bot; the answer of a bot that uses a person's account   *)
(* comes back as a reply.                                                  *)
Signal(k) ==
  /\ KindOf(k) = "echo" => CommentOf(k) \in answered
  /\ Bus!Publish(k)
  /\ UNCHANGED <<storeVars, answered, localVars>>

HandleSignal(w, s) ==
  /\ Bus!Deliver(w, s)
  /\ pc[w] = "idle"
  /\ Goto(w, "lookup")
  /\ signal' = [signal EXCEPT ![w] = stream[s].key]
  /\ UNCHANGED <<storeVars, answered>>

(* GetByGithubId.  A comment that is not there makes the job done.         *)
Lookup(w) ==
  /\ pc[w] = "lookup"
  /\ \/ /\ CommentOf(signal[w]) \in rows
        /\ Goto(w, "append")
     \/ /\ CommentOf(signal[w]) \notin rows
        /\ Goto(w, "ack")
     \/ /\ "store" \in Faults
        /\ Goto(w, "nack")
  /\ UNCHANGED <<busVars, storeVars, answered, signal>>

EventAppears(w) == events' = [events EXCEPT ![holding[w]] = @ + 1]

(* Mutant: a failed append is logged and the outcome updated all the same. *)
AppendBestEffort(w) ==
  /\ pc[w] = "append"
  /\ \/ /\ CommentOf(signal[w]) \in rows
        /\ EventAppears(w)
     \/ /\ CommentOf(signal[w]) \notin rows \/ "store" \in Faults
        /\ UNCHANGED events
  /\ Goto(w, "update")
  /\ UNCHANGED <<busVars, unsaved, rows, outcome, counted, overspent, answered, signal>>

(* Mutant: the append is tried again when its result is not known. *)
AppendTwice(w) ==
  /\ pc[w] = "append"
  /\ CommentOf(signal[w]) \in rows
  /\ EventAppears(w)
  /\ \/ Goto(w, "update")
     \/ "store" \in Faults /\ Goto(w, "append")
  /\ UNCHANGED <<busVars, unsaved, rows, outcome, counted, overspent, answered, signal>>

(* FeedbackStore.Append; feedback_events.comment_id references the         *)
(* comment's row, so without the row the insert fails.                     *)
AppendEvent(w) ==
  /\ pc[w] = "append"
  /\ \/ /\ CommentOf(signal[w]) \in rows
        /\ EventAppears(w)
        /\ Goto(w, "update")
     \/ /\ CommentOf(signal[w]) \notin rows
        /\ Goto(w, "nack")
        /\ UNCHANGED events
     \/ /\ "store" \in Faults
        /\ Goto(w, "nack")
        /\ (CommentOf(signal[w]) \in rows /\ EventAppears(w)) \/ UNCHANGED events
  /\ UNCHANGED <<busVars, unsaved, rows, outcome, counted, overspent, answered, signal>>

OutcomeStored(w) ==
  outcome' = [outcome EXCEPT ![CommentOf(signal[w])] = Classify(KindOf(signal[w]))]

(* UpdateOutcome, an error if the row is gone; then maybeReply, which      *)
(* looks at replies that match a trigger only.                             *)
UpdateOutcome(w) ==
  LET c == CommentOf(signal[w])
      kind == KindOf(signal[w])
  IN  /\ pc[w] = "update"
      /\ \/ /\ c \in rows
            /\ OutcomeStored(w)
            /\ \/ MayAsk(kind) /\ Goto(w, "count_replies")
               \/ MayNotAsk(kind) /\ Goto(w, "ack")
         \/ /\ c \notin rows
            /\ Goto(w, "nack")
            /\ UNCHANGED outcome
         \/ /\ "store" \in Faults
            /\ Goto(w, "nack")
            /\ (c \in rows /\ OutcomeStored(w)) \/ UNCHANGED outcome
      /\ UNCHANGED <<busVars, unsaved, rows, events, counted, overspent, answered, signal>>

-----------------------------------------------------------------------------
(* Mutant: off by one. *)
CountRepliesLax(w) ==
  /\ pc[w] = "count_replies"
  /\ \/ counted <= MaxReplies /\ Goto(w, "check_cap")
     \/ (counted > MaxReplies \/ "store" \in Faults) /\ Goto(w, "ack")
  /\ UNCHANGED <<busVars, storeVars, answered, signal>>

(* maybeReply counts the bot-reply rows of the pull request.               *)
CountReplies(w) ==
  /\ pc[w] = "count_replies"
  /\ \/ counted < MaxReplies /\ Goto(w, "check_cap")
     \/ (counted >= MaxReplies \/ "store" \in Faults) /\ Goto(w, "ack")
  /\ UNCHANGED <<busVars, storeVars, answered, signal>>

(* The day's budget; an error of either query lets the answer pass.        *)
CheckCap(w) ==
  /\ pc[w] = "check_cap"
  /\ \/ (~overspent \/ "store" \in Faults) /\ Goto(w, "chat")
     \/ overspent /\ Goto(w, "ack")
  /\ UNCHANGED <<busVars, storeVars, answered, signal>>

(* An error or an empty answer ends the matter.                            *)
Chat(w) ==
  /\ pc[w] = "chat"
  /\ \/ Goto(w, "post")
     \/ "llm" \in Faults /\ Goto(w, "ack")
  /\ UNCHANGED <<busVars, storeVars, answered, signal>>

AnswerAppears(w) == answered' = answered \cup {CommentOf(signal[w])}

(* PostCommentReply.                                                       *)
PostReply(w) ==
  /\ pc[w] = "post"
  /\ \/ AnswerAppears(w) /\ Goto(w, "store_reply")
     \/ /\ "vcs" \in Faults
        /\ AnswerAppears(w) \/ UNCHANGED answered
        /\ Goto(w, "ack")
  /\ UNCHANGED <<busVars, storeVars, signal>>

(* The bot-reply row; an error is logged only.  RecordSpend does nothing.  *)
StoreReply(w) ==
  /\ pc[w] = "store_reply"
  /\ \/ counted' = counted + 1
     \/ "store" \in Faults /\ UNCHANGED counted
  /\ Goto(w, "ack")
  /\ UNCHANGED <<busVars, unsaved, rows, outcome, events, overspent, answered, signal>>

Work(w) ==
  \/ Lookup(w) \/ AppendEvent(w) \/ UpdateOutcome(w)
  \/ CountReplies(w) \/ CheckCap(w) \/ Chat(w) \/ PostReply(w) \/ StoreReply(w)

(* Mutant: a failed job is acked like the others. *)
EndAcked(w) ==
  /\ pc[w] \in {"ack", "nack"}
  /\ Bus!Ack(w)
  /\ Idle(w)
  /\ UNCHANGED <<storeVars, answered>>

(* Handle returns after its ack, or after its Nack.                        *)
End(w) ==
  /\ \/ pc[w] = "ack" /\ Bus!Ack(w)
     \/ pc[w] = "nack" /\ Bus!Nak(w)
  /\ Idle(w)
  /\ UNCHANGED <<storeVars, answered>>

(* Mutant: the bus is not told that the callback is gone. *)
WorkerHangs(w) ==
  /\ "crash" \in Faults
  /\ pc[w] # "idle"
  /\ Idle(w)
  /\ UNCHANGED <<busVars, storeVars, answered>>

(* The process stops, or its Ack or Nak does not reach the server.         *)
WorkerStops(w) ==
  /\ "crash" \in Faults
  /\ Bus!Abandon(w)
  /\ Idle(w)
  /\ UNCHANGED <<storeVars, answered>>

-----------------------------------------------------------------------------
(* The operator disables the repository: its comments, the bot's answers   *)
(* among them, are deleted in one transaction, which fails as a whole      *)
(* while an event references one of them.                                  *)
Tombstone ==
  /\ "disable" \in Faults
  /\ \/ /\ \A s \in DOMAIN events : events[s] = 0
        /\ rows' = {}
        /\ outcome' = [c \in Comments |-> "none"]
        /\ counted' = 0
     \/ /\ \/ \E s \in DOMAIN events : events[s] > 0
           \/ "store" \in Faults
        /\ UNCHANGED <<rows, outcome, counted>>
  /\ UNCHANGED <<busVars, unsaved, events, overspent, answered, localVars>>

(* Reviews use up the day's budget; a new day begins.                      *)
BudgetTurns ==
  /\ "spend" \in Faults
  /\ overspent' = ~overspent
  /\ UNCHANGED <<busVars, unsaved, rows, outcome, events, counted, answered, localVars>>

ServerStep ==
  /\ \/ \E k \in Signals : Bus!WindowExpires(k)
     \/ \E s \in DOMAIN stream : Bus!AckWaitExpires(s) \/ Bus!AgeOut(s)
  /\ UNCHANGED <<storeVars, answered, localVars>>

FeedbackNext ==
  \/ \E c \in Comments : StoreComment(c)
  \/ \E k \in Signals : Signal(k)
  \/ \E w \in Workers, s \in DOMAIN stream : HandleSignal(w, s)
  \/ \E w \in Workers : Work(w) \/ End(w) \/ WorkerStops(w)
  \/ Tombstone \/ BudgetTurns \/ ServerStep

(* As in ReviewSystem: handlers go on, the client delivers, AckWait passes.*)
FeedbackFairness ==
  /\ \A w \in Workers : WF_feedbackVars(Work(w) \/ End(w))
  /\ \A s \in 1..MaxMessages :
       /\ WF_feedbackVars(s \in DOMAIN stream /\ \E w \in Workers : HandleSignal(w, s))
       /\ WF_feedbackVars(s \in DOMAIN stream /\ Bus!AckWaitExpires(s)
                            /\ UNCHANGED <<storeVars, answered, localVars>>)

FeedbackSafety == FeedbackInit /\ [][FeedbackNext]_feedbackVars
FeedbackSpec == FeedbackSafety /\ FeedbackFairness

-----------------------------------------------------------------------------
(* At least once, but not more often than delivered: whatever fails and    *)
(* whoever takes over, the events a signal leaves behind are bounded by    *)
(* the deliveries the bus has counted for it, so by MaxDeliver.            *)
EventsWithinDeliveries ==
  \A s \in DOMAIN stream : events[s] <= stream[s].deliveries

(* An outcome has its evidence: a comment counts as accepted, dismissed or *)
(* discussed only if an event of that meaning is recorded for it.          *)
OutcomeHasEvent ==
  \A c \in Comments : outcome[c] # "none" =>
    \E s \in DOMAIN stream : /\ events[s] > 0
                             /\ CommentOf(stream[s].key) = c
                             /\ Classify(KindOf(stream[s].key)) = outcome[c]

(* The bot's rows of review_comments and the events, as CommentHistory has *)
(* them; nobody else writes here.                                          *)
RowOf(c) == [source |-> "bot", text |-> "text", vec |-> "none",
             outcome |-> IF outcome[c] = "none" THEN "pending" ELSE outcome[c]]
Appended == {stream[s].key : s \in {t \in DOMAIN stream : events[t] > 0}}

History == INSTANCE CommentHistory WITH
  Bots <- Comments, Humans <- {}, PrOf <- [c \in Comments |-> 1],
  Texts <- {"text"}, NoText <- "none", Meanings <- Outcomes \ {"none"}, HistoryFaults <- {},
  recorded <- {<<CommentOf(k), Classify(KindOf(k))>> : k \in Appended},
  referenced <- {CommentOf(k) : k \in Appended},
  commentRows <- [c \in rows |-> RowOf(c)],
  said <- {}, prQueue <- <<>>, listing <- <<>>, listingVecs <- <<>>

(* The feedback loop writes the past comments as retrieval expects them to *)
(* be written (CommentHistory): a row appears without an outcome, gets one *)
(* only after an event of that meaning was appended for it, by however     *)
(* many workers, redeliveries and failures, and goes only while no event   *)
(* refers to a comment.                                                    *)
WritesHistory == History!HistorySpec

(* The rows are counted before the answer and written after it, so workers *)
(* that counted together overshoot max_replies_per_pr; the rows never by   *)
(* more than one per worker but one, not even if the bot takes its own     *)
(* answers for questions.                                                  *)
ReplyOvershootBounded == counted + 1 <= MaxReplies + Cardinality(Workers)

(* A signal that waits for its first delivery while its comment is stored  *)
(* is not dropped: it is recorded in the end, unless its comment is        *)
(* deleted, or its deliveries or its time are used up by failures.         *)
KnownSignalIsRecorded ==
  \A s \in 1..MaxMessages :
    LET Stored == CommentOf(stream[s].key) \in rows
    IN  (s \in DOMAIN stream /\ stream[s].state = "ready" /\ stream[s].deliveries = 0 /\ Stored)
          ~> (s \in DOMAIN stream /\ \/ events[s] > 0
                                     \/ ~Stored
                                     \/ Bus!Exhausted(s)
                                     \/ stream[s].state = "expired")
=============================================================================
