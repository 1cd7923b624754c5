SPECIFICATION FeedbackSafety
CONSTANTS
  Comments = {c1}
  Kinds = {"up", "question", "echo"}
  Workers = {w1, w2}
  MaxReplies = 1
  MaxDeliver = 2
  MaxMessages = 2
  Faults = {"store", "vcs", "llm", "crash", "disable"}
CHECK_DEADLOCK FALSE
SYMMETRY Symmetry
INVARIANTS
  FeedbackTypeOK
  EventsWithinDeliveries
  ReplyOvershootBounded
PROPERTIES
  WritesHistory
