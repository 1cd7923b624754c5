SPECIFICATION FeedbackSpec
CONSTANTS
  Comments = {c1}
  Kinds = {"up", "question"}
  Workers = {w1, w2}
  MaxReplies = 1
  MaxDeliver = 3
  MaxMessages = 1
  Faults = {"store", "vcs", "llm", "crash", "disable", "spend"}
CHECK_DEADLOCK FALSE
PROPERTY KnownSignalIsRecorded
