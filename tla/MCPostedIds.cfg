SPECIFICATION PostingSpec
CONSTANTS
  Inline = 3
  PostHosts = {"github", "bitbucket"}
CHECK_DEADLOCK FALSE
INVARIANT PostedCommentIsFound
