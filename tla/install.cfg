\* One request, two tools: overlapping starts, cancels, rejections, approvals, blocks.
SPECIFICATION Spec
CONSTANTS
  None = None
  Gone = Gone
  t1 = t1
  t2 = t2
  v1 = v1
  v2 = v2
  r1 = r1
  h1 = h1
  h2 = h2
  Tools <- TwoTools
  Reviewers <- TwoReviewers
  Metadata <- OneSound
  Requests <- OneRequest
  Handlers <- TwoHandlers
  MaxAttempts = 3
INVARIANTS TypeOK OneStartPerRequest InstallsAreSanctioned AttemptsCoherent CancelFindsCommand ApprovalEarned
PROPERTIES EndIsFinal StartsEnd
CHECK_DEADLOCK FALSE
