SPECIFICATION Spec
CONSTANTS
  c1 = c1
  c2 = c2
  Calls = {c1, c2}
  Requests <- MCRequests
  Workflow <- MCWorkflow
  Fold <- MCFold
  VersionIds <- MCVersionIds
  ProjectIds <- MCProjectIds
  JSONTexts <- MCJSONTexts
  BadDates <- MCBadDates
  PageSize = 2
  MaxLost = 1
  MaxOthers = 1
INVARIANTS
  OutcomeTellsEffect
  ListingComplete
PROPERTIES
  WritesWhatWasAsked
  TransitionHitsTarget
CHECK_DEADLOCK FALSE
