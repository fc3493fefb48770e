\* Two workers, every search, lookup, request and write failing or not.
SPECIFICATION FairSpec
CONSTANTS
  Keys <- MCKeys
  Urls <- MCUrls
  Form <- MCForm
  Issue <- MCIssue
  StartKeys = {"EPIC-1", "STORY-2"}
  Workers = {w1, w2}
  ParentSearch <- MCParentSearch
  EpicSearch <- MCEpicSearch
  ChildSearchLimit = 2
  EpicLinkField = ""
  TenantField = "cf10014"
  HierarchyFaults = {"parent", "fields", "epic"}
  Applications <- MCApplications
  DataTypes = {"pullrequest"}
  IdsInOrder <- MCIdsInOrder
  DevReply <- MCDevReply
  PipelineFaults = {"devstatus", "write"}
INVARIANTS
  ChildrenAccountedFor
  FoundSurvives
  GraphIsUnion
  PRsAnnouncedOnce
PROPERTY EveryIssueFinished
