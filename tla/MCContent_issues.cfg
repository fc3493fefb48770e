SPECIFICATION ContentSpec
CONSTANTS
  Keys <- MCKeys
  Urls <- MCUrls
  Form <- MCForm
  Nodes <- MCNodes
  Height <- MCHeight
  FieldIds <- MCFieldIds
  Responses <- MCResponses
INVARIANTS
  TextKept
  BlocksApart
  NothingUnseen
  FieldsKept
  BridgeRefers
CHECK_DEADLOCK FALSE
