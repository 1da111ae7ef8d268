SPECIFICATION Spec
CONSTANTS
  Language <- MCLanguage
  ConfigNames = {"mcp.json"}
  DataNames = {"data.json"}
  DocNames = {"guide.md", "README.md"}
  MaxFileSize = 16
  MaxBundleSize = 40
  Worlds <- MCWorlds
  FieldLines <- MCFieldLines
  TextLines <- MCTextLines
  Additions <- MCAdditions
  Builtin <- MCBuiltin
  Policy <- MCPolicy
  PolicyFiles <- MCPolicyFiles
  Today = 5
  Identities <- MCIdentities
  NoId = ""
  PathOrder <- MCPathOrder
  MaxColumns = 28
  TreeLevels <- MCTreeLevels
  CondLevels <- MCCondLevels
INVARIANTS EveryLineIsScanned CapsNeverErase   OmsCovers LogsAreStable FramesHold PacksAreHeard PoliciesAreHeard
PROPERTIES DecoysDoNotHide AlertsSurviveEdits CleanSigningVerifies
CHECK_DEADLOCK FALSE
