\* Two nodes of demonstration, a store of none, three and seven, gestures in any order.
CONSTANTS
  NoNode = NoNode
  Open = 9
  MaxConfidence = 4
  DemoGraph <- MCDemoGraph
  History <- MCHistory
  Suggested = "dw"
  Kinds = {"Task"}
  Classes = {"INFERRED"}
  MaxHops = 3
  MaxNodes = 4
  MaxEdges = 2
  Now = 2
  Answers <- MCAnswers
  MaxGestures = 4
SPECIFICATION Spec
INVARIANTS TrailIsWalk NeighborhoodIsBall PathIsShortest SceneKeepsWays HitsAreShown
CHECK_DEADLOCK FALSE
