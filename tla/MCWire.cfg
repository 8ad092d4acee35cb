SPECIFICATION WireSpec
CONSTANTS
  Letters = {"n", " "}
  Newline = "LF"
  Return = "CR"
  Tab = "TAB"
  Control = "BEL"
  AgentNames <- MCAgentNames
  MaxChars = 4
  MaxDecision = 3
  MaxAnswerLen = 6
  Writer = writer
  Readers = {w1, w2}
  AgentServed = "ClaimDataAgent"
  AgentNameOf <- MCAgentNameOf
  Specs <- MCSpecs
  ToolsOf <- MCToolsOf
  First <- MCFirst
  MaxRecords = 2
  MaxChanges = 3
INVARIANTS RoundTrip ClaimIdIsOwnOrUnknown DecisionIsAccountedFor CarefulRolloutLosesNothing
PROPERTY ServedOnceStartable
CHECK_DEADLOCK FALSE
