\* One exchange: a decision made for its request stage reaches its response stage.
SPECIFICATION Spec
CONSTANTS
  None = None
  Sessions = {s1}
  RequestRules = {q1}
  ResponseRules = {p1}
INVARIANT
  DecisionForItsStage
