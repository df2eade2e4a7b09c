SPECIFICATION Spec
CONSTANTS
  MaxPromises = 3
  ok = ok  bad = bad
  Values = {ok, bad}
  Errors = {bad}
  TypeError = bad
  Undefined = Undefined
  ScriptFunction = ScriptFunction
  NoHandler = NoHandler
  MaxRequests = 2
  Answer = ok
  NoStatus = bad
INVARIANTS OneWayToSettle ReactionsInOrder AdoptsOutcome TrackerExact HeldUntilBlock
PROPERTIES SettledForever EveryRequestAnswered OutcomePropagates
CHECK_DEADLOCK FALSE
