CONSTANTS
  Guests = {0, 1}
  Slots = {0, 1, 2}
  Published = {0, 2}
  Limit = 1
  Entities = {answer, other, gone}
  Answer = answer
  Gone = gone
  None = None
  MaxIntents = 2
  MaxFaults = 2
SPECIFICATION Spec
INVARIANTS
  SentIsStored IntentActsOnce ForgottenCommandsAreDead AwaitsSomething
PROPERTIES ReconciledIsFulfilled
CHECK_DEADLOCK FALSE
