CONSTANTS
  Guests = {0, 1}
  Slots = {0}
  Published = {0}
  Limit = 1
  Entities = {answer, other, gone}
  Answer = answer
  Gone = gone
  None = None
  MaxIntents = 2
  MaxFaults = 0
SPECIFICATION Spec
PROPERTIES ReadsNeverGoBack
CHECK_DEADLOCK FALSE
