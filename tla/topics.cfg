SPECIFICATION Spec
CONSTANTS
  Filter <- MCFilter
  Topic <- MCTopic
  Handler = {h1, h2}
  NULL = NULL
  MAX_MESSAGE_HANDLERS = 3
INVARIANTS
  TypeOK
  OneSlotPerFilter
  UsedHasHandler
  MatchAgrees
PROPERTY
  IsBoundedMap
