SPECIFICATION FairSpec
CONSTANTS
  Models <- MCModels
  Lists <- MCLists
  Info <- MCInfo
  Base <- MCBase
  Requests = {r1}
  Bodies <- MCBodies
  Strays <- MCStrays
  Gateways = {g1, g2}
  Native = {g2}
  Reasoners = {2}
  ListPrefs <- MCListPrefs
  Mappings <- MCMappings
  MaxChanges = 1
  NoGateway = NoGateway
INVARIANTS
  PickedModelIsAsked
  ClaudeNamesAreMapped
  RetriesOnce
  AnswerTellsTheReplies
  LoggedOnce
  KeyOfItsGateway
PROPERTIES
  EveryModelHasAnAlias
  EveryRequestAnswered
