SPECIFICATION CaptureSpec
CONSTANTS
  Code = Code
  code = code
  player = player
  song = song
  singer = singer
  alias1 = alias1
  alias2 = alias2
  Ids = {Code, code, player}
  NormalOf <- MCNormalOf
  Texts = {song, singer, alias1, alias2, player}
  Absent = Absent
  Blank = Blank
  StoredPolicies <- MCStoredPolicies
  RuleEdits <- MCRuleEdits
  MappingLists <- MCMappingLists
  MaxEdits = 3
  Captures = {}
  Medias <- MCMedias
  Foregrounds <- MCForegrounds
  MaxSessions = 0
CHECK_DEADLOCK FALSE
PROPERTY FingerprintTellsPolicies
