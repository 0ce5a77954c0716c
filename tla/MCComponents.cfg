SPECIFICATION Spec
CONSTANTS
  Users = {u1, u2, u3}
  Objects = {s1}
  s1 = s1
  Clients = {c1, c2}
  SequencerOf <- MCSequencerOf
  Floor = 1
  MaxSafe = 4
  MaxCrashes = 1
  Free = Free
  Sessions = {m1, m2}
  Contents = {k1}
  NoSession = NoSession
  NoKey = NoKey
  Code = Code
  code = code
  player = player
  song = song
  singer = singer
  alias1 = alias1
  alias2 = alias2
  Ids = {Code, code, player}
  NormalOf <- MCNormalOf
  Texts = {song, singer, alias1, alias2, player}
  Absent = Absent
  Blank = Blank
  StoredPolicies <- MCStoredPolicies
  RuleEdits <- MCRuleEdits
  MappingLists <- MCMappingLists
  MaxEdits = 1
  Captures = {p1, p2}
  Medias <- MCMedias
  Foregrounds <- MCForegrounds
  MaxSessions = 2
  Offers <- MCOffers
  Malformed = Malformed
  ClientVersion <- MCClientVersion
  Frames <- MCFrames
  MaxElapsed = 5
  MaxWireSeconds = 20
  Commands = {c1, c2}
  Devices = {d1, d2}
  NoDevice = NoDevice
  NoFile = NoFile
  Partial = Partial
  Corrupt = Corrupt
SYMMETRY Symmetry
CHECK_DEADLOCK FALSE
INVARIANTS
  ComponentsTypeOK
  DurableBeforeSend SequencesFollowQueue AppliedOnceInOrder AnswerIsLearnt
  QuietIsCurrent StopLeavesNothing TightenedApplies
  SharedIsSendable BelievedIsTrue PairingSurvivesCrash
PROPERTIES NeverReused ClosedSessionsStayClosed
