CONSTANTS
  MaxUnsigned = 90
  MaxInteger  = 89
  MaxExponent = 7
  BufferSize  = 16
  Sources  <- MCSources
  Strings  <- MCStrings
  Settings <- MCSettings
  MaxSize = 40
  Codecs  <- MCCodecs
  Values  <- MCValues
  Foreign <- MCForeign
  Cuts    <- MCCuts
  Edits   <- MCEdits

SPECIFICATION LibrarySpec

INVARIANTS
  AcceptsGrammar
  BuildsValue
  ReferencesLive
  StacksAgree
  PositionExact
  RoundTrip
  RoomForCodePoint
  FlatDestruction
  NothingLeaks
  TransferExact
  WholeOrNothing
  SizesAnnounced
  FlattenRestored

PROPERTIES
  JsonEnds
  EditsExact
