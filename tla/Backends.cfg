\* One backend at a time.
SPECIFICATION Spec
CONSTANTS
    Caller = {c1, c2}
    NoCaller = nobody
    MaxGen = 2
    MaxSid = 2
    MaxExits = 1
    MaxWire = 1
    MaxOwner = 3
    K = 1
    MaxSlot = 3
    Window = 6
    MinPiece = 3
    Lookahead = 2
    Chunk = 2
    Threshold = 4
    MaxWeight = 5
    MaxFrames = 8
    MaxMoss = 3
    MinSpaced = 4
    MinMulti = 3
    MinSingle = 4
    LongUnit = 4
    MinLong = 3
    MinTailRepeats = 4
    MinTailSingle = 5
    MinInterior = 3
    MinInteriorSingle = 5
    MaxInteriorUnit = 3
    MaxPeriodUnit = 4
    MaxTailScan = 10
    ShortRun = 4
    Symbol = {a, b}
    MaxUnits = 11
    MaxSeg = 5
    MinSeg = 1
    MinFrag = 3
    MinTail = 3
    MinRun = 1
    MinKeep = 2
    LongAudio = 6
    Phrase = {x, y}
    LongPhrase = {x}
    MaxTotal = 12
    Char = {"han", "letter", "space", "stop", "query", "dot", "colon"}
    MinSentence = 2
    MaxSentence = 4
    MinClause = 2
    TargetClause = 3
    MaxClause = 4
    MaxReq = 3
    AtomLimit = 4
    MinMerge = 2
    MaxTokens = 2
    MaxDelta = 2
    MaxText = 5
    MaxSent = 3
    NFiles = 2
    Together = FALSE
SYMMETRY Symmetry
INVARIANTS
  AsrWorkerIsSafe
  StreamIsSettled
  RkOwnerSafe
  PoolIsSafe
  UtteranceIsAccounted
  OneMossProcess
  OnlyCopiesGo
  SegmentsAreSound
  PiecesAreText
  TransportDelivers
  InstallIsWhole
PROPERTIES
  CancelFreezesText
CHECK_DEADLOCK FALSE
