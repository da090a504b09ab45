SPECIFICATION FairSpec
CONSTANTS
  Scripts <- AllScripts
  Replies <- AllReplies
  Down <- TwoBytes
  MaxFrame = 2
INVARIANTS TypeOK FramesExact OnlyEarlyBytesWait AskedRight AnswersRight UpstreamRight
PROPERTIES PayloadCopied SocksAnswered
CHECK_DEADLOCK FALSE
