\* Overs, keyups, texts and strangers, in scripts of four frames over three
\* instants: time enough for a call, an attachment and a location to lapse
\* between two frames, with every table one entry short of its callers.
SPECIFICATION MCFairSpec
CONSTANTS
  Scripts <- AllScripts
  a = a
  b = b
  r1 = r1
  r2 = r2
  r3 = r3
  Peers = {a, b}
  LinkedPeers = {b}
  Radios = {r1, r2, r3}
  Streams = {1, 2, 3, 4}
  Talkgroups = {1, 2, 9}
  Unlink = 9
  Frames <- MCFrames
  Bans = {{}, {r1}}
  Subscriptions <- MCSubscriptions
  StreamTimeout = 1
  AttachmentTimeout = 1
  SubscriberTimeout = 1
  DataBurstWindow = 1
  AnswerInterval = 2
  MaxAnswered = 1
  MaxOpenCalls = 2
  MaxActive = 2
  History = 2
  MaxFrames = 4
  MaxTime = 3
  MaxEdits = 1
INVARIANTS CallsAreWhole HeardAsAsked
PROPERTIES AnsweredOnce SilentCallsEnd
CHECK_DEADLOCK FALSE
