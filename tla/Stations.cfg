\* One repeater and a timeslot; a hotspot and a repeater with a parrot, two
\* streams each; two DMR calls and two transmissions through one chip; two
\* sessions with a Zello channel two people use; three bulletins over three
\* hours; bursts with two bits flipped and texts disturbed twice.  Clocks and
\* counters are bounded, so each part may stop.
SPECIFICATION Spec
CONSTANTS
  Slots = {2}
  SlotBitIsTimeslot2 = TRUE
  Overs = {1, 2}
  CallTimeout = 1
  MaxCallDuration = 1
  IpscPeerTimeout = 1
  SlotHold = 1
  DataBurstWindow = 1
  SequenceModulus = 3
  MaxSends = 2
  MaxKeyUps = 2
  Hotspots = {h1}
  Repeaters = {r1}
  Streams = {1, 2}
  MostFrames = 1
  LongestRecording = 0
  PauseEnds = 1
  TextFrames = 1
  Routines = {1, 2, 3}
  MaxBeats = 2
  Calls = {1, 2}
  Keyings = {11, 12}
  FramesPerBurst = 2
  MaxSockets = 3
  MaxPaced = 3
  Voices = {1, 2}
  AudioRoom = 1
  EventRoom = 1
  UsrpRoom = 1
  FramesPerPacket = 2
  MaxCommands = 2
  MaxSpoken = 2
  MaxSessions = 2
  Bulletins = {1, 2, 3}
  Bulletin <- MCBulletin
  Zones = {"east", "west", "none"}
  UnknownZones = {"none"}
  Watches = {"watch"}
  WxSettings <- MCSettings
  CanTransmit = TRUE
  AlertGap = 1
  AlertLimit = 1
  AlertWindow = 2
  ExtensionSlack = 0
  SentMemory = 1
  MaxHour = 2
  MaxSaves = 2
  MaxStops = 1
  MaxTroubles = 3
  Loads <- MCLoads
  MaxApart = 8
  MaxShuffles = 2
INVARIANTS OversAreWhole ReadAsSent
           PlaybackIsWanted
           ChipServesItsHolder TransmissionsAreWhole ConnectorLetsGo
           QueueIsAsked
PROPERTY NotTwice
CHECK_DEADLOCK FALSE
