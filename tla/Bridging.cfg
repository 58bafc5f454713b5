\* A net and a link, two saves among four configurations, and two days of four
\* hours: midnight, the hour that is skipped and the one that is repeated all
\* come within a behaviour.  The clock is bounded, so the system may stop.
SPECIFICATION Spec
CONSTANTS
  net = net
  link = link
  west = west
  east = east
  spring = spring
  Bridges = {net, link}
  Zones = {west, east, spring}
  DayLength = 4
  WeekLength = 2
  ClockChange <- MCClockChange
  OffsetBefore <- MCOffsetBefore
  OffsetAfter <- MCOffsetAfter
  MaxWindowDuration = 2
  Configs <- MCConfigs
  HangTime = 1
  MaxTime = 7
  MaxSaves = 2
INVARIANTS ScheduleIsKept LastSaveWins
PROPERTIES BridgesFollow
CHECK_DEADLOCK FALSE
