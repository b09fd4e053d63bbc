CONSTANTS
  Owners = {u1}
  Channels = {mail}
  Robots = {}
  Items <- ThreeDaysBefore
  MonthLengths <- Calendar
  MonthsPerYear = 12
  Advances = {3}
  LastDay = 40
  MaxMishaps = 0
  MaxChanges = 0
SPECIFICATION NoticeSpec
INVARIANT AdvanceNoticeInTime
CHECK_DEADLOCK FALSE
