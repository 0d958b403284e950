SPECIFICATION AlarmSpec
CONSTANTS
    Commands = {c1, c2}
    Day = 3
    Week = 2
    Minutes = {1}
    DaySets = {{0, 1}, {1}}
    CatchUp = 1
    MaxAlarms = 1
    LastMinute = 4
    MaxSetBacks = 1
    Never = Never
CHECK_DEADLOCK FALSE
PROPERTY ImportReplaces
