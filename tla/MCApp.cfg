SPECIFICATION FairSpec
CONSTANTS
  MaxSessions = 2
  MaxCommands = 4
INVARIANTS SessionEvents EveryCommandAnswered OneBoardConnection ConnectionsOwned
PROPERTIES SessionEndTold QuitEnds UsesBoardConnection
CHECK_DEADLOCK FALSE
