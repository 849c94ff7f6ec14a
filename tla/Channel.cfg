SPECIFICATION ChannelSpec
CONSTANTS
  Tasks <- ModelTasks
  Topics <- ModelTopics
  Subscribes <- ModelSubscribes
  DependsOn <- ModelDependsOn
  MaxIds = 4
  MaxCrashes = 1
INVARIANTS EveryOutcomeIsRecorded DependenciesFirst NoHalfProjection
CHECK_DEADLOCK FALSE
