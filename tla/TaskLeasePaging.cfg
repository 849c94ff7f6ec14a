SPECIFICATION LiveSpec
CONSTANTS
  Task = {1, 2}
  Worker = {w1, w2}
  Client = {c1}
  BatchSize = 1
  TTL = 1
  NoLease = NoLease
  NoVersion = NoVersion
  NoEvent = NoEvent
  NoWorker = NoWorker
PROPERTY WaitingTaskIsTaken
