SPECIFICATION LiveSpec
CONSTANTS
  Task = {1}
  Worker = {w1, w2, w3}
  Client = {c1, c2}
  BatchSize = 1
  TTL = 2
  NoLease = NoLease
  NoVersion = NoVersion
  NoEvent = NoEvent
  NoWorker = NoWorker
INVARIANTS TypeOK LeaseWindowsAgree ReportIsFenced ResultIsAnnounced
PROPERTIES ImplementsGrantedResult WaitingTaskIsTaken
