SPECIFICATION FairSpec
CONSTANTS
  Cpus = {c1}
  cpu = c1
  MaxPairs = 2
  Used = {"ports", "sched"}
INVARIANTS TypeOK WaitersHaveWorker NothingInService
PROPERTIES SignalEndsDaemon EnabledQueuesPolled
CHECK_DEADLOCK FALSE
