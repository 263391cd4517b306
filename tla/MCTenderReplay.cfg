CONSTANTS
  Tenders = {t1}
  Workers = {poller, harvest}
  Poller = poller
  Nobody = nobody
  MaxVersion = 3
  DeadlineOf <- MCDeadlineOf
  MaxAborts = 1
SPECIFICATION Spec
INVARIANT NoEventWithoutChange
