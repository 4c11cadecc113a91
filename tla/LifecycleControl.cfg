SPECIFICATION FairSpec
CONSTANTS
  None = None
  Platforms = {xen, kvm}
  Threads = {t1, t2}
  Domains = {d1}
  MaxSubs = 2
  MaxDrift = 1
  MaxChanges = 0
  Faults = {"prefix", "connect", "newThread"}
INVARIANTS OnePoller ArgsLive CountBounded
PROPERTY PollerStops
