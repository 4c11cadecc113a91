SPECIFICATION FairSpec
CONSTANTS
  None = None
  Platforms = {kvm}
  Threads = {t1}
  Domains = {d1, d2}
  MaxSubs = 1
  MaxDrift = 0
  MaxChanges = 3
  Faults = {"list", "xml", "build", "deliver"}
INVARIANTS TypeOK SilentWhenDisabled NoForgottenGuest
PROPERTY DeletionReported CreationListed
