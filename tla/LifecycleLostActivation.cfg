SPECIFICATION Spec
CONSTANTS
  None = None
  Platforms = {kvm}
  Threads = {t1}
  Domains = {d1}
  MaxSubs = 2
  MaxDrift = 0
  MaxChanges = 0
  Faults = {}
INVARIANT ActivationServed
