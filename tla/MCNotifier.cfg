SPECIFICATION NotifierFairSpec
CONSTANTS
  a = a
  b = b
  Notices = {a, b}
  Targets <- Mixed
  SlackEnabled = TRUE
INVARIANTS
  OnceOrCancelled
PROPERTIES
  EveryDispatchEnds
