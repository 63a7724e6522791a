\* The session: the subscription begins and grows; two follows, purchases, polls,
\* list requests or failures.  The settings: two starts of the program from six
\* files with thirteen command lines, killed anywhere.  The program ends.
CONSTANTS
  Parts = {"config", "session"}
  FullPass = FALSE
  MayLapse = FALSE
  MaxVersion = 2
  MaxExtra = 2
  a = a
  b = b
  i = i
  placeholder = placeholder
  Creators = {a, b}
  Ids = {i}
  NameOf <- MCNameOf
  Placeholder = placeholder
  Followed = {a, b}
  Profiles <- MCProfiles
  FlagSets <- MCFlagSets
  IdsKnown = TRUE
  MaxRuns = 2
SPECIFICATION StartupSpec
INVARIANTS  NothingOrphaned  BaselineOnce ScopeHonoured
CHECK_DEADLOCK FALSE
