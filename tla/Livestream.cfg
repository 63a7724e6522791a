\* Two broadcasts of two segments, a manifest that lists both, two attempts, and
\* one fault of any kind (a failed open, a lost segment, a failed mux, a crash or
\* a restart) at any moment.  The program ends.
CONSTANTS
  MaxShows = 2
  MaxSegs = 2
  ListWindow = 2
  MaxAttempts = 2
  Faults = {"open", "segment", "mux", "crash"}
  MaxFailures = 1
SPECIFICATION StreamSpec
PROPERTIES CompletedKept Noticed EndsOnStop
CHECK_DEADLOCK FALSE
