\* Two daemons, two requests, bodies of up to two units: every way the
\* responses can be cut into chunks, headers too, and what becomes of every request.
SPECIFICATION FairSpec
CONSTANTS
  MaxStarts = 2
  MaxRequests = 2
  MaxBody = 2
INVARIANT FramingKept
PROPERTIES ResponsesRead CrashRejects
CHECK_DEADLOCK FALSE
