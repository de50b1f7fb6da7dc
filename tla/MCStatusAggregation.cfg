\* Two workers, a global FIB of one or two routes, four worker events.
CONSTANTS
  Workers = {0, 1}
  MaxEvents = 4
SPECIFICATION Spec
INVARIANT ReportWithinTotals
