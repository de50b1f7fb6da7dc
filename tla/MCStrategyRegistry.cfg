\* Strategies /a, /b, /c registered at any subset of versions 1..3, then
\* FibUpdates for /, /a and /a/b over two faces at two costs.
CONSTANTS
  a = a
  b = b
  f1 = f1
  f2 = f2
  Candidates <- MCCandidates
  Queries <- MCQueries
  FibNames <- MCFibNames
  Faces <- MCFaces
  Costs = {1, 2}
  LookupNames <- MCLookupNames
  Hints <- MCHints
SPECIFICATION MCSpec
INVARIANT MCTypeOK FindVersionedAsDocumented InstanceNameStable LookupFibAsDocumented
