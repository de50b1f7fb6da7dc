\* Three names; limits 0..2, so a view can be full, shrunk or disabled.
CONSTANTS
  a = a
  b = b
  c = c
  Names <- MCNames
  Limits = {0, 1, 2}
  MaxClock = 6
SPECIFICATION Spec
INVARIANT TypeOK WithinLimits
PROPERTY PrefixIsLru ExactIsLru
