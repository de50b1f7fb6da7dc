------------------------------- MODULE MCCsPolicy -------------------------------
EXTENDS CsPolicy

CONSTANTS a, b, c

MCNames == {a, b, c}

==============================================================================
