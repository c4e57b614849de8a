--------------------------- MODULE MCThreadEngine ---------------------------
EXTENDS ThreadEngine, TLC

CONSTANTS t1, t2, x1, x2, x3

Interchangeable == Permutations({x1, x2, x3}) \cup Permutations({t1, t2})
=============================================================================
