----------------------------- MODULE MCUpdates -----------------------------
EXTENDS Updates, TLC
=============================================================================
