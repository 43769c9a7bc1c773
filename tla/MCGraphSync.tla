----------------------------- MODULE MCGraphSync -----------------------------
EXTENDS GraphSync, TLC

Interchangeable == Permutations(Events) \cup Permutations(Couriers)
=============================================================================
