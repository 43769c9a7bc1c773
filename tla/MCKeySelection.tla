---------------------------- MODULE MCKeySelection ----------------------------
EXTENDS KeySelection, TLC

Interchangeable == Permutations(Process)
===============================================================================
