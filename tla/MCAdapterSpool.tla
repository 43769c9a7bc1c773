--------------------------- MODULE MCAdapterSpool ---------------------------
(***************************************************************************)
(* Instances of AdapterSpool for TLC.                                      *)
(***************************************************************************)
EXTENDS AdapterSpool, TLC

Event(id, version, size, valid) ==
  [id |-> id, version |-> version, size |-> size, valid |-> valid]

\* An event, the same event observed again, a larger one and one that is refused.
Note    == Event("a", 1, 1, TRUE)
Retry   == Event("a", 2, 1, TRUE)
Large   == Event("b", 1, 2, TRUE)
Invalid == Event("c", 1, 1, FALSE)

AllEvents == {Note, Retry, Large, Invalid}

Interchangeable == Permutations(Hooks) \cup Permutations(Drainers)
=============================================================================
