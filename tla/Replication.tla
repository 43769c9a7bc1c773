----------------------------- MODULE Replication -----------------------------
(***************************************************************************)
(* What synchronization promises: a local log, a replica that copies it in *)
(* order, and the part of the log that is released, which is never longer  *)
(* than the replica.                                                       *)
(***************************************************************************)
EXTENDS Naturals, Sequences

CONSTANT Events

VARIABLES log, replica, released

vars == <<log, replica, released>>

Init == log = <<>> /\ replica = <<>> /\ released = 0

Extend ==
  /\ \E e \in Events : log' = Append(log, e)
  /\ UNCHANGED <<replica, released>>

Copy ==
  /\ \E n \in Len(replica) + 1 .. Len(log) :
       replica' = SubSeq(log, 1, n)
  /\ UNCHANGED <<log, released>>

Release ==
  /\ released' \in released + 1 .. Len(replica)
  /\ UNCHANGED <<log, replica>>

Next == Extend \/ Copy \/ Release

Spec == Init /\ [][Next]_vars
=============================================================================
