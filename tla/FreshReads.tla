------------------------------ MODULE FreshReads ------------------------------
(***************************************************************************)
(* What a reader of the graph is promised: an answer is made of versions   *)
(* the store had between the request and the answer, none older, so a      *)
(* client that has seen its event accepted finds it in the next answer.    *)
(***************************************************************************)
EXTENDS Integers

CONSTANTS Readers, Nothing

VARIABLES
  version,   \* the version of the store
  asked,     \* the version at the reader's request, or Nothing
  answer     \* the versions its answer is made of, {} before it has one

vars == <<version, asked, answer>>

Init ==
  /\ version = 0
  /\ asked = [r \in Readers |-> Nothing]
  /\ answer = [r \in Readers |-> {}]

Commit == version' = version + 1 /\ UNCHANGED <<asked, answer>>

Ask(r) ==
  /\ asked[r] = Nothing
  /\ asked' = [asked EXCEPT ![r] = version]
  /\ UNCHANGED <<version, answer>>

Answer(r) ==
  /\ asked[r] # Nothing /\ answer[r] = {}
  /\ \E used \in (SUBSET (asked[r] .. version)) \ {{}} :
       answer' = [answer EXCEPT ![r] = used]
  /\ UNCHANGED <<version, asked>>

Take(r) ==
  /\ answer[r] # {}
  /\ asked' = [asked EXCEPT ![r] = Nothing]
  /\ answer' = [answer EXCEPT ![r] = {}]
  /\ UNCHANGED version

Next == Commit \/ \E r \in Readers : Ask(r) \/ Answer(r) \/ Take(r)

Spec == Init /\ [][Next]_vars
===============================================================================
