------------------------------ MODULE EventLog ------------------------------
(***************************************************************************)
(* What the event store promises to its callers: a journal to which an     *)
(* event is appended in one step, under an id that is then taken, and in   *)
(* which callers can rely on the sequence numbers they have been told.     *)
(* docs/architecture.md: "event.id is the idempotency key; accepting the   *)
(* same ID with different canonical content is an integrity error".        *)
(* EventStore.tla implements it.                                           *)
(***************************************************************************)
EXTENDS Naturals, Sequences

CONSTANTS Events,        \* the events that may be recorded, each with an id
          DemoIds        \* ids of events that a demo reset may erase

VARIABLES
  log,     \* the recorded events, in sequence order
  told     \* the rows [sequence, event] that callers have been told of

Taken(id) == \E n \in DOMAIN log : log[n].id = id

Record(e) ==
  /\ ~Taken(e.id)
  /\ log' = Append(log, e)
  /\ UNCHANGED told

\* A caller is told the sequence of an event: the one it has, unless it is a demo
\* event that may have been erased before the reply is sent.
Tell ==
  /\ \E t \in told' :
       /\ told' = told \cup {t}
       /\ \/ t.event.id \in DemoIds
          \/ t.sequence \in DOMAIN log /\ log[t.sequence] = t.event
  /\ UNCHANGED log

\* The demo reset erases everything, if there is nothing but demo events.
Erase ==
  /\ \A n \in DOMAIN log : log[n].id \in DemoIds
  /\ log' = << >>
  /\ UNCHANGED told

Init == log = << >> /\ told = {}

Next == (\E e \in Events : Record(e)) \/ Tell \/ Erase

Spec == Init /\ [][Next]_<<log, told>>
=============================================================================
