---------------------------- MODULE KeySelection ----------------------------
(***************************************************************************)
(* How the processes of one installation agree on the master key of its    *)
(* database: DefaultKeyProvider.get_key and the providers it chooses from  *)
(* (packages/core/src/brainhub/crypto.py).  Every process that opens the   *)
(* database runs it: the service, an MCP server, a command.  The keychain  *)
(* of the operating system is external and may fail to answer any call; a  *)
(* process may die, or raise, between any two steps, and its file lock     *)
(* goes with it.                                                           *)
(*                                                                         *)
(* An explicit BRAINHUB_MASTER_KEY bypasses all of this and is left out.   *)
(***************************************************************************)
EXTENDS Naturals

CONSTANTS
  Process,         \* the processes that open the database
  MaxKeys,         \* bound on the keys that are generated
  MaxLosses,       \* bound on how often key material is lost
  Legacies         \* a subset of BOOLEAN: is there a database of an early release?

NoKey == 0
OldKey == 1  \* the key of an early release, and of the rows it has left
Nobody == "nobody"

ASSUMPTION KeyAssumption ==
  /\ MaxKeys \in Nat /\ MaxLosses \in Nat
  /\ Legacies \subseteq BOOLEAN
  /\ Nobody \notin Process

VARIABLES
  keyring,   \* the key in the operating system's keychain
  localKey,  \* the key in the private file
  marker,    \* the provider marker: "none", "keyring" or "local"
  holder,    \* who holds the provider lock
  pc,        \* where each process is in get_key
  choice,    \* the provider it has selected
  key,       \* the key it has obtained
  data,      \* the keys under which rows were encrypted since the marker is known
  made,      \* how many keys were generated
  losses,    \* how often key material was lost
  legacy,    \* whether the database is older than the marker
  missed     \* history: the key of an early release was not found when looked for

files == <<keyring, localKey, marker>>
vars == <<keyring, localKey, marker, holder, pc, choice, key, data, made, losses, legacy,
          missed>>

Providers == {"keyring", "local"}
Keys == 1..MaxKeys

\* The steps that run under the provider lock.
Critical == {"choice", "pinned", "adopt", "first", "keyring", "set", "local", "persist"}

Material(provider) == IF provider = "keyring" THEN keyring ELSE localKey

\* An early release stored its key in the keychain and knew no marker.
Init ==
  /\ legacy \in Legacies
  /\ IF legacy THEN MaxKeys >= 1 /\ keyring = OldKey /\ made = 1
               ELSE keyring = NoKey /\ made = 0
  /\ data = {} /\ missed = FALSE
  /\ localKey = NoKey /\ marker = "none"
  /\ holder = Nobody
  /\ pc = [p \in Process |-> "idle"]
  /\ choice = [p \in Process |-> "local"]
  /\ key = [p \in Process |-> NoKey]
  /\ losses = 0

Goto(p, step) == pc' = [pc EXCEPT ![p] = step]

Select(p, provider, k) ==
  /\ choice' = [choice EXCEPT ![p] = provider]
  /\ key' = [key EXCEPT ![p] = k]

\* get_key returns: the lock is released and the cipher holds the key.
Returns(p) ==
  /\ Goto(p, "open")
  /\ holder' = Nobody

\* get_key raises, or the process dies or exits: the lock goes with it.
Gone(p) ==
  /\ Goto(p, "idle")
  /\ holder' = IF holder = p THEN Nobody ELSE holder

----------------------------------------------------------------------------
Start(p) ==
  /\ pc[p] = "idle"
  /\ Goto(p, "lock")
  /\ UNCHANGED <<files, holder, choice, key, data, made, losses, legacy, missed>>

TakeLock(p) ==
  /\ pc[p] = "lock" /\ holder = Nobody
  /\ holder' = p
  /\ Goto(p, "choice")
  /\ UNCHANGED <<files, choice, key, data, made, losses, legacy, missed>>

\* Mutant: the marker's absence goes straight to the first-use policy.
ReadMarkerOnly(p) ==
  /\ pc[p] = "choice"
  /\ IF marker = "none" THEN Goto(p, "first") /\ UNCHANGED choice
     ELSE Goto(p, "pinned") /\ choice' = [choice EXCEPT ![p] = marker]
  /\ UNCHANGED <<files, holder, key, data, made, losses, legacy, missed>>

ReadMarker(p) ==
  /\ pc[p] = "choice"
  /\ IF marker = "none" THEN Goto(p, "adopt") /\ UNCHANGED choice
     ELSE Goto(p, "pinned") /\ choice' = [choice EXCEPT ![p] = marker]
  /\ UNCHANGED <<files, holder, key, data, made, losses, legacy, missed>>

\* The pinned provider still has its key: get_existing_key.
UsePinned(p) ==
  /\ pc[p] = "pinned" /\ Material(choice[p]) # NoKey
  /\ key' = [key EXCEPT ![p] = Material(choice[p])]
  /\ Returns(p)
  /\ UNCHANGED <<files, choice, data, made, losses, legacy, missed>>

\* Mutant: get_key instead of get_existing_key, which makes the key it misses.
PinnedRecreated(p) ==
  /\ pc[p] = "pinned" /\ Material(choice[p]) = NoKey
  /\ Goto(p, IF choice[p] = "keyring" THEN "set" ELSE "local")
  /\ UNCHANGED <<files, holder, choice, key, data, made, losses, legacy, missed>>

\* The pinned provider's key is missing or the keychain does not answer.
PinnedFails(p) ==
  /\ pc[p] = "pinned"
  /\ Material(choice[p]) = NoKey \/ choice[p] = "keyring"
  /\ Gone(p)
  /\ UNCHANGED <<files, choice, key, data, made, losses, legacy, missed>>

\* No marker: a key an early release left in the keychain is adopted.
Adopt(p) ==
  /\ pc[p] = "adopt" /\ keyring # NoKey
  /\ Select(p, "keyring", keyring)
  /\ Goto(p, "persist")
  /\ UNCHANGED <<files, holder, data, made, losses, legacy, missed>>

\* The keychain has no key, or does not answer: the one counts like the other.
NothingToAdopt(p) ==
  /\ pc[p] = "adopt"
  /\ missed' = (missed \/ legacy)
  /\ Goto(p, "first")
  /\ UNCHANGED <<files, holder, choice, key, data, made, losses, legacy>>

\* First use: a headless process goes to the local file, another one to the keychain.
FirstUse(p) ==
  /\ pc[p] = "first"
  /\ \E headless \in BOOLEAN : Goto(p, IF headless THEN "local" ELSE "keyring")
  /\ UNCHANGED <<files, holder, choice, key, data, made, losses, legacy, missed>>

KeyringHasKey(p) ==
  /\ pc[p] \in {"keyring", "set"} /\ keyring # NoKey
  /\ Select(p, "keyring", keyring)
  /\ Goto(p, "persist")
  /\ UNCHANGED <<files, holder, data, made, losses, legacy, missed>>

KeyringHasNone(p) ==
  /\ pc[p] = "keyring" /\ keyring = NoKey
  /\ Goto(p, "set")
  /\ UNCHANGED <<files, holder, choice, key, data, made, losses, legacy, missed>>

KeyringSet(p) ==
  /\ pc[p] = "set" /\ keyring = NoKey /\ made < MaxKeys
  /\ made' = made + 1
  /\ keyring' = made + 1
  /\ Select(p, "keyring", made + 1)
  /\ Goto(p, "persist")
  /\ UNCHANGED <<localKey, marker, holder, data, losses, legacy, missed>>

\* The keychain fails before or after it has stored the key.
KeyringUnavailable(p) ==
  /\ pc[p] \in {"keyring", "set"}
  /\ \/ UNCHANGED <<keyring, made>>
     \/ /\ pc[p] = "set" /\ keyring = NoKey /\ made < MaxKeys
        /\ made' = made + 1 /\ keyring' = made + 1
  /\ Goto(p, "local")
  /\ UNCHANGED <<localKey, marker, holder, choice, key, data, losses, legacy, missed>>

LocalHasKey(p) ==
  /\ pc[p] = "local" /\ localKey # NoKey
  /\ Select(p, "local", localKey)
  /\ Goto(p, "persist")
  /\ UNCHANGED <<files, holder, data, made, losses, legacy, missed>>

\* The key file appears complete or not at all: a temporary file is linked.
LocalCreate(p) ==
  /\ pc[p] = "local" /\ localKey = NoKey /\ made < MaxKeys
  /\ made' = made + 1
  /\ localKey' = made + 1
  /\ Select(p, "local", made + 1)
  /\ Goto(p, "persist")
  /\ UNCHANGED <<keyring, marker, holder, data, losses, legacy, missed>>

\* The marker is created once; one that says otherwise is an error.
Persist(p) ==
  /\ pc[p] = "persist"
  /\ IF marker \in {"none", choice[p]} THEN marker' = choice[p] /\ Returns(p)
                                      ELSE UNCHANGED marker /\ Gone(p)
  /\ UNCHANGED <<keyring, localKey, choice, key, data, made, losses, legacy, missed>>

\* An open process encrypts a row.
Encrypt(p) ==
  /\ pc[p] = "open"
  /\ data' = data \cup {key[p]}
  /\ UNCHANGED <<files, holder, pc, choice, key, made, losses, legacy, missed>>

\* Mutant: the lock is not released when get_key raises.
FailsLocked(p) ==
  /\ pc[p] # "idle"
  /\ Goto(p, "idle")
  /\ UNCHANGED <<files, holder, choice, key, data, made, losses, legacy, missed>>

\* An exception, a kill or an orderly exit.
Fails(p) ==
  /\ pc[p] # "idle"
  /\ Gone(p)
  /\ UNCHANGED <<files, choice, key, data, made, losses, legacy, missed>>

\* A keychain entry or the key file is deleted from outside.
LoseKey ==
  /\ losses < MaxLosses
  /\ losses' = losses + 1
  /\ \/ keyring' = NoKey /\ UNCHANGED localKey
     \/ localKey' = NoKey /\ UNCHANGED keyring
  /\ UNCHANGED <<marker, holder, pc, choice, key, data, made, legacy, missed>>

Next ==
  \/ \E p \in Process :
       \/ Start(p) \/ TakeLock(p) \/ ReadMarker(p)
       \/ UsePinned(p) \/ PinnedFails(p)
       \/ Adopt(p) \/ NothingToAdopt(p) \/ FirstUse(p)
       \/ KeyringHasKey(p) \/ KeyringHasNone(p) \/ KeyringSet(p) \/ KeyringUnavailable(p)
       \/ LocalHasKey(p) \/ LocalCreate(p)
       \/ Persist(p) \/ Encrypt(p) \/ Fails(p)
  \/ LoseKey

Spec == Init /\ [][Next]_vars
----------------------------------------------------------------------------
Open == {p \in Process : pc[p] = "open"}
Used == data \cup {key[p] : p \in Open}
OldRows == IF legacy THEN {OldKey} ELSE {}

\* Types, and the lock: a process is past TakeLock and before the end of get_key
\* exactly while it holds the lock, however it leaves.
TypeOK ==
  /\ keyring \in Keys \cup {NoKey} /\ localKey \in Keys \cup {NoKey}
  /\ marker \in Providers \cup {"none"}
  /\ holder \in Process \cup {Nobody}
  /\ pc \in [Process -> Critical \cup {"idle", "lock", "open"}]
  /\ choice \in [Process -> Providers]
  /\ key \in [Process -> Keys \cup {NoKey}]
  /\ data \subseteq Keys
  /\ made \in 0..MaxKeys /\ losses \in 0..MaxLosses
  /\ legacy \in Legacies /\ missed \in BOOLEAN
  /\ \A p \in Process : pc[p] \in Critical <=> holder = p

\* All processes that have the database open, and all rows that any process has
\* written since there is a marker, have one key: whichever process came first,
\* died half way, ran headless, lost its key or found the keychain out of reach.
\* (get_key.)  It says nothing of the rows an early release has left.
ProcessesAgree == \A k, l \in Used : k = l

\* The rows of an early release have that key as well.  docs/security.md:47-49
\* promises that no replacement key is generated for an existing installation;
\* crypto.py:476 breaks it, and the run key_selection_upgrade shows how.
OneKey == \A k, l \in Used \cup OldRows : k = l

\* What is left of that promise: it holds unless some process looked for the key
\* of the early release, before there was a marker, and the keychain had lost it
\* or did not answer.
OneKeyUnlessMissed == ~missed => OneKey

\* What these rest on: between reading the marker and creating it a process is
\* alone; a database that is older than the marker is adopted before anything
\* else, or its key was missed; and the material of the pinned provider is the
\* key in use, or lost.
Adoptable == legacy /\ marker = "none" /\ ~missed => keyring \in {OldKey, NoKey}

Unpinned ==
  /\ marker = "none" => Used = {}
  /\ \A p \in Process : pc[p] \in Critical \ {"choice", "pinned"} => marker = "none"
  /\ \A p \in Process :
       pc[p] \in {"first", "keyring", "set", "local"} => ~legacy \/ missed

Selected ==
  /\ \A p \in Process : pc[p] = "pinned" => choice[p] = marker
  /\ \A p \in Process : pc[p] \in {"persist", "open"} => key[p] # NoKey
  /\ \A p \in Process : pc[p] = "persist" =>
       /\ Material(choice[p]) \in {key[p], NoKey}
       /\ legacy /\ ~missed => key[p] = OldKey

PinnedMaterial ==
  marker # "none" =>
    /\ \A k \in Used : Material(marker) \in {k, NoKey}
    /\ legacy /\ ~missed => Material(marker) \in {OldKey, NoKey} /\ Used \subseteq {OldKey}

KeyInv ==
  /\ TypeOK /\ Adoptable /\ Unpinned /\ Selected /\ PinnedMaterial
  /\ ProcessesAgree /\ OneKeyUnlessMissed

\* Once a provider is pinned, by whichever process, it is never another one and
\* no key is ever generated again, also when its key is lost or the keychain fails.
PinnedForever ==
  [][marker # "none" => marker' = marker /\ made' = made]_vars
============================================================================
