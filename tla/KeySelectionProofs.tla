------------------------- MODULE KeySelectionProofs -------------------------
(***************************************************************************)
(* Theorems about KeySelection, for any processes and any bounds, with a   *)
(* keychain that may fail, and lose its key, at any moment.                *)
(***************************************************************************)
EXTENDS KeySelection, TLAPS

LEMMA InitInv == Init => KeyInv
  <1> SUFFICES ASSUME Init PROVE KeyInv
    OBVIOUS
  <1> USE KeyAssumption DEF Init, NoKey, OldKey, Critical, Providers, Keys
  <1>1. TypeOK
    <2>1. keyring \in Keys \cup {NoKey} /\ made \in 0..MaxKeys
      BY SMT
    <2>2. \A p \in Process : pc[p] \in Critical <=> holder = p
      BY Zenon
    <2>3. made \in 0..MaxKeys /\ losses \in 0..MaxLosses
      BY <2>1, SMT
    <2> QED BY <2>1, <2>2, <2>3, Zenon DEF TypeOK
  <1>2. Used = {} /\ marker = "none"
    BY DEF Used, Open
  <1>3. Adoptable /\ Unpinned /\ Selected /\ PinnedMaterial
    BY <1>2 DEF Adoptable, Unpinned, Selected, PinnedMaterial
  <1>4. ProcessesAgree /\ OneKeyUnlessMissed
    BY <1>2 DEF ProcessesAgree, OneKeyUnlessMissed, OneKey, OldRows
  <1> QED BY <1>1, <1>3, <1>4 DEF KeyInv

-----------------------------------------------------------------------------
LEMMA StepInv ==
  ASSUME KeyInv, [Next]_vars
  PROVE  KeyInv'
  <1> USE KeyAssumption DEF KeyInv, TypeOK, Adoptable, Unpinned, Selected,
     PinnedMaterial, ProcessesAgree, OneKeyUnlessMissed, OneKey, Used, OldRows, Open,
     Critical, Providers, Keys, NoKey, OldKey, Material,
     Goto, Returns, Gone, Select, files
  <1>1. ASSUME NEW p \in Process, Start(p) PROVE KeyInv'
    BY <1>1, SMT DEF Start
  <1>2. ASSUME NEW p \in Process, TakeLock(p) PROVE KeyInv'
    BY <1>2, SMT DEF TakeLock
  <1>3. ASSUME NEW p \in Process, ReadMarker(p) PROVE KeyInv'
    BY <1>3, SMT DEF ReadMarker
  <1>4. ASSUME NEW p \in Process, UsePinned(p) PROVE KeyInv'
    BY <1>4, SMT DEF UsePinned
  <1>5. ASSUME NEW p \in Process, PinnedFails(p) PROVE KeyInv'
    BY <1>5, SMT DEF PinnedFails
  <1>6. ASSUME NEW p \in Process, Adopt(p) PROVE KeyInv'
    BY <1>6, SMT DEF Adopt
  <1>7. ASSUME NEW p \in Process, NothingToAdopt(p) PROVE KeyInv'
    BY <1>7, SMT DEF NothingToAdopt
  <1>8. ASSUME NEW p \in Process, FirstUse(p) PROVE KeyInv'
    BY <1>8, SMT DEF FirstUse
  <1>9. ASSUME NEW p \in Process, KeyringHasKey(p) PROVE KeyInv'
    BY <1>9, SMT DEF KeyringHasKey
  <1>10. ASSUME NEW p \in Process, KeyringHasNone(p) PROVE KeyInv'
    BY <1>10, SMT DEF KeyringHasNone
  <1>11. ASSUME NEW p \in Process, KeyringSet(p) PROVE KeyInv'
    BY <1>11, SMT DEF KeyringSet
  <1>12. ASSUME NEW p \in Process, KeyringUnavailable(p) PROVE KeyInv'
    <2>1. CASE UNCHANGED <<keyring, made>>
      BY <1>12, <2>1, SMT DEF KeyringUnavailable
    <2>2. CASE ~UNCHANGED <<keyring, made>>
      <3>1. made \in Nat /\ made + 1 \in Keys /\ made' = made + 1 /\ keyring' = made + 1
        BY <1>12, <2>2, SMT DEF KeyringUnavailable
      <3>2. Used' = {} /\ marker' = "none" /\ (~legacy \/ missed)
        BY <1>12, SMT DEF KeyringUnavailable
      <3> QED BY <1>12, <3>1, <3>2, SMT DEF KeyringUnavailable
    <2> QED BY <2>1, <2>2
  <1>13. ASSUME NEW p \in Process, LocalHasKey(p) PROVE KeyInv'
    BY <1>13, SMT DEF LocalHasKey
  <1>14. ASSUME NEW p \in Process, LocalCreate(p) PROVE KeyInv'
    BY <1>14, SMT DEF LocalCreate
  <1>15. ASSUME NEW p \in Process, Persist(p) PROVE KeyInv'
    BY <1>15, SMT DEF Persist
  <1>16. ASSUME NEW p \in Process, Encrypt(p) PROVE KeyInv'
    <2>1. key[p] \in Used /\ Used' = Used
      BY <1>16 DEF Encrypt
    <2>2. data' \subseteq Keys
      BY <1>16 DEF Encrypt
    <2>3. TypeOK'
      BY <1>16, <2>2 DEF Encrypt
    <2> HIDE DEF Used, TypeOK
    <2> QED BY <1>16, <2>1, <2>3, SMT DEF Encrypt
  <1>17. ASSUME NEW p \in Process, Fails(p) PROVE KeyInv'
    BY <1>17, SMT DEF Fails
  <1>18. ASSUME LoseKey PROVE KeyInv'
    <2>1. Used' = Used /\ OldRows' = OldRows
      BY <1>18 DEF LoseKey
    <2> HIDE DEF Used, OldRows
    <2> QED BY <1>18, <2>1, SMT DEF LoseKey
  <1>19. ASSUME UNCHANGED vars PROVE KeyInv'
    BY <1>19, SMT DEF vars
  <1> HIDE DEF KeyInv
  <1> QED
    BY <1>1, <1>2, <1>3, <1>4, <1>5, <1>6, <1>7, <1>8, <1>9, <1>10, <1>11, <1>12, <1>13,
       <1>14, <1>15, <1>16, <1>17, <1>18, <1>19, SMT DEF Next

-----------------------------------------------------------------------------
\* The invariant, by induction over the steps.
THEOREM Invariance == Spec => []KeyInv
  <1>1. KeyInv /\ [Next]_vars => KeyInv'
    BY StepInv
  <1> QED BY InitInv, <1>1, PTL DEF Spec

\* The lock excludes and every way out of get_key releases it.
THEOREM TypeCorrect == Spec => []TypeOK
  <1>1. KeyInv => TypeOK
    BY DEF KeyInv
  <1> QED BY Invariance, <1>1, PTL

\* Any processes, dying anywhere, with a keychain that fails at any moment, open
\* the database, and write its rows, with one key.
THEOREM OneKeyForAll == Spec => []ProcessesAgree
  <1>1. KeyInv => ProcessesAgree
    BY DEF KeyInv
  <1> QED BY Invariance, <1>1, PTL

\* The rows of an early release have that key too, unless some process missed it
\* before a provider was pinned.
THEOREM OldRowsReadable == Spec => []OneKeyUnlessMissed
  <1>1. KeyInv => OneKeyUnlessMissed
    BY DEF KeyInv
  <1> QED BY Invariance, <1>1, PTL

\* Once there is a marker no step changes it and none generates a key.
LEMMA StepPinned ==
  ASSUME KeyInv, [Next]_vars, marker # "none"
  PROVE  marker' = marker /\ made' = made
  <1>1. \A p \in Process : pc[p] \notin Critical \ {"choice", "pinned"}
    BY DEF KeyInv, Unpinned
  <1> QED
    BY <1>1 DEF Next, vars, files, Critical, Start, TakeLock, ReadMarker, UsePinned,
       PinnedFails, Adopt, NothingToAdopt, FirstUse, KeyringHasKey, KeyringHasNone,
       KeyringSet, KeyringUnavailable, LocalHasKey, LocalCreate, Persist, Encrypt, Fails,
       LoseKey

THEOREM StaysPinned == Spec => PinnedForever
  <1>1. KeyInv /\ [Next]_vars => [marker # "none" => marker' = marker /\ made' = made]_vars
    BY StepPinned
  <1> QED BY Invariance, <1>1, PTL DEF Spec, PinnedForever
=============================================================================
