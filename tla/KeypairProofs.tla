--------------------------- MODULE KeypairProofs ---------------------------
(***************************************************************************)
(* What TLAPS proves of KeypairStore, for any number of calls and keys.    *)
(***************************************************************************)
EXTENDS KeypairStore, TLAPS

(* What a call holds it has generated, and what is in the vault, or was       *)
(* handed out, was saved.                                                     *)
SavedInv == /\ stored \in Key => stored \in everStored
            /\ \A p \in Call : phase[p] = "set" => mine[p] \in Key
            /\ HandedKeyWasStored

(* In series: between the miss and the write the entry stays missing, and     *)
(* every key handed out is the entry.                                         *)
SerialInv == serial => /\ vaultUp
                       /\ \A p, q \in Call : Running(p) /\ Running(q) => p = q
                       /\ \A p \in Call : phase[p] = "set" => stored = NoKey
                       /\ \A p \in Call : handed[p] # NoKey => handed[p] = stored

(* Every variable keeps its type.                                             *)
LEMMA TypeStep == TypeOK /\ SavedInv /\ [Next]_vars => TypeOK'
  <1>. SUFFICES ASSUME TypeOK, SavedInv, [Next]_vars PROVE TypeOK' OBVIOUS
  <1>. USE KeySentinels DEF TypeOK, SavedInv
  <1>1. ASSUME NEW p \in Call, Begin(p) PROVE TypeOK'
    BY <1>1 DEF Begin, Go
  <1>2. ASSUME NEW p \in Call, Hit(p) PROVE TypeOK'
    BY <1>2 DEF Hit, Go
  <1>3. ASSUME NEW p \in Call, GetFails(p) PROVE TypeOK'
    BY <1>3 DEF GetFails, Go
  <1>4. ASSUME NEW p \in Call, NEW k \in Key, Generate(p, k) PROVE TypeOK'
    BY <1>4 DEF Generate, Missing, Go
  <1>5. ASSUME NEW p \in Call, SetOK(p) PROVE TypeOK'
    BY <1>5 DEF SetOK, Go
  <1>6. ASSUME NEW p \in Call, SetFails(p) PROVE TypeOK'
    BY <1>6 DEF SetFails, Go
  <1>7. ASSUME NEW p \in Call, Killed(p) PROVE TypeOK'
    BY <1>7 DEF Killed, Running, Go
  <1>8. CASE VaultToggles
    BY <1>8 DEF VaultToggles
  <1>9. CASE AllDone
    BY <1>9 DEF AllDone, vars
  <1>10. CASE UNCHANGED vars
    BY <1>10 DEF vars
  <1>. QED
    BY <1>1, <1>2, <1>3, <1>4, <1>5, <1>6, <1>7, <1>8, <1>9, <1>10 DEF Next

(* No step hands out, or leaves in the vault, a key that was not saved.       *)
LEMMA SavedStep == TypeOK /\ SavedInv /\ [Next]_vars => SavedInv'
  <1>. SUFFICES ASSUME TypeOK, SavedInv, [Next]_vars PROVE SavedInv' OBVIOUS
  <1>. USE KeySentinels DEF TypeOK, SavedInv, HandedKeyWasStored
  <1>1. ASSUME NEW p \in Call, Begin(p) PROVE SavedInv'
    BY <1>1 DEF Begin, Go
  <1>2. ASSUME NEW p \in Call, Hit(p) PROVE SavedInv'
    BY <1>2 DEF Hit, Go
  <1>3. ASSUME NEW p \in Call, GetFails(p) PROVE SavedInv'
    BY <1>3 DEF GetFails, Go
  <1>4. ASSUME NEW p \in Call, NEW k \in Key, Generate(p, k) PROVE SavedInv'
    BY <1>4 DEF Generate, Missing, Go
  <1>5. ASSUME NEW p \in Call, SetOK(p) PROVE SavedInv'
    BY <1>5 DEF SetOK, Go
  <1>6. ASSUME NEW p \in Call, SetFails(p) PROVE SavedInv'
    BY <1>6 DEF SetFails, Go
  <1>7. ASSUME NEW p \in Call, Killed(p) PROVE SavedInv'
    BY <1>7 DEF Killed, Running, Go
  <1>8. CASE VaultToggles
    BY <1>8 DEF VaultToggles
  <1>9. CASE AllDone
    BY <1>9 DEF AllDone, vars
  <1>10. CASE UNCHANGED vars
    BY <1>10 DEF vars
  <1>. QED
    BY <1>1, <1>2, <1>3, <1>4, <1>5, <1>6, <1>7, <1>8, <1>9, <1>10 DEF Next

(* In series no step comes between a miss and its write.                      *)
LEMMA SerialStep == TypeOK /\ SavedInv /\ SerialInv /\ [Next]_vars => SerialInv'
  <1>. SUFFICES ASSUME TypeOK, SavedInv, SerialInv, [Next]_vars PROVE SerialInv' OBVIOUS
  <1>. USE KeySentinels DEF TypeOK, SavedInv, SerialInv, Running
  <1>1. ASSUME NEW p \in Call, Begin(p) PROVE SerialInv'
    BY <1>1 DEF Begin, Go
  <1>2. ASSUME NEW p \in Call, Hit(p) PROVE SerialInv'
    BY <1>2 DEF Hit, Go
  <1>3. ASSUME NEW p \in Call, GetFails(p) PROVE SerialInv'
    BY <1>3 DEF GetFails, Go
  <1>4. ASSUME NEW p \in Call, NEW k \in Key, Generate(p, k) PROVE SerialInv'
    BY <1>4 DEF Generate, Missing, Go
  <1>5. ASSUME NEW p \in Call, SetOK(p) PROVE SerialInv'
    BY <1>5 DEF SetOK, Go
  <1>6. ASSUME NEW p \in Call, SetFails(p) PROVE SerialInv'
    BY <1>6 DEF SetFails, Go
  <1>7. ASSUME NEW p \in Call, Killed(p) PROVE SerialInv'
    BY <1>7 DEF Killed, Running, Go
  <1>8. CASE VaultToggles
    BY <1>8 DEF VaultToggles
  <1>9. CASE AllDone
    BY <1>9 DEF AllDone, vars
  <1>10. CASE UNCHANGED vars
    BY <1>10 DEF vars
  <1>. QED
    BY <1>1, <1>2, <1>3, <1>4, <1>5, <1>6, <1>7, <1>8, <1>9, <1>10 DEF Next

(* The types and the savedness of keys hold together.                         *)
LEMMA SavedInvariant == Spec => [](TypeOK /\ SavedInv)
  <1>1. Init => TypeOK /\ SavedInv
    BY KeySentinels DEF Init, TypeOK, SavedInv, HandedKeyWasStored
  <1>. QED
    BY <1>1, TypeStep, SavedStep, PTL DEF Spec

(* Calls in series keep their invariant.                                      *)
LEMMA SerialInvariant == Spec => [](TypeOK /\ SerialInv)
  <1>1. Init => SerialInv
    BY KeySentinels DEF Init, SerialInv, Running
  <1>. QED
    BY <1>1, SerialStep, SavedInvariant, PTL DEF Spec

(* Every variable of the keypair calls keeps its type.                        *)
THEOREM TypeCorrect == Spec => []TypeOK
  BY SavedInvariant, PTL

(* No call of loadOrCreateKeypair returns a key that it failed to save.       *)
THEOREM HandedIsStored == Spec => []HandedKeyWasStored
  BY SavedInvariant, PTL DEF SavedInv

(* Calls in series return one key.                                            *)
THEOREM SerialOneKeypair == Spec => []OneKeypairInSeries
  <1>1. TypeOK /\ SerialInv => OneKeypairInSeries
    BY KeySentinels DEF TypeOK, SerialInv, OneKeypairInSeries
  <1>. QED
    BY <1>1, SerialInvariant, PTL

(* Calls in series replace no entry, whether it is a key or cannot be read.   *)
THEOREM SerialEntryKept == Spec => EntryKeptInSeries
  <1>1. TypeOK /\ SerialInv /\ [Next]_vars => [serial /\ stored # NoKey => stored' = stored]_vars
    BY KeySentinels
       DEF TypeOK, SerialInv, Next, Begin, Hit, GetFails, Generate, SetOK, SetFails, Killed,
           VaultToggles, AllDone, Go, vars
  <1>. QED
    BY <1>1, SerialInvariant, PTL DEF Spec, EntryKeptInSeries
=============================================================================
