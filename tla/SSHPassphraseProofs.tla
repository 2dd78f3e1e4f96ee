------------------------ MODULE SSHPassphraseProofs ------------------------
(***************************************************************************)
(* What TLAPS proves of SSHPassphrase, for any number of runs, trays and   *)
(* passphrases.                                                            *)
(***************************************************************************)
EXTENDS SSHPassphrase, TLAPS

(* A run past its prompt has something to store, and a run that stands by its *)
(* report has left an entry: that entry is what refuses the next add.         *)
StandingInv == /\ \A w \in Store : step[w] \in {"delete", "access", "add"} => typed[w] \in Passphrase
               /\ \A w \in standing : step[w] = "stored"
               /\ standing # {} => entry # NoEntry
               /\ SuccessReplaced

(* Every variable keeps its type.                                             *)
LEMMA TypeStep == TypeOK /\ StandingInv /\ [Next]_vars => TypeOK'
  <1>. SUFFICES ASSUME TypeOK, StandingInv, [Next]_vars PROVE TypeOK' OBVIOUS
  <1>. USE NoEntryOutside DEF TypeOK, StandingInv, Item
  <1>1. ASSUME NEW w \in Store, NEW p \in Passphrase, Type(w, p) PROVE TypeOK'
    BY <1>1 DEF Type, Reach
  <1>2. ASSUME NEW w \in Store, TypeNothing(w) PROVE TypeOK'
    BY <1>2 DEF TypeNothing, Reach
  <1>3. ASSUME NEW w \in Store, PromptFails(w) PROVE TypeOK'
    BY <1>3 DEF PromptFails, Reach
  <1>4. ASSUME NEW w \in Store, Delete(w) PROVE TypeOK'
    BY <1>4 DEF Delete, Reach
  <1>5. ASSUME NEW w \in Store, AccessOK(w) PROVE TypeOK'
    BY <1>5 DEF AccessOK, Reach
  <1>6. ASSUME NEW w \in Store, AccessFails(w) PROVE TypeOK'
    BY <1>6 DEF AccessFails, Reach
  <1>7. ASSUME NEW w \in Store, AddOK(w) PROVE TypeOK'
    BY <1>7 DEF AddOK, Reach
  <1>8. ASSUME NEW w \in Store, AddFails(w) PROVE TypeOK'
    BY <1>8 DEF AddFails, Reach
  <1>9. ASSUME NEW w \in Store, Killed(w) PROVE TypeOK'
    BY <1>9 DEF Killed, Reach
  <1>10. ASSUME NEW t \in Tray, Get(t) PROVE TypeOK'
    BY <1>10 DEF Get
  <1>11. ASSUME NEW t \in Tray, GetFails(t) PROVE TypeOK'
    BY <1>11 DEF GetFails
  <1>12. CASE LockToggles
    BY <1>12 DEF LockToggles
  <1>13. CASE UNCHANGED vars
    BY <1>13 DEF vars
  <1>. QED
    BY <1>1, <1>2, <1>3, <1>4, <1>5, <1>6, <1>7, <1>8, <1>9, <1>10, <1>11, <1>12, <1>13 DEF Next

(* Only a delete ends a run's standing, and only an add after a delete        *)
(* begins it.                                                                 *)
LEMMA StandingStep == TypeOK /\ StandingInv /\ [Next]_vars => StandingInv'
  <1>. SUFFICES ASSUME TypeOK, StandingInv, [Next]_vars PROVE StandingInv' OBVIOUS
  <1>. USE NoEntryOutside DEF TypeOK, StandingInv, SuccessReplaced, Item
  <1>1. ASSUME NEW w \in Store, NEW p \in Passphrase, Type(w, p) PROVE StandingInv'
    BY <1>1 DEF Type, Reach
  <1>2. ASSUME NEW w \in Store, TypeNothing(w) PROVE StandingInv'
    BY <1>2 DEF TypeNothing, Reach
  <1>3. ASSUME NEW w \in Store, PromptFails(w) PROVE StandingInv'
    BY <1>3 DEF PromptFails, Reach
  <1>4. ASSUME NEW w \in Store, Delete(w) PROVE StandingInv'
    BY <1>4 DEF Delete, Reach
  <1>5. ASSUME NEW w \in Store, AccessOK(w) PROVE StandingInv'
    BY <1>5 DEF AccessOK, Reach
  <1>6. ASSUME NEW w \in Store, AccessFails(w) PROVE StandingInv'
    BY <1>6 DEF AccessFails, Reach
  <1>7. ASSUME NEW w \in Store, AddOK(w) PROVE StandingInv'
    BY <1>7 DEF AddOK, Reach
  <1>8. ASSUME NEW w \in Store, AddFails(w) PROVE StandingInv'
    BY <1>8 DEF AddFails, Reach
  <1>9. ASSUME NEW w \in Store, Killed(w) PROVE StandingInv'
    BY <1>9 DEF Killed, Reach
  <1>10. ASSUME NEW t \in Tray, Get(t) PROVE StandingInv'
    BY <1>10 DEF Get
  <1>11. ASSUME NEW t \in Tray, GetFails(t) PROVE StandingInv'
    BY <1>11 DEF GetFails
  <1>12. CASE LockToggles
    BY <1>12 DEF LockToggles
  <1>13. CASE UNCHANGED vars
    BY <1>13 DEF vars
  <1>. QED
    BY <1>1, <1>2, <1>3, <1>4, <1>5, <1>6, <1>7, <1>8, <1>9, <1>10, <1>11, <1>12, <1>13 DEF Next

(* The types and the standing of reports hold together.                       *)
LEMMA StandingInvariant == Spec => [](TypeOK /\ StandingInv)
  <1>1. Init => TypeOK /\ StandingInv
    BY NoEntryOutside DEF Init, TypeOK, StandingInv, SuccessReplaced, Item
  <1>. QED
    BY <1>1, TypeStep, StandingStep, PTL DEF Spec

(* Every variable of the Keychain entry and its processes keeps its type.     *)
THEOREM TypeCorrect == Spec => []TypeOK
  BY StandingInvariant, PTL

(* A run of --store-ssh-passphrase that reports success has replaced the      *)
(* entry, whatever became of its delete and of other runs.                    *)
THEOREM SuccessIsReplacement == Spec => []SuccessReplaced
  BY StandingInvariant, PTL DEF StandingInv
=============================================================================
