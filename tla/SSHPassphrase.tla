--------------------------- MODULE SSHPassphrase ---------------------------
(***************************************************************************)
(* The Keychain entry that holds the passphrase of one SSH key             *)
(* (ssh_passphrase_darwin.go).  --store-ssh-passphrase replaces it, each   *)
(* time in a process of its own, by a delete and an add; trays read it     *)
(* when they start.  Nothing but the Keychain orders these processes.      *)
(***************************************************************************)
CONSTANTS Store,        \* runs of --store-ssh-passphrase
          Tray,         \* trays that load the key
          Passphrase,   \* what a user types
          NoEntry       \* no item in the Keychain, nothing typed

ASSUME NoEntryOutside == NoEntry \notin Passphrase \union {"asking", "error"}

VARIABLES entry,      \* the Keychain item
          unlocked,   \* the Keychain serves requests
          step,       \* where each run of the store command is
          typed,      \* what its user typed
          standing,   \* runs that reported success with no delete since
          read        \* what each tray got; sshPassphraseGet returns nil for NoEntry

vars == <<entry, unlocked, step, typed, standing, read>>

Item == Passphrase \union {NoEntry}

TypeOK == /\ entry \in Item
          /\ unlocked \in BOOLEAN
          /\ step \in [Store -> {"prompt", "delete", "access", "add", "stored", "failed", "panic"}]
          /\ typed \in [Store -> Item]
          /\ standing \subseteq Store
          /\ read \in [Tray -> Item \union {"asking", "error"}]

Init == /\ entry \in Item /\ unlocked = TRUE
        /\ step = [w \in Store |-> "prompt"] /\ typed = [w \in Store |-> NoEntry]
        /\ standing = {}
        /\ read = [t \in Tray |-> "asking"]

Reach(w, s) == step' = [step EXCEPT ![w] = s]

Type(w, p) ==
  /\ step[w] = "prompt"
  /\ typed' = [typed EXCEPT ![w] = p] /\ Reach(w, "delete")
  /\ UNCHANGED <<entry, unlocked, standing, read>>

(* The user just presses return: &passphrase[0] is evaluated before the       *)
(* length is looked at.                                                       *)
TypeNothing(w) ==
  /\ step[w] = "prompt"
  /\ Reach(w, "panic")
  /\ UNCHANGED <<entry, unlocked, typed, standing, read>>

(* Mutant of PromptFails: what could be read is stored in spite of the error.  *)
PromptErrorIgnored(w) ==
  /\ step[w] = "prompt"
  /\ typed' = [typed EXCEPT ![w] = "error"] /\ Reach(w, "delete")
  /\ UNCHANGED <<entry, unlocked, standing, read>>

(* No terminal, or no such key file: nothing has been touched.                *)
PromptFails(w) ==
  /\ step[w] = "prompt"
  /\ Reach(w, "failed")
  /\ UNCHANGED <<entry, unlocked, typed, standing, read>>

(* sshKCSet throws the status of SecItemDelete away.                          *)
Delete(w) ==
  /\ step[w] = "delete" /\ Reach(w, "access")
  /\ IF unlocked THEN entry' = NoEntry /\ standing' = {}
                 ELSE UNCHANGED <<entry, standing>>
  /\ UNCHANGED <<unlocked, typed, read>>

AccessOK(w) ==
  /\ step[w] = "access"
  /\ Reach(w, "add")
  /\ UNCHANGED <<entry, unlocked, typed, standing, read>>

(* No access control can be made; the old entry is gone already.              *)
AccessFails(w) ==
  /\ step[w] = "access"
  /\ Reach(w, "failed")
  /\ UNCHANGED <<entry, unlocked, typed, standing, read>>

AddOK(w) ==
  /\ step[w] = "add" /\ unlocked /\ entry = NoEntry
  /\ entry' = typed[w]
  /\ Reach(w, "stored") /\ standing' = standing \union {w}
  /\ UNCHANGED <<unlocked, typed, read>>

(* Mutant of AddFails: errSecDuplicateItem is taken for success.               *)
DuplicateIgnored(w) ==
  /\ step[w] = "add" /\ unlocked /\ entry # NoEntry
  /\ Reach(w, "stored") /\ standing' = standing \union {w}
  /\ UNCHANGED <<entry, unlocked, typed, read>>

(* The Keychain is locked; or errSecDuplicateItem, because the delete failed  *)
(* or another run has added its entry since.                                  *)
AddFails(w) ==
  /\ step[w] = "add" /\ (~unlocked \/ entry # NoEntry)
  /\ Reach(w, "failed")
  /\ UNCHANGED <<entry, unlocked, typed, standing, read>>

Killed(w) ==
  /\ step[w] \in {"delete", "access", "add"}
  /\ Reach(w, "failed")
  /\ UNCHANGED <<entry, unlocked, typed, standing, read>>

Get(t) ==
  /\ read[t] = "asking" /\ unlocked
  /\ read' = [read EXCEPT ![t] = entry]
  /\ UNCHANGED <<entry, unlocked, step, typed, standing>>

(* The user dismisses the prompt, or the Keychain is locked.                  *)
GetFails(t) ==
  /\ read[t] = "asking"
  /\ read' = [read EXCEPT ![t] = "error"]
  /\ UNCHANGED <<entry, unlocked, step, typed, standing>>

LockToggles ==
  /\ unlocked' = ~unlocked
  /\ UNCHANGED <<entry, step, typed, standing, read>>

Next == \/ \E w \in Store :
             \/ \E p \in Passphrase : Type(w, p)
             \/ TypeNothing(w) \/ PromptFails(w)
             \/ Delete(w)
             \/ AccessOK(w) \/ AccessFails(w)
             \/ AddOK(w) \/ AddFails(w)
             \/ Killed(w)
        \/ \E t \in Tray : Get(t) \/ GetFails(t)
        \/ LockToggles

Spec == Init /\ [][Next]_vars

---------------------------------------------------------------------------
(* A run that says "passphrase cached in Keychain" has replaced the entry,    *)
(* although it never looks at how its delete went: until the next delete, the *)
(* entry is what its user typed, and no other run says the same.              *)
SuccessReplaced == \A w \in standing : entry = typed[w] /\ standing = {w}
=============================================================================
