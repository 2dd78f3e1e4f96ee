---------------------------- MODULE KeypairStore ----------------------------
(***************************************************************************)
(* The dev keypair of one vault account (loadOrCreateKeypair in            *)
(* auth_keypair.go over keypair.go): its calls come from different         *)
(* processes, the sign-in window's keypair flow and --print-pubkey, which  *)
(* share nothing but the vault.  A call reads the entry and, on a miss,    *)
(* generates a pair and writes it.                                         *)
(***************************************************************************)
EXTENDS FiniteSets

CONSTANTS Call,          \* calls of loadOrCreateKeypair, each in a process of its own
          Key,           \* private keys
          NoKey,         \* no entry, or no key in hand
          Damaged        \* an entry of a wrong length

ASSUME KeySentinels == {NoKey, Damaged} \intersect Key = {} /\ NoKey # Damaged

VARIABLES stored,       \* the entry of the account
          everStored,   \* every key that was ever its value
          vaultUp,
          generated,    \* the keys generated so far
          phase,        \* where each call is: "idle", "get", "set", "done", "failed"
          mine,         \* the key a call has generated
          handed,       \* the key a call has returned
          serial        \* no two calls have overlapped and the vault has always answered

vars == <<stored, everStored, vaultUp, generated, phase, mine, handed, serial>>

TypeOK == /\ stored \in Key \union {NoKey, Damaged}
          /\ everStored \subseteq Key
          /\ vaultUp \in BOOLEAN
          /\ generated \subseteq Key
          /\ phase \in [Call -> {"idle", "get", "set", "done", "failed"}]
          /\ mine \in [Call -> Key \union {NoKey}]
          /\ handed \in [Call -> Key \union {NoKey}]
          /\ serial \in BOOLEAN

Init == /\ stored \in {NoKey, Damaged}
        /\ everStored = {} /\ generated = {}
        /\ vaultUp = TRUE
        /\ phase = [p \in Call |-> "idle"]
        /\ mine = [p \in Call |-> NoKey]
        /\ handed = [p \in Call |-> NoKey]
        /\ serial = TRUE

Running(p) == phase[p] \in {"get", "set"}
Go(p, s) == phase' = [phase EXCEPT ![p] = s]

Begin(p) ==
  /\ phase[p] = "idle"
  /\ Go(p, "get")
  /\ serial' = (serial /\ \A q \in Call : ~Running(q))
  /\ UNCHANGED <<stored, everStored, vaultUp, generated, mine, handed>>

(* Get finds a key: it is returned as it is.                                  *)
Hit(p) ==
  /\ phase[p] = "get" /\ vaultUp /\ stored \in Key
  /\ handed' = [handed EXCEPT ![p] = stored] /\ Go(p, "done")
  /\ UNCHANGED <<stored, everStored, vaultUp, generated, mine, serial>>

(* Mutant of GetFails: the length of the entry is not looked at.              *)
LengthUnchecked(p) ==
  /\ phase[p] = "get" /\ vaultUp /\ stored = Damaged
  /\ handed' = [handed EXCEPT ![p] = stored] /\ Go(p, "done")
  /\ UNCHANGED <<stored, everStored, vaultUp, generated, mine, serial>>

(* Get reports a damaged entry; the call ends with the error.                 *)
GetFails(p) ==
  /\ phase[p] = "get" /\ vaultUp /\ stored = Damaged
  /\ Go(p, "failed")
  /\ UNCHANGED <<stored, everStored, vaultUp, generated, mine, handed, serial>>

(* Mutant of Missing: an entry of a wrong length is read as no entry.          *)
MissingOrDamaged == ~vaultUp \/ stored \in {NoKey, Damaged}
(* Mutant of Missing: the entry is not looked at.                              *)
AlwaysMissing == TRUE

(* What Get reads as no entry: errVaultNotFound and errVaultUnavailable.      *)
Missing == ~vaultUp \/ stored = NoKey

(* On a miss the call generates a pair.                                       *)
Generate(p, k) ==
  /\ phase[p] = "get" /\ Missing /\ k \in Key \ generated
  /\ generated' = generated \union {k}
  /\ mine' = [mine EXCEPT ![p] = k] /\ Go(p, "set")
  /\ UNCHANGED <<stored, everStored, vaultUp, handed, serial>>

SetOK(p) ==
  /\ phase[p] = "set" /\ vaultUp
  /\ stored' = mine[p] /\ everStored' = everStored \union {mine[p]}
  /\ handed' = [handed EXCEPT ![p] = mine[p]] /\ Go(p, "done")
  /\ UNCHANGED <<vaultUp, generated, mine, serial>>

(* Mutant of SetFails: the key is returned although it could not be saved.     *)
SetFailureIgnored(p) ==
  /\ phase[p] = "set" /\ ~vaultUp
  /\ handed' = [handed EXCEPT ![p] = mine[p]] /\ Go(p, "done")
  /\ UNCHANGED <<stored, everStored, vaultUp, generated, mine, serial>>

SetFails(p) ==
  /\ phase[p] = "set" /\ ~vaultUp
  /\ Go(p, "failed")
  /\ UNCHANGED <<stored, everStored, vaultUp, generated, mine, handed, serial>>

(* The process is killed between the read and the write.                      *)
Killed(p) ==
  /\ Running(p)
  /\ Go(p, "failed")
  /\ UNCHANGED <<stored, everStored, vaultUp, generated, mine, handed, serial>>

VaultToggles ==
  /\ vaultUp' = ~vaultUp /\ serial' = FALSE
  /\ UNCHANGED <<stored, everStored, generated, phase, mine, handed>>

AllDone == (\A p \in Call : phase[p] \in {"done", "failed"}) /\ UNCHANGED vars

Next == \/ \E p \in Call : \/ Begin(p) \/ Hit(p) \/ GetFails(p)
                           \/ \E k \in Key : Generate(p, k)
                           \/ SetOK(p) \/ SetFails(p) \/ Killed(p)
        \/ VaultToggles
        \/ AllDone

Spec == Init /\ [][Next]_vars

---------------------------------------------------------------------------
(* No call returns a key that it failed to save: the operator never registers *)
(* a public key whose private half is lost at the end of the process.         *)
HandedKeyWasStored == \A p \in Call : handed[p] # NoKey => handed[p] \in everStored

(* "One keypair per cluster": as long as calls do not overlap and the vault   *)
(* answers, all that succeed return the same key, so the key --print-pubkey   *)
(* shows is the one that later signs.                                         *)
OneKeypairInSeries ==
  serial => \A p, q \in Call : {handed[p], handed[q]} \subseteq Key => handed[p] = handed[q]

(* ... and an entry, whether it can be read as a key or not, is not written   *)
(* over.                                                                      *)
EntryKeptInSeries == [][serial /\ stored # NoKey => stored' = stored]_vars

(* A new pair is persisted "on miss" only: a saved key is not replaced.       *)
KeyNotReplaced == [][(stored \in Key) => stored' = stored]_vars
=============================================================================
