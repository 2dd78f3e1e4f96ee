--------------------------- MODULE SignInAttempt ---------------------------
(***************************************************************************)
(* What one run of `weft-loom-app-osx --sign-in` promises the tray that    *)
(* spawned it and waits for it: sessions may be written to the vault while *)
(* the attempt runs, the attempt ends once, it can only name as its result *)
(* a session that it has written, and nothing is written after it ended.   *)
(* LoginWindow implements this.                                            *)
(***************************************************************************)
CONSTANT Token            \* the sessions the attempt may obtain

VARIABLES slot,           \* what the vault holds for the account
          stored,         \* every session the attempt has written
          outcome         \* "running" until the process has ended

attemptVars == <<slot, stored, outcome>>

Initial == {"absent", "stale"}              \* a usable session needs no window
NoSession == {"unset", "error", "crash"}    \* the endings that name no session

Init == /\ slot \in Initial
        /\ stored = {}
        /\ outcome = "running"

(* A flow saves the session it obtained; the last writer owns the slot. *)
Persist(t) == /\ outcome = "running"
              /\ slot' = t
              /\ stored' = stored \union {t}
              /\ UNCHANGED outcome

(* The process ends, with a session only if that session was written. *)
End(o) == /\ outcome = "running"
          /\ o \in NoSession \union stored
          /\ outcome' = o
          /\ UNCHANGED <<slot, stored>>

Next == \/ \E t \in Token : Persist(t)
        \/ \E o \in NoSession \union Token : End(o)

Spec == Init /\ [][Next]_attemptVars
=============================================================================
