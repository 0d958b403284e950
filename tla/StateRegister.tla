---------------------------- MODULE StateRegister ----------------------------
(***************************************************************************)
(* What StateStore promises the commands that share state.json: one value, *)
(* changed by one call at a time, whole or not at all, and a call that     *)
(* returns has changed it.  The value is the set of the calls it reflects: *)
(* an update adds to it, a write replaces it, and {} is the initial state, *)
(* which is also what a missing file reads as.                             *)
(***************************************************************************)
CONSTANTS Updates,  \* the calls of StateStore.update and StateStore.write
          Writes,   \* those of StateStore.write
          Readers   \* the callers of StateStore.read

VARIABLES value,    \* the state
          phase,    \* of each call: pending, applied, ok, raised
          seen      \* what each reader read last

regVars == <<value, phase, seen>>

Result(u, v) == IF u \in Writes THEN {u} ELSE v \union {u}

RegInit ==
    /\ value = {}
    /\ phase = [u \in Updates |-> "pending"]
    /\ seen = [r \in Readers |-> {}]

Apply(u) ==
    /\ phase[u] = "pending"
    /\ value' = Result(u, value)
    /\ phase' = [phase EXCEPT ![u] = "applied"]
    /\ UNCHANGED seen

(* A call that has taken effect may still raise, if its lock cannot be     *)
(* released; one that has not raises.                                      *)
Return(u) ==
    /\ phase[u] = "applied"
    /\ \E o \in {"ok", "raised"} : phase' = [phase EXCEPT ![u] = o]
    /\ UNCHANGED <<value, seen>>

Refuse(u) ==
    /\ phase[u] = "pending"
    /\ phase' = [phase EXCEPT ![u] = "raised"]
    /\ UNCHANGED <<value, seen>>

ReadValue(r) ==
    /\ seen' = [seen EXCEPT ![r] = value]
    /\ UNCHANGED <<value, phase>>

RegNext ==
    \/ \E u \in Updates : Apply(u) \/ Return(u) \/ Refuse(u)
    \/ \E r \in Readers : ReadValue(r)

RegSpec == RegInit /\ [][RegNext]_regVars
=============================================================================
