--------------------------- MODULE MCSharedFiles ----------------------------
(* What several processes share a lock for: FinalizationLock and BackupJobs *)
(* side by side.  They share no state here; a behaviour is one of a part.  *)
EXTENDS FinalizationLock, BackupJobs, TLC

CONSTANTS p1, p2, j1, j2, t1, t2

VARIABLES
    part    \* the module a behaviour is one of



allVars == <<part, vars, backupVars>>

\* A part that a behaviour is not about stays in one initial state.
AllInit ==
    /\ part \in {"lock", "backup"}
    /\ Init /\ (part = "lock" \/ path = NoFile)
    /\ BackupInit /\ (part = "backup" \/ \A j \in Jobs : jobTarget[j] = t1)

AllNext ==
    /\ UNCHANGED part
    /\ IF part = "lock" THEN Next ELSE UNCHANGED vars
    /\ IF part = "backup" THEN BackupNext ELSE UNCHANGED backupVars

AllSpec == AllInit /\ [][AllNext]_allVars
-----------------------------------------------------------------------------
\* Two commands, or two jobs, change places, and so do the targets.
Swap == (p1 :> p2) @@ (p2 :> p1) @@ (j1 :> j2) @@ (j2 :> j1)
Exchange == (t1 :> t2) @@ (t2 :> t1)
Symmetry ==
    {[x \in DOMAIN Swap |-> IF swapped THEN Swap[x] ELSE x]
         @@ [t \in DOMAIN Exchange |-> IF exchanged THEN Exchange[t] ELSE t] :
     swapped, exchanged \in BOOLEAN}
=============================================================================
