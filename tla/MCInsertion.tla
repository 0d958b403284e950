---------------------------- MODULE MCInsertion -----------------------------
(* From the transcript to its target: ClipboardInsertion and Finalization, *)
(* side by side.  They share no state here; a behaviour is one of a part.  *)
EXTENDS ClipboardInsertion, Finalization, TLC

CONSTANTS i1, i2

MCText == [p \in {i1, i2} |-> "text"]
MCArtifacts == {"audio", "log"}
MCAudio == "audio"

VARIABLES
    part    \* the module a behaviour is one of

allVars == <<part, insertVars, vars>>

\* A part that a behaviour is not about stays in one initial state.
AllInit ==
    /\ part \in {"insert", "finalize"}
    /\ InsertInit /\ (part = "insert" \/ (windowless = {} /\ lockFile = NoLock /\ lockTime = 0))
    /\ Init

AllNext ==
    /\ UNCHANGED part
    /\ IF part = "insert" THEN InsertNext ELSE UNCHANGED insertVars
    /\ IF part = "finalize" THEN Next ELSE UNCHANGED vars

AllSpec == AllInit /\ [][AllNext]_allVars
-----------------------------------------------------------------------------
\* The two that insert change places.
Swap == (i1 :> i2) @@ (i2 :> i1)
Symmetry == {[x \in DOMAIN Swap |-> IF swapped THEN Swap[x] ELSE x] : swapped \in BOOLEAN}

\* The variables of each module have the values it says.
InsertionTypesOK ==
    CASE part = "insert" -> InsertTypeOK
      [] part = "finalize" -> TypeOK
=============================================================================
