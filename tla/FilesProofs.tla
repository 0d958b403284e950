---------------------------- MODULE FilesProofs ----------------------------
(***************************************************************************)
(* Proofs about the files that commands share, replace and rotate:         *)
(* StateStore, PassphraseKey, Transcription, LogFiles and ModelDownload,   *)
(* and about the supervisor of the RPM scriptlets, RpmLifecycle.  Each has *)
(* an inductive invariant of its own, and the theorems follow from it for  *)
(* any number of commands, of calls, of processes, of days and of failures.*)
(* CleanupProofs is about those that MCFiles takes by INSTANCE.            *)
(***************************************************************************)
EXTENDS StateStore, Transcription, LogFiles, PassphraseKey, RpmLifecycle,
        ModelDownload, Sequences, FiniteSetTheorems, TLAPS

-----------------------------------------------------------------------------
(* StateStore.  Whatever is killed and whatever undoing fails, the last    *)
(* state put in place keeps a name: one call at a time holds the lock, and *)
(* at each of its steps the invariant says which name that is (Place).     *)
(* Without kills and failures of the undoing, StateStore implements        *)
(* StateRegister: the state a call is about to write is always that of the *)
(* file it replaces and its own change (Planned).                          *)

(* One call at a time holds the lock, alone or with nobody reading, and    *)
(* the names of a write are those of the call that holds it.               *)
Excl ==
    /\ \A u \in Updates : pc[u] \in Holding <=> writer = {u}
    /\ \A u \in Updates : pc[u] \notin Holding => bak[u] = {} /\ quar[u] = {}
    /\ sharing # {} => writer = {}

(* Between writes: state.json is the last one put in place, or it has      *)
(* vanished and that one is among the debris.                              *)
AtRest == target = last \/ (target = {} /\ last \subseteq debris)

(* Where the last state put in place is at each step of a call.            *)
Place ==
    /\ writer = {} => AtRest
    /\ \A u \in Updates :
         /\ pc[u] \in {"locked", "stage", "link", "linked", "drop"} => AtRest
         /\ pc[u] \in {"locked", "stage", "link"} => bak[u] = {} /\ quar[u] = {}
         /\ pc[u] \in {"link", "linked", "drop"} => target # {}
         /\ pc[u] \in {"linked", "drop"} => bak[u] = target
         /\ pc[u] = "quarantined" => quar[u] = bak[u] /\ bak[u] = last /\ last # {}
         /\ pc[u] \in {"quarantined", "activate", "putback"} => target = {}
         /\ pc[u] \in Gap => bak[u] = last \/ (bak[u] = {} /\ last \subseteq debris)
         /\ pc[u] \in {"committed", "release"} => target = last
         /\ pc[u] = "failed" =>
              last \subseteq target \union bak[u] \union quar[u] \union debris

(* What a call is about to write.                                          *)
Planned ==
    \A u \in Updates :
        /\ pc[u] \in {"stage", "link", "linked"} => new[u] = Result(u, Content(target))
        /\ pc[u] \in {"quarantined", "activate", "activated"} =>
             new[u] = Result(u, Content(bak[u]))
        /\ pc[u] = "activated" => target = {new[u]}

StoreInv == TypeOK /\ Excl /\ Place /\ Planned

USE DEF Steps, Holding, Gap, Goto, Set, files, lock

-----------------------------------------------------------------------------
LEMMA LockKeeps == ASSUME StoreInv, NEW u \in Updates, Lock(u) PROVE StoreInv'
<1>1. TypeOK'
  BY StateStoreAssumption DEF Lock, StoreInv, TypeOK
<1>2. Excl'
  BY DEF Lock, StoreInv, TypeOK, Excl
<1>3. Place'
  BY <1>2 DEF Lock, StoreInv, TypeOK, Excl, Place, AtRest
<1>4. Planned'
  BY <1>2 DEF Lock, StoreInv, TypeOK, Excl, Place, Planned
<1> QED
  BY <1>1, <1>2, <1>3, <1>4 DEF StoreInv

LEMMA LockFailsKeeps == ASSUME StoreInv, NEW u \in Updates, LockFails(u) PROVE StoreInv'
<1>1. TypeOK'
  BY StateStoreAssumption DEF LockFails, StoreInv, TypeOK
<1>2. Excl'
  BY DEF LockFails, StoreInv, TypeOK, Excl
<1>3. Place'
  BY <1>2 DEF LockFails, StoreInv, TypeOK, Excl, Place, AtRest
<1>4. Planned'
  BY <1>2 DEF LockFails, StoreInv, TypeOK, Excl, Place, Planned
<1> QED
  BY <1>1, <1>2, <1>3, <1>4 DEF StoreInv

LEMMA ReadStateKeeps == ASSUME StoreInv, NEW u \in Updates, ReadState(u) PROVE StoreInv'
<1>1. TypeOK'
  BY StateStoreAssumption DEF ReadState, Result, Content, StoreInv, TypeOK
<1>2. Excl'
  BY DEF ReadState, Result, Content, StoreInv, TypeOK, Excl
<1>3. Place'
  BY <1>2 DEF ReadState, Result, Content, StoreInv, TypeOK, Excl, Place, AtRest
<1>4. Planned'
  BY <1>2 DEF ReadState, StoreInv, TypeOK, Excl, Planned
<1> QED
  BY <1>1, <1>2, <1>3, <1>4 DEF StoreInv

LEMMA StageKeeps == ASSUME StoreInv, NEW u \in Updates, Stage(u) PROVE StoreInv'
<1>1. TypeOK'
  BY StateStoreAssumption DEF Stage, StoreInv, TypeOK
<1>2. Excl'
  BY DEF Stage, StoreInv, TypeOK, Excl
<1>3. Place'
  BY <1>2 DEF Stage, StoreInv, TypeOK, Excl, Place, AtRest
<1>4. Planned'
  <2>1. UNCHANGED <<new, target, bak>> /\ \A v \in Updates \ {u} : pc'[v] = pc[v]
    BY DEF Stage, StoreInv, TypeOK
  <2>2. CASE target = {}
    <3>1. bak[u] = target /\ pc[u] = "stage" /\ pc'[u] = "activate"
      BY <2>2 DEF Stage, StoreInv, TypeOK, Place
    <3> QED
      BY <2>1, <3>1 DEF StoreInv, Planned
  <2>3. CASE target # {}
    BY <2>1, <2>3 DEF Stage, StoreInv, TypeOK, Planned
  <2> QED
    BY <2>2, <2>3
<1> QED
  BY <1>1, <1>2, <1>3, <1>4 DEF StoreInv

LEMMA LinkKeeps == ASSUME StoreInv, NEW u \in Updates, Link(u) PROVE StoreInv'
<1>1. TypeOK'
  BY StateStoreAssumption DEF Link, StoreInv, TypeOK
<1>2. Excl'
  BY DEF Link, StoreInv, TypeOK, Excl
<1>3. Place'
  BY <1>2 DEF Link, StoreInv, TypeOK, Excl, Place, AtRest
<1>4. Planned'
  BY <1>2 DEF Link, StoreInv, TypeOK, Excl, Place, Planned
<1> QED
  BY <1>1, <1>2, <1>3, <1>4 DEF StoreInv

LEMMA QuarantineKeeps == ASSUME StoreInv, NEW u \in Updates, Quarantine(u) PROVE StoreInv'
<1>1. TypeOK'
  BY StateStoreAssumption DEF Quarantine, StoreInv, TypeOK
<1>2. Excl'
  BY DEF Quarantine, StoreInv, TypeOK, Excl
<1>3. Place'
  BY <1>2 DEF Quarantine, StoreInv, TypeOK, Excl, Place, AtRest
<1>4. Planned'
  BY <1>2 DEF Quarantine, StoreInv, TypeOK, Excl, Place, Planned
<1> QED
  BY <1>1, <1>2, <1>3, <1>4 DEF StoreInv

LEMMA UnlinkOldKeeps == ASSUME StoreInv, NEW u \in Updates, UnlinkOld(u) PROVE StoreInv'
<1>1. TypeOK'
  BY StateStoreAssumption DEF UnlinkOld, StoreInv, TypeOK
<1>2. Excl'
  BY DEF UnlinkOld, StoreInv, TypeOK, Excl
<1>3. Place'
  BY <1>2 DEF UnlinkOld, StoreInv, TypeOK, Excl, Place, AtRest
<1>4. Planned'
  BY <1>2 DEF UnlinkOld, StoreInv, TypeOK, Excl, Place, Planned
<1> QED
  BY <1>1, <1>2, <1>3, <1>4 DEF StoreInv

LEMMA ActivateKeeps == ASSUME StoreInv, NEW u \in Updates, Activate(u) PROVE StoreInv'
<1>1. TypeOK'
  BY StateStoreAssumption DEF Activate, StoreInv, TypeOK
<1>2. Excl'
  BY DEF Activate, StoreInv, TypeOK, Excl
<1>3. Place'
  BY <1>2 DEF Activate, StoreInv, TypeOK, Excl, Place, AtRest
<1>4. Planned'
  BY <1>2 DEF Activate, StoreInv, TypeOK, Excl, Place, Planned
<1> QED
  BY <1>1, <1>2, <1>3, <1>4 DEF StoreInv

LEMMA CommitKeeps == ASSUME StoreInv, NEW u \in Updates, Commit(u) PROVE StoreInv'
<1>1. TypeOK'
  BY StateStoreAssumption DEF Commit, StoreInv, TypeOK
<1>2. Excl'
  BY DEF Commit, StoreInv, TypeOK, Excl
<1>3. Place'
  BY <1>2 DEF Commit, StoreInv, TypeOK, Excl, Place, AtRest
<1>4. Planned'
  BY <1>2 DEF Commit, StoreInv, TypeOK, Excl, Place, Planned
<1> QED
  BY <1>1, <1>2, <1>3, <1>4 DEF StoreInv

LEMMA RemoveBackupKeeps == ASSUME StoreInv, NEW u \in Updates, RemoveBackup(u) PROVE StoreInv'
<1>1. TypeOK'
  BY StateStoreAssumption DEF RemoveBackup, StoreInv, TypeOK
<1>2. Excl'
  BY DEF RemoveBackup, StoreInv, TypeOK, Excl
<1>3. Place'
  BY <1>2 DEF RemoveBackup, StoreInv, TypeOK, Excl, Place, AtRest
<1>4. Planned'
  BY <1>2 DEF RemoveBackup, StoreInv, TypeOK, Excl, Place, Planned
<1> QED
  BY <1>1, <1>2, <1>3, <1>4 DEF StoreInv

LEMMA ReleaseKeeps == ASSUME StoreInv, NEW u \in Updates, Release(u) PROVE StoreInv'
<1>1. TypeOK'
  BY StateStoreAssumption DEF Release, LeaveNames, InPlace, StoreInv, TypeOK
<1>2. Excl'
  BY DEF Release, LeaveNames, InPlace, StoreInv, TypeOK, Excl
<1>3. Place'
  BY <1>2 DEF Release, LeaveNames, InPlace, StoreInv, TypeOK, Excl, Place, AtRest
<1>4. Planned'
  BY <1>2 DEF Release, LeaveNames, InPlace, StoreInv, TypeOK, Excl, Place, Planned
<1> QED
  BY <1>1, <1>2, <1>3, <1>4 DEF StoreInv

LEMMA FailsBeforeKeeps == ASSUME StoreInv, NEW u \in Updates, FailsBefore(u) PROVE StoreInv'
<1>1. TypeOK'
  BY StateStoreAssumption DEF FailsBefore, StoreInv, TypeOK
<1>2. Excl'
  BY DEF FailsBefore, StoreInv, TypeOK, Excl
<1>3. Place'
  BY <1>2 DEF FailsBefore, StoreInv, TypeOK, Excl, Place, AtRest
<1>4. Planned'
  BY <1>2 DEF FailsBefore, StoreInv, TypeOK, Excl, Place, Planned
<1> QED
  BY <1>1, <1>2, <1>3, <1>4 DEF StoreInv

LEMMA FailsLinkedKeeps == ASSUME StoreInv, NEW u \in Updates, FailsLinked(u) PROVE StoreInv'
<1>1. TypeOK'
  BY StateStoreAssumption DEF FailsLinked, StoreInv, TypeOK
<1>2. Excl'
  BY DEF FailsLinked, StoreInv, TypeOK, Excl
<1>3. Place'
  BY <1>2 DEF FailsLinked, StoreInv, TypeOK, Excl, Place, AtRest
<1>4. Planned'
  BY <1>2 DEF FailsLinked, StoreInv, TypeOK, Excl, Place, Planned
<1> QED
  BY <1>1, <1>2, <1>3, <1>4 DEF StoreInv

LEMMA FailsQuarantinedKeeps == ASSUME StoreInv, NEW u \in Updates, FailsQuarantined(u) PROVE StoreInv'
<1>1. TypeOK'
  BY StateStoreAssumption DEF FailsQuarantined, StoreInv, TypeOK
<1>2. Excl'
  BY DEF FailsQuarantined, StoreInv, TypeOK, Excl
<1>3. Place'
  BY <1>2 DEF FailsQuarantined, StoreInv, TypeOK, Excl, Place, AtRest
<1>4. Planned'
  BY <1>2 DEF FailsQuarantined, StoreInv, TypeOK, Excl, Place, Planned
<1> QED
  BY <1>1, <1>2, <1>3, <1>4 DEF StoreInv

LEMMA FailsInactiveKeeps == ASSUME StoreInv, NEW u \in Updates, FailsInactive(u) PROVE StoreInv'
<1>1. TypeOK'
  BY StateStoreAssumption DEF FailsInactive, StoreInv, TypeOK
<1>2. Excl'
  BY DEF FailsInactive, StoreInv, TypeOK, Excl
<1>3. Place'
  BY <1>2 DEF FailsInactive, StoreInv, TypeOK, Excl, Place, AtRest
<1>4. Planned'
  BY <1>2 DEF FailsInactive, StoreInv, TypeOK, Excl, Place, Planned
<1> QED
  BY <1>1, <1>2, <1>3, <1>4 DEF StoreInv

LEMMA FailsActivatedKeeps == ASSUME StoreInv, NEW u \in Updates, FailsActivated(u) PROVE StoreInv'
<1>1. TypeOK'
  BY StateStoreAssumption DEF FailsActivated, StoreInv, TypeOK
<1>2. Excl'
  BY DEF FailsActivated, StoreInv, TypeOK, Excl
<1>3. Place'
  BY <1>2 DEF FailsActivated, StoreInv, TypeOK, Excl, Place, AtRest
<1>4. Planned'
  BY <1>2 DEF FailsActivated, StoreInv, TypeOK, Excl, Place, Planned
<1> QED
  BY <1>1, <1>2, <1>3, <1>4 DEF StoreInv

LEMMA DropCandidateKeeps == ASSUME StoreInv, NEW u \in Updates, DropCandidate(u) PROVE StoreInv'
<1>1. TypeOK'
  BY StateStoreAssumption DEF DropCandidate, StoreInv, TypeOK
<1>2. Excl'
  BY DEF DropCandidate, StoreInv, TypeOK, Excl
<1>3. Place'
  BY <1>2 DEF DropCandidate, StoreInv, TypeOK, Excl, Place, AtRest
<1>4. Planned'
  BY <1>2 DEF DropCandidate, StoreInv, TypeOK, Excl, Place, Planned
<1> QED
  BY <1>1, <1>2, <1>3, <1>4 DEF StoreInv

LEMMA UnlinkNewKeeps == ASSUME StoreInv, NEW u \in Updates, UnlinkNew(u) PROVE StoreInv'
<1>1. TypeOK'
  BY StateStoreAssumption DEF UnlinkNew, StoreInv, TypeOK
<1>2. Excl'
  BY DEF UnlinkNew, StoreInv, TypeOK, Excl
<1>3. Place'
  BY <1>2 DEF UnlinkNew, StoreInv, TypeOK, Excl, Place, AtRest
<1>4. Planned'
  BY <1>2 DEF UnlinkNew, StoreInv, TypeOK, Excl, Place, Planned
<1> QED
  BY <1>1, <1>2, <1>3, <1>4 DEF StoreInv

LEMMA PutBackKeeps == ASSUME StoreInv, NEW u \in Updates, PutBack(u) PROVE StoreInv'
<1>1. TypeOK'
  BY StateStoreAssumption DEF PutBack, StoreInv, TypeOK
<1>2. Excl'
  BY DEF PutBack, StoreInv, TypeOK, Excl
<1>3. Place'
  BY <1>2 DEF PutBack, StoreInv, TypeOK, Excl, Place, AtRest
<1>4. Planned'
  BY <1>2 DEF PutBack, StoreInv, TypeOK, Excl, Place, Planned
<1> QED
  BY <1>1, <1>2, <1>3, <1>4 DEF StoreInv

LEMMA KillKeeps == ASSUME StoreInv, NEW u \in Updates, Kill(u) PROVE StoreInv'
<1>1. TypeOK'
  BY StateStoreAssumption DEF Kill, LeaveNames, InPlace, StoreInv, TypeOK
<1>2. Excl'
  BY DEF Kill, LeaveNames, InPlace, StoreInv, TypeOK, Excl
<1>3. Place'
  BY <1>2 DEF Kill, LeaveNames, InPlace, StoreInv, TypeOK, Excl, Place, AtRest
<1>4. Planned'
  BY <1>2 DEF Kill, LeaveNames, InPlace, StoreInv, TypeOK, Excl, Place, Planned
<1> QED
  BY <1>1, <1>2, <1>3, <1>4 DEF StoreInv

LEMMA ReadLockKeeps == ASSUME StoreInv, NEW r \in Readers, ReadLock(r) PROVE StoreInv'
<1>1. TypeOK'
  BY DEF ReadLock, StoreInv, TypeOK, Content
<1>2. Excl' /\ Place' /\ Planned'
  BY DEF ReadLock, StoreInv, Excl, Place, AtRest, Planned
<1> QED
  BY <1>1, <1>2 DEF StoreInv

LEMMA ReadKeeps == ASSUME StoreInv, NEW r \in Readers, Read(r) PROVE StoreInv'
<1>1. TypeOK'
  BY DEF Read, StoreInv, TypeOK, Content
<1>2. Excl' /\ Place' /\ Planned'
  BY DEF Read, StoreInv, Excl, Place, AtRest, Planned
<1> QED
  BY <1>1, <1>2 DEF StoreInv

-----------------------------------------------------------------------------
LEMMA InitStore == Init => StoreInv
<1> SUFFICES ASSUME Init PROVE StoreInv
  OBVIOUS
<1>1. TypeOK
  BY DEF Init, TypeOK
<1>2. Excl
  BY DEF Init, Excl
<1>3. Place
  BY DEF Init, Place, AtRest
<1>4. Planned
  BY DEF Init, Planned
<1> QED
  BY <1>1, <1>2, <1>3, <1>4 DEF StoreInv

LEMMA StutterKeeps == ASSUME StoreInv, UNCHANGED vars PROVE StoreInv'
BY DEF vars, StoreInv, TypeOK, Excl, Place, AtRest, Planned

LEMMA NextKeeps == ASSUME StoreInv, [Next]_vars PROVE StoreInv'
<1>1. CASE \E u \in Updates : Writing(u) \/ Failing(u)
  <2>1. PICK u \in Updates : Writing(u) \/ Failing(u)
    BY <1>1
  <2> QED
    BY <2>1,
     LockKeeps, LockFailsKeeps, ReadStateKeeps, StageKeeps, LinkKeeps,
     QuarantineKeeps, UnlinkOldKeeps, ActivateKeeps, CommitKeeps,
     RemoveBackupKeeps, ReleaseKeeps, FailsBeforeKeeps, FailsLinkedKeeps,
     FailsQuarantinedKeeps, FailsInactiveKeeps, FailsActivatedKeeps,
     DropCandidateKeeps, UnlinkNewKeeps, PutBackKeeps, KillKeeps
     DEF Writing, Failing
<1>2. CASE \E r \in Readers : ReadLock(r) \/ Read(r)
  BY <1>2, ReadLockKeeps, ReadKeeps
<1>3. CASE UNCHANGED vars
  BY <1>3, StutterKeeps
<1> QED
  BY <1>1, <1>2, <1>3 DEF Next

LEMMA StoreInvariant == Spec => []StoreInv
<1>1. StoreInv /\ [Next]_vars => StoreInv'
  BY NextKeeps
<1> QED
  BY InitStore, <1>1, PTL DEF Spec

-----------------------------------------------------------------------------
(* The refinement.  The writer alone decides what the register holds.      *)
LEMMA OneWriter ==
    ASSUME NEW p, NEW b, NEW u \in Updates,
           \A v \in Updates \ {u} : p[v] \notin Gap /\ b[v] = {}
    PROVE  /\ (\E v \in Updates : p[v] \in Gap) <=> p[u] \in Gap
           /\ UNION {b[v] : v \in Updates} = b[u]
<1>1. (\E v \in Updates : p[v] \in Gap) <=> p[u] \in Gap
  OBVIOUS
<1>2. UNION {b[v] : v \in Updates} = b[u]
  OBVIOUS
<1> QED
  BY <1>1, <1>2

LEMMA ValueOf == ASSUME StoreInv, NEW u \in Updates, pc[u] \in Holding
           PROVE Value = IF pc[u] \in Gap THEN Content(bak[u]) ELSE Content(target)
<1>1. \A v \in Updates \ {u} : pc[v] \notin Gap /\ bak[v] = {}
  BY DEF StoreInv, TypeOK, Excl
<1>2. /\ (\E v \in Updates : pc[v] \in Gap) <=> pc[u] \in Gap
      /\ UNION {bak[v] : v \in Updates} = bak[u]
  BY <1>1, OneWriter
<1> QED
  BY <1>2 DEF Value, Replacing

LEMMA ValueNext == ASSUME StoreInv', NEW u \in Updates, pc'[u] \in Holding
           PROVE Value' = IF pc'[u] \in Gap THEN Content(bak'[u]) ELSE Content(target')
<1>1. \A v \in Updates \ {u} : pc'[v] \notin Gap /\ bak'[v] = {}
  BY DEF StoreInv, TypeOK, Excl
<1>2. /\ (\E v \in Updates : pc'[v] \in Gap) <=> pc'[u] \in Gap
      /\ UNION {bak'[v] : v \in Updates} = bak'[u]
  BY <1>1, OneWriter
<1> QED
  BY <1>2 DEF Value, Replacing

LEMMA ValueFree == ASSUME StoreInv, writer = {} PROVE Value = Content(target)
BY DEF StoreInv, TypeOK, Excl, Value, Replacing

LEMMA ValueFreeNext == ASSUME StoreInv', writer' = {} PROVE Value' = Content(target')
BY DEF StoreInv, TypeOK, Excl, Value, Replacing

LEMMA LockStutters == ASSUME StoreInv, StoreInv', ~UndoMayFail, NEW u \in Updates, Lock(u)
           PROVE UNCHANGED Register!regVars
<1>1. Value' = Value
  BY ValueFree, ValueNext DEF Lock, StoreInv, TypeOK, Place
<1>2. \A v \in Updates : Phase(v)' = Phase(v)
  BY DEF Lock, StoreInv, TypeOK, Phase
<1>3. seen' = seen
  BY DEF Lock
<1> QED
  BY <1>1, <1>2, <1>3 DEF Register!regVars

LEMMA ReadStateStutters == ASSUME StoreInv, StoreInv', ~UndoMayFail, NEW u \in Updates, ReadState(u)
           PROVE UNCHANGED Register!regVars
<1>1. Value' = Value
  BY ValueOf, ValueNext DEF ReadState, StoreInv, TypeOK, Place
<1>2. \A v \in Updates : Phase(v)' = Phase(v)
  BY DEF ReadState, StoreInv, TypeOK, Phase
<1>3. seen' = seen
  BY DEF ReadState
<1> QED
  BY <1>1, <1>2, <1>3 DEF Register!regVars

LEMMA StageStutters == ASSUME StoreInv, StoreInv', ~UndoMayFail, NEW u \in Updates, Stage(u)
           PROVE UNCHANGED Register!regVars
<1>1. Value' = Value
  <2>1. pc[u] = "stage" /\ Value = Content(target) /\ UNCHANGED <<target, bak>>
    BY ValueOf DEF Stage
  <2>2. CASE target = {}
    <3>1. pc'[u] = "activate" /\ bak[u] = target
      BY <2>2 DEF Stage, StoreInv, TypeOK, Place
    <3> QED
      BY <2>1, <3>1, ValueNext
  <2>3. CASE target # {}
    BY <2>1, <2>3, ValueNext DEF Stage, StoreInv, TypeOK
  <2> QED
    BY <2>2, <2>3
<1>2. \A v \in Updates : Phase(v)' = Phase(v)
  BY DEF Stage, StoreInv, TypeOK, Phase
<1>3. seen' = seen
  BY DEF Stage
<1> QED
  BY <1>1, <1>2, <1>3 DEF Register!regVars

LEMMA LinkStutters == ASSUME StoreInv, StoreInv', ~UndoMayFail, NEW u \in Updates, Link(u)
           PROVE UNCHANGED Register!regVars
<1>1. Value' = Value
  BY ValueOf, ValueNext DEF Link, StoreInv, TypeOK, Place
<1>2. \A v \in Updates : Phase(v)' = Phase(v)
  BY DEF Link, StoreInv, TypeOK, Phase
<1>3. seen' = seen
  BY DEF Link
<1> QED
  BY <1>1, <1>2, <1>3 DEF Register!regVars

LEMMA QuarantineStutters == ASSUME StoreInv, StoreInv', ~UndoMayFail, NEW u \in Updates, Quarantine(u)
           PROVE UNCHANGED Register!regVars
<1>1. Value' = Value
  BY ValueOf, ValueNext DEF Quarantine, StoreInv, TypeOK, Place
<1>2. \A v \in Updates : Phase(v)' = Phase(v)
  BY DEF Quarantine, StoreInv, TypeOK, Phase
<1>3. seen' = seen
  BY DEF Quarantine
<1> QED
  BY <1>1, <1>2, <1>3 DEF Register!regVars

LEMMA UnlinkOldStutters == ASSUME StoreInv, StoreInv', ~UndoMayFail, NEW u \in Updates, UnlinkOld(u)
           PROVE UNCHANGED Register!regVars
<1>1. Value' = Value
  BY ValueOf, ValueNext DEF UnlinkOld, StoreInv, TypeOK, Place
<1>2. \A v \in Updates : Phase(v)' = Phase(v)
  BY DEF UnlinkOld, StoreInv, TypeOK, Phase
<1>3. seen' = seen
  BY DEF UnlinkOld
<1> QED
  BY <1>1, <1>2, <1>3 DEF Register!regVars

LEMMA ActivateStutters == ASSUME StoreInv, StoreInv', ~UndoMayFail, NEW u \in Updates, Activate(u)
           PROVE UNCHANGED Register!regVars
<1>1. Value' = Value
  BY ValueOf, ValueNext DEF Activate, StoreInv, TypeOK, Place
<1>2. \A v \in Updates : Phase(v)' = Phase(v)
  BY DEF Activate, StoreInv, TypeOK, Phase
<1>3. seen' = seen
  BY DEF Activate
<1> QED
  BY <1>1, <1>2, <1>3 DEF Register!regVars

LEMMA RemoveBackupStutters == ASSUME StoreInv, StoreInv', ~UndoMayFail, NEW u \in Updates, RemoveBackup(u)
           PROVE UNCHANGED Register!regVars
<1>1. Value' = Value
  BY ValueOf, ValueNext DEF RemoveBackup, StoreInv, TypeOK, Place
<1>2. \A v \in Updates : Phase(v)' = Phase(v)
  BY DEF RemoveBackup, StoreInv, TypeOK, Phase
<1>3. seen' = seen
  BY DEF RemoveBackup
<1> QED
  BY <1>1, <1>2, <1>3 DEF Register!regVars

LEMMA FailsBeforeStutters == ASSUME StoreInv, StoreInv', ~UndoMayFail, NEW u \in Updates, FailsBefore(u)
           PROVE UNCHANGED Register!regVars
<1>1. Value' = Value
  BY ValueOf, ValueNext DEF FailsBefore, StoreInv, TypeOK, Place
<1>2. \A v \in Updates : Phase(v)' = Phase(v)
  BY DEF FailsBefore, StoreInv, TypeOK, Phase
<1>3. seen' = seen
  BY DEF FailsBefore
<1> QED
  BY <1>1, <1>2, <1>3 DEF Register!regVars

LEMMA FailsLinkedStutters == ASSUME StoreInv, StoreInv', ~UndoMayFail, NEW u \in Updates, FailsLinked(u)
           PROVE UNCHANGED Register!regVars
<1>1. Value' = Value
  BY ValueOf, ValueNext DEF FailsLinked, StoreInv, TypeOK, Place
<1>2. \A v \in Updates : Phase(v)' = Phase(v)
  BY DEF FailsLinked, StoreInv, TypeOK, Phase
<1>3. seen' = seen
  BY DEF FailsLinked
<1> QED
  BY <1>1, <1>2, <1>3 DEF Register!regVars

LEMMA FailsQuarantinedStutters == ASSUME StoreInv, StoreInv', ~UndoMayFail, NEW u \in Updates, FailsQuarantined(u)
           PROVE UNCHANGED Register!regVars
<1>1. Value' = Value
  BY ValueOf, ValueNext DEF FailsQuarantined, StoreInv, TypeOK, Place
<1>2. \A v \in Updates : Phase(v)' = Phase(v)
  BY DEF FailsQuarantined, StoreInv, TypeOK, Phase
<1>3. seen' = seen
  BY DEF FailsQuarantined
<1> QED
  BY <1>1, <1>2, <1>3 DEF Register!regVars

LEMMA FailsInactiveStutters == ASSUME StoreInv, StoreInv', ~UndoMayFail, NEW u \in Updates, FailsInactive(u)
           PROVE UNCHANGED Register!regVars
<1>1. Value' = Value
  BY ValueOf, ValueNext DEF FailsInactive, StoreInv, TypeOK, Place
<1>2. \A v \in Updates : Phase(v)' = Phase(v)
  BY DEF FailsInactive, StoreInv, TypeOK, Phase
<1>3. seen' = seen
  BY DEF FailsInactive
<1> QED
  BY <1>1, <1>2, <1>3 DEF Register!regVars

LEMMA FailsActivatedStutters == ASSUME StoreInv, StoreInv', ~UndoMayFail, NEW u \in Updates, FailsActivated(u)
           PROVE UNCHANGED Register!regVars
<1>1. Value' = Value
  BY ValueOf, ValueNext DEF FailsActivated, StoreInv, TypeOK, Place
<1>2. \A v \in Updates : Phase(v)' = Phase(v)
  BY DEF FailsActivated, StoreInv, TypeOK, Phase
<1>3. seen' = seen
  BY DEF FailsActivated
<1> QED
  BY <1>1, <1>2, <1>3 DEF Register!regVars

LEMMA DropCandidateStutters == ASSUME StoreInv, StoreInv', ~UndoMayFail, NEW u \in Updates, DropCandidate(u)
           PROVE UNCHANGED Register!regVars
<1>1. Value' = Value
  BY ValueOf, ValueNext DEF DropCandidate, StoreInv, TypeOK, Place
<1>2. \A v \in Updates : Phase(v)' = Phase(v)
  BY DEF DropCandidate, StoreInv, TypeOK, Phase
<1>3. seen' = seen
  BY DEF DropCandidate
<1> QED
  BY <1>1, <1>2, <1>3 DEF Register!regVars

LEMMA UnlinkNewStutters == ASSUME StoreInv, StoreInv', ~UndoMayFail, NEW u \in Updates, UnlinkNew(u)
           PROVE UNCHANGED Register!regVars
<1>1. Value' = Value
  BY ValueOf, ValueNext DEF UnlinkNew, StoreInv, TypeOK, Place
<1>2. \A v \in Updates : Phase(v)' = Phase(v)
  BY DEF UnlinkNew, StoreInv, TypeOK, Phase
<1>3. seen' = seen
  BY DEF UnlinkNew
<1> QED
  BY <1>1, <1>2, <1>3 DEF Register!regVars

LEMMA PutBackStutters == ASSUME StoreInv, StoreInv', ~UndoMayFail, NEW u \in Updates, PutBack(u)
           PROVE UNCHANGED Register!regVars
<1>1. Value' = Value
  BY ValueOf, ValueNext DEF PutBack, StoreInv, TypeOK, Place
<1>2. \A v \in Updates : Phase(v)' = Phase(v)
  BY DEF PutBack, StoreInv, TypeOK, Phase
<1>3. seen' = seen
  BY DEF PutBack
<1> QED
  BY <1>1, <1>2, <1>3 DEF Register!regVars

LEMMA ContentOfOne == ASSUME NEW f PROVE Content({f}) = f
BY DEF Content

(* The commit is the step that changes the register.                       *)
LEMMA CommitApplies == ASSUME StoreInv, StoreInv', NEW u \in Updates, Commit(u)
           PROVE Register!Apply(u)
<1>1. Value' = Content(target) /\ Value = Content(bak[u])
  BY ValueOf, ValueNext DEF Commit, StoreInv, TypeOK
<1>2. target = {new[u]} /\ new[u] = Result(u, Content(bak[u]))
  BY DEF Commit, StoreInv, Planned
<1>3. Value' = Register!Result(u, Value)
  BY <1>1, <1>2, ContentOfOne DEF Result, Register!Result
<1>4. Phase(u) = "pending" /\ Phase(u)' = "applied"
      /\ \A v \in Updates \ {u} : Phase(v)' = Phase(v)
  BY DEF Commit, StoreInv, TypeOK, Phase
<1> QED
  BY <1>3, <1>4 DEF Register!Apply, Commit

(* The end of a call returns what the register did.                        *)
LEMMA ReleaseReturns == ASSUME StoreInv, StoreInv', NEW u \in Updates, Release(u)
           PROVE Register!Return(u) \/ Register!Refuse(u)
<1>1. writer' = {} /\ UNCHANGED <<target, seen>>
  BY DEF Release, LeaveNames, StoreInv, Excl
<1>2. Value' = Value
  BY <1>1, ValueOf, ValueFreeNext DEF Release
<1>3. \A v \in Updates \ {u} : Phase(v)' = Phase(v)
  BY DEF Release, StoreInv, TypeOK, Phase
<1>4. CASE pc[u] = "release"
  <2>1. Phase(u) = "applied" /\ Phase(u)' \in {"ok", "raised"}
    BY <1>4 DEF Release, StoreInv, TypeOK, Phase
  <2> QED
    BY <1>1, <1>2, <1>3, <2>1 DEF Register!Return
<1>5. CASE pc[u] = "failed"
  <2>1. Phase(u) = "pending" /\ Phase(u)' = "raised"
    BY <1>5 DEF Release, StoreInv, TypeOK, Phase
  <2> QED
    BY <1>1, <1>2, <1>3, <2>1 DEF Register!Refuse
<1> QED
  BY <1>4, <1>5 DEF Release

LEMMA LockFailsRefuses == ASSUME StoreInv, NEW u \in Updates, LockFails(u)
           PROVE Register!Refuse(u)
<1>1. Value' = Value
  BY DEF LockFails, StoreInv, TypeOK, Value, Replacing
<1>2. Phase(u) = "pending" /\ Phase(u)' = "raised"
      /\ \A v \in Updates \ {u} : Phase(v)' = Phase(v)
  BY DEF LockFails, StoreInv, TypeOK, Phase
<1> QED
  BY <1>1, <1>2 DEF Register!Refuse, LockFails

(* Readers hold the lock shared, so there is no gap to read.               *)
LEMMA ReadReads == ASSUME StoreInv, NEW r \in Readers, Read(r)
           PROVE Register!ReadValue(r) \/ UNCHANGED Register!regVars
<1>1. Value = Content(target)
  BY ValueFree DEF Read, StoreInv, Excl
<1>2. UNCHANGED <<pc, bak, target>> /\ Value' = Value
  BY DEF Read, Value, Replacing
<1>3. \A v \in Updates : Phase(v)' = Phase(v)
  BY DEF Read, Phase
<1>4. CASE Hardlinked
  BY <1>2, <1>3, <1>4 DEF Read, Register!regVars
<1>5. CASE ~Hardlinked
  BY <1>1, <1>2, <1>3, <1>5 DEF Read, Register!ReadValue
<1> QED
  BY <1>4, <1>5

LEMMA OthersStutter == ASSUME UNCHANGED <<files, pc, seen>> PROVE UNCHANGED Register!regVars
<1>1. Value' = Value
  BY DEF Value, Replacing
<1>2. \A v \in Updates : Phase(v)' = Phase(v)
  BY DEF Phase
<1> QED
  BY <1>1, <1>2 DEF Register!regVars

LEMMA StepRefines == ASSUME ~Kills, ~UndoMayFail, StoreInv, StoreInv', [Next]_vars
           PROVE [Register!RegNext]_Register!regVars
<1>1. ASSUME NEW u \in Updates, Writing(u) \/ Failing(u)
      PROVE  [Register!RegNext]_Register!regVars
  <2>1. CASE Commit(u)
    BY <2>1, CommitApplies DEF Register!RegNext
  <2>2. CASE Release(u)
    BY <2>2, ReleaseReturns DEF Register!RegNext
  <2>3. CASE LockFails(u)
    BY <2>3, LockFailsRefuses DEF Register!RegNext
  <2>4. ~Kill(u)
    BY DEF Kill
  <2> QED
    BY <1>1, <2>1, <2>2, <2>3, <2>4,
       LockStutters, ReadStateStutters, StageStutters, LinkStutters,
       QuarantineStutters, UnlinkOldStutters, ActivateStutters,
       RemoveBackupStutters, FailsBeforeStutters, FailsLinkedStutters,
       FailsQuarantinedStutters, FailsInactiveStutters,
       FailsActivatedStutters, DropCandidateStutters, UnlinkNewStutters,
       PutBackStutters
       DEF Writing, Failing
<1>2. ASSUME NEW r \in Readers, ReadLock(r) \/ Read(r)
      PROVE  [Register!RegNext]_Register!regVars
  <2>1. CASE Read(r)
    BY <2>1, ReadReads DEF Register!RegNext
  <2>2. CASE ReadLock(r)
    BY <2>2, OthersStutter DEF ReadLock
  <2> QED
    BY <1>2, <2>1, <2>2
<1>3. CASE UNCHANGED vars
  BY <1>3, OthersStutter DEF vars
<1> QED
  BY <1>1, <1>2, <1>3 DEF Next

LEMMA InitRefines == Init => Register!RegInit
<1> SUFFICES ASSUME Init PROVE Register!RegInit
  OBVIOUS
<1>1. Value = {}
  BY DEF Init, Value, Replacing, Content
<1>2. \A u \in Updates : Phase(u) = "pending"
  BY DEF Init, Phase
<1> QED
  BY <1>1, <1>2 DEF Init, Register!RegInit

-----------------------------------------------------------------------------
(* Without kills and failures of the undoing nothing of a write stays but  *)
(* the backup of one that succeeded.  That is the old file, never the new  *)
(* one: no file reflects a call that has not put its own in place (Fresh). *)
Unwritten == {"start", "locked", "stage", "link", "linked", "quarantined", "activate"}

Settled ==
    /\ writer = {} => target = last
    /\ \A u \in Updates :
         /\ pc[u] \in {"locked", "stage", "link", "linked", "drop", "failed"} => target = last
         /\ pc[u] \in Gap => bak[u] = last
         /\ pc[u] # "quarantined" => quar[u] = {}
         /\ pc[u] = "failed" => bak[u] = {}

Fresh ==
    \A u \in Updates :
        /\ pc[u] \in Unwritten =>
             /\ \A f \in target \union last \union debris : u \notin f
             /\ \A v \in Updates : \A f \in bak[v] : u \notin f
        /\ pc[u] \in {"activated", "committed", "release"} =>
             /\ \A f \in target : u \in f
             /\ \A f \in bak[u] \union debris : u \notin f
        /\ pc[u] = "activated" => \A f \in last : u \notin f

Apart == target \intersect debris = {} /\ last \intersect debris = {}

Clean == Settled /\ Fresh /\ Apart

LEMMA LockCleans ==
    ASSUME StoreInv, Clean, ~UndoMayFail, NEW u \in Updates, Lock(u) PROVE Clean'
<1>1. Settled'
  BY DEF Lock, StoreInv, TypeOK, Excl, Place, AtRest, Clean, Settled
<1>2. Fresh'
  BY DEF Lock, StoreInv, TypeOK, Excl, Place, Clean, Settled, Fresh, Unwritten
<1>3. Apart'
  BY DEF Lock, StoreInv, TypeOK, Excl, Place, Clean, Settled, Fresh, Apart
<1> QED
  BY <1>1, <1>2, <1>3 DEF Clean

LEMMA LockFailsCleans ==
    ASSUME StoreInv, Clean, ~UndoMayFail, NEW u \in Updates, LockFails(u) PROVE Clean'
<1>1. Settled'
  BY DEF LockFails, StoreInv, TypeOK, Excl, Place, AtRest, Clean, Settled
<1>2. Fresh'
  BY DEF LockFails, StoreInv, TypeOK, Excl, Place, Clean, Settled, Fresh, Unwritten
<1>3. Apart'
  BY DEF LockFails, StoreInv, TypeOK, Excl, Place, Clean, Settled, Fresh, Apart
<1> QED
  BY <1>1, <1>2, <1>3 DEF Clean

LEMMA ReadStateCleans ==
    ASSUME StoreInv, Clean, ~UndoMayFail, NEW u \in Updates, ReadState(u) PROVE Clean'
<1>1. Settled'
  BY DEF ReadState, StoreInv, TypeOK, Excl, Place, AtRest, Clean, Settled
<1>2. Fresh'
  BY DEF ReadState, StoreInv, TypeOK, Excl, Place, Clean, Settled, Fresh, Unwritten
<1>3. Apart'
  BY DEF ReadState, StoreInv, TypeOK, Excl, Place, Clean, Settled, Fresh, Apart
<1> QED
  BY <1>1, <1>2, <1>3 DEF Clean

LEMMA StageCleans ==
    ASSUME StoreInv, Clean, ~UndoMayFail, NEW u \in Updates, Stage(u) PROVE Clean'
<1>1. Settled'
  BY DEF Stage, StoreInv, TypeOK, Excl, Place, AtRest, Clean, Settled
<1>2. Fresh'
  BY DEF Stage, StoreInv, TypeOK, Excl, Place, Clean, Settled, Fresh, Unwritten
<1>3. Apart'
  BY DEF Stage, StoreInv, TypeOK, Excl, Place, Clean, Settled, Fresh, Apart
<1> QED
  BY <1>1, <1>2, <1>3 DEF Clean

LEMMA LinkCleans ==
    ASSUME StoreInv, Clean, ~UndoMayFail, NEW u \in Updates, Link(u) PROVE Clean'
<1>1. Settled'
  BY DEF Link, StoreInv, TypeOK, Excl, Place, AtRest, Clean, Settled
<1>2. Fresh'
  BY DEF Link, StoreInv, TypeOK, Excl, Place, Clean, Settled, Fresh, Unwritten
<1>3. Apart'
  BY DEF Link, StoreInv, TypeOK, Excl, Place, Clean, Settled, Fresh, Apart
<1> QED
  BY <1>1, <1>2, <1>3 DEF Clean

LEMMA QuarantineCleans ==
    ASSUME StoreInv, Clean, ~UndoMayFail, NEW u \in Updates, Quarantine(u) PROVE Clean'
<1>1. Settled'
  BY DEF Quarantine, StoreInv, TypeOK, Excl, Place, AtRest, Clean, Settled
<1>2. Fresh'
  BY DEF Quarantine, StoreInv, TypeOK, Excl, Place, Clean, Settled, Fresh, Unwritten
<1>3. Apart'
  BY DEF Quarantine, StoreInv, TypeOK, Excl, Place, Clean, Settled, Fresh, Apart
<1> QED
  BY <1>1, <1>2, <1>3 DEF Clean

LEMMA UnlinkOldCleans ==
    ASSUME StoreInv, Clean, ~UndoMayFail, NEW u \in Updates, UnlinkOld(u) PROVE Clean'
<1>1. Settled'
  BY DEF UnlinkOld, StoreInv, TypeOK, Excl, Place, AtRest, Clean, Settled
<1>2. Fresh'
  BY DEF UnlinkOld, StoreInv, TypeOK, Excl, Place, Clean, Settled, Fresh, Unwritten
<1>3. Apart'
  BY DEF UnlinkOld, StoreInv, TypeOK, Excl, Place, Clean, Settled, Fresh, Apart
<1> QED
  BY <1>1, <1>2, <1>3 DEF Clean

LEMMA ActivateCleans ==
    ASSUME StoreInv, Clean, ~UndoMayFail, NEW u \in Updates, Activate(u) PROVE Clean'
<1>1. Settled'
  BY DEF Activate, StoreInv, TypeOK, Excl, Place, AtRest, Clean, Settled
<1>2. Fresh'
  BY DEF Activate, Result, Content, StoreInv, TypeOK, Excl, Place, Planned, Clean,
     Settled, Fresh, Unwritten
<1>3. Apart'
  <2>1. pc[u] = "activate"
    BY DEF Activate
  <2>2. \A f \in debris : u \notin f
    BY <2>1 DEF Clean, Fresh, Unwritten
  <2>3. new[u] = Result(u, Content(bak[u]))
    BY <2>1 DEF StoreInv, Planned
  <2>4. u \in new[u]
    BY <2>3 DEF Result
  <2>5. target' = {new[u]} /\ last' = last /\ debris' = debris
    BY DEF Activate
  <2> QED
    BY <2>2, <2>4, <2>5 DEF Clean, Apart
<1> QED
  BY <1>1, <1>2, <1>3 DEF Clean

LEMMA CommitCleans ==
    ASSUME StoreInv, Clean, ~UndoMayFail, NEW u \in Updates, Commit(u) PROVE Clean'
<1>1. Settled'
  BY DEF Commit, StoreInv, TypeOK, Excl, Place, AtRest, Clean, Settled
<1>2. Fresh'
  BY DEF Commit, StoreInv, TypeOK, Excl, Place, Clean, Settled, Fresh, Unwritten
<1>3. Apart'
  BY DEF Commit, StoreInv, TypeOK, Excl, Place, Clean, Settled, Fresh, Apart
<1> QED
  BY <1>1, <1>2, <1>3 DEF Clean

LEMMA RemoveBackupCleans ==
    ASSUME StoreInv, Clean, ~UndoMayFail, NEW u \in Updates, RemoveBackup(u) PROVE Clean'
<1>1. Settled'
  BY DEF RemoveBackup, StoreInv, TypeOK, Excl, Place, AtRest, Clean, Settled
<1>2. Fresh'
  BY DEF RemoveBackup, StoreInv, TypeOK, Excl, Place, Clean, Settled, Fresh, Unwritten
<1>3. Apart'
  BY DEF RemoveBackup, StoreInv, TypeOK, Excl, Place, Clean, Settled, Fresh, Apart
<1> QED
  BY <1>1, <1>2, <1>3 DEF Clean

LEMMA ReleaseCleans ==
    ASSUME StoreInv, Clean, ~UndoMayFail, NEW u \in Updates, Release(u) PROVE Clean'
<1>1. Settled'
  BY DEF Release, LeaveNames, InPlace, StoreInv, TypeOK, Excl, Place, AtRest, Clean, Settled
<1>2. Fresh'
  BY DEF Release, LeaveNames, InPlace, StoreInv, TypeOK, Excl, Place, Clean, Settled,
     Fresh, Unwritten
<1>3. Apart'
  BY DEF Release, LeaveNames, InPlace, StoreInv, TypeOK, Excl, Place, Clean, Settled,
     Fresh, Apart
<1> QED
  BY <1>1, <1>2, <1>3 DEF Clean

LEMMA FailsBeforeCleans ==
    ASSUME StoreInv, Clean, ~UndoMayFail, NEW u \in Updates, FailsBefore(u) PROVE Clean'
<1>1. Settled'
  BY DEF FailsBefore, StoreInv, TypeOK, Excl, Place, AtRest, Clean, Settled
<1>2. Fresh'
  BY DEF FailsBefore, StoreInv, TypeOK, Excl, Place, Clean, Settled, Fresh, Unwritten
<1>3. Apart'
  BY DEF FailsBefore, StoreInv, TypeOK, Excl, Place, Clean, Settled, Fresh, Apart
<1> QED
  BY <1>1, <1>2, <1>3 DEF Clean

LEMMA FailsLinkedCleans ==
    ASSUME StoreInv, Clean, ~UndoMayFail, NEW u \in Updates, FailsLinked(u) PROVE Clean'
<1>1. Settled'
  BY DEF FailsLinked, StoreInv, TypeOK, Excl, Place, AtRest, Clean, Settled
<1>2. Fresh'
  BY DEF FailsLinked, StoreInv, TypeOK, Excl, Place, Clean, Settled, Fresh, Unwritten
<1>3. Apart'
  BY DEF FailsLinked, StoreInv, TypeOK, Excl, Place, Clean, Settled, Fresh, Apart
<1> QED
  BY <1>1, <1>2, <1>3 DEF Clean

LEMMA FailsQuarantinedCleans ==
    ASSUME StoreInv, Clean, ~UndoMayFail, NEW u \in Updates, FailsQuarantined(u) PROVE Clean'
<1>1. Settled'
  BY DEF FailsQuarantined, StoreInv, TypeOK, Excl, Place, AtRest, Clean, Settled
<1>2. Fresh'
  BY DEF FailsQuarantined, StoreInv, TypeOK, Excl, Place, Clean, Settled, Fresh, Unwritten
<1>3. Apart'
  BY DEF FailsQuarantined, StoreInv, TypeOK, Excl, Place, Clean, Settled, Fresh, Apart
<1> QED
  BY <1>1, <1>2, <1>3 DEF Clean

LEMMA FailsInactiveCleans ==
    ASSUME StoreInv, Clean, ~UndoMayFail, NEW u \in Updates, FailsInactive(u) PROVE Clean'
<1>1. Settled'
  BY DEF FailsInactive, StoreInv, TypeOK, Excl, Place, AtRest, Clean, Settled
<1>2. Fresh'
  BY DEF FailsInactive, StoreInv, TypeOK, Excl, Place, Clean, Settled, Fresh, Unwritten
<1>3. Apart'
  BY DEF FailsInactive, StoreInv, TypeOK, Excl, Place, Clean, Settled, Fresh, Apart
<1> QED
  BY <1>1, <1>2, <1>3 DEF Clean

LEMMA FailsActivatedCleans ==
    ASSUME StoreInv, Clean, ~UndoMayFail, NEW u \in Updates, FailsActivated(u) PROVE Clean'
<1>1. Settled'
  BY DEF FailsActivated, StoreInv, TypeOK, Excl, Place, AtRest, Clean, Settled
<1>2. Fresh'
  BY DEF FailsActivated, StoreInv, TypeOK, Excl, Place, Clean, Settled, Fresh, Unwritten
<1>3. Apart'
  BY DEF FailsActivated, StoreInv, TypeOK, Excl, Place, Clean, Settled, Fresh, Apart
<1> QED
  BY <1>1, <1>2, <1>3 DEF Clean

LEMMA DropCandidateCleans ==
    ASSUME StoreInv, Clean, ~UndoMayFail, NEW u \in Updates, DropCandidate(u) PROVE Clean'
<1>1. Settled'
  BY DEF DropCandidate, StoreInv, TypeOK, Excl, Place, AtRest, Clean, Settled
<1>2. Fresh'
  BY DEF DropCandidate, StoreInv, TypeOK, Excl, Place, Clean, Settled, Fresh, Unwritten
<1>3. Apart'
  BY DEF DropCandidate, StoreInv, TypeOK, Excl, Place, Clean, Settled, Fresh, Apart
<1> QED
  BY <1>1, <1>2, <1>3 DEF Clean

LEMMA UnlinkNewCleans ==
    ASSUME StoreInv, Clean, ~UndoMayFail, NEW u \in Updates, UnlinkNew(u) PROVE Clean'
<1>1. Settled'
  BY DEF UnlinkNew, StoreInv, TypeOK, Excl, Place, AtRest, Clean, Settled
<1>2. Fresh'
  BY DEF UnlinkNew, StoreInv, TypeOK, Excl, Place, Clean, Settled, Fresh, Unwritten
<1>3. Apart'
  BY DEF UnlinkNew, StoreInv, TypeOK, Excl, Place, Clean, Settled, Fresh, Apart
<1> QED
  BY <1>1, <1>2, <1>3 DEF Clean

LEMMA PutBackCleans ==
    ASSUME StoreInv, Clean, ~UndoMayFail, NEW u \in Updates, PutBack(u) PROVE Clean'
<1>1. Settled'
  BY DEF PutBack, StoreInv, TypeOK, Excl, Place, AtRest, Clean, Settled
<1>2. Fresh'
  BY DEF PutBack, StoreInv, TypeOK, Excl, Place, Clean, Settled, Fresh, Unwritten
<1>3. Apart'
  BY DEF PutBack, StoreInv, TypeOK, Excl, Place, Clean, Settled, Fresh, Apart
<1> QED
  BY <1>1, <1>2, <1>3 DEF Clean

LEMMA NextCleans ==
    ASSUME StoreInv, Clean, ~Kills, ~UndoMayFail, [Next]_vars PROVE Clean'
<1>1. ASSUME NEW u \in Updates, Writing(u) \/ Failing(u) PROVE Clean'
  <2>1. ~Kill(u)
    BY DEF Kill
  <2> QED
    BY <1>1, <2>1,
     LockCleans, LockFailsCleans, ReadStateCleans, StageCleans, LinkCleans,
     QuarantineCleans, UnlinkOldCleans, ActivateCleans, CommitCleans,
     RemoveBackupCleans, ReleaseCleans, FailsBeforeCleans, FailsLinkedCleans,
     FailsQuarantinedCleans, FailsInactiveCleans, FailsActivatedCleans,
     DropCandidateCleans, UnlinkNewCleans, PutBackCleans
     DEF Writing, Failing
<1>2. ASSUME NEW r \in Readers, ReadLock(r) \/ Read(r) PROVE Clean'
  <2>1. UNCHANGED <<target, bak, quar, debris, pc, writer, last>>
    BY <1>2 DEF ReadLock, Read
  <2> QED
    BY <2>1 DEF Clean, Settled, Fresh, Apart, Unwritten
<1>3. CASE UNCHANGED vars
  BY <1>3 DEF vars, Clean, Settled, Fresh, Apart, Unwritten
<1> QED
  BY <1>1, <1>2, <1>3 DEF Next

LEMMA InitClean == Init => Clean
BY DEF Init, Clean, Settled, Fresh, Apart, Unwritten

-----------------------------------------------------------------------------
(* Every variable of the state store keeps its type, and the lock at most  *)
(* one writer.                                                             *)
THEOREM StoreTypeCorrect == Spec => []TypeOK
<1>1. StoreInv => TypeOK
  BY DEF StoreInv
<1> QED
  BY StoreInvariant, <1>1, PTL

(* Whatever processes are killed and whatever undoing fails, the last      *)
(* state put in place is still in the directory under some name.           *)
THEOREM LastKept == Spec => []LastIsKept
<1>1. StoreInv => LastIsKept
  <2> SUFFICES ASSUME StoreInv PROVE LastIsKept
    OBVIOUS
  <2>1. CASE writer = {}
    BY <2>1 DEF StoreInv, Place, AtRest, LastIsKept
  <2>2. CASE writer # {}
    <3>1. PICK u \in Updates : pc[u] \in Holding
      BY <2>2 DEF StoreInv, TypeOK, Excl
    <3>2. last \subseteq target \union debris \union bak[u] \union quar[u]
      BY <3>1 DEF StoreInv, Place, AtRest
    <3> QED
      BY <3>2 DEF LastIsKept
  <2> QED
    BY <2>1, <2>2
<1> QED
  BY StoreInvariant, <1>1, PTL

(* A reader that gets a state gets the one last put in place, or, while    *)
(* state.json is missing, the initial one: the lock keeps it out of every  *)
(* write, and a killed writer has not put its state in place.              *)
THEOREM ReadersSettle == Spec => ReadsSettled
<1>1. ASSUME StoreInv, [Next]_vars
      PROVE  [\A r \in Readers : seen'[r] = seen[r] \/ seen'[r] \in {Content(last), {}}]_vars
  <2>1. CASE UNCHANGED vars
    BY <2>1
  <2>2. ASSUME NEW u \in Updates, Writing(u) \/ Failing(u) PROVE UNCHANGED seen
    BY <2>2 DEF Writing, Failing, Lock, LockFails, ReadState, Stage, Link, Quarantine,
       UnlinkOld, Activate, Commit, RemoveBackup, Release, FailsBefore, FailsLinked,
       FailsQuarantined, FailsInactive, FailsActivated, DropCandidate, UnlinkNew, PutBack, Kill
  <2>3. ASSUME NEW r \in Readers, ReadLock(r) PROVE UNCHANGED seen
    BY <2>3 DEF ReadLock
  <2>4. ASSUME NEW r \in Readers, Read(r)
        PROVE  \A s \in Readers : seen'[s] = seen[s] \/ seen'[s] \in {Content(last), {}}
    <3>1. target = last \/ target = {}
      <4>1. sharing # {}
        BY <2>4 DEF Read
      <4>2. writer = {}
        BY <1>1, <4>1 DEF StoreInv, Excl
      <4> QED
        BY <1>1, <4>2 DEF StoreInv, Place, AtRest
    <3>2. Content({}) = {}
      BY DEF Content
    <3>3. Content(target) \in {Content(last), {}}
      BY <3>1, <3>2
    <3>4. seen' = seen \/ seen' = [seen EXCEPT ![r] = Content(target)]
      BY <2>4 DEF Read
    <3>5. seen \in [Readers -> SUBSET Updates]
      BY <1>1 DEF StoreInv, TypeOK
    <3> QED
      BY <3>3, <3>4, <3>5
  <2> QED
    BY <1>1, <2>1, <2>2, <2>3, <2>4 DEF Next
<1> QED
  BY StoreInvariant, <1>1, PTL DEF Spec, ReadsSettled

(* Without kills, and if undoing never fails, StateStore is the register   *)
(* its callers rely on.                                                    *)
THEOREM Implements == ASSUME ~Kills, ~UndoMayFail PROVE Spec => IsRegister
<1>1. StoreInv /\ StoreInv' /\ [Next]_vars => [Register!RegNext]_Register!regVars
  BY StepRefines
<1> QED
  BY StoreInvariant, InitRefines, <1>1, PTL DEF Spec, IsRegister, Register!RegSpec

(* Without kills, and if undoing never fails, state.json is between writes *)
(* the file last put in place, and it has no second name, which would make *)
(* every later read and write refuse it.                                   *)
THEOREM StaysSound == ASSUME ~Kills, ~UndoMayFail PROVE Spec => []StoreStaysUsable
<1>1. StoreInv /\ Clean /\ [Next]_vars => Clean'
  BY NextCleans
<1>2. StoreInv /\ Clean => StoreStaysUsable
  <2> SUFFICES ASSUME StoreInv, Clean, writer = {} PROVE target = last /\ ~Hardlinked
    BY DEF StoreStaysUsable, TargetIsLast, StaysUsable
  <2>1. \A u \in Updates : bak[u] = {} /\ quar[u] = {}
    BY DEF StoreInv, TypeOK, Excl
  <2> QED
    BY <2>1 DEF Clean, Settled, Apart, Hardlinked
<1> QED
  BY StoreInvariant, InitClean, <1>1, <1>2, PTL DEF Spec

-----------------------------------------------------------------------------
(* PassphraseKey.  Before a weak passphrase leaves its path it is in the   *)
(* history, and it stays there: whoever writes the history again read it   *)
(* when it was there already, or is about to replace the weak file himself *)
(* (KeyIsSafe).                                                            *)
WeakInPath == keyTarget # Absent /\ keyTarget.key = "weak"

(* Where a command is once it has looked at the file it is to replace, and *)
(* once it has written the history.                                        *)
KeyLooked == {"reads", "keeps", "links", "compares", "removes", "claims", "checks", "undoes",
           "restores"}
KeyWrote == {"links", "compares", "removes", "claims", "checks", "activates", "undoes",
          "restores", "unlinks"}

KeyIsSeen == \A c \in Commands : keyAt[c] \in KeyLooked => keySeen[c] \in Files

KeyIsSafe ==
    "weak" \in used =>
        /\ "weak" \in history \/ WeakInPath
        /\ \A c \in Commands :
             /\ keyAt[c] = "keeps" => "weak" \in read[c] \cup {keySeen[c].key}
             /\ keyAt[c] \in KeyWrote => "weak" \in history

KeyInv == KeyTypeOK /\ KeyIsSeen /\ KeyIsSafe

KeyStep(c) ==
    \/ FindsNone(c) \/ ReadsKey(c) \/ FindsWeak(c) \/ Refused(c) \/ Makes(c) \/ MadeByAnother(c)
    \/ Inspects(c) \/ ReadsPrevious(c) \/ KeepsPrevious(c) \/ LinksTarget(c)
    \/ LinkIsRight(c) \/ LinkIsWrong(c) \/ SeesTarget(c) \/ ClaimsTarget(c) \/ RemovesTarget(c)
    \/ Activates(c) \/ Unlinks(c) \/ ActivatedByAnother(c)
    \/ Disturbed(c) \/ GivesBack(c) \/ UndoesLink(c) \/ MustRestore(c) \/ RestoresKey(c)
    \/ KeyKilled(c)

-----------------------------------------------------------------------------
LEMMA KeyTypeKept ==
    ASSUME KeyInv, NEW c \in Commands, KeyStep(c) PROVE KeyTypeOK'
<1>1. CASE FindsNone(c)
  BY <1>1 DEF FindsNone, KeyGoes, KeyInv, KeyTypeOK, Keys, Files
<1>2. CASE ReadsKey(c)
  BY <1>2 DEF ReadsKey, Encrypts, KeyInv, KeyTypeOK, Keys, Files, Private
<1>3. CASE FindsWeak(c)
  BY <1>3 DEF FindsWeak, KeyGoes, KeyInv, KeyTypeOK, Keys, Files
<1>4. CASE Refused(c)
  BY <1>4 DEF Refused, KeyInv, KeyTypeOK, Keys, Files
<1>5. CASE Makes(c)
  BY <1>5 DEF Makes, KeyGoes, Encrypts, Made, KeyInv, KeyTypeOK, Keys, Files
<1>6. CASE MadeByAnother(c)
  BY <1>6 DEF MadeByAnother, KeyGoes, KeyInv, KeyTypeOK, Keys, Files
<1>7. CASE Inspects(c)
  BY <1>7 DEF Inspects, KeyInv, KeyTypeOK, Keys, Files
<1>8. CASE ReadsPrevious(c)
  BY <1>8 DEF ReadsPrevious, KeyGoes, KeyInv, KeyTypeOK, Keys, Files
<1>9. CASE KeepsPrevious(c)
  BY <1>9 DEF KeepsPrevious, KeyGoes, KeyInv, KeyTypeOK, Keys, Files, KeyIsSeen,
     KeyLooked
<1>10. CASE LinksTarget(c)
  BY <1>10 DEF LinksTarget, KeyGoes, KeyInv, KeyTypeOK, Keys, Files
<1>11. CASE LinkIsRight(c)
  BY <1>11 DEF LinkIsRight, KeyGoes, KeyInv, KeyTypeOK, Keys, Files
<1>12. CASE LinkIsWrong(c)
  BY <1>12 DEF LinkIsWrong, KeyGoes, KeyInv, KeyTypeOK, Keys, Files
<1>13. CASE SeesTarget(c)
  BY <1>13 DEF SeesTarget, KeyGoes, KeyInv, KeyTypeOK, Keys, Files
<1>14. CASE ClaimsTarget(c)
  BY <1>14 DEF ClaimsTarget, KeyGoes, KeyInv, KeyTypeOK, Keys, Files
<1>15. CASE RemovesTarget(c)
  BY <1>15 DEF RemovesTarget, KeyGoes, KeyInv, KeyTypeOK, Keys, Files
<1>16. CASE Activates(c)
  BY <1>16 DEF Activates, KeyGoes, Made, KeyInv, KeyTypeOK, Keys, Files
<1>17. CASE Unlinks(c)
  BY <1>17 DEF Unlinks, KeyGoes, Encrypts, KeyInv, KeyTypeOK, Keys, Files
<1>18. CASE ActivatedByAnother(c)
  BY <1>18 DEF ActivatedByAnother, KeyGoes, KeyInv, KeyTypeOK, Keys, Files
<1>19. CASE Disturbed(c)
  BY <1>19 DEF Disturbed, KeyInv, KeyTypeOK, Keys, Files
<1>20. CASE GivesBack(c)
  BY <1>20 DEF GivesBack, KeyGoes, KeyInv, KeyTypeOK, Keys, Files
<1>21. CASE UndoesLink(c)
  BY <1>21 DEF UndoesLink, KeyGoes, KeyInv, KeyTypeOK, Keys, Files
<1>22. CASE MustRestore(c)
  BY <1>22 DEF MustRestore, KeyGoes, KeyInv, KeyTypeOK, Keys, Files
<1>23. CASE RestoresKey(c)
  BY <1>23 DEF RestoresKey, KeyGoes, Restored, KeyInv, KeyTypeOK, Keys, Files,
     KeyIsSeen, KeyLooked
<1>24. CASE KeyKilled(c)
  BY <1>24 DEF KeyKilled, KeyInv, KeyTypeOK, Keys, Files
<1> QED
  BY <1>1, <1>2, <1>3, <1>4, <1>5, <1>6, <1>7, <1>8, <1>9, <1>10, <1>11, <1>12,
     <1>13, <1>14, <1>15, <1>16, <1>17, <1>18, <1>19, <1>20, <1>21, <1>22, <1>23,
     <1>24 DEF KeyStep

LEMMA KeySeenKept ==
    ASSUME KeyInv, NEW c \in Commands, KeyStep(c) PROVE KeyIsSeen'
<1>1. CASE FindsNone(c)
  BY <1>1 DEF FindsNone, KeyGoes, KeyInv, KeyTypeOK, KeyIsSeen, KeyLooked
<1>2. CASE ReadsKey(c)
  BY <1>2 DEF ReadsKey, Encrypts, KeyInv, KeyTypeOK, KeyIsSeen, KeyLooked
<1>3. CASE FindsWeak(c)
  BY <1>3 DEF FindsWeak, KeyGoes, KeyInv, KeyTypeOK, KeyIsSeen, KeyLooked
<1>4. CASE Refused(c)
  BY <1>4 DEF Refused, KeyInv, KeyTypeOK, KeyIsSeen, KeyLooked
<1>5. CASE Makes(c)
  BY <1>5 DEF Makes, KeyGoes, Encrypts, Made, KeyInv, KeyTypeOK, KeyIsSeen,
     KeyLooked
<1>6. CASE MadeByAnother(c)
  BY <1>6 DEF MadeByAnother, KeyGoes, KeyInv, KeyTypeOK, KeyIsSeen, KeyLooked
<1>7. CASE Inspects(c)
  BY <1>7 DEF Inspects, KeyInv, KeyTypeOK, KeyIsSeen, KeyLooked
<1>8. CASE ReadsPrevious(c)
  BY <1>8 DEF ReadsPrevious, KeyGoes, KeyInv, KeyTypeOK, KeyIsSeen, KeyLooked
<1>9. CASE KeepsPrevious(c)
  BY <1>9 DEF KeepsPrevious, KeyGoes, KeyInv, KeyTypeOK, KeyIsSeen, KeyLooked
<1>10. CASE LinksTarget(c)
  BY <1>10 DEF LinksTarget, KeyGoes, KeyInv, KeyTypeOK, KeyIsSeen, KeyLooked
<1>11. CASE LinkIsRight(c)
  BY <1>11 DEF LinkIsRight, KeyGoes, KeyInv, KeyTypeOK, KeyIsSeen, KeyLooked
<1>12. CASE LinkIsWrong(c)
  BY <1>12 DEF LinkIsWrong, KeyGoes, KeyInv, KeyTypeOK, KeyIsSeen, KeyLooked
<1>13. CASE SeesTarget(c)
  BY <1>13 DEF SeesTarget, KeyGoes, KeyInv, KeyTypeOK, KeyIsSeen, KeyLooked
<1>14. CASE ClaimsTarget(c)
  BY <1>14 DEF ClaimsTarget, KeyGoes, KeyInv, KeyTypeOK, KeyIsSeen, KeyLooked
<1>15. CASE RemovesTarget(c)
  BY <1>15 DEF RemovesTarget, KeyGoes, KeyInv, KeyTypeOK, KeyIsSeen, KeyLooked
<1>16. CASE Activates(c)
  BY <1>16 DEF Activates, KeyGoes, Made, KeyInv, KeyTypeOK, KeyIsSeen, KeyLooked
<1>17. CASE Unlinks(c)
  BY <1>17 DEF Unlinks, KeyGoes, Encrypts, KeyInv, KeyTypeOK, KeyIsSeen, KeyLooked
<1>18. CASE ActivatedByAnother(c)
  BY <1>18 DEF ActivatedByAnother, KeyGoes, KeyInv, KeyTypeOK, KeyIsSeen,
     KeyLooked
<1>19. CASE Disturbed(c)
  BY <1>19 DEF Disturbed, KeyInv, KeyTypeOK, KeyIsSeen, KeyLooked
<1>20. CASE GivesBack(c)
  BY <1>20 DEF GivesBack, KeyGoes, KeyInv, KeyTypeOK, KeyIsSeen, KeyLooked
<1>21. CASE UndoesLink(c)
  BY <1>21 DEF UndoesLink, KeyGoes, KeyInv, KeyTypeOK, KeyIsSeen, KeyLooked
<1>22. CASE MustRestore(c)
  BY <1>22 DEF MustRestore, KeyGoes, KeyInv, KeyTypeOK, KeyIsSeen, KeyLooked
<1>23. CASE RestoresKey(c)
  BY <1>23 DEF RestoresKey, KeyGoes, Restored, KeyInv, KeyTypeOK, KeyIsSeen,
     KeyLooked
<1>24. CASE KeyKilled(c)
  BY <1>24 DEF KeyKilled, KeyInv, KeyTypeOK, KeyIsSeen, KeyLooked
<1> QED
  BY <1>1, <1>2, <1>3, <1>4, <1>5, <1>6, <1>7, <1>8, <1>9, <1>10, <1>11, <1>12,
     <1>13, <1>14, <1>15, <1>16, <1>17, <1>18, <1>19, <1>20, <1>21, <1>22, <1>23,
     <1>24 DEF KeyStep

LEMMA KeySafeKept ==
    ASSUME KeyInv, NEW c \in Commands, KeyStep(c) PROVE KeyIsSafe'
<1>1. CASE FindsNone(c)
  BY <1>1 DEF FindsNone, KeyGoes, KeyInv, KeyTypeOK, KeyIsSafe, KeyWrote,
     WeakInPath
<1>2. CASE ReadsKey(c)
  BY <1>2, KeyAssumption DEF ReadsKey, Encrypts, KeyInv, KeyTypeOK, KeyIsSafe,
     KeyWrote, WeakInPath, KeyAssumption
<1>3. CASE FindsWeak(c)
  BY <1>3 DEF FindsWeak, KeyGoes, KeyInv, KeyTypeOK, KeyIsSafe, KeyWrote,
     WeakInPath
<1>4. CASE Refused(c)
  BY <1>4 DEF Refused, KeyInv, KeyTypeOK, KeyIsSafe, KeyWrote, WeakInPath
<1>5. CASE Makes(c)
  BY <1>5, KeyAssumption DEF Makes, KeyGoes, Encrypts, Made, KeyInv, KeyTypeOK,
     KeyIsSafe, KeyWrote, WeakInPath, KeyAssumption
<1>6. CASE MadeByAnother(c)
  BY <1>6 DEF MadeByAnother, KeyGoes, KeyInv, KeyTypeOK, KeyIsSafe, KeyWrote,
     WeakInPath
<1>7. CASE Inspects(c)
  BY <1>7 DEF Inspects, KeyInv, KeyTypeOK, KeyIsSafe, KeyWrote, WeakInPath
<1>8. CASE ReadsPrevious(c)
  BY <1>8 DEF ReadsPrevious, KeyGoes, KeyInv, KeyTypeOK, KeyIsSafe, KeyWrote,
     WeakInPath
<1>9. CASE KeepsPrevious(c)
  BY <1>9 DEF KeepsPrevious, KeyGoes, KeyInv, KeyTypeOK, KeyIsSafe, KeyWrote,
     WeakInPath
<1>10. CASE LinksTarget(c)
  BY <1>10 DEF LinksTarget, KeyGoes, KeyInv, KeyTypeOK, KeyIsSafe, KeyWrote,
     WeakInPath
<1>11. CASE LinkIsRight(c)
  BY <1>11 DEF LinkIsRight, KeyGoes, KeyInv, KeyTypeOK, KeyIsSafe, KeyWrote,
     WeakInPath
<1>12. CASE LinkIsWrong(c)
  BY <1>12 DEF LinkIsWrong, KeyGoes, KeyInv, KeyTypeOK, KeyIsSafe, KeyWrote,
     WeakInPath
<1>13. CASE SeesTarget(c)
  BY <1>13 DEF SeesTarget, KeyGoes, KeyInv, KeyTypeOK, KeyIsSafe, KeyWrote,
     WeakInPath
<1>14. CASE ClaimsTarget(c)
  BY <1>14 DEF ClaimsTarget, KeyGoes, KeyInv, KeyTypeOK, KeyIsSafe, KeyWrote,
     WeakInPath
<1>15. CASE RemovesTarget(c)
  BY <1>15 DEF RemovesTarget, KeyGoes, KeyInv, KeyTypeOK, KeyIsSafe, KeyWrote,
     WeakInPath
<1>16. CASE Activates(c)
  BY <1>16 DEF Activates, KeyGoes, Made, KeyInv, KeyTypeOK, KeyIsSafe, KeyWrote,
     WeakInPath
<1>17. CASE Unlinks(c)
  BY <1>17, KeyAssumption DEF Unlinks, KeyGoes, Encrypts, KeyInv, KeyTypeOK,
     KeyIsSafe, KeyWrote, WeakInPath, KeyAssumption
<1>18. CASE ActivatedByAnother(c)
  BY <1>18 DEF ActivatedByAnother, KeyGoes, KeyInv, KeyTypeOK, KeyIsSafe,
     KeyWrote, WeakInPath
<1>19. CASE Disturbed(c)
  BY <1>19 DEF Disturbed, KeyInv, KeyTypeOK, KeyIsSafe, KeyWrote, WeakInPath
<1>20. CASE GivesBack(c)
  BY <1>20 DEF GivesBack, KeyGoes, KeyInv, KeyTypeOK, KeyIsSafe, KeyWrote,
     WeakInPath
<1>21. CASE UndoesLink(c)
  BY <1>21 DEF UndoesLink, KeyGoes, KeyInv, KeyTypeOK, KeyIsSafe, KeyWrote,
     WeakInPath
<1>22. CASE MustRestore(c)
  BY <1>22 DEF MustRestore, KeyGoes, KeyInv, KeyTypeOK, KeyIsSafe, KeyWrote,
     WeakInPath
<1>23. CASE RestoresKey(c)
  BY <1>23 DEF RestoresKey, KeyGoes, Restored, KeyInv, KeyTypeOK, KeyIsSafe,
     KeyWrote, WeakInPath
<1>24. CASE KeyKilled(c)
  BY <1>24 DEF KeyKilled, KeyInv, KeyTypeOK, KeyIsSafe, KeyWrote, WeakInPath
<1> QED
  BY <1>1, <1>2, <1>3, <1>4, <1>5, <1>6, <1>7, <1>8, <1>9, <1>10, <1>11, <1>12,
     <1>13, <1>14, <1>15, <1>16, <1>17, <1>18, <1>19, <1>20, <1>21, <1>22, <1>23,
     <1>24 DEF KeyStep

-----------------------------------------------------------------------------
LEMMA InitKey == KeyInit => KeyInv
<1> SUFFICES ASSUME KeyInit PROVE KeyInv
  OBVIOUS
<1>1. KeyTypeOK
  BY DEF KeyInit, KeyTypeOK, Weak, Keys, Files
<1>2. KeyIsSeen
  BY DEF KeyInit, KeyIsSeen, KeyLooked
<1>3. KeyIsSafe
  BY KeyAssumption DEF KeyAssumption, KeyInit, KeyIsSafe, KeyWrote, WeakInPath,
     Weak, Keys, Files
<1> QED
  BY <1>1, <1>2, <1>3 DEF KeyInv

LEMMA KeyInvariant == KeySpec => []KeyInv
<1>1. ASSUME KeyInv, [KeyNext]_keyVars PROVE KeyInv'
  <2>1. CASE KeyNext
    <3>1. PICK c \in Commands : KeyStep(c)
      BY <2>1 DEF KeyNext, KeyStep
    <3> QED
      BY <1>1, <3>1, KeyTypeKept, KeySeenKept, KeySafeKept DEF KeyInv
  <2>2. CASE UNCHANGED keyVars
    BY <1>1, <2>2 DEF keyVars, KeyInv, KeyTypeOK, KeyIsSeen, KeyIsSafe, WeakInPath
  <2> QED
    BY <1>1, <2>1, <2>2
<1> QED
  BY InitKey, <1>1, PTL DEF KeySpec

(* Every variable of the passphrase file keeps its type.                   *)
THEOREM KeyTypeCorrect == KeySpec => []KeyTypeOK
<1>1. KeyInv => KeyTypeOK
  BY DEF KeyInv
<1> QED
  BY KeyInvariant, <1>1, PTL

(* However many commands replace a weak passphrase at one time, and        *)
(* wherever they are killed, what it has encrypted can be decrypted.       *)
THEOREM StaysReadable == KeySpec => []EarlierIsReadable
<1>1. KeyInv => EarlierIsReadable
  BY DEF KeyInv, KeyIsSafe, WeakInPath, EarlierIsReadable
<1> QED
  BY KeyInvariant, <1>1, PTL

-----------------------------------------------------------------------------
(* Transcription.  Who is past the lock holds it alone, and what it found  *)
(* on the path, keeps and puts back is a whole text (Sound).               *)
(* Where a command holds the lock of the directory.                        *)
LockedSteps == {"snapshots", "stages", "runs", "reads", "captures", "restores", "unstages", "unlocks"}

OneHolder == \A c \in Transcribers : step[c] \in LockedSteps <=> directoryLock = c

(* What is true of a command nobody has disturbed, wherever it is: what its *)
(* file is, and what its text is of.                                       *)
Own(c) == Text(c, audioSeen[c])

SoundFile(c) ==
    /\ step[c] = "stages" /\ backend[c] \notin {"cpp", "output"} => Generated(c) = earlier[c]
    /\ step[c] = "runs" /\ backend[c] # "output" =>
         /\ Generated(c) \in {earlier[c], Begun(c), Own(c)}
         /\ program[c] = "wrote" => Generated(c) = Own(c)
    /\ step[c] = "reads" => Generated(c) \in {earlier[c], Own(c)}
    /\ step[c] = "unstages" /\ backend[c] \in Templates /\ ~failed[c] =>
         Generated(c) \in {earlier[c], Own(c)}
    /\ step[c] = "unstages" /\ backend[c] = "whisper" /\ ~spoilt[c] => shared = earlier[c]
    /\ step[c] = "unlocks" /\ backend[c] \in OnStem /\ ~spoilt[c] => shared = earlier[c]

SoundText(c) ==
    /\ step[c] \in {"restores", "unstages", "unlocks"} /\ ~failed[c] => text[c] = Own(c)
    /\ step[c] = "reads" /\ backend[c] \in Templates => text[c] = Own(c)
    /\ step[c] \in {"returned", "stored"} => text[c] = Own(c)

(* The copy is of the audio that was seen, the program runs once, and only  *)
(* after a failure is the file captured in a step of its own.              *)
Following(c) ==
    /\ step[c] = "runs" \/ (step[c] = "snapshots" /\ backend[c] = "cpp") => staged[c] = audioSeen[c]
    /\ step[c] \in {"idle", "locks", "snapshots", "stages"} => program[c] = "off"
    /\ step[c] = "captures" => failed[c]

Sound(c) == Following(c) /\ (disturbed[c] \/ (SoundFile(c) /\ SoundText(c)))

TranscriptionInv == TranscriptionTypeOK /\ OneHolder /\ \A c \in Transcribers : Sound(c)

TranscriptionStep(c) ==
    \/ Preflight(c) \/ IsBusy(c) \/ Locks(c) \/ Snapshots(c) \/ Stages(c)
    \/ FindsOtherAudio(c) \/ Starts(c) \/ ProgramWrites(c) \/ ProgramEnds(c) \/ ProgramFails(c)
    \/ WorkerAnswers(c) \/ WorkerFails(c) \/ ReadsFile(c) \/ CannotRead(c) \/ FindsNoFile(c)
    \/ ReadsAnswer(c) \/ Captures(c) \/ RestoresEarlier(c) \/ LeavesWork(c) \/ CannotRestore(c)
    \/ Unstages(c) \/ Refuses(c) \/ Unlocks(c) \/ Sends(c) \/ Resends(c)
    \/ Stores(c) \/ CommandKilled(c) \/ OrphanWrites(c) \/ AudioChanges(c)

CommandSteps == {"idle", "locks", "snapshots", "stages", "runs", "reads", "captures", "restores",
          "unstages", "unlocks", "sends", "resends", "returned", "stored", "failed", "killed"}

LEMMA TranscriptionTypeKept ==
    ASSUME TranscriptionTypeOK, NEW c \in Transcribers, TranscriptionStep(c) PROVE TranscriptionTypeOK'
<1>1. CASE Preflight(c)
  BY <1>1 DEF Preflight, At, Proceeds, Quiet, NoFiles, Identified, FirstStep,
     TranscriptionTypeOK, Texts, NoFile, Backends, Text
<1>2. CASE IsBusy(c)
  BY <1>2 DEF IsBusy, At, Proceeds, Raises, Quiet, NoFiles, TranscriptionTypeOK,
     Texts, NoFile, Backends, Text
<1>3. CASE Locks(c)
  BY <1>3 DEF Locks, At, Proceeds, Quiet, NoFiles, commandVars, AfterLock,
     TranscriptionTypeOK, Texts, NoFile, Backends, Text
<1>4. CASE Snapshots(c)
  BY <1>4 DEF Snapshots, At, Proceeds, Quiet, NoFiles, Generated, OnStem,
     AfterSnapshot, TranscriptionTypeOK, Texts, NoFile, Backends, Text
<1>5. CASE Stages(c)
  BY <1>5 DEF Stages, At, Proceeds, Quiet, NoFiles, SameAudio, RemovesOld,
     OldCopies, AfterStaging, TranscriptionTypeOK, Texts, NoFile, Backends, Text
<1>6. CASE FindsOtherAudio(c)
  BY <1>6 DEF FindsOtherAudio, At, Proceeds, Raises, Quiet, NoFiles, RemovesOld,
     OldCopies, Templates, TranscriptionTypeOK, Texts, NoFile, Backends, Text
<1>7. CASE Starts(c)
  BY <1>7 DEF Starts, At, Quiet, NoFiles, TranscriptionTypeOK, Texts, NoFile,
     Backends, Text
<1>8. CASE ProgramWrites(c)
  <2>1. Begun(c) \in Texts /\ Transcript(c) \in Texts
    BY DEF TranscriptionTypeOK, Texts, Text, Begun, Transcript
  <2>2. ASSUME NEW t \in Texts, WritesOutput(c, t)
        PROVE  shared' \in Texts /\ work' \in [Transcribers -> Texts]
    BY <2>2 DEF WritesOutput, TranscriptionTypeOK
  <2>3. shared' \in Texts /\ work' \in [Transcribers -> Texts]
    BY <1>8, <2>1, <2>2 DEF ProgramWrites
  <2> QED
    BY <1>8, <2>3 DEF ProgramWrites, TranscriptionTypeOK
<1>9. CASE ProgramEnds(c)
  BY <1>9 DEF ProgramEnds, At, Proceeds, Quiet, NoFiles, Generated, OnStem,
     Transcript, Text, Templates, AfterProgram, TranscriptionTypeOK, Texts,
     NoFile, Backends
<1>10. CASE ProgramFails(c)
  BY <1>10 DEF ProgramFails, At, Proceeds, Raises, Quiet, NoFiles, AfterFailure,
     Templates, TranscriptionTypeOK, Texts, NoFile, Backends, Text
<1>11. CASE WorkerAnswers(c)
  BY <1>11 DEF WorkerAnswers, At, Proceeds, Quiet, NoFiles, Transcript, Text,
     TranscriptionTypeOK, Texts, NoFile, Backends
<1>12. CASE WorkerFails(c)
  BY <1>12 DEF WorkerFails, At, Proceeds, Raises, Quiet, NoFiles,
     TranscriptionTypeOK, Texts, NoFile, Backends, Text
<1>13. CASE ReadsFile(c)
  BY <1>13 DEF ReadsFile, At, Proceeds, Quiet, NoFiles, IsWritten, Generated,
     OnStem, ReadsText, TranscriptionTypeOK, Texts, NoFile, Backends, Text
<1>14. CASE CannotRead(c)
  BY <1>14 DEF CannotRead, At, Proceeds, Raises, Quiet, NoFiles, IsWritten,
     Generated, OnStem, TranscriptionTypeOK, Texts, NoFile, Backends, Text
<1>15. CASE FindsNoFile(c)
  BY <1>15 DEF FindsNoFile, At, Proceeds, Raises, Quiet, NoFiles, IsWritten,
     Generated, OnStem, Templates, TranscriptionTypeOK, Texts, NoFile, Backends,
     Text
<1>16. CASE ReadsAnswer(c)
  BY <1>16 DEF ReadsAnswer, At, Proceeds, Quiet, NoFiles, Generated, OnStem,
     commandVars, Templates, TranscriptionTypeOK, Texts, NoFile, Backends, Text
<1>17. CASE Captures(c)
  BY <1>17 DEF Captures, At, Proceeds, Quiet, NoFiles, Generated, OnStem,
     TranscriptionTypeOK, Texts, NoFile, Backends, Text
<1>18. CASE RestoresEarlier(c)
  BY <1>18 DEF RestoresEarlier, At, Proceeds, Quiet, PutsBack, WritesOutput,
     OnStem, Generated, commandVars, AfterRestoring, Templates,
     TranscriptionTypeOK, Texts, NoFile, Backends, Text
<1>19. CASE LeavesWork(c)
  BY <1>19 DEF LeavesWork, At, Proceeds, Quiet, NoFiles, commandVars,
     TranscriptionTypeOK, Texts, NoFile, Backends, Text
<1>20. CASE CannotRestore(c)
  <2>1. transcriptionFaults' \in 0..MaxTranscriptionFaults
    BY <1>20, TranscriptionAssumption DEF CannotRestore, TranscriptionAssumption, TranscriptionTypeOK
  <2> QED
    BY <1>20, <2>1 DEF CannotRestore, Proceeds, Raises, Quiet, NoFiles, AfterRestoring, Templates, TranscriptionTypeOK
<1>21. CASE Unstages(c)
  <2>1. transcriptionFaults' \in 0..MaxTranscriptionFaults
    BY <1>21, TranscriptionAssumption DEF Unstages, TranscriptionAssumption, TranscriptionTypeOK
  <2>2. failed' \in [Transcribers -> BOOLEAN] /\ staged' \in [Transcribers -> 0..2]
    <3>1. CASE UNCHANGED failed
      BY <1>21, <3>1 DEF Unstages, TranscriptionTypeOK
    <3>2. CASE Raises(c)
      BY <1>21, <3>2 DEF Unstages, Raises, TranscriptionTypeOK
    <3> QED
      BY <1>21, <3>1, <3>2 DEF Unstages
  <2> QED
    BY <1>21, <2>1, <2>2 DEF Unstages, Proceeds, Quiet, NoFiles, Templates, TranscriptionTypeOK
<1>22. CASE Refuses(c)
  BY <1>22 DEF Refuses, At, Raises, Quiet, NoFiles, TranscriptionTypeOK, Texts,
     NoFile, Backends, Text
<1>23. CASE Unlocks(c)
  BY <1>23 DEF Unlocks, At, Proceeds, Quiet, NoFiles, commandVars,
     TranscriptionTypeOK, Texts, NoFile, Backends, Text
<1>24. CASE Sends(c)
  <2>1. Text(c, audio[c]) \in Texts
    BY DEF TranscriptionTypeOK, Texts, Text
  <2>2. failed' \in [Transcribers -> BOOLEAN]
    <3>1. CASE UNCHANGED failed
      BY <3>1 DEF TranscriptionTypeOK
    <3>2. CASE Raises(c)
      BY <3>2 DEF Raises, TranscriptionTypeOK
    <3> QED
      BY <1>24, <3>1, <3>2 DEF Sends
  <2>3. text' \in [Transcribers -> Texts] /\ step' \in [Transcribers -> CommandSteps]
    BY <1>24, <2>1 DEF Sends, Answered, Proceeds, TranscriptionTypeOK, CommandSteps
  <2> QED
    BY <1>24, <2>2, <2>3 DEF Sends, Quiet, NoFiles, TranscriptionTypeOK, CommandSteps
<1>25. CASE Resends(c)
  <2>1. Text(c, audio[c]) \in Texts
    BY DEF TranscriptionTypeOK, Texts, Text
  <2>2. failed' \in [Transcribers -> BOOLEAN]
    <3>1. CASE UNCHANGED failed
      BY <3>1 DEF TranscriptionTypeOK
    <3>2. CASE Raises(c)
      BY <3>2 DEF Raises, TranscriptionTypeOK
    <3> QED
      BY <1>25, <3>1, <3>2 DEF Resends
  <2>3. text' \in [Transcribers -> Texts] /\ step' \in [Transcribers -> CommandSteps]
    BY <1>25, <2>1 DEF Resends, Answered, Proceeds, TranscriptionTypeOK, CommandSteps
  <2> QED
    BY <1>25, <2>2, <2>3 DEF Resends, Quiet, NoFiles, TranscriptionTypeOK, CommandSteps
<1>26. CASE Stores(c)
  BY <1>26 DEF Stores, At, Proceeds, Disturbs, OnStem, commandVars,
     TranscriptionTypeOK, Texts, NoFile, Backends, Text
<1>27. CASE CommandKilled(c)
  BY <1>27 DEF CommandKilled, Proceeds, Quiet, NoFiles, TranscriptionTypeOK,
     Texts, NoFile, Backends, Text
<1>28. CASE OrphanWrites(c)
  BY <1>28 DEF OrphanWrites, At, Disturbs, OnStem, Text, TranscriptionTypeOK,
     Texts, NoFile, Backends
<1>29. CASE AudioChanges(c)
  BY <1>29 DEF AudioChanges, NoFiles, commandVars, TranscriptionTypeOK, Texts,
     NoFile, Backends, Text
<1> QED
  BY <1>1, <1>2, <1>3, <1>4, <1>5, <1>6, <1>7, <1>8, <1>9, <1>10, <1>11, <1>12,
     <1>13, <1>14, <1>15, <1>16, <1>17, <1>18, <1>19, <1>20, <1>21, <1>22, <1>23,
     <1>24, <1>25, <1>26, <1>27, <1>28, <1>29 DEF TranscriptionStep

LEMMA OneHolderKept ==
    ASSUME TranscriptionTypeOK, OneHolder, NEW c \in Transcribers, TranscriptionStep(c) PROVE OneHolder'
<1>1. CASE Preflight(c)
  BY <1>1, TranscriptionAssumption DEF Preflight, At, Proceeds, Quiet, NoFiles,
     Identified, FirstStep, TranscriptionAssumption, TranscriptionTypeOK,
     OneHolder, LockedSteps
<1>2. CASE IsBusy(c)
  BY <1>2, TranscriptionAssumption DEF IsBusy, At, Proceeds, Raises, Quiet,
     NoFiles, TranscriptionAssumption, TranscriptionTypeOK, OneHolder, LockedSteps
<1>3. CASE Locks(c)
  BY <1>3, TranscriptionAssumption DEF Locks, At, Proceeds, Quiet, NoFiles,
     commandVars, AfterLock, TranscriptionAssumption, TranscriptionTypeOK,
     OneHolder, LockedSteps
<1>4. CASE Snapshots(c)
  BY <1>4 DEF Snapshots, At, Proceeds, Quiet, NoFiles, Generated, OnStem,
     AfterSnapshot, TranscriptionTypeOK, OneHolder, LockedSteps
<1>5. CASE Stages(c)
  BY <1>5 DEF Stages, At, Proceeds, Quiet, NoFiles, SameAudio, RemovesOld,
     OldCopies, AfterStaging, TranscriptionTypeOK, OneHolder, LockedSteps
<1>6. CASE FindsOtherAudio(c)
  BY <1>6 DEF FindsOtherAudio, At, Proceeds, Raises, Quiet, NoFiles, RemovesOld,
     OldCopies, Templates, TranscriptionTypeOK, OneHolder, LockedSteps
<1>7. CASE Starts(c)
  BY <1>7 DEF Starts, At, Quiet, NoFiles, TranscriptionTypeOK, OneHolder,
     LockedSteps
<1>8. CASE ProgramWrites(c)
  BY <1>8 DEF ProgramWrites, At, WritesOutput, OnStem, Generated, Transcript,
     Text, Begun, TranscriptionTypeOK, OneHolder, LockedSteps
<1>9. CASE ProgramEnds(c)
  BY <1>9 DEF ProgramEnds, At, Proceeds, Quiet, NoFiles, Generated, OnStem,
     Transcript, Text, Templates, AfterProgram, TranscriptionTypeOK, OneHolder,
     LockedSteps
<1>10. CASE ProgramFails(c)
  BY <1>10 DEF ProgramFails, At, Proceeds, Raises, Quiet, NoFiles, AfterFailure,
     Templates, TranscriptionTypeOK, OneHolder, LockedSteps
<1>11. CASE WorkerAnswers(c)
  BY <1>11 DEF WorkerAnswers, At, Proceeds, Quiet, NoFiles, Transcript, Text,
     TranscriptionTypeOK, OneHolder, LockedSteps
<1>12. CASE WorkerFails(c)
  BY <1>12 DEF WorkerFails, At, Proceeds, Raises, Quiet, NoFiles,
     TranscriptionTypeOK, OneHolder, LockedSteps
<1>13. CASE ReadsFile(c)
  BY <1>13 DEF ReadsFile, At, Proceeds, Quiet, NoFiles, IsWritten, Generated,
     OnStem, ReadsText, TranscriptionTypeOK, OneHolder, LockedSteps
<1>14. CASE CannotRead(c)
  BY <1>14 DEF CannotRead, At, Proceeds, Raises, Quiet, NoFiles, IsWritten,
     Generated, OnStem, TranscriptionTypeOK, OneHolder, LockedSteps
<1>15. CASE FindsNoFile(c)
  BY <1>15 DEF FindsNoFile, At, Proceeds, Raises, Quiet, NoFiles, IsWritten,
     Generated, OnStem, Templates, TranscriptionTypeOK, OneHolder, LockedSteps
<1>16. CASE ReadsAnswer(c)
  BY <1>16 DEF ReadsAnswer, At, Proceeds, Quiet, NoFiles, Generated, OnStem,
     commandVars, Templates, TranscriptionTypeOK, OneHolder, LockedSteps
<1>17. CASE Captures(c)
  BY <1>17 DEF Captures, At, Proceeds, Quiet, NoFiles, Generated, OnStem,
     TranscriptionTypeOK, OneHolder, LockedSteps
<1>18. CASE RestoresEarlier(c)
  BY <1>18 DEF RestoresEarlier, At, Proceeds, Quiet, PutsBack, WritesOutput,
     OnStem, Generated, commandVars, AfterRestoring, Templates,
     TranscriptionTypeOK, OneHolder, LockedSteps
<1>19. CASE LeavesWork(c)
  BY <1>19 DEF LeavesWork, At, Proceeds, Quiet, NoFiles, commandVars,
     TranscriptionTypeOK, OneHolder, LockedSteps
<1>20. CASE CannotRestore(c)
  BY <1>20 DEF CannotRestore, At, Proceeds, Raises, Quiet, NoFiles, Generated,
     OnStem, AfterRestoring, Templates, TranscriptionTypeOK, OneHolder,
     LockedSteps
<1>21. CASE Unstages(c)
  BY <1>21 DEF Unstages, At, Proceeds, Raises, Quiet, NoFiles, Templates,
     TranscriptionTypeOK, OneHolder, LockedSteps
<1>22. CASE Refuses(c)
  BY <1>22 DEF Refuses, At, Raises, Quiet, NoFiles, TranscriptionTypeOK,
     OneHolder, LockedSteps
<1>23. CASE Unlocks(c)
  BY <1>23, TranscriptionAssumption DEF Unlocks, At, Proceeds, Quiet, NoFiles,
     commandVars, TranscriptionAssumption, TranscriptionTypeOK, OneHolder,
     LockedSteps
<1>24. CASE Sends(c)
  BY <1>24, TranscriptionAssumption DEF Sends, At, Proceeds, Raises, Quiet,
     NoFiles, Asks, SameAudio, Answered, Text, TranscriptionAssumption,
     TranscriptionTypeOK, OneHolder, LockedSteps
<1>25. CASE Resends(c)
  BY <1>25, TranscriptionAssumption DEF Resends, At, Proceeds, Raises, Quiet,
     NoFiles, Asks, SameAudio, Answered, Text, TranscriptionAssumption,
     TranscriptionTypeOK, OneHolder, LockedSteps
<1>26. CASE Stores(c)
  BY <1>26, TranscriptionAssumption DEF Stores, At, Proceeds, Disturbs, OnStem,
     commandVars, TranscriptionAssumption, TranscriptionTypeOK, OneHolder,
     LockedSteps
<1>27. CASE CommandKilled(c)
  BY <1>27, TranscriptionAssumption DEF CommandKilled, Proceeds, Quiet, NoFiles,
     TranscriptionAssumption, TranscriptionTypeOK, OneHolder, LockedSteps
<1>28. CASE OrphanWrites(c)
  BY <1>28 DEF OrphanWrites, At, Disturbs, OnStem, Text, TranscriptionTypeOK,
     OneHolder, LockedSteps
<1>29. CASE AudioChanges(c)
  BY <1>29 DEF AudioChanges, NoFiles, commandVars, TranscriptionTypeOK, OneHolder,
     LockedSteps
<1> QED
  BY <1>1, <1>2, <1>3, <1>4, <1>5, <1>6, <1>7, <1>8, <1>9, <1>10, <1>11, <1>12,
     <1>13, <1>14, <1>15, <1>16, <1>17, <1>18, <1>19, <1>20, <1>21, <1>22, <1>23,
     <1>24, <1>25, <1>26, <1>27, <1>28, <1>29 DEF TranscriptionStep

LEMMA SoundOfActor ==
    ASSUME TranscriptionTypeOK, OneHolder, NEW c \in Transcribers, TranscriptionStep(c), Sound(c) PROVE Sound(c)'
<1>1. CASE Preflight(c)
  BY <1>1 DEF Preflight, At, Proceeds, Quiet, NoFiles, Identified, FirstStep, Own,
     Templates, OnStem, Following, SoundFile, SoundText, Sound,
     TranscriptionTypeOK, Generated, Transcript, Text, Begun, NoFile
<1>2. CASE IsBusy(c)
  BY <1>2 DEF IsBusy, At, Proceeds, Raises, Quiet, NoFiles, Own, Templates,
     OnStem, Following, SoundFile, SoundText, Sound, TranscriptionTypeOK,
     Generated, Transcript, Text, Begun, NoFile
<1>3. CASE Locks(c)
  BY <1>3 DEF Locks, At, Proceeds, Quiet, NoFiles, commandVars, AfterLock, Own,
     Templates, OnStem, Following, SoundFile, SoundText, Sound,
     TranscriptionTypeOK, Generated, Transcript, Text, Begun, NoFile
<1>4. CASE Snapshots(c)
  BY <1>4 DEF Snapshots, At, Proceeds, Quiet, NoFiles, Generated, OnStem,
     AfterSnapshot, Own, Templates, Following, SoundFile, SoundText, Sound,
     TranscriptionTypeOK, Transcript, Text, Begun, NoFile
<1>5. CASE Stages(c)
  BY <1>5 DEF Stages, At, Proceeds, Quiet, NoFiles, SameAudio, RemovesOld,
     OldCopies, AfterStaging, Own, Templates, OnStem, Following, SoundFile,
     SoundText, Sound, TranscriptionTypeOK, Generated, Transcript, Text, Begun,
     NoFile
<1>6. CASE FindsOtherAudio(c)
  BY <1>6 DEF FindsOtherAudio, At, Proceeds, Raises, Quiet, NoFiles, RemovesOld,
     OldCopies, Templates, Own, OnStem, Following, SoundFile, SoundText, Sound,
     TranscriptionTypeOK, Generated, Transcript, Text, Begun, NoFile
<1>7. CASE Starts(c)
  BY <1>7 DEF Starts, At, Quiet, NoFiles, Own, Templates, OnStem, Following,
     SoundFile, SoundText, Sound, TranscriptionTypeOK, Generated, Transcript,
     Text, Begun, NoFile
<1>8. CASE ProgramWrites(c)
  BY <1>8 DEF ProgramWrites, At, WritesOutput, OnStem, Generated, Transcript,
     Text, Begun, Own, Templates, Following, SoundFile, SoundText, Sound,
     TranscriptionTypeOK, NoFile
<1>9. CASE ProgramEnds(c)
  BY <1>9 DEF ProgramEnds, At, Proceeds, Quiet, NoFiles, Generated, OnStem,
     Transcript, Text, Templates, AfterProgram, Own, Following, SoundFile,
     SoundText, Sound, TranscriptionTypeOK, Begun, NoFile
<1>10. CASE ProgramFails(c)
  BY <1>10 DEF ProgramFails, At, Proceeds, Raises, Quiet, NoFiles, AfterFailure,
     Templates, Own, OnStem, Following, SoundFile, SoundText, Sound,
     TranscriptionTypeOK, Generated, Transcript, Text, Begun, NoFile
<1>11. CASE WorkerAnswers(c)
  BY <1>11 DEF WorkerAnswers, At, Proceeds, Quiet, NoFiles, Transcript, Text, Own,
     Templates, OnStem, Following, SoundFile, SoundText, Sound,
     TranscriptionTypeOK, Generated, Begun, NoFile
<1>12. CASE WorkerFails(c)
  BY <1>12 DEF WorkerFails, At, Proceeds, Raises, Quiet, NoFiles, Own, Templates,
     OnStem, Following, SoundFile, SoundText, Sound, TranscriptionTypeOK,
     Generated, Transcript, Text, Begun, NoFile
<1>13. CASE ReadsFile(c)
  BY <1>13 DEF ReadsFile, At, Proceeds, Quiet, NoFiles, IsWritten, Generated,
     OnStem, ReadsText, Own, Templates, Following, SoundFile, SoundText, Sound,
     TranscriptionTypeOK, Transcript, Text, Begun, NoFile
<1>14. CASE CannotRead(c)
  BY <1>14 DEF CannotRead, At, Proceeds, Raises, Quiet, NoFiles, IsWritten,
     Generated, OnStem, Own, Templates, Following, SoundFile, SoundText, Sound,
     TranscriptionTypeOK, Transcript, Text, Begun, NoFile
<1>15. CASE FindsNoFile(c)
  BY <1>15 DEF FindsNoFile, At, Proceeds, Raises, Quiet, NoFiles, IsWritten,
     Generated, OnStem, Templates, Own, Following, SoundFile, SoundText, Sound,
     TranscriptionTypeOK, Transcript, Text, Begun, NoFile
<1>16. CASE ReadsAnswer(c)
  BY <1>16, TranscriptionAssumption DEF ReadsAnswer, At, Proceeds, Quiet, NoFiles,
     Generated, OnStem, commandVars, Templates, TranscriptionAssumption, Own,
     Following, SoundFile, SoundText, Sound, TranscriptionTypeOK, Transcript,
     Text, Begun, NoFile
<1>17. CASE Captures(c)
  BY <1>17 DEF Captures, At, Proceeds, Quiet, NoFiles, Generated, OnStem, Own,
     Templates, Following, SoundFile, SoundText, Sound, TranscriptionTypeOK,
     Transcript, Text, Begun, NoFile
<1>18. CASE RestoresEarlier(c)
  BY <1>18 DEF RestoresEarlier, At, Proceeds, Quiet, PutsBack, WritesOutput,
     OnStem, Generated, commandVars, AfterRestoring, Templates, Own, Following,
     SoundFile, SoundText, Sound, TranscriptionTypeOK, Transcript, Text, Begun,
     NoFile
<1>19. CASE LeavesWork(c)
  BY <1>19 DEF LeavesWork, At, Proceeds, Quiet, NoFiles, commandVars, Own,
     Templates, OnStem, Following, SoundFile, SoundText, Sound,
     TranscriptionTypeOK, Generated, Transcript, Text, Begun, NoFile
<1>20. CASE CannotRestore(c)
  BY <1>20 DEF CannotRestore, At, Proceeds, Raises, Quiet, NoFiles, Generated,
     OnStem, AfterRestoring, Templates, Own, Following, SoundFile, SoundText,
     Sound, TranscriptionTypeOK, Transcript, Text, Begun, NoFile
<1>21. CASE Unstages(c)
  BY <1>21 DEF Unstages, At, Proceeds, Raises, Quiet, NoFiles, Templates, Own,
     OnStem, Following, SoundFile, SoundText, Sound, TranscriptionTypeOK,
     Generated, Transcript, Text, Begun, NoFile
<1>22. CASE Refuses(c)
  BY <1>22 DEF Refuses, At, Raises, Quiet, NoFiles, Own, Templates, OnStem,
     Following, SoundFile, SoundText, Sound, TranscriptionTypeOK, Generated,
     Transcript, Text, Begun, NoFile
<1>23. CASE Unlocks(c)
  BY <1>23 DEF Unlocks, At, Proceeds, Quiet, NoFiles, commandVars, Own, Templates,
     OnStem, Following, SoundFile, SoundText, Sound, TranscriptionTypeOK,
     Generated, Transcript, Text, Begun, NoFile
<1>24. CASE Sends(c)
  BY <1>24 DEF Sends, At, Proceeds, Raises, Quiet, NoFiles, Asks, SameAudio,
     Answered, Text, Own, Templates, OnStem, Following, SoundFile, SoundText,
     Sound, TranscriptionTypeOK, Generated, Transcript, Begun, NoFile
<1>25. CASE Resends(c)
  BY <1>25 DEF Resends, At, Proceeds, Raises, Quiet, NoFiles, Asks, SameAudio,
     Answered, Text, Own, Templates, OnStem, Following, SoundFile, SoundText,
     Sound, TranscriptionTypeOK, Generated, Transcript, Begun, NoFile
<1>26. CASE Stores(c)
  BY <1>26 DEF Stores, At, Proceeds, Disturbs, OnStem, commandVars, Own,
     Templates, Following, SoundFile, SoundText, Sound, TranscriptionTypeOK,
     Generated, Transcript, Text, Begun, NoFile
<1>27. CASE CommandKilled(c)
  BY <1>27 DEF CommandKilled, Proceeds, Quiet, NoFiles, Own, Templates, OnStem,
     Following, SoundFile, SoundText, Sound, TranscriptionTypeOK, Generated,
     Transcript, Text, Begun, NoFile
<1>28. CASE OrphanWrites(c)
  BY <1>28 DEF OrphanWrites, At, Disturbs, OnStem, Text, Own, Templates,
     Following, SoundFile, SoundText, Sound, TranscriptionTypeOK, Generated,
     Transcript, Begun, NoFile
<1>29. CASE AudioChanges(c)
  BY <1>29 DEF AudioChanges, NoFiles, commandVars, Own, Templates, OnStem,
     Following, SoundFile, SoundText, Sound, TranscriptionTypeOK, Generated,
     Transcript, Text, Begun, NoFile
<1> QED
  BY <1>1, <1>2, <1>3, <1>4, <1>5, <1>6, <1>7, <1>8, <1>9, <1>10, <1>11, <1>12,
     <1>13, <1>14, <1>15, <1>16, <1>17, <1>18, <1>19, <1>20, <1>21, <1>22, <1>23,
     <1>24, <1>25, <1>26, <1>27, <1>28, <1>29 DEF TranscriptionStep

(* The others are where they were, with what they had, but for a private   *)
(* copy of somebody killed; and <stem>.txt is not changed under one that   *)
(* holds the lock without disturbing it.                                   *)
Untouched(d) ==
    /\ UNCHANGED <<step[d], backend[d], audioSeen[d], earlier[d], program[d], text[d],
                   failed[d], spoilt[d], work[d]>>
    /\ staged'[d] = staged[d] \/ step[d] = "killed"
    /\ shared' = shared \/ step[d] \notin LockedSteps \/ backend[d] \notin OnStem \/ disturbed'[d]
    /\ disturbed[d] => disturbed'[d]

LEMMA OthersUntouched ==
    ASSUME TranscriptionTypeOK, OneHolder, NEW c \in Transcribers, TranscriptionStep(c), NEW d \in Transcribers, d # c PROVE Untouched(d)
<1>1. CASE Preflight(c)
  BY <1>1 DEF Preflight, At, Proceeds, Quiet, NoFiles, Identified, FirstStep,
     Untouched, OnStem, OneHolder, LockedSteps, TranscriptionTypeOK
<1>2. CASE IsBusy(c)
  BY <1>2 DEF IsBusy, At, Proceeds, Raises, Quiet, NoFiles, Untouched, OnStem,
     OneHolder, LockedSteps, TranscriptionTypeOK
<1>3. CASE Locks(c)
  BY <1>3 DEF Locks, At, Proceeds, Quiet, NoFiles, commandVars, AfterLock,
     Untouched, OnStem, OneHolder, LockedSteps, TranscriptionTypeOK
<1>4. CASE Snapshots(c)
  BY <1>4 DEF Snapshots, At, Proceeds, Quiet, NoFiles, Generated, OnStem,
     AfterSnapshot, Untouched, OneHolder, LockedSteps, TranscriptionTypeOK
<1>5. CASE Stages(c)
  BY <1>5 DEF Stages, At, Proceeds, Quiet, NoFiles, SameAudio, RemovesOld,
     OldCopies, AfterStaging, Untouched, OnStem, OneHolder, LockedSteps,
     TranscriptionTypeOK
<1>6. CASE FindsOtherAudio(c)
  BY <1>6 DEF FindsOtherAudio, At, Proceeds, Raises, Quiet, NoFiles, RemovesOld,
     OldCopies, Templates, Untouched, OnStem, OneHolder, LockedSteps,
     TranscriptionTypeOK
<1>7. CASE Starts(c)
  BY <1>7 DEF Starts, At, Quiet, NoFiles, Untouched, OnStem, OneHolder,
     LockedSteps, TranscriptionTypeOK
<1>8. CASE ProgramWrites(c)
  BY <1>8 DEF ProgramWrites, At, WritesOutput, OnStem, Generated, Transcript,
     Text, Begun, Untouched, OneHolder, LockedSteps, TranscriptionTypeOK
<1>9. CASE ProgramEnds(c)
  BY <1>9 DEF ProgramEnds, At, Proceeds, Quiet, NoFiles, Generated, OnStem,
     Transcript, Text, Templates, AfterProgram, Untouched, OneHolder, LockedSteps,
     TranscriptionTypeOK
<1>10. CASE ProgramFails(c)
  BY <1>10 DEF ProgramFails, At, Proceeds, Raises, Quiet, NoFiles, AfterFailure,
     Templates, Untouched, OnStem, OneHolder, LockedSteps, TranscriptionTypeOK
<1>11. CASE WorkerAnswers(c)
  BY <1>11 DEF WorkerAnswers, At, Proceeds, Quiet, NoFiles, Transcript, Text,
     Untouched, OnStem, OneHolder, LockedSteps, TranscriptionTypeOK
<1>12. CASE WorkerFails(c)
  BY <1>12 DEF WorkerFails, At, Proceeds, Raises, Quiet, NoFiles, Untouched,
     OnStem, OneHolder, LockedSteps, TranscriptionTypeOK
<1>13. CASE ReadsFile(c)
  BY <1>13 DEF ReadsFile, At, Proceeds, Quiet, NoFiles, IsWritten, Generated,
     OnStem, ReadsText, Untouched, OneHolder, LockedSteps, TranscriptionTypeOK
<1>14. CASE CannotRead(c)
  BY <1>14 DEF CannotRead, At, Proceeds, Raises, Quiet, NoFiles, IsWritten,
     Generated, OnStem, Untouched, OneHolder, LockedSteps, TranscriptionTypeOK
<1>15. CASE FindsNoFile(c)
  BY <1>15 DEF FindsNoFile, At, Proceeds, Raises, Quiet, NoFiles, IsWritten,
     Generated, OnStem, Templates, Untouched, OneHolder, LockedSteps,
     TranscriptionTypeOK
<1>16. CASE ReadsAnswer(c)
  BY <1>16 DEF ReadsAnswer, At, Proceeds, Quiet, NoFiles, Generated, OnStem,
     commandVars, Templates, Untouched, OneHolder, LockedSteps,
     TranscriptionTypeOK
<1>17. CASE Captures(c)
  BY <1>17 DEF Captures, At, Proceeds, Quiet, NoFiles, Generated, OnStem,
     Untouched, OneHolder, LockedSteps, TranscriptionTypeOK
<1>18. CASE RestoresEarlier(c)
  BY <1>18 DEF RestoresEarlier, At, Proceeds, Quiet, PutsBack, WritesOutput,
     OnStem, Generated, commandVars, AfterRestoring, Templates, Untouched,
     OneHolder, LockedSteps, TranscriptionTypeOK
<1>19. CASE LeavesWork(c)
  BY <1>19 DEF LeavesWork, At, Proceeds, Quiet, NoFiles, commandVars, Untouched,
     OnStem, OneHolder, LockedSteps, TranscriptionTypeOK
<1>20. CASE CannotRestore(c)
  BY <1>20 DEF CannotRestore, At, Proceeds, Raises, Quiet, NoFiles, Generated,
     OnStem, AfterRestoring, Templates, Untouched, OneHolder, LockedSteps,
     TranscriptionTypeOK
<1>21. CASE Unstages(c)
  BY <1>21 DEF Unstages, At, Proceeds, Raises, Quiet, NoFiles, Templates,
     Untouched, OnStem, OneHolder, LockedSteps, TranscriptionTypeOK
<1>22. CASE Refuses(c)
  BY <1>22 DEF Refuses, At, Raises, Quiet, NoFiles, Untouched, OnStem, OneHolder,
     LockedSteps, TranscriptionTypeOK
<1>23. CASE Unlocks(c)
  BY <1>23 DEF Unlocks, At, Proceeds, Quiet, NoFiles, commandVars, Untouched,
     OnStem, OneHolder, LockedSteps, TranscriptionTypeOK
<1>24. CASE Sends(c)
  BY <1>24 DEF Sends, At, Proceeds, Raises, Quiet, NoFiles, Asks, SameAudio,
     Answered, Text, Untouched, OnStem, OneHolder, LockedSteps,
     TranscriptionTypeOK
<1>25. CASE Resends(c)
  BY <1>25 DEF Resends, At, Proceeds, Raises, Quiet, NoFiles, Asks, SameAudio,
     Answered, Text, Untouched, OnStem, OneHolder, LockedSteps,
     TranscriptionTypeOK
<1>26. CASE Stores(c)
  BY <1>26 DEF Stores, At, Proceeds, Disturbs, OnStem, commandVars, Untouched,
     OneHolder, LockedSteps, TranscriptionTypeOK
<1>27. CASE CommandKilled(c)
  BY <1>27 DEF CommandKilled, Proceeds, Quiet, NoFiles, Untouched, OnStem,
     OneHolder, LockedSteps, TranscriptionTypeOK
<1>28. CASE OrphanWrites(c)
  BY <1>28 DEF OrphanWrites, At, Disturbs, OnStem, Text, Untouched, OneHolder,
     LockedSteps, TranscriptionTypeOK
<1>29. CASE AudioChanges(c)
  BY <1>29 DEF AudioChanges, NoFiles, commandVars, Untouched, OnStem, OneHolder,
     LockedSteps, TranscriptionTypeOK
<1> QED
  BY <1>1, <1>2, <1>3, <1>4, <1>5, <1>6, <1>7, <1>8, <1>9, <1>10, <1>11, <1>12,
     <1>13, <1>14, <1>15, <1>16, <1>17, <1>18, <1>19, <1>20, <1>21, <1>22, <1>23,
     <1>24, <1>25, <1>26, <1>27, <1>28, <1>29 DEF TranscriptionStep

LEMMA SoundUntouched ==
    ASSUME NEW d \in Transcribers, Untouched(d), Sound(d) PROVE Sound(d)'
<1>1. Following(d)'
  BY DEF Untouched, Sound, Following
<1>2. CASE disturbed[d]
  BY <1>1, <1>2 DEF Untouched, Sound
<1>3. CASE SoundFile(d) /\ SoundText(d)
  <2>1. SoundText(d)'
    BY <1>3 DEF Untouched, SoundText, Own, Text
  <2>2. disturbed'[d] \/ SoundFile(d)'
    BY <1>3 DEF Untouched, SoundFile, LockedSteps, Generated, Own, Begun, OnStem, Text
  <2> QED
    BY <1>1, <2>1, <2>2 DEF Sound
<1> QED
  BY <1>2, <1>3 DEF Sound

LEMMA InitTranscription == TranscriptionInit => TranscriptionInv
<1> SUFFICES ASSUME TranscriptionInit PROVE TranscriptionInv
  OBVIOUS
<1>1. TranscriptionTypeOK
  BY TranscriptionAssumption
     DEF TranscriptionAssumption, TranscriptionInit, TranscriptionTypeOK, Texts, Text,
         NoFile, Earlier, Blank, Backends
<1>2. OneHolder
  BY TranscriptionAssumption
     DEF TranscriptionAssumption, TranscriptionInit, OneHolder, LockedSteps
<1>3. ASSUME NEW c \in Transcribers PROVE Sound(c)
  BY DEF TranscriptionInit, Sound, Following, SoundFile, SoundText
<1> QED
  BY <1>1, <1>2, <1>3 DEF TranscriptionInv

LEMMA TranscriptionInvariant == TranscriptionSpec => []TranscriptionInv
<1>1. ASSUME TranscriptionInv, [TranscriptionNext]_transcriptionVars
      PROVE  TranscriptionInv'
  <2>1. CASE TranscriptionNext
    <3>1. PICK c \in Transcribers : TranscriptionStep(c)
      BY <2>1 DEF TranscriptionNext, TranscriptionStep
    <3>2. TranscriptionTypeOK' /\ OneHolder' /\ Sound(c)'
      BY <1>1, <3>1, TranscriptionTypeKept, OneHolderKept, SoundOfActor DEF TranscriptionInv
    <3>3. ASSUME NEW d \in Transcribers, d # c PROVE Sound(d)'
      BY <1>1, <3>1, <3>3, OthersUntouched, SoundUntouched DEF TranscriptionInv
    <3> QED
      BY <3>2, <3>3 DEF TranscriptionInv
  <2>2. CASE UNCHANGED transcriptionVars
    BY <1>1, <2>2 DEF transcriptionVars, commandVars, TranscriptionInv, TranscriptionTypeOK,
       OneHolder, Sound, Following, SoundFile, SoundText, Generated, Own, Begun, Text
  <2> QED
    BY <1>1, <2>1, <2>2
<1> QED
  BY InitTranscription, <1>1, PTL DEF TranscriptionSpec

(* transcriber.py - however many commands transcribe into one directory, a *)
(* call returns what its own program made of the audio it has seen, and    *)
(* leaves the earlier transcript as it was, or says that it could not; of  *)
(* calls that a writer outside the lock disturbed nothing is said.         *)
THEOREM AlwaysTranscribesCleanly == TranscriptionSpec => []TranscribesCleanly
<1>1. TranscriptionInv => TranscribesCleanly
  BY DEF TranscriptionInv, Sound, SoundFile, SoundText, Own, TranscribesCleanly, TextIsOwn,
     EarlierIsBack
<1> QED
  BY TranscriptionInvariant, <1>1, PTL

-----------------------------------------------------------------------------
(* RpmLifecycle.  No set of living processes is without a parent outside   *)
(* of it, so a supervisor whose only child has ended has no other          *)
(* descendant (Lineage, AloneMeansNobody).                                 *)
(* A process has a living parent or the supervisor; and no set of          *)
(* processes is its own: somebody in it has a parent outside.              *)
ParentsLive ==
    \A p \in Processes : There(p) =>
        parent[p] = Supervisor \/ (parent[p] \in Processes /\ life[parent[p]] = "alive")

NoOrphanRing ==
    \A S \in SUBSET Processes :
        S # {} /\ (\A p \in S : There(p)) => \E p \in S : parent[p] \notin S

Lineage == ParentsLive /\ NoOrphanRing

(* Whoever drains for a return, and does not wait for the root, has seen   *)
(* it end; and once all is drained no other process is there.              *)
Draining == {"snapshot", "reap", "bind", "left", "signal", "final", "settle", "raised",
             "drained", "undrained"}

RootHasEnded == rpmAt \in Draining /\ caller # "waiting" => life[Root] # "alive"

NobodyElse ==
    rpmAt = "drained" /\ caller # "waiting" => \A k \in Kids : ~There(k)

RpmInv == RpmTypeOK /\ Lineage /\ RootHasEnded /\ NobodyElse /\ ReturnsAlone

LEMMA RpmTypeKept ==
    ASSUME RpmTypeOK, RpmNext PROVE RpmTypeOK'
<1>1. CASE \E p \in Processes, k \in Kids : Forks(p, k)
  BY <1>1 DEF Forks, drainVars, RpmTypeOK, Processes
<1>2. CASE \E k \in Kids : LeavesGroup(k)
  BY <1>2 DEF LeavesGroup, drainVars, RpmTypeOK, Processes
<1>3. CASE \E k \in Kids : ReapedByParent(k)
  BY <1>3 DEF ReapedByParent, drainVars, RpmTypeOK, Processes
<1>4. CASE \E p \in Processes : Exits(p)
  BY <1>4 DEF Exits, Processes, drainVars, RpmTypeOK
<1>5. CASE TimePasses
  BY <1>5 DEF TimePasses, processVars, drainVars, RpmTypeOK, Processes
<1>6. CASE Launches
  BY <1>6 DEF Launches, RpmGoes, drainVars, RpmTypeOK, Processes
<1>7. CASE KillsGroup
  BY <1>7 DEF KillsGroup, RpmGoes, GroupAlive, Processes, drainVars, RpmTypeOK
<1>8. CASE FindsRootEnded
  BY <1>8 DEF FindsRootEnded, RpmGoes, RpmTypeOK, Processes
<1>9. CASE GivesUp
  BY <1>9 DEF GivesUp, RpmGoes, drainVars, RpmTypeOK, Processes
<1>10. CASE Snapshot
  BY <1>10 DEF Snapshot, Drains, RpmGoes, Direct, There, Processes, RpmTypeOK
<1>11. CASE ReapsReady
  BY <1>11 DEF ReapsReady, Drains, RpmGoes, Reaps, Ended, Processes, RpmTypeOK
<1>12. CASE Binds
  BY <1>12 DEF Binds, Drains, RpmGoes, RpmTypeOK, Processes
<1>13. CASE Leftovers
  BY <1>13 DEF Leftovers, Drains, RpmGoes, Reaps, Ended, Processes, RpmTypeOK
<1>14. CASE Signals
  BY <1>14 DEF Signals, Drains, RpmGoes, Reaps, Ended, Processes, RpmTypeOK
<1>15. CASE FinalSnapshot
  BY <1>15 DEF FinalSnapshot, Drains, RpmGoes, Alone, Direct, There, Processes,
     RpmTypeOK
<1>16. CASE Settles
  BY <1>16 DEF Settles, Drains, RpmGoes, Alone, Direct, There, Processes,
     RpmTypeOK
<1>17. CASE DrainRaises
  BY <1>17 DEF DrainRaises, RpmGoes, GroupAlive, Processes, RpmTypeOK
<1>18. CASE DrainOutOfTime
  BY <1>18 DEF DrainOutOfTime, RpmGoes, drainVars, RpmTypeOK, Processes
<1>19. CASE ReapsRoot
  BY <1>19 DEF ReapsRoot, drainVars, RpmTypeOK, Processes
<1>20. CASE StopsWaiting
  BY <1>20 DEF StopsWaiting, RpmGoes, drainVars, RpmTypeOK, Processes
<1>21. CASE GivesUpDraining
  BY <1>21 DEF GivesUpDraining, RpmGoes, drainVars, RpmTypeOK, Processes
<1>22. CASE Finally
  <2>1. caller' \in {"run", "waiting", "finally"} /\ rpmAt' \in {"snapshot"}
    BY <1>22 DEF Finally
  <2>2. emergency' \in BOOLEAN
    BY <1>22 DEF Finally
  <2>3. rpmKilled' \subseteq Processes
    BY <1>22 DEF Finally, GroupAlive, RpmTypeOK
  <2>4. now' \in 0..3 /\ stable' \in 0..1
    BY <1>22 DEF Finally
  <2>5. UNCHANGED <<life, parent, apart, rpmSeen, partial, bound, result>>
    BY <1>22 DEF Finally, processVars
  <2> QED
    BY <2>1, <2>2, <2>3, <2>4, <2>5 DEF RpmTypeOK
<1>23. CASE AwaitsRoot
  BY <1>23 DEF AwaitsRoot, RpmGoes, RpmTypeOK, Processes
<1>24. CASE AwaitsNoLonger
  BY <1>24 DEF AwaitsNoLonger, RpmGoes, drainVars, RpmTypeOK, Processes
<1>25. CASE KillsUnbound
  BY <1>25 DEF KillsUnbound, GroupAlive, Processes, processVars, drainVars,
     RpmTypeOK
<1>26. CASE TakesOrphans
  BY <1>26 DEF TakesOrphans, RpmGoes, Direct, There, Processes, RpmTypeOK
<1>27. CASE OrphansOutOfTime
  BY <1>27 DEF OrphansOutOfTime, RpmGoes, drainVars, RpmTypeOK, Processes
<1>28. CASE Finalizes
  BY <1>28 DEF Finalizes, Reaps, Ended, Processes, RpmTypeOK
<1> QED
  BY <1>1, <1>2, <1>3, <1>4, <1>5, <1>6, <1>7, <1>8, <1>9, <1>10, <1>11, <1>12,
     <1>13, <1>14, <1>15, <1>16, <1>17, <1>18, <1>19, <1>20, <1>21, <1>22, <1>23,
     <1>24, <1>25, <1>26, <1>27, <1>28 DEF RpmNext, KernelNext, SupervisorNext

(* Any step but a fork and an exit only takes ended processes away.        *)
Shrinks ==
    /\ parent' = parent
    /\ \A p \in Processes : life'[p] = life[p] \/ (life[p] # "alive" /\ life'[p] = "gone")

SomeForks == \E p \in Processes, k \in Kids : Forks(p, k)
SomeExits == \E p \in Processes : Exits(p)

LEMMA OthersShrink ==
    ASSUME RpmTypeOK, RootHasEnded, RpmNext PROVE Shrinks \/ SomeForks \/ SomeExits
<1>1. CASE SomeForks
  BY <1>1
<1>2. CASE SomeExits
  BY <1>2
<1>3. CASE \E k \in Kids : LeavesGroup(k)
  BY <1>3 DEF LeavesGroup, drainVars, RpmTypeOK, Shrinks, Processes, RootHasEnded,
     Draining
<1>4. CASE \E k \in Kids : ReapedByParent(k)
  BY <1>4 DEF ReapedByParent, drainVars, RpmTypeOK, Shrinks, Processes,
     RootHasEnded, Draining
<1>5. CASE TimePasses
  BY <1>5 DEF TimePasses, processVars, drainVars, RpmTypeOK, Shrinks, Processes,
     RootHasEnded, Draining
<1>6. CASE Launches
  BY <1>6 DEF Launches, RpmGoes, drainVars, RpmTypeOK, Shrinks, Processes,
     RootHasEnded, Draining
<1>7. CASE KillsGroup
  BY <1>7 DEF KillsGroup, RpmGoes, GroupAlive, Processes, drainVars, RpmTypeOK,
     Shrinks, RootHasEnded, Draining
<1>8. CASE FindsRootEnded
  BY <1>8 DEF FindsRootEnded, RpmGoes, RpmTypeOK, Shrinks, Processes,
     RootHasEnded, Draining
<1>9. CASE GivesUp
  BY <1>9 DEF GivesUp, RpmGoes, drainVars, RpmTypeOK, Shrinks, Processes,
     RootHasEnded, Draining
<1>10. CASE Snapshot
  BY <1>10 DEF Snapshot, Drains, RpmGoes, Direct, There, Processes, RpmTypeOK,
     Shrinks, RootHasEnded, Draining
<1>11. CASE ReapsReady
  BY <1>11 DEF ReapsReady, Drains, RpmGoes, Reaps, Ended, Processes, RpmTypeOK,
     Shrinks, RootHasEnded, Draining
<1>12. CASE Binds
  BY <1>12 DEF Binds, Drains, RpmGoes, RpmTypeOK, Shrinks, Processes,
     RootHasEnded, Draining
<1>13. CASE Leftovers
  BY <1>13 DEF Leftovers, Drains, RpmGoes, Reaps, Ended, Processes, RpmTypeOK,
     Shrinks, RootHasEnded, Draining
<1>14. CASE Signals
  BY <1>14 DEF Signals, Drains, RpmGoes, Reaps, Ended, Processes, RpmTypeOK,
     Shrinks, RootHasEnded, Draining
<1>15. CASE FinalSnapshot
  BY <1>15 DEF FinalSnapshot, Drains, RpmGoes, Alone, Direct, There, Processes,
     RpmTypeOK, Shrinks, RootHasEnded, Draining
<1>16. CASE Settles
  BY <1>16 DEF Settles, Drains, RpmGoes, Alone, Direct, There, Processes,
     RpmTypeOK, Shrinks, RootHasEnded, Draining
<1>17. CASE DrainRaises
  BY <1>17 DEF DrainRaises, RpmGoes, GroupAlive, Processes, RpmTypeOK, Shrinks,
     RootHasEnded, Draining
<1>18. CASE DrainOutOfTime
  BY <1>18 DEF DrainOutOfTime, RpmGoes, drainVars, RpmTypeOK, Shrinks, Processes,
     RootHasEnded, Draining
<1>19. CASE ReapsRoot
  BY <1>19 DEF ReapsRoot, drainVars, RpmTypeOK, Shrinks, Processes, RootHasEnded,
     Draining
<1>20. CASE StopsWaiting
  BY <1>20 DEF StopsWaiting, RpmGoes, drainVars, RpmTypeOK, Shrinks, Processes,
     RootHasEnded, Draining
<1>21. CASE GivesUpDraining
  BY <1>21 DEF GivesUpDraining, RpmGoes, drainVars, RpmTypeOK, Shrinks, Processes,
     RootHasEnded, Draining
<1>22. CASE Finally
  BY <1>22 DEF Finally, GroupAlive, Processes, processVars, RpmTypeOK, Shrinks,
     RootHasEnded, Draining
<1>23. CASE AwaitsRoot
  BY <1>23 DEF AwaitsRoot, RpmGoes, RpmTypeOK, Shrinks, Processes, RootHasEnded,
     Draining
<1>24. CASE AwaitsNoLonger
  BY <1>24 DEF AwaitsNoLonger, RpmGoes, drainVars, RpmTypeOK, Shrinks, Processes,
     RootHasEnded, Draining
<1>25. CASE KillsUnbound
  BY <1>25 DEF KillsUnbound, GroupAlive, Processes, processVars, drainVars,
     RpmTypeOK, Shrinks, RootHasEnded, Draining
<1>26. CASE TakesOrphans
  BY <1>26 DEF TakesOrphans, RpmGoes, Direct, There, Processes, RpmTypeOK,
     Shrinks, RootHasEnded, Draining
<1>27. CASE OrphansOutOfTime
  BY <1>27 DEF OrphansOutOfTime, RpmGoes, drainVars, RpmTypeOK, Shrinks,
     Processes, RootHasEnded, Draining
<1>28. CASE Finalizes
  BY <1>28 DEF Finalizes, Reaps, Ended, Processes, RpmTypeOK, Shrinks,
     RootHasEnded, Draining
<1> QED
  BY <1>1, <1>2, <1>3, <1>4, <1>5, <1>6, <1>7, <1>8, <1>9, <1>10, <1>11, <1>12,
     <1>13, <1>14, <1>15, <1>16, <1>17, <1>18, <1>19, <1>20, <1>21, <1>22, <1>23,
     <1>24, <1>25, <1>26, <1>27, <1>28 DEF RpmNext, KernelNext, SupervisorNext,
     SomeForks, SomeExits

LEMMA LineageKept ==
    ASSUME RpmTypeOK, Lineage, RootHasEnded, RpmNext PROVE Lineage'
<1>1. CASE Shrinks
  <2>1. \A p \in Processes : There(p)' => There(p)
    BY <1>1 DEF Shrinks, There
  <2>2. ParentsLive'
    BY <1>1, <2>1 DEF Shrinks, Lineage, ParentsLive, There
  <2>3. NoOrphanRing'
    BY <1>1, <2>1 DEF Shrinks, Lineage, NoOrphanRing
  <2> QED
    BY <2>2, <2>3 DEF Lineage
<1>2. CASE SomeForks
  <2>1. PICK p \in Processes, k \in Kids : Forks(p, k)
    BY <1>2 DEF SomeForks
  <2>2. /\ life[p] = "alive" /\ life[k] = "unborn" /\ k \in Processes
        /\ life' = [life EXCEPT ![k] = "alive"] /\ parent' = [parent EXCEPT ![k] = p]
    BY <2>1 DEF Forks, Processes
  <2>3. ParentsLive'
    BY <2>2 DEF RpmTypeOK, Lineage, ParentsLive, There
  <2>4. ASSUME NEW S \in SUBSET Processes, S # {}, \A q \in S : There(q)'
        PROVE  \E q \in S : parent'[q] \notin S
    <3>1. \A q \in S \ {k} : There(q) /\ parent'[q] = parent[q]
      BY <2>2, <2>4 DEF RpmTypeOK, There
    <3>2. \A q \in S \ {k} : parent[q] # k
      BY <2>2, <3>1, RpmAssumption DEF RpmAssumption, Lineage, ParentsLive, Processes
    <3>3. CASE S \ {k} = {}
      BY <2>2, <2>4, <3>3 DEF RpmTypeOK
    <3>4. CASE S \ {k} # {}
      <4>1. PICK q \in S \ {k} : parent[q] \notin S \ {k}
        BY <3>1, <3>4 DEF Lineage, NoOrphanRing
      <4> QED
        BY <3>1, <3>2, <4>1
    <3> QED
      BY <3>3, <3>4
  <2> QED
    BY <2>3, <2>4 DEF Lineage, NoOrphanRing
<1>3. CASE SomeExits
  <2>1. PICK p \in Processes : Exits(p)
    BY <1>3 DEF SomeExits
  <2>2. \A q \in Processes : There(q)' => There(q)
    BY <2>1 DEF Exits, There, RpmTypeOK
  <2>3. ParentsLive'
    BY <2>1, <2>2 DEF Exits, RpmTypeOK, Lineage, ParentsLive, There
  <2>4. ASSUME NEW S \in SUBSET Processes, S # {}, \A q \in S : There(q)'
        PROVE  \E q \in S : parent'[q] \notin S
    <3>1. PICK q \in S : parent[q] \notin S
      BY <2>2, <2>4 DEF Lineage, NoOrphanRing
    <3>2. parent'[q] \in {parent[q], Supervisor}
      BY <2>1, <3>1 DEF Exits
    <3> QED
      BY <3>1, <3>2, RpmAssumption DEF RpmAssumption, Processes
  <2> QED
    BY <2>3, <2>4 DEF Lineage, NoOrphanRing
<1> QED
  BY <1>1, <1>2, <1>3, OthersShrink

LEMMA RootEndedKept ==
    ASSUME RpmTypeOK, RootHasEnded, RpmNext PROVE RootHasEnded'
<1>1. CASE \E p \in Processes, k \in Kids : Forks(p, k)
  BY <1>1, RpmAssumption DEF Forks, drainVars, RpmTypeOK, Processes, RootHasEnded,
     Draining, RpmAssumption
<1>2. CASE \E k \in Kids : LeavesGroup(k)
  BY <1>2 DEF LeavesGroup, drainVars, RpmTypeOK, Processes, RootHasEnded, Draining
<1>3. CASE \E k \in Kids : ReapedByParent(k)
  BY <1>3 DEF ReapedByParent, drainVars, RpmTypeOK, Processes, RootHasEnded,
     Draining
<1>4. CASE \E p \in Processes : Exits(p)
  BY <1>4 DEF Exits, Processes, drainVars, RpmTypeOK, RootHasEnded, Draining
<1>5. CASE TimePasses
  BY <1>5 DEF TimePasses, processVars, drainVars, RpmTypeOK, Processes,
     RootHasEnded, Draining
<1>6. CASE Launches
  BY <1>6 DEF Launches, RpmGoes, drainVars, RpmTypeOK, Processes, RootHasEnded,
     Draining
<1>7. CASE KillsGroup
  BY <1>7 DEF KillsGroup, RpmGoes, GroupAlive, Processes, drainVars, RpmTypeOK,
     RootHasEnded, Draining
<1>8. CASE FindsRootEnded
  BY <1>8 DEF FindsRootEnded, RpmGoes, RpmTypeOK, Processes, RootHasEnded,
     Draining
<1>9. CASE GivesUp
  BY <1>9 DEF GivesUp, RpmGoes, drainVars, RpmTypeOK, Processes, RootHasEnded,
     Draining
<1>10. CASE Snapshot
  BY <1>10 DEF Snapshot, Drains, RpmGoes, Direct, There, Processes, RpmTypeOK,
     RootHasEnded, Draining
<1>11. CASE ReapsReady
  BY <1>11 DEF ReapsReady, Drains, RpmGoes, Reaps, Ended, Processes, RpmTypeOK,
     RootHasEnded, Draining
<1>12. CASE Binds
  BY <1>12 DEF Binds, Drains, RpmGoes, RpmTypeOK, Processes, RootHasEnded,
     Draining
<1>13. CASE Leftovers
  BY <1>13 DEF Leftovers, Drains, RpmGoes, Reaps, Ended, Processes, RpmTypeOK,
     RootHasEnded, Draining
<1>14. CASE Signals
  BY <1>14 DEF Signals, Drains, RpmGoes, Reaps, Ended, Processes, RpmTypeOK,
     RootHasEnded, Draining
<1>15. CASE FinalSnapshot
  BY <1>15 DEF FinalSnapshot, Drains, RpmGoes, Alone, Direct, There, Processes,
     RpmTypeOK, RootHasEnded, Draining
<1>16. CASE Settles
  BY <1>16 DEF Settles, Drains, RpmGoes, Alone, Direct, There, Processes,
     RpmTypeOK, RootHasEnded, Draining
<1>17. CASE DrainRaises
  BY <1>17 DEF DrainRaises, RpmGoes, GroupAlive, Processes, RpmTypeOK,
     RootHasEnded, Draining
<1>18. CASE DrainOutOfTime
  BY <1>18 DEF DrainOutOfTime, RpmGoes, drainVars, RpmTypeOK, Processes,
     RootHasEnded, Draining
<1>19. CASE ReapsRoot
  BY <1>19 DEF ReapsRoot, drainVars, RpmTypeOK, Processes, RootHasEnded, Draining
<1>20. CASE StopsWaiting
  BY <1>20 DEF StopsWaiting, RpmGoes, drainVars, RpmTypeOK, Processes,
     RootHasEnded, Draining
<1>21. CASE GivesUpDraining
  BY <1>21 DEF GivesUpDraining, RpmGoes, drainVars, RpmTypeOK, Processes,
     RootHasEnded, Draining
<1>22. CASE Finally
  BY <1>22 DEF Finally, GroupAlive, Processes, processVars, RpmTypeOK,
     RootHasEnded, Draining
<1>23. CASE AwaitsRoot
  BY <1>23 DEF AwaitsRoot, RpmGoes, RpmTypeOK, Processes, RootHasEnded, Draining
<1>24. CASE AwaitsNoLonger
  BY <1>24 DEF AwaitsNoLonger, RpmGoes, drainVars, RpmTypeOK, Processes,
     RootHasEnded, Draining
<1>25. CASE KillsUnbound
  BY <1>25 DEF KillsUnbound, GroupAlive, Processes, processVars, drainVars,
     RpmTypeOK, RootHasEnded, Draining
<1>26. CASE TakesOrphans
  BY <1>26 DEF TakesOrphans, RpmGoes, Direct, There, Processes, RpmTypeOK,
     RootHasEnded, Draining
<1>27. CASE OrphansOutOfTime
  BY <1>27 DEF OrphansOutOfTime, RpmGoes, drainVars, RpmTypeOK, Processes,
     RootHasEnded, Draining
<1>28. CASE Finalizes
  BY <1>28 DEF Finalizes, Reaps, Ended, Processes, RpmTypeOK, RootHasEnded,
     Draining
<1> QED
  BY <1>1, <1>2, <1>3, <1>4, <1>5, <1>6, <1>7, <1>8, <1>9, <1>10, <1>11, <1>12,
     <1>13, <1>14, <1>15, <1>16, <1>17, <1>18, <1>19, <1>20, <1>21, <1>22, <1>23,
     <1>24, <1>25, <1>26, <1>27, <1>28 DEF RpmNext, KernelNext, SupervisorNext

(* If the root is the only child of the supervisor and has ended, nobody   *)
(* else is there: the others would have no parent outside of them.         *)
LEMMA AloneMeansNobody ==
    ASSUME RpmTypeOK, Lineage, Direct = {Root}, life[Root] # "alive"
    PROVE  \A k \in Kids : ~There(k)
<1> DEFINE S == {k \in Kids : There(k)}
<1>1. SUFFICES ASSUME S # {} PROVE FALSE
  OBVIOUS
<1>2. PICK k \in S : parent[k] \notin S
  BY <1>1 DEF Lineage, NoOrphanRing, Processes
<1>3. CASE parent[k] = Supervisor
  BY <1>2, <1>3, RpmAssumption DEF RpmAssumption, Direct, Processes
<1>4. CASE parent[k] \in Processes /\ life[parent[k]] = "alive"
  BY <1>2, <1>4 DEF Processes, There
<1> QED
  BY <1>2, <1>3, <1>4 DEF Lineage, ParentsLive, Processes

LEMMA NobodyElseKept ==
    ASSUME RpmTypeOK, Lineage, RootHasEnded, NobodyElse, RpmNext PROVE NobodyElse'
<1>1. CASE \E p \in Processes, k \in Kids : Forks(p, k)
  BY <1>1 DEF Forks, drainVars, RpmTypeOK, Processes, NobodyElse, There,
     RootHasEnded, Draining
<1>2. CASE \E k \in Kids : LeavesGroup(k)
  BY <1>2 DEF LeavesGroup, drainVars, RpmTypeOK, Processes, NobodyElse, There,
     RootHasEnded, Draining
<1>3. CASE \E k \in Kids : ReapedByParent(k)
  BY <1>3 DEF ReapedByParent, drainVars, RpmTypeOK, Processes, NobodyElse, There,
     RootHasEnded, Draining
<1>4. CASE \E p \in Processes : Exits(p)
  BY <1>4 DEF Exits, Processes, drainVars, RpmTypeOK, NobodyElse, There,
     RootHasEnded, Draining
<1>5. CASE TimePasses
  BY <1>5 DEF TimePasses, processVars, drainVars, RpmTypeOK, Processes,
     NobodyElse, There, RootHasEnded, Draining
<1>6. CASE Launches
  BY <1>6 DEF Launches, RpmGoes, drainVars, RpmTypeOK, Processes, NobodyElse,
     There, RootHasEnded, Draining
<1>7. CASE KillsGroup
  BY <1>7 DEF KillsGroup, RpmGoes, GroupAlive, Processes, drainVars, RpmTypeOK,
     NobodyElse, There, RootHasEnded, Draining
<1>8. CASE FindsRootEnded
  BY <1>8 DEF FindsRootEnded, RpmGoes, RpmTypeOK, Processes, NobodyElse, There,
     RootHasEnded, Draining
<1>9. CASE GivesUp
  BY <1>9 DEF GivesUp, RpmGoes, drainVars, RpmTypeOK, Processes, NobodyElse,
     There, RootHasEnded, Draining
<1>10. CASE Snapshot
  BY <1>10 DEF Snapshot, Drains, RpmGoes, Direct, There, Processes, RpmTypeOK,
     NobodyElse, RootHasEnded, Draining
<1>11. CASE ReapsReady
  BY <1>11 DEF ReapsReady, Drains, RpmGoes, Reaps, Ended, Processes, RpmTypeOK,
     NobodyElse, There, RootHasEnded, Draining
<1>12. CASE Binds
  BY <1>12 DEF Binds, Drains, RpmGoes, RpmTypeOK, Processes, NobodyElse, There,
     RootHasEnded, Draining
<1>13. CASE Leftovers
  BY <1>13 DEF Leftovers, Drains, RpmGoes, Reaps, Ended, Processes, RpmTypeOK,
     NobodyElse, There, RootHasEnded, Draining
<1>14. CASE Signals
  BY <1>14 DEF Signals, Drains, RpmGoes, Reaps, Ended, Processes, RpmTypeOK,
     NobodyElse, There, RootHasEnded, Draining
<1>15. CASE FinalSnapshot
  BY <1>15, AloneMeansNobody DEF FinalSnapshot, Alone, Drains, RpmGoes, RpmTypeOK, RootHasEnded, Draining,
     NobodyElse, There
<1>16. CASE Settles
  BY <1>16, AloneMeansNobody DEF Settles, Alone, Drains, RpmGoes, RpmTypeOK, RootHasEnded, Draining,
     NobodyElse, There
<1>17. CASE DrainRaises
  BY <1>17 DEF DrainRaises, RpmGoes, GroupAlive, Processes, RpmTypeOK, NobodyElse,
     There, RootHasEnded, Draining
<1>18. CASE DrainOutOfTime
  BY <1>18 DEF DrainOutOfTime, RpmGoes, drainVars, RpmTypeOK, Processes,
     NobodyElse, There, RootHasEnded, Draining
<1>19. CASE ReapsRoot
  BY <1>19 DEF ReapsRoot, drainVars, RpmTypeOK, Processes, NobodyElse, There,
     RootHasEnded, Draining
<1>20. CASE StopsWaiting
  BY <1>20 DEF StopsWaiting, RpmGoes, drainVars, RpmTypeOK, Processes, NobodyElse,
     There, RootHasEnded, Draining
<1>21. CASE GivesUpDraining
  BY <1>21 DEF GivesUpDraining, RpmGoes, drainVars, RpmTypeOK, Processes,
     NobodyElse, There, RootHasEnded, Draining
<1>22. CASE Finally
  BY <1>22 DEF Finally, GroupAlive, Processes, processVars, RpmTypeOK, NobodyElse,
     There, RootHasEnded, Draining
<1>23. CASE AwaitsRoot
  BY <1>23 DEF AwaitsRoot, RpmGoes, RpmTypeOK, Processes, NobodyElse, There,
     RootHasEnded, Draining
<1>24. CASE AwaitsNoLonger
  BY <1>24 DEF AwaitsNoLonger, RpmGoes, drainVars, RpmTypeOK, Processes,
     NobodyElse, There, RootHasEnded, Draining
<1>25. CASE KillsUnbound
  BY <1>25 DEF KillsUnbound, GroupAlive, Processes, processVars, drainVars,
     RpmTypeOK, NobodyElse, There, RootHasEnded, Draining
<1>26. CASE TakesOrphans
  BY <1>26 DEF TakesOrphans, RpmGoes, Direct, There, Processes, RpmTypeOK,
     NobodyElse, RootHasEnded, Draining
<1>27. CASE OrphansOutOfTime
  BY <1>27 DEF OrphansOutOfTime, RpmGoes, drainVars, RpmTypeOK, Processes,
     NobodyElse, There, RootHasEnded, Draining
<1>28. CASE Finalizes
  BY <1>28 DEF Finalizes, Reaps, Ended, Processes, RpmTypeOK, NobodyElse, There,
     RootHasEnded, Draining
<1> QED
  BY <1>1, <1>2, <1>3, <1>4, <1>5, <1>6, <1>7, <1>8, <1>9, <1>10, <1>11, <1>12,
     <1>13, <1>14, <1>15, <1>16, <1>17, <1>18, <1>19, <1>20, <1>21, <1>22, <1>23,
     <1>24, <1>25, <1>26, <1>27, <1>28 DEF RpmNext, KernelNext, SupervisorNext

LEMMA ReturnsKept ==
    ASSUME RpmInv, RpmNext PROVE ReturnsAlone'
<1>1. CASE \E p \in Processes, k \in Kids : Forks(p, k)
  BY <1>1 DEF Forks, drainVars, RpmInv, RpmTypeOK, Processes, NobodyElse,
     ReturnsAlone, There, RootHasEnded, Draining
<1>2. CASE \E k \in Kids : LeavesGroup(k)
  BY <1>2 DEF LeavesGroup, drainVars, RpmInv, RpmTypeOK, Processes, NobodyElse,
     ReturnsAlone, There, RootHasEnded, Draining
<1>3. CASE \E k \in Kids : ReapedByParent(k)
  BY <1>3 DEF ReapedByParent, drainVars, RpmInv, RpmTypeOK, Processes, NobodyElse,
     ReturnsAlone, There, RootHasEnded, Draining
<1>4. CASE \E p \in Processes : Exits(p)
  BY <1>4 DEF Exits, Processes, drainVars, RpmInv, RpmTypeOK, NobodyElse,
     ReturnsAlone, There, RootHasEnded, Draining
<1>5. CASE TimePasses
  BY <1>5 DEF TimePasses, processVars, drainVars, RpmInv, RpmTypeOK, Processes,
     NobodyElse, ReturnsAlone, There, RootHasEnded, Draining
<1>6. CASE Launches
  BY <1>6 DEF Launches, RpmGoes, drainVars, RpmInv, RpmTypeOK, Processes,
     NobodyElse, ReturnsAlone, There, RootHasEnded, Draining
<1>7. CASE KillsGroup
  BY <1>7 DEF KillsGroup, RpmGoes, GroupAlive, Processes, drainVars, RpmInv,
     RpmTypeOK, NobodyElse, ReturnsAlone, There, RootHasEnded, Draining
<1>8. CASE FindsRootEnded
  BY <1>8 DEF FindsRootEnded, RpmGoes, RpmInv, RpmTypeOK, Processes, NobodyElse,
     ReturnsAlone, There, RootHasEnded, Draining
<1>9. CASE GivesUp
  BY <1>9 DEF GivesUp, RpmGoes, drainVars, RpmInv, RpmTypeOK, Processes,
     NobodyElse, ReturnsAlone, There, RootHasEnded, Draining
<1>10. CASE Snapshot
  BY <1>10 DEF Snapshot, Drains, RpmGoes, Direct, There, Processes, RpmInv,
     RpmTypeOK, NobodyElse, ReturnsAlone, RootHasEnded, Draining
<1>11. CASE ReapsReady
  BY <1>11 DEF ReapsReady, Drains, RpmGoes, Reaps, Ended, Processes, RpmInv,
     RpmTypeOK, NobodyElse, ReturnsAlone, There, RootHasEnded, Draining
<1>12. CASE Binds
  BY <1>12 DEF Binds, Drains, RpmGoes, RpmInv, RpmTypeOK, Processes, NobodyElse,
     ReturnsAlone, There, RootHasEnded, Draining
<1>13. CASE Leftovers
  BY <1>13 DEF Leftovers, Drains, RpmGoes, Reaps, Ended, Processes, RpmInv,
     RpmTypeOK, NobodyElse, ReturnsAlone, There, RootHasEnded, Draining
<1>14. CASE Signals
  BY <1>14 DEF Signals, Drains, RpmGoes, Reaps, Ended, Processes, RpmInv,
     RpmTypeOK, NobodyElse, ReturnsAlone, There, RootHasEnded, Draining
<1>15. CASE FinalSnapshot
  BY <1>15 DEF FinalSnapshot, Drains, RpmGoes, Alone, Direct, There, Processes,
     RpmInv, RpmTypeOK, NobodyElse, ReturnsAlone, RootHasEnded, Draining
<1>16. CASE Settles
  BY <1>16 DEF Settles, Drains, RpmGoes, Alone, Direct, There, Processes, RpmInv,
     RpmTypeOK, NobodyElse, ReturnsAlone, RootHasEnded, Draining
<1>17. CASE DrainRaises
  BY <1>17 DEF DrainRaises, RpmGoes, GroupAlive, Processes, RpmInv, RpmTypeOK,
     NobodyElse, ReturnsAlone, There, RootHasEnded, Draining
<1>18. CASE DrainOutOfTime
  BY <1>18 DEF DrainOutOfTime, RpmGoes, drainVars, RpmInv, RpmTypeOK, Processes,
     NobodyElse, ReturnsAlone, There, RootHasEnded, Draining
<1>19. CASE ReapsRoot
  BY <1>19 DEF ReapsRoot, drainVars, RpmInv, RpmTypeOK, Processes, NobodyElse,
     ReturnsAlone, There, RootHasEnded, Draining
<1>20. CASE StopsWaiting
  BY <1>20 DEF StopsWaiting, RpmGoes, drainVars, RpmInv, RpmTypeOK, Processes,
     NobodyElse, ReturnsAlone, There, RootHasEnded, Draining
<1>21. CASE GivesUpDraining
  BY <1>21 DEF GivesUpDraining, RpmGoes, drainVars, RpmInv, RpmTypeOK, Processes,
     NobodyElse, ReturnsAlone, There, RootHasEnded, Draining
<1>22. CASE Finally
  BY <1>22 DEF Finally, GroupAlive, Processes, processVars, RpmInv, RpmTypeOK,
     NobodyElse, ReturnsAlone, There, RootHasEnded, Draining
<1>23. CASE AwaitsRoot
  BY <1>23 DEF AwaitsRoot, RpmGoes, RpmInv, RpmTypeOK, Processes, NobodyElse,
     ReturnsAlone, There, RootHasEnded, Draining
<1>24. CASE AwaitsNoLonger
  BY <1>24 DEF AwaitsNoLonger, RpmGoes, drainVars, RpmInv, RpmTypeOK, Processes,
     NobodyElse, ReturnsAlone, There, RootHasEnded, Draining
<1>25. CASE KillsUnbound
  BY <1>25 DEF KillsUnbound, GroupAlive, Processes, processVars, drainVars,
     RpmInv, RpmTypeOK, NobodyElse, ReturnsAlone, There, RootHasEnded, Draining
<1>26. CASE TakesOrphans
  BY <1>26 DEF TakesOrphans, RpmGoes, Direct, There, Processes, RpmInv, RpmTypeOK,
     NobodyElse, ReturnsAlone, RootHasEnded, Draining
<1>27. CASE OrphansOutOfTime
  BY <1>27 DEF OrphansOutOfTime, RpmGoes, drainVars, RpmInv, RpmTypeOK, Processes,
     NobodyElse, ReturnsAlone, There, RootHasEnded, Draining
<1>28. CASE Finalizes
  BY <1>28 DEF Finalizes, Reaps, Ended, Processes, RpmInv, RpmTypeOK, NobodyElse,
     ReturnsAlone, There, RootHasEnded, Draining
<1> QED
  BY <1>1, <1>2, <1>3, <1>4, <1>5, <1>6, <1>7, <1>8, <1>9, <1>10, <1>11, <1>12,
     <1>13, <1>14, <1>15, <1>16, <1>17, <1>18, <1>19, <1>20, <1>21, <1>22, <1>23,
     <1>24, <1>25, <1>26, <1>27, <1>28 DEF RpmNext, KernelNext, SupervisorNext

LEMMA InitRpm == RpmInit => RpmInv
<1> SUFFICES ASSUME RpmInit PROVE RpmInv
  OBVIOUS
<1>1. RpmTypeOK
  <2>1. life \in [Processes -> {"unborn", "alive", "zombie", "gone"}]
    BY DEF RpmInit
  <2>2. parent \in [Processes -> Processes \cup {Supervisor}]
    BY DEF RpmInit
  <2>3. apart = {} /\ rpmKilled = {} /\ now = 0 /\ rpmSeen = {} /\ bound = {} /\ stable = 0
    BY DEF RpmInit
  <2>4. emergency \in BOOLEAN /\ partial \in BOOLEAN
    BY DEF RpmInit
  <2>5. rpmAt = "launch" /\ caller = "run" /\ result = "none"
    BY DEF RpmInit
  <2> QED
    BY <2>1, <2>2, <2>3, <2>4, <2>5 DEF RpmTypeOK
<1>2. Lineage
  BY RpmAssumption DEF RpmAssumption, RpmInit, Lineage, ParentsLive, NoOrphanRing, Processes
<1>3. RootHasEnded /\ NobodyElse /\ ReturnsAlone
  BY DEF RpmInit, RootHasEnded, Draining, NobodyElse, ReturnsAlone
<1> QED
  BY <1>1, <1>2, <1>3 DEF RpmInv

LEMMA RpmInvariant == RpmSpec => []RpmInv
<1>1. ASSUME RpmInv, [RpmNext]_rpmVars PROVE RpmInv'
  <2>1. CASE RpmNext
    BY <1>1, <2>1, RpmTypeKept, LineageKept, RootEndedKept, NobodyElseKept, ReturnsKept
       DEF RpmInv
  <2>2. CASE UNCHANGED rpmVars
    BY <1>1, <2>2 DEF rpmVars, processVars, drainVars, RpmInv, RpmTypeOK, Lineage, ParentsLive,
       NoOrphanRing, RootHasEnded, NobodyElse, ReturnsAlone, There
  <2> QED
    BY <1>1, <2>1, <2>2
<1> QED
  BY InitRpm, <1>1, PTL DEF RpmSpec

(* rpm-lifecycle-supervisor.py - whatever tree of processes a scriptlet    *)
(* starts, and however it ends, a run that returns an exit status leaves   *)
(* no process of it behind.                                                *)
THEOREM RpmReturnsAlone == RpmSpec => []ReturnsAlone
<1>1. RpmInv => ReturnsAlone
  BY DEF RpmInv
<1> QED
  BY RpmInvariant, <1>1, PTL

-----------------------------------------------------------------------------
(* LogFiles.  A record that no log holds is in the backup of a target      *)
(* without a name, or, after a kill, under a hidden name (AllHeld).  That  *)
(* needs what a replacement has in its hands (ReplacingIsSound) and that a *)
(* compressed log repeats what the log of its name holds (GzIsCopy).       *)
(* A record in a log.                                                      *)
InALog(r) == \E n \in Names : r \in log[n]

(* Where a record may be that no log holds: in the backup while its target *)
(* has no name, and, after a kill, under a hidden name.                    *)
Held(r) ==
    \/ InALog(r)
    \/ logStep = "cleared" /\ r \in job.backup
    \/ logKilled /\ r \in hidden

AllHeld == \A r \in (1 .. written) \ dropped : Held(r)

ReplacementSteps == {"ready", "backed", "removed", "cleared", "activated"}

(* A compressed log is of a day that is over, and holds what the log of    *)
(* the same suffix holds, if that is still there.                          *)
GzIsCopy ==
    \A d \in Days, s \in Suffixes : Present(<<"gz", d, s>>) =>
        /\ d < today
        /\ Present(<<"log", d, s>>) => log[<<"gz", d, s>>] \subseteq log[<<"log", d, s>>]

ClaimedIsEmpty == logStep \notin {"claimed", "removed"} => log[Claimed] = {}

(* What a rotation and a replacement work on.                              *)
Rotating ==
    logStep \in {"rotates", "linked", "claimed"} =>
      /\ \E s \in Suffixes \ {0} : job.target = <<"log", today, s>>
      /\ job.temp = {} /\ job.backup = {}
      /\ logStep = "rotates" => log[job.target] = {} /\ Present(Active)
      /\ logStep = "linked" => log[job.target] = log[Active]
      /\ logStep = "claimed" => log[job.target] = log[Claimed] /\ log[Active] = {}

Compressing ==
    \E d \in Days, s \in Suffixes :
      /\ d < today /\ job.target = <<"gz", d, s>> /\ job.sources = {<<"log", d, s>>}
      /\ Present(<<"log", d, s>>) => job.backup \subseteq log[<<"log", d, s>>]

Merging ==
    /\ \E d \in Days : job.target = Archive(MonthOf(d))
    /\ \A n \in job.sources : \E d \in Days : n \in Daily(d) /\ MonthOf(d) < MonthOf(today)

Sources == UNION {log[n] : n \in job.sources}

ReplacingIsSound ==
    logStep \in ReplacementSteps =>
      /\ Compressing \/ Merging
      /\ logStep # "activated" => \A n \in job.sources : Present(n)
      /\ \A n \in job.sources : log[n] \subseteq job.temp
      /\ logStep = "ready" => /\ job.temp \subseteq Sources \cup log[job.target]
                              /\ log[job.target] \subseteq job.temp
                              /\ job.backup = {}
      /\ logStep = "backed" => log[job.target] = job.backup
      /\ logStep = "removed" => log[Claimed] = job.backup /\ log[job.target] = {}
      /\ logStep = "cleared" => log[job.target] = {}
      /\ logStep = "activated" => log[job.target] = job.temp
      /\ logStep # "ready" /\ (\A n \in job.sources : Present(n)) =>
           job.temp \subseteq Sources \cup job.backup
      /\ job.backup \subseteq job.temp

(* Between the pieces of work nothing is held.                             *)
NothingHeld ==
    /\ logStep = "idle" => job = Idle
    /\ logStep \notin {"idle"} \cup ReplacementSteps \cup {"rotates", "linked", "claimed"} =>
         job.temp = {} /\ job.backup = {}

LogInv ==
    /\ LogTypeOK /\ AllHeld /\ GzIsCopy /\ ClaimedIsEmpty /\ Rotating /\ ReplacingIsSound
    /\ NothingHeld

(* The names, all of them different.                                       *)
LEMMA LogNames ==
    /\ Claimed \in Names /\ Leftover \in Names
    /\ \A d \in Days, s \in Suffixes :
         /\ <<"log", d, s>> \in Names /\ <<"gz", d, s>> \in Names
         /\ <<"log", d, s>> \in Daily(d) /\ <<"gz", d, s>> \in Daily(d)
         /\ <<"log", d, s>> # Claimed /\ <<"gz", d, s>> # Claimed
    /\ \A d \in Days : /\ Archive(MonthOf(d)) \in Names /\ Archive(MonthOf(d)) # Claimed
                       /\ Daily(d) \subseteq Names /\ Archive(MonthOf(d)) \notin Daily(d)
    /\ \A d \in Days, e \in Days : Archive(MonthOf(d)) \notin Daily(e)
    /\ \A d \in Days : Claimed \notin Daily(d)
    /\ 0 \in Suffixes /\ Days \subseteq Nat /\ Suffixes \subseteq Nat
<1>1. \A d \in Days : Daily(d) \subseteq Names
  BY DEF Names
<1>2. \A d \in Days, s \in Suffixes : <<"log", d, s>> \in Daily(d) /\ <<"gz", d, s>> \in Daily(d)
  BY DEF Daily
<1>3. \A d \in Days, s \in Suffixes : <<"log", d, s>> # Claimed /\ <<"gz", d, s>> # Claimed
  BY DEF Claimed
<1>4. Claimed \in Names /\ Leftover \in Names
  BY DEF Names
<1>5. \A d \in Days : Archive(MonthOf(d)) \in Names
  BY DEF Names
<1>6. \A d \in Days : Archive(MonthOf(d)) # Claimed
  BY DEF Archive, Claimed
<1>7. \A d \in Days, e \in Days : Archive(MonthOf(d)) \notin Daily(e)
  BY DEF Archive, Daily
<1>8. \A d \in Days : Claimed \notin Daily(d)
  BY DEF Claimed, Daily
<1>9. 0 \in Suffixes /\ Days \subseteq Nat /\ Suffixes \subseteq Nat
  BY LogAssumption DEF LogAssumption, Days, Suffixes
<1> QED
  BY <1>1, <1>2, <1>3, <1>4, <1>5, <1>6, <1>7, <1>8, <1>9

LEMMA LogOfADay ==
    ASSUME NEW n \in Names, n[1] = "log"
    PROVE  \E d \in Days, s \in Suffixes : n = <<"log", d, s>>
<1>1. (\E d \in Days : n \in Daily(d)) \/ (\E d \in Days : n = Archive(MonthOf(d)))
        \/ n = Claimed \/ n = Leftover
  BY DEF Names
<1>2. n # Claimed /\ n # Leftover
  BY DEF Claimed, Leftover
<1>3. \A d \in Days : n # Archive(MonthOf(d))
  BY DEF Archive
<1>4. PICK d \in Days : n \in Daily(d)
  BY <1>1, <1>2, <1>3
<1>5. \E s \in Suffixes : n = <<"log", d, s>> \/ n = <<"gz", d, s>>
  BY <1>4 DEF Daily
<1> QED
  BY <1>5

LEMMA OfADay ==
    ASSUME NEW d \in Days, NEW n \in Daily(d)
    PROVE  \E s \in Suffixes : n = <<"log", d, s>> \/ n = <<"gz", d, s>>
BY DEF Daily

LEMMA OldestAreOver ==
    ASSUME today \in Days, NEW n \in OldLogs
    PROVE  \E d \in Days, s \in Suffixes : n = <<"log", d, s>> /\ d < today
<1>1. n \in Names /\ n[1] = "log" /\ n[2] <= today - CompressAfter
  BY DEF OldLogs
<1>2. PICK d \in Days, s \in Suffixes : n = <<"log", d, s>>
  BY <1>1, LogOfADay
<1>3. d \in Nat /\ today \in Nat /\ CompressAfter \in Nat /\ CompressAfter > 0
  BY LogNames, LogAssumption DEF LogAssumption
<1>4. d <= today - CompressAfter
  BY <1>1, <1>2
<1>5. d < today
  BY <1>3, <1>4
<1> QED
  BY <1>2, <1>5

(* What a command works on.                                                *)
Jobs == [target : Names, sources : SUBSET Names, temp : SUBSET Records,
         backup : SUBSET Records, after : {"idle", "writes", "merges", "compresses"}]

FilesOK ==
    /\ log \in [Names -> SUBSET Records] /\ linked \subseteq Names
    /\ hidden \subseteq Records /\ dropped \subseteq Records

ControlOK ==
    /\ today \in Days /\ written \in 0 .. MaxRecords /\ logKilled \in BOOLEAN
    /\ logStep \in {"idle", "writes", "merges", "compresses", "shrinks", "limits", "maintained",
                    "rotates", "linked", "claimed", "ready", "backed", "removed",
                    "cleared", "activated"}

LEMMA IdleIsJob ==
    /\ Idle \in Jobs /\ Idle.sources = {} /\ Idle.temp = {} /\ Idle.backup = {}
BY LogNames DEF Idle, Jobs

LEMMA ActiveIsName == ASSUME today \in Days PROVE Active \in Names /\ Active # Claimed
BY LogNames DEF Active

LEMMA MergedIsTyped ==
    ASSUME FilesOK, NEW S, S \subseteq Names PROVE UNION {log[n] : n \in S} \subseteq Records
BY DEF FilesOK

LEMMA RotatesJob ==
    ASSUME NEW next \in {"idle", "writes"}, today \in Days, Rotates(next)
    PROVE  \E s \in Suffixes \ {0} :
             /\ job' = [target |-> <<"log", today, s>>, sources |-> {Active}, temp |-> {},
                        backup |-> {}, after |-> next]
             /\ job' \in Jobs /\ log[<<"log", today, s>>] = {} /\ log[Active] # {}
             /\ logStep' = "rotates"
             /\ UNCHANGED <<today, written, dropped, logKilled, log, linked, hidden>>
<1>1. PICK s \in Suffixes \ {0} :
        /\ Free(s) /\ Present(Active) /\ Active \notin linked
        /\ Becomes("rotates")
        /\ job' = [Idle EXCEPT !.target = <<"log", today, s>>, !.sources = {Active}, !.after = next]
        /\ UNCHANGED directoryVars
  BY DEF Rotates
<1>2. job' = [target |-> <<"log", today, s>>, sources |-> {Active}, temp |-> {}, backup |-> {},
              after |-> next]
  BY <1>1 DEF Idle
<1>3. job' \in Jobs
  BY <1>2, LogNames, ActiveIsName DEF Jobs
<1> QED
  BY <1>1, <1>2, <1>3 DEF Free, Present, Becomes, directoryVars

LEMMA MergesJob ==
    ASSUME FilesOK, today \in Days, Merges
    PROVE  \E e \in Days :
             /\ MonthOf(e) < MonthOf(today) /\ logStep = "merges"
             /\ job' = [target |-> Archive(MonthOf(e)), sources |-> OfMonth(MonthOf(e)),
                        temp |-> UNION {log[n] : n \in OfMonth(MonthOf(e)) \cup {Archive(MonthOf(e))}},
                        backup |-> {}, after |-> "merges"]
             /\ job' \in Jobs /\ logStep' = "ready"
             /\ UNCHANGED <<today, written, dropped, logKilled, log, linked, hidden>>
<1>1. PICK e \in Days : /\ logStep = "merges" /\ MonthOf(e) < MonthOf(today)
                        /\ Prepares(Archive(MonthOf(e)), OfMonth(MonthOf(e)),
                                    UNION {log[n] : n \in OfMonth(MonthOf(e)) \cup {Archive(MonthOf(e))}})
  BY DEF Merges
<1> DEFINE month == MonthOf(e)
           temp == UNION {log[n] : n \in OfMonth(month) \cup {Archive(month)}}
<1>2. OfMonth(month) \subseteq Names /\ Archive(month) \in Names
  BY LogNames DEF OfMonth
<1>3. temp \subseteq Records
  BY <1>2, MergedIsTyped
<1>4. Prepares(Archive(month), OfMonth(month), temp)
  BY <1>1
<1> HIDE DEF month, temp
<1>5. job' = [target |-> Archive(month), sources |-> OfMonth(month), temp |-> temp, backup |-> {},
              after |-> "merges"]
  BY <1>1, <1>4 DEF Prepares
<1>6. job' \in Jobs
  BY <1>2, <1>3, <1>5 DEF Jobs
<1>7. logStep' = "ready" /\ UNCHANGED <<today, written, dropped, logKilled, log, linked, hidden>>
  BY <1>4 DEF Prepares, Becomes, directoryVars
<1> QED
  BY <1>1, <1>5, <1>6, <1>7 DEF month, temp

LEMMA CompressesJob ==
    ASSUME FilesOK, ControlOK, CompressesOld
    PROVE  \E d \in Days, s \in Suffixes :
             /\ d < today /\ log[<<"log", d, s>>] # {} /\ logStep = "compresses"
             /\ job' = [target |-> <<"gz", d, s>>, sources |-> {<<"log", d, s>>},
                        temp |-> log[<<"log", d, s>>], backup |-> {}, after |-> "compresses"]
             /\ job' \in Jobs /\ logStep' = "ready"
             /\ UNCHANGED <<today, written, dropped, logKilled, log, linked, hidden>>
<1>1. PICK n \in OldLogs : logStep = "compresses" /\ Prepares(Compressed(n), {n}, log[n])
  BY DEF CompressesOld
<1>2. PICK d \in Days, s \in Suffixes : n = <<"log", d, s>> /\ d < today
  BY OldestAreOver DEF ControlOK
<1>3. Compressed(n) = <<"gz", d, s>> /\ log[n] # {} /\ n \in Names
  BY <1>2 DEF Compressed, OldLogs, Present
<1>4. job' = [target |-> <<"gz", d, s>>, sources |-> {n}, temp |-> log[n], backup |-> {},
              after |-> "compresses"]
  BY <1>1, <1>3 DEF Prepares
<1>5. log[n] \subseteq Records
  BY <1>3 DEF FilesOK
<1>6. job' \in Jobs
  BY <1>3, <1>4, <1>5, LogNames DEF Jobs
<1>7. logStep' = "ready" /\ UNCHANGED <<today, written, dropped, logKilled, log, linked, hidden>>
  BY <1>1 DEF Prepares, Becomes, directoryVars
<1> QED
  BY <1>1, <1>2, <1>3, <1>4, <1>6, <1>7

LEMMA ControlKept ==
    ASSUME job \in Jobs, FilesOK, ControlOK, LogNext PROVE ControlOK'
<1>1. CASE WritesRecord
  BY <1>1, LogAssumption DEF WritesRecord, Put, ControlOK, Jobs, Days,
     LogAssumption
<1>2. CASE RecordNeedsRoom
  BY <1>2, RotatesJob DEF RecordNeedsRoom, FullIsRotated, FilesOK, ControlOK
<1>3. CASE LinksRotated
  BY <1>3, LogAssumption DEF LinksRotated, Becomes, Put, ControlOK, Jobs, Days,
     LogAssumption
<1>4. CASE ClaimsActive
  BY <1>4, LogAssumption DEF ClaimsActive, Becomes, ControlOK, Jobs, Days,
     LogAssumption
<1>5. CASE RemovesActive
  BY <1>5, LogAssumption DEF RemovesActive, Becomes, Put, ControlOK, Jobs, Days,
     LogAssumption
<1>6. CASE RotatingFails
  BY <1>6, LogAssumption DEF RotatingFails, Returns, Put, ControlOK, Jobs, Days,
     LogAssumption
<1>7. CASE Maintains
  BY <1>7, LogAssumption DEF Maintains, Becomes, directoryVars, ControlOK, Jobs,
     Days, LogAssumption
<1>8. CASE Merges
  BY <1>8, MergesJob DEF RecordNeedsRoom, FullIsRotated, FilesOK, ControlOK
<1>9. CASE NothingToMerge
  BY <1>9, LogAssumption DEF NothingToMerge, Becomes, directoryVars, ControlOK,
     Jobs, Days, LogAssumption
<1>10. CASE CompressesOld
  BY <1>10, CompressesJob DEF RecordNeedsRoom, FullIsRotated, FilesOK, ControlOK
<1>11. CASE NothingToCompress
  BY <1>11, LogAssumption DEF NothingToCompress, Becomes, directoryVars,
     ControlOK, Jobs, Days, LogAssumption
<1>12. CASE ChecksSizes
  BY <1>12, LogAssumption DEF ChecksSizes, Becomes, directoryVars, ControlOK,
     Jobs, Days, LogAssumption
<1>13. CASE Limits
  BY <1>13, LogAssumption DEF Limits, ControlOK, Jobs, Days, LogAssumption
<1>14. CASE FullIsRotated
  BY <1>14, RotatesJob DEF RecordNeedsRoom, FullIsRotated, FilesOK, ControlOK
<1>15. CASE MaintenanceEnds
  BY <1>15, LogAssumption DEF MaintenanceEnds, Returns, directoryVars, ControlOK,
     Jobs, Days, LogAssumption
<1>16. CASE RefusesLog
  BY <1>16, LogAssumption DEF RefusesLog, Returns, directoryVars, ControlOK, Jobs,
     Days, LogAssumption
<1>17. CASE LinksBackup
  BY <1>17, LogAssumption DEF LinksBackup, Becomes, ControlOK, Jobs, Days,
     LogAssumption
<1>18. CASE ClaimsLog
  BY <1>18, LogAssumption DEF ClaimsLog, Becomes, ControlOK, Jobs, Days,
     LogAssumption
<1>19. CASE RemovesLog
  BY <1>19, LogAssumption DEF RemovesLog, Becomes, Put, ControlOK, Jobs, Days,
     LogAssumption
<1>20. CASE ActivatesLog
  BY <1>20, LogAssumption DEF ActivatesLog, Becomes, Put, Present, ControlOK,
     Jobs, Days, LogAssumption
<1>21. CASE ReplacingFails
  BY <1>21, LogAssumption DEF ReplacingFails, PutsLogBack, Returns, directoryVars,
     ControlOK, Jobs, Days, LogAssumption
<1>22. CASE DeletesSource
  BY <1>22, LogAssumption DEF DeletesSource, Becomes, Put, Present, ControlOK,
     Jobs, Days, LogAssumption
<1>23. CASE DeletingFails
  BY <1>23, LogAssumption DEF DeletingFails, PutsLogBack, Returns, directoryVars,
     ControlOK, Jobs, Days, LogAssumption
<1>24. CASE Replaced
  BY <1>24, LogAssumption DEF Replaced, Becomes, directoryVars, ControlOK, Jobs,
     Days, LogAssumption
<1>25. CASE LoggerKilled
  BY <1>25, LogAssumption DEF LoggerKilled, Put, ControlOK, Jobs, Days,
     LogAssumption
<1>26. CASE DayPasses
  BY <1>26, LogAssumption DEF DayPasses, directoryVars, loggerVars, ControlOK,
     Jobs, Days, LogAssumption
<1> QED
  BY <1>1, <1>2, <1>3, <1>4, <1>5, <1>6, <1>7, <1>8, <1>9, <1>10, <1>11, <1>12,
     <1>13, <1>14, <1>15, <1>16, <1>17, <1>18, <1>19, <1>20, <1>21, <1>22, <1>23,
     <1>24, <1>25, <1>26 DEF LogNext

LEMMA JobKept ==
    ASSUME job \in Jobs, FilesOK, ControlOK, LogNext PROVE job' \in Jobs
<1>1. CASE WritesRecord
  BY <1>1, IdleIsJob DEF WritesRecord, Put, ControlOK, FilesOK, Jobs
<1>2. CASE RecordNeedsRoom
  BY <1>2, RotatesJob DEF RecordNeedsRoom, FullIsRotated, FilesOK, ControlOK
<1>3. CASE LinksRotated
  BY <1>3, IdleIsJob DEF LinksRotated, Becomes, Put, ControlOK, FilesOK, Jobs
<1>4. CASE ClaimsActive
  BY <1>4, IdleIsJob DEF ClaimsActive, Becomes, ControlOK, FilesOK, Jobs
<1>5. CASE RemovesActive
  BY <1>5, IdleIsJob DEF RemovesActive, Becomes, Put, ControlOK, FilesOK, Jobs
<1>6. CASE RotatingFails
  BY <1>6, IdleIsJob DEF RotatingFails, Returns, Put, ControlOK, FilesOK, Jobs
<1>7. CASE Maintains
  BY <1>7, IdleIsJob DEF Maintains, Becomes, directoryVars, ControlOK, FilesOK,
     Jobs
<1>8. CASE Merges
  BY <1>8, MergesJob DEF RecordNeedsRoom, FullIsRotated, FilesOK, ControlOK
<1>9. CASE NothingToMerge
  BY <1>9, IdleIsJob DEF NothingToMerge, Becomes, directoryVars, ControlOK,
     FilesOK, Jobs
<1>10. CASE CompressesOld
  BY <1>10, CompressesJob DEF RecordNeedsRoom, FullIsRotated, FilesOK, ControlOK
<1>11. CASE NothingToCompress
  BY <1>11, IdleIsJob DEF NothingToCompress, Becomes, directoryVars, ControlOK,
     FilesOK, Jobs
<1>12. CASE ChecksSizes
  BY <1>12, IdleIsJob DEF ChecksSizes, Becomes, directoryVars, ControlOK, FilesOK,
     Jobs
<1>13. CASE Limits
  BY <1>13, IdleIsJob DEF Limits, ControlOK, FilesOK, Jobs
<1>14. CASE FullIsRotated
  BY <1>14, RotatesJob DEF RecordNeedsRoom, FullIsRotated, FilesOK, ControlOK
<1>15. CASE MaintenanceEnds
  BY <1>15, IdleIsJob DEF MaintenanceEnds, Returns, directoryVars, ControlOK,
     FilesOK, Jobs
<1>16. CASE RefusesLog
  BY <1>16, IdleIsJob DEF RefusesLog, Returns, directoryVars, ControlOK, FilesOK,
     Jobs
<1>17. CASE LinksBackup
  BY <1>17, IdleIsJob DEF LinksBackup, Becomes, ControlOK, FilesOK, Jobs
<1>18. CASE ClaimsLog
  BY <1>18, IdleIsJob DEF ClaimsLog, Becomes, ControlOK, FilesOK, Jobs
<1>19. CASE RemovesLog
  BY <1>19, IdleIsJob DEF RemovesLog, Becomes, Put, ControlOK, FilesOK, Jobs
<1>20. CASE ActivatesLog
  BY <1>20, IdleIsJob DEF ActivatesLog, Becomes, Put, Present, ControlOK, FilesOK,
     Jobs
<1>21. CASE ReplacingFails
  BY <1>21, IdleIsJob DEF ReplacingFails, PutsLogBack, Returns, directoryVars,
     ControlOK, FilesOK, Jobs
<1>22. CASE DeletesSource
  BY <1>22, IdleIsJob DEF DeletesSource, Becomes, Put, Present, ControlOK,
     FilesOK, Jobs
<1>23. CASE DeletingFails
  BY <1>23, IdleIsJob DEF DeletingFails, PutsLogBack, Returns, directoryVars,
     ControlOK, FilesOK, Jobs
<1>24. CASE Replaced
  BY <1>24, IdleIsJob DEF Replaced, Becomes, directoryVars, ControlOK, FilesOK,
     Jobs
<1>25. CASE LoggerKilled
  BY <1>25, IdleIsJob DEF LoggerKilled, Put, ControlOK, FilesOK, Jobs
<1>26. CASE DayPasses
  BY <1>26, IdleIsJob DEF DayPasses, directoryVars, loggerVars, ControlOK,
     FilesOK, Jobs
<1> QED
  BY <1>1, <1>2, <1>3, <1>4, <1>5, <1>6, <1>7, <1>8, <1>9, <1>10, <1>11, <1>12,
     <1>13, <1>14, <1>15, <1>16, <1>17, <1>18, <1>19, <1>20, <1>21, <1>22, <1>23,
     <1>24, <1>25, <1>26 DEF LogNext

LEMMA FilesKept ==
    ASSUME job \in Jobs, FilesOK, ControlOK, LogNext PROVE FilesOK'
<1>1. CASE WritesRecord
  <2>1. written + 1 \in Records
    BY <1>1, LogAssumption DEF LogAssumption, WritesRecord, ControlOK, Records
  <2>2. Active \in Names
    BY ActiveIsName DEF ControlOK
  <2> QED
    BY <1>1, <2>1, <2>2 DEF WritesRecord, Put, FilesOK
<1>2. CASE RecordNeedsRoom
  BY <1>2, RotatesJob DEF RecordNeedsRoom, FullIsRotated, FilesOK, ControlOK
<1>3. CASE LinksRotated
  BY <1>3, LogNames, ActiveIsName DEF LinksRotated, Becomes, Put, ControlOK,
     FilesOK, Jobs
<1>4. CASE ClaimsActive
  BY <1>4, LogNames, ActiveIsName DEF ClaimsActive, Becomes, ControlOK, FilesOK,
     Jobs
<1>5. CASE RemovesActive
  BY <1>5, LogNames, ActiveIsName DEF RemovesActive, Becomes, Put, ControlOK,
     FilesOK, Jobs
<1>6. CASE RotatingFails
  BY <1>6, LogNames, ActiveIsName DEF RotatingFails, Returns, Put, ControlOK,
     FilesOK, Jobs
<1>7. CASE Maintains
  BY <1>7, LogNames, ActiveIsName DEF Maintains, Becomes, directoryVars,
     ControlOK, FilesOK, Jobs
<1>8. CASE Merges
  BY <1>8, MergesJob DEF RecordNeedsRoom, FullIsRotated, FilesOK, ControlOK
<1>9. CASE NothingToMerge
  BY <1>9, LogNames, ActiveIsName DEF NothingToMerge, Becomes, directoryVars,
     ControlOK, FilesOK, Jobs
<1>10. CASE CompressesOld
  BY <1>10, CompressesJob DEF RecordNeedsRoom, FullIsRotated, FilesOK, ControlOK
<1>11. CASE NothingToCompress
  BY <1>11, LogNames, ActiveIsName DEF NothingToCompress, Becomes, directoryVars,
     ControlOK, FilesOK, Jobs
<1>12. CASE ChecksSizes
  BY <1>12, LogNames, ActiveIsName DEF ChecksSizes, Becomes, directoryVars,
     ControlOK, FilesOK, Jobs
<1>13. CASE Limits
  BY <1>13, LogNames, ActiveIsName DEF Limits, ControlOK, FilesOK, Jobs
<1>14. CASE FullIsRotated
  BY <1>14, RotatesJob DEF RecordNeedsRoom, FullIsRotated, FilesOK, ControlOK
<1>15. CASE MaintenanceEnds
  BY <1>15, LogNames, ActiveIsName DEF MaintenanceEnds, Returns, directoryVars,
     ControlOK, FilesOK, Jobs
<1>16. CASE RefusesLog
  BY <1>16, LogNames, ActiveIsName DEF RefusesLog, Returns, directoryVars,
     ControlOK, FilesOK, Jobs
<1>17. CASE LinksBackup
  BY <1>17, LogNames, ActiveIsName DEF LinksBackup, Becomes, ControlOK, FilesOK,
     Jobs
<1>18. CASE ClaimsLog
  BY <1>18, LogNames, ActiveIsName DEF ClaimsLog, Becomes, ControlOK, FilesOK,
     Jobs
<1>19. CASE RemovesLog
  BY <1>19, LogNames, ActiveIsName DEF RemovesLog, Becomes, Put, ControlOK,
     FilesOK, Jobs
<1>20. CASE ActivatesLog
  BY <1>20, LogNames, ActiveIsName DEF ActivatesLog, Becomes, Put, Present,
     ControlOK, FilesOK, Jobs
<1>21. CASE ReplacingFails
  BY <1>21, LogNames, ActiveIsName DEF ReplacingFails, PutsLogBack, Returns,
     directoryVars, ControlOK, FilesOK, Jobs
<1>22. CASE DeletesSource
  BY <1>22, LogNames, ActiveIsName DEF DeletesSource, Becomes, Put, Present,
     ControlOK, FilesOK, Jobs
<1>23. CASE DeletingFails
  BY <1>23, LogNames, ActiveIsName DEF DeletingFails, PutsLogBack, Returns,
     directoryVars, ControlOK, FilesOK, Jobs
<1>24. CASE Replaced
  BY <1>24, LogNames, ActiveIsName DEF Replaced, Becomes, directoryVars,
     ControlOK, FilesOK, Jobs
<1>25. CASE LoggerKilled
  BY <1>25, LogNames, ActiveIsName DEF LoggerKilled, Put, ControlOK, FilesOK, Jobs
<1>26. CASE DayPasses
  BY <1>26, LogNames, ActiveIsName DEF DayPasses, directoryVars, loggerVars,
     ControlOK, FilesOK, Jobs
<1> QED
  BY <1>1, <1>2, <1>3, <1>4, <1>5, <1>6, <1>7, <1>8, <1>9, <1>10, <1>11, <1>12,
     <1>13, <1>14, <1>15, <1>16, <1>17, <1>18, <1>19, <1>20, <1>21, <1>22, <1>23,
     <1>24, <1>25, <1>26 DEF LogNext

(* A target is none of its sources, and neither is the claimed name.       *)
LEMMA ReplacingTarget ==
    ASSUME LogInv, logStep \in ReplacementSteps
    PROVE  /\ job.target \in Names /\ job.target # Claimed /\ job.target \notin job.sources
           /\ job.sources \subseteq Names /\ Claimed \notin job.sources
<1>1. CASE Compressing
  BY <1>1, LogNames DEF Compressing
<1>2. CASE Merging
  BY <1>2, LogNames DEF Merging
<1> QED
  BY <1>1, <1>2 DEF LogInv, ReplacingIsSound

LEMMA RotatingTarget ==
    ASSUME LogInv, logStep \in {"rotates", "linked", "claimed"}
    PROVE  /\ job.target \in Names /\ job.target # Claimed /\ job.target # Active
           /\ Active \in Names /\ Active # Claimed
<1>1. today \in Days
  BY DEF LogInv, LogTypeOK
<1>2. PICK s \in Suffixes \ {0} : job.target = <<"log", today, s>>
  BY DEF LogInv, Rotating
<1>3. job.target \in Names /\ job.target # Claimed
  BY <1>1, <1>2, LogNames
<1>4. s # 0
  OBVIOUS
<1>5. <<"log", today, s>> # <<"log", today, 0>>
  BY <1>4
<1>6. job.target # Active
  BY <1>2, <1>5 DEF Active
<1> QED
  BY <1>1, <1>3, <1>6, ActiveIsName

LEMMA LogTypes == ASSUME LogInv PROVE job \in Jobs /\ FilesOK /\ ControlOK /\ Active \in Names /\ Active # Claimed
BY ActiveIsName DEF LogInv, LogTypeOK, Jobs, FilesOK, ControlOK

LEMMA ClaimedKept ==
    ASSUME LogInv, LogNext PROVE ClaimedIsEmpty'
<1>1. CASE WritesRecord
  BY <1>1, LogTypes, ReplacingTarget, RotatingTarget, LogNames DEF WritesRecord,
     Put, LogInv, ClaimedIsEmpty, FilesOK, ControlOK, Jobs, ReplacementSteps
<1>2. CASE RecordNeedsRoom
  BY <1>2, LogTypes, RotatesJob DEF RecordNeedsRoom, FullIsRotated, FilesOK, ControlOK, LogInv, ClaimedIsEmpty
<1>3. CASE LinksRotated
  BY <1>3, LogTypes, ReplacingTarget, RotatingTarget, LogNames DEF LinksRotated,
     Becomes, Put, LogInv, ClaimedIsEmpty, FilesOK, ControlOK, Jobs,
     ReplacementSteps
<1>4. CASE ClaimsActive
  BY <1>4, LogTypes, ReplacingTarget, RotatingTarget, LogNames DEF ClaimsActive,
     Becomes, LogInv, ClaimedIsEmpty, FilesOK, ControlOK, Jobs, ReplacementSteps
<1>5. CASE RemovesActive
  BY <1>5, LogTypes, ReplacingTarget, RotatingTarget, LogNames DEF RemovesActive,
     Becomes, Put, LogInv, ClaimedIsEmpty, FilesOK, ControlOK, Jobs,
     ReplacementSteps
<1>6. CASE RotatingFails
  BY <1>6, LogTypes, ReplacingTarget, RotatingTarget, LogNames DEF RotatingFails,
     Returns, Put, LogInv, ClaimedIsEmpty, FilesOK, ControlOK, Jobs,
     ReplacementSteps
<1>7. CASE Maintains
  BY <1>7, LogTypes, ReplacingTarget, RotatingTarget, LogNames DEF Maintains,
     Becomes, directoryVars, LogInv, ClaimedIsEmpty, FilesOK, ControlOK, Jobs,
     ReplacementSteps
<1>8. CASE Merges
  BY <1>8, LogTypes, MergesJob DEF RecordNeedsRoom, FullIsRotated, FilesOK, ControlOK, LogInv, ClaimedIsEmpty
<1>9. CASE NothingToMerge
  BY <1>9, LogTypes, ReplacingTarget, RotatingTarget, LogNames DEF NothingToMerge,
     Becomes, directoryVars, LogInv, ClaimedIsEmpty, FilesOK, ControlOK, Jobs,
     ReplacementSteps
<1>10. CASE CompressesOld
  BY <1>10, LogTypes, CompressesJob DEF RecordNeedsRoom, FullIsRotated, FilesOK, ControlOK, LogInv, ClaimedIsEmpty
<1>11. CASE NothingToCompress
  BY <1>11, LogTypes, ReplacingTarget, RotatingTarget, LogNames DEF
     NothingToCompress, Becomes, directoryVars, LogInv, ClaimedIsEmpty, FilesOK,
     ControlOK, Jobs, ReplacementSteps
<1>12. CASE ChecksSizes
  BY <1>12, LogTypes, ReplacingTarget, RotatingTarget, LogNames DEF ChecksSizes,
     Becomes, directoryVars, LogInv, ClaimedIsEmpty, FilesOK, ControlOK, Jobs,
     ReplacementSteps
<1>13. CASE Limits
  BY <1>13, LogTypes, ReplacingTarget, RotatingTarget, LogNames DEF Limits,
     LogInv, ClaimedIsEmpty, FilesOK, ControlOK, Jobs, ReplacementSteps
<1>14. CASE FullIsRotated
  BY <1>14, LogTypes, RotatesJob DEF RecordNeedsRoom, FullIsRotated, FilesOK, ControlOK, LogInv, ClaimedIsEmpty
<1>15. CASE MaintenanceEnds
  BY <1>15, LogTypes, ReplacingTarget, RotatingTarget, LogNames DEF
     MaintenanceEnds, Returns, directoryVars, LogInv, ClaimedIsEmpty, FilesOK,
     ControlOK, Jobs, ReplacementSteps
<1>16. CASE RefusesLog
  BY <1>16, LogTypes, ReplacingTarget, RotatingTarget, LogNames DEF RefusesLog,
     Returns, directoryVars, LogInv, ClaimedIsEmpty, FilesOK, ControlOK, Jobs,
     ReplacementSteps
<1>17. CASE LinksBackup
  BY <1>17, LogTypes, ReplacingTarget, RotatingTarget, LogNames DEF LinksBackup,
     Becomes, LogInv, ClaimedIsEmpty, FilesOK, ControlOK, Jobs, ReplacementSteps
<1>18. CASE ClaimsLog
  BY <1>18, LogTypes, ReplacingTarget, RotatingTarget, LogNames DEF ClaimsLog,
     Becomes, LogInv, ClaimedIsEmpty, FilesOK, ControlOK, Jobs, ReplacementSteps
<1>19. CASE RemovesLog
  BY <1>19, LogTypes, ReplacingTarget, RotatingTarget, LogNames DEF RemovesLog,
     Becomes, Put, LogInv, ClaimedIsEmpty, FilesOK, ControlOK, Jobs,
     ReplacementSteps
<1>20. CASE ActivatesLog
  BY <1>20, LogTypes, ReplacingTarget, RotatingTarget, LogNames DEF ActivatesLog,
     Becomes, Put, Present, LogInv, ClaimedIsEmpty, FilesOK, ControlOK, Jobs,
     ReplacementSteps
<1>21. CASE ReplacingFails
  BY <1>21, LogTypes, ReplacingTarget, RotatingTarget, LogNames DEF
     ReplacingFails, PutsLogBack, Returns, directoryVars, LogInv, ClaimedIsEmpty,
     FilesOK, ControlOK, Jobs, ReplacementSteps
<1>22. CASE DeletesSource
  BY <1>22, LogTypes, ReplacingTarget, RotatingTarget, LogNames DEF DeletesSource,
     Becomes, Put, Present, LogInv, ClaimedIsEmpty, FilesOK, ControlOK, Jobs,
     ReplacementSteps
<1>23. CASE DeletingFails
  BY <1>23, LogTypes, ReplacingTarget, RotatingTarget, LogNames DEF DeletingFails,
     PutsLogBack, Returns, directoryVars, LogInv, ClaimedIsEmpty, FilesOK,
     ControlOK, Jobs, ReplacementSteps
<1>24. CASE Replaced
  BY <1>24, LogTypes, ReplacingTarget, RotatingTarget, LogNames DEF Replaced,
     Becomes, directoryVars, LogInv, ClaimedIsEmpty, FilesOK, ControlOK, Jobs,
     ReplacementSteps
<1>25. CASE LoggerKilled
  BY <1>25, LogTypes, ReplacingTarget, RotatingTarget, LogNames DEF LoggerKilled,
     Put, LogInv, ClaimedIsEmpty, FilesOK, ControlOK, Jobs, ReplacementSteps
<1>26. CASE DayPasses
  BY <1>26, LogTypes, ReplacingTarget, RotatingTarget, LogNames DEF DayPasses,
     directoryVars, loggerVars, LogInv, ClaimedIsEmpty, FilesOK, ControlOK, Jobs,
     ReplacementSteps
<1> QED
  BY <1>1, <1>2, <1>3, <1>4, <1>5, <1>6, <1>7, <1>8, <1>9, <1>10, <1>11, <1>12,
     <1>13, <1>14, <1>15, <1>16, <1>17, <1>18, <1>19, <1>20, <1>21, <1>22, <1>23,
     <1>24, <1>25, <1>26 DEF LogNext

LEMMA RotatingKept ==
    ASSUME LogInv, LogNext PROVE Rotating'
<1>1. CASE WritesRecord
  BY <1>1, LogTypes, ReplacingTarget, RotatingTarget DEF WritesRecord, Put,
     LogInv, Rotating, Active, Present, FilesOK, ControlOK, Jobs, ReplacementSteps
<1>2. CASE RecordNeedsRoom
  <2>1. PICK s \in Suffixes \ {0} :
           /\ job' = [target |-> <<"log", today, s>>, sources |-> {Active}, temp |-> {},
                      backup |-> {}, after |-> "writes"]
           /\ log[<<"log", today, s>>] = {} /\ log[Active] # {} /\ logStep' = "rotates"
           /\ UNCHANGED <<today, log>>
    BY <1>2, LogTypes, RotatesJob DEF RecordNeedsRoom, ControlOK
  <2> QED
    BY <2>1 DEF Rotating, Present, Active
<1>3. CASE LinksRotated
  BY <1>3, LogTypes, ReplacingTarget, RotatingTarget DEF LinksRotated, Becomes,
     Put, LogInv, Rotating, Active, Present, FilesOK, ControlOK, Jobs,
     ReplacementSteps
<1>4. CASE ClaimsActive
  <2>1. logStep = "linked" /\ logStep' = "claimed" /\ job' = job /\ today' = today
    BY <1>4 DEF ClaimsActive, Becomes
  <2>2. log' = [log EXCEPT ![Claimed] = log[Active], ![Active] = {}]
    BY <1>4 DEF ClaimsActive
  <2>3. /\ log[job.target] = log[Active] /\ job.temp = {} /\ job.backup = {}
        /\ \E s \in Suffixes \ {0} : job.target = <<"log", today, s>>
    BY <2>1 DEF LogInv, Rotating
  <2>4. job.target \in Names /\ job.target # Claimed /\ job.target # Active
    BY <2>1, RotatingTarget
  <2>5. Active \in Names /\ Active # Claimed /\ Claimed \in Names /\ log \in [Names -> SUBSET Records]
    BY LogTypes, LogNames DEF FilesOK
  <2>6. Active' = Active
    BY <2>1 DEF Active
  <2>7. log'[job.target] = log[job.target] /\ log'[Claimed] = log[Active] /\ log'[Active] = {}
    BY <2>2, <2>4, <2>5
  <2> QED
    BY <2>1, <2>3, <2>6, <2>7 DEF Rotating
<1>5. CASE RemovesActive
  BY <1>5, LogTypes, ReplacingTarget, RotatingTarget DEF RemovesActive, Becomes,
     Put, LogInv, Rotating, Active, Present, FilesOK, ControlOK, Jobs,
     ReplacementSteps
<1>6. CASE RotatingFails
  BY <1>6, LogTypes, ReplacingTarget, RotatingTarget DEF RotatingFails, Returns,
     Put, LogInv, Rotating, Active, Present, FilesOK, ControlOK, Jobs,
     ReplacementSteps
<1>7. CASE Maintains
  BY <1>7, LogTypes, ReplacingTarget, RotatingTarget DEF Maintains, Becomes,
     directoryVars, LogInv, Rotating, Active, Present, FilesOK, ControlOK, Jobs,
     ReplacementSteps
<1>8. CASE Merges
  BY <1>8, LogTypes, MergesJob DEF RecordNeedsRoom, FullIsRotated, FilesOK, ControlOK, LogInv, Rotating, Active, Present
<1>9. CASE NothingToMerge
  BY <1>9, LogTypes, ReplacingTarget, RotatingTarget DEF NothingToMerge, Becomes,
     directoryVars, LogInv, Rotating, Active, Present, FilesOK, ControlOK, Jobs,
     ReplacementSteps
<1>10. CASE CompressesOld
  BY <1>10, LogTypes, CompressesJob DEF RecordNeedsRoom, FullIsRotated, FilesOK, ControlOK, LogInv, Rotating, Active, Present
<1>11. CASE NothingToCompress
  BY <1>11, LogTypes, ReplacingTarget, RotatingTarget DEF NothingToCompress,
     Becomes, directoryVars, LogInv, Rotating, Active, Present, FilesOK,
     ControlOK, Jobs, ReplacementSteps
<1>12. CASE ChecksSizes
  BY <1>12, LogTypes, ReplacingTarget, RotatingTarget DEF ChecksSizes, Becomes,
     directoryVars, LogInv, Rotating, Active, Present, FilesOK, ControlOK, Jobs,
     ReplacementSteps
<1>13. CASE Limits
  BY <1>13, LogTypes, ReplacingTarget, RotatingTarget DEF Limits, LogInv,
     Rotating, Active, Present, FilesOK, ControlOK, Jobs, ReplacementSteps
<1>14. CASE FullIsRotated
  <2>1. PICK s \in Suffixes \ {0} :
           /\ job' = [target |-> <<"log", today, s>>, sources |-> {Active}, temp |-> {},
                      backup |-> {}, after |-> "idle"]
           /\ log[<<"log", today, s>>] = {} /\ log[Active] # {} /\ logStep' = "rotates"
           /\ UNCHANGED <<today, log>>
    BY <1>14, LogTypes, RotatesJob DEF FullIsRotated, ControlOK
  <2> QED
    BY <2>1 DEF Rotating, Present, Active
<1>15. CASE MaintenanceEnds
  BY <1>15, LogTypes, ReplacingTarget, RotatingTarget DEF MaintenanceEnds,
     Returns, directoryVars, LogInv, Rotating, Active, Present, FilesOK,
     ControlOK, Jobs, ReplacementSteps
<1>16. CASE RefusesLog
  BY <1>16, LogTypes, ReplacingTarget, RotatingTarget DEF RefusesLog, Returns,
     directoryVars, LogInv, Rotating, Active, Present, FilesOK, ControlOK, Jobs,
     ReplacementSteps
<1>17. CASE LinksBackup
  BY <1>17, LogTypes, ReplacingTarget, RotatingTarget DEF LinksBackup, Becomes,
     LogInv, Rotating, Active, Present, FilesOK, ControlOK, Jobs, ReplacementSteps
<1>18. CASE ClaimsLog
  BY <1>18, LogTypes, ReplacingTarget, RotatingTarget DEF ClaimsLog, Becomes,
     LogInv, Rotating, Active, Present, FilesOK, ControlOK, Jobs, ReplacementSteps
<1>19. CASE RemovesLog
  BY <1>19, LogTypes, ReplacingTarget, RotatingTarget DEF RemovesLog, Becomes,
     Put, LogInv, Rotating, Active, Present, FilesOK, ControlOK, Jobs,
     ReplacementSteps
<1>20. CASE ActivatesLog
  BY <1>20, LogTypes, ReplacingTarget, RotatingTarget DEF ActivatesLog, Becomes,
     Put, Present, LogInv, Rotating, Active, FilesOK, ControlOK, Jobs,
     ReplacementSteps
<1>21. CASE ReplacingFails
  BY <1>21, LogTypes, ReplacingTarget, RotatingTarget DEF ReplacingFails,
     PutsLogBack, Returns, directoryVars, LogInv, Rotating, Active, Present,
     FilesOK, ControlOK, Jobs, ReplacementSteps
<1>22. CASE DeletesSource
  BY <1>22, LogTypes, ReplacingTarget, RotatingTarget DEF DeletesSource, Becomes,
     Put, Present, LogInv, Rotating, Active, FilesOK, ControlOK, Jobs,
     ReplacementSteps
<1>23. CASE DeletingFails
  BY <1>23, LogTypes, ReplacingTarget, RotatingTarget DEF DeletingFails,
     PutsLogBack, Returns, directoryVars, LogInv, Rotating, Active, Present,
     FilesOK, ControlOK, Jobs, ReplacementSteps
<1>24. CASE Replaced
  BY <1>24, LogTypes, ReplacingTarget, RotatingTarget DEF Replaced, Becomes,
     directoryVars, LogInv, Rotating, Active, Present, FilesOK, ControlOK, Jobs,
     ReplacementSteps
<1>25. CASE LoggerKilled
  BY <1>25, LogTypes, ReplacingTarget, RotatingTarget DEF LoggerKilled, Put,
     LogInv, Rotating, Active, Present, FilesOK, ControlOK, Jobs, ReplacementSteps
<1>26. CASE DayPasses
  BY <1>26, LogTypes, ReplacingTarget, RotatingTarget DEF DayPasses,
     directoryVars, loggerVars, LogInv, Rotating, Active, Present, FilesOK,
     ControlOK, Jobs, ReplacementSteps
<1> QED
  BY <1>1, <1>2, <1>3, <1>4, <1>5, <1>6, <1>7, <1>8, <1>9, <1>10, <1>11, <1>12,
     <1>13, <1>14, <1>15, <1>16, <1>17, <1>18, <1>19, <1>20, <1>21, <1>22, <1>23,
     <1>24, <1>25, <1>26 DEF LogNext

LEMMA IdleKept ==
    ASSUME LogInv, LogNext PROVE NothingHeld'
<1>1. CASE WritesRecord
  BY <1>1, LogTypes, ReplacingTarget, RotatingTarget, IdleIsJob DEF WritesRecord,
     Put, LogInv, NothingHeld, Rotating, FilesOK, ControlOK, Jobs,
     ReplacementSteps
<1>2. CASE RecordNeedsRoom
  BY <1>2, LogTypes, RotatesJob DEF RecordNeedsRoom, FullIsRotated, FilesOK, ControlOK, LogInv, NothingHeld, ReplacementSteps
<1>3. CASE LinksRotated
  BY <1>3, LogTypes, ReplacingTarget, RotatingTarget, IdleIsJob DEF LinksRotated,
     Becomes, Put, LogInv, NothingHeld, Rotating, FilesOK, ControlOK, Jobs,
     ReplacementSteps
<1>4. CASE ClaimsActive
  BY <1>4, LogTypes, ReplacingTarget, RotatingTarget, IdleIsJob DEF ClaimsActive,
     Becomes, LogInv, NothingHeld, Rotating, FilesOK, ControlOK, Jobs,
     ReplacementSteps
<1>5. CASE RemovesActive
  BY <1>5, LogTypes, ReplacingTarget, RotatingTarget, IdleIsJob DEF RemovesActive,
     Becomes, Put, LogInv, NothingHeld, Rotating, FilesOK, ControlOK, Jobs,
     ReplacementSteps
<1>6. CASE RotatingFails
  BY <1>6, LogTypes, ReplacingTarget, RotatingTarget, IdleIsJob DEF RotatingFails,
     Returns, Put, LogInv, NothingHeld, Rotating, FilesOK, ControlOK, Jobs,
     ReplacementSteps
<1>7. CASE Maintains
  BY <1>7, LogTypes, ReplacingTarget, RotatingTarget, IdleIsJob DEF Maintains,
     Becomes, directoryVars, LogInv, NothingHeld, Rotating, FilesOK, ControlOK,
     Jobs, ReplacementSteps
<1>8. CASE Merges
  BY <1>8, LogTypes, MergesJob DEF RecordNeedsRoom, FullIsRotated, FilesOK, ControlOK, LogInv, NothingHeld, ReplacementSteps
<1>9. CASE NothingToMerge
  BY <1>9, LogTypes, ReplacingTarget, RotatingTarget, IdleIsJob DEF
     NothingToMerge, Becomes, directoryVars, LogInv, NothingHeld, Rotating,
     FilesOK, ControlOK, Jobs, ReplacementSteps
<1>10. CASE CompressesOld
  BY <1>10, LogTypes, CompressesJob DEF RecordNeedsRoom, FullIsRotated, FilesOK, ControlOK, LogInv, NothingHeld, ReplacementSteps
<1>11. CASE NothingToCompress
  BY <1>11, LogTypes, ReplacingTarget, RotatingTarget, IdleIsJob DEF
     NothingToCompress, Becomes, directoryVars, LogInv, NothingHeld, Rotating,
     FilesOK, ControlOK, Jobs, ReplacementSteps
<1>12. CASE ChecksSizes
  BY <1>12, LogTypes, ReplacingTarget, RotatingTarget, IdleIsJob DEF ChecksSizes,
     Becomes, directoryVars, LogInv, NothingHeld, Rotating, FilesOK, ControlOK,
     Jobs, ReplacementSteps
<1>13. CASE Limits
  BY <1>13, LogTypes, ReplacingTarget, RotatingTarget, IdleIsJob DEF Limits,
     LogInv, NothingHeld, Rotating, FilesOK, ControlOK, Jobs, ReplacementSteps
<1>14. CASE FullIsRotated
  BY <1>14, LogTypes, RotatesJob DEF RecordNeedsRoom, FullIsRotated, FilesOK, ControlOK, LogInv, NothingHeld, ReplacementSteps
<1>15. CASE MaintenanceEnds
  BY <1>15, LogTypes, ReplacingTarget, RotatingTarget, IdleIsJob DEF
     MaintenanceEnds, Returns, directoryVars, LogInv, NothingHeld, Rotating,
     FilesOK, ControlOK, Jobs, ReplacementSteps
<1>16. CASE RefusesLog
  BY <1>16, LogTypes, ReplacingTarget, RotatingTarget, IdleIsJob DEF RefusesLog,
     Returns, directoryVars, LogInv, NothingHeld, Rotating, FilesOK, ControlOK,
     Jobs, ReplacementSteps
<1>17. CASE LinksBackup
  BY <1>17, LogTypes, ReplacingTarget, RotatingTarget, IdleIsJob DEF LinksBackup,
     Becomes, LogInv, NothingHeld, Rotating, FilesOK, ControlOK, Jobs,
     ReplacementSteps
<1>18. CASE ClaimsLog
  BY <1>18, LogTypes, ReplacingTarget, RotatingTarget, IdleIsJob DEF ClaimsLog,
     Becomes, LogInv, NothingHeld, Rotating, FilesOK, ControlOK, Jobs,
     ReplacementSteps
<1>19. CASE RemovesLog
  BY <1>19, LogTypes, ReplacingTarget, RotatingTarget, IdleIsJob DEF RemovesLog,
     Becomes, Put, LogInv, NothingHeld, Rotating, FilesOK, ControlOK, Jobs,
     ReplacementSteps
<1>20. CASE ActivatesLog
  BY <1>20, LogTypes, ReplacingTarget, RotatingTarget, IdleIsJob DEF ActivatesLog,
     Becomes, Put, Present, LogInv, NothingHeld, Rotating, FilesOK, ControlOK,
     Jobs, ReplacementSteps
<1>21. CASE ReplacingFails
  BY <1>21, LogTypes, ReplacingTarget, RotatingTarget, IdleIsJob DEF
     ReplacingFails, PutsLogBack, Returns, directoryVars, LogInv, NothingHeld,
     Rotating, FilesOK, ControlOK, Jobs, ReplacementSteps
<1>22. CASE DeletesSource
  BY <1>22, LogTypes, ReplacingTarget, RotatingTarget, IdleIsJob DEF
     DeletesSource, Becomes, Put, Present, LogInv, NothingHeld, Rotating, FilesOK,
     ControlOK, Jobs, ReplacementSteps
<1>23. CASE DeletingFails
  BY <1>23, LogTypes, ReplacingTarget, RotatingTarget, IdleIsJob DEF
     DeletingFails, PutsLogBack, Returns, directoryVars, LogInv, NothingHeld,
     Rotating, FilesOK, ControlOK, Jobs, ReplacementSteps
<1>24. CASE Replaced
  BY <1>24, LogTypes, ReplacingTarget, RotatingTarget, IdleIsJob DEF Replaced,
     Becomes, directoryVars, LogInv, NothingHeld, Rotating, FilesOK, ControlOK,
     Jobs, ReplacementSteps
<1>25. CASE LoggerKilled
  BY <1>25, LogTypes, ReplacingTarget, RotatingTarget, IdleIsJob DEF LoggerKilled,
     Put, LogInv, NothingHeld, Rotating, FilesOK, ControlOK, Jobs,
     ReplacementSteps
<1>26. CASE DayPasses
  BY <1>26, LogTypes, ReplacingTarget, RotatingTarget, IdleIsJob DEF DayPasses,
     directoryVars, loggerVars, LogInv, NothingHeld, Rotating, FilesOK, ControlOK,
     Jobs, ReplacementSteps
<1> QED
  BY <1>1, <1>2, <1>3, <1>4, <1>5, <1>6, <1>7, <1>8, <1>9, <1>10, <1>11, <1>12,
     <1>13, <1>14, <1>15, <1>16, <1>17, <1>18, <1>19, <1>20, <1>21, <1>22, <1>23,
     <1>24, <1>25, <1>26 DEF LogNext

(* The logs of days that are over are not what a rotation works on, and a   *)
(* replacement puts only a compressed log, or an archive, in its place.    *)
LEMMA Elsewhere ==
    ASSUME LogInv, NEW d \in Days, NEW s \in Suffixes
    PROVE  /\ <<"gz", d, s>> \in Names /\ <<"log", d, s>> \in Names
           /\ <<"gz", d, s>> # Claimed /\ <<"log", d, s>> # Claimed
           /\ <<"gz", d, s>> # <<"log", d, s>>
           /\ <<"gz", d, s>> # Active
           /\ d < today => <<"log", d, s>> # Active
           /\ logStep \in {"rotates", "linked", "claimed"} =>
                /\ <<"gz", d, s>> # job.target
                /\ d < today => <<"log", d, s>> # job.target
<1>1. d \in Nat /\ today \in Nat
  BY LogNames DEF LogInv, LogTypeOK
<1>2. \A e \in Suffixes : <<"gz", d, s>> # <<"log", today, e>>
  OBVIOUS
<1>3. d < today => d # today
  BY <1>1
<1>4. d < today => \A e : <<"log", d, s>> # <<"log", today, e>>
  BY <1>3
<1> QED
  BY <1>2, <1>4, LogNames DEF Active, LogInv, Rotating

LEMMA ReplacedNames ==
    ASSUME LogInv, logStep \in ReplacementSteps, NEW d \in Days, NEW s \in Suffixes
    PROVE  /\ <<"log", d, s>> # job.target
           /\ <<"gz", d, s>> = job.target =>
                /\ d < today /\ job.sources = {<<"log", d, s>>}
                /\ Present(<<"log", d, s>>) => job.backup \subseteq log[<<"log", d, s>>]
<1>1. CASE Compressing
  <2>1. PICK e \in Days, f \in Suffixes :
          /\ e < today /\ job.target = <<"gz", e, f>> /\ job.sources = {<<"log", e, f>>}
          /\ Present(<<"log", e, f>>) => job.backup \subseteq log[<<"log", e, f>>]
    BY <1>1 DEF Compressing
  <2>2. CASE <<"gz", d, s>> = job.target
    BY <2>1, <2>2
  <2> QED
    BY <2>1, <2>2
<1>2. CASE Merging
  <2>1. PICK e \in Days : job.target = <<"month", MonthOf(e), 0>>
    BY <1>2 DEF Merging, Archive
  <2> QED
    BY <2>1
<1> QED
  BY <1>1, <1>2 DEF LogInv, ReplacingIsSound

LEMMA PutBackCopies ==
    ASSUME LogInv, logStep \in ReplacementSteps, PutsLogBack PROVE GzIsCopy'
<1> SUFFICES ASSUME NEW d \in Days, NEW s \in Suffixes, log'[<<"gz", d, s>>] # {}
             PROVE  /\ d < today
                    /\ log'[<<"log", d, s>>] # {} => log'[<<"gz", d, s>>] \subseteq log'[<<"log", d, s>>]
  BY DEF GzIsCopy, Present, PutsLogBack, Returns
<1>1. log' = [log EXCEPT ![job.target] = job.backup, ![Claimed] = {}]
  BY DEF PutsLogBack
<1>2. log \in [Names -> SUBSET Records]
  BY LogTypes DEF FilesOK
<1>3. log'[<<"log", d, s>>] = log[<<"log", d, s>>]
  BY <1>1, <1>2, Elsewhere, ReplacedNames
<1>4. CASE <<"gz", d, s>> = job.target
  BY <1>1, <1>2, <1>3, <1>4, Elsewhere, ReplacedNames DEF Present
<1>5. CASE <<"gz", d, s>> # job.target
  <2>1. log'[<<"gz", d, s>>] = log[<<"gz", d, s>>]
    BY <1>1, <1>2, <1>5, Elsewhere
  <2> QED
    BY <1>3, <2>1 DEF LogInv, GzIsCopy, Present
<1> QED
  BY <1>4, <1>5

LEMMA GzKept ==
    ASSUME LogInv, LogNext PROVE GzIsCopy'
<1>1. CASE WritesRecord
  <2> SUFFICES ASSUME NEW d \in Days, NEW s \in Suffixes, log'[<<"gz", d, s>>] # {}
               PROVE  /\ d < today'
                      /\ log'[<<"log", d, s>>] # {} =>
                           log'[<<"gz", d, s>>] \subseteq log'[<<"log", d, s>>]
    BY DEF GzIsCopy, Present
  <2>1. log[<<"gz", d, s>>] # {} /\ log'[<<"gz", d, s>>] = log[<<"gz", d, s>>]
    BY <1>1, LogTypes, Elsewhere DEF WritesRecord, Put, FilesOK
  <2>2. d < today
    BY <2>1 DEF LogInv, GzIsCopy, Present
  <2>3. log'[<<"log", d, s>>] = log[<<"log", d, s>>] /\ today' = today
    BY <1>1, <2>2, LogTypes, Elsewhere DEF WritesRecord, Put, FilesOK
  <2> QED
    BY <2>1, <2>2, <2>3 DEF LogInv, GzIsCopy, Present
<1>2. CASE RecordNeedsRoom
  BY <1>2, LogTypes, RotatesJob DEF RecordNeedsRoom, FullIsRotated, FilesOK, ControlOK, LogInv, GzIsCopy, Present
<1>3. CASE LinksRotated
  <2> SUFFICES ASSUME NEW d \in Days, NEW s \in Suffixes, log'[<<"gz", d, s>>] # {}
               PROVE  /\ d < today'
                      /\ log'[<<"log", d, s>>] # {} =>
                           log'[<<"gz", d, s>>] \subseteq log'[<<"log", d, s>>]
    BY DEF GzIsCopy, Present
  <2>1. log[<<"gz", d, s>>] # {} /\ log'[<<"gz", d, s>>] = log[<<"gz", d, s>>]
    BY <1>3, LogTypes, Elsewhere DEF LinksRotated, Put, Becomes, FilesOK
  <2>2. d < today
    BY <2>1 DEF LogInv, GzIsCopy, Present
  <2>3. log'[<<"log", d, s>>] = log[<<"log", d, s>>] /\ today' = today
    BY <1>3, <2>2, LogTypes, Elsewhere DEF LinksRotated, Put, Becomes, FilesOK
  <2> QED
    BY <2>1, <2>2, <2>3 DEF LogInv, GzIsCopy, Present
<1>4. CASE ClaimsActive
  BY <1>4, LogTypes, ReplacingTarget, RotatingTarget, LogNames DEF ClaimsActive,
     Becomes, LogInv, GzIsCopy, Present, FilesOK, ControlOK, Jobs,
     ReplacementSteps
<1>5. CASE RemovesActive
  BY <1>5, LogTypes, ReplacingTarget, RotatingTarget, LogNames DEF RemovesActive,
     Becomes, Put, LogInv, GzIsCopy, Present, FilesOK, ControlOK, Jobs,
     ReplacementSteps
<1>6. CASE RotatingFails
  <2> SUFFICES ASSUME NEW d \in Days, NEW s \in Suffixes, log'[<<"gz", d, s>>] # {}
               PROVE  /\ d < today'
                      /\ log'[<<"log", d, s>>] # {} =>
                           log'[<<"gz", d, s>>] \subseteq log'[<<"log", d, s>>]
    BY DEF GzIsCopy, Present
  <2>1. log[<<"gz", d, s>>] # {} /\ log'[<<"gz", d, s>>] = log[<<"gz", d, s>>]
    BY <1>6, LogTypes, Elsewhere DEF RotatingFails, Put, Returns, FilesOK
  <2>2. d < today
    BY <2>1 DEF LogInv, GzIsCopy, Present
  <2>3. log'[<<"log", d, s>>] = log[<<"log", d, s>>] /\ today' = today
    BY <1>6, <2>2, LogTypes, Elsewhere DEF RotatingFails, Put, Returns, FilesOK
  <2> QED
    BY <2>1, <2>2, <2>3 DEF LogInv, GzIsCopy, Present
<1>7. CASE Maintains
  BY <1>7, LogTypes, ReplacingTarget, RotatingTarget, LogNames DEF Maintains,
     Becomes, directoryVars, LogInv, GzIsCopy, Present, FilesOK, ControlOK, Jobs,
     ReplacementSteps
<1>8. CASE Merges
  BY <1>8, LogTypes, MergesJob DEF RecordNeedsRoom, FullIsRotated, FilesOK, ControlOK, LogInv, GzIsCopy, Present
<1>9. CASE NothingToMerge
  BY <1>9, LogTypes, ReplacingTarget, RotatingTarget, LogNames DEF NothingToMerge,
     Becomes, directoryVars, LogInv, GzIsCopy, Present, FilesOK, ControlOK, Jobs,
     ReplacementSteps
<1>10. CASE CompressesOld
  BY <1>10, LogTypes, CompressesJob DEF RecordNeedsRoom, FullIsRotated, FilesOK, ControlOK, LogInv, GzIsCopy, Present
<1>11. CASE NothingToCompress
  BY <1>11, LogTypes, ReplacingTarget, RotatingTarget, LogNames DEF
     NothingToCompress, Becomes, directoryVars, LogInv, GzIsCopy, Present,
     FilesOK, ControlOK, Jobs, ReplacementSteps
<1>12. CASE ChecksSizes
  BY <1>12, LogTypes, ReplacingTarget, RotatingTarget, LogNames DEF ChecksSizes,
     Becomes, directoryVars, LogInv, GzIsCopy, Present, FilesOK, ControlOK, Jobs,
     ReplacementSteps
<1>13. CASE Limits
  BY <1>13, LogTypes, ReplacingTarget, RotatingTarget, LogNames DEF Limits,
     LogInv, GzIsCopy, Present, FilesOK, ControlOK, Jobs, ReplacementSteps
<1>14. CASE FullIsRotated
  BY <1>14, LogTypes, RotatesJob DEF RecordNeedsRoom, FullIsRotated, FilesOK, ControlOK, LogInv, GzIsCopy, Present
<1>15. CASE MaintenanceEnds
  BY <1>15, LogTypes, ReplacingTarget, RotatingTarget, LogNames DEF
     MaintenanceEnds, Returns, directoryVars, LogInv, GzIsCopy, Present, FilesOK,
     ControlOK, Jobs, ReplacementSteps
<1>16. CASE RefusesLog
  BY <1>16, LogTypes, ReplacingTarget, RotatingTarget, LogNames DEF RefusesLog,
     Returns, directoryVars, LogInv, GzIsCopy, Present, FilesOK, ControlOK, Jobs,
     ReplacementSteps
<1>17. CASE LinksBackup
  BY <1>17, LogTypes, ReplacingTarget, RotatingTarget, LogNames DEF LinksBackup,
     Becomes, LogInv, GzIsCopy, Present, FilesOK, ControlOK, Jobs,
     ReplacementSteps
<1>18. CASE ClaimsLog
  BY <1>18, LogTypes, ReplacingTarget, RotatingTarget, LogNames DEF ClaimsLog,
     Becomes, LogInv, GzIsCopy, Present, FilesOK, ControlOK, Jobs,
     ReplacementSteps
<1>19. CASE RemovesLog
  BY <1>19, LogTypes, ReplacingTarget, RotatingTarget, LogNames DEF RemovesLog,
     Becomes, Put, LogInv, GzIsCopy, Present, FilesOK, ControlOK, Jobs,
     ReplacementSteps
<1>20. CASE ActivatesLog
  <2> SUFFICES ASSUME NEW d \in Days, NEW s \in Suffixes, log'[<<"gz", d, s>>] # {}
               PROVE  /\ d < today'
                      /\ log'[<<"log", d, s>>] # {} =>
                           log'[<<"gz", d, s>>] \subseteq log'[<<"log", d, s>>]
    BY DEF GzIsCopy, Present
  <2>1. log' = [log EXCEPT ![job.target] = job.temp] /\ today' = today
    BY <1>20 DEF ActivatesLog, Put, Becomes
  <2>2. log \in [Names -> SUBSET Records] /\ logStep \in ReplacementSteps
    BY <1>20, LogTypes DEF FilesOK, ActivatesLog, ReplacementSteps
  <2>3. log'[<<"log", d, s>>] = log[<<"log", d, s>>]
    BY <2>1, <2>2, Elsewhere, ReplacedNames
  <2>4. CASE <<"gz", d, s>> = job.target
    <3>1. d < today /\ job.sources = {<<"log", d, s>>}
      BY <2>2, <2>4, ReplacedNames
    <3>2. log[job.target] = {}
      BY <1>20 DEF ActivatesLog, Present, LogInv, ReplacingIsSound, ReplacementSteps
    <3>3. job.temp \subseteq Sources \cup job.backup
      BY <1>20, <3>2 DEF ActivatesLog, LogInv, ReplacingIsSound, ReplacementSteps
    <3>4. Sources = log[<<"log", d, s>>]
      BY <3>1 DEF Sources
    <3>5. log[<<"log", d, s>>] # {} => job.backup \subseteq log[<<"log", d, s>>]
      BY <2>2, <2>4, ReplacedNames DEF Present
    <3>6. log'[<<"gz", d, s>>] = job.temp
      BY <2>1, <2>2, <2>4, Elsewhere
    <3> QED
      BY <2>1, <2>3, <3>1, <3>3, <3>4, <3>5, <3>6
  <2>5. CASE <<"gz", d, s>> # job.target
    <3>1. log'[<<"gz", d, s>>] = log[<<"gz", d, s>>]
      BY <2>1, <2>2, <2>5, Elsewhere
    <3> QED
      BY <2>1, <2>3, <3>1 DEF LogInv, GzIsCopy, Present
  <2> QED
    BY <2>4, <2>5
<1>21. CASE ReplacingFails
  <2>1. CASE logStep = "ready"
    BY <1>21, <2>1 DEF ReplacingFails, PutsLogBack, Returns, directoryVars, LogInv, GzIsCopy, Present
  <2>2. CASE logStep # "ready"
    BY <1>21, <2>2, PutBackCopies DEF ReplacingFails, ReplacementSteps
  <2> QED
    BY <2>1, <2>2
<1>22. CASE DeletesSource
  <2> SUFFICES ASSUME NEW d \in Days, NEW s \in Suffixes, log'[<<"gz", d, s>>] # {}
               PROVE  /\ d < today'
                      /\ log'[<<"log", d, s>>] # {} =>
                           log'[<<"gz", d, s>>] \subseteq log'[<<"log", d, s>>]
    BY DEF GzIsCopy, Present
  <2>1. PICK n \in job.sources : log' = [log EXCEPT ![n] = {}] /\ today' = today
    BY <1>22 DEF DeletesSource, Put, Becomes
  <2>2. log \in [Names -> SUBSET Records]
    BY LogTypes DEF FilesOK
  <2>3. log'[<<"gz", d, s>>] = log[<<"gz", d, s>>]
    BY <2>1, <2>2, Elsewhere
  <2>4. log'[<<"log", d, s>>] \in {log[<<"log", d, s>>], {}}
    BY <2>1, <2>2, Elsewhere
  <2> QED
    BY <2>1, <2>3, <2>4 DEF LogInv, GzIsCopy, Present
<1>23. CASE DeletingFails
  <2>1. CASE PutsLogBack
    BY <1>23, <2>1, PutBackCopies DEF DeletingFails, ReplacementSteps
  <2>2. CASE ~PutsLogBack
    BY <1>23, <2>2 DEF DeletingFails, Returns, directoryVars, LogInv, GzIsCopy, Present
  <2> QED
    BY <2>1, <2>2
<1>24. CASE Replaced
  BY <1>24, LogTypes, ReplacingTarget, RotatingTarget, LogNames DEF Replaced,
     Becomes, directoryVars, LogInv, GzIsCopy, Present, FilesOK, ControlOK, Jobs,
     ReplacementSteps
<1>25. CASE LoggerKilled
  BY <1>25, LogTypes, ReplacingTarget, RotatingTarget, LogNames DEF LoggerKilled,
     Put, LogInv, GzIsCopy, Present, FilesOK, ControlOK, Jobs, ReplacementSteps
<1>26. CASE DayPasses
  <2>1. today' = today + 1 /\ log' = log /\ today \in Nat /\ Days \subseteq Nat
    BY <1>26, LogTypes, LogNames DEF DayPasses, directoryVars, ControlOK
  <2>2. \A d \in Days : d < today => d < today'
    BY <2>1
  <2> QED
    BY <2>1, <2>2 DEF LogInv, GzIsCopy, Present
<1> QED
  BY <1>1, <1>2, <1>3, <1>4, <1>5, <1>6, <1>7, <1>8, <1>9, <1>10, <1>11, <1>12,
     <1>13, <1>14, <1>15, <1>16, <1>17, <1>18, <1>19, <1>20, <1>21, <1>22, <1>23,
     <1>24, <1>25, <1>26 DEF LogNext

LEMMA KindKept ==
    ASSUME LogInv, logStep \in ReplacementSteps, today' = today, job'.target = job.target,
           job'.sources = job.sources, \A n \in job.sources : log'[n] \in {log[n], {}},
           \/ job'.backup = job.backup
           \/ logStep = "ready" /\ job'.backup = log[job.target] /\ log' = log
    PROVE  (Compressing \/ Merging)'
<1>1. CASE Compressing
  <2>1. PICK d \in Days, s \in Suffixes :
          /\ d < today /\ job.target = <<"gz", d, s>> /\ job.sources = {<<"log", d, s>>}
          /\ Present(<<"log", d, s>>) => job.backup \subseteq log[<<"log", d, s>>]
    BY <1>1 DEF Compressing
  <2>2. log'[<<"log", d, s>>] \in {log[<<"log", d, s>>], {}}
    BY <2>1
  <2>3. log'[<<"log", d, s>>] # {} => job'.backup \subseteq log'[<<"log", d, s>>]
    <3>1. CASE job'.backup = job.backup
      BY <2>1, <2>2, <3>1 DEF Present
    <3>2. CASE logStep = "ready" /\ job'.backup = log[job.target] /\ log' = log
      BY <2>1, <3>2 DEF LogInv, GzIsCopy, Present
    <3> QED
      BY <3>1, <3>2
  <2> QED
    BY <2>1, <2>3 DEF Compressing, Present
<1>2. CASE Merging
  BY <1>2 DEF Merging
<1> QED
  BY <1>1, <1>2 DEF LogInv, ReplacingIsSound

LEMMA MergesSoundly == ASSUME LogInv, Merges PROVE ReplacingIsSound'
<1>1. PICK e \in Days :
        /\ MonthOf(e) < MonthOf(today) /\ logStep = "merges"
        /\ job' = [target |-> Archive(MonthOf(e)), sources |-> OfMonth(MonthOf(e)),
                   temp |-> UNION {log[n] : n \in OfMonth(MonthOf(e)) \cup {Archive(MonthOf(e))}},
                   backup |-> {}, after |-> "merges"]
        /\ logStep' = "ready" /\ today' = today /\ log' = log
  BY LogTypes, MergesJob DEF ControlOK
<1> DEFINE month == MonthOf(e)
           sources == OfMonth(month)
           temp == UNION {log[n] : n \in sources \cup {Archive(month)}}
<1>2. \A n \in sources : log[n] # {} /\ \E d \in Days : n \in Daily(d) /\ MonthOf(d) = month
  BY DEF OfMonth, Present
<1>3. temp = (UNION {log[n] : n \in sources}) \cup log[Archive(month)]
  OBVIOUS
<1>4. \A n \in sources : log[n] \subseteq temp
  OBVIOUS
<1>5. month < MonthOf(today)
  BY <1>1
<1>6. job'.target = Archive(month) /\ job'.sources = sources /\ job'.temp = temp /\ job'.backup = {}
  BY <1>1
<1> HIDE DEF month, sources, temp
<1>7. Sources' = UNION {log[n] : n \in sources}
  BY <1>1, <1>6 DEF Sources
<1>8. month = MonthOf(e)
  BY DEF month
<1>9. Merging'
  <2>1. (\E d \in Days : job'.target = Archive(MonthOf(d)))
    BY <1>6, <1>8
  <2>2. \A n \in sources : \E d \in Days : n \in Daily(d) /\ MonthOf(d) < MonthOf(today)
    BY <1>2, <1>5
  <2> QED
    BY <1>1, <1>6, <2>1, <2>2 DEF Merging
<1> QED
  BY <1>1, <1>2, <1>3, <1>4, <1>6, <1>7, <1>9 DEF ReplacingIsSound, Present

LEMMA CompressesSoundly == ASSUME LogInv, CompressesOld PROVE ReplacingIsSound'
<1>1. PICK d \in Days, s \in Suffixes :
        /\ d < today /\ log[<<"log", d, s>>] # {} /\ logStep = "compresses"
        /\ job' = [target |-> <<"gz", d, s>>, sources |-> {<<"log", d, s>>},
                   temp |-> log[<<"log", d, s>>], backup |-> {}, after |-> "compresses"]
        /\ logStep' = "ready" /\ today' = today /\ log' = log
  BY LogTypes, CompressesJob DEF ControlOK
<1>2. /\ job'.target = <<"gz", d, s>> /\ job'.sources = {<<"log", d, s>>}
      /\ job'.temp = log[<<"log", d, s>>] /\ job'.backup = {}
  BY <1>1
<1>3. Sources' = log[<<"log", d, s>>]
  BY <1>1, <1>2 DEF Sources
<1>4. log[<<"gz", d, s>>] \subseteq log[<<"log", d, s>>]
  BY <1>1 DEF LogInv, GzIsCopy, Present
<1>5. Compressing'
  BY <1>1, <1>2 DEF Compressing
<1> QED
  BY <1>1, <1>2, <1>3, <1>4, <1>5 DEF ReplacingIsSound, Present

(* The steps of a replacement up to the new file: the sources stay.        *)
LEMMA ReplacesSoundly ==
    ASSUME LogInv, LinksBackup \/ ClaimsLog \/ RemovesLog \/ ActivatesLog PROVE ReplacingIsSound'
<1>1. /\ logStep \in {"ready", "backed", "removed", "cleared"} /\ today' = today
      /\ job'.target = job.target /\ job'.sources = job.sources /\ job'.temp = job.temp
      /\ job'.backup = job.backup \/ (logStep = "ready" /\ job'.backup = log[job.target] /\ log' = log)
  BY LogTypes DEF LinksBackup, ClaimsLog, RemovesLog, ActivatesLog, Becomes, Jobs
<1>2. /\ job.target \in Names /\ job.target # Claimed /\ job.target \notin job.sources
      /\ job.sources \subseteq Names /\ Claimed \notin job.sources /\ Claimed \in Names
      /\ log \in [Names -> SUBSET Records]
  BY <1>1, ReplacingTarget, LogTypes, LogNames DEF ReplacementSteps, FilesOK
<1>3. \A n \in job.sources : log'[n] = log[n]
  BY <1>2 DEF LinksBackup, ClaimsLog, RemovesLog, ActivatesLog, Put
<1>4. (Compressing \/ Merging)'
  BY <1>1, <1>3, KindKept DEF ReplacementSteps
<1>5. Sources' = Sources
  BY <1>1, <1>3 DEF Sources
<1>6. /\ \A n \in job.sources : log[n] # {} /\ log[n] \subseteq job.temp
      /\ logStep = "ready" => /\ job.temp \subseteq Sources \cup log[job.target]
                              /\ log[job.target] \subseteq job.temp /\ job.backup = {}
      /\ logStep = "backed" => log[job.target] = job.backup
      /\ logStep = "removed" => log[Claimed] = job.backup /\ log[job.target] = {}
      /\ logStep = "cleared" => log[job.target] = {}
      /\ logStep # "ready" => job.temp \subseteq Sources \cup job.backup
      /\ job.backup \subseteq job.temp
  BY <1>1 DEF LogInv, ReplacingIsSound, ReplacementSteps, Present
<1>7. \A n \in job'.sources : log'[n] # {} /\ log'[n] \subseteq job'.temp
  BY <1>1, <1>3, <1>6
<1>8. CASE LinksBackup
  <2>1. logStep = "ready" /\ logStep' = "backed" /\ log' = log /\ job'.backup = log[job.target]
    BY <1>8, LogTypes DEF LinksBackup, Becomes, Jobs
  <2> QED
    BY <1>1, <1>4, <1>5, <1>6, <1>7, <2>1 DEF ReplacingIsSound, Present
<1>9. CASE ClaimsLog
  <2>1. /\ logStep = "backed" /\ logStep' = "removed" /\ job' = job
        /\ log' = [log EXCEPT ![Claimed] = job.backup, ![job.target] = {}]
    BY <1>9 DEF ClaimsLog, Becomes
  <2>2. log'[Claimed] = job.backup /\ log'[job.target] = {}
    BY <1>2, <2>1
  <2> QED
    BY <1>1, <1>4, <1>5, <1>6, <1>7, <2>1, <2>2 DEF ReplacingIsSound, Present
<1>10. CASE RemovesLog
  <2>1. logStep = "removed" /\ logStep' = "cleared" /\ job' = job /\ log' = [log EXCEPT ![Claimed] = {}]
    BY <1>10 DEF RemovesLog, Becomes, Put
  <2>2. log'[job.target] = {}
    BY <1>2, <1>6, <2>1
  <2> QED
    BY <1>1, <1>4, <1>5, <1>6, <1>7, <2>1, <2>2 DEF ReplacingIsSound, Present
<1>11. CASE ActivatesLog
  <2>1. /\ logStep' = "activated" /\ job' = job /\ log' = [log EXCEPT ![job.target] = job.temp]
        /\ logStep = "cleared" \/ (logStep = "ready" /\ log[job.target] = {})
    BY <1>11 DEF ActivatesLog, Becomes, Put, Present
  <2>2. log'[job.target] = job.temp
    BY <1>2, <2>1
  <2>3. job.temp \subseteq Sources \cup job.backup
    BY <1>6, <2>1
  <2> QED
    BY <1>1, <1>4, <1>5, <1>6, <1>7, <2>1, <2>2, <2>3 DEF ReplacingIsSound, Present
<1> QED
  BY <1>8, <1>9, <1>10, <1>11

LEMMA DeletesSoundly == ASSUME LogInv, DeletesSource PROVE ReplacingIsSound'
<1>1. PICK n \in job.sources : /\ logStep = "activated" /\ logStep' = "activated" /\ job' = job
                               /\ today' = today /\ log' = [log EXCEPT ![n] = {}]
  BY DEF DeletesSource, Becomes, Put
<1>2. /\ job.target \in Names /\ job.target # n /\ job.sources \subseteq Names
      /\ log \in [Names -> SUBSET Records]
  BY <1>1, ReplacingTarget, LogTypes DEF ReplacementSteps, FilesOK
<1>3. \A m \in job.sources : log'[m] = IF m = n THEN {} ELSE log[m]
  BY <1>1, <1>2
<1>4. log'[n] = {} /\ log'[job.target] = log[job.target]
  BY <1>1, <1>2
<1>5. (Compressing \/ Merging)'
  <2>1. \A m \in job.sources : log'[m] \in {log[m], {}}
    BY <1>3
  <2> QED
    BY <1>1, <2>1, KindKept DEF ReplacementSteps
<1>6. /\ \A m \in job.sources : log[m] \subseteq job.temp
      /\ log[job.target] = job.temp /\ job.backup \subseteq job.temp
  BY <1>1 DEF LogInv, ReplacingIsSound, ReplacementSteps
<1>7. \A m \in job.sources : log'[m] \subseteq job.temp
  BY <1>3, <1>6
<1> QED
  BY <1>1, <1>4, <1>5, <1>6, <1>7 DEF ReplacingIsSound, Present

LEMMA SoundKept ==
    ASSUME LogInv, LogNext PROVE ReplacingIsSound'
<1>1. CASE WritesRecord
  BY <1>1, LogTypes, ReplacingTarget, RotatingTarget, LogNames DEF WritesRecord,
     Put, LogInv, ReplacingIsSound, Compressing, Merging, Sources, Present,
     FilesOK, ControlOK, Jobs, ReplacementSteps
<1>2. CASE RecordNeedsRoom
  <2>1. logStep' = "rotates"
    BY <1>2, LogTypes, RotatesJob DEF RecordNeedsRoom, ControlOK
  <2> QED
    BY <2>1 DEF ReplacingIsSound, ReplacementSteps
<1>3. CASE LinksRotated
  BY <1>3, LogTypes, ReplacingTarget, RotatingTarget, LogNames DEF LinksRotated,
     Becomes, Put, LogInv, ReplacingIsSound, Compressing, Merging, Sources,
     Present, FilesOK, ControlOK, Jobs, ReplacementSteps
<1>4. CASE ClaimsActive
  BY <1>4, LogTypes, ReplacingTarget, RotatingTarget, LogNames DEF ClaimsActive,
     Becomes, LogInv, ReplacingIsSound, Compressing, Merging, Sources, Present,
     FilesOK, ControlOK, Jobs, ReplacementSteps
<1>5. CASE RemovesActive
  BY <1>5, LogTypes, ReplacingTarget, RotatingTarget, LogNames DEF RemovesActive,
     Becomes, Put, LogInv, ReplacingIsSound, Compressing, Merging, Sources,
     Present, FilesOK, ControlOK, Jobs, ReplacementSteps
<1>6. CASE RotatingFails
  BY <1>6, LogTypes, ReplacingTarget, RotatingTarget, LogNames DEF RotatingFails,
     Returns, Put, LogInv, ReplacingIsSound, Compressing, Merging, Sources,
     Present, FilesOK, ControlOK, Jobs, ReplacementSteps
<1>7. CASE Maintains
  BY <1>7, LogTypes, ReplacingTarget, RotatingTarget, LogNames DEF Maintains,
     Becomes, directoryVars, LogInv, ReplacingIsSound, Compressing, Merging,
     Sources, Present, FilesOK, ControlOK, Jobs, ReplacementSteps
<1>8. CASE Merges
  BY <1>8, MergesSoundly
<1>9. CASE NothingToMerge
  BY <1>9, LogTypes, ReplacingTarget, RotatingTarget, LogNames DEF NothingToMerge,
     Becomes, directoryVars, LogInv, ReplacingIsSound, Compressing, Merging,
     Sources, Present, FilesOK, ControlOK, Jobs, ReplacementSteps
<1>10. CASE CompressesOld
  BY <1>10, CompressesSoundly
<1>11. CASE NothingToCompress
  BY <1>11, LogTypes, ReplacingTarget, RotatingTarget, LogNames DEF
     NothingToCompress, Becomes, directoryVars, LogInv, ReplacingIsSound,
     Compressing, Merging, Sources, Present, FilesOK, ControlOK, Jobs,
     ReplacementSteps
<1>12. CASE ChecksSizes
  BY <1>12, LogTypes, ReplacingTarget, RotatingTarget, LogNames DEF ChecksSizes,
     Becomes, directoryVars, LogInv, ReplacingIsSound, Compressing, Merging,
     Sources, Present, FilesOK, ControlOK, Jobs, ReplacementSteps
<1>13. CASE Limits
  BY <1>13, LogTypes, ReplacingTarget, RotatingTarget, LogNames DEF Limits,
     LogInv, ReplacingIsSound, Compressing, Merging, Sources, Present, FilesOK,
     ControlOK, Jobs, ReplacementSteps
<1>14. CASE FullIsRotated
  <2>1. logStep' = "rotates"
    BY <1>14, LogTypes, RotatesJob DEF FullIsRotated, ControlOK
  <2> QED
    BY <2>1 DEF ReplacingIsSound, ReplacementSteps
<1>15. CASE MaintenanceEnds
  BY <1>15, LogTypes, ReplacingTarget, RotatingTarget, LogNames DEF
     MaintenanceEnds, Returns, directoryVars, LogInv, ReplacingIsSound,
     Compressing, Merging, Sources, Present, FilesOK, ControlOK, Jobs,
     ReplacementSteps
<1>16. CASE RefusesLog
  BY <1>16, LogTypes, ReplacingTarget, RotatingTarget, LogNames DEF RefusesLog,
     Returns, directoryVars, LogInv, ReplacingIsSound, Compressing, Merging,
     Sources, Present, FilesOK, ControlOK, Jobs, ReplacementSteps
<1>17. CASE LinksBackup
  BY <1>17, ReplacesSoundly
<1>18. CASE ClaimsLog
  BY <1>18, ReplacesSoundly
<1>19. CASE RemovesLog
  BY <1>19, ReplacesSoundly
<1>20. CASE ActivatesLog
  BY <1>20, ReplacesSoundly
<1>21. CASE ReplacingFails
  BY <1>21, LogTypes, ReplacingTarget, RotatingTarget, LogNames DEF
     ReplacingFails, PutsLogBack, Returns, directoryVars, LogInv,
     ReplacingIsSound, Compressing, Merging, Sources, Present, FilesOK, ControlOK,
     Jobs, ReplacementSteps
<1>22. CASE DeletesSource
  BY <1>22, DeletesSoundly
<1>23. CASE DeletingFails
  BY <1>23, LogTypes, ReplacingTarget, RotatingTarget, LogNames DEF DeletingFails,
     PutsLogBack, Returns, directoryVars, LogInv, ReplacingIsSound, Compressing,
     Merging, Sources, Present, FilesOK, ControlOK, Jobs, ReplacementSteps
<1>24. CASE Replaced
  BY <1>24, LogTypes, ReplacingTarget, RotatingTarget, LogNames DEF Replaced,
     Becomes, directoryVars, LogInv, ReplacingIsSound, Compressing, Merging,
     Sources, Present, FilesOK, ControlOK, Jobs, ReplacementSteps
<1>25. CASE LoggerKilled
  BY <1>25, LogTypes, ReplacingTarget, RotatingTarget, LogNames DEF LoggerKilled,
     Put, LogInv, ReplacingIsSound, Compressing, Merging, Sources, Present,
     FilesOK, ControlOK, Jobs, ReplacementSteps
<1>26. CASE DayPasses
  BY <1>26, LogTypes, ReplacingTarget, RotatingTarget, LogNames DEF DayPasses,
     directoryVars, loggerVars, LogInv, ReplacingIsSound, Compressing, Merging,
     Sources, Present, FilesOK, ControlOK, Jobs, ReplacementSteps
<1> QED
  BY <1>1, <1>2, <1>3, <1>4, <1>5, <1>6, <1>7, <1>8, <1>9, <1>10, <1>11, <1>12,
     <1>13, <1>14, <1>15, <1>16, <1>17, <1>18, <1>19, <1>20, <1>21, <1>22, <1>23,
     <1>24, <1>25, <1>26 DEF LogNext

LEMMA HeldInLog ==
    ASSUME LogInv, LogNext, NEW n \in Names, NEW r \in log[n], r \notin dropped' PROVE Held(r)'
<1>1. CASE WritesRecord
  BY <1>1, LogTypes, ReplacingTarget, RotatingTarget, LogNames DEF WritesRecord,
     Put, LogInv, Held, InALog, FilesOK, ControlOK, Jobs, ReplacementSteps
<1>2. CASE RecordNeedsRoom
  BY <1>2, LogTypes, RotatesJob DEF RecordNeedsRoom, FullIsRotated, FilesOK, ControlOK, Held, InALog
<1>3. CASE LinksRotated
  BY <1>3, LogTypes, ReplacingTarget, RotatingTarget, LogNames DEF LinksRotated,
     Becomes, Put, ClaimedIsEmpty, Rotating, ReplacingIsSound, Sources, Present,
     LogInv, Held, InALog, FilesOK, ControlOK, Jobs, ReplacementSteps
<1>4. CASE ClaimsActive
  BY <1>4, LogTypes, ReplacingTarget, RotatingTarget, LogNames DEF ClaimsActive,
     Becomes, ClaimedIsEmpty, Rotating, ReplacingIsSound, Sources, Present,
     LogInv, Held, InALog, FilesOK, ControlOK, Jobs, ReplacementSteps
<1>5. CASE RemovesActive
  BY <1>5, LogTypes, ReplacingTarget, RotatingTarget, LogNames DEF RemovesActive,
     Becomes, Put, ClaimedIsEmpty, Rotating, ReplacingIsSound, Sources, Present,
     LogInv, Held, InALog, FilesOK, ControlOK, Jobs, ReplacementSteps
<1>6. CASE RotatingFails
  BY <1>6, LogTypes, ReplacingTarget, RotatingTarget, LogNames DEF RotatingFails,
     Returns, Put, ClaimedIsEmpty, Rotating, ReplacingIsSound, Sources, Present,
     LogInv, Held, InALog, FilesOK, ControlOK, Jobs, ReplacementSteps
<1>7. CASE Maintains
  BY <1>7, LogTypes, ReplacingTarget, RotatingTarget, LogNames DEF Maintains,
     Becomes, directoryVars, LogInv, Held, InALog, FilesOK, ControlOK, Jobs,
     ReplacementSteps
<1>8. CASE Merges
  BY <1>8, LogTypes, MergesJob DEF RecordNeedsRoom, FullIsRotated, FilesOK, ControlOK, Held, InALog
<1>9. CASE NothingToMerge
  BY <1>9, LogTypes, ReplacingTarget, RotatingTarget, LogNames DEF NothingToMerge,
     Becomes, directoryVars, LogInv, Held, InALog, FilesOK, ControlOK, Jobs,
     ReplacementSteps
<1>10. CASE CompressesOld
  BY <1>10, LogTypes, CompressesJob DEF RecordNeedsRoom, FullIsRotated, FilesOK, ControlOK, Held, InALog
<1>11. CASE NothingToCompress
  BY <1>11, LogTypes, ReplacingTarget, RotatingTarget, LogNames DEF
     NothingToCompress, Becomes, directoryVars, LogInv, Held, InALog, FilesOK,
     ControlOK, Jobs, ReplacementSteps
<1>12. CASE ChecksSizes
  BY <1>12, LogTypes, ReplacingTarget, RotatingTarget, LogNames DEF ChecksSizes,
     Becomes, directoryVars, LogInv, Held, InALog, FilesOK, ControlOK, Jobs,
     ReplacementSteps
<1>13. CASE Limits
  BY <1>13, LogTypes, ReplacingTarget, RotatingTarget, LogNames DEF Limits,
     LogInv, Held, InALog, FilesOK, ControlOK, Jobs, ReplacementSteps
<1>14. CASE FullIsRotated
  BY <1>14, LogTypes, RotatesJob DEF RecordNeedsRoom, FullIsRotated, FilesOK, ControlOK, Held, InALog
<1>15. CASE MaintenanceEnds
  BY <1>15, LogTypes, ReplacingTarget, RotatingTarget, LogNames DEF
     MaintenanceEnds, Returns, directoryVars, LogInv, Held, InALog, FilesOK,
     ControlOK, Jobs, ReplacementSteps
<1>16. CASE RefusesLog
  BY <1>16, LogTypes, ReplacingTarget, RotatingTarget, LogNames DEF RefusesLog,
     Returns, directoryVars, LogInv, Held, InALog, FilesOK, ControlOK, Jobs,
     ReplacementSteps
<1>17. CASE LinksBackup
  BY <1>17, LogTypes, ReplacingTarget, RotatingTarget, LogNames DEF LinksBackup,
     Becomes, LogInv, Held, InALog, FilesOK, ControlOK, Jobs, ReplacementSteps
<1>18. CASE ClaimsLog
  BY <1>18, LogTypes, ReplacingTarget, RotatingTarget, LogNames DEF ClaimsLog,
     Becomes, ClaimedIsEmpty, Rotating, ReplacingIsSound, Sources, Present,
     LogInv, Held, InALog, FilesOK, ControlOK, Jobs, ReplacementSteps
<1>19. CASE RemovesLog
  BY <1>19, LogTypes, ReplacingTarget, RotatingTarget, LogNames DEF RemovesLog,
     Becomes, Put, ClaimedIsEmpty, Rotating, ReplacingIsSound, Sources, Present,
     LogInv, Held, InALog, FilesOK, ControlOK, Jobs, ReplacementSteps
<1>20. CASE ActivatesLog
  BY <1>20, LogTypes, ReplacingTarget, RotatingTarget, LogNames DEF ActivatesLog,
     Becomes, Put, Present, ClaimedIsEmpty, Rotating, ReplacingIsSound, Sources,
     LogInv, Held, InALog, FilesOK, ControlOK, Jobs, ReplacementSteps
<1>21. CASE ReplacingFails
  BY <1>21, LogTypes, ReplacingTarget, RotatingTarget, LogNames DEF
     ReplacingFails, PutsLogBack, Returns, directoryVars, ClaimedIsEmpty,
     Rotating, ReplacingIsSound, Sources, Present, LogInv, Held, InALog, FilesOK,
     ControlOK, Jobs, ReplacementSteps
<1>22. CASE DeletesSource
  BY <1>22, LogTypes, ReplacingTarget, RotatingTarget, LogNames DEF DeletesSource,
     Becomes, Put, Present, ClaimedIsEmpty, Rotating, ReplacingIsSound, Sources,
     LogInv, Held, InALog, FilesOK, ControlOK, Jobs, ReplacementSteps
<1>23. CASE DeletingFails
  BY <1>23, LogTypes, ReplacingTarget, RotatingTarget, LogNames DEF DeletingFails,
     PutsLogBack, Returns, directoryVars, ClaimedIsEmpty, Rotating,
     ReplacingIsSound, Sources, Present, LogInv, Held, InALog, FilesOK, ControlOK,
     Jobs, ReplacementSteps
<1>24. CASE Replaced
  BY <1>24, LogTypes, ReplacingTarget, RotatingTarget, LogNames DEF Replaced,
     Becomes, directoryVars, LogInv, Held, InALog, FilesOK, ControlOK, Jobs,
     ReplacementSteps
<1>25. CASE LoggerKilled
  BY <1>25, LogTypes, ReplacingTarget, RotatingTarget, LogNames DEF LoggerKilled,
     Put, LogInv, Held, InALog, FilesOK, ControlOK, Jobs, ReplacementSteps
<1>26. CASE DayPasses
  BY <1>26, LogTypes, ReplacingTarget, RotatingTarget, LogNames DEF DayPasses,
     directoryVars, loggerVars, LogInv, Held, InALog, FilesOK, ControlOK, Jobs,
     ReplacementSteps
<1> QED
  BY <1>1, <1>2, <1>3, <1>4, <1>5, <1>6, <1>7, <1>8, <1>9, <1>10, <1>11, <1>12,
     <1>13, <1>14, <1>15, <1>16, <1>17, <1>18, <1>19, <1>20, <1>21, <1>22, <1>23,
     <1>24, <1>25, <1>26 DEF LogNext

LEMMA HeldInBackup ==
    ASSUME LogInv, LogNext, NEW r \in job.backup, logStep = "cleared" PROVE Held(r)'
<1>1. CASE WritesRecord
  BY <1>1, LogTypes, ReplacingTarget, RotatingTarget, LogNames DEF WritesRecord,
     Put, LogInv, Held, InALog, ReplacingIsSound, FilesOK, ControlOK, Jobs,
     ReplacementSteps
<1>2. CASE RecordNeedsRoom
  BY <1>2 DEF RecordNeedsRoom, Rotates, Becomes, Prepares
<1>3. CASE LinksRotated
  BY <1>3, LogTypes, ReplacingTarget, RotatingTarget, LogNames DEF LinksRotated,
     Becomes, Put, LogInv, Held, InALog, ReplacingIsSound, FilesOK, ControlOK,
     Jobs, ReplacementSteps
<1>4. CASE ClaimsActive
  BY <1>4, LogTypes, ReplacingTarget, RotatingTarget, LogNames DEF ClaimsActive,
     Becomes, LogInv, Held, InALog, ReplacingIsSound, FilesOK, ControlOK, Jobs,
     ReplacementSteps
<1>5. CASE RemovesActive
  BY <1>5, LogTypes, ReplacingTarget, RotatingTarget, LogNames DEF RemovesActive,
     Becomes, Put, LogInv, Held, InALog, ReplacingIsSound, FilesOK, ControlOK,
     Jobs, ReplacementSteps
<1>6. CASE RotatingFails
  BY <1>6, LogTypes, ReplacingTarget, RotatingTarget, LogNames DEF RotatingFails,
     Returns, Put, LogInv, Held, InALog, ReplacingIsSound, FilesOK, ControlOK,
     Jobs, ReplacementSteps
<1>7. CASE Maintains
  BY <1>7, LogTypes, ReplacingTarget, RotatingTarget, LogNames DEF Maintains,
     Becomes, directoryVars, LogInv, Held, InALog, ReplacingIsSound, FilesOK,
     ControlOK, Jobs, ReplacementSteps
<1>8. CASE Merges
  BY <1>8 DEF Merges, Rotates, Becomes, Prepares
<1>9. CASE NothingToMerge
  BY <1>9, LogTypes, ReplacingTarget, RotatingTarget, LogNames DEF NothingToMerge,
     Becomes, directoryVars, LogInv, Held, InALog, ReplacingIsSound, FilesOK,
     ControlOK, Jobs, ReplacementSteps
<1>10. CASE CompressesOld
  BY <1>10 DEF CompressesOld, Rotates, Becomes, Prepares
<1>11. CASE NothingToCompress
  BY <1>11, LogTypes, ReplacingTarget, RotatingTarget, LogNames DEF
     NothingToCompress, Becomes, directoryVars, LogInv, Held, InALog,
     ReplacingIsSound, FilesOK, ControlOK, Jobs, ReplacementSteps
<1>12. CASE ChecksSizes
  BY <1>12, LogTypes, ReplacingTarget, RotatingTarget, LogNames DEF ChecksSizes,
     Becomes, directoryVars, LogInv, Held, InALog, ReplacingIsSound, FilesOK,
     ControlOK, Jobs, ReplacementSteps
<1>13. CASE Limits
  BY <1>13, LogTypes, ReplacingTarget, RotatingTarget, LogNames DEF Limits,
     LogInv, Held, InALog, ReplacingIsSound, FilesOK, ControlOK, Jobs,
     ReplacementSteps
<1>14. CASE FullIsRotated
  BY <1>14 DEF FullIsRotated, Rotates, Becomes, Prepares
<1>15. CASE MaintenanceEnds
  BY <1>15, LogTypes, ReplacingTarget, RotatingTarget, LogNames DEF
     MaintenanceEnds, Returns, directoryVars, LogInv, Held, InALog,
     ReplacingIsSound, FilesOK, ControlOK, Jobs, ReplacementSteps
<1>16. CASE RefusesLog
  BY <1>16, LogTypes, ReplacingTarget, RotatingTarget, LogNames DEF RefusesLog,
     Returns, directoryVars, LogInv, Held, InALog, ReplacingIsSound, FilesOK,
     ControlOK, Jobs, ReplacementSteps
<1>17. CASE LinksBackup
  BY <1>17, LogTypes, ReplacingTarget, RotatingTarget, LogNames DEF LinksBackup,
     Becomes, LogInv, Held, InALog, ReplacingIsSound, FilesOK, ControlOK, Jobs,
     ReplacementSteps
<1>18. CASE ClaimsLog
  BY <1>18, LogTypes, ReplacingTarget, RotatingTarget, LogNames DEF ClaimsLog,
     Becomes, LogInv, Held, InALog, ReplacingIsSound, FilesOK, ControlOK, Jobs,
     ReplacementSteps
<1>19. CASE RemovesLog
  BY <1>19, LogTypes, ReplacingTarget, RotatingTarget, LogNames DEF RemovesLog,
     Becomes, Put, LogInv, Held, InALog, ReplacingIsSound, FilesOK, ControlOK,
     Jobs, ReplacementSteps
<1>20. CASE ActivatesLog
  BY <1>20, LogTypes, ReplacingTarget, RotatingTarget, LogNames DEF ActivatesLog,
     Becomes, Put, Present, LogInv, Held, InALog, ReplacingIsSound, FilesOK,
     ControlOK, Jobs, ReplacementSteps
<1>21. CASE ReplacingFails
  BY <1>21, LogTypes, ReplacingTarget, RotatingTarget, LogNames DEF
     ReplacingFails, PutsLogBack, Returns, directoryVars, LogInv, Held, InALog,
     ReplacingIsSound, FilesOK, ControlOK, Jobs, ReplacementSteps
<1>22. CASE DeletesSource
  BY <1>22, LogTypes, ReplacingTarget, RotatingTarget, LogNames DEF DeletesSource,
     Becomes, Put, Present, LogInv, Held, InALog, ReplacingIsSound, FilesOK,
     ControlOK, Jobs, ReplacementSteps
<1>23. CASE DeletingFails
  BY <1>23, LogTypes, ReplacingTarget, RotatingTarget, LogNames DEF DeletingFails,
     PutsLogBack, Returns, directoryVars, LogInv, Held, InALog, ReplacingIsSound,
     FilesOK, ControlOK, Jobs, ReplacementSteps
<1>24. CASE Replaced
  BY <1>24, LogTypes, ReplacingTarget, RotatingTarget, LogNames DEF Replaced,
     Becomes, directoryVars, LogInv, Held, InALog, ReplacingIsSound, FilesOK,
     ControlOK, Jobs, ReplacementSteps
<1>25. CASE LoggerKilled
  BY <1>25, LogTypes, ReplacingTarget, RotatingTarget, LogNames DEF LoggerKilled,
     Put, LogInv, Held, InALog, ReplacingIsSound, FilesOK, ControlOK, Jobs,
     ReplacementSteps
<1>26. CASE DayPasses
  BY <1>26, LogTypes, ReplacingTarget, RotatingTarget, LogNames DEF DayPasses,
     directoryVars, loggerVars, LogInv, Held, InALog, ReplacingIsSound, FilesOK,
     ControlOK, Jobs, ReplacementSteps
<1> QED
  BY <1>1, <1>2, <1>3, <1>4, <1>5, <1>6, <1>7, <1>8, <1>9, <1>10, <1>11, <1>12,
     <1>13, <1>14, <1>15, <1>16, <1>17, <1>18, <1>19, <1>20, <1>21, <1>22, <1>23,
     <1>24, <1>25, <1>26 DEF LogNext

LEMMA HeldInHidden ==
    ASSUME LogInv, LogNext, NEW r \in hidden, logKilled PROVE Held(r)'
<1>1. CASE WritesRecord
  BY <1>1 DEF WritesRecord, Put, Held
<1>2. CASE RecordNeedsRoom
  BY <1>2 DEF RecordNeedsRoom, Rotates, Becomes, Prepares, directoryVars, Held
<1>3. CASE LinksRotated
  BY <1>3 DEF LinksRotated, Becomes, Put, Held
<1>4. CASE ClaimsActive
  BY <1>4 DEF ClaimsActive, Becomes, Held
<1>5. CASE RemovesActive
  BY <1>5 DEF RemovesActive, Becomes, Put, Held
<1>6. CASE RotatingFails
  BY <1>6 DEF RotatingFails, Returns, Put, Held
<1>7. CASE Maintains
  BY <1>7 DEF Maintains, Becomes, directoryVars, Held
<1>8. CASE Merges
  BY <1>8 DEF Merges, Rotates, Becomes, Prepares, directoryVars, Held
<1>9. CASE NothingToMerge
  BY <1>9 DEF NothingToMerge, Becomes, directoryVars, Held
<1>10. CASE CompressesOld
  BY <1>10 DEF CompressesOld, Rotates, Becomes, Prepares, directoryVars, Held
<1>11. CASE NothingToCompress
  BY <1>11 DEF NothingToCompress, Becomes, directoryVars, Held
<1>12. CASE ChecksSizes
  BY <1>12 DEF ChecksSizes, Becomes, directoryVars, Held
<1>13. CASE Limits
  BY <1>13 DEF Limits, Held
<1>14. CASE FullIsRotated
  BY <1>14 DEF FullIsRotated, Rotates, Becomes, Prepares, directoryVars, Held
<1>15. CASE MaintenanceEnds
  BY <1>15 DEF MaintenanceEnds, Returns, directoryVars, Held
<1>16. CASE RefusesLog
  BY <1>16 DEF RefusesLog, Returns, directoryVars, Held
<1>17. CASE LinksBackup
  BY <1>17 DEF LinksBackup, Becomes, Held
<1>18. CASE ClaimsLog
  BY <1>18 DEF ClaimsLog, Becomes, Held
<1>19. CASE RemovesLog
  BY <1>19 DEF RemovesLog, Becomes, Put, Held
<1>20. CASE ActivatesLog
  BY <1>20 DEF ActivatesLog, Becomes, Put, Present, Held
<1>21. CASE ReplacingFails
  BY <1>21 DEF ReplacingFails, PutsLogBack, Returns, directoryVars, Held
<1>22. CASE DeletesSource
  BY <1>22 DEF DeletesSource, Becomes, Put, Present, Held
<1>23. CASE DeletingFails
  BY <1>23 DEF DeletingFails, PutsLogBack, Returns, directoryVars, Held
<1>24. CASE Replaced
  BY <1>24 DEF Replaced, Becomes, directoryVars, Held
<1>25. CASE LoggerKilled
  BY <1>25 DEF LoggerKilled, Put, Held
<1>26. CASE DayPasses
  BY <1>26 DEF DayPasses, directoryVars, loggerVars, Held
<1> QED
  BY <1>1, <1>2, <1>3, <1>4, <1>5, <1>6, <1>7, <1>8, <1>9, <1>10, <1>11, <1>12,
     <1>13, <1>14, <1>15, <1>16, <1>17, <1>18, <1>19, <1>20, <1>21, <1>22, <1>23,
     <1>24, <1>25, <1>26 DEF LogNext

LEMMA DroppedGrows ==
    ASSUME LogNext PROVE dropped \subseteq dropped'
<1>1. CASE WritesRecord
  BY <1>1 DEF WritesRecord, Put
<1>2. CASE RecordNeedsRoom
  BY <1>2 DEF RecordNeedsRoom, Rotates, Becomes, Prepares
<1>3. CASE LinksRotated
  BY <1>3 DEF LinksRotated, Becomes, Put
<1>4. CASE ClaimsActive
  BY <1>4 DEF ClaimsActive, Becomes
<1>5. CASE RemovesActive
  BY <1>5 DEF RemovesActive, Becomes, Put
<1>6. CASE RotatingFails
  BY <1>6 DEF RotatingFails, Returns, Put
<1>7. CASE Maintains
  BY <1>7 DEF Maintains, Becomes, directoryVars
<1>8. CASE Merges
  BY <1>8 DEF Merges, Rotates, Becomes, Prepares
<1>9. CASE NothingToMerge
  BY <1>9 DEF NothingToMerge, Becomes, directoryVars
<1>10. CASE CompressesOld
  BY <1>10 DEF CompressesOld, Rotates, Becomes, Prepares
<1>11. CASE NothingToCompress
  BY <1>11 DEF NothingToCompress, Becomes, directoryVars
<1>12. CASE ChecksSizes
  BY <1>12 DEF ChecksSizes, Becomes, directoryVars
<1>13. CASE Limits
  BY <1>13 DEF Limits
<1>14. CASE FullIsRotated
  BY <1>14 DEF FullIsRotated, Rotates, Becomes, Prepares
<1>15. CASE MaintenanceEnds
  BY <1>15 DEF MaintenanceEnds, Returns, directoryVars
<1>16. CASE RefusesLog
  BY <1>16 DEF RefusesLog, Returns, directoryVars
<1>17. CASE LinksBackup
  BY <1>17 DEF LinksBackup, Becomes
<1>18. CASE ClaimsLog
  BY <1>18 DEF ClaimsLog, Becomes
<1>19. CASE RemovesLog
  BY <1>19 DEF RemovesLog, Becomes, Put
<1>20. CASE ActivatesLog
  BY <1>20 DEF ActivatesLog, Becomes, Put, Present
<1>21. CASE ReplacingFails
  BY <1>21 DEF ReplacingFails, PutsLogBack, Returns, directoryVars
<1>22. CASE DeletesSource
  BY <1>22 DEF DeletesSource, Becomes, Put, Present
<1>23. CASE DeletingFails
  BY <1>23 DEF DeletingFails, PutsLogBack, Returns, directoryVars
<1>24. CASE Replaced
  BY <1>24 DEF Replaced, Becomes, directoryVars
<1>25. CASE LoggerKilled
  BY <1>25 DEF LoggerKilled, Put
<1>26. CASE DayPasses
  BY <1>26 DEF DayPasses, directoryVars, loggerVars
<1> QED
  BY <1>1, <1>2, <1>3, <1>4, <1>5, <1>6, <1>7, <1>8, <1>9, <1>10, <1>11, <1>12,
     <1>13, <1>14, <1>15, <1>16, <1>17, <1>18, <1>19, <1>20, <1>21, <1>22, <1>23,
     <1>24, <1>25, <1>26 DEF LogNext

LEMMA WrittenGrows ==
    ASSUME LogNext, ~WritesRecord PROVE written' = written
<1>1. CASE WritesRecord
  BY <1>1
<1>2. CASE RecordNeedsRoom
  BY <1>2 DEF RecordNeedsRoom, Rotates, Becomes, Prepares
<1>3. CASE LinksRotated
  BY <1>3 DEF LinksRotated, Becomes, Put
<1>4. CASE ClaimsActive
  BY <1>4 DEF ClaimsActive, Becomes
<1>5. CASE RemovesActive
  BY <1>5 DEF RemovesActive, Becomes, Put
<1>6. CASE RotatingFails
  BY <1>6 DEF RotatingFails, Returns, Put
<1>7. CASE Maintains
  BY <1>7 DEF Maintains, Becomes, directoryVars
<1>8. CASE Merges
  BY <1>8 DEF Merges, Rotates, Becomes, Prepares
<1>9. CASE NothingToMerge
  BY <1>9 DEF NothingToMerge, Becomes, directoryVars
<1>10. CASE CompressesOld
  BY <1>10 DEF CompressesOld, Rotates, Becomes, Prepares
<1>11. CASE NothingToCompress
  BY <1>11 DEF NothingToCompress, Becomes, directoryVars
<1>12. CASE ChecksSizes
  BY <1>12 DEF ChecksSizes, Becomes, directoryVars
<1>13. CASE Limits
  BY <1>13 DEF Limits
<1>14. CASE FullIsRotated
  BY <1>14 DEF FullIsRotated, Rotates, Becomes, Prepares
<1>15. CASE MaintenanceEnds
  BY <1>15 DEF MaintenanceEnds, Returns, directoryVars
<1>16. CASE RefusesLog
  BY <1>16 DEF RefusesLog, Returns, directoryVars
<1>17. CASE LinksBackup
  BY <1>17 DEF LinksBackup, Becomes
<1>18. CASE ClaimsLog
  BY <1>18 DEF ClaimsLog, Becomes
<1>19. CASE RemovesLog
  BY <1>19 DEF RemovesLog, Becomes, Put
<1>20. CASE ActivatesLog
  BY <1>20 DEF ActivatesLog, Becomes, Put, Present
<1>21. CASE ReplacingFails
  BY <1>21 DEF ReplacingFails, PutsLogBack, Returns, directoryVars
<1>22. CASE DeletesSource
  BY <1>22 DEF DeletesSource, Becomes, Put, Present
<1>23. CASE DeletingFails
  BY <1>23 DEF DeletingFails, PutsLogBack, Returns, directoryVars
<1>24. CASE Replaced
  BY <1>24 DEF Replaced, Becomes, directoryVars
<1>25. CASE LoggerKilled
  BY <1>25 DEF LoggerKilled, Put
<1>26. CASE DayPasses
  BY <1>26 DEF DayPasses, directoryVars, loggerVars
<1> QED
  BY <1>1, <1>2, <1>3, <1>4, <1>5, <1>6, <1>7, <1>8, <1>9, <1>10, <1>11, <1>12,
     <1>13, <1>14, <1>15, <1>16, <1>17, <1>18, <1>19, <1>20, <1>21, <1>22, <1>23,
     <1>24, <1>25, <1>26 DEF LogNext

LEMMA HeldKept == ASSUME LogInv, LogNext PROVE AllHeld'
<1> SUFFICES ASSUME NEW r \in (1 .. written') \ dropped' PROVE Held(r)'
  BY DEF AllHeld
<1>1. r \notin dropped
  BY DroppedGrows
<1>2. ASSUME r \in 1 .. written PROVE Held(r)'
  <2>1. Held(r)
    BY <1>1, <1>2 DEF LogInv, AllHeld
  <2>2. CASE InALog(r)
    BY <2>2, HeldInLog DEF InALog
  <2>3. CASE logStep = "cleared" /\ r \in job.backup
    BY <2>3, HeldInBackup
  <2>4. CASE logKilled /\ r \in hidden
    BY <2>4, HeldInHidden
  <2> QED
    BY <2>1, <2>2, <2>3, <2>4 DEF Held
<1>3. CASE r \notin 1 .. written
  <2>1. WritesRecord
    BY <1>3, WrittenGrows
  <2>2. written' = written + 1 /\ written \in Nat
    BY <2>1, LogTypes, LogAssumption DEF WritesRecord, ControlOK, LogAssumption
  <2>3. r = written + 1
    BY <1>3, <2>2
  <2>4. r \in log'[Active] /\ Active \in Names
    BY <2>1, <2>3, LogTypes DEF WritesRecord, Put, FilesOK
  <2> QED
    BY <2>4 DEF Held, InALog
<1> QED
  BY <1>2, <1>3

LEMMA InitLog == LogInit => LogInv
<1> SUFFICES ASSUME LogInit PROVE LogInv
  OBVIOUS
<1>1. 0 \in Days /\ 0 \in 0 .. MaxRecords
  BY LogAssumption DEF LogAssumption, Days
<1>2. LogTypeOK
  BY <1>1, IdleIsJob DEF LogInit, LogTypeOK, Jobs
<1>3. 1 .. 0 = {}
  OBVIOUS
<1>4. AllHeld
  BY <1>3 DEF LogInit, AllHeld
<1>5. GzIsCopy /\ ClaimedIsEmpty
  BY LogNames DEF LogInit, GzIsCopy, ClaimedIsEmpty, Present
<1> QED
  BY <1>2, <1>4, <1>5 DEF LogInit, LogInv, NothingHeld, Rotating, ReplacingIsSound, ReplacementSteps

LEMMA LogKept == ASSUME LogInv, [LogNext]_logVars PROVE LogInv'
<1>1. CASE LogNext
  <2>1. LogTypeOK'
    BY <1>1, LogTypes, ControlKept, JobKept, FilesKept
       DEF LogTypeOK, ControlOK, FilesOK, Jobs
  <2> QED
    BY <1>1, <2>1, HeldKept, GzKept, ClaimedKept, RotatingKept, SoundKept, IdleKept DEF LogInv
<1>2. CASE UNCHANGED logVars
  <2>1. /\ log' = log /\ job' = job /\ logStep' = logStep /\ today' = today /\ written' = written
        /\ dropped' = dropped /\ hidden' = hidden /\ linked' = linked /\ logKilled' = logKilled
    BY <1>2 DEF logVars, directoryVars, loggerVars
  <2>2. LogTypeOK' /\ ClaimedIsEmpty' /\ GzIsCopy'
    BY <2>1 DEF LogInv, LogTypeOK, ClaimedIsEmpty, GzIsCopy, Present
  <2>3. AllHeld'
    BY <2>1 DEF LogInv, AllHeld, Held, InALog
  <2>4. Rotating'
    BY <2>1 DEF LogInv, Rotating, Active, Present
  <2>5. ReplacingIsSound'
    BY <2>1 DEF LogInv, ReplacingIsSound, Compressing, Merging, Sources, Present
  <2> QED
    BY <2>1, <2>2, <2>3, <2>4, <2>5 DEF LogInv, NothingHeld
<1> QED
  BY <1>1, <1>2

LEMMA LogInvariant == LogSpec => []LogInv
<1>1. LogInv /\ [LogNext]_logVars => LogInv'
  BY LogKept
<1> QED
  BY InitLog, <1>1, PTL DEF LogSpec

(* app_logging.py - the directory, and what a command works on, keep their *)
(* types.                                                                  *)
THEOREM LogTypeCorrect == LogSpec => []LogTypeOK
<1>1. LogInv => LogTypeOK
  BY DEF LogInv
<1> QED
  BY LogInvariant, <1>1, PTL

(* app_logging.py - a record that was written stays in a file until the    *)
(* limit of all logs removes it, whichever call of a rotation, of a merge  *)
(* or of a compression fails, and whenever the command is killed.          *)
THEOREM LogsKeepRecords == LogSpec => []NoRecordLost
<1>1. LogInv => NoRecordLost
  <2> SUFFICES ASSUME LogInv, NEW r \in (1 .. written) \ dropped
               PROVE  /\ InALog(r) \/ r \in hidden \cup job.temp \cup job.backup
                      /\ (logStep = "idle" /\ ~logKilled) => InALog(r)
    BY DEF NoRecordLost, InALog
  <2>1. Held(r)
    BY DEF LogInv, AllHeld
  <2> QED
    BY <2>1 DEF Held
<1> QED
  BY LogInvariant, <1>1, PTL

-----------------------------------------------------------------------------
(* ModelDownload.  What is at the path and in the backup follows from the  *)
(* step the download has come to and the call that failed (Progress), and  *)
(* a download that has not begun has no files yet (IdleAreEmpty).          *)
(* What is at the path and in the backup of a download, by what it found:  *)
(* as it was, out of the way, and with the new model in its place.         *)
AsFound(c) == holds[Path] = found[c] /\ holds[Backup(c)] = "none"
Aside(c) == holds[Path] = "none" /\ holds[Backup(c)] = found[c]
ModelInPlace(c) == holds[Path] = "verified" /\ holds[Backup(c)] = found[c]

(* How far a download had come when a call of it failed.                   *)
Unwound(c) ==
    \/ fault[c] \in {"none", "hashes", "discards"} /\ AsFound(c)
    \/ fault[c] = "backs" /\ found[c] # "none" /\ (AsFound(c) \/ Aside(c))
    \/ fault[c] = "installs" /\ (Aside(c) \/ ModelInPlace(c))
    \/ fault[c] = "records" /\ ModelInPlace(c)

(* What a download that holds the lock has made of it at each step.        *)
Sure(c) == fault[c] = "none"

Progress(c) ==
    \/ doing[c] = "fetches" /\ Sure(c) /\ AsFound(c)
    \/ doing[c] = "hashes" /\ Sure(c) /\ AsFound(c)
    \/ doing[c] = "backs" /\ Sure(c) /\ AsFound(c)
         /\ found[c] # "none" /\ holds[Tmp(c)] = "verified"
    \/ doing[c] = "checks" /\ Sure(c) /\ Aside(c)
         /\ holds[Tmp(c)] = "verified" /\ kind = "directory"
    \/ doing[c] = "installs" /\ Sure(c) /\ Aside(c) /\ holds[Tmp(c)] = "verified"
    \/ doing[c] = "records" /\ Sure(c) /\ ModelInPlace(c)
    \/ doing[c] = "drops" /\ Sure(c) /\ ModelInPlace(c)
    \/ doing[c] = "sets_aside" /\ fault[c] = "drops" /\ holds[Path] = "verified"
    \/ doing[c] = "drops_orphan" /\ fault[c] = "drops" /\ holds[Path] = "verified"
         /\ holds[Backup(c)] = "none"
    \/ doing[c] = "discards" /\ kind = "file" /\ fault[c] # "discards" /\ Unwound(c)
    \/ doing[c] = "discards" /\ kind = "directory"
         /\ \/ fault[c] \in {"none", "hashes", "backs", "installs"} /\ AsFound(c)
            \/ fault[c] = "checks" /\ Aside(c)
    \/ doing[c] = "undoes" /\ Unwound(c)
         /\ (kind = "directory" => fault[c] \in {"backs", "installs"})
    \/ doing[c] = "uninstalls" /\ fault[c] \in {"installs", "records"} /\ ModelInPlace(c)
         /\ (kind = "directory" => fault[c] = "installs")
    \/ doing[c] = "restores" /\ fault[c] \in {"backs", "installs", "records"} /\ Aside(c)
         /\ (kind = "directory" => fault[c] # "records")

DownloadsProgress == \A c \in Downloads : modelLock = c => Progress(c)

(* A download that has not begun has no files.                             *)
IdleAreEmpty ==
    \A c \in Downloads : doing[c] = "idle" =>
        /\ modelLock # c /\ fault[c] = "none"
        /\ holds[Tmp(c)] = "none" /\ holds[Backup(c)] = "none"

ModelInv == ModelTypeOK /\ DownloadsProgress /\ IdleAreEmpty


-----------------------------------------------------------------------------
(* The names of the model's directory.                                     *)
ModelPlaces == {Path} \cup ModelLeftovers
Contents == {"none", "partial", "verified"}

LEMMA PlacesOf ==
    ASSUME NEW c \in Downloads
    PROVE  /\ {Tmp(c), Backup(c), Orphan(c)} \subseteq ModelLeftovers
           /\ Tmp(c) # Backup(c) /\ Tmp(c) # Orphan(c) /\ Backup(c) # Orphan(c)
  BY DEF Tmp, Backup, Orphan, ModelLeftovers

LEMMA PathIsNoLeftover == Path \notin ModelLeftovers
<1> SUFFICES ASSUME Path \in ModelLeftovers PROVE FALSE
  OBVIOUS
<1>1. PICK c \in Downloads, k \in {"tmp", "backup", "orphan"} : <<"path">> = <<c, k>>
  BY DEF Path, ModelLeftovers
<1>2. Len(<<"path">>) = 1 /\ Len(<<c, k>>) = 2
  OBVIOUS
<1> QED
  BY <1>1, <1>2

LEMMA PlacesApart ==
    ASSUME NEW c \in Downloads, NEW d \in Downloads, c # d
    PROVE  {Tmp(c), Backup(c), Orphan(c)} \cap {Tmp(d), Backup(d), Orphan(d)} = {}
  BY DEF Tmp, Backup, Orphan

(* The places a download works with.                                       *)
OwnPlaces(c) == {Path, Tmp(c), Backup(c), Orphan(c)}

LEMMA MovedKeeps ==
    ASSUME holds \in [ModelPlaces -> Contents], NEW from \in ModelPlaces,
           NEW to \in ModelPlaces, from # to, Moved(from, to)
    PROVE  /\ holds' \in [ModelPlaces -> Contents]
           /\ holds'[to] = holds[from] /\ holds'[from] = "none"
           /\ \A p \in ModelPlaces \ {from, to} : holds'[p] = holds[p]
  BY DEF Moved, Contents

(* What a rename does, when it works and when it fails.                    *)
LEMMA RenamesKeeps ==
    ASSUME ModelTypeOK, NEW c \in Downloads, NEW from \in OwnPlaces(c), NEW to \in OwnPlaces(c),
           from # to, NEW next, NEW failing, Renames(c, from, to, next, failing)
    PROVE  /\ holds' \in [ModelPlaces -> Contents]
           /\ \A p \in ModelPlaces \ {from, to} : holds'[p] = holds[p]
           /\ holds[from] # "none" /\ holds[to] = "none"
           /\ \/ Fine(c, next) /\ holds'[to] = holds[from] /\ holds'[from] = "none"
              \/ /\ Faults(c, failing)
                 /\ \/ holds'[to] = holds[from] /\ holds'[from] = "none"
                    \/ holds'[to] = holds[to] /\ holds'[from] = holds[from]
<1>1. holds \in [ModelPlaces -> Contents]
  BY DEF ModelTypeOK, ModelPlaces, Contents
<1>2. from \in ModelPlaces /\ to \in ModelPlaces
  BY PlacesOf DEF OwnPlaces, ModelPlaces
<1>3. holds[from] # "none" /\ holds[to] = "none"
  BY DEF Renames
<1>4. CASE Moved(from, to)
  BY <1>1, <1>2, <1>3, <1>4, MovedKeeps DEF Renames
<1>5. CASE Faults(c, failing) /\ UNCHANGED holds
  BY <1>1, <1>3, <1>5
<1> QED
  BY <1>4, <1>5 DEF Renames

(* What a removal does.                                                    *)
LEMMA RemovesKeeps ==
    ASSUME ModelTypeOK, NEW c, NEW place \in ModelPlaces, NEW next, NEW failing,
           Removes(c, place, next, failing)
    PROVE  /\ holds' \in [ModelPlaces -> Contents]
           /\ \A p \in ModelPlaces \ {place} : holds'[p] = holds[p]
           /\ \/ Fine(c, next) /\ holds'[place] = "none"
              \/ /\ Faults(c, failing) /\ holds[place] # "none"
                 /\ holds'[place] \in {"partial", holds[place]}
<1>1. holds \in [ModelPlaces -> Contents]
  BY DEF ModelTypeOK, ModelPlaces, Contents
<1>2. CASE Fine(c, next) /\ holds' = [holds EXCEPT ![place] = "none"]
  BY <1>1, <1>2 DEF Contents
<1>3. CASE holds[place] # "none" /\ Faults(c, failing) /\ UNCHANGED holds
  BY <1>1, <1>3
<1>4. CASE /\ holds[place] # "none" /\ Faults(c, failing)
           /\ holds' = [holds EXCEPT ![place] = "partial"]
  BY <1>1, <1>4 DEF Contents
<1> QED
  BY <1>2, <1>3, <1>4 DEF Removes

-----------------------------------------------------------------------------
(* A step of the download that holds the lock.                             *)
DownloadSteps == {"fetches", "hashes", "backs", "checks", "installs", "records", "drops",
                  "sets_aside", "drops_orphan", "discards", "undoes", "uninstalls", "restores"}

(* The steps at which a call can fail.                                     *)
UndoSteps == {"hashes", "backs", "checks", "installs", "records", "drops",
            "sets_aside", "drops_orphan", "discards", "removes", "collects"}

(* It only touches what is its own, and goes on or ends.                   *)
OwnStep(c) ==
    /\ holds' \in [ModelPlaces -> Contents]
    /\ \A p \in ModelPlaces \ OwnPlaces(c) : holds'[p] = holds[p]
    /\ kind' = kind /\ found' = found
    /\ \E next : doing' = [doing EXCEPT ![c] = next]
    /\ \/ fault' = fault
       \/ doing[c] \in UndoSteps /\ fault' = [fault EXCEPT ![c] = doing[c]]

(* What is true when it has ended (EndsWhole).                             *)
EndsRight(c) ==
    CASE doing'[c] = "done"   -> holds'[Path] = "verified" /\ holds'[Backup(c)] = "none"
      [] doing'[c] = "failed" ->
            IF fault'[c] \in {"drops", "sets_aside", "drops_orphan"} THEN holds'[Path] = "verified"
            ELSE IF fault'[c] = "checks" THEN holds'[Backup(c)] = found[c]
            ELSE holds'[Path] = found[c] /\ holds'[Backup(c)] = "none"
      [] doing'[c] = "killed" -> TRUE

GoesOn(c) == modelLock' = c /\ doing'[c] \in DownloadSteps /\ Progress(c)'
IsOver(c) == modelLock' = Unlocked /\ doing'[c] \in {"done", "failed"} /\ EndsRight(c)

(* What a step says of its command and of the lock.                        *)
LEMMA FineGoes ==
    ASSUME ModelTypeOK, NEW c \in ModelCommands, NEW next, Fine(c, next), modelLock = c
    PROVE  /\ doing'[c] = next /\ fault' = fault /\ kind' = kind /\ found' = found
           /\ doing' = [doing EXCEPT ![c] = next]
           /\ next \in {"done", "failed"} => modelLock' = Unlocked
           /\ next \notin {"done", "failed"} => modelLock' = c
  BY DEF Fine, Goes, ModelTypeOK, ModelCommands

LEMMA FaultsGoes ==
    ASSUME ModelTypeOK, NEW c \in ModelCommands, NEW next, Faults(c, next), modelLock = c
    PROVE  /\ doing'[c] = next /\ fault[c] = "none" /\ fault' = [fault EXCEPT ![c] = doing[c]]
           /\ fault'[c] = doing[c] /\ kind' = kind /\ found' = found
           /\ doing' = [doing EXCEPT ![c] = next]
           /\ next \in {"done", "failed"} => modelLock' = Unlocked
           /\ next \notin {"done", "failed"} => modelLock' = c
  BY DEF Faults, Goes, ModelTypeOK, ModelCommands

(* Without --force a verified model is left alone.                         *)
LEMMA AlreadyThereGoes ==
    ASSUME ModelInv, NEW c \in Downloads, modelLock = c, AlreadyThere(c)
    PROVE  OwnStep(c) /\ (GoesOn(c) \/ IsOver(c))
<1>a. ModelTypeOK /\ Progress(c)
  BY DEF ModelInv, DownloadsProgress
<1>b. /\ holds \in [ModelPlaces -> Contents] /\ found[c] \in Contents
      /\ kind \in {"file", "directory"} /\ c \in ModelCommands
  BY <1>a DEF ModelTypeOK, ModelPlaces, Contents, ModelCommands
<1>c. /\ {Path, Tmp(c), Backup(c), Orphan(c)} \subseteq ModelPlaces
      /\ Tmp(c) # Backup(c) /\ Tmp(c) # Orphan(c) /\ Backup(c) # Orphan(c)
      /\ Path # Tmp(c) /\ Path # Backup(c) /\ Path # Orphan(c)
  BY PlacesOf, PathIsNoLeftover DEF ModelPlaces
<1>d. doing[c] = "fetches" /\ Sure(c) /\ AsFound(c)
  BY <1>a DEF AlreadyThere, Works, Progress
<1>1. /\ UNCHANGED holds
      /\ \/ Fine(c, "done") /\ holds[Path] = "verified"
  BY <1>d DEF AlreadyThere
<1>2. OwnStep(c)
  BY <1>1, <1>a, <1>b, <1>c, <1>d, FineGoes, FaultsGoes DEF OwnStep, OwnPlaces,
     UndoSteps, Sure
<1>3. CASE Fine(c, "done") /\ holds[Path] = "verified"
  <2>1. /\ doing'[c] = "done" /\ fault'[c] = fault[c]
        /\ kind' = kind /\ found' = found
        /\ modelLock' = IF doing'[c] \in {"done", "failed"} THEN Unlocked ELSE c
    BY <1>3, <1>a, <1>b, FineGoes, FaultsGoes
  <2>2. holds'[Path] = holds[Path] /\ holds'[Backup(c)] = holds[Backup(c)]
        /\ holds'[Tmp(c)] = holds[Tmp(c)]
    BY <1>3, <1>1, <1>c
  <2> QED
    BY <1>3, <1>2, <2>1, <2>2, <1>b, <1>d DEF GoesOn, IsOver, EndsRight,
       DownloadSteps, Progress, AsFound, Aside, ModelInPlace, Unwound, Sure
<1> QED
  BY <1>1, <1>2, <1>3

(* The response is written to the temporary name.                          *)
LEMMA FetchesGoes ==
    ASSUME ModelInv, NEW c \in Downloads, modelLock = c, Fetches(c)
    PROVE  OwnStep(c) /\ (GoesOn(c) \/ IsOver(c))
<1>a. ModelTypeOK /\ Progress(c)
  BY DEF ModelInv, DownloadsProgress
<1>b. /\ holds \in [ModelPlaces -> Contents] /\ found[c] \in Contents
      /\ kind \in {"file", "directory"} /\ c \in ModelCommands
  BY <1>a DEF ModelTypeOK, ModelPlaces, Contents, ModelCommands
<1>c. /\ {Path, Tmp(c), Backup(c), Orphan(c)} \subseteq ModelPlaces
      /\ Tmp(c) # Backup(c) /\ Tmp(c) # Orphan(c) /\ Backup(c) # Orphan(c)
      /\ Path # Tmp(c) /\ Path # Backup(c) /\ Path # Orphan(c)
  BY PlacesOf, PathIsNoLeftover DEF ModelPlaces
<1>d. doing[c] = "fetches" /\ Sure(c) /\ AsFound(c)
  BY <1>a DEF Fetches, Works, Progress
<1>0. PICK next \in {"fetches", "hashes", "discards"} : Fine(c, next)
  BY DEF Fetches
<1>1. /\ holds' \in [ModelPlaces -> Contents]
      /\ \A p \in ModelPlaces \ {Tmp(c)} : holds'[p] = holds[p]
      /\ Fine(c, next)
  BY <1>0, <1>b, <1>c DEF Fetches, Contents
<1>2. OwnStep(c)
  BY <1>1, <1>a, <1>b, <1>c, <1>d, FineGoes, FaultsGoes DEF OwnStep, OwnPlaces,
     UndoSteps, Sure
<1>3. CASE Fine(c, next)
  <2>1. /\ doing'[c] = next /\ fault'[c] = fault[c]
        /\ kind' = kind /\ found' = found
        /\ modelLock' = IF doing'[c] \in {"done", "failed"} THEN Unlocked ELSE c
    BY <1>3, <1>a, <1>b, FineGoes, FaultsGoes
  <2>2. holds'[Path] = holds[Path] /\ holds'[Backup(c)] = holds[Backup(c)]
    BY <1>3, <1>1, <1>c
  <2> QED
    BY <1>3, <1>2, <2>1, <2>2, <1>b, <1>d DEF GoesOn, IsOver, EndsRight,
       DownloadSteps, Progress, AsFound, Aside, ModelInPlace, Unwound, Sure
<1> QED
  BY <1>1, <1>2, <1>3

(* The checksum decides.                                                   *)
LEMMA HashesGoes ==
    ASSUME ModelInv, NEW c \in Downloads, modelLock = c, Hashes(c)
    PROVE  OwnStep(c) /\ (GoesOn(c) \/ IsOver(c))
<1>a. ModelTypeOK /\ Progress(c)
  BY DEF ModelInv, DownloadsProgress
<1>b. /\ holds \in [ModelPlaces -> Contents] /\ found[c] \in Contents
      /\ kind \in {"file", "directory"} /\ c \in ModelCommands
  BY <1>a DEF ModelTypeOK, ModelPlaces, Contents, ModelCommands
<1>c. /\ {Path, Tmp(c), Backup(c), Orphan(c)} \subseteq ModelPlaces
      /\ Tmp(c) # Backup(c) /\ Tmp(c) # Orphan(c) /\ Backup(c) # Orphan(c)
      /\ Path # Tmp(c) /\ Path # Backup(c) /\ Path # Orphan(c)
  BY PlacesOf, PathIsNoLeftover DEF ModelPlaces
<1>d. doing[c] = "hashes" /\ Sure(c) /\ AsFound(c)
  BY <1>a DEF Hashes, Works, Progress
<1>1. /\ UNCHANGED holds
      /\ \/ Fine(c, IF holds[Path] = "none" THEN "installs" ELSE "backs") /\ holds[Tmp(c)] = "verified"
         \/ Fine(c, "discards")
         \/ Faults(c, "discards")
  BY <1>d DEF Hashes
<1>2. OwnStep(c)
  BY <1>1, <1>a, <1>b, <1>c, <1>d, FineGoes, FaultsGoes DEF OwnStep, OwnPlaces,
     UndoSteps, Sure
<1>3. CASE Fine(c, IF holds[Path] = "none" THEN "installs" ELSE "backs") /\ holds[Tmp(c)] = "verified"
  <2>1. /\ doing'[c] = (IF holds[Path] = "none" THEN "installs" ELSE "backs") /\ fault'[c] = fault[c]
        /\ kind' = kind /\ found' = found
        /\ modelLock' = IF doing'[c] \in {"done", "failed"} THEN Unlocked ELSE c
    BY <1>3, <1>a, <1>b, FineGoes, FaultsGoes
  <2>2. holds'[Path] = holds[Path] /\ holds'[Backup(c)] = holds[Backup(c)]
        /\ holds'[Tmp(c)] = holds[Tmp(c)]
    BY <1>3, <1>1, <1>c
  <2>3. CASE holds[Path] = "none"
    BY <2>3, <1>3, <1>2, <2>1, <2>2, <1>b, <1>d DEF GoesOn, IsOver, EndsRight,
       DownloadSteps, Progress, AsFound, Aside, ModelInPlace, Unwound, Sure
  <2>4. CASE holds[Path] # "none"
    BY <2>4, <1>3, <1>2, <2>1, <2>2, <1>b, <1>d DEF GoesOn, IsOver, EndsRight,
       DownloadSteps, Progress, AsFound, Aside, ModelInPlace, Unwound, Sure
  <2> QED
    BY <1>b, <2>3, <2>4
<1>4. CASE Fine(c, "discards")
  <2>1. /\ doing'[c] = "discards" /\ fault'[c] = fault[c]
        /\ kind' = kind /\ found' = found
        /\ modelLock' = IF doing'[c] \in {"done", "failed"} THEN Unlocked ELSE c
    BY <1>4, <1>a, <1>b, FineGoes, FaultsGoes
  <2>2. holds'[Path] = holds[Path] /\ holds'[Backup(c)] = holds[Backup(c)]
        /\ holds'[Tmp(c)] = holds[Tmp(c)]
    BY <1>4, <1>1, <1>c
  <2>3. CASE kind = "file"
    BY <2>3, <1>4, <1>2, <2>1, <2>2, <1>b, <1>d DEF GoesOn, IsOver, EndsRight,
       DownloadSteps, Progress, AsFound, Aside, ModelInPlace, Unwound, Sure
  <2>4. CASE kind = "directory"
    BY <2>4, <1>4, <1>2, <2>1, <2>2, <1>b, <1>d DEF GoesOn, IsOver, EndsRight,
       DownloadSteps, Progress, AsFound, Aside, ModelInPlace, Unwound, Sure
  <2> QED
    BY <1>b, <2>3, <2>4
<1>5. CASE Faults(c, "discards")
  <2>1. /\ doing'[c] = "discards" /\ fault'[c] = doing[c] /\ fault[c] = "none"
        /\ kind' = kind /\ found' = found
        /\ modelLock' = IF doing'[c] \in {"done", "failed"} THEN Unlocked ELSE c
    BY <1>5, <1>a, <1>b, FineGoes, FaultsGoes
  <2>2. holds'[Path] = holds[Path] /\ holds'[Backup(c)] = holds[Backup(c)]
        /\ holds'[Tmp(c)] = holds[Tmp(c)]
    BY <1>5, <1>1, <1>c
  <2>3. CASE kind = "file"
    BY <2>3, <1>5, <1>2, <2>1, <2>2, <1>b, <1>d DEF GoesOn, IsOver, EndsRight,
       DownloadSteps, Progress, AsFound, Aside, ModelInPlace, Unwound, Sure
  <2>4. CASE kind = "directory"
    BY <2>4, <1>5, <1>2, <2>1, <2>2, <1>b, <1>d DEF GoesOn, IsOver, EndsRight,
       DownloadSteps, Progress, AsFound, Aside, ModelInPlace, Unwound, Sure
  <2> QED
    BY <1>b, <2>3, <2>4
<1> QED
  BY <1>1, <1>2, <1>3, <1>4, <1>5

(* What is at the path is renamed to the backup.                           *)
LEMMA BacksGoes ==
    ASSUME ModelInv, NEW c \in Downloads, modelLock = c, Backs(c)
    PROVE  OwnStep(c) /\ (GoesOn(c) \/ IsOver(c))
<1>a. ModelTypeOK /\ Progress(c)
  BY DEF ModelInv, DownloadsProgress
<1>b. /\ holds \in [ModelPlaces -> Contents] /\ found[c] \in Contents
      /\ kind \in {"file", "directory"} /\ c \in ModelCommands
  BY <1>a DEF ModelTypeOK, ModelPlaces, Contents, ModelCommands
<1>c. /\ {Path, Tmp(c), Backup(c), Orphan(c)} \subseteq ModelPlaces
      /\ Tmp(c) # Backup(c) /\ Tmp(c) # Orphan(c) /\ Backup(c) # Orphan(c)
      /\ Path # Tmp(c) /\ Path # Backup(c) /\ Path # Orphan(c)
  BY PlacesOf, PathIsNoLeftover DEF ModelPlaces
<1>d. doing[c] = "backs" /\ Sure(c) /\ AsFound(c) /\ found[c] # "none" /\ holds[Tmp(c)] = "verified"
  BY <1>a DEF Backs, Works, Progress
<1>1. /\ holds' \in [ModelPlaces -> Contents]
      /\ \A p \in ModelPlaces \ {Path, Backup(c)} : holds'[p] = holds[p]
      /\ holds[Path] # "none" /\ holds[Backup(c)] = "none"
      /\ \/ Fine(c, IF kind = "file" THEN "installs" ELSE "checks") /\ holds'[Backup(c)] = holds[Path] /\ holds'[Path] = "none"
         \/ Faults(c, Undoing) /\ holds'[Backup(c)] = holds[Path] /\ holds'[Path] = "none"
         \/ Faults(c, Undoing) /\ holds'[Backup(c)] = holds[Backup(c)] /\ holds'[Path] = holds[Path]
  <2>1. Renames(c, Path, Backup(c), IF kind = "file" THEN "installs" ELSE "checks", Undoing)
    BY DEF Backs
  <2>2. {Path, Backup(c)} \subseteq OwnPlaces(c) /\ Path # Backup(c)
    BY <1>c DEF OwnPlaces
  <2> QED
    BY <2>1, <2>2, <1>a, RenamesKeeps
<1>2. OwnStep(c)
  BY <1>1, <1>a, <1>b, <1>c, <1>d, FineGoes, FaultsGoes DEF OwnStep, OwnPlaces,
     UndoSteps, Sure
<1>3. CASE Fine(c, IF kind = "file" THEN "installs" ELSE "checks") /\ holds'[Backup(c)] = holds[Path] /\ holds'[Path] = "none"
  <2>1. /\ doing'[c] = (IF kind = "file" THEN "installs" ELSE "checks") /\ fault'[c] = fault[c]
        /\ kind' = kind /\ found' = found
        /\ modelLock' = IF doing'[c] \in {"done", "failed"} THEN Unlocked ELSE c
    BY <1>3, <1>a, <1>b, FineGoes, FaultsGoes
  <2>2. /\ holds'[Backup(c)] = holds[Path] /\ holds'[Path] = "none"
        /\ holds'[Tmp(c)] = holds[Tmp(c)] /\ holds[Path] # "none" /\ holds[Backup(c)] = "none"
    BY <1>3, <1>1, <1>c
  <2>3. CASE kind = "file"
    BY <2>3, <1>3, <1>2, <2>1, <2>2, <1>b, <1>d DEF GoesOn, IsOver, EndsRight,
       DownloadSteps, Progress, AsFound, Aside, ModelInPlace, Unwound, Sure
  <2>4. CASE kind = "directory"
    BY <2>4, <1>3, <1>2, <2>1, <2>2, <1>b, <1>d DEF GoesOn, IsOver, EndsRight,
       DownloadSteps, Progress, AsFound, Aside, ModelInPlace, Unwound, Sure
  <2> QED
    BY <1>b, <2>3, <2>4
<1>4. CASE Faults(c, Undoing) /\ holds'[Backup(c)] = holds[Path] /\ holds'[Path] = "none"
  <2>1. /\ doing'[c] = Undoing /\ fault'[c] = doing[c] /\ fault[c] = "none"
        /\ kind' = kind /\ found' = found
        /\ modelLock' = IF doing'[c] \in {"done", "failed"} THEN Unlocked ELSE c
    BY <1>4, <1>a, <1>b, FineGoes, FaultsGoes
  <2>2. /\ holds'[Backup(c)] = holds[Path] /\ holds'[Path] = "none"
        /\ holds'[Tmp(c)] = holds[Tmp(c)] /\ holds[Path] # "none" /\ holds[Backup(c)] = "none"
    BY <1>4, <1>1, <1>c
  <2>3. CASE kind = "file"
    BY <2>3, <1>4, <1>2, <2>1, <2>2, <1>b, <1>d, <1>b DEF GoesOn, IsOver, EndsRight,
       DownloadSteps, Progress, AsFound, Aside, ModelInPlace, Unwound, Sure, Undoing
  <2>4. CASE kind = "directory"
    BY <2>4, <1>4, <1>2, <2>1, <2>2, <1>b, <1>d, <1>b DEF GoesOn, IsOver, EndsRight,
       DownloadSteps, Progress, AsFound, Aside, ModelInPlace, Unwound, Sure, Undoing
  <2> QED
    BY <1>b, <2>3, <2>4
<1>5. CASE Faults(c, Undoing) /\ holds'[Backup(c)] = holds[Backup(c)] /\ holds'[Path] = holds[Path]
  <2>1. /\ doing'[c] = Undoing /\ fault'[c] = doing[c] /\ fault[c] = "none"
        /\ kind' = kind /\ found' = found
        /\ modelLock' = IF doing'[c] \in {"done", "failed"} THEN Unlocked ELSE c
    BY <1>5, <1>a, <1>b, FineGoes, FaultsGoes
  <2>2. /\ holds'[Backup(c)] = holds[Backup(c)] /\ holds'[Path] = holds[Path]
        /\ holds'[Tmp(c)] = holds[Tmp(c)] /\ holds[Path] # "none" /\ holds[Backup(c)] = "none"
    BY <1>5, <1>1, <1>c
  <2>3. CASE kind = "file"
    BY <2>3, <1>5, <1>2, <2>1, <2>2, <1>b, <1>d, <1>b DEF GoesOn, IsOver, EndsRight,
       DownloadSteps, Progress, AsFound, Aside, ModelInPlace, Unwound, Sure, Undoing
  <2>4. CASE kind = "directory"
    BY <2>4, <1>5, <1>2, <2>1, <2>2, <1>b, <1>d, <1>b DEF GoesOn, IsOver, EndsRight,
       DownloadSteps, Progress, AsFound, Aside, ModelInPlace, Unwound, Sure, Undoing
  <2> QED
    BY <1>b, <2>3, <2>4
<1> QED
  BY <1>1, <1>2, <1>3, <1>4, <1>5

(* The path is looked at again.                                            *)
LEMMA ChecksGoes ==
    ASSUME ModelInv, NEW c \in Downloads, modelLock = c, Checks(c)
    PROVE  OwnStep(c) /\ (GoesOn(c) \/ IsOver(c))
<1>a. ModelTypeOK /\ Progress(c)
  BY DEF ModelInv, DownloadsProgress
<1>b. /\ holds \in [ModelPlaces -> Contents] /\ found[c] \in Contents
      /\ kind \in {"file", "directory"} /\ c \in ModelCommands
  BY <1>a DEF ModelTypeOK, ModelPlaces, Contents, ModelCommands
<1>c. /\ {Path, Tmp(c), Backup(c), Orphan(c)} \subseteq ModelPlaces
      /\ Tmp(c) # Backup(c) /\ Tmp(c) # Orphan(c) /\ Backup(c) # Orphan(c)
      /\ Path # Tmp(c) /\ Path # Backup(c) /\ Path # Orphan(c)
  BY PlacesOf, PathIsNoLeftover DEF ModelPlaces
<1>d. doing[c] = "checks" /\ Sure(c) /\ Aside(c) /\ holds[Tmp(c)] = "verified" /\ kind = "directory"
  BY <1>a DEF Checks, Works, Progress
<1>1. /\ UNCHANGED holds
      /\ \/ Fine(c, "installs")
         \/ Faults(c, "discards")
  BY <1>d DEF Checks
<1>2. OwnStep(c)
  BY <1>1, <1>a, <1>b, <1>c, <1>d, FineGoes, FaultsGoes DEF OwnStep, OwnPlaces,
     UndoSteps, Sure
<1>3. CASE Fine(c, "installs")
  <2>1. /\ doing'[c] = "installs" /\ fault'[c] = fault[c]
        /\ kind' = kind /\ found' = found
        /\ modelLock' = IF doing'[c] \in {"done", "failed"} THEN Unlocked ELSE c
    BY <1>3, <1>a, <1>b, FineGoes, FaultsGoes
  <2>2. holds'[Path] = holds[Path] /\ holds'[Backup(c)] = holds[Backup(c)]
        /\ holds'[Tmp(c)] = holds[Tmp(c)]
    BY <1>3, <1>1, <1>c
  <2> QED
    BY <1>3, <1>2, <2>1, <2>2, <1>b, <1>d DEF GoesOn, IsOver, EndsRight,
       DownloadSteps, Progress, AsFound, Aside, ModelInPlace, Unwound, Sure
<1>4. CASE Faults(c, "discards")
  <2>1. /\ doing'[c] = "discards" /\ fault'[c] = doing[c] /\ fault[c] = "none"
        /\ kind' = kind /\ found' = found
        /\ modelLock' = IF doing'[c] \in {"done", "failed"} THEN Unlocked ELSE c
    BY <1>4, <1>a, <1>b, FineGoes, FaultsGoes
  <2>2. holds'[Path] = holds[Path] /\ holds'[Backup(c)] = holds[Backup(c)]
        /\ holds'[Tmp(c)] = holds[Tmp(c)]
    BY <1>4, <1>1, <1>c
  <2> QED
    BY <1>4, <1>2, <2>1, <2>2, <1>b, <1>d DEF GoesOn, IsOver, EndsRight,
       DownloadSteps, Progress, AsFound, Aside, ModelInPlace, Unwound, Sure
<1> QED
  BY <1>1, <1>2, <1>3, <1>4

(* The download is renamed to the path.                                    *)
LEMMA InstallsGoes ==
    ASSUME ModelInv, NEW c \in Downloads, modelLock = c, Installs(c)
    PROVE  OwnStep(c) /\ (GoesOn(c) \/ IsOver(c))
<1>a. ModelTypeOK /\ Progress(c)
  BY DEF ModelInv, DownloadsProgress
<1>b. /\ holds \in [ModelPlaces -> Contents] /\ found[c] \in Contents
      /\ kind \in {"file", "directory"} /\ c \in ModelCommands
  BY <1>a DEF ModelTypeOK, ModelPlaces, Contents, ModelCommands
<1>c. /\ {Path, Tmp(c), Backup(c), Orphan(c)} \subseteq ModelPlaces
      /\ Tmp(c) # Backup(c) /\ Tmp(c) # Orphan(c) /\ Backup(c) # Orphan(c)
      /\ Path # Tmp(c) /\ Path # Backup(c) /\ Path # Orphan(c)
  BY PlacesOf, PathIsNoLeftover DEF ModelPlaces
<1>d. doing[c] = "installs" /\ Sure(c) /\ Aside(c) /\ holds[Tmp(c)] = "verified"
  BY <1>a DEF Installs, Works, Progress
<1>1. /\ holds' \in [ModelPlaces -> Contents]
      /\ \A p \in ModelPlaces \ {Tmp(c), Path} : holds'[p] = holds[p]
      /\ holds[Tmp(c)] # "none" /\ holds[Path] = "none"
      /\ \/ Fine(c, "records") /\ holds'[Path] = holds[Tmp(c)] /\ holds'[Tmp(c)] = "none"
         \/ Faults(c, Undoing) /\ holds'[Path] = holds[Tmp(c)] /\ holds'[Tmp(c)] = "none"
         \/ Faults(c, Undoing) /\ holds'[Path] = holds[Path] /\ holds'[Tmp(c)] = holds[Tmp(c)]
  <2>1. Renames(c, Tmp(c), Path, "records", Undoing)
    BY DEF Installs
  <2>2. {Tmp(c), Path} \subseteq OwnPlaces(c) /\ Tmp(c) # Path
    BY <1>c DEF OwnPlaces
  <2> QED
    BY <2>1, <2>2, <1>a, RenamesKeeps
<1>2. OwnStep(c)
  BY <1>1, <1>a, <1>b, <1>c, <1>d, FineGoes, FaultsGoes DEF OwnStep, OwnPlaces,
     UndoSteps, Sure
<1>3. CASE Fine(c, "records") /\ holds'[Path] = holds[Tmp(c)] /\ holds'[Tmp(c)] = "none"
  <2>1. /\ doing'[c] = "records" /\ fault'[c] = fault[c]
        /\ kind' = kind /\ found' = found
        /\ modelLock' = IF doing'[c] \in {"done", "failed"} THEN Unlocked ELSE c
    BY <1>3, <1>a, <1>b, FineGoes, FaultsGoes
  <2>2. /\ holds'[Path] = holds[Tmp(c)] /\ holds'[Tmp(c)] = "none"
        /\ holds'[Backup(c)] = holds[Backup(c)] /\ holds[Tmp(c)] # "none" /\ holds[Path] = "none"
    BY <1>3, <1>1, <1>c
  <2> QED
    BY <1>3, <1>2, <2>1, <2>2, <1>b, <1>d DEF GoesOn, IsOver, EndsRight,
       DownloadSteps, Progress, AsFound, Aside, ModelInPlace, Unwound, Sure
<1>4. CASE Faults(c, Undoing) /\ holds'[Path] = holds[Tmp(c)] /\ holds'[Tmp(c)] = "none"
  <2>1. /\ doing'[c] = Undoing /\ fault'[c] = doing[c] /\ fault[c] = "none"
        /\ kind' = kind /\ found' = found
        /\ modelLock' = IF doing'[c] \in {"done", "failed"} THEN Unlocked ELSE c
    BY <1>4, <1>a, <1>b, FineGoes, FaultsGoes
  <2>2. /\ holds'[Path] = holds[Tmp(c)] /\ holds'[Tmp(c)] = "none"
        /\ holds'[Backup(c)] = holds[Backup(c)] /\ holds[Tmp(c)] # "none" /\ holds[Path] = "none"
    BY <1>4, <1>1, <1>c
  <2>3. CASE kind = "file"
    BY <2>3, <1>4, <1>2, <2>1, <2>2, <1>b, <1>d, <1>b DEF GoesOn, IsOver, EndsRight,
       DownloadSteps, Progress, AsFound, Aside, ModelInPlace, Unwound, Sure, Undoing
  <2>4. CASE kind = "directory"
    BY <2>4, <1>4, <1>2, <2>1, <2>2, <1>b, <1>d, <1>b DEF GoesOn, IsOver, EndsRight,
       DownloadSteps, Progress, AsFound, Aside, ModelInPlace, Unwound, Sure, Undoing
  <2> QED
    BY <1>b, <2>3, <2>4
<1>5. CASE Faults(c, Undoing) /\ holds'[Path] = holds[Path] /\ holds'[Tmp(c)] = holds[Tmp(c)]
  <2>1. /\ doing'[c] = Undoing /\ fault'[c] = doing[c] /\ fault[c] = "none"
        /\ kind' = kind /\ found' = found
        /\ modelLock' = IF doing'[c] \in {"done", "failed"} THEN Unlocked ELSE c
    BY <1>5, <1>a, <1>b, FineGoes, FaultsGoes
  <2>2. /\ holds'[Path] = holds[Path] /\ holds'[Tmp(c)] = holds[Tmp(c)]
        /\ holds'[Backup(c)] = holds[Backup(c)] /\ holds[Tmp(c)] # "none" /\ holds[Path] = "none"
    BY <1>5, <1>1, <1>c
  <2>3. CASE kind = "file"
    BY <2>3, <1>5, <1>2, <2>1, <2>2, <1>b, <1>d, <1>b DEF GoesOn, IsOver, EndsRight,
       DownloadSteps, Progress, AsFound, Aside, ModelInPlace, Unwound, Sure, Undoing
  <2>4. CASE kind = "directory"
    BY <2>4, <1>5, <1>2, <2>1, <2>2, <1>b, <1>d, <1>b DEF GoesOn, IsOver, EndsRight,
       DownloadSteps, Progress, AsFound, Aside, ModelInPlace, Unwound, Sure, Undoing
  <2> QED
    BY <1>b, <2>3, <2>4
<1> QED
  BY <1>1, <1>2, <1>3, <1>4, <1>5

(* The checksum is recorded.                                               *)
LEMMA RecordsChecksumGoes ==
    ASSUME ModelInv, NEW c \in Downloads, modelLock = c, RecordsChecksum(c)
    PROVE  OwnStep(c) /\ (GoesOn(c) \/ IsOver(c))
<1>a. ModelTypeOK /\ Progress(c)
  BY DEF ModelInv, DownloadsProgress
<1>b. /\ holds \in [ModelPlaces -> Contents] /\ found[c] \in Contents
      /\ kind \in {"file", "directory"} /\ c \in ModelCommands
  BY <1>a DEF ModelTypeOK, ModelPlaces, Contents, ModelCommands
<1>c. /\ {Path, Tmp(c), Backup(c), Orphan(c)} \subseteq ModelPlaces
      /\ Tmp(c) # Backup(c) /\ Tmp(c) # Orphan(c) /\ Backup(c) # Orphan(c)
      /\ Path # Tmp(c) /\ Path # Backup(c) /\ Path # Orphan(c)
  BY PlacesOf, PathIsNoLeftover DEF ModelPlaces
<1>d. doing[c] = "records" /\ Sure(c) /\ ModelInPlace(c)
  BY <1>a DEF RecordsChecksum, Works, Progress
<1>1. /\ UNCHANGED holds
      /\ \/ Fine(c, IF holds[Backup(c)] = "none" THEN "done" ELSE "drops")
         \/ Faults(c, "discards") /\ kind = "file"
  BY <1>d DEF RecordsChecksum
<1>2. OwnStep(c)
  BY <1>1, <1>a, <1>b, <1>c, <1>d, FineGoes, FaultsGoes DEF OwnStep, OwnPlaces,
     UndoSteps, Sure
<1>3. CASE Fine(c, IF holds[Backup(c)] = "none" THEN "done" ELSE "drops")
  <2>1. /\ doing'[c] = (IF holds[Backup(c)] = "none" THEN "done" ELSE "drops") /\ fault'[c] = fault[c]
        /\ kind' = kind /\ found' = found
        /\ modelLock' = IF doing'[c] \in {"done", "failed"} THEN Unlocked ELSE c
    BY <1>3, <1>a, <1>b, FineGoes, FaultsGoes
  <2>2. holds'[Path] = holds[Path] /\ holds'[Backup(c)] = holds[Backup(c)]
        /\ holds'[Tmp(c)] = holds[Tmp(c)]
    BY <1>3, <1>1, <1>c
  <2>3. CASE holds[Backup(c)] = "none"
    BY <2>3, <1>3, <1>2, <2>1, <2>2, <1>b, <1>d DEF GoesOn, IsOver, EndsRight,
       DownloadSteps, Progress, AsFound, Aside, ModelInPlace, Unwound, Sure
  <2>4. CASE holds[Backup(c)] # "none"
    BY <2>4, <1>3, <1>2, <2>1, <2>2, <1>b, <1>d DEF GoesOn, IsOver, EndsRight,
       DownloadSteps, Progress, AsFound, Aside, ModelInPlace, Unwound, Sure
  <2> QED
    BY <1>b, <2>3, <2>4
<1>4. CASE Faults(c, "discards") /\ kind = "file"
  <2>1. /\ doing'[c] = "discards" /\ fault'[c] = doing[c] /\ fault[c] = "none"
        /\ kind' = kind /\ found' = found
        /\ modelLock' = IF doing'[c] \in {"done", "failed"} THEN Unlocked ELSE c
    BY <1>4, <1>a, <1>b, FineGoes, FaultsGoes
  <2>2. holds'[Path] = holds[Path] /\ holds'[Backup(c)] = holds[Backup(c)]
        /\ holds'[Tmp(c)] = holds[Tmp(c)]
    BY <1>4, <1>1, <1>c
  <2> QED
    BY <1>4, <1>2, <2>1, <2>2, <1>b, <1>d DEF GoesOn, IsOver, EndsRight,
       DownloadSteps, Progress, AsFound, Aside, ModelInPlace, Unwound, Sure
<1> QED
  BY <1>1, <1>2, <1>3, <1>4

(* The backup is removed.                                                  *)
LEMMA DropsGoes ==
    ASSUME ModelInv, NEW c \in Downloads, modelLock = c, Drops(c)
    PROVE  OwnStep(c) /\ (GoesOn(c) \/ IsOver(c))
<1>a. ModelTypeOK /\ Progress(c)
  BY DEF ModelInv, DownloadsProgress
<1>b. /\ holds \in [ModelPlaces -> Contents] /\ found[c] \in Contents
      /\ kind \in {"file", "directory"} /\ c \in ModelCommands
  BY <1>a DEF ModelTypeOK, ModelPlaces, Contents, ModelCommands
<1>c. /\ {Path, Tmp(c), Backup(c), Orphan(c)} \subseteq ModelPlaces
      /\ Tmp(c) # Backup(c) /\ Tmp(c) # Orphan(c) /\ Backup(c) # Orphan(c)
      /\ Path # Tmp(c) /\ Path # Backup(c) /\ Path # Orphan(c)
  BY PlacesOf, PathIsNoLeftover DEF ModelPlaces
<1>d. doing[c] = "drops" /\ Sure(c) /\ ModelInPlace(c)
  BY <1>a DEF Drops, Works, Progress
<1>1. /\ holds' \in [ModelPlaces -> Contents]
      /\ \A p \in ModelPlaces \ {Backup(c)} : holds'[p] = holds[p]
      /\ \/ Fine(c, "done") /\ holds'[Backup(c)] = "none"
         \/ Faults(c, "sets_aside") /\ holds[Backup(c)] # "none"
  <2>1. Removes(c, Backup(c), "done", "sets_aside")
    BY DEF Drops
  <2> QED
    BY <2>1, <1>a, <1>c, RemovesKeeps
<1>2. OwnStep(c)
  BY <1>1, <1>a, <1>b, <1>c, <1>d, FineGoes, FaultsGoes DEF OwnStep, OwnPlaces,
     UndoSteps, Sure
<1>3. CASE Fine(c, "done") /\ holds'[Backup(c)] = "none"
  <2>1. /\ doing'[c] = "done" /\ fault'[c] = fault[c]
        /\ kind' = kind /\ found' = found
        /\ modelLock' = IF doing'[c] \in {"done", "failed"} THEN Unlocked ELSE c
    BY <1>3, <1>a, <1>b, FineGoes, FaultsGoes
  <2>2. holds'[Backup(c)] = "none" /\ holds'[Path] = holds[Path]
    BY <1>3, <1>1, <1>c
  <2> QED
    BY <1>3, <1>2, <2>1, <2>2, <1>b, <1>d DEF GoesOn, IsOver, EndsRight,
       DownloadSteps, Progress, AsFound, Aside, ModelInPlace, Unwound, Sure
<1>4. CASE Faults(c, "sets_aside") /\ holds[Backup(c)] # "none"
  <2>1. /\ doing'[c] = "sets_aside" /\ fault'[c] = doing[c] /\ fault[c] = "none"
        /\ kind' = kind /\ found' = found
        /\ modelLock' = IF doing'[c] \in {"done", "failed"} THEN Unlocked ELSE c
    BY <1>4, <1>a, <1>b, FineGoes, FaultsGoes
  <2>2. holds'[Path] = holds[Path]
    BY <1>4, <1>1, <1>c
  <2> QED
    BY <1>4, <1>2, <2>1, <2>2, <1>b, <1>d DEF GoesOn, IsOver, EndsRight,
       DownloadSteps, Progress, AsFound, Aside, ModelInPlace, Unwound, Sure
<1> QED
  BY <1>1, <1>2, <1>3, <1>4

(* The backup gets another name.                                           *)
LEMMA SetsAsideGoes ==
    ASSUME ModelInv, NEW c \in Downloads, modelLock = c, SetsAside(c)
    PROVE  OwnStep(c) /\ (GoesOn(c) \/ IsOver(c))
<1>a. ModelTypeOK /\ Progress(c)
  BY DEF ModelInv, DownloadsProgress
<1>b. /\ holds \in [ModelPlaces -> Contents] /\ found[c] \in Contents
      /\ kind \in {"file", "directory"} /\ c \in ModelCommands
  BY <1>a DEF ModelTypeOK, ModelPlaces, Contents, ModelCommands
<1>c. /\ {Path, Tmp(c), Backup(c), Orphan(c)} \subseteq ModelPlaces
      /\ Tmp(c) # Backup(c) /\ Tmp(c) # Orphan(c) /\ Backup(c) # Orphan(c)
      /\ Path # Tmp(c) /\ Path # Backup(c) /\ Path # Orphan(c)
  BY PlacesOf, PathIsNoLeftover DEF ModelPlaces
<1>d. doing[c] = "sets_aside" /\ fault[c] = "drops" /\ holds[Path] = "verified"
  BY <1>a DEF SetsAside, Works, Progress
<1>1. /\ holds' \in [ModelPlaces -> Contents]
      /\ \A p \in ModelPlaces \ {Backup(c), Orphan(c)} : holds'[p] = holds[p]
      /\ \/ Fine(c, "drops_orphan") /\ holds'[Backup(c)] = "none"
         \/ Faults(c, "failed")
         \/ Fine(c, "failed")
  <2>1. CASE Renames(c, Backup(c), Orphan(c), "drops_orphan", "failed")
    <3>1. {Backup(c), Orphan(c)} \subseteq OwnPlaces(c) /\ Backup(c) # Orphan(c)
      BY <1>c DEF OwnPlaces
    <3> QED
      BY <2>1, <3>1, <1>a, RenamesKeeps
  <2>2. CASE Fine(c, "failed") /\ UNCHANGED holds
    BY <2>2, <1>b
  <2> QED
    BY <2>1, <2>2 DEF SetsAside
<1>2. OwnStep(c)
  BY <1>1, <1>a, <1>b, <1>c, <1>d, FineGoes, FaultsGoes DEF OwnStep, OwnPlaces,
     UndoSteps, Sure
<1>3. CASE Fine(c, "drops_orphan") /\ holds'[Backup(c)] = "none"
  <2>1. /\ doing'[c] = "drops_orphan" /\ fault'[c] = fault[c]
        /\ kind' = kind /\ found' = found
        /\ modelLock' = IF doing'[c] \in {"done", "failed"} THEN Unlocked ELSE c
    BY <1>3, <1>a, <1>b, FineGoes, FaultsGoes
  <2>2. holds'[Path] = holds[Path] /\ holds'[Backup(c)] = "none"
    BY <1>3, <1>1, <1>c
  <2> QED
    BY <1>3, <1>2, <2>1, <2>2, <1>b, <1>d DEF GoesOn, IsOver, EndsRight,
       DownloadSteps, Progress, AsFound, Aside, ModelInPlace, Unwound, Sure
<1>4. CASE Faults(c, "failed")
  <2>1. /\ doing'[c] = "failed" /\ fault'[c] = doing[c] /\ fault[c] = "none"
        /\ kind' = kind /\ found' = found
        /\ modelLock' = IF doing'[c] \in {"done", "failed"} THEN Unlocked ELSE c
    BY <1>4, <1>a, <1>b, FineGoes, FaultsGoes
  <2>2. holds'[Path] = holds[Path]
    BY <1>4, <1>1, <1>c
  <2> QED
    BY <1>4, <1>2, <2>1, <2>2, <1>b, <1>d DEF GoesOn, IsOver, EndsRight,
       DownloadSteps, Progress, AsFound, Aside, ModelInPlace, Unwound, Sure
<1>5. CASE Fine(c, "failed")
  <2>1. /\ doing'[c] = "failed" /\ fault'[c] = fault[c]
        /\ kind' = kind /\ found' = found
        /\ modelLock' = IF doing'[c] \in {"done", "failed"} THEN Unlocked ELSE c
    BY <1>5, <1>a, <1>b, FineGoes, FaultsGoes
  <2>2. holds'[Path] = holds[Path]
    BY <1>5, <1>1, <1>c
  <2> QED
    BY <1>5, <1>2, <2>1, <2>2, <1>b, <1>d DEF GoesOn, IsOver, EndsRight,
       DownloadSteps, Progress, AsFound, Aside, ModelInPlace, Unwound, Sure
<1> QED
  BY <1>1, <1>2, <1>3, <1>4, <1>5

(* That name is removed.                                                   *)
LEMMA DropsOrphanGoes ==
    ASSUME ModelInv, NEW c \in Downloads, modelLock = c, DropsOrphan(c)
    PROVE  OwnStep(c) /\ (GoesOn(c) \/ IsOver(c))
<1>a. ModelTypeOK /\ Progress(c)
  BY DEF ModelInv, DownloadsProgress
<1>b. /\ holds \in [ModelPlaces -> Contents] /\ found[c] \in Contents
      /\ kind \in {"file", "directory"} /\ c \in ModelCommands
  BY <1>a DEF ModelTypeOK, ModelPlaces, Contents, ModelCommands
<1>c. /\ {Path, Tmp(c), Backup(c), Orphan(c)} \subseteq ModelPlaces
      /\ Tmp(c) # Backup(c) /\ Tmp(c) # Orphan(c) /\ Backup(c) # Orphan(c)
      /\ Path # Tmp(c) /\ Path # Backup(c) /\ Path # Orphan(c)
  BY PlacesOf, PathIsNoLeftover DEF ModelPlaces
<1>d. doing[c] = "drops_orphan" /\ fault[c] = "drops" /\ holds[Path] = "verified" /\ holds[Backup(c)] = "none"
  BY <1>a DEF DropsOrphan, Works, Progress
<1>1. /\ holds' \in [ModelPlaces -> Contents]
      /\ \A p \in ModelPlaces \ {Orphan(c)} : holds'[p] = holds[p]
      /\ \/ Fine(c, "done") /\ holds'[Orphan(c)] = "none"
         \/ Faults(c, "failed") /\ holds[Orphan(c)] # "none"
  <2>1. Removes(c, Orphan(c), "done", "failed")
    BY DEF DropsOrphan
  <2> QED
    BY <2>1, <1>a, <1>c, RemovesKeeps
<1>2. OwnStep(c)
  BY <1>1, <1>a, <1>b, <1>c, <1>d, FineGoes, FaultsGoes DEF OwnStep, OwnPlaces,
     UndoSteps, Sure
<1>3. CASE Fine(c, "done") /\ holds'[Orphan(c)] = "none"
  <2>1. /\ doing'[c] = "done" /\ fault'[c] = fault[c]
        /\ kind' = kind /\ found' = found
        /\ modelLock' = IF doing'[c] \in {"done", "failed"} THEN Unlocked ELSE c
    BY <1>3, <1>a, <1>b, FineGoes, FaultsGoes
  <2>2. holds'[Orphan(c)] = "none" /\ holds'[Path] = holds[Path] /\ holds'[Backup(c)] = holds[Backup(c)]
    BY <1>3, <1>1, <1>c
  <2> QED
    BY <1>3, <1>2, <2>1, <2>2, <1>b, <1>d DEF GoesOn, IsOver, EndsRight,
       DownloadSteps, Progress, AsFound, Aside, ModelInPlace, Unwound, Sure
<1>4. CASE Faults(c, "failed") /\ holds[Orphan(c)] # "none"
  <2>1. /\ doing'[c] = "failed" /\ fault'[c] = doing[c] /\ fault[c] = "none"
        /\ kind' = kind /\ found' = found
        /\ modelLock' = IF doing'[c] \in {"done", "failed"} THEN Unlocked ELSE c
    BY <1>4, <1>a, <1>b, FineGoes, FaultsGoes
  <2>2. holds'[Path] = holds[Path] /\ holds'[Backup(c)] = holds[Backup(c)]
    BY <1>4, <1>1, <1>c
  <2> QED
    BY <1>4, <1>2, <2>1, <2>2, <1>b, <1>d DEF GoesOn, IsOver, EndsRight,
       DownloadSteps, Progress, AsFound, Aside, ModelInPlace, Unwound, Sure
<1> QED
  BY <1>1, <1>2, <1>3, <1>4

(* The download is removed.                                                *)
LEMMA DiscardsGoes ==
    ASSUME ModelInv, NEW c \in Downloads, modelLock = c, Discards(c)
    PROVE  OwnStep(c) /\ (GoesOn(c) \/ IsOver(c))
<1>a. ModelTypeOK /\ Progress(c)
  BY DEF ModelInv, DownloadsProgress
<1>b. /\ holds \in [ModelPlaces -> Contents] /\ found[c] \in Contents
      /\ kind \in {"file", "directory"} /\ c \in ModelCommands
  BY <1>a DEF ModelTypeOK, ModelPlaces, Contents, ModelCommands
<1>c. /\ {Path, Tmp(c), Backup(c), Orphan(c)} \subseteq ModelPlaces
      /\ Tmp(c) # Backup(c) /\ Tmp(c) # Orphan(c) /\ Backup(c) # Orphan(c)
      /\ Path # Tmp(c) /\ Path # Backup(c) /\ Path # Orphan(c)
  BY PlacesOf, PathIsNoLeftover DEF ModelPlaces
<1>d. /\ doing[c] = "discards"
      /\ kind = "file" => fault[c] # "discards" /\ Unwound(c)
      /\ kind = "directory" =>
           \/ fault[c] \in {"none", "hashes", "backs", "installs"} /\ AsFound(c)
           \/ fault[c] = "checks" /\ Aside(c)
  BY <1>a DEF Discards, Works, Progress
<1>1. /\ holds' \in [ModelPlaces -> Contents]
      /\ \A p \in ModelPlaces \ {Tmp(c)} : holds'[p] = holds[p]
      /\ \/ Fine(c, IF kind = "file" THEN "undoes" ELSE "failed") /\ holds'[Tmp(c)] = "none"
         \/ Faults(c, IF kind = "file" THEN "undoes" ELSE "failed") /\ holds[Tmp(c)] # "none"
  <2>1. Removes(c, Tmp(c), IF kind = "file" THEN "undoes" ELSE "failed", IF kind = "file" THEN "undoes" ELSE "failed")
    BY DEF Discards
  <2> QED
    BY <2>1, <1>a, <1>c, RemovesKeeps
<1>2. OwnStep(c)
  BY <1>1, <1>a, <1>b, <1>c, <1>d, FineGoes, FaultsGoes DEF OwnStep, OwnPlaces,
     UndoSteps, Sure
<1>3. CASE Fine(c, IF kind = "file" THEN "undoes" ELSE "failed") /\ holds'[Tmp(c)] = "none"
  <2>1. /\ doing'[c] = (IF kind = "file" THEN "undoes" ELSE "failed") /\ fault'[c] = fault[c]
        /\ kind' = kind /\ found' = found
        /\ modelLock' = IF doing'[c] \in {"done", "failed"} THEN Unlocked ELSE c
    BY <1>3, <1>a, <1>b, FineGoes, FaultsGoes
  <2>2. holds'[Tmp(c)] = "none" /\ holds'[Path] = holds[Path] /\ holds'[Backup(c)] = holds[Backup(c)]
    BY <1>3, <1>1, <1>c
  <2>3. CASE kind = "file"
    BY <2>3, <1>3, <1>2, <2>1, <2>2, <1>b, <1>d DEF GoesOn, IsOver, EndsRight,
       DownloadSteps, Progress, AsFound, Aside, ModelInPlace, Unwound, Sure
  <2>4. CASE kind = "directory"
    BY <2>4, <1>3, <1>2, <2>1, <2>2, <1>b, <1>d DEF GoesOn, IsOver, EndsRight,
       DownloadSteps, Progress, AsFound, Aside, ModelInPlace, Unwound, Sure
  <2> QED
    BY <1>b, <2>3, <2>4
<1>4. CASE Faults(c, IF kind = "file" THEN "undoes" ELSE "failed") /\ holds[Tmp(c)] # "none"
  <2>1. /\ doing'[c] = (IF kind = "file" THEN "undoes" ELSE "failed") /\ fault'[c] = doing[c] /\ fault[c] = "none"
        /\ kind' = kind /\ found' = found
        /\ modelLock' = IF doing'[c] \in {"done", "failed"} THEN Unlocked ELSE c
    BY <1>4, <1>a, <1>b, FineGoes, FaultsGoes
  <2>2. holds'[Path] = holds[Path] /\ holds'[Backup(c)] = holds[Backup(c)]
    BY <1>4, <1>1, <1>c
  <2>3. CASE kind = "file"
    BY <2>3, <1>4, <1>2, <2>1, <2>2, <1>b, <1>d DEF GoesOn, IsOver, EndsRight,
       DownloadSteps, Progress, AsFound, Aside, ModelInPlace, Unwound, Sure
  <2>4. CASE kind = "directory"
    BY <2>4, <1>4, <1>2, <2>1, <2>2, <1>b, <1>d DEF GoesOn, IsOver, EndsRight,
       DownloadSteps, Progress, AsFound, Aside, ModelInPlace, Unwound, Sure
  <2> QED
    BY <1>b, <2>3, <2>4
<1> QED
  BY <1>1, <1>2, <1>3, <1>4

(* What has been done decides what is undone.                              *)
LEMMA UndoesGoes ==
    ASSUME ModelInv, NEW c \in Downloads, modelLock = c, Undoes(c)
    PROVE  OwnStep(c) /\ (GoesOn(c) \/ IsOver(c))
<1>a. ModelTypeOK /\ Progress(c)
  BY DEF ModelInv, DownloadsProgress
<1>b. /\ holds \in [ModelPlaces -> Contents] /\ found[c] \in Contents
      /\ kind \in {"file", "directory"} /\ c \in ModelCommands
  BY <1>a DEF ModelTypeOK, ModelPlaces, Contents, ModelCommands
<1>c. /\ {Path, Tmp(c), Backup(c), Orphan(c)} \subseteq ModelPlaces
      /\ Tmp(c) # Backup(c) /\ Tmp(c) # Orphan(c) /\ Backup(c) # Orphan(c)
      /\ Path # Tmp(c) /\ Path # Backup(c) /\ Path # Orphan(c)
  BY PlacesOf, PathIsNoLeftover DEF ModelPlaces
<1>d. doing[c] = "undoes" /\ Unwound(c) /\ (kind = "directory" => fault[c] \in {"backs", "installs"})
  BY <1>a DEF Undoes, Works, Progress
<1>1. /\ UNCHANGED holds
      /\ \/ Fine(c, "uninstalls") /\ Installed(c)
         \/ Fine(c, "restores") /\ (~Installed(c) /\ holds[Path] = "none" /\ holds[Backup(c)] # "none")
         \/ Fine(c, IF kind = "file" THEN "failed" ELSE "discards") /\ (~Installed(c) /\ ~(holds[Path] = "none" /\ holds[Backup(c)] # "none"))
  BY <1>d DEF Undoes, Installed
<1>2. OwnStep(c)
  BY <1>1, <1>a, <1>b, <1>c, <1>d, FineGoes, FaultsGoes DEF OwnStep, OwnPlaces,
     UndoSteps, Sure
<1>3. CASE Fine(c, "uninstalls") /\ Installed(c)
  <2>1. /\ doing'[c] = "uninstalls" /\ fault'[c] = fault[c]
        /\ kind' = kind /\ found' = found
        /\ modelLock' = IF doing'[c] \in {"done", "failed"} THEN Unlocked ELSE c
    BY <1>3, <1>a, <1>b, FineGoes, FaultsGoes
  <2>2. holds'[Path] = holds[Path] /\ holds'[Backup(c)] = holds[Backup(c)]
        /\ holds'[Tmp(c)] = holds[Tmp(c)]
    BY <1>3, <1>1, <1>c
  <2>3. CASE kind = "file"
    BY <2>3, <1>3, <1>2, <2>1, <2>2, <1>b, <1>d, <1>1 DEF GoesOn, IsOver, EndsRight,
       DownloadSteps, Progress, AsFound, Aside, ModelInPlace, Unwound, Sure,
       Installed
  <2>4. CASE kind = "directory"
    BY <2>4, <1>3, <1>2, <2>1, <2>2, <1>b, <1>d, <1>1 DEF GoesOn, IsOver, EndsRight,
       DownloadSteps, Progress, AsFound, Aside, ModelInPlace, Unwound, Sure,
       Installed
  <2> QED
    BY <1>b, <2>3, <2>4
<1>4. CASE Fine(c, "restores") /\ (~Installed(c) /\ holds[Path] = "none" /\ holds[Backup(c)] # "none")
  <2>1. /\ doing'[c] = "restores" /\ fault'[c] = fault[c]
        /\ kind' = kind /\ found' = found
        /\ modelLock' = IF doing'[c] \in {"done", "failed"} THEN Unlocked ELSE c
    BY <1>4, <1>a, <1>b, FineGoes, FaultsGoes
  <2>2. holds'[Path] = holds[Path] /\ holds'[Backup(c)] = holds[Backup(c)]
        /\ holds'[Tmp(c)] = holds[Tmp(c)]
    BY <1>4, <1>1, <1>c
  <2>3. CASE kind = "file"
    BY <2>3, <1>4, <1>2, <2>1, <2>2, <1>b, <1>d, <1>1 DEF GoesOn, IsOver, EndsRight,
       DownloadSteps, Progress, AsFound, Aside, ModelInPlace, Unwound, Sure,
       Installed
  <2>4. CASE kind = "directory"
    BY <2>4, <1>4, <1>2, <2>1, <2>2, <1>b, <1>d, <1>1 DEF GoesOn, IsOver, EndsRight,
       DownloadSteps, Progress, AsFound, Aside, ModelInPlace, Unwound, Sure,
       Installed
  <2> QED
    BY <1>b, <2>3, <2>4
<1>5. CASE Fine(c, IF kind = "file" THEN "failed" ELSE "discards") /\ (~Installed(c) /\ ~(holds[Path] = "none" /\ holds[Backup(c)] # "none"))
  <2>1. /\ doing'[c] = (IF kind = "file" THEN "failed" ELSE "discards") /\ fault'[c] = fault[c]
        /\ kind' = kind /\ found' = found
        /\ modelLock' = IF doing'[c] \in {"done", "failed"} THEN Unlocked ELSE c
    BY <1>5, <1>a, <1>b, FineGoes, FaultsGoes
  <2>2. holds'[Path] = holds[Path] /\ holds'[Backup(c)] = holds[Backup(c)]
        /\ holds'[Tmp(c)] = holds[Tmp(c)]
    BY <1>5, <1>1, <1>c
  <2>3. CASE kind = "file"
    BY <2>3, <1>5, <1>2, <2>1, <2>2, <1>b, <1>d, <1>1 DEF GoesOn, IsOver, EndsRight,
       DownloadSteps, Progress, AsFound, Aside, ModelInPlace, Unwound, Sure,
       Installed
  <2>4. CASE kind = "directory"
    BY <2>4, <1>5, <1>2, <2>1, <2>2, <1>b, <1>d, <1>1 DEF GoesOn, IsOver, EndsRight,
       DownloadSteps, Progress, AsFound, Aside, ModelInPlace, Unwound, Sure,
       Installed
  <2> QED
    BY <1>b, <2>3, <2>4
<1> QED
  BY <1>1, <1>2, <1>3, <1>4, <1>5

(* The new model is removed again.                                         *)
LEMMA UninstallsGoes ==
    ASSUME ModelInv, NEW c \in Downloads, modelLock = c, Uninstalls(c)
    PROVE  OwnStep(c) /\ (GoesOn(c) \/ IsOver(c))
<1>a. ModelTypeOK /\ Progress(c)
  BY DEF ModelInv, DownloadsProgress
<1>b. /\ holds \in [ModelPlaces -> Contents] /\ found[c] \in Contents
      /\ kind \in {"file", "directory"} /\ c \in ModelCommands
  BY <1>a DEF ModelTypeOK, ModelPlaces, Contents, ModelCommands
<1>c. /\ {Path, Tmp(c), Backup(c), Orphan(c)} \subseteq ModelPlaces
      /\ Tmp(c) # Backup(c) /\ Tmp(c) # Orphan(c) /\ Backup(c) # Orphan(c)
      /\ Path # Tmp(c) /\ Path # Backup(c) /\ Path # Orphan(c)
  BY PlacesOf, PathIsNoLeftover DEF ModelPlaces
<1>d. doing[c] = "uninstalls" /\ fault[c] \in {"installs", "records"} /\ ModelInPlace(c) /\ (kind = "directory" => fault[c] = "installs")
  BY <1>a DEF Uninstalls, Works, Progress
<1>1. /\ holds' \in [ModelPlaces -> Contents]
      /\ \A p \in ModelPlaces \ {Path} : holds'[p] = holds[p]
      /\ \/ Fine(c, IF holds[Backup(c)] # "none" THEN "restores" ELSE IF kind = "file" THEN "failed" ELSE "discards") /\ holds'[Path] = "none"
         \/ Faults(c, "failed") /\ holds[Path] # "none"
  <2>1. Removes(c, Path, IF holds[Backup(c)] # "none" THEN "restores" ELSE IF kind = "file" THEN "failed" ELSE "discards", "failed")
    BY DEF Uninstalls
  <2> QED
    BY <2>1, <1>a, <1>c, RemovesKeeps
<1>2. OwnStep(c)
  BY <1>1, <1>a, <1>b, <1>c, <1>d, FineGoes, FaultsGoes DEF OwnStep, OwnPlaces,
     UndoSteps, Sure
<1>3. CASE Fine(c, IF holds[Backup(c)] # "none" THEN "restores" ELSE IF kind = "file" THEN "failed" ELSE "discards") /\ holds'[Path] = "none"
  <2>1. /\ doing'[c] = (IF holds[Backup(c)] # "none" THEN "restores" ELSE IF kind = "file" THEN "failed" ELSE "discards") /\ fault'[c] = fault[c]
        /\ kind' = kind /\ found' = found
        /\ modelLock' = IF doing'[c] \in {"done", "failed"} THEN Unlocked ELSE c
    BY <1>3, <1>a, <1>b, FineGoes, FaultsGoes
  <2>2. holds'[Path] = "none" /\ holds'[Backup(c)] = holds[Backup(c)]
    BY <1>3, <1>1, <1>c
  <2>3. CASE holds[Backup(c)] # "none"
    BY <2>3, <1>3, <1>2, <2>1, <2>2, <1>b, <1>d DEF GoesOn, IsOver, EndsRight,
       DownloadSteps, Progress, AsFound, Aside, ModelInPlace, Unwound, Sure
  <2>4. CASE holds[Backup(c)] = "none" /\ kind = "file"
    BY <2>4, <1>3, <1>2, <2>1, <2>2, <1>b, <1>d DEF GoesOn, IsOver, EndsRight,
       DownloadSteps, Progress, AsFound, Aside, ModelInPlace, Unwound, Sure
  <2>5. CASE holds[Backup(c)] = "none" /\ kind = "directory"
    BY <2>5, <1>3, <1>2, <2>1, <2>2, <1>b, <1>d DEF GoesOn, IsOver, EndsRight,
       DownloadSteps, Progress, AsFound, Aside, ModelInPlace, Unwound, Sure
  <2> QED
    BY <1>b, <2>3, <2>4, <2>5
<1>4. CASE Faults(c, "failed") /\ holds[Path] # "none"
  <2>1. /\ doing'[c] = "failed" /\ fault'[c] = doing[c] /\ fault[c] = "none"
        /\ kind' = kind /\ found' = found
        /\ modelLock' = IF doing'[c] \in {"done", "failed"} THEN Unlocked ELSE c
    BY <1>4, <1>a, <1>b, FineGoes, FaultsGoes
  <2>2. holds'[Backup(c)] = holds[Backup(c)]
    BY <1>4, <1>1, <1>c
  <2> QED
    BY <1>4, <1>2, <2>1, <2>2, <1>b, <1>d DEF GoesOn, IsOver, EndsRight,
       DownloadSteps, Progress, AsFound, Aside, ModelInPlace, Unwound, Sure
<1> QED
  BY <1>1, <1>2, <1>3, <1>4

(* The backup gets its name back.                                          *)
LEMMA RestoresGoes ==
    ASSUME ModelInv, NEW c \in Downloads, modelLock = c, Restores(c)
    PROVE  OwnStep(c) /\ (GoesOn(c) \/ IsOver(c))
<1>a. ModelTypeOK /\ Progress(c)
  BY DEF ModelInv, DownloadsProgress
<1>b. /\ holds \in [ModelPlaces -> Contents] /\ found[c] \in Contents
      /\ kind \in {"file", "directory"} /\ c \in ModelCommands
  BY <1>a DEF ModelTypeOK, ModelPlaces, Contents, ModelCommands
<1>c. /\ {Path, Tmp(c), Backup(c), Orphan(c)} \subseteq ModelPlaces
      /\ Tmp(c) # Backup(c) /\ Tmp(c) # Orphan(c) /\ Backup(c) # Orphan(c)
      /\ Path # Tmp(c) /\ Path # Backup(c) /\ Path # Orphan(c)
  BY PlacesOf, PathIsNoLeftover DEF ModelPlaces
<1>d. doing[c] = "restores" /\ fault[c] \in {"backs", "installs", "records"} /\ Aside(c) /\ (kind = "directory" => fault[c] # "records")
  BY <1>a DEF Restores, Works, Progress
<1>1. /\ holds' \in [ModelPlaces -> Contents]
      /\ \A p \in ModelPlaces \ {Backup(c), Path} : holds'[p] = holds[p]
      /\ holds[Backup(c)] # "none" /\ holds[Path] = "none"
      /\ \/ Fine(c, IF kind = "file" THEN "failed" ELSE "discards") /\ holds'[Path] = holds[Backup(c)] /\ holds'[Backup(c)] = "none"
         \/ Faults(c, "failed") /\ holds'[Path] = holds[Backup(c)] /\ holds'[Backup(c)] = "none"
         \/ Faults(c, "failed") /\ holds'[Path] = holds[Path] /\ holds'[Backup(c)] = holds[Backup(c)]
  <2>1. Renames(c, Backup(c), Path, IF kind = "file" THEN "failed" ELSE "discards", "failed")
    BY DEF Restores
  <2>2. {Backup(c), Path} \subseteq OwnPlaces(c) /\ Backup(c) # Path
    BY <1>c DEF OwnPlaces
  <2> QED
    BY <2>1, <2>2, <1>a, RenamesKeeps
<1>2. OwnStep(c)
  BY <1>1, <1>a, <1>b, <1>c, <1>d, FineGoes, FaultsGoes DEF OwnStep, OwnPlaces,
     UndoSteps, Sure
<1>3. CASE Fine(c, IF kind = "file" THEN "failed" ELSE "discards") /\ holds'[Path] = holds[Backup(c)] /\ holds'[Backup(c)] = "none"
  <2>1. /\ doing'[c] = (IF kind = "file" THEN "failed" ELSE "discards") /\ fault'[c] = fault[c]
        /\ kind' = kind /\ found' = found
        /\ modelLock' = IF doing'[c] \in {"done", "failed"} THEN Unlocked ELSE c
    BY <1>3, <1>a, <1>b, FineGoes, FaultsGoes
  <2>2. /\ holds'[Path] = holds[Backup(c)] /\ holds'[Backup(c)] = "none"
        /\ holds'[Tmp(c)] = holds[Tmp(c)] /\ holds[Backup(c)] # "none" /\ holds[Path] = "none"
    BY <1>3, <1>1, <1>c
  <2>3. CASE kind = "file"
    BY <2>3, <1>3, <1>2, <2>1, <2>2, <1>b, <1>d DEF GoesOn, IsOver, EndsRight,
       DownloadSteps, Progress, AsFound, Aside, ModelInPlace, Unwound, Sure
  <2>4. CASE kind = "directory"
    BY <2>4, <1>3, <1>2, <2>1, <2>2, <1>b, <1>d DEF GoesOn, IsOver, EndsRight,
       DownloadSteps, Progress, AsFound, Aside, ModelInPlace, Unwound, Sure
  <2> QED
    BY <1>b, <2>3, <2>4
<1>4. CASE Faults(c, "failed") /\ holds'[Path] = holds[Backup(c)] /\ holds'[Backup(c)] = "none"
  <2>1. /\ doing'[c] = "failed" /\ fault'[c] = doing[c] /\ fault[c] = "none"
        /\ kind' = kind /\ found' = found
        /\ modelLock' = IF doing'[c] \in {"done", "failed"} THEN Unlocked ELSE c
    BY <1>4, <1>a, <1>b, FineGoes, FaultsGoes
  <2>2. /\ holds'[Path] = holds[Backup(c)] /\ holds'[Backup(c)] = "none"
        /\ holds'[Tmp(c)] = holds[Tmp(c)] /\ holds[Backup(c)] # "none" /\ holds[Path] = "none"
    BY <1>4, <1>1, <1>c
  <2> QED
    BY <1>4, <1>2, <2>1, <2>2, <1>b, <1>d DEF GoesOn, IsOver, EndsRight,
       DownloadSteps, Progress, AsFound, Aside, ModelInPlace, Unwound, Sure
<1>5. CASE Faults(c, "failed") /\ holds'[Path] = holds[Path] /\ holds'[Backup(c)] = holds[Backup(c)]
  <2>1. /\ doing'[c] = "failed" /\ fault'[c] = doing[c] /\ fault[c] = "none"
        /\ kind' = kind /\ found' = found
        /\ modelLock' = IF doing'[c] \in {"done", "failed"} THEN Unlocked ELSE c
    BY <1>5, <1>a, <1>b, FineGoes, FaultsGoes
  <2>2. /\ holds'[Path] = holds[Path] /\ holds'[Backup(c)] = holds[Backup(c)]
        /\ holds'[Tmp(c)] = holds[Tmp(c)] /\ holds[Backup(c)] # "none" /\ holds[Path] = "none"
    BY <1>5, <1>1, <1>c
  <2> QED
    BY <1>5, <1>2, <2>1, <2>2, <1>b, <1>d DEF GoesOn, IsOver, EndsRight,
       DownloadSteps, Progress, AsFound, Aside, ModelInPlace, Unwound, Sure
<1> QED
  BY <1>1, <1>2, <1>3, <1>4, <1>5


-----------------------------------------------------------------------------
(* The steps together.                                                     *)
LEMMA DownloadGoes ==
    ASSUME ModelInv, NEW c \in Downloads, Download(c), ~LocksModels(c, "fetches")
    PROVE  modelLock = c /\ OwnStep(c) /\ (GoesOn(c) \/ IsOver(c))
<1>1. modelLock = c
  BY DEF Download, AlreadyThere, Fetches, Hashes, Backs, Checks, Installs,
     RecordsChecksum, Drops,
         SetsAside, DropsOrphan, Discards, Undoes, Uninstalls, Restores, Works
<1> QED
  BY <1>1, AlreadyThereGoes, FetchesGoes, HashesGoes, BacksGoes, ChecksGoes, InstallsGoes,
     RecordsChecksumGoes, DropsGoes, SetsAsideGoes, DropsOrphanGoes, DiscardsGoes, UndoesGoes,
     UninstallsGoes, RestoresGoes DEF Download

LEMMA UnlockedIsFree == Unlocked \notin ModelCommands /\ Downloads \cap Removals = {}
  BY ModelAssumption

(* What the places of another download hold stays.                         *)
LEMMA OthersStay ==
    ASSUME ModelTypeOK, NEW c \in Downloads, NEW d \in Downloads, c # d, OwnStep(c)
    PROVE  /\ holds'[Tmp(d)] = holds[Tmp(d)] /\ holds'[Backup(d)] = holds[Backup(d)]
           /\ doing'[d] = doing[d] /\ fault'[d] = fault[d]
<1>1. {Tmp(d), Backup(d)} \subseteq ModelPlaces \ OwnPlaces(c)
  BY PlacesOf, PathIsNoLeftover, PlacesApart DEF ModelPlaces, OwnPlaces
<1>2. doing'[d] = doing[d] /\ fault'[d] = fault[d]
  BY DEF OwnStep, ModelTypeOK, ModelCommands
<1> QED
  BY <1>1, <1>2 DEF OwnStep

LEMMA DownloadKeepsTypes ==
    ASSUME ModelTypeOK, NEW c \in Downloads, modelLock = c, OwnStep(c), GoesOn(c) \/ IsOver(c)
    PROVE  ModelTypeOK'
<1>1. /\ kind' \in {"file", "directory"}
      /\ holds' \in [{Path} \cup ModelLeftovers -> {"none", "partial", "verified"}]
      /\ found' \in [ModelCommands -> {"none", "partial", "verified"}]
      /\ modelLock' \in ModelCommands \cup {Unlocked}
  BY DEF OwnStep, GoesOn, IsOver, ModelTypeOK, ModelPlaces, Contents
<1>2. doing' \in [ModelCommands ->
                   {"idle", "fetches", "hashes", "backs", "checks", "installs", "records",
                    "drops", "sets_aside", "drops_orphan", "discards", "undoes", "uninstalls",
                    "restores", "removes", "collects", "done", "failed", "killed"}]
  <2>1. PICK next : doing' = [doing EXCEPT ![c] = next]
    BY DEF OwnStep
  <2>2. doing'[c] = next
    BY <2>1 DEF ModelTypeOK, ModelCommands
  <2> QED
    BY <2>1, <2>2 DEF GoesOn, IsOver, DownloadSteps, ModelTypeOK
<1>3. fault' \in [ModelCommands ->
                   {"none", "hashes", "backs", "checks", "installs", "records", "drops",
                    "sets_aside", "drops_orphan", "discards", "removes", "collects"}]
  BY DEF OwnStep, UndoSteps, ModelTypeOK
<1> QED
  BY <1>1, <1>2, <1>3 DEF ModelTypeOK

LEMMA DownloadKeeps ==
    ASSUME ModelInv, NEW c \in Downloads, modelLock = c, OwnStep(c), GoesOn(c) \/ IsOver(c)
    PROVE  ModelInv'
<1>1. ModelTypeOK'
  BY DownloadKeepsTypes DEF ModelInv
<1>2. DownloadsProgress'
  BY UnlockedIsFree DEF DownloadsProgress, GoesOn, IsOver, ModelCommands
<1>3. IdleAreEmpty'
  <2> SUFFICES ASSUME NEW d \in Downloads, doing'[d] = "idle"
               PROVE  /\ modelLock' # d /\ fault'[d] = "none"
                      /\ holds'[Tmp(d)] = "none" /\ holds'[Backup(d)] = "none"
    BY DEF IdleAreEmpty, Tmp, Backup
  <2>1. d # c
    BY DEF GoesOn, IsOver, DownloadSteps
  <2>2. modelLock' # d
    BY <2>1, UnlockedIsFree DEF GoesOn, IsOver, ModelCommands
  <2> QED
    BY <2>1, <2>2, OthersStay DEF ModelInv, IdleAreEmpty
<1> QED
  BY <1>1, <1>2, <1>3 DEF ModelInv

LEMMA LocksKeeps ==
    ASSUME ModelInv, NEW c \in ModelCommands, NEW next, LocksModels(c, next),
           next = IF c \in Downloads THEN "fetches" ELSE "removes"
    PROVE  ModelInv'
<1>1. ModelTypeOK
  BY DEF ModelInv
<1>2. holds[Path] \in Contents
  BY <1>1 DEF ModelTypeOK, Contents
<1>3. ModelTypeOK'
  BY <1>1, <1>2 DEF LocksModels, ModelTypeOK, Contents
<1>4. /\ doing' = [doing EXCEPT ![c] = next] /\ doing'[c] = next /\ modelLock' = c
      /\ found'[c] = holds[Path] /\ UNCHANGED <<kind, holds, fault>> /\ doing[c] = "idle"
  BY <1>1 DEF LocksModels, ModelTypeOK
<1>5. DownloadsProgress'
  <2> SUFFICES ASSUME c \in Downloads PROVE Progress(c)'
    BY <1>4 DEF DownloadsProgress
  <2>1. holds[Backup(c)] = "none" /\ fault[c] = "none"
    BY <1>4 DEF ModelInv, IdleAreEmpty
  <2>2. /\ doing'[c] = "fetches" /\ fault'[c] = "none"
        /\ holds'[Path] = found'[c] /\ holds'[Backup(c)] = "none"
    BY <2>1, <1>4
  <2> QED
    BY <2>2 DEF Progress, Sure, AsFound
<1>6. IdleAreEmpty'
  <2> SUFFICES ASSUME NEW d \in Downloads, doing'[d] = "idle"
               PROVE  /\ modelLock' # d /\ fault'[d] = "none"
                      /\ holds'[Tmp(d)] = "none" /\ holds'[Backup(d)] = "none"
    BY DEF IdleAreEmpty, Tmp, Backup
  <2>1. d # c
    BY <1>4
  <2>2. doing[d] = "idle"
    BY <2>1, <1>1, <1>4 DEF ModelTypeOK, ModelCommands
  <2> QED
    BY <2>1, <2>2, <1>4 DEF ModelInv, IdleAreEmpty
<1> QED
  BY <1>3, <1>5, <1>6 DEF ModelInv

(* A removal changes no place that holds nothing, but that of the model.   *)
LEMMA RemovalStep ==
    ASSUME ModelInv, NEW c \in Removals, Removal(c), ~LocksModels(c, "removes")
    PROVE  /\ modelLock = c /\ modelLock' \in {c, Unlocked}
           /\ holds' \in [ModelPlaces -> Contents]
           /\ \A p \in ModelLeftovers : holds[p] = "none" => holds'[p] = "none"
           /\ \E next \in {"collects", "done", "failed"} : doing' = [doing EXCEPT ![c] = next]
           /\ \/ fault' = fault
              \/ doing[c] \in UndoSteps /\ fault' = [fault EXCEPT ![c] = doing[c]]
           /\ kind' = kind /\ found' = found
<1>1. ModelTypeOK /\ c \in ModelCommands
  BY DEF ModelInv, ModelCommands
<1>2. holds \in [ModelPlaces -> Contents] /\ Path \in ModelPlaces
  BY <1>1 DEF ModelTypeOK, ModelPlaces, Contents
<1>3. CASE RemovesModel(c)
  <2>1. /\ modelLock = c /\ doing[c] = "removes" /\ Removes(c, Path, "collects", "failed")
    BY <1>3 DEF RemovesModel, Works
  <2>2. /\ holds' \in [ModelPlaces -> Contents]
        /\ \A p \in ModelPlaces \ {Path} : holds'[p] = holds[p]
        /\ Fine(c, "collects") \/ Faults(c, "failed")
    BY <2>1, <1>1, <1>2, RemovesKeeps
  <2> QED
    BY <2>1, <2>2, <1>1, FineGoes, FaultsGoes, PathIsNoLeftover DEF ModelPlaces, UndoSteps
<1>4. CASE Collects(c)
  <2>1. modelLock = c /\ doing[c] = "collects"
    BY <1>4 DEF Collects, Works
  <2>2. CASE Fine(c, "done") /\ UNCHANGED holds
    BY <2>1, <2>2, <1>1, <1>2, FineGoes
  <2>3. CASE \E p \in ModelLeftovers : holds[p] # "none" /\ Removes(c, p, "collects", "failed")
    <3>1. PICK p \in ModelLeftovers : holds[p] # "none" /\ Removes(c, p, "collects", "failed")
      BY <2>3
    <3>2. /\ holds' \in [ModelPlaces -> Contents]
          /\ \A q \in ModelPlaces \ {p} : holds'[q] = holds[q]
          /\ Fine(c, "collects") \/ Faults(c, "failed")
      BY <3>1, <1>1, RemovesKeeps DEF ModelPlaces
    <3> QED
      BY <3>1, <3>2, <2>1, <1>1, FineGoes, FaultsGoes DEF ModelPlaces, UndoSteps
  <2> QED
    BY <1>4, <2>2, <2>3 DEF Collects
<1> QED
  BY <1>3, <1>4 DEF Removal

LEMMA RemovalKeeps ==
    ASSUME ModelInv, NEW c \in Removals, Removal(c)
    PROVE  ModelInv'
<1>1. CASE LocksModels(c, "removes")
  BY <1>1, LocksKeeps, UnlockedIsFree DEF ModelCommands
<1>2. CASE ~LocksModels(c, "removes")
  <2>1. /\ modelLock' \in {c, Unlocked} /\ holds' \in [ModelPlaces -> Contents]
        /\ \A p \in ModelLeftovers : holds[p] = "none" => holds'[p] = "none"
        /\ \/ fault' = fault
           \/ doing[c] \in UndoSteps /\ fault' = [fault EXCEPT ![c] = doing[c]]
        /\ kind' = kind /\ found' = found
    BY <1>2, RemovalStep
  <2>2. PICK next \in {"collects", "done", "failed"} : doing' = [doing EXCEPT ![c] = next]
    BY <1>2, RemovalStep
  <2>3. ModelTypeOK /\ c \in ModelCommands /\ c \notin Downloads
    BY UnlockedIsFree DEF ModelInv, ModelCommands
  <2>4. ModelTypeOK'
    <3>1. /\ kind' \in {"file", "directory"}
          /\ holds' \in [{Path} \cup ModelLeftovers -> {"none", "partial", "verified"}]
          /\ found' \in [ModelCommands -> {"none", "partial", "verified"}]
          /\ modelLock' \in ModelCommands \cup {Unlocked}
      BY <2>1, <2>3 DEF ModelTypeOK, ModelPlaces, Contents
    <3>2. doing' \in [ModelCommands ->
                   {"idle", "fetches", "hashes", "backs", "checks", "installs", "records",
                    "drops", "sets_aside", "drops_orphan", "discards", "undoes", "uninstalls",
                    "restores", "removes", "collects", "done", "failed", "killed"}]
      BY <2>2, <2>3 DEF ModelTypeOK
    <3>3. fault' \in [ModelCommands ->
                   {"none", "hashes", "backs", "checks", "installs", "records", "drops",
                    "sets_aside", "drops_orphan", "discards", "removes", "collects"}]
      BY <2>1, <2>3 DEF ModelTypeOK, UndoSteps
    <3> QED
      BY <3>1, <3>2, <3>3 DEF ModelTypeOK
  <2>5. DownloadsProgress'
    BY <2>1, <2>3, UnlockedIsFree DEF DownloadsProgress, ModelCommands
  <2>6. IdleAreEmpty'
    <3> SUFFICES ASSUME NEW d \in Downloads, doing'[d] = "idle"
                 PROVE  /\ modelLock' # d /\ fault'[d] = "none"
                        /\ holds'[Tmp(d)] = "none" /\ holds'[Backup(d)] = "none"
      BY DEF IdleAreEmpty, Tmp, Backup
    <3>1. d # c /\ d \in ModelCommands /\ modelLock' # d
      BY <2>1, <2>3, UnlockedIsFree DEF ModelCommands
    <3>2. doing'[d] = doing[d] /\ fault'[d] = fault[d]
      BY <3>1, <2>1, <2>2, <2>3 DEF ModelTypeOK
    <3>3. fault[d] = "none" /\ holds[Tmp(d)] = "none" /\ holds[Backup(d)] = "none"
      BY <3>2 DEF ModelInv, IdleAreEmpty
    <3> QED
      BY <3>1, <3>2, <3>3, <2>1, PlacesOf
  <2> QED
    BY <2>4, <2>5, <2>6 DEF ModelInv
<1> QED
  BY <1>1, <1>2

(* A download that works has begun.                                        *)
LEMMA HolderHasBegun ==
    ASSUME NEW c, Progress(c)
    PROVE  doing[c] \in DownloadSteps
  BY DEF Progress, DownloadSteps

LEMMA ProgressStays ==
    ASSUME NEW d \in Downloads, Progress(d), doing'[d] = doing[d],
           UNCHANGED <<kind, holds, found, fault>>
    PROVE  Progress(d)'
<1>1. /\ holds'[Path] = holds[Path] /\ holds'[Tmp(d)] = holds[Tmp(d)]
      /\ holds'[Backup(d)] = holds[Backup(d)] /\ found'[d] = found[d] /\ fault'[d] = fault[d]
      /\ kind' = kind
  OBVIOUS
<1>2. /\ AsFound(d)' <=> AsFound(d)
      /\ Aside(d)' <=> Aside(d)
      /\ ModelInPlace(d)' <=> ModelInPlace(d)
      /\ Sure(d)' <=> Sure(d)
  BY <1>1 DEF AsFound, Aside, ModelInPlace, Sure, Path, Tmp, Backup
<1>3. Unwound(d)' <=> Unwound(d)
  BY <1>1, <1>2 DEF Unwound
<1> QED
  BY <1>1, <1>2, <1>3 DEF Progress

LEMMA TimesOutKeeps ==
    ASSUME ModelInv, NEW c \in ModelCommands, TimesOut(c)
    PROVE  ModelInv'
<1>1. ModelTypeOK
  BY DEF ModelInv
<1>2. /\ doing' = [doing EXCEPT ![c] = "failed"] /\ doing[c] = "idle"
      /\ UNCHANGED <<kind, holds, modelLock, found, fault>>
  BY DEF TimesOut
<1>3. ModelTypeOK' /\ doing'[c] = "failed" /\ \A d \in Downloads : d # c => doing'[d] = doing[d]
  BY <1>1, <1>2 DEF ModelTypeOK, ModelCommands
<1>4. DownloadsProgress'
  <2> SUFFICES ASSUME NEW d \in Downloads, modelLock' = d PROVE Progress(d)'
    BY DEF DownloadsProgress
  <2>1. Progress(d)
    BY <1>2 DEF ModelInv, DownloadsProgress
  <2>2. d # c
    BY <2>1, <1>2, HolderHasBegun DEF DownloadSteps
  <2>3. doing'[d] = doing[d]
    BY <2>2, <1>3
  <2> QED
    BY <2>1, <2>3, <1>2, ProgressStays
<1>5. IdleAreEmpty'
  BY <1>2, <1>3 DEF ModelInv, IdleAreEmpty, Tmp, Backup
<1> QED
  BY <1>3, <1>4, <1>5 DEF ModelInv

LEMMA KilledKeeps ==
    ASSUME ModelInv, NEW c \in ModelCommands, Killed(c)
    PROVE  ModelInv'
<1>1. ModelTypeOK
  BY DEF ModelInv
<1>2. /\ doing' = [doing EXCEPT ![c] = "killed"] /\ modelLock' = Unlocked
      /\ UNCHANGED <<kind, holds, found, fault>>
  BY DEF Killed
<1>3. ModelTypeOK' /\ doing'[c] = "killed" /\ \A d \in Downloads : d # c => doing'[d] = doing[d]
  BY <1>1, <1>2 DEF ModelTypeOK, ModelCommands
<1>4. DownloadsProgress'
  BY <1>2, UnlockedIsFree DEF DownloadsProgress, ModelCommands
<1>5. IdleAreEmpty'
  BY <1>2, <1>3, UnlockedIsFree DEF ModelInv, IdleAreEmpty, Tmp, Backup, ModelCommands
<1> QED
  BY <1>3, <1>4, <1>5 DEF ModelInv

LEMMA ModelInitInv == ModelInit => ModelInv
<1> SUFFICES ASSUME ModelInit PROVE ModelInv
  OBVIOUS
<1>1. ModelTypeOK
  BY DEF ModelInit, ModelTypeOK
<1>2. DownloadsProgress
  BY UnlockedIsFree DEF ModelInit, DownloadsProgress, ModelCommands
<1>3. IdleAreEmpty
  <2> SUFFICES ASSUME NEW d \in Downloads
               PROVE  /\ modelLock # d /\ fault[d] = "none"
                      /\ holds[Tmp(d)] = "none" /\ holds[Backup(d)] = "none"
    BY DEF IdleAreEmpty
  <2>1. modelLock # d /\ fault[d] = "none"
    BY UnlockedIsFree DEF ModelInit, ModelCommands
  <2>2. {Tmp(d), Backup(d)} \subseteq ModelLeftovers /\ Path \notin ModelLeftovers
    BY PlacesOf, PathIsNoLeftover
  <2> QED
    BY <2>1, <2>2 DEF ModelInit
<1> QED
  BY <1>1, <1>2, <1>3 DEF ModelInv

LEMMA ModelInvNext == ModelInv /\ [ModelNext]_modelVars => ModelInv'
<1> SUFFICES ASSUME ModelInv, [ModelNext]_modelVars PROVE ModelInv'
  OBVIOUS
<1>1. CASE \E c \in Downloads : Download(c)
  <2>1. PICK c \in Downloads : Download(c)
    BY <1>1
  <2>2. CASE LocksModels(c, "fetches")
    BY <2>2, LocksKeeps DEF ModelCommands
  <2>3. CASE ~LocksModels(c, "fetches")
    BY <2>1, <2>3, DownloadGoes, DownloadKeeps
  <2> QED
    BY <2>2, <2>3
<1>2. CASE \E c \in Removals : Removal(c)
  BY <1>2, RemovalKeeps
<1>3. CASE \E c \in ModelCommands : TimesOut(c) \/ Killed(c)
  BY <1>3, TimesOutKeeps, KilledKeeps
<1>4. CASE UNCHANGED modelVars
  <2>1. UNCHANGED <<kind, holds, modelLock, doing, found, fault>>
    BY <1>4 DEF modelVars
  <2>2. ModelTypeOK'
    BY <2>1 DEF ModelInv, ModelTypeOK
  <2>3. DownloadsProgress'
    BY <2>1, ProgressStays DEF ModelInv, DownloadsProgress
  <2>4. IdleAreEmpty'
    BY <2>1 DEF ModelInv, IdleAreEmpty, Tmp, Backup
  <2> QED
    BY <2>2, <2>3, <2>4 DEF ModelInv
<1> QED
  BY <1>1, <1>2, <1>3, <1>4 DEF ModelNext

LEMMA ModelInvariant == ModelSpec => []ModelInv
  BY ModelInitInv, ModelInvNext, PTL DEF ModelSpec

(* The variables of the model's directory keep their types (models.py).    *)
THEOREM ModelTypeCorrect == ModelSpec => []ModelTypeOK
<1>1. ModelInv => ModelTypeOK
  BY DEF ModelInv
<1> QED
  BY <1>1, ModelInvariant, PTL

LEMMA NothingIsLost == ModelInv => NeverLost
<1> SUFFICES ASSUME ModelInv, NEW c \in Downloads, modelLock = c, found[c] # "none"
             PROVE  holds[Path] \in {found[c], "verified"} \/ holds[Backup(c)] = found[c]
  BY DEF NeverLost
<1>1. Progress(c)
  BY DEF ModelInv, DownloadsProgress
<1> QED
  BY <1>1 DEF Progress, AsFound, Aside, ModelInPlace, Unwound, Sure

LEMMA EndsAreWhole ==
    ASSUME ModelInv, [ModelNext]_modelVars, NEW c \in Downloads, modelLock = c, modelLock' = Unlocked
    PROVE  EndsRight(c)
<1>1. c \in ModelCommands /\ c # Unlocked /\ c \notin Removals
  BY UnlockedIsFree DEF ModelCommands
<1>2. CASE \E d \in Downloads : Download(d)
  <2>1. PICK d \in Downloads : Download(d)
    BY <1>2
  <2>2. ~LocksModels(d, "fetches")
    BY <1>1 DEF LocksModels
  <2>3. modelLock = d /\ (GoesOn(d) \/ IsOver(d))
    BY <2>1, <2>2, DownloadGoes
  <2> QED
    BY <2>3, <1>1 DEF GoesOn, IsOver
<1>3. CASE \E d \in Removals : Removal(d)
  BY <1>1, <1>3 DEF Removal, LocksModels, RemovesModel, Collects, Works
<1>4. CASE \E d \in ModelCommands : TimesOut(d)
  BY <1>1, <1>4 DEF TimesOut
<1>5. CASE \E d \in ModelCommands : Killed(d)
  <2>1. doing' = [doing EXCEPT ![c] = "killed"] /\ ModelTypeOK
    BY <1>5 DEF Killed, ModelInv
  <2>2. doing'[c] = "killed"
    BY <2>1, <1>1 DEF ModelTypeOK
  <2> QED
    BY <2>2 DEF EndsRight
<1>6. CASE UNCHANGED modelVars
  BY <1>1, <1>6 DEF modelVars
<1> QED
  BY <1>2, <1>3, <1>4, <1>5, <1>6 DEF ModelNext

(* A download leaves a verified model or what it found: at every moment    *)
(* one of them is at the path or in the backup, so also when it is killed, *)
(* and one that ends has put the right one at the path, but for the        *)
(* failures the property names (models.py:3373).                           *)
THEOREM ModelsAreKept == ModelSpec => ModelIsKept
<1>1. ModelInv /\ [ModelNext]_modelVars =>
        [\A c \in Downloads : modelLock = c /\ modelLock' = Unlocked => EndsRight(c)]_modelVars
  BY EndsAreWhole
<1>2. ModelSpec => [][\A c \in Downloads : modelLock = c /\ modelLock' = Unlocked => EndsRight(c)]_modelVars
  BY <1>1, ModelInvariant, PTL DEF ModelSpec
<1> QED
  BY <1>2, ModelInvariant, NothingIsLost, PTL DEF ModelIsKept, EndsWhole, EndsRight
=============================================================================
