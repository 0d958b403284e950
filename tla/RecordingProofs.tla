-------------------------- MODULE RecordingProofs --------------------------
(***************************************************************************)
(* Safety of the recording commands, for any number of commands and of     *)
(* recorder backends.                                                      *)
(*                                                                         *)
(* IInv: as long as start_recorder raises nothing else than a              *)
(* RecorderStartupError once its child runs, whoever is in the section     *)
(* owns the lock, so one command at a time moves the state file; and at    *)
(* each of its steps there is one place that names whatever recorder may   *)
(* still run, its own locals until the state file does.                    *)
(*                                                                         *)
(* AudioInv: even if it does raise something else, and recorders run that  *)
(* nobody knows of, what the state file says of its own audio is right.    *)
(***************************************************************************)
EXTENDS Recording, TLAPS

(* The steps at which a command has a child of its own.                    *)
StartingSteps == {"startup", "exited", "persist", "abort"}

(* The steps of the section at which it has none.                          *)
Settled == {"locked", "finalize", "pipeline", "journal", "discard", "release"}

(* The section is entered with the lock, and left with it.                 *)
Owner(c) == pc[c] \in Section => lock.by = c /\ lock.rec = NoRec

(* Only a `recording` state names a recorder, and an idle one no audio.    *)
Named == /\ store.rec # NoRec => store.status = "recording" /\ store.audio = store.rec
         /\ store.status = "idle" => store.audio = NoRec

(* A command that holds the lock knows every recorder that may run.        *)
Knows(c) ==
    /\ pc[c] = "launch" => \A r \in Recorders : ~Alive(r)
    /\ pc[c] \in StartingSteps => \A r \in Recorders : Alive(r) => r = Mine(c)
    /\ \/ pc[c] \in Settled
       \/ pc[c] = "finally" /\ lock.by = c /\ lock.rec = NoRec
       => \A r \in Recorders : Alive(r) => store.rec = r

(* Where the section relies on the status it has read or written.          *)
Status(c) ==
    /\ pc[c] \in {"launch", "startup", "exited", "persist"}
          => store.audio = NoRec \/ store.status = "done"
    /\ pc[c] = "finalize" => store.rec = NoRec
    /\ pc[c] = "journal" => store.rec = NoRec
    /\ pc[c] \in {"pipeline", "discard"} => store.status = "finalizing"

Local(c) == Owner(c) /\ Knows(c) /\ Status(c)

IInv == TypeOK /\ Named /\ RecorderAccounted /\ \A c \in Cmds : Local(c)

-----------------------------------------------------------------------------
LEMMA MineType ==
    ASSUME TypeOK, NEW c \in Cmds
    PROVE  Mine(c) \in Recorders /\ Mine(c)[1] = c /\ Mine(c) # NoRec
BY RecordingAssumption DEF TypeOK, Mine, Recorders

(* Nobody else is in the section, or holds the lock at its end.            *)
LEMMA Mutex ==
    ASSUME IInv, NEW c \in Cmds, pc[c] \in Section, NEW d \in Cmds \ {c}
    PROVE  pc[d] \notin Section
BY DEF IInv, Local, Owner

(* A step of c alone, inside its section: the others are as they were.     *)
LEMMA Others ==
    ASSUME IInv, NEW c \in Cmds, pc[c] \in Section, NEW d \in Cmds \ {c},
           TypeOK', pc'[d] = pc[d],
           lock'.by \in {c, NoCmd}
    PROVE  Local(d)'
<1>1. lock'.by # d
  BY RecordingAssumption
<1>2. pc'[d] \notin Section
  BY Mutex
<1> QED
  BY <1>1, <1>2 DEF Local, Owner, Knows, Status, Section, StartingSteps, Settled

LEMMA InitIInv == Init => IInv
<1> SUFFICES ASSUME Init PROVE IInv
  OBVIOUS
<1>1. TypeOK
  BY RecordingAssumption DEF Init, TypeOK, PCs, Store, Statuses, Free
<1>2. \A c \in Cmds : Local(c)
  BY DEF Init, Local, Owner, Knows, Status, Section, StartingSteps, Settled
<1>3. Named /\ RecorderAccounted
  BY DEF Init, Named, RecorderAccounted, Alive, Store
<1> QED
  BY <1>1, <1>2, <1>3 DEF IInv

-----------------------------------------------------------------------------
LEMMA StepCases ==
    ASSUME NEW c \in Cmds, Step(c) \/ Kill(c)
    PROVE  \/ Toggle(c) \/ Begin(c) \/ Acquire(c) \/ Refused(c)
           \/ FinalizeReleases(c) \/ Release(c) \/ StartLocked(c) \/ StartRefused(c)
           \/ StartResumes(c) \/ StartFindsExited(c) \/ Launch(c) \/ StartupFails(c)
           \/ StartupFailsDirty(c) \/ StartupEscapes(c) \/ Grace(c) \/ Exited(c)
           \/ Persist(c) \/ PersistFails(c) \/ Abort(c) \/ StopRecords(c)
           \/ StopResumes(c) \/ StopRefused(c) \/ FinalizeMarks(c) \/ Finalizes(c)
           \/ CancelLocked(c) \/ CancelRefused(c) \/ CancelJournals(c) \/ CancelRaises(c)
           \/ CancelDone(c) \/ CancelFails(c) \/ Kill(c)
BY DEF Step, Start, Stop, Cancel

LockType == [by : Cmds \union {NoCmd}, rec : Recorders \union {NoRec},
             anchored : BOOLEAN]
StoreType == [status : Statuses, rec : Recorders \union {NoRec},
              audio : Recorders \union {NoRec}, text : BOOLEAN]

LEMMA HandedOverIs ==
    ASSUME TypeOK, NEW c \in Cmds
    PROVE  /\ HandedOver(c) \in LockType
           /\ HandedOver(c).by = lock.by
           /\ HandedOver(c).rec = Mine(c)
<1>1. (Mine(c) \in scoped) \in BOOLEAN
  OBVIOUS
<1>2. lock \in LockType
  BY DEF TypeOK, LockType
<1>3. Mine(c) \in Recorders
  BY MineType
<1>4. \A b \in BOOLEAN : LET h == [lock EXCEPT !.rec = Mine(c), !.anchored = b]
                         IN  h \in LockType /\ h.by = lock.by /\ h.rec = Mine(c)
  BY <1>2, <1>3 DEF LockType
<1> QED
  BY <1>1, <1>4 DEF HandedOver

(* What finalize_recording leaves in the state file is a state.            *)
LEMMA FinalizedType ==
    ASSUME TypeOK, NEW status \in Statuses, NEW kept \in BOOLEAN, NEW text \in BOOLEAN
    PROVE  [store EXCEPT !.status = status, !.text = text,
                         !.audio = IF kept THEN @ ELSE NoRec] \in StoreType
<1>1. store \in StoreType /\ store.audio \in Recorders \union {NoRec}
  BY DEF TypeOK, StoreType
<1>2. (IF kept THEN store.audio ELSE NoRec) \in Recorders \union {NoRec}
  BY <1>1
<1> QED
  BY <1>1, <1>2 DEF StoreType

(* A state that forgets an insertion named no artifact, and names none.    *)
LEMMA ForgetsNoArtifact ==
    ASSUME TypeOK, ForgetsInsertion
    PROVE  /\ store' \in StoreType /\ store'.status = "idle"
           /\ store'.rec = NoRec /\ store'.audio = NoRec /\ store.audio = NoRec
           /\ store.status = "error"
BY DEF ForgetsInsertion, TypeOK, StoreType, Statuses

LEMMA TypeStep ==
    ASSUME TypeOK, NEW c \in Cmds, Step(c) \/ Kill(c)
    PROVE  TypeOK'
<1> USE RecordingAssumption, MineType
    DEF TypeOK, PCs, Section, Statuses, Ops, envVars, Goto, Exits, Ends
<1>Toggle. CASE Toggle(c)
  BY <1>Toggle DEF Toggle
<1>Begin. CASE Begin(c)
  BY <1>Begin DEF Begin
<1>Acquire. CASE Acquire(c)
  BY <1>Acquire DEF Acquire, Available
<1>Refused. CASE Refused(c)
  BY <1>Refused DEF Refused
<1>FinalizeReleases. CASE FinalizeReleases(c)
  BY <1>FinalizeReleases DEF FinalizeReleases, Removed, Free
<1>Release. CASE Release(c)
  BY <1>Release DEF Release, Removed, Free
<1>StartLocked. CASE StartLocked(c)
  BY <1>StartLocked, ForgetsNoArtifact DEF StartLocked, StoreType
<1>StartRefused. CASE StartRefused(c)
  BY <1>StartRefused DEF StartRefused, Return
<1>StartResumes. CASE StartResumes(c)
  BY <1>StartResumes DEF StartResumes
<1>StartFindsExited. CASE StartFindsExited(c)
  BY <1>StartFindsExited DEF StartFindsExited, Reconciles
<1>Launch. CASE Launch(c)
  BY <1>Launch DEF Launch
<1>StartupFails. CASE StartupFails(c)
  BY <1>StartupFails DEF StartupFails, NextBackend
<1>StartupFailsDirty. CASE StartupFailsDirty(c)
  BY HandedOverIs, <1>StartupFailsDirty DEF StartupFailsDirty, Retain, LockType
<1>StartupEscapes. CASE StartupEscapes(c)
  BY <1>StartupEscapes DEF StartupEscapes, Return
<1>Grace. CASE Grace(c)
  BY <1>Grace DEF Grace
<1>Exited. CASE Exited(c)
  <2>1. CASE Ends(Mine(c)) /\ NextBackend(c) /\ UNCHANGED <<op, lock>>
    BY <1>Exited, <2>1 DEF Exited, NextBackend
  <2>2. CASE Retain(c) /\ UNCHANGED <<proc, file>>
    BY HandedOverIs, <1>Exited, <2>2 DEF Exited, Retain, LockType
  <2> QED
    BY <1>Exited, <2>1, <2>2 DEF Exited
<1>Persist. CASE Persist(c)
  BY <1>Persist DEF Persist, Store
<1>PersistFails. CASE PersistFails(c)
  <2>1. Store("recording", Mine(c), Mine(c), FALSE) \in StoreType
    BY DEF Store, StoreType
  <2>2. store \in StoreType
    BY DEF StoreType
  <2>3. store' \in StoreType
    BY <1>PersistFails, <2>1, <2>2 DEF PersistFails
  <2>4. pc' \in [Cmds -> PCs]
    BY <1>PersistFails DEF PersistFails
  <2>5. UNCHANGED <<op, try, lock, envVars>>
    BY <1>PersistFails DEF PersistFails
  <2> QED
    BY <2>3, <2>4, <2>5 DEF StoreType
<1>Abort. CASE Abort(c)
  <2>1. CASE Ends(Mine(c)) /\ Goto(c, "finally") /\ UNCHANGED <<op, try, lock>>
    BY <1>Abort, <2>1 DEF Abort
  <2>2. CASE Retain(c) /\ UNCHANGED <<proc, file>>
    BY HandedOverIs, <1>Abort, <2>2 DEF Abort, Retain, LockType
  <2> QED
    BY <1>Abort, <2>1, <2>2 DEF Abort
<1>StopRecords. CASE StopRecords(c)
  BY <1>StopRecords DEF StopRecords, Reconciles
<1>StopResumes. CASE StopResumes(c)
  BY <1>StopResumes DEF StopResumes
<1>StopRefused. CASE StopRefused(c)
  BY <1>StopRefused DEF StopRefused, Return
<1>FinalizeMarks. CASE FinalizeMarks(c)
  BY <1>FinalizeMarks DEF FinalizeMarks
<1>Finalizes. CASE Finalizes(c)
  <2>1. store' \in StoreType
    <3>1. PICK status \in {"done", "finalizing", "error"}, kept \in BOOLEAN, text \in BOOLEAN :
            store' = [store EXCEPT !.status = status, !.text = text,
                                   !.audio = IF kept THEN @ ELSE NoRec]
      BY <1>Finalizes DEF Finalizes
    <3>2. status \in Statuses
      OBVIOUS
    <3> HIDE DEF TypeOK, Statuses
    <3> QED
      BY <3>1, <3>2, FinalizedType
  <2>2. file' \in [Recorders -> {"none", "empty", "data"}]
    BY <1>Finalizes DEF Finalizes
  <2> QED
    BY <1>Finalizes, <2>1, <2>2 DEF Finalizes, StoreType
<1>CancelLocked. CASE CancelLocked(c)
  BY <1>CancelLocked DEF CancelLocked, Reconciles
<1>CancelRefused. CASE CancelRefused(c)
  BY <1>CancelRefused DEF CancelRefused, Return
<1>CancelJournals. CASE CancelJournals(c)
  BY <1>CancelJournals DEF CancelJournals
<1>CancelRaises. CASE CancelRaises(c)
  BY <1>CancelRaises DEF CancelRaises, Return
<1>CancelDone. CASE CancelDone(c)
  BY <1>CancelDone DEF CancelDone, Store
<1>CancelFails. CASE CancelFails(c)
  BY <1>CancelFails DEF CancelFails
<1>Kill. CASE Kill(c)
  BY <1>Kill DEF Kill
<1> QED
  BY StepCases,
     <1>Toggle, <1>Begin, <1>Acquire, <1>Refused,
     <1>FinalizeReleases, <1>Release, <1>StartLocked, <1>StartRefused,
     <1>StartResumes, <1>StartFindsExited, <1>Launch, <1>StartupFails,
     <1>StartupFailsDirty, <1>StartupEscapes, <1>Grace, <1>Exited,
     <1>Persist, <1>PersistFails, <1>Abort, <1>StopRecords,
     <1>StopResumes, <1>StopRefused, <1>FinalizeMarks, <1>Finalizes,
     <1>CancelLocked, <1>CancelRefused, <1>CancelJournals, <1>CancelRaises,
     <1>CancelDone, <1>CancelFails, <1>Kill



(* A step of c outside the section that moves neither state nor lock.      *)
LEMMA Outside ==
    ASSUME IInv, TypeOK', NEW c \in Cmds,
           pc'[c] \in {"begin", "acquire", "end"},
           \A d \in Cmds \ {c} : pc'[d] = pc[d] /\ try'[d] = try[d],
           UNCHANGED <<store, lock, proc>>
    PROVE  IInv'
<1>1. \A r : Alive(r)' = Alive(r)
  BY DEF Alive
<1>2. Named' /\ RecorderAccounted'
  BY <1>1 DEF IInv, Named, RecorderAccounted
<1>3. Local(c)'
  BY DEF Local, Owner, Knows, Status, Section, StartingSteps, Settled
<1>4. ASSUME NEW d \in Cmds \ {c} PROVE Local(d)'
  <2>1. Mine(d)' = Mine(d)
    BY DEF Mine
  <2>2. Local(d)
    BY DEF IInv
  <2> QED
    BY <1>1, <2>1, <2>2 DEF Local, Owner, Knows, Status
<1> QED
  BY <1>2, <1>3, <1>4 DEF IInv

LEMMA Inside ==
    ASSUME IInv, TypeOK', NEW c \in Cmds, pc[c] \in Section,
           \A d \in Cmds \ {c} : pc'[d] = pc[d],
           lock'.by \in {c, NoCmd},
           Named', RecorderAccounted', Local(c)'
    PROVE  IInv'
BY Others DEF IInv

LEMMA SafeStep ==
    ASSUME ~EscapesWrapping, IInv, NEW c \in Cmds, Step(c) \/ Kill(c)
    PROVE  IInv'
<1> USE RecordingAssumption
<1>ty. TypeOK /\ TypeOK'
  BY TypeStep DEF IInv
<1>mine. Mine(c) \in Recorders /\ Mine(c)[1] = c /\ Mine(c) # NoRec
  BY <1>ty, MineType
<1>hand. HandedOver(c).by = lock.by /\ HandedOver(c).rec = Mine(c)
  BY <1>ty, HandedOverIs
<1>inv. Named /\ RecorderAccounted /\ Local(c)
  BY DEF IInv
<1>Toggle. CASE Toggle(c)
  BY Outside, <1>ty, <1>Toggle DEF Toggle, At, Goto, envVars, TypeOK, PCs
<1>Begin. CASE Begin(c)
  BY Outside, <1>ty, <1>Begin DEF Begin, Exits, At, Goto, envVars, TypeOK, PCs
<1>Acquire. CASE Acquire(c)
  <2>1. \A d \in Cmds : pc[d] \notin Section
    BY <1>Acquire DEF Acquire, Available, Free, IInv, Local, Owner
  <2>2. \A r \in Recorders : Alive(r) => store.rec = r
    BY <1>inv, <1>ty, <1>Acquire
    DEF Acquire, Available, Free, RecorderAccounted, Alive, Gone, Recorders, TypeOK
  <2>3. Named' /\ RecorderAccounted' /\ Local(c)'
    BY <2>2, <1>ty, <1>inv, <1>Acquire
    DEF Acquire, At, Goto, envVars, TypeOK, Named, RecorderAccounted, Local, Owner,
        Knows, Status, StartingSteps, Settled, Alive
  <2>4. ASSUME NEW d \in Cmds \ {c} PROVE Local(d)'
    BY <2>1, <1>ty, <1>Acquire
    DEF Acquire, Goto, TypeOK, Section, Local, Owner, Knows, Status, StartingSteps, Settled
  <2> QED
    BY <1>ty, <2>3, <2>4 DEF IInv
<1>Refused. CASE Refused(c)
  BY Outside, <1>ty, <1>Refused DEF Refused, Exits, At, Goto, envVars, TypeOK, PCs
<1>FinalizeReleases. CASE FinalizeReleases(c)
  <2>1. Named' /\ RecorderAccounted' /\ Local(c)'
    BY <1>ty, <1>mine, <1>hand, <1>inv, <1>FinalizeReleases
    DEF FinalizeReleases, Removed, Free, At, Goto, envVars, TypeOK, PCs, Section,
        Named, RecorderAccounted, Local, Owner, Knows, Status, StartingSteps, Settled, Alive
  <2>2. /\ pc[c] \in Section /\ lock'.by \in {c, NoCmd}
        /\ \A d \in Cmds \ {c} : pc'[d] = pc[d]
    BY <1>ty, <1>hand, <1>inv, <1>FinalizeReleases
    DEF FinalizeReleases, Removed, Free, At, Goto, envVars, TypeOK, Section, Local, Owner
  <2> QED
    BY Inside, <1>ty, <2>1, <2>2
<1>Release. CASE Release(c)
  <2>1. CASE lock.by = c /\ lock.rec = NoRec
    <3>1. \A d \in Cmds \ {c} : pc[d] \notin Section /\ lock.by # d
      BY <2>1 DEF IInv, Local, Owner
    <3>2. \A r \in Recorders : Alive(r) => store.rec = r
      BY <2>1, <1>inv, <1>Release DEF Release, At, Local, Knows
    <3>3. Named' /\ RecorderAccounted' /\ Local(c)'
      BY <3>2, <1>ty, <1>inv, <1>Release
      DEF Release, Exits, Goto, envVars, TypeOK, Named, RecorderAccounted, Local,
          Owner, Knows, Status, Section, StartingSteps, Settled, Alive
    <3>4. lock' = Free /\ Free.by = NoCmd
      BY <2>1, <1>Release DEF Release, Removed, Free
    <3>5. ASSUME NEW d \in Cmds \ {c} PROVE Local(d)'
      BY <3>1, <3>4, <1>ty, <1>Release
      DEF Release, Exits, Goto, TypeOK, Section, Local, Owner, Knows, Status, StartingSteps,
          Settled
    <3> QED
      BY <1>ty, <3>3, <3>5 DEF IInv
  <2>2. CASE ~(lock.by = c /\ lock.rec = NoRec)
    BY Outside, <1>ty, <1>Release, <2>2
    DEF Release, Removed, Exits, Goto, envVars, TypeOK, PCs
  <2> QED
    BY <2>1, <2>2
<1>StartLocked. CASE StartLocked(c)
  <2>1. Named' /\ RecorderAccounted' /\ Local(c)'
    BY <1>ty, <1>mine, <1>hand, <1>inv, <1>StartLocked, ForgetsNoArtifact DEF
       StartLocked, MayLaunch, At, Goto, envVars, TypeOK, PCs, Section, Named,
       RecorderAccounted, Local, Owner, Knows, Status, StartingSteps, Settled,
       Alive
  <2>2. /\ pc[c] \in Section /\ lock'.by \in {c, NoCmd}
        /\ \A d \in Cmds \ {c} : pc'[d] = pc[d]
    BY <1>ty, <1>hand, <1>inv, <1>StartLocked
    DEF StartLocked, MayLaunch, At, Goto, envVars, TypeOK, Section, Local, Owner
  <2> QED
    BY Inside, <1>ty, <2>1, <2>2
<1>StartRefused. CASE StartRefused(c)
  <2>1. Named' /\ RecorderAccounted' /\ Local(c)'
    BY <1>ty, <1>mine, <1>hand, <1>inv, <1>StartRefused
    DEF StartRefused, Return, At, Goto, envVars, TypeOK, PCs, Section,
        Named, RecorderAccounted, Local, Owner, Knows, Status, StartingSteps, Settled, Alive
  <2>2. /\ pc[c] \in Section /\ lock'.by \in {c, NoCmd}
        /\ \A d \in Cmds \ {c} : pc'[d] = pc[d]
    BY <1>ty, <1>hand, <1>inv, <1>StartRefused
    DEF StartRefused, Return, At, Goto, envVars, TypeOK, Section, Local, Owner
  <2> QED
    BY Inside, <1>ty, <2>1, <2>2
<1>StartResumes. CASE StartResumes(c)
  <2>1. Named' /\ RecorderAccounted' /\ Local(c)'
    BY <1>ty, <1>mine, <1>hand, <1>inv, <1>StartResumes
    DEF StartResumes, At, Goto, envVars, TypeOK, PCs, Section,
        Named, RecorderAccounted, Local, Owner, Knows, Status, StartingSteps, Settled, Alive
  <2>2. /\ pc[c] \in Section /\ lock'.by \in {c, NoCmd}
        /\ \A d \in Cmds \ {c} : pc'[d] = pc[d]
    BY <1>ty, <1>hand, <1>inv, <1>StartResumes
    DEF StartResumes, At, Goto, envVars, TypeOK, Section, Local, Owner
  <2> QED
    BY Inside, <1>ty, <2>1, <2>2
<1>StartFindsExited. CASE StartFindsExited(c)
  <2>1. Named' /\ RecorderAccounted' /\ Local(c)'
    BY <1>ty, <1>mine, <1>hand, <1>inv, <1>StartFindsExited
    DEF StartFindsExited, Reconciles, Ends, At, Goto, envVars, TypeOK, PCs, Section,
        Named, RecorderAccounted, Local, Owner, Knows, Status, StartingSteps, Settled, Alive
  <2>2. /\ pc[c] \in Section /\ lock'.by \in {c, NoCmd}
        /\ \A d \in Cmds \ {c} : pc'[d] = pc[d]
    BY <1>ty, <1>hand, <1>inv, <1>StartFindsExited
    DEF StartFindsExited, Reconciles, Ends, At, Goto, envVars, TypeOK, Section, Local, Owner
  <2> QED
    BY Inside, <1>ty, <2>1, <2>2
<1>Launch. CASE Launch(c)
  <2>a. \A r \in Recorders : Alive(r)' => r = Mine(c)
    BY <1>ty, <1>mine, <1>inv, <1>Launch DEF Launch, At, TypeOK, Local, Knows, Alive
  <2>b. Mine(c)' = Mine(c) /\ pc'[c] = "startup" /\ lock.by = c /\ lock.rec = NoRec
    BY <1>ty, <1>inv, <1>Launch
    DEF Launch, At, Goto, Mine, TypeOK, Local, Owner, Section
  <2>1. Named' /\ RecorderAccounted' /\ Local(c)'
    BY <1>mine, <1>inv, <1>Launch, <2>a, <2>b
    DEF Launch, At, Named, RecorderAccounted, Local, Owner, Knows, Status, Section,
        StartingSteps, Settled
  <2>2. /\ pc[c] \in Section /\ lock'.by \in {c, NoCmd}
        /\ \A d \in Cmds \ {c} : pc'[d] = pc[d]
    BY <1>ty, <1>hand, <1>inv, <1>Launch
    DEF Launch, At, Goto, envVars, TypeOK, Section, Local, Owner
  <2> QED
    BY Inside, <1>ty, <2>1, <2>2
<1>StartupFails. CASE StartupFails(c)
  <2>1. Named' /\ RecorderAccounted' /\ Local(c)'
    BY <1>ty, <1>mine, <1>hand, <1>inv, <1>StartupFails
    DEF StartupFails, NextBackend, Ends, At, Goto, envVars, TypeOK, PCs, Section,
        Named, RecorderAccounted, Local, Owner, Knows, Status, StartingSteps, Settled, Alive
  <2>2. /\ pc[c] \in Section /\ lock'.by \in {c, NoCmd}
        /\ \A d \in Cmds \ {c} : pc'[d] = pc[d]
    BY <1>ty, <1>hand, <1>inv, <1>StartupFails
    DEF StartupFails, NextBackend, Ends, At, Goto, envVars, TypeOK, Section, Local, Owner
  <2> QED
    BY Inside, <1>ty, <2>1, <2>2
<1>StartupFailsDirty. CASE StartupFailsDirty(c)
  <2>1. Named' /\ RecorderAccounted' /\ Local(c)'
    BY <1>ty, <1>mine, <1>hand, <1>inv, <1>StartupFailsDirty
    DEF StartupFailsDirty, Retain, Exits, At, Goto, envVars, TypeOK, PCs, Section,
        Named, RecorderAccounted, Local, Owner, Knows, Status, StartingSteps, Settled, Alive
  <2>2. /\ pc[c] \in Section /\ lock'.by \in {c, NoCmd}
        /\ \A d \in Cmds \ {c} : pc'[d] = pc[d]
    BY <1>ty, <1>hand, <1>inv, <1>StartupFailsDirty
    DEF StartupFailsDirty, Retain, Exits, At, Goto, envVars, TypeOK, Section, Local, Owner
  <2> QED
    BY Inside, <1>ty, <2>1, <2>2
<1>StartupEscapes. CASE StartupEscapes(c)
  <2>1. Named' /\ RecorderAccounted' /\ Local(c)'
    BY <1>ty, <1>mine, <1>hand, <1>inv, <1>StartupEscapes
    DEF StartupEscapes, Return, At, Goto, envVars, TypeOK, PCs, Section,
        Named, RecorderAccounted, Local, Owner, Knows, Status, StartingSteps, Settled, Alive
  <2>2. /\ pc[c] \in Section /\ lock'.by \in {c, NoCmd}
        /\ \A d \in Cmds \ {c} : pc'[d] = pc[d]
    BY <1>ty, <1>hand, <1>inv, <1>StartupEscapes
    DEF StartupEscapes, Return, At, Goto, envVars, TypeOK, Section, Local, Owner
  <2> QED
    BY Inside, <1>ty, <2>1, <2>2
<1>Grace. CASE Grace(c)
  <2>a. pc'[c] \in {"persist", "abort", "exited"} /\ Mine(c)' = Mine(c)
    BY <1>ty, <1>Grace DEF Grace, Goto, Mine, TypeOK
  <2>b. \A r : Alive(r)' = Alive(r)
    BY <1>Grace DEF Grace, envVars, Alive
  <2>1. Named' /\ RecorderAccounted' /\ Local(c)'
    BY <1>inv, <1>Grace, <2>a, <2>b
    DEF Grace, At, envVars, Named, RecorderAccounted, Local, Owner, Knows, Status,
        Section, StartingSteps, Settled
  <2>2. /\ pc[c] \in Section /\ lock'.by \in {c, NoCmd}
        /\ \A d \in Cmds \ {c} : pc'[d] = pc[d]
    BY <1>ty, <1>hand, <1>inv, <1>Grace
    DEF Grace, At, Goto, envVars, TypeOK, Section, Local, Owner
  <2> QED
    BY Inside, <1>ty, <2>1, <2>2
<1>Exited. CASE Exited(c)
  <2>1. Named' /\ RecorderAccounted' /\ Local(c)'
    BY <1>ty, <1>mine, <1>hand, <1>inv, <1>Exited
    DEF Exited, NextBackend, Retain, Exits, Ends, At, Goto, envVars, TypeOK, PCs, Section,
        Named, RecorderAccounted, Local, Owner, Knows, Status, StartingSteps, Settled, Alive
  <2>2. /\ pc[c] \in Section /\ lock'.by \in {c, NoCmd}
        /\ \A d \in Cmds \ {c} : pc'[d] = pc[d]
    BY <1>ty, <1>hand, <1>inv, <1>Exited
    DEF Exited, NextBackend, Retain, Exits, Ends, At, Goto, envVars, TypeOK, Section, Local, Owner
  <2> QED
    BY Inside, <1>ty, <2>1, <2>2
<1>Persist. CASE Persist(c)
  <2>1. Named' /\ RecorderAccounted' /\ Local(c)'
    BY <1>ty, <1>mine, <1>hand, <1>inv, <1>Persist
    DEF Persist, Store, At, Goto, envVars, TypeOK, PCs, Section,
        Named, RecorderAccounted, Local, Owner, Knows, Status, StartingSteps, Settled, Alive
  <2>2. /\ pc[c] \in Section /\ lock'.by \in {c, NoCmd}
        /\ \A d \in Cmds \ {c} : pc'[d] = pc[d]
    BY <1>ty, <1>hand, <1>inv, <1>Persist
    DEF Persist, Store, At, Goto, envVars, TypeOK, Section, Local, Owner
  <2> QED
    BY Inside, <1>ty, <2>1, <2>2
<1>PersistFails. CASE PersistFails(c)
  <2>a. pc'[c] = "abort" /\ Mine(c)' = Mine(c)
    BY <1>ty, <1>PersistFails DEF PersistFails, Goto, Mine, TypeOK
  <2>b. \A r : Alive(r)' = Alive(r)
    BY <1>PersistFails DEF PersistFails, envVars, Alive
  <2>c. Named'
    BY <1>inv, <1>mine, <1>PersistFails DEF PersistFails, Store, Named
  <2>d. \A r \in Recorders : Alive(r) => r = Mine(c)
    BY <1>inv, <1>PersistFails DEF PersistFails, At, Local, Knows, StartingSteps
  <2>1. Named' /\ RecorderAccounted' /\ Local(c)'
    BY <1>inv, <1>mine, <1>PersistFails, <2>a, <2>b, <2>c, <2>d
    DEF PersistFails, At, RecorderAccounted, Local, Owner, Knows, Status, Section,
        StartingSteps, Settled
  <2>2. /\ pc[c] \in Section /\ lock'.by \in {c, NoCmd}
        /\ \A d \in Cmds \ {c} : pc'[d] = pc[d]
    BY <1>ty, <1>hand, <1>inv, <1>PersistFails
    DEF PersistFails, Store, At, Goto, envVars, TypeOK, Section, Local, Owner
  <2> QED
    BY Inside, <1>ty, <2>1, <2>2
<1>Abort. CASE Abort(c)
  <2>1. Named' /\ RecorderAccounted' /\ Local(c)'
    BY <1>ty, <1>mine, <1>hand, <1>inv, <1>Abort
    DEF Abort, Retain, Exits, Ends, At, Goto, envVars, TypeOK, PCs, Section,
        Named, RecorderAccounted, Local, Owner, Knows, Status, StartingSteps, Settled, Alive
  <2>2. /\ pc[c] \in Section /\ lock'.by \in {c, NoCmd}
        /\ \A d \in Cmds \ {c} : pc'[d] = pc[d]
    BY <1>ty, <1>hand, <1>inv, <1>Abort
    DEF Abort, Retain, Exits, Ends, At, Goto, envVars, TypeOK, Section, Local, Owner
  <2> QED
    BY Inside, <1>ty, <2>1, <2>2
<1>StopRecords. CASE StopRecords(c)
  <2>1. Named' /\ RecorderAccounted' /\ Local(c)'
    BY <1>ty, <1>mine, <1>hand, <1>inv, <1>StopRecords
    DEF StopRecords, Reconciles, Ends, At, Goto, envVars, TypeOK, PCs, Section,
        Named, RecorderAccounted, Local, Owner, Knows, Status, StartingSteps, Settled, Alive
  <2>2. /\ pc[c] \in Section /\ lock'.by \in {c, NoCmd}
        /\ \A d \in Cmds \ {c} : pc'[d] = pc[d]
    BY <1>ty, <1>hand, <1>inv, <1>StopRecords
    DEF StopRecords, Reconciles, Ends, At, Goto, envVars, TypeOK, Section, Local, Owner
  <2> QED
    BY Inside, <1>ty, <2>1, <2>2
<1>StopResumes. CASE StopResumes(c)
  <2>1. Named' /\ RecorderAccounted' /\ Local(c)'
    BY <1>ty, <1>mine, <1>hand, <1>inv, <1>StopResumes
    DEF StopResumes, At, Goto, envVars, TypeOK, PCs, Section,
        Named, RecorderAccounted, Local, Owner, Knows, Status, StartingSteps, Settled, Alive
  <2>2. /\ pc[c] \in Section /\ lock'.by \in {c, NoCmd}
        /\ \A d \in Cmds \ {c} : pc'[d] = pc[d]
    BY <1>ty, <1>hand, <1>inv, <1>StopResumes
    DEF StopResumes, At, Goto, envVars, TypeOK, Section, Local, Owner
  <2> QED
    BY Inside, <1>ty, <2>1, <2>2
<1>StopRefused. CASE StopRefused(c)
  <2>1. Named' /\ RecorderAccounted' /\ Local(c)'
    BY <1>ty, <1>mine, <1>hand, <1>inv, <1>StopRefused
    DEF StopRefused, Return, At, Goto, envVars, TypeOK, PCs, Section,
        Named, RecorderAccounted, Local, Owner, Knows, Status, StartingSteps, Settled, Alive
  <2>2. /\ pc[c] \in Section /\ lock'.by \in {c, NoCmd}
        /\ \A d \in Cmds \ {c} : pc'[d] = pc[d]
    BY <1>ty, <1>hand, <1>inv, <1>StopRefused
    DEF StopRefused, Return, At, Goto, envVars, TypeOK, Section, Local, Owner
  <2> QED
    BY Inside, <1>ty, <2>1, <2>2
<1>FinalizeMarks. CASE FinalizeMarks(c)
  <2>1. Named' /\ RecorderAccounted' /\ Local(c)'
    BY <1>ty, <1>mine, <1>hand, <1>inv, <1>FinalizeMarks
    DEF FinalizeMarks, At, Goto, envVars, TypeOK, PCs, Section,
        Named, RecorderAccounted, Local, Owner, Knows, Status, StartingSteps, Settled, Alive
  <2>2. /\ pc[c] \in Section /\ lock'.by \in {c, NoCmd}
        /\ \A d \in Cmds \ {c} : pc'[d] = pc[d]
    BY <1>ty, <1>hand, <1>inv, <1>FinalizeMarks
    DEF FinalizeMarks, At, Goto, envVars, TypeOK, Section, Local, Owner
  <2> QED
    BY Inside, <1>ty, <2>1, <2>2
<1>Finalizes. CASE Finalizes(c)
  <2>1. Named' /\ RecorderAccounted' /\ Local(c)'
    BY <1>ty, <1>mine, <1>hand, <1>inv, <1>Finalizes
    DEF Finalizes, At, Goto, envVars, TypeOK, PCs, Section,
        Named, RecorderAccounted, Local, Owner, Knows, Status, StartingSteps, Settled, Alive
  <2>2. /\ pc[c] \in Section /\ lock'.by \in {c, NoCmd}
        /\ \A d \in Cmds \ {c} : pc'[d] = pc[d]
    BY <1>ty, <1>hand, <1>inv, <1>Finalizes
    DEF Finalizes, At, Goto, envVars, TypeOK, Section, Local, Owner
  <2> QED
    BY Inside, <1>ty, <2>1, <2>2
<1>CancelLocked. CASE CancelLocked(c)
  <2>1. Named' /\ RecorderAccounted' /\ Local(c)'
    BY <1>ty, <1>mine, <1>hand, <1>inv, <1>CancelLocked
    DEF CancelLocked, Reconciles, Ends, At, Goto, envVars, TypeOK, PCs, Section,
        Named, RecorderAccounted, Local, Owner, Knows, Status, StartingSteps, Settled, Alive
  <2>2. /\ pc[c] \in Section /\ lock'.by \in {c, NoCmd}
        /\ \A d \in Cmds \ {c} : pc'[d] = pc[d]
    BY <1>ty, <1>hand, <1>inv, <1>CancelLocked
    DEF CancelLocked, Reconciles, Ends, At, Goto, envVars, TypeOK, Section, Local, Owner
  <2> QED
    BY Inside, <1>ty, <2>1, <2>2
<1>CancelRefused. CASE CancelRefused(c)
  <2>1. Named' /\ RecorderAccounted' /\ Local(c)'
    BY <1>ty, <1>mine, <1>hand, <1>inv, <1>CancelRefused
    DEF CancelRefused, Return, At, Goto, envVars, TypeOK, PCs, Section,
        Named, RecorderAccounted, Local, Owner, Knows, Status, StartingSteps, Settled, Alive
  <2>2. /\ pc[c] \in Section /\ lock'.by \in {c, NoCmd}
        /\ \A d \in Cmds \ {c} : pc'[d] = pc[d]
    BY <1>ty, <1>hand, <1>inv, <1>CancelRefused
    DEF CancelRefused, Return, At, Goto, envVars, TypeOK, Section, Local, Owner
  <2> QED
    BY Inside, <1>ty, <2>1, <2>2
<1>CancelJournals. CASE CancelJournals(c)
  <2>1. Named' /\ RecorderAccounted' /\ Local(c)'
    BY <1>ty, <1>mine, <1>hand, <1>inv, <1>CancelJournals
    DEF CancelJournals, At, Goto, envVars, TypeOK, PCs, Section,
        Named, RecorderAccounted, Local, Owner, Knows, Status, StartingSteps, Settled, Alive
  <2>2. /\ pc[c] \in Section /\ lock'.by \in {c, NoCmd}
        /\ \A d \in Cmds \ {c} : pc'[d] = pc[d]
    BY <1>ty, <1>hand, <1>inv, <1>CancelJournals
    DEF CancelJournals, At, Goto, envVars, TypeOK, Section, Local, Owner
  <2> QED
    BY Inside, <1>ty, <2>1, <2>2
<1>CancelRaises. CASE CancelRaises(c)
  <2>1. Named' /\ RecorderAccounted' /\ Local(c)'
    BY <1>ty, <1>mine, <1>hand, <1>inv, <1>CancelRaises
    DEF CancelRaises, Return, At, Goto, envVars, TypeOK, PCs, Section,
        Named, RecorderAccounted, Local, Owner, Knows, Status, StartingSteps, Settled, Alive
  <2>2. /\ pc[c] \in Section /\ lock'.by \in {c, NoCmd}
        /\ \A d \in Cmds \ {c} : pc'[d] = pc[d]
    BY <1>ty, <1>hand, <1>inv, <1>CancelRaises
    DEF CancelRaises, Return, At, Goto, envVars, TypeOK, Section, Local, Owner
  <2> QED
    BY Inside, <1>ty, <2>1, <2>2
<1>CancelDone. CASE CancelDone(c)
  <2>1. Named' /\ RecorderAccounted' /\ Local(c)'
    BY <1>ty, <1>mine, <1>hand, <1>inv, <1>CancelDone
    DEF CancelDone, Store, At, Goto, envVars, TypeOK, PCs, Section,
        Named, RecorderAccounted, Local, Owner, Knows, Status, StartingSteps, Settled, Alive
  <2>2. /\ pc[c] \in Section /\ lock'.by \in {c, NoCmd}
        /\ \A d \in Cmds \ {c} : pc'[d] = pc[d]
    BY <1>ty, <1>hand, <1>inv, <1>CancelDone
    DEF CancelDone, Store, At, Goto, envVars, TypeOK, Section, Local, Owner
  <2> QED
    BY Inside, <1>ty, <2>1, <2>2
<1>CancelFails. CASE CancelFails(c)
  <2>1. Named' /\ RecorderAccounted' /\ Local(c)'
    BY <1>ty, <1>mine, <1>hand, <1>inv, <1>CancelFails
    DEF CancelFails, At, Goto, envVars, TypeOK, PCs, Section,
        Named, RecorderAccounted, Local, Owner, Knows, Status, StartingSteps, Settled, Alive
  <2>2. /\ pc[c] \in Section /\ lock'.by \in {c, NoCmd}
        /\ \A d \in Cmds \ {c} : pc'[d] = pc[d]
    BY <1>ty, <1>hand, <1>inv, <1>CancelFails
    DEF CancelFails, At, Goto, envVars, TypeOK, Section, Local, Owner
  <2> QED
    BY Inside, <1>ty, <2>1, <2>2
<1>Kill. CASE Kill(c)
  BY Outside, <1>ty, <1>Kill DEF Kill, Exits, Goto, envVars, TypeOK, PCs
<1> QED
  BY StepCases,
     <1>Toggle, <1>Begin, <1>Acquire, <1>Refused,
     <1>FinalizeReleases, <1>Release, <1>StartLocked, <1>StartRefused,
     <1>StartResumes, <1>StartFindsExited, <1>Launch, <1>StartupFails,
     <1>StartupFailsDirty, <1>StartupEscapes, <1>Grace, <1>Exited,
     <1>Persist, <1>PersistFails, <1>Abort, <1>StopRecords,
     <1>StopResumes, <1>StopRefused, <1>FinalizeMarks, <1>Finalizes,
     <1>CancelLocked, <1>CancelRefused, <1>CancelJournals, <1>CancelRaises,
     <1>CancelDone, <1>CancelFails, <1>Kill
LEMMA SystemStep ==
    ASSUME IInv, NEW r \in Recorders,
           Saves(r) \/ \E s \in {"orphans", "gone", "reused"} : Dies(r, s)
    PROVE  IInv'
<1>1. TypeOK /\ TypeOK'
  BY DEF IInv, TypeOK, Saves, Dies
<1>2. \A q \in Recorders : Alive(q)' => Alive(q)
  BY <1>1 DEF Saves, Dies, Alive, TypeOK
<1>3. UNCHANGED <<pc, try, store, lock>> /\ \A c \in Cmds : Mine(c)' = Mine(c)
  BY DEF Saves, Dies, Mine
<1>4. Named' /\ RecorderAccounted'
  BY <1>2, <1>3 DEF IInv, Named, RecorderAccounted
<1>5. ASSUME NEW c \in Cmds PROVE Local(c)'
  BY <1>2, <1>3 DEF IInv, Local, Owner, Knows, Status
<1> QED
  BY <1>1, <1>4, <1>5 DEF IInv

LEMMA NextStep ==
    ASSUME ~EscapesWrapping, IInv, [Next]_vars
    PROVE  IInv'
<1>1. CASE UNCHANGED vars
  <2>1. \A r : Alive(r)' = Alive(r)
    BY <1>1 DEF vars, envVars, Alive
  <2>2. \A c \in Cmds : Mine(c)' = Mine(c)
    BY <1>1 DEF vars, Mine
  <2>3. TypeOK'
    BY <1>1 DEF IInv, TypeOK, vars, envVars
  <2>4. Named' /\ RecorderAccounted'
    BY <1>1, <2>1 DEF IInv, vars, Named, RecorderAccounted
  <2>5. \A c \in Cmds : Local(c)'
    BY <1>1, <2>1, <2>2 DEF IInv, vars, Local, Owner, Knows, Status
  <2> QED
    BY <2>3, <2>4, <2>5 DEF IInv
<1>2. CASE Next
  BY <1>2, SafeStep, SystemStep DEF Next, System
<1> QED
  BY <1>1, <1>2

(* Only a launch adds a recorder to those that may run; the steps that     *)
(* change one otherwise end it.                                            *)
LEMMA OnlyLaunchStarts ==
    ASSUME TypeOK, NEW c \in Cmds, Step(c) \/ Kill(c), ~Launch(c), NEW r \in Recorders
    PROVE  Alive(r)' => Alive(r)
<1>1. proc' = proc \/ \E q : Ends(q)
  BY StepCases
  DEF Toggle, Begin, Acquire, Refused, FinalizeReleases, Release,
      StartLocked, StartRefused, StartResumes, StartFindsExited, StartupFails, StartupFailsDirty,
      StartupEscapes, Grace, Exited, Persist, PersistFails, Abort,
      StopRecords, StopResumes, StopRefused, FinalizeMarks, Finalizes, CancelLocked,
      CancelRefused, CancelJournals, CancelRaises, CancelDone, CancelFails, Kill,
      Reconciles, Return, envVars
<1> QED
  BY <1>1 DEF TypeOK, Ends, Alive

LEMMA OneRecorderStep ==
    ASSUME IInv, OneRecorder, [Next]_vars
    PROVE  OneRecorder'
<1>1. TypeOK
  BY DEF IInv
<1>2. ASSUME NEW c \in Cmds, Launch(c) PROVE OneRecorder'
  <2>1. \A r \in Recorders : ~Alive(r)
    BY <1>2 DEF IInv, Local, Knows, Launch, At
  <2>2. \A r \in Recorders : Alive(r)' => r = Mine(c)
    BY <1>1, <1>2, <2>1 DEF Launch, Alive, TypeOK
  <2> QED
    BY <2>2 DEF OneRecorder
<1>3. ASSUME \A r \in Recorders : Alive(r)' => Alive(r) PROVE OneRecorder'
  BY <1>3 DEF OneRecorder
<1>4. CASE UNCHANGED vars
  BY <1>4, <1>3 DEF vars, envVars, Alive
<1>5. ASSUME NEW c \in Cmds, Step(c) \/ Kill(c), ~Launch(c) PROVE OneRecorder'
  BY <1>1, <1>3, <1>5, OnlyLaunchStarts
<1>6. ASSUME NEW q \in Recorders,
             Saves(q) \/ \E s \in {"orphans", "gone", "reused"} : Dies(q, s)
      PROVE  OneRecorder'
  <2>1. \A r \in Recorders : Alive(r)' => Alive(r)
    BY <1>1, <1>6 DEF Saves, Dies, Alive, TypeOK
  <2> QED
    BY <2>1, <1>3
<1> QED
  BY <1>2, <1>4, <1>5, <1>6 DEF Next, System

-----------------------------------------------------------------------------
(* What holds even if start_recorder raises past its own error type: the   *)
(* state file never names the audio of a recorder that runs but as that of *)
(* the recorder it names.  A recorder it names at all was launched, and a  *)
(* command's next one was not (Fresh), so no launch takes the name of an   *)
(* audio that is in use.                                                   *)
AudioIsOfRec == store.audio # NoRec /\ Alive(store.audio) => store.rec = store.audio

AudioWasLaunched == store.audio # NoRec => proc[store.audio] # "none"

Fresh(c) ==
    pc[c] # "end" =>
        \A k \in 1..Backends :
            k > try[c] \/ (k = try[c] /\ pc[c] \in {"begin", "acquire", "locked", "launch"})
                => proc[<<c, k>>] = "none"

Launched(c) == pc[c] \in StartingSteps => proc[<<c, try[c]>>] # "none"

AudioInv ==
    /\ TypeOK /\ Named /\ AudioIsOfRec /\ AudioWasLaunched
    /\ \A c \in Cmds : Owner(c) /\ Status(c) /\ Fresh(c) /\ Launched(c)


LEMMA OwnersStay ==
    ASSUME AudioInv, NEW c \in Cmds, Step(c) \/ Kill(c)
    PROVE  \A d \in Cmds : Owner(d)'
<1>ty. TypeOK /\ TypeOK'
  BY TypeStep DEF AudioInv
<1>mine. Mine(c) \in Recorders /\ Mine(c)[1] = c /\ Mine(c) # NoRec
  BY <1>ty, MineType
<1>hand. HandedOver(c).by = lock.by /\ HandedOver(c).rec = Mine(c)
  BY <1>ty, HandedOverIs
<1>Toggle. CASE Toggle(c)
  BY <1>ty, <1>mine, <1>hand, <1>Toggle, RecordingAssumption DEF Toggle, At,
     InProgress, envVars, AudioInv, TypeOK, Owner, Section
<1>Begin. CASE Begin(c)
  BY <1>ty, <1>mine, <1>hand, <1>Begin, RecordingAssumption DEF Begin, At,
     Goto, Exits, InProgress, envVars, AudioInv, TypeOK, Owner, Section
<1>Acquire. CASE Acquire(c)
  BY <1>ty, <1>mine, <1>hand, <1>Acquire, RecordingAssumption DEF Acquire, At,
     Goto, Available, Gone, Free, envVars, AudioInv, TypeOK, Owner, Section
<1>Refused. CASE Refused(c)
  BY <1>ty, <1>mine, <1>hand, <1>Refused, RecordingAssumption DEF Refused, At,
     Exits, Goto, envVars, AudioInv, TypeOK, Owner, Section
<1>FinalizeReleases. CASE FinalizeReleases(c)
  BY <1>ty, <1>mine, <1>hand, <1>FinalizeReleases, RecordingAssumption DEF
     FinalizeReleases, At, Goto, Removed, Free, envVars, AudioInv, TypeOK,
     Owner, Section
<1>Release. CASE Release(c)
  BY <1>ty, <1>mine, <1>hand, <1>Release, RecordingAssumption DEF Release, At,
     Exits, Goto, Removed, Free, envVars, AudioInv, TypeOK, Owner, Section
<1>StartLocked. CASE StartLocked(c)
  BY <1>ty, <1>mine, <1>hand, <1>StartLocked, ForgetsNoArtifact,
     RecordingAssumption DEF StartLocked, At, Goto, MayLaunch, envVars,
     AudioInv, TypeOK, Owner, Section
<1>StartRefused. CASE StartRefused(c)
  BY <1>ty, <1>mine, <1>hand, <1>StartRefused, RecordingAssumption DEF
     StartRefused, At, Return, Goto, envVars, AudioInv, TypeOK, Owner, Section
<1>StartResumes. CASE StartResumes(c)
  BY <1>ty, <1>mine, <1>hand, <1>StartResumes, RecordingAssumption DEF
     StartResumes, At, Goto, envVars, AudioInv, TypeOK, Owner, Section
<1>StartFindsExited. CASE StartFindsExited(c)
  BY <1>ty, <1>mine, <1>hand, <1>StartFindsExited, RecordingAssumption DEF
     StartFindsExited, At, Goto, Reconciles, Ends, CanReconcile, AudioInv,
     TypeOK, Owner, Section
<1>Launch. CASE Launch(c)
  BY <1>ty, <1>mine, <1>hand, <1>Launch, RecordingAssumption DEF Launch, At,
     Goto, AudioInv, TypeOK, Owner, Section
<1>StartupFails. CASE StartupFails(c)
  BY <1>ty, <1>mine, <1>hand, <1>StartupFails, RecordingAssumption DEF
     StartupFails, At, Ends, NextBackend, Goto, AudioInv, TypeOK, Owner,
     Section
<1>StartupFailsDirty. CASE StartupFailsDirty(c)
  BY <1>ty, <1>mine, <1>hand, <1>StartupFailsDirty, RecordingAssumption DEF
     StartupFailsDirty, At, Retain, Exits, Goto, envVars, AudioInv, TypeOK,
     Owner, Section
<1>StartupEscapes. CASE StartupEscapes(c)
  BY <1>ty, <1>mine, <1>hand, <1>StartupEscapes, RecordingAssumption DEF
     StartupEscapes, At, Return, Goto, envVars, AudioInv, TypeOK, Owner,
     Section
<1>Grace. CASE Grace(c)
  BY <1>ty, <1>mine, <1>hand, <1>Grace, RecordingAssumption DEF Grace, At,
     Goto, envVars, AudioInv, TypeOK, Owner, Section
<1>Exited. CASE Exited(c)
  BY <1>ty, <1>mine, <1>hand, <1>Exited, RecordingAssumption DEF Exited, At,
     Ends, NextBackend, Goto, Retain, Exits, AudioInv, TypeOK, Owner, Section
<1>Persist. CASE Persist(c)
  BY <1>ty, <1>mine, <1>hand, <1>Persist, RecordingAssumption DEF Persist, At,
     Goto, Store, envVars, AudioInv, TypeOK, Owner, Section
<1>PersistFails. CASE PersistFails(c)
  BY <1>ty, <1>mine, <1>hand, <1>PersistFails, RecordingAssumption DEF
     PersistFails, At, Goto, Store, envVars, AudioInv, TypeOK, Owner, Section
<1>Abort. CASE Abort(c)
  BY <1>ty, <1>mine, <1>hand, <1>Abort, RecordingAssumption DEF Abort, At,
     Goto, Ends, Retain, Exits, AudioInv, TypeOK, Owner, Section
<1>StopRecords. CASE StopRecords(c)
  BY <1>ty, <1>mine, <1>hand, <1>StopRecords, RecordingAssumption DEF
     StopRecords, At, Goto, Reconciles, Ends, CanReconcile, AudioInv, TypeOK,
     Owner, Section
<1>StopResumes. CASE StopResumes(c)
  BY <1>ty, <1>mine, <1>hand, <1>StopResumes, RecordingAssumption DEF
     StopResumes, At, Goto, envVars, AudioInv, TypeOK, Owner, Section
<1>StopRefused. CASE StopRefused(c)
  BY <1>ty, <1>mine, <1>hand, <1>StopRefused, RecordingAssumption DEF
     StopRefused, At, Return, Goto, envVars, AudioInv, TypeOK, Owner, Section
<1>FinalizeMarks. CASE FinalizeMarks(c)
  BY <1>ty, <1>mine, <1>hand, <1>FinalizeMarks, RecordingAssumption DEF
     FinalizeMarks, At, Goto, envVars, AudioInv, TypeOK, Owner, Section
<1>Finalizes. CASE Finalizes(c)
  BY <1>ty, <1>mine, <1>hand, <1>Finalizes, RecordingAssumption DEF Finalizes,
     At, Goto, AudioInv, TypeOK, Owner, Section
<1>CancelLocked. CASE CancelLocked(c)
  BY <1>ty, <1>mine, <1>hand, <1>CancelLocked, RecordingAssumption DEF
     CancelLocked, At, Goto, Reconciles, Ends, CanReconcile, AudioInv, TypeOK,
     Owner, Section
<1>CancelRefused. CASE CancelRefused(c)
  BY <1>ty, <1>mine, <1>hand, <1>CancelRefused, RecordingAssumption DEF
     CancelRefused, At, Return, Goto, envVars, AudioInv, TypeOK, Owner,
     Section
<1>CancelJournals. CASE CancelJournals(c)
  BY <1>ty, <1>mine, <1>hand, <1>CancelJournals, RecordingAssumption DEF
     CancelJournals, At, Goto, AudioInv, TypeOK, Owner, Section
<1>CancelRaises. CASE CancelRaises(c)
  BY <1>ty, <1>mine, <1>hand, <1>CancelRaises, RecordingAssumption DEF
     CancelRaises, Return, Goto, envVars, AudioInv, TypeOK, Owner, Section
<1>CancelDone. CASE CancelDone(c)
  BY <1>ty, <1>mine, <1>hand, <1>CancelDone, RecordingAssumption DEF
     CancelDone, At, Goto, Store, AudioInv, TypeOK, Owner, Section
<1>CancelFails. CASE CancelFails(c)
  BY <1>ty, <1>mine, <1>hand, <1>CancelFails, RecordingAssumption DEF
     CancelFails, At, Goto, envVars, AudioInv, TypeOK, Owner, Section
<1>Kill. CASE Kill(c)
  BY <1>ty, <1>mine, <1>hand, <1>Kill, RecordingAssumption DEF Kill, Exits,
     Goto, envVars, AudioInv, TypeOK, Owner, Section
<1> QED
  BY StepCases, <1>Toggle, <1>Begin, <1>Acquire, <1>Refused,
     <1>FinalizeReleases, <1>Release, <1>StartLocked, <1>StartRefused,
     <1>StartResumes, <1>StartFindsExited, <1>Launch, <1>StartupFails,
     <1>StartupFailsDirty, <1>StartupEscapes, <1>Grace, <1>Exited, <1>Persist,
     <1>PersistFails, <1>Abort, <1>StopRecords, <1>StopResumes,
     <1>StopRefused, <1>FinalizeMarks, <1>Finalizes, <1>CancelLocked,
     <1>CancelRefused, <1>CancelJournals, <1>CancelRaises, <1>CancelDone,
     <1>CancelFails, <1>Kill

LEMMA StatusStays ==
    ASSUME AudioInv, NEW c \in Cmds, Step(c) \/ Kill(c)
    PROVE  \A d \in Cmds : Status(d)'
<1>ty. TypeOK /\ TypeOK'
  BY TypeStep DEF AudioInv
<1>mine. Mine(c) \in Recorders /\ Mine(c)[1] = c /\ Mine(c) # NoRec
  BY <1>ty, MineType
<1>hand. HandedOver(c).by = lock.by /\ HandedOver(c).rec = Mine(c)
  BY <1>ty, HandedOverIs
<1>Toggle. CASE Toggle(c)
  BY <1>ty, <1>mine, <1>hand, <1>Toggle, RecordingAssumption DEF Toggle, At,
     InProgress, envVars, AudioInv, TypeOK, Owner, Section, Status, Named
<1>Begin. CASE Begin(c)
  BY <1>ty, <1>mine, <1>hand, <1>Begin, RecordingAssumption DEF Begin, At,
     Goto, Exits, InProgress, envVars, AudioInv, TypeOK, Owner, Section,
     Status, Named
<1>Acquire. CASE Acquire(c)
  BY <1>ty, <1>mine, <1>hand, <1>Acquire, RecordingAssumption DEF Acquire, At,
     Goto, Available, Gone, Free, envVars, AudioInv, TypeOK, Owner, Section,
     Status, Named
<1>Refused. CASE Refused(c)
  BY <1>ty, <1>mine, <1>hand, <1>Refused, RecordingAssumption DEF Refused, At,
     Exits, Goto, envVars, AudioInv, TypeOK, Owner, Section, Status, Named
<1>FinalizeReleases. CASE FinalizeReleases(c)
  BY <1>ty, <1>mine, <1>hand, <1>FinalizeReleases, RecordingAssumption DEF
     FinalizeReleases, At, Goto, Removed, Free, envVars, AudioInv, TypeOK,
     Owner, Section, Status, Named
<1>Release. CASE Release(c)
  BY <1>ty, <1>mine, <1>hand, <1>Release, RecordingAssumption DEF Release, At,
     Exits, Goto, Removed, Free, envVars, AudioInv, TypeOK, Owner, Section,
     Status, Named
<1>StartLocked. CASE StartLocked(c)
  BY <1>ty, <1>mine, <1>hand, <1>StartLocked, ForgetsNoArtifact,
     RecordingAssumption DEF StartLocked, At, Goto, MayLaunch, envVars,
     AudioInv, TypeOK, Owner, Section, Status, Named
<1>StartRefused. CASE StartRefused(c)
  BY <1>ty, <1>mine, <1>hand, <1>StartRefused, RecordingAssumption DEF
     StartRefused, At, Return, Goto, envVars, AudioInv, TypeOK, Owner,
     Section, Status, Named
<1>StartResumes. CASE StartResumes(c)
  BY <1>ty, <1>mine, <1>hand, <1>StartResumes, RecordingAssumption DEF
     StartResumes, At, Goto, envVars, AudioInv, TypeOK, Owner, Section,
     Status, Named
<1>StartFindsExited. CASE StartFindsExited(c)
  BY <1>ty, <1>mine, <1>hand, <1>StartFindsExited, RecordingAssumption DEF
     StartFindsExited, At, Goto, Reconciles, Ends, CanReconcile, AudioInv,
     TypeOK, Owner, Section, Status, Named
<1>Launch. CASE Launch(c)
  BY <1>ty, <1>mine, <1>hand, <1>Launch, RecordingAssumption DEF Launch, At,
     Goto, AudioInv, TypeOK, Owner, Section, Status, Named
<1>StartupFails. CASE StartupFails(c)
  BY <1>ty, <1>mine, <1>hand, <1>StartupFails, RecordingAssumption DEF
     StartupFails, At, Ends, NextBackend, Goto, AudioInv, TypeOK, Owner,
     Section, Status, Named
<1>StartupFailsDirty. CASE StartupFailsDirty(c)
  BY <1>ty, <1>mine, <1>hand, <1>StartupFailsDirty, RecordingAssumption DEF
     StartupFailsDirty, At, Retain, Exits, Goto, envVars, AudioInv, TypeOK,
     Owner, Section, Status, Named
<1>StartupEscapes. CASE StartupEscapes(c)
  BY <1>ty, <1>mine, <1>hand, <1>StartupEscapes, RecordingAssumption DEF
     StartupEscapes, At, Return, Goto, envVars, AudioInv, TypeOK, Owner,
     Section, Status, Named
<1>Grace. CASE Grace(c)
  BY <1>ty, <1>mine, <1>hand, <1>Grace, RecordingAssumption DEF Grace, At,
     Goto, envVars, AudioInv, TypeOK, Owner, Section, Status, Named
<1>Exited. CASE Exited(c)
  BY <1>ty, <1>mine, <1>hand, <1>Exited, RecordingAssumption DEF Exited, At,
     Ends, NextBackend, Goto, Retain, Exits, AudioInv, TypeOK, Owner, Section,
     Status, Named
<1>Persist. CASE Persist(c)
  BY <1>ty, <1>mine, <1>hand, <1>Persist, RecordingAssumption DEF Persist, At,
     Goto, Store, envVars, AudioInv, TypeOK, Owner, Section, Status, Named
<1>PersistFails. CASE PersistFails(c)
  BY <1>ty, <1>mine, <1>hand, <1>PersistFails, RecordingAssumption DEF
     PersistFails, At, Goto, Store, envVars, AudioInv, TypeOK, Owner, Section,
     Status, Named
<1>Abort. CASE Abort(c)
  BY <1>ty, <1>mine, <1>hand, <1>Abort, RecordingAssumption DEF Abort, At,
     Goto, Ends, Retain, Exits, AudioInv, TypeOK, Owner, Section, Status,
     Named
<1>StopRecords. CASE StopRecords(c)
  BY <1>ty, <1>mine, <1>hand, <1>StopRecords, RecordingAssumption DEF
     StopRecords, At, Goto, Reconciles, Ends, CanReconcile, AudioInv, TypeOK,
     Owner, Section, Status, Named
<1>StopResumes. CASE StopResumes(c)
  BY <1>ty, <1>mine, <1>hand, <1>StopResumes, RecordingAssumption DEF
     StopResumes, At, Goto, envVars, AudioInv, TypeOK, Owner, Section, Status,
     Named
<1>StopRefused. CASE StopRefused(c)
  BY <1>ty, <1>mine, <1>hand, <1>StopRefused, RecordingAssumption DEF
     StopRefused, At, Return, Goto, envVars, AudioInv, TypeOK, Owner, Section,
     Status, Named
<1>FinalizeMarks. CASE FinalizeMarks(c)
  BY <1>ty, <1>mine, <1>hand, <1>FinalizeMarks, RecordingAssumption DEF
     FinalizeMarks, At, Goto, envVars, AudioInv, TypeOK, Owner, Section,
     Status, Named
<1>Finalizes. CASE Finalizes(c)
  BY <1>ty, <1>mine, <1>hand, <1>Finalizes, RecordingAssumption DEF Finalizes,
     At, Goto, AudioInv, TypeOK, Owner, Section, Status, Named
<1>CancelLocked. CASE CancelLocked(c)
  BY <1>ty, <1>mine, <1>hand, <1>CancelLocked, RecordingAssumption DEF
     CancelLocked, At, Goto, Reconciles, Ends, CanReconcile, AudioInv, TypeOK,
     Owner, Section, Status, Named
<1>CancelRefused. CASE CancelRefused(c)
  BY <1>ty, <1>mine, <1>hand, <1>CancelRefused, RecordingAssumption DEF
     CancelRefused, At, Return, Goto, envVars, AudioInv, TypeOK, Owner,
     Section, Status, Named
<1>CancelJournals. CASE CancelJournals(c)
  BY <1>ty, <1>mine, <1>hand, <1>CancelJournals, RecordingAssumption DEF
     CancelJournals, At, Goto, AudioInv, TypeOK, Owner, Section, Status, Named
<1>CancelRaises. CASE CancelRaises(c)
  BY <1>ty, <1>mine, <1>hand, <1>CancelRaises, RecordingAssumption DEF
     CancelRaises, Return, Goto, envVars, AudioInv, TypeOK, Owner, Section,
     Status, Named
<1>CancelDone. CASE CancelDone(c)
  BY <1>ty, <1>mine, <1>hand, <1>CancelDone, RecordingAssumption DEF
     CancelDone, At, Goto, Store, AudioInv, TypeOK, Owner, Section, Status,
     Named
<1>CancelFails. CASE CancelFails(c)
  BY <1>ty, <1>mine, <1>hand, <1>CancelFails, RecordingAssumption DEF
     CancelFails, At, Goto, envVars, AudioInv, TypeOK, Owner, Section, Status,
     Named
<1>Kill. CASE Kill(c)
  BY <1>ty, <1>mine, <1>hand, <1>Kill, RecordingAssumption DEF Kill, Exits,
     Goto, envVars, AudioInv, TypeOK, Owner, Section, Status, Named
<1> QED
  BY StepCases, <1>Toggle, <1>Begin, <1>Acquire, <1>Refused,
     <1>FinalizeReleases, <1>Release, <1>StartLocked, <1>StartRefused,
     <1>StartResumes, <1>StartFindsExited, <1>Launch, <1>StartupFails,
     <1>StartupFailsDirty, <1>StartupEscapes, <1>Grace, <1>Exited, <1>Persist,
     <1>PersistFails, <1>Abort, <1>StopRecords, <1>StopResumes,
     <1>StopRefused, <1>FinalizeMarks, <1>Finalizes, <1>CancelLocked,
     <1>CancelRefused, <1>CancelJournals, <1>CancelRaises, <1>CancelDone,
     <1>CancelFails, <1>Kill

LEMMA NamedStays ==
    ASSUME AudioInv, NEW c \in Cmds, Step(c) \/ Kill(c)
    PROVE  Named'
<1>ty. TypeOK /\ TypeOK'
  BY TypeStep DEF AudioInv
<1>mine. Mine(c) \in Recorders /\ Mine(c)[1] = c /\ Mine(c) # NoRec
  BY <1>ty, MineType
<1>hand. HandedOver(c).by = lock.by /\ HandedOver(c).rec = Mine(c)
  BY <1>ty, HandedOverIs
<1>Toggle. CASE Toggle(c)
  BY <1>ty, <1>mine, <1>hand, <1>Toggle, RecordingAssumption DEF Toggle, At,
     InProgress, envVars, AudioInv, TypeOK, Status, Named
<1>Begin. CASE Begin(c)
  BY <1>ty, <1>mine, <1>hand, <1>Begin, RecordingAssumption DEF Begin, At,
     Goto, Exits, InProgress, envVars, AudioInv, TypeOK, Status, Named
<1>Acquire. CASE Acquire(c)
  BY <1>ty, <1>mine, <1>hand, <1>Acquire, RecordingAssumption DEF Acquire, At,
     Goto, Available, Gone, Free, envVars, AudioInv, TypeOK, Status, Named
<1>Refused. CASE Refused(c)
  BY <1>ty, <1>mine, <1>hand, <1>Refused, RecordingAssumption DEF Refused, At,
     Exits, Goto, envVars, AudioInv, TypeOK, Status, Named
<1>FinalizeReleases. CASE FinalizeReleases(c)
  BY <1>ty, <1>mine, <1>hand, <1>FinalizeReleases, RecordingAssumption DEF
     FinalizeReleases, At, Goto, Removed, Free, envVars, AudioInv, TypeOK,
     Status, Named
<1>Release. CASE Release(c)
  BY <1>ty, <1>mine, <1>hand, <1>Release, RecordingAssumption DEF Release, At,
     Exits, Goto, Removed, Free, envVars, AudioInv, TypeOK, Status, Named
<1>StartLocked. CASE StartLocked(c)
  BY <1>ty, <1>mine, <1>hand, <1>StartLocked, ForgetsNoArtifact,
     RecordingAssumption DEF StartLocked, At, Goto, MayLaunch, envVars,
     AudioInv, TypeOK, Status, Named
<1>StartRefused. CASE StartRefused(c)
  BY <1>ty, <1>mine, <1>hand, <1>StartRefused, RecordingAssumption DEF
     StartRefused, At, Return, Goto, envVars, AudioInv, TypeOK, Status, Named
<1>StartResumes. CASE StartResumes(c)
  BY <1>ty, <1>mine, <1>hand, <1>StartResumes, RecordingAssumption DEF
     StartResumes, At, Goto, envVars, AudioInv, TypeOK, Status, Named
<1>StartFindsExited. CASE StartFindsExited(c)
  BY <1>ty, <1>mine, <1>hand, <1>StartFindsExited, RecordingAssumption DEF
     StartFindsExited, At, Goto, Reconciles, Ends, CanReconcile, AudioInv,
     TypeOK, Status, Named
<1>Launch. CASE Launch(c)
  BY <1>ty, <1>mine, <1>hand, <1>Launch, RecordingAssumption DEF Launch, At,
     Goto, AudioInv, TypeOK, Status, Named
<1>StartupFails. CASE StartupFails(c)
  BY <1>ty, <1>mine, <1>hand, <1>StartupFails, RecordingAssumption DEF
     StartupFails, At, Ends, NextBackend, Goto, AudioInv, TypeOK, Status,
     Named
<1>StartupFailsDirty. CASE StartupFailsDirty(c)
  BY <1>ty, <1>mine, <1>hand, <1>StartupFailsDirty, RecordingAssumption DEF
     StartupFailsDirty, At, Retain, Exits, Goto, envVars, AudioInv, TypeOK,
     Status, Named
<1>StartupEscapes. CASE StartupEscapes(c)
  BY <1>ty, <1>mine, <1>hand, <1>StartupEscapes, RecordingAssumption DEF
     StartupEscapes, At, Return, Goto, envVars, AudioInv, TypeOK, Status,
     Named
<1>Grace. CASE Grace(c)
  BY <1>ty, <1>mine, <1>hand, <1>Grace, RecordingAssumption DEF Grace, At,
     Goto, envVars, AudioInv, TypeOK, Status, Named
<1>Exited. CASE Exited(c)
  BY <1>ty, <1>mine, <1>hand, <1>Exited, RecordingAssumption DEF Exited, At,
     Ends, NextBackend, Goto, Retain, Exits, AudioInv, TypeOK, Status, Named
<1>Persist. CASE Persist(c)
  BY <1>ty, <1>mine, <1>hand, <1>Persist, RecordingAssumption DEF Persist, At,
     Goto, Store, envVars, AudioInv, TypeOK, Status, Named
<1>PersistFails. CASE PersistFails(c)
  BY <1>ty, <1>mine, <1>hand, <1>PersistFails, RecordingAssumption DEF
     PersistFails, At, Goto, Store, envVars, AudioInv, TypeOK, Status, Named
<1>Abort. CASE Abort(c)
  BY <1>ty, <1>mine, <1>hand, <1>Abort, RecordingAssumption DEF Abort, At,
     Goto, Ends, Retain, Exits, AudioInv, TypeOK, Status, Named
<1>StopRecords. CASE StopRecords(c)
  BY <1>ty, <1>mine, <1>hand, <1>StopRecords, RecordingAssumption DEF
     StopRecords, At, Goto, Reconciles, Ends, CanReconcile, AudioInv, TypeOK,
     Status, Named
<1>StopResumes. CASE StopResumes(c)
  BY <1>ty, <1>mine, <1>hand, <1>StopResumes, RecordingAssumption DEF
     StopResumes, At, Goto, envVars, AudioInv, TypeOK, Status, Named
<1>StopRefused. CASE StopRefused(c)
  BY <1>ty, <1>mine, <1>hand, <1>StopRefused, RecordingAssumption DEF
     StopRefused, At, Return, Goto, envVars, AudioInv, TypeOK, Status, Named
<1>FinalizeMarks. CASE FinalizeMarks(c)
  BY <1>ty, <1>mine, <1>hand, <1>FinalizeMarks, RecordingAssumption DEF
     FinalizeMarks, At, Goto, envVars, AudioInv, TypeOK, Status, Named
<1>Finalizes. CASE Finalizes(c)
  BY <1>ty, <1>mine, <1>hand, <1>Finalizes, RecordingAssumption DEF Finalizes,
     At, Goto, AudioInv, TypeOK, Status, Named
<1>CancelLocked. CASE CancelLocked(c)
  BY <1>ty, <1>mine, <1>hand, <1>CancelLocked, RecordingAssumption DEF
     CancelLocked, At, Goto, Reconciles, Ends, CanReconcile, AudioInv, TypeOK,
     Status, Named
<1>CancelRefused. CASE CancelRefused(c)
  BY <1>ty, <1>mine, <1>hand, <1>CancelRefused, RecordingAssumption DEF
     CancelRefused, At, Return, Goto, envVars, AudioInv, TypeOK, Status, Named
<1>CancelJournals. CASE CancelJournals(c)
  BY <1>ty, <1>mine, <1>hand, <1>CancelJournals, RecordingAssumption DEF
     CancelJournals, At, Goto, AudioInv, TypeOK, Status, Named
<1>CancelRaises. CASE CancelRaises(c)
  BY <1>ty, <1>mine, <1>hand, <1>CancelRaises, RecordingAssumption DEF
     CancelRaises, Return, Goto, envVars, AudioInv, TypeOK, Status, Named
<1>CancelDone. CASE CancelDone(c)
  BY <1>ty, <1>mine, <1>hand, <1>CancelDone, RecordingAssumption DEF
     CancelDone, At, Goto, Store, AudioInv, TypeOK, Status, Named
<1>CancelFails. CASE CancelFails(c)
  BY <1>ty, <1>mine, <1>hand, <1>CancelFails, RecordingAssumption DEF
     CancelFails, At, Goto, envVars, AudioInv, TypeOK, Status, Named
<1>Kill. CASE Kill(c)
  BY <1>ty, <1>mine, <1>hand, <1>Kill, RecordingAssumption DEF Kill, Exits,
     Goto, envVars, AudioInv, TypeOK, Status, Named
<1> QED
  BY StepCases, <1>Toggle, <1>Begin, <1>Acquire, <1>Refused,
     <1>FinalizeReleases, <1>Release, <1>StartLocked, <1>StartRefused,
     <1>StartResumes, <1>StartFindsExited, <1>Launch, <1>StartupFails,
     <1>StartupFailsDirty, <1>StartupEscapes, <1>Grace, <1>Exited, <1>Persist,
     <1>PersistFails, <1>Abort, <1>StopRecords, <1>StopResumes,
     <1>StopRefused, <1>FinalizeMarks, <1>Finalizes, <1>CancelLocked,
     <1>CancelRefused, <1>CancelJournals, <1>CancelRaises, <1>CancelDone,
     <1>CancelFails, <1>Kill

LEMMA AudioStaysOfRec ==
    ASSUME AudioInv, NEW c \in Cmds, Step(c) \/ Kill(c)
    PROVE  AudioIsOfRec' /\ AudioWasLaunched'
<1>ty. TypeOK /\ TypeOK'
  BY TypeStep DEF AudioInv
<1>mine. Mine(c) \in Recorders /\ Mine(c)[1] = c /\ Mine(c) # NoRec
  BY <1>ty, MineType
<1>hand. HandedOver(c).by = lock.by /\ HandedOver(c).rec = Mine(c)
  BY <1>ty, HandedOverIs
<1>Toggle. CASE Toggle(c)
  BY <1>ty, <1>mine, <1>hand, <1>Toggle, RecordingAssumption DEF Toggle, At,
     InProgress, envVars, Mine, AudioInv, TypeOK, Named, AudioIsOfRec,
     AudioWasLaunched, Alive, Launched, StartingSteps
<1>Begin. CASE Begin(c)
  BY <1>ty, <1>mine, <1>hand, <1>Begin, RecordingAssumption DEF Begin, At,
     Goto, Exits, InProgress, envVars, Mine, AudioInv, TypeOK, Named,
     AudioIsOfRec, AudioWasLaunched, Alive, Launched, StartingSteps
<1>Acquire. CASE Acquire(c)
  BY <1>ty, <1>mine, <1>hand, <1>Acquire, RecordingAssumption DEF Acquire, At,
     Goto, Available, Gone, Free, envVars, Mine, AudioInv, TypeOK, Named,
     AudioIsOfRec, AudioWasLaunched, Alive, Launched, StartingSteps
<1>Refused. CASE Refused(c)
  BY <1>ty, <1>mine, <1>hand, <1>Refused, RecordingAssumption DEF Refused, At,
     Exits, Goto, envVars, Mine, AudioInv, TypeOK, Named, AudioIsOfRec,
     AudioWasLaunched, Alive, Launched, StartingSteps
<1>FinalizeReleases. CASE FinalizeReleases(c)
  BY <1>ty, <1>mine, <1>hand, <1>FinalizeReleases, RecordingAssumption DEF
     FinalizeReleases, At, Goto, Removed, Free, envVars, Mine, AudioInv,
     TypeOK, Named, AudioIsOfRec, AudioWasLaunched, Alive, Launched,
     StartingSteps
<1>Release. CASE Release(c)
  BY <1>ty, <1>mine, <1>hand, <1>Release, RecordingAssumption DEF Release, At,
     Exits, Goto, Removed, Free, envVars, Mine, AudioInv, TypeOK, Named,
     AudioIsOfRec, AudioWasLaunched, Alive, Launched, StartingSteps
<1>StartLocked. CASE StartLocked(c)
  BY <1>ty, <1>mine, <1>hand, <1>StartLocked, ForgetsNoArtifact,
     RecordingAssumption DEF StartLocked, At, Goto, MayLaunch, envVars, Mine,
     AudioInv, TypeOK, Named, AudioIsOfRec, AudioWasLaunched, Alive, Launched,
     StartingSteps
<1>StartRefused. CASE StartRefused(c)
  BY <1>ty, <1>mine, <1>hand, <1>StartRefused, RecordingAssumption DEF
     StartRefused, At, Return, Goto, envVars, Mine, AudioInv, TypeOK, Named,
     AudioIsOfRec, AudioWasLaunched, Alive, Launched, StartingSteps
<1>StartResumes. CASE StartResumes(c)
  BY <1>ty, <1>mine, <1>hand, <1>StartResumes, RecordingAssumption DEF
     StartResumes, At, Goto, envVars, Mine, AudioInv, TypeOK, Named,
     AudioIsOfRec, AudioWasLaunched, Alive, Launched, StartingSteps
<1>StartFindsExited. CASE StartFindsExited(c)
  BY <1>ty, <1>mine, <1>hand, <1>StartFindsExited, RecordingAssumption DEF
     StartFindsExited, At, Goto, Reconciles, Ends, CanReconcile, Mine,
     AudioInv, TypeOK, Named, AudioIsOfRec, AudioWasLaunched, Alive, Launched,
     StartingSteps
<1>Launch. CASE Launch(c)
  <2>1. try[c] \in 1..Backends /\ Mine(c) = <<c, try[c]>> /\ Backends \in Nat
    BY <1>ty, RecordingAssumption DEF TypeOK, Mine
  <2>2. proc[Mine(c)] = "none"
    BY <1>Launch, <2>1 DEF Launch, At, AudioInv, Fresh
  <2>3. store.audio # Mine(c)
    BY <1>mine, <2>2 DEF AudioInv, AudioWasLaunched
  <2>4. /\ store' = store /\ proc \in [Recorders -> {"none", "live", "orphans", "gone", "reused"}]
        /\ proc' = [proc EXCEPT ![Mine(c)] = "live"]
    BY <1>ty, <1>Launch DEF Launch, TypeOK
  <2>5. store.audio # NoRec => store.audio \in Recorders
    BY <1>ty DEF TypeOK
  <2> QED
    BY <1>mine, <2>3, <2>4, <2>5 DEF AudioInv, AudioIsOfRec, AudioWasLaunched, Alive
<1>StartupFails. CASE StartupFails(c)
  BY <1>ty, <1>mine, <1>hand, <1>StartupFails, RecordingAssumption DEF
     StartupFails, At, Mine, Ends, NextBackend, Goto, AudioInv, TypeOK, Named,
     AudioIsOfRec, AudioWasLaunched, Alive, Launched, StartingSteps
<1>StartupFailsDirty. CASE StartupFailsDirty(c)
  BY <1>ty, <1>mine, <1>hand, <1>StartupFailsDirty, RecordingAssumption DEF
     StartupFailsDirty, At, Retain, Exits, Goto, Mine, envVars, AudioInv,
     TypeOK, Named, AudioIsOfRec, AudioWasLaunched, Alive, Launched,
     StartingSteps
<1>StartupEscapes. CASE StartupEscapes(c)
  BY <1>ty, <1>mine, <1>hand, <1>StartupEscapes, RecordingAssumption DEF
     StartupEscapes, At, Return, Goto, envVars, Mine, AudioInv, TypeOK, Named,
     AudioIsOfRec, AudioWasLaunched, Alive, Launched, StartingSteps
<1>Grace. CASE Grace(c)
  BY <1>ty, <1>mine, <1>hand, <1>Grace, RecordingAssumption DEF Grace, At,
     Goto, Mine, envVars, AudioInv, TypeOK, Named, AudioIsOfRec,
     AudioWasLaunched, Alive, Launched, StartingSteps
<1>Exited. CASE Exited(c)
  BY <1>ty, <1>mine, <1>hand, <1>Exited, RecordingAssumption DEF Exited, At,
     Mine, Ends, NextBackend, Goto, Retain, Exits, AudioInv, TypeOK, Named,
     AudioIsOfRec, AudioWasLaunched, Alive, Launched, StartingSteps
<1>Persist. CASE Persist(c)
  BY <1>ty, <1>mine, <1>hand, <1>Persist, RecordingAssumption DEF Persist, At,
     Goto, Mine, Store, envVars, AudioInv, TypeOK, Named, AudioIsOfRec,
     AudioWasLaunched, Alive, Launched, StartingSteps
<1>PersistFails. CASE PersistFails(c)
  BY <1>ty, <1>mine, <1>hand, <1>PersistFails, RecordingAssumption DEF
     PersistFails, At, Goto, Mine, Store, envVars, AudioInv, TypeOK, Named,
     AudioIsOfRec, AudioWasLaunched, Alive, Launched, StartingSteps
<1>Abort. CASE Abort(c)
  BY <1>ty, <1>mine, <1>hand, <1>Abort, RecordingAssumption DEF Abort, At,
     Goto, Mine, Ends, Retain, Exits, AudioInv, TypeOK, Named, AudioIsOfRec,
     AudioWasLaunched, Alive, Launched, StartingSteps
<1>StopRecords. CASE StopRecords(c)
  BY <1>ty, <1>mine, <1>hand, <1>StopRecords, RecordingAssumption DEF
     StopRecords, At, Goto, Reconciles, Ends, CanReconcile, Mine, AudioInv,
     TypeOK, Named, AudioIsOfRec, AudioWasLaunched, Alive, Launched,
     StartingSteps
<1>StopResumes. CASE StopResumes(c)
  BY <1>ty, <1>mine, <1>hand, <1>StopResumes, RecordingAssumption DEF
     StopResumes, At, Goto, envVars, Mine, AudioInv, TypeOK, Named,
     AudioIsOfRec, AudioWasLaunched, Alive, Launched, StartingSteps
<1>StopRefused. CASE StopRefused(c)
  BY <1>ty, <1>mine, <1>hand, <1>StopRefused, RecordingAssumption DEF
     StopRefused, At, Return, Goto, envVars, Mine, AudioInv, TypeOK, Named,
     AudioIsOfRec, AudioWasLaunched, Alive, Launched, StartingSteps
<1>FinalizeMarks. CASE FinalizeMarks(c)
  BY <1>ty, <1>mine, <1>hand, <1>FinalizeMarks, RecordingAssumption DEF
     FinalizeMarks, At, Goto, envVars, Mine, AudioInv, TypeOK, Named,
     AudioIsOfRec, AudioWasLaunched, Alive, Launched, StartingSteps
<1>Finalizes. CASE Finalizes(c)
  BY <1>ty, <1>mine, <1>hand, <1>Finalizes, RecordingAssumption DEF Finalizes,
     At, Goto, Mine, AudioInv, TypeOK, Named, AudioIsOfRec, AudioWasLaunched,
     Alive, Launched, StartingSteps
<1>CancelLocked. CASE CancelLocked(c)
  BY <1>ty, <1>mine, <1>hand, <1>CancelLocked, RecordingAssumption DEF
     CancelLocked, At, Goto, Reconciles, Ends, CanReconcile, Mine, AudioInv,
     TypeOK, Named, AudioIsOfRec, AudioWasLaunched, Alive, Launched,
     StartingSteps
<1>CancelRefused. CASE CancelRefused(c)
  BY <1>ty, <1>mine, <1>hand, <1>CancelRefused, RecordingAssumption DEF
     CancelRefused, At, Return, Goto, envVars, Mine, AudioInv, TypeOK, Named,
     AudioIsOfRec, AudioWasLaunched, Alive, Launched, StartingSteps
<1>CancelJournals. CASE CancelJournals(c)
  BY <1>ty, <1>mine, <1>hand, <1>CancelJournals, RecordingAssumption DEF
     CancelJournals, At, Goto, Mine, AudioInv, TypeOK, Named, AudioIsOfRec,
     AudioWasLaunched, Alive, Launched, StartingSteps
<1>CancelRaises. CASE CancelRaises(c)
  BY <1>ty, <1>mine, <1>hand, <1>CancelRaises, RecordingAssumption DEF
     CancelRaises, Return, Goto, envVars, Mine, AudioInv, TypeOK, Named,
     AudioIsOfRec, AudioWasLaunched, Alive, Launched, StartingSteps
<1>CancelDone. CASE CancelDone(c)
  BY <1>ty, <1>mine, <1>hand, <1>CancelDone, RecordingAssumption DEF
     CancelDone, At, Goto, Store, Mine, AudioInv, TypeOK, Named, AudioIsOfRec,
     AudioWasLaunched, Alive, Launched, StartingSteps
<1>CancelFails. CASE CancelFails(c)
  BY <1>ty, <1>mine, <1>hand, <1>CancelFails, RecordingAssumption DEF
     CancelFails, At, Goto, envVars, Mine, AudioInv, TypeOK, Named,
     AudioIsOfRec, AudioWasLaunched, Alive, Launched, StartingSteps
<1>Kill. CASE Kill(c)
  BY <1>ty, <1>mine, <1>hand, <1>Kill, RecordingAssumption DEF Kill, Exits,
     Goto, envVars, Mine, AudioInv, TypeOK, Named, AudioIsOfRec,
     AudioWasLaunched, Alive, Launched, StartingSteps
<1> QED
  BY StepCases, <1>Toggle, <1>Begin, <1>Acquire, <1>Refused,
     <1>FinalizeReleases, <1>Release, <1>StartLocked, <1>StartRefused,
     <1>StartResumes, <1>StartFindsExited, <1>Launch, <1>StartupFails,
     <1>StartupFailsDirty, <1>StartupEscapes, <1>Grace, <1>Exited, <1>Persist,
     <1>PersistFails, <1>Abort, <1>StopRecords, <1>StopResumes,
     <1>StopRefused, <1>FinalizeMarks, <1>Finalizes, <1>CancelLocked,
     <1>CancelRefused, <1>CancelJournals, <1>CancelRaises, <1>CancelDone,
     <1>CancelFails, <1>Kill

LEMMA FreshStays ==
    ASSUME AudioInv, NEW c \in Cmds, Step(c) \/ Kill(c)
    PROVE  \A d \in Cmds : Fresh(d)'
<1>ty. TypeOK /\ TypeOK'
  BY TypeStep DEF AudioInv
<1>mine. Mine(c) \in Recorders /\ Mine(c)[1] = c /\ Mine(c) # NoRec
  BY <1>ty, MineType
<1>hand. HandedOver(c).by = lock.by /\ HandedOver(c).rec = Mine(c)
  BY <1>ty, HandedOverIs
<1>Toggle. CASE Toggle(c)
  BY <1>ty, <1>mine, <1>hand, <1>Toggle, RecordingAssumption DEF Toggle, At,
     InProgress, envVars, AudioInv, TypeOK, Fresh, Recorders
<1>Begin. CASE Begin(c)
  <2>1. proc' = proc /\ try \in [Cmds -> 1..Backends]
    BY <1>ty, <1>Begin DEF Begin, envVars, TypeOK
  <2>2. /\ pc'[c] = "end" \/ (pc'[c] = "acquire" /\ try' = try /\ pc[c] = "begin")
        /\ \A d \in Cmds : d # c => pc'[d] = pc[d] /\ try'[d] = try[d]
    BY <1>ty, <1>Begin DEF Begin, At, Goto, Exits, TypeOK
  <2>3. ASSUME NEW d \in Cmds PROVE Fresh(d)'
    BY <2>1, <2>2 DEF AudioInv, Fresh
  <2> QED
    BY <2>3
<1>Acquire. CASE Acquire(c)
  BY <1>ty, <1>mine, <1>hand, <1>Acquire, RecordingAssumption DEF Acquire, At,
     Goto, Available, Gone, Free, envVars, AudioInv, TypeOK, Fresh, Recorders
<1>Refused. CASE Refused(c)
  BY <1>ty, <1>mine, <1>hand, <1>Refused, RecordingAssumption DEF Refused, At,
     Exits, Goto, envVars, AudioInv, TypeOK, Fresh, Recorders
<1>FinalizeReleases. CASE FinalizeReleases(c)
  BY <1>ty, <1>mine, <1>hand, <1>FinalizeReleases, RecordingAssumption DEF
     FinalizeReleases, At, Goto, Removed, Free, envVars, AudioInv, TypeOK,
     Fresh, Recorders
<1>Release. CASE Release(c)
  BY <1>ty, <1>mine, <1>hand, <1>Release, RecordingAssumption DEF Release, At,
     Exits, Goto, Removed, Free, envVars, AudioInv, TypeOK, Fresh, Recorders
<1>StartLocked. CASE StartLocked(c)
  BY <1>ty, <1>mine, <1>hand, <1>StartLocked, ForgetsNoArtifact,
     RecordingAssumption DEF StartLocked, At, Goto, MayLaunch, envVars,
     AudioInv, TypeOK, Fresh, Recorders
<1>StartRefused. CASE StartRefused(c)
  BY <1>ty, <1>mine, <1>hand, <1>StartRefused, RecordingAssumption DEF
     StartRefused, At, Return, Goto, envVars, AudioInv, TypeOK, Fresh,
     Recorders
<1>StartResumes. CASE StartResumes(c)
  BY <1>ty, <1>mine, <1>hand, <1>StartResumes, RecordingAssumption DEF
     StartResumes, At, Goto, envVars, AudioInv, TypeOK, Fresh, Recorders
<1>StartFindsExited. CASE StartFindsExited(c)
  BY <1>ty, <1>mine, <1>hand, <1>StartFindsExited, RecordingAssumption DEF
     StartFindsExited, At, Goto, Reconciles, Ends, CanReconcile, AudioInv,
     TypeOK, Fresh, Recorders
<1>Launch. CASE Launch(c)
  <2>1. try[c] \in 1..Backends /\ Mine(c) = <<c, try[c]>> /\ Backends \in Nat
    BY <1>ty, RecordingAssumption DEF TypeOK, Mine
  <2>2. ASSUME NEW d \in Cmds, d # c PROVE Fresh(d)'
    BY <1>ty, <1>mine, <1>Launch, <2>1, <2>2 DEF Launch, At, Goto, Exits, Retain, NextBackend, Ends, envVars, AudioInv, TypeOK, Fresh, Recorders
  <2>3. /\ \A k \in 1..Backends : k # try[c] => proc'[<<c, k>>] = proc[<<c, k>>]
        /\ \A k \in 1..Backends : k > try[c] => proc[<<c, k>>] = "none"
        /\ pc'[c] = "startup" /\ try' = try
    BY <1>ty, <1>Launch, <2>1 DEF Launch, At, Goto, AudioInv, TypeOK, Fresh, Recorders
  <2>4. Fresh(c)'
    BY <2>1, <2>3 DEF Fresh
  <2> QED
    BY <2>2, <2>4
<1>StartupFails. CASE StartupFails(c)
  <2>1. try[c] \in 1..Backends /\ Mine(c) = <<c, try[c]>> /\ Backends \in Nat
    BY <1>ty, RecordingAssumption DEF TypeOK, Mine
  <2>2. ASSUME NEW d \in Cmds, d # c PROVE Fresh(d)'
    BY <1>ty, <1>mine, <1>StartupFails, <2>1, <2>2 DEF StartupFails, At, Goto, Exits, Retain, NextBackend, Ends, envVars, AudioInv, TypeOK, Fresh, Recorders
  <2>3. /\ proc[<<c, try[c]>>] # "none"
        /\ \A k \in 1..Backends : k # try[c] => proc'[<<c, k>>] = proc[<<c, k>>]
        /\ \A k \in 1..Backends : k > try[c] => proc[<<c, k>>] = "none"
    BY <1>ty, <1>StartupFails, <2>1 DEF StartupFails, At, Ends, Retain, AudioInv, TypeOK, Fresh, Launched, StartingSteps, Recorders
  <2>4. \/ pc'[c] = "launch" /\ try'[c] = try[c] + 1 /\ try' = [try EXCEPT ![c] = try[c] + 1]
        \/ pc'[c] = "finally" /\ try'[c] = try[c]
        \/ pc'[c] = "end"
    BY <1>ty, <1>StartupFails DEF StartupFails, NextBackend, Goto, Retain, Exits, TypeOK
  <2>5. Fresh(c)'
    BY <2>1, <2>3, <2>4 DEF Fresh
  <2> QED
    BY <2>2, <2>5
<1>StartupFailsDirty. CASE StartupFailsDirty(c)
  BY <1>ty, <1>mine, <1>hand, <1>StartupFailsDirty, RecordingAssumption DEF
     StartupFailsDirty, At, Retain, Exits, Goto, envVars, AudioInv, TypeOK,
     Fresh, Recorders
<1>StartupEscapes. CASE StartupEscapes(c)
  BY <1>ty, <1>mine, <1>hand, <1>StartupEscapes, RecordingAssumption DEF
     StartupEscapes, At, Return, Goto, envVars, AudioInv, TypeOK, Fresh,
     Recorders
<1>Grace. CASE Grace(c)
  BY <1>ty, <1>mine, <1>hand, <1>Grace, RecordingAssumption DEF Grace, At,
     Goto, envVars, AudioInv, TypeOK, Fresh, Recorders
<1>Exited. CASE Exited(c)
  <2>1. try[c] \in 1..Backends /\ Mine(c) = <<c, try[c]>> /\ Backends \in Nat
    BY <1>ty, RecordingAssumption DEF TypeOK, Mine
  <2>2. ASSUME NEW d \in Cmds, d # c PROVE Fresh(d)'
    BY <1>ty, <1>mine, <1>Exited, <2>1, <2>2 DEF Exited, At, Goto, Exits, Retain, NextBackend, Ends, envVars, AudioInv, TypeOK, Fresh, Recorders
  <2>3. /\ proc[<<c, try[c]>>] # "none"
        /\ \A k \in 1..Backends : k # try[c] => proc'[<<c, k>>] = proc[<<c, k>>]
        /\ \A k \in 1..Backends : k > try[c] => proc[<<c, k>>] = "none"
    BY <1>ty, <1>Exited, <2>1 DEF Exited, At, Ends, Retain, AudioInv, TypeOK, Fresh, Launched, StartingSteps, Recorders
  <2>4. \/ pc'[c] = "launch" /\ try'[c] = try[c] + 1 /\ try' = [try EXCEPT ![c] = try[c] + 1]
        \/ pc'[c] = "finally" /\ try'[c] = try[c]
        \/ pc'[c] = "end"
    BY <1>ty, <1>Exited DEF Exited, NextBackend, Goto, Retain, Exits, TypeOK
  <2>5. Fresh(c)'
    BY <2>1, <2>3, <2>4 DEF Fresh
  <2> QED
    BY <2>2, <2>5
<1>Persist. CASE Persist(c)
  BY <1>ty, <1>mine, <1>hand, <1>Persist, RecordingAssumption DEF Persist, At,
     Goto, Store, envVars, AudioInv, TypeOK, Fresh, Recorders
<1>PersistFails. CASE PersistFails(c)
  BY <1>ty, <1>mine, <1>hand, <1>PersistFails, RecordingAssumption DEF
     PersistFails, At, Goto, Store, envVars, AudioInv, TypeOK, Fresh,
     Recorders
<1>Abort. CASE Abort(c)
  <2>1. try[c] \in 1..Backends /\ Mine(c) = <<c, try[c]>> /\ Backends \in Nat
    BY <1>ty, RecordingAssumption DEF TypeOK, Mine
  <2>2. ASSUME NEW d \in Cmds, d # c PROVE Fresh(d)'
    BY <1>ty, <1>mine, <1>Abort, <2>1, <2>2 DEF Abort, At, Goto, Exits, Retain, NextBackend, Ends, envVars, AudioInv, TypeOK, Fresh, Recorders
  <2>3. /\ proc[<<c, try[c]>>] # "none"
        /\ \A k \in 1..Backends : k # try[c] => proc'[<<c, k>>] = proc[<<c, k>>]
        /\ \A k \in 1..Backends : k > try[c] => proc[<<c, k>>] = "none"
    BY <1>ty, <1>Abort, <2>1 DEF Abort, At, Ends, Retain, AudioInv, TypeOK, Fresh, Launched, StartingSteps, Recorders
  <2>4. \/ pc'[c] = "launch" /\ try'[c] = try[c] + 1 /\ try' = [try EXCEPT ![c] = try[c] + 1]
        \/ pc'[c] = "finally" /\ try'[c] = try[c]
        \/ pc'[c] = "end"
    BY <1>ty, <1>Abort DEF Abort, Goto, Retain, Exits, TypeOK
  <2>5. Fresh(c)'
    BY <2>1, <2>3, <2>4 DEF Fresh
  <2> QED
    BY <2>2, <2>5
<1>StopRecords. CASE StopRecords(c)
  BY <1>ty, <1>mine, <1>hand, <1>StopRecords, RecordingAssumption DEF
     StopRecords, At, Goto, Reconciles, Ends, CanReconcile, AudioInv, TypeOK,
     Fresh, Recorders
<1>StopResumes. CASE StopResumes(c)
  BY <1>ty, <1>mine, <1>hand, <1>StopResumes, RecordingAssumption DEF
     StopResumes, At, Goto, envVars, AudioInv, TypeOK, Fresh, Recorders
<1>StopRefused. CASE StopRefused(c)
  BY <1>ty, <1>mine, <1>hand, <1>StopRefused, RecordingAssumption DEF
     StopRefused, At, Return, Goto, envVars, AudioInv, TypeOK, Fresh,
     Recorders
<1>FinalizeMarks. CASE FinalizeMarks(c)
  BY <1>ty, <1>mine, <1>hand, <1>FinalizeMarks, RecordingAssumption DEF
     FinalizeMarks, At, Goto, envVars, AudioInv, TypeOK, Fresh, Recorders
<1>Finalizes. CASE Finalizes(c)
  BY <1>ty, <1>mine, <1>hand, <1>Finalizes, RecordingAssumption DEF Finalizes,
     At, Goto, AudioInv, TypeOK, Fresh, Recorders
<1>CancelLocked. CASE CancelLocked(c)
  BY <1>ty, <1>mine, <1>hand, <1>CancelLocked, RecordingAssumption DEF
     CancelLocked, At, Goto, Reconciles, Ends, CanReconcile, AudioInv, TypeOK,
     Fresh, Recorders
<1>CancelRefused. CASE CancelRefused(c)
  BY <1>ty, <1>mine, <1>hand, <1>CancelRefused, RecordingAssumption DEF
     CancelRefused, At, Return, Goto, envVars, AudioInv, TypeOK, Fresh,
     Recorders
<1>CancelJournals. CASE CancelJournals(c)
  BY <1>ty, <1>mine, <1>hand, <1>CancelJournals, RecordingAssumption DEF
     CancelJournals, At, Goto, AudioInv, TypeOK, Fresh, Recorders
<1>CancelRaises. CASE CancelRaises(c)
  BY <1>ty, <1>mine, <1>hand, <1>CancelRaises, RecordingAssumption DEF
     CancelRaises, Return, Goto, envVars, AudioInv, TypeOK, Fresh, Recorders
<1>CancelDone. CASE CancelDone(c)
  BY <1>ty, <1>mine, <1>hand, <1>CancelDone, RecordingAssumption DEF
     CancelDone, At, Goto, Store, AudioInv, TypeOK, Fresh, Recorders
<1>CancelFails. CASE CancelFails(c)
  BY <1>ty, <1>mine, <1>hand, <1>CancelFails, RecordingAssumption DEF
     CancelFails, At, Goto, envVars, AudioInv, TypeOK, Fresh, Recorders
<1>Kill. CASE Kill(c)
  BY <1>ty, <1>mine, <1>hand, <1>Kill, RecordingAssumption DEF Kill, Exits,
     Goto, envVars, AudioInv, TypeOK, Fresh, Recorders
<1> QED
  BY StepCases, <1>Toggle, <1>Begin, <1>Acquire, <1>Refused,
     <1>FinalizeReleases, <1>Release, <1>StartLocked, <1>StartRefused,
     <1>StartResumes, <1>StartFindsExited, <1>Launch, <1>StartupFails,
     <1>StartupFailsDirty, <1>StartupEscapes, <1>Grace, <1>Exited, <1>Persist,
     <1>PersistFails, <1>Abort, <1>StopRecords, <1>StopResumes,
     <1>StopRefused, <1>FinalizeMarks, <1>Finalizes, <1>CancelLocked,
     <1>CancelRefused, <1>CancelJournals, <1>CancelRaises, <1>CancelDone,
     <1>CancelFails, <1>Kill

LEMMA LaunchedStays ==
    ASSUME AudioInv, NEW c \in Cmds, Step(c) \/ Kill(c)
    PROVE  \A d \in Cmds : Launched(d)'
<1>ty. TypeOK /\ TypeOK'
  BY TypeStep DEF AudioInv
<1>mine. Mine(c) \in Recorders /\ Mine(c)[1] = c /\ Mine(c) # NoRec
  BY <1>ty, MineType
<1>hand. HandedOver(c).by = lock.by /\ HandedOver(c).rec = Mine(c)
  BY <1>ty, HandedOverIs
<1>Toggle. CASE Toggle(c)
  BY <1>ty, <1>mine, <1>hand, <1>Toggle, RecordingAssumption DEF Toggle, At,
     InProgress, envVars, AudioInv, TypeOK, Launched, StartingSteps,
     Recorders, Mine
<1>Begin. CASE Begin(c)
  BY <1>ty, <1>mine, <1>hand, <1>Begin, RecordingAssumption DEF Begin, At,
     Goto, Exits, InProgress, envVars, AudioInv, TypeOK, Launched,
     StartingSteps, Recorders, Mine
<1>Acquire. CASE Acquire(c)
  BY <1>ty, <1>mine, <1>hand, <1>Acquire, RecordingAssumption DEF Acquire, At,
     Goto, Available, Gone, Free, envVars, AudioInv, TypeOK, Launched,
     StartingSteps, Recorders, Mine
<1>Refused. CASE Refused(c)
  BY <1>ty, <1>mine, <1>hand, <1>Refused, RecordingAssumption DEF Refused, At,
     Exits, Goto, envVars, AudioInv, TypeOK, Launched, StartingSteps,
     Recorders, Mine
<1>FinalizeReleases. CASE FinalizeReleases(c)
  BY <1>ty, <1>mine, <1>hand, <1>FinalizeReleases, RecordingAssumption DEF
     FinalizeReleases, At, Goto, Removed, Free, envVars, AudioInv, TypeOK,
     Launched, StartingSteps, Recorders, Mine
<1>Release. CASE Release(c)
  BY <1>ty, <1>mine, <1>hand, <1>Release, RecordingAssumption DEF Release, At,
     Exits, Goto, Removed, Free, envVars, AudioInv, TypeOK, Launched,
     StartingSteps, Recorders, Mine
<1>StartLocked. CASE StartLocked(c)
  BY <1>ty, <1>mine, <1>hand, <1>StartLocked, ForgetsNoArtifact,
     RecordingAssumption DEF StartLocked, At, Goto, MayLaunch, envVars,
     AudioInv, TypeOK, Launched, StartingSteps, Recorders, Mine
<1>StartRefused. CASE StartRefused(c)
  BY <1>ty, <1>mine, <1>hand, <1>StartRefused, RecordingAssumption DEF
     StartRefused, At, Return, Goto, envVars, AudioInv, TypeOK, Launched,
     StartingSteps, Recorders, Mine
<1>StartResumes. CASE StartResumes(c)
  BY <1>ty, <1>mine, <1>hand, <1>StartResumes, RecordingAssumption DEF
     StartResumes, At, Goto, envVars, AudioInv, TypeOK, Launched,
     StartingSteps, Recorders, Mine
<1>StartFindsExited. CASE StartFindsExited(c)
  BY <1>ty, <1>mine, <1>hand, <1>StartFindsExited, RecordingAssumption DEF
     StartFindsExited, At, Goto, Reconciles, Ends, CanReconcile, AudioInv,
     TypeOK, Launched, StartingSteps, Recorders, Mine
<1>Launch. CASE Launch(c)
  BY <1>ty, <1>mine, <1>hand, <1>Launch, RecordingAssumption DEF Launch, At,
     Goto, Mine, AudioInv, TypeOK, Launched, StartingSteps, Recorders
<1>StartupFails. CASE StartupFails(c)
  BY <1>ty, <1>mine, <1>hand, <1>StartupFails, RecordingAssumption DEF
     StartupFails, At, Mine, Ends, NextBackend, Goto, AudioInv, TypeOK,
     Launched, StartingSteps, Recorders
<1>StartupFailsDirty. CASE StartupFailsDirty(c)
  BY <1>ty, <1>mine, <1>hand, <1>StartupFailsDirty, RecordingAssumption DEF
     StartupFailsDirty, At, Retain, Exits, Goto, Mine, envVars, AudioInv,
     TypeOK, Launched, StartingSteps, Recorders
<1>StartupEscapes. CASE StartupEscapes(c)
  BY <1>ty, <1>mine, <1>hand, <1>StartupEscapes, RecordingAssumption DEF
     StartupEscapes, At, Return, Goto, envVars, AudioInv, TypeOK, Launched,
     StartingSteps, Recorders, Mine
<1>Grace. CASE Grace(c)
  BY <1>ty, <1>mine, <1>hand, <1>Grace, RecordingAssumption DEF Grace, At,
     Goto, Mine, envVars, AudioInv, TypeOK, Launched, StartingSteps, Recorders
<1>Exited. CASE Exited(c)
  BY <1>ty, <1>mine, <1>hand, <1>Exited, RecordingAssumption DEF Exited, At,
     Mine, Ends, NextBackend, Goto, Retain, Exits, AudioInv, TypeOK, Launched,
     StartingSteps, Recorders
<1>Persist. CASE Persist(c)
  BY <1>ty, <1>mine, <1>hand, <1>Persist, RecordingAssumption DEF Persist, At,
     Goto, Mine, Store, envVars, AudioInv, TypeOK, Launched, StartingSteps,
     Recorders
<1>PersistFails. CASE PersistFails(c)
  BY <1>ty, <1>mine, <1>hand, <1>PersistFails, RecordingAssumption DEF
     PersistFails, At, Goto, Mine, Store, envVars, AudioInv, TypeOK, Launched,
     StartingSteps, Recorders
<1>Abort. CASE Abort(c)
  BY <1>ty, <1>mine, <1>hand, <1>Abort, RecordingAssumption DEF Abort, At,
     Goto, Mine, Ends, Retain, Exits, AudioInv, TypeOK, Launched,
     StartingSteps, Recorders
<1>StopRecords. CASE StopRecords(c)
  BY <1>ty, <1>mine, <1>hand, <1>StopRecords, RecordingAssumption DEF
     StopRecords, At, Goto, Reconciles, Ends, CanReconcile, AudioInv, TypeOK,
     Launched, StartingSteps, Recorders, Mine
<1>StopResumes. CASE StopResumes(c)
  BY <1>ty, <1>mine, <1>hand, <1>StopResumes, RecordingAssumption DEF
     StopResumes, At, Goto, envVars, AudioInv, TypeOK, Launched,
     StartingSteps, Recorders, Mine
<1>StopRefused. CASE StopRefused(c)
  BY <1>ty, <1>mine, <1>hand, <1>StopRefused, RecordingAssumption DEF
     StopRefused, At, Return, Goto, envVars, AudioInv, TypeOK, Launched,
     StartingSteps, Recorders, Mine
<1>FinalizeMarks. CASE FinalizeMarks(c)
  BY <1>ty, <1>mine, <1>hand, <1>FinalizeMarks, RecordingAssumption DEF
     FinalizeMarks, At, Goto, envVars, AudioInv, TypeOK, Launched,
     StartingSteps, Recorders, Mine
<1>Finalizes. CASE Finalizes(c)
  BY <1>ty, <1>mine, <1>hand, <1>Finalizes, RecordingAssumption DEF Finalizes,
     At, Goto, AudioInv, TypeOK, Launched, StartingSteps, Recorders, Mine
<1>CancelLocked. CASE CancelLocked(c)
  BY <1>ty, <1>mine, <1>hand, <1>CancelLocked, RecordingAssumption DEF
     CancelLocked, At, Goto, Reconciles, Ends, CanReconcile, AudioInv, TypeOK,
     Launched, StartingSteps, Recorders, Mine
<1>CancelRefused. CASE CancelRefused(c)
  BY <1>ty, <1>mine, <1>hand, <1>CancelRefused, RecordingAssumption DEF
     CancelRefused, At, Return, Goto, envVars, AudioInv, TypeOK, Launched,
     StartingSteps, Recorders, Mine
<1>CancelJournals. CASE CancelJournals(c)
  BY <1>ty, <1>mine, <1>hand, <1>CancelJournals, RecordingAssumption DEF
     CancelJournals, At, Goto, AudioInv, TypeOK, Launched, StartingSteps,
     Recorders, Mine
<1>CancelRaises. CASE CancelRaises(c)
  BY <1>ty, <1>mine, <1>hand, <1>CancelRaises, RecordingAssumption DEF
     CancelRaises, Return, Goto, envVars, AudioInv, TypeOK, Launched,
     StartingSteps, Recorders, Mine
<1>CancelDone. CASE CancelDone(c)
  BY <1>ty, <1>mine, <1>hand, <1>CancelDone, RecordingAssumption DEF
     CancelDone, At, Goto, Store, AudioInv, TypeOK, Launched, StartingSteps,
     Recorders, Mine
<1>CancelFails. CASE CancelFails(c)
  BY <1>ty, <1>mine, <1>hand, <1>CancelFails, RecordingAssumption DEF
     CancelFails, At, Goto, envVars, AudioInv, TypeOK, Launched,
     StartingSteps, Recorders, Mine
<1>Kill. CASE Kill(c)
  BY <1>ty, <1>mine, <1>hand, <1>Kill, RecordingAssumption DEF Kill, Exits,
     Goto, envVars, AudioInv, TypeOK, Launched, StartingSteps, Recorders, Mine
<1> QED
  BY StepCases, <1>Toggle, <1>Begin, <1>Acquire, <1>Refused,
     <1>FinalizeReleases, <1>Release, <1>StartLocked, <1>StartRefused,
     <1>StartResumes, <1>StartFindsExited, <1>Launch, <1>StartupFails,
     <1>StartupFailsDirty, <1>StartupEscapes, <1>Grace, <1>Exited, <1>Persist,
     <1>PersistFails, <1>Abort, <1>StopRecords, <1>StopResumes,
     <1>StopRefused, <1>FinalizeMarks, <1>Finalizes, <1>CancelLocked,
     <1>CancelRefused, <1>CancelJournals, <1>CancelRaises, <1>CancelDone,
     <1>CancelFails, <1>Kill

LEMMA AudioInit == Init => AudioInv
BY RecordingAssumption
   DEF Init, AudioInv, TypeOK, Named, AudioIsOfRec, AudioWasLaunched, Owner, Status, Fresh, Launched, Store, Free,
       Section, StartingSteps, Statuses, PCs, Ops, Recorders, Alive

LEMMA AudioStep ==
    ASSUME AudioInv, [Next]_vars
    PROVE  AudioInv'
<1>ty. /\ TypeOK /\ Named /\ AudioIsOfRec /\ AudioWasLaunched
       /\ \A d \in Cmds : Owner(d) /\ Status(d) /\ Fresh(d) /\ Launched(d)
  BY DEF AudioInv
<1>1. ASSUME NEW c \in Cmds, Step(c) \/ Kill(c) PROVE AudioInv'
  BY <1>1, <1>ty, TypeStep, OwnersStay, StatusStays, NamedStays, AudioStaysOfRec, FreshStays, LaunchedStays
     DEF AudioInv
<1>2. ASSUME NEW r \in Recorders,
             Saves(r) \/ \E s \in {"orphans", "gone", "reused"} : Dies(r, s)
      PROVE  AudioInv'
  <2>1. TypeOK'
    BY <1>ty, <1>2 DEF TypeOK, Saves, Dies
  <2>2. UNCHANGED <<pc, try, store, lock>>
    BY <1>2 DEF Saves, Dies
  <2>3. \A q \in Recorders : (Alive(q)' => Alive(q)) /\ (proc'[q] = "none" <=> proc[q] = "none")
    BY <1>ty, <1>2 DEF Saves, Dies, Alive, TypeOK
  <2>4. Named' /\ AudioIsOfRec' /\ AudioWasLaunched'
    BY <1>ty, <2>2, <2>3 DEF Named, AudioIsOfRec, AudioWasLaunched, TypeOK
  <2>5. ASSUME NEW d \in Cmds PROVE Owner(d)' /\ Status(d)'
    BY <1>ty, <2>2 DEF Owner, Status
  <2>6. ASSUME NEW d \in Cmds PROVE Fresh(d)' /\ Launched(d)'
    <3>1. \A k \in 1..Backends : <<d, k>> \in Recorders
      BY DEF Recorders
    <3>2. try[d] \in 1..Backends
      BY <1>ty DEF TypeOK
    <3> QED
      BY <1>ty, <2>2, <2>3, <3>1, <3>2 DEF Fresh, Launched
  <2> QED
    BY <2>1, <2>4, <2>5, <2>6 DEF AudioInv
<1>3. CASE UNCHANGED vars
  <2>1. UNCHANGED <<op, pc, try, store, lock, proc, scoped, file>>
    BY <1>3 DEF vars, envVars
  <2> QED
    BY <1>ty, <2>1
       DEF AudioInv, TypeOK, Named, AudioIsOfRec, AudioWasLaunched, Alive, Owner, Status, Fresh, Launched
<1> QED
  BY <1>1, <1>2, <1>3 DEF Next, System

LEMMA RemovesWhatEnded ==
    ASSUME AudioInv, NEW c \in Cmds, Step(c) \/ Kill(c),
           NEW r \in Recorders, file[r] # "none", file'[r] = "none"
    PROVE  ~Alive(r)'
<1>1. TypeOK /\ Mine(c) \in Recorders
  BY MineType DEF AudioInv
<1>2. CASE StartupFails(c) \/ Exited(c) \/ Abort(c)
  <2>1. r = Mine(c)
    BY <1>1, <1>2 DEF StartupFails, Exited, Abort, NextBackend, Retain, TypeOK
  <2>2. Ends(Mine(c))
    BY <1>1, <1>2 DEF StartupFails, Exited, Abort, NextBackend, Retain, TypeOK
  <2> QED
    BY <1>1, <2>1, <2>2 DEF Ends, Alive, TypeOK
<1>3. CASE Finalizes(c) \/ CancelDone(c)
  <2>1. store.rec = NoRec /\ UNCHANGED proc
    BY <1>3 DEF Finalizes, CancelDone, At, AudioInv, Status, Named
  <2>2. r = store.audio
    BY <1>1, <1>3 DEF Finalizes, CancelDone, TypeOK
  <2> QED
    BY <2>1, <2>2, RecordingAssumption DEF AudioInv, AudioIsOfRec, Alive
<1>4. CASE Launch(c)
  BY <1>1, <1>4 DEF Launch, TypeOK
<1>5. ASSUME UNCHANGED file PROVE FALSE
  BY <1>5
<1> QED
  BY <1>2, <1>3, <1>4, <1>5, StepCases
  DEF Toggle, Begin, Acquire, Refused, FinalizeReleases, Release,
      StartLocked, StartRefused, StartResumes, StartFindsExited, StartupFailsDirty, StartupEscapes,
      Grace, Persist, PersistFails, StopRecords, StopResumes, StopRefused,
      FinalizeMarks, CancelLocked, CancelRefused, CancelJournals, CancelRaises, CancelFails,
      Kill,
      Return, envVars

LEMMA NamesOrRemoves ==
    ASSUME AudioInv, NEW c \in Cmds, Step(c) \/ Kill(c), NEW r \in Recorders,
           store.audio = r, file[r] # "none", store.status # "done"
    PROVE  store'.audio = r \/ file'[r] = "none"
<1>1. TypeOK /\ r # NoRec
  BY RecordingAssumption DEF AudioInv
<1>2. CASE Persist(c) \/ PersistFails(c)
  BY <1>1, <1>2 DEF Persist, PersistFails, At, AudioInv, Status
<1>3. CASE Finalizes(c) \/ CancelDone(c)
  BY <1>1, <1>3 DEF Finalizes, CancelDone, TypeOK
<1>4. ASSUME store'.audio = store.audio PROVE store'.audio = r
  BY <1>4
<1>5. CASE store' = store
  BY <1>5
<1>6. CASE ForgetsInsertion
  BY <1>1, <1>6, ForgetsNoArtifact
<1> QED
  BY <1>1, <1>2, <1>3, <1>4, <1>5, <1>6, StepCases
  DEF Toggle, Begin, Acquire, Refused, FinalizeReleases, Release,
      StartLocked, StartRefused, StartResumes, StartFindsExited, Launch, StartupFails,
      StartupFailsDirty, StartupEscapes, Grace, Exited, Abort, StopRecords,
      StopResumes, StopRefused, FinalizeMarks, CancelLocked, CancelRefused, CancelJournals,
      CancelRaises, CancelFails, Kill,
      TypeOK, Return, envVars, Store

-----------------------------------------------------------------------------
THEOREM Invariance == ~EscapesWrapping => (Spec => []IInv)
<1> SUFFICES ASSUME ~EscapesWrapping PROVE Spec => []IInv
  OBVIOUS
<1> QED
  BY InitIInv, NextStep, PTL DEF Spec

THEOREM AudioInvariance == Spec => []AudioInv
BY AudioInit, AudioStep, PTL DEF Spec

(* Every variable keeps its type.                                          *)
THEOREM TypeCorrect == Spec => []TypeOK
<1>1. AudioInv => TypeOK
  BY DEF AudioInv
<1> QED
  BY <1>1, AudioInvariance, PTL

(* No recorder runs that neither the state, the lock nor a command that    *)
(* still owns the lock knows of, whatever commands start, stop, cancel,    *)
(* fail or are killed (cli.py, _command_start_locked).                     *)
THEOREM RecordersAreAccounted == ~EscapesWrapping => (Spec => []RecorderAccounted)
<1>1. IInv => RecorderAccounted
  BY DEF IInv
<1> QED
  BY <1>1, Invariance, PTL

(* At most one recorder runs at any time: neither another start nor the    *)
(* next backend of the same start is launched beside one (cli.py,          *)
(* _command_start_locked).                                                 *)
THEOREM RecordersExclude == ~EscapesWrapping => (Spec => []OneRecorder)
<1> SUFFICES ASSUME ~EscapesWrapping PROVE Spec => []OneRecorder
  OBVIOUS
<1>1. Init => OneRecorder
  BY DEF Init, OneRecorder, Alive
<1>2. IInv /\ OneRecorder /\ [Next]_vars => OneRecorder'
  BY OneRecorderStep
<1> QED
  BY <1>1, <1>2, Invariance, PTL DEF Spec

(* finalize_recording only transcribes audio whose recorder has ended,     *)
(* whatever start_recorder raises.                                         *)
THEOREM TranscribesCompleteAudio == Spec => []TranscribesStopped
<1>1. AudioInv => TranscribesStopped
  <2> SUFFICES ASSUME AudioInv, NEW c \in Cmds, At(c, "pipeline"), store.audio # NoRec
               PROVE  ~Alive(store.audio)
    BY DEF TranscribesStopped
  <2>1. store.rec = NoRec
    BY DEF AudioInv, Status, Named, At
  <2> QED
    BY <2>1 DEF AudioInv, AudioIsOfRec
<1> QED
  BY <1>1, AudioInvariance, PTL

(* No command removes an audio file that its recorder may still write:     *)
(* the failing start, finalize_recording and the cancel alike.             *)
THEOREM RemovesOnlyEndedAudio == Spec => LiveAudioKept
<1> DEFINE Kept == \A r \in Recorders :
                     file[r] # "none" /\ file'[r] = "none" => ~Alive(r)'
<1>1. ASSUME AudioInv, Next PROVE Kept
  <2>1. ASSUME NEW q \in Recorders,
               Saves(q) \/ \E s \in {"orphans", "gone", "reused"} : Dies(q, s)
        PROVE  Kept
    BY <1>1, <2>1 DEF Saves, Dies, AudioInv, TypeOK
  <2> QED
    BY <1>1, <2>1, RemovesWhatEnded DEF Next, System
<1>2. UNCHANGED vars => Kept
  BY DEF vars, envVars
<1>3. AudioInv /\ [Next]_vars => [Kept]_vars
  BY <1>1, <1>2
<1> QED
  BY <1>3, AudioInvariance, PTL DEF Spec, LiveAudioKept

(* The audio of a recording that is not done stays named by the state file *)
(* for as long as it exists.                                               *)
THEOREM KeepsPendingAudio == Spec => PendingAudioNamed
<1> DEFINE Kept == \A r \in Recorders :
                     /\ store.audio = r /\ file[r] # "none" /\ store.status # "done"
                     => store'.audio = r \/ file'[r] = "none"
<1>1. ASSUME AudioInv, Next PROVE Kept
  <2>1. ASSUME NEW q \in Recorders,
               Saves(q) \/ \E s \in {"orphans", "gone", "reused"} : Dies(q, s)
        PROVE  Kept
    BY <2>1 DEF Saves, Dies
  <2> QED
    BY <1>1, <2>1, NamesOrRemoves DEF Next, System
<1>2. UNCHANGED vars => Kept
  BY DEF vars
<1>3. AudioInv /\ [Next]_vars => [Kept]_vars
  BY <1>1, <1>2
<1> QED
  BY <1>3, AudioInvariance, PTL DEF Spec, PendingAudioNamed
=============================================================================
