----------------------------- MODULE Recording -----------------------------
(***************************************************************************)
(* The commands start, stop, toggle and cancel (cli.py), each a process of *)
(* its own, around three pieces of shared state: the state file, the lock  *)
(* `.state.json.finalizing` and the recorder child a start leaves behind.  *)
(*                                                                         *)
(* What is hard: a start that fails half way owns a child it may be unable *)
(* to stop; a stop or a cancel must not believe a recorder gone that is    *)
(* not; a command killed anywhere leaves its lock behind; the recorder may *)
(* end, leave descendants or lose its pid to another process at any time.  *)
(*                                                                         *)
(* The lock protocol itself is module FinalizationLock; here acquiring and *)
(* releasing are single steps.  A recorder is named by the command that    *)
(* launched it and by the backend it tried.                                *)
(***************************************************************************)
EXTENDS Naturals, FiniteSets

CONSTANTS Cmds,          \* the CLI invocations
          Backends,      \* recorder programs `--recorder auto` tries in turn
          EscapesWrapping, \* whether start_recorder may raise something else
                           \* than RecorderStartupError once its child runs
          NoCmd, NoRec

Recorders == Cmds \X (1 .. Backends)

ASSUME RecordingAssumption ==
    /\ Backends \in Nat \ {0}
    /\ EscapesWrapping \in BOOLEAN
    /\ NoCmd \notin Cmds
    /\ NoRec \notin Recorders

VARIABLES
    op,       \* op[c]: the command c runs, "none" before and after
    pc,       \* pc[c]: its next step
    try,      \* try[c]: the backend c is trying
    store,    \* the state file: status, recorder (pid and identity), audio, text
    lock,     \* the lock file: who created it, the recorder it was handed to,
              \* whether it names that recorder's scope
    proc,     \* proc[r]: recorder r and its descendants; "reused" once it is
              \* gone and its pid names another process
    scoped,   \* the recorders running in a systemd scope of their own
    file      \* file[r]: the audio file of recorder r

envVars == <<proc, scoped, file>>
vars == <<op, pc, try, store, lock, envVars>>

Ops == {"start", "stop", "cancel"}
Statuses == {"idle", "recording", "recorded", "finalizing", "done", "error"}

(* Inside the section the lock protects.                                   *)
Section == {"locked", "launch", "startup", "exited", "persist",
            "abort", "finalize", "pipeline", "journal", "discard", "release"}
PCs == Section \union {"begin", "acquire", "finally", "end"}

Store(status, rec, audio, text) ==
    [status |-> status, rec |-> rec, audio |-> audio, text |-> text]
Free == [by |-> NoCmd, rec |-> NoRec, anchored |-> FALSE]

Init ==
    /\ op = [c \in Cmds |-> "none"]
    /\ pc = [c \in Cmds |-> "begin"]
    /\ try = [c \in Cmds |-> 1]
    /\ store = Store("idle", NoRec, NoRec, FALSE)
    /\ lock = Free
    /\ proc = [r \in Recorders |-> "none"]
    /\ scoped = {}
    /\ file = [r \in Recorders |-> "none"]

-----------------------------------------------------------------------------
At(c, l) == pc[c] = l
Goto(c, l) == pc' = [pc EXCEPT ![c] = l]
Mine(c) == <<c, try[c]>>
Alive(r) == proc[r] \in {"live", "orphans"}
Gone(r) == proc[r] \in {"gone", "reused"}
Ends(r) == proc' = [proc EXCEPT ![r] = "gone"]

(* A command that leaves the state as it is.                               *)
Return(c) == Goto(c, "finally") /\ UNCHANGED <<op, try, store, lock, envVars>>

(* The process of c ends, and its local variables with it.                 *)
Exits(c) ==
    /\ Goto(c, "end")
    /\ op' = [op EXCEPT ![c] = "none"]
    /\ try' = [try EXCEPT ![c] = 1]

(* _acquire_finalization_lock succeeds on a free path, or after reclaiming *)
(* the lock of a recorder whose scope is proved gone.                      *)
Available ==
    \/ lock = Free
    \/ /\ lock.rec # NoRec /\ lock.anchored
       /\ Gone(lock.rec)

(* _reconcile_recording_process: the recorder is stopped if it is the one  *)
(* the state names, or found gone; anything doubtful preserves the state.  *)
CanReconcile(r) == \/ proc[r] = "live"
                   \/ proc[r] = "orphans" /\ r \in scoped
                   \/ proc[r] = "gone"

Reconciles_LeaderOnly(r) ==
    IF proc[r] = "orphans" THEN UNCHANGED proc
    ELSE CanReconcile(r) /\ Ends(r)

Reconciles(r) == CanReconcile(r) /\ Ends(r)

-----------------------------------------------------------------------------
(* command_toggle reads the state without the lock and becomes a stop or a *)
(* start; command_stop reads it again before it takes the lock.            *)
InProgress == store.status \in {"recording", "recorded", "finalizing"}

Toggle(c) ==
    /\ At(c, "begin") /\ op[c] = "none"
    /\ op' = [op EXCEPT ![c] = IF InProgress THEN "stop" ELSE "start"]
    /\ UNCHANGED <<pc, try, store, lock, envVars>>

Begin(c) ==
    /\ At(c, "begin")
    /\ \E o \in IF op[c] = "none" THEN Ops ELSE {op[c]} :
         IF o = "stop" /\ ~InProgress
         THEN Exits(c)
         ELSE Goto(c, "acquire") /\ op' = [op EXCEPT ![c] = o] /\ UNCHANGED try
    /\ UNCHANGED <<store, lock, envVars>>

Acquire(c) ==
    /\ At(c, "acquire") /\ Available
    /\ lock' = [by |-> c, rec |-> NoRec, anchored |-> FALSE]
    /\ Goto(c, "locked")
    /\ UNCHANGED <<op, try, store, envVars>>

(* "finalization already in progress", or an error while acquiring.        *)
Refused(c) ==
    /\ At(c, "acquire") /\ Exits(c)
    /\ UNCHANGED <<store, lock, envVars>>

(* finalize_recording releases the lock, and the command that called it    *)
(* does so again in its own `finally`, when another command may have one:  *)
(* only a lock this process created is removed.                            *)
Removed_Any(c) == IF lock.rec = NoRec THEN Free ELSE lock

Removed(c) == IF lock.by = c /\ lock.rec = NoRec THEN Free ELSE lock

FinalizeReleases(c) ==
    /\ At(c, "release")
    /\ lock' = Removed(c)
    /\ Goto(c, "finally")
    /\ UNCHANGED <<op, try, store, envVars>>

Release(c) ==
    /\ At(c, "finally")
    /\ lock' = Removed(c)
    /\ Exits(c)
    /\ UNCHANGED <<store, envVars>>

-----------------------------------------------------------------------------
(* _command_start_locked: the guards on the previous recording.            *)

(* Nothing is pending: a new recorder may be launched.                     *)
MayLaunch == \/ store.status \in {"idle", "done"}
             \/ store.status = "error" /\ store.audio = NoRec /\ ~store.text
MayLaunch_Recorded == MayLaunch \/ store.status = "recorded"

(* An insertion that failed and left a stored transcript at most: the      *)
(* state forgets it.                                                       *)
ForgetsInsertion ==
    /\ store.status = "error" /\ store.audio = NoRec
    /\ store' = [store EXCEPT !.status = "idle", !.rec = NoRec, !.text = FALSE]

StartLocked_OverRecorded(c) ==
    /\ At(c, "locked") /\ op[c] = "start"
    /\ MayLaunch_Recorded /\ UNCHANGED store
    /\ Goto(c, "launch")
    /\ UNCHANGED <<op, try, lock, envVars>>

StartLocked(c) ==
    /\ At(c, "locked") /\ op[c] = "start"
    /\ \/ MayLaunch /\ UNCHANGED store
       \/ ForgetsInsertion
    /\ Goto(c, "launch")
    /\ UNCHANGED <<op, try, lock, envVars>>

(* An error, a recorded audio, a live recorder or one that cannot be       *)
(* verified, or cleanup claims on disk: the state is preserved.            *)
StartRefused(c) ==
    /\ At(c, "locked") /\ op[c] = "start"
    /\ Return(c)

StartResumes(c) ==
    /\ At(c, "locked") /\ op[c] = "start"
    /\ store.status = "finalizing" /\ (store.audio # NoRec \/ store.text)
    /\ Goto(c, "finalize")
    /\ UNCHANGED <<op, try, store, lock, envVars>>

(* The recorder of the state has exited: its audio is kept for a stop, or  *)
(* the recording failed.                                                   *)
StartFindsExited(c) ==
    /\ At(c, "locked") /\ op[c] = "start"
    /\ store.rec # NoRec /\ proc[store.rec] # "live" /\ Reconciles(store.rec)
    /\ store' = [store EXCEPT !.rec = NoRec, !.status =
                   IF file[store.audio] = "data" THEN "recorded" ELSE "error"]
    /\ Goto(c, "finally")
    /\ UNCHANGED <<op, try, lock, scoped, file>>

-----------------------------------------------------------------------------
(* start_recorder and what _command_start_locked does until the recorder   *)
(* is in the state file.                                                   *)
Launch(c) ==
    /\ At(c, "launch")
    /\ proc' = [proc EXCEPT ![Mine(c)] = "live"]
    /\ file' = [file EXCEPT ![Mine(c)] = "empty"]
    /\ scoped' \in {scoped, scoped \union {Mine(c)}}
    /\ Goto(c, "startup")
    /\ UNCHANGED <<op, try, store, lock>>

(* The artifacts of a recorder that is gone are removed, or their removal  *)
(* fails; with `auto` the next backend is tried, else the command fails.   *)
NextBackend_OneMore(c) ==
    /\ file' = [file EXCEPT ![Mine(c)] = "none"]
    /\ IF try[c] <= Backends
       THEN try' = [try EXCEPT ![c] = @ + 1] /\ Goto(c, "launch")
       ELSE UNCHANGED try /\ Goto(c, "finally")

NextBackend(c) ==
    \/ /\ file' = [file EXCEPT ![Mine(c)] = "none"]
       /\ IF try[c] < Backends
          THEN try' = [try EXCEPT ![c] = @ + 1] /\ Goto(c, "launch")
          ELSE UNCHANGED try /\ Goto(c, "finally")
    \/ Goto(c, "finally") /\ UNCHANGED <<file, try>>

(* start_recorder fails, having reaped its child.                          *)
StartupFails_Unchecked(c) ==
    /\ At(c, "startup")
    /\ Ends(Mine(c)) \/ UNCHANGED proc
    /\ NextBackend(c)
    /\ UNCHANGED <<op, store, lock, scoped>>

StartupFails(c) ==
    /\ At(c, "startup") /\ Ends(Mine(c)) /\ NextBackend(c)
    /\ UNCHANGED <<op, store, lock, scoped>>

(* _retain_finalization_lock_for_process hands the lock to the recorder,   *)
(* with its scope if it has one; if it cannot, the release is skipped and  *)
(* the lock stays that of the command.                                     *)
HandedOver(c) == [lock EXCEPT !.rec = Mine(c), !.anchored = Mine(c) \in scoped]

Retain_OrRelease(c) ==
    \/ lock' = HandedOver(c) /\ Exits(c)
    \/ Goto(c, "finally") /\ UNCHANGED <<op, try, lock>>

Retain(c) ==
    /\ lock' \in {lock, HandedOver(c)}
    /\ Exits(c)

(* RecorderStartupError with cleanup_incomplete: the child may be alive.   *)
StartupFailsDirty(c) ==
    /\ At(c, "startup") /\ Retain(c)
    /\ UNCHANGED <<store, envVars>>

(* The same, but another exception took the place of the first: it is      *)
(* raised as it is, and command_start releases the lock.                   *)
StartupEscapes(c) ==
    /\ EscapesWrapping /\ At(c, "startup")
    /\ Return(c)

(* start_recorder returns.  After the grace period the recorder still runs *)
(* and its identity and scope are the ones seen first, or they are not; or *)
(* it has exited.                                                          *)
Grace(c) ==
    /\ At(c, "startup")
    /\ IF proc[Mine(c)] = "live" THEN Goto(c, "persist") \/ Goto(c, "abort")
                                 ELSE Goto(c, "exited")
    /\ UNCHANGED <<op, try, store, lock, envVars>>

(* It has exited: stop_process clears its group, or the lock is retained.  *)
Exited(c) ==
    /\ At(c, "exited")
    /\ \/ Ends(Mine(c)) /\ NextBackend(c) /\ UNCHANGED <<op, lock>>
       \/ Retain(c) /\ UNCHANGED <<proc, file>>
    /\ UNCHANGED <<store, scoped>>

Persist(c) ==
    /\ At(c, "persist")
    /\ store' = Store("recording", Mine(c), Mine(c), FALSE)
    /\ Goto(c, "finally")
    /\ UNCHANGED <<op, try, lock, envVars>>

(* The write fails before the new state replaces the old one, or after.    *)
PersistFails(c) ==
    /\ At(c, "persist")
    /\ \/ store' = Store("recording", Mine(c), Mine(c), FALSE)
       \/ UNCHANGED store
    /\ Goto(c, "abort")
    /\ UNCHANGED <<op, try, lock, envVars>>

(* cleanup_unpersisted_startup: stop the recorder and remove its artifacts,*)
(* or keep both it and them under a retained lock.                         *)
Abort(c) ==
    /\ At(c, "abort")
    /\ \/ /\ Ends(Mine(c))
          /\ file' \in {file, [file EXCEPT ![Mine(c)] = "none"]}
          /\ Goto(c, "finally") /\ UNCHANGED <<op, try, lock>>
       \/ Retain(c) /\ UNCHANGED <<proc, file>>
    /\ UNCHANGED <<store, scoped>>

-----------------------------------------------------------------------------
(* command_stop.                                                           *)
StopRecords(c) ==
    /\ At(c, "locked") /\ op[c] = "stop"
    /\ store.status = "recording" /\ store.rec # NoRec /\ Reconciles(store.rec)
    /\ store' = [store EXCEPT !.status = "recorded", !.rec = NoRec]
    /\ Goto(c, "finalize")
    /\ UNCHANGED <<op, try, lock, scoped, file>>

StopResumes(c) ==
    /\ At(c, "locked") /\ op[c] = "stop"
    /\ \/ store.status = "recorded"
       \/ store.status = "finalizing" /\ (store.audio # NoRec \/ store.text)
    /\ Goto(c, "finalize")
    /\ UNCHANGED <<op, try, store, lock, envVars>>

(* Nothing to stop, or a recorder that is not verified gone.               *)
StopRefused(c) ==
    /\ At(c, "locked") /\ op[c] = "stop"
    /\ store.status # "recorded"
    /\ Return(c)

(* finalize_recording, one step up to `finalizing`, one for its outcome.   *)
FinalizeMarks(c) ==
    /\ At(c, "finalize")
    /\ store' = IF store.audio = NoRec /\ ~store.text
                THEN [store EXCEPT !.status = "error"]
                ELSE [store EXCEPT !.status = "finalizing"]
    /\ Goto(c, IF store.audio = NoRec /\ ~store.text THEN "release" ELSE "pipeline")
    /\ UNCHANGED <<op, try, lock, envVars>>

(* done: the audio is removed, or kept by keep_recording_artifacts.        *)
(* finalizing: a processing failure keeps the audio, an output that was    *)
(* not inserted keeps the transcript.  error: what could be removed is.    *)
Finalizes(c) ==
    /\ At(c, "pipeline")
    /\ \E status \in {"done", "finalizing", "error"}, kept, text \in BOOLEAN :
         /\ status = "done" /\ store.audio # NoRec => file[store.audio] = "data"
         /\ status = "finalizing" => text \/ (kept /\ store.audio # NoRec)
         /\ store' = [store EXCEPT !.status = status, !.text = text,
                                   !.audio = IF kept THEN @ ELSE NoRec]
         /\ file' = IF kept \/ store.audio = NoRec THEN file
                    ELSE [file EXCEPT ![store.audio] = "none"]
    /\ Goto(c, "release")
    /\ UNCHANGED <<op, try, lock, proc, scoped>>

-----------------------------------------------------------------------------
(* command_cancel: reconcile the recorder and forget its pid, write the    *)
(* state that authorises the removal, remove, write idle.                  *)
CancelLocked(c) ==
    /\ At(c, "locked") /\ op[c] = "cancel"
    /\ IF store.status = "recording"
       THEN /\ store.rec # NoRec /\ Reconciles(store.rec)
            /\ store' = [store EXCEPT !.rec = NoRec]
       ELSE UNCHANGED <<proc, store>>
    /\ Goto(c, "journal")
    /\ UNCHANGED <<op, try, lock, scoped, file>>

CancelRefused(c) ==
    /\ At(c, "locked") /\ op[c] = "cancel" /\ store.status = "recording"
    /\ Return(c)

CancelJournals(c) ==
    /\ At(c, "journal")
    /\ store' = [store EXCEPT !.status = "finalizing"]
    /\ Goto(c, "discard")
    /\ UNCHANGED <<op, try, lock, proc, scoped, file>>

(* A failing scan of the recordings directory, or an interrupt, before the *)
(* authorisation is written or before the removal is.                      *)
CancelRaises(c) ==
    /\ pc[c] \in {"journal", "discard"} /\ Return(c)

CancelDone(c) ==
    /\ At(c, "discard")
    /\ file' = IF store.audio = NoRec THEN file
               ELSE [file EXCEPT ![store.audio] = "none"]
    /\ store' = Store("idle", NoRec, NoRec, FALSE)
    /\ Goto(c, "finally")
    /\ UNCHANGED <<op, try, lock, proc, scoped>>

CancelFails(c) ==
    /\ At(c, "discard")
    /\ store' = [store EXCEPT !.status = "error"]
    /\ Goto(c, "finally")
    /\ UNCHANGED <<op, try, lock, envVars>>

-----------------------------------------------------------------------------
(* The system around the commands.                                         *)

(* A command that is killed leaves its lock behind; killed before it has   *)
(* one it is a command that was refused.                                   *)
Kill(c) ==
    /\ pc[c] \in Section \union {"finally"}
    /\ Exits(c)
    /\ UNCHANGED <<store, lock, envVars>>

(* A recorder saves audio; it ends, alone or leaving descendants; its pid  *)
(* is handed to another process.                                           *)
Saves(r) ==
    /\ proc[r] = "live" /\ file[r] = "empty"
    /\ file' = [file EXCEPT ![r] = "data"]
    /\ UNCHANGED <<op, pc, try, store, lock, proc, scoped>>

Dies(r, s) ==
    /\ <<proc[r], s>> \in {<<"live", "orphans">>, <<"live", "gone">>,
                          <<"orphans", "gone">>, <<"gone", "reused">>}
    /\ proc' = [proc EXCEPT ![r] = s]
    /\ UNCHANGED <<op, pc, try, store, lock, scoped, file>>

-----------------------------------------------------------------------------
Start(c) == \/ StartLocked(c) \/ StartRefused(c) \/ StartResumes(c)
            \/ StartFindsExited(c) \/ Launch(c) \/ StartupFails(c)
            \/ StartupFailsDirty(c) \/ StartupEscapes(c) \/ Grace(c) \/ Exited(c)
            \/ Persist(c) \/ PersistFails(c) \/ Abort(c)

Stop(c) == \/ StopRecords(c) \/ StopResumes(c) \/ StopRefused(c)
           \/ FinalizeMarks(c) \/ Finalizes(c)

Cancel(c) == \/ CancelLocked(c) \/ CancelRefused(c) \/ CancelJournals(c)
             \/ CancelRaises(c) \/ CancelDone(c) \/ CancelFails(c)

Step(c) == \/ Toggle(c) \/ Begin(c) \/ Acquire(c) \/ Refused(c)
           \/ FinalizeReleases(c) \/ Release(c) \/ Start(c) \/ Stop(c) \/ Cancel(c)

System == \/ \E c \in Cmds : Kill(c)
          \/ \E r \in Recorders : Saves(r)
          \/ \E r \in Recorders, s \in {"orphans", "gone", "reused"} : Dies(r, s)

Next == System \/ \E c \in Cmds : Step(c)

Spec == Init /\ [][Next]_vars

-----------------------------------------------------------------------------
(* Every variable has its type.                                            *)
TypeOK ==
    /\ op \in [Cmds -> Ops \union {"none"}]
    /\ pc \in [Cmds -> PCs]
    /\ try \in [Cmds -> 1 .. Backends]
    /\ store \in [status : Statuses, rec : Recorders \union {NoRec},
                  audio : Recorders \union {NoRec}, text : BOOLEAN]
    /\ lock \in [by : Cmds \union {NoCmd}, rec : Recorders \union {NoRec},
                 anchored : BOOLEAN]
    /\ proc \in [Recorders -> {"none", "live", "orphans", "gone", "reused"}]
    /\ scoped \subseteq Recorders
    /\ file \in [Recorders -> {"none", "empty", "data"}]

(* No recorder runs unaccounted for: the state names it, the lock was      *)
(* handed to it, or the command that launched it still owns the lock, be   *)
(* it killed.  So a later command either stops it or is kept out by it.    *)
RecorderAccounted ==
    \A r \in Recorders :
        Alive(r) => \/ store.rec = r
                    \/ lock.rec = r
                    \/ lock.by = r[1] /\ lock.rec = NoRec

(* The microphone is never recorded twice at once: a start launches no     *)
(* recorder, nor the next backend, while an earlier one may be alive.      *)
OneRecorder ==
    \A r, s \in Recorders : Alive(r) /\ Alive(s) => r = s

(* The audio that is transcribed is complete: nothing writes it any more.  *)
TranscribesStopped ==
    \A c \in Cmds : At(c, "pipeline") /\ store.audio # NoRec => ~Alive(store.audio)

(* An audio file is removed only once nothing writes it.                   *)
LiveAudioKept ==
    [][\A r \in Recorders : file[r] # "none" /\ file'[r] = "none" => ~Alive(r)']_vars

(* A recording that is not done is not forgotten: its audio stays named by *)
(* the state file for as long as it exists.                                *)
PendingAudioNamed ==
    [][\A r \in Recorders :
         /\ store.audio = r /\ file[r] # "none" /\ store.status # "done"
         => store'.audio = r \/ file'[r] = "none"]_vars
=============================================================================
