----------------------------- MODULE StateStore -----------------------------
(***************************************************************************)
(* state.json (state.py, class StateStore): every read and write is made   *)
(* under a flock, shared or exclusive, that is waited for at most five     *)
(* seconds; a write goes through                                           *)
(* write_text_atomically_without_following_symlinks (path_safety.py),      *)
(* which replaces the file in steps: stage a temporary file, link the      *)
(* target to a backup name, unlink the target (by way of a quarantine      *)
(* name), rename the temporary file to the target, remove the backup.  An  *)
(* exception undoes what was done; a killed process undoes nothing, and    *)
(* leaves its names in the directory.                                      *)
(*                                                                         *)
(* Each call is one process making it.  A file is its content, the set of  *)
(* the calls it reflects (module StateRegister): no two files have the     *)
(* same one.  A name of the directory is the set of the at most one file   *)
(* it names.  Nobody else touches the directory.                           *)
(***************************************************************************)
CONSTANTS Updates,     \* the calls of StateStore.update and StateStore.write
          Writes,      \* those of StateStore.write
          Readers,     \* the callers of StateStore.read
          Kills,       \* whether a process may be killed while it writes
          UndoMayFail  \* whether undoing a failed write may itself fail, or
                       \* be skipped (an interrupt before the code is armed)

ASSUME StateStoreAssumption ==
    /\ Writes \subseteq Updates
    /\ Kills \in BOOLEAN
    /\ UndoMayFail \in BOOLEAN

VARIABLES
    target,  \* state.json
    bak,     \* of each call: its name .state.json.<hex>.bak,
    quar,    \* its name state.json.<hex>.cleanup,
    new,     \* the state it is about to write
    pc,      \* its next step
    debris,  \* the files with a name left over by a call that ended
    writer,  \* who holds the lock exclusively,
    sharing, \* and who holds it shared
    seen,    \* what each reader read last
    last     \* history: the file last put in place, unless undone

files == <<target, bak, quar, debris>>
lock == <<writer, sharing>>
vars == <<files, new, pc, lock, seen, last>>

Steps == {"start", "locked", "stage", "link", "linked", "quarantined", "activate",
          "activated", "committed", "release", "drop", "undo", "putback",
          "failed", "ok", "raised", "dead"}
Holding == Steps \ {"start", "ok", "raised", "dead"}

Init ==
    /\ target = {} /\ debris = {} /\ last = {}
    /\ bak = [u \in Updates |-> {}] /\ quar = [u \in Updates |-> {}]
    /\ new = [u \in Updates |-> {}]
    /\ pc = [u \in Updates |-> "start"]
    /\ writer = {} /\ sharing = {}
    /\ seen = [r \in Readers |-> {}]

-----------------------------------------------------------------------------
Content(name) == UNION name

(* "must not be hardlinked": the target has a second name.                 *)
Hardlinked ==
    target \intersect (debris \union UNION {bak[u] \union quar[u] : u \in Updates}) # {}

Goto(u, l) == pc' = [pc EXCEPT ![u] = l]
Set(f, u, name) == [f EXCEPT ![u] = name]

(* The names a call leaves behind when it ends.                            *)
LeaveNames(u) ==
    /\ debris' = debris \union bak[u] \union quar[u]
    /\ bak' = Set(bak, u, {}) /\ quar' = Set(quar, u, {})
    /\ UNCHANGED target

Result(u, v) == IF u \in Writes THEN {u} ELSE v \union {u}
InPlace == IF target = {} THEN last ELSE target

-----------------------------------------------------------------------------
(* The lock.                                                               *)
Lock_Unguarded(u) ==
    /\ pc[u] = "start"
    /\ writer' = writer \union {u}
    /\ Goto(u, "locked")
    /\ UNCHANGED <<files, new, sharing, seen, last>>

Lock(u) ==
    /\ pc[u] = "start"
    /\ writer = {} /\ sharing = {}
    /\ writer' = {u}
    /\ Goto(u, "locked")
    /\ UNCHANGED <<files, new, sharing, seen, last>>

(* Five seconds are over, or the lock file cannot be opened.               *)
LockFails(u) ==
    /\ pc[u] = "start"
    /\ Goto(u, "raised")
    /\ UNCHANGED <<files, new, lock, seen, last>>

ReadLock_Unguarded(r) ==
    /\ r \notin sharing
    /\ sharing' = sharing \union {r}
    /\ UNCHANGED <<files, new, pc, writer, seen, last>>

ReadLock(r) ==
    /\ r \notin sharing
    /\ writer = {}
    /\ sharing' = sharing \union {r}
    /\ UNCHANGED <<files, new, pc, writer, seen, last>>

(* _read_unlocked: a missing file is the initial state, one with a second  *)
(* name is unreadable.                                                     *)
Read(r) ==
    /\ r \in sharing
    /\ IF Hardlinked THEN UNCHANGED seen ELSE seen' = Set(seen, r, Content(target))
    /\ sharing' = sharing \ {r}
    /\ UNCHANGED <<files, new, pc, writer, last>>

-----------------------------------------------------------------------------
(* StateStore.update reads first, and refuses an unreadable state.         *)
ReadState(u) ==
    /\ pc[u] = "locked"
    /\ u \notin Writes => ~Hardlinked
    /\ new' = Set(new, u, Result(u, Content(target)))
    /\ Goto(u, "stage")
    /\ UNCHANGED <<files, lock, seen, last>>

(* The write: the temporary file is complete.                              *)
Stage(u) ==
    /\ pc[u] = "stage"
    /\ ~Hardlinked
    /\ Goto(u, IF target = {} THEN "activate" ELSE "link")
    /\ UNCHANGED <<files, new, lock, seen, last>>

Link_Skipped(u) ==
    /\ pc[u] = "link"
    /\ Goto(u, "linked")
    /\ UNCHANGED <<files, new, lock, seen, last>>

Link(u) ==
    /\ pc[u] = "link"
    /\ bak' = Set(bak, u, target)
    /\ Goto(u, "linked")
    /\ UNCHANGED <<target, quar, debris, new, lock, seen, last>>

(* _unlink_leaf_safely(path.name): renamed out of the way, then unlinked.  *)
Quarantine(u) ==
    /\ pc[u] = "linked"
    /\ quar' = Set(quar, u, target) /\ target' = {}
    /\ Goto(u, "quarantined")
    /\ UNCHANGED <<bak, debris, new, lock, seen, last>>

UnlinkOld(u) ==
    /\ pc[u] = "quarantined"
    /\ quar' = Set(quar, u, {})
    /\ Goto(u, "activate")
    /\ UNCHANGED <<target, bak, debris, new, lock, seen, last>>

Activate(u) ==
    /\ pc[u] = "activate"
    /\ target = {}
    /\ target' = {new[u]}
    /\ Goto(u, "activated")
    /\ UNCHANGED <<bak, quar, debris, new, lock, seen, last>>

(* The directory is synced: transaction_active is False from here on.      *)
Commit(u) ==
    /\ pc[u] = "activated"
    /\ last' = target
    /\ Goto(u, "committed")
    /\ UNCHANGED <<files, new, lock, seen>>

(* Errors of the removal of the backup are swallowed.                      *)
RemoveBackup(u) ==
    /\ pc[u] = "committed"
    /\ \E b \in {{}, bak[u]} : bak' = Set(bak, u, b)
    /\ Goto(u, "release")
    /\ UNCHANGED <<target, quar, debris, new, lock, seen, last>>

-----------------------------------------------------------------------------
(* An exception, at any step up to the commit.                             *)
FailsBefore(u) ==
    /\ pc[u] \in {"locked", "stage", "link"}
    /\ Goto(u, "failed")
    /\ UNCHANGED <<files, new, lock, seen, last>>

FailsLinked(u) ==
    /\ pc[u] = "linked"
    /\ Goto(u, "drop")
    /\ UNCHANGED <<files, new, lock, seen, last>>

(* Before the quarantined file is unlinked it is renamed back; if that is  *)
(* missed, the backup is put in its place.                                 *)
FailsQuarantined(u) ==
    /\ pc[u] = "quarantined"
    /\ \/ /\ target' = quar[u] /\ quar' = Set(quar, u, {})
          /\ Goto(u, "drop")
       \/ /\ UndoMayFail
          /\ Goto(u, "putback")
          /\ UNCHANGED <<target, quar>>
    /\ UNCHANGED <<bak, debris, new, lock, seen, last>>

FailsInactive_NoUndo(u) ==
    /\ pc[u] = "activate"
    /\ Goto(u, "failed")
    /\ UNCHANGED <<files, new, lock, seen, last>>

FailsInactive(u) ==
    /\ pc[u] = "activate"
    /\ Goto(u, "putback")
    /\ UNCHANGED <<files, new, lock, seen, last>>

FailsActivated_NoUndo(u) ==
    /\ pc[u] = "activated"
    /\ Goto(u, "failed")
    /\ UNCHANGED <<files, new, lock, seen, last>>

FailsActivated(u) ==
    /\ pc[u] = "activated"
    /\ Goto(u, "undo")
    /\ UNCHANGED <<files, new, lock, seen, last>>

(* The steps back.                                                         *)
DropCandidate_Skipped(u) ==
    /\ pc[u] = "drop"
    /\ Goto(u, "failed")
    /\ UNCHANGED <<files, new, lock, seen, last>>

DropCandidate(u) ==
    /\ pc[u] = "drop"
    /\ \E b \in {{}} \union (IF UndoMayFail THEN {bak[u]} ELSE {}) :
         bak' = Set(bak, u, b)
    /\ Goto(u, "failed")
    /\ UNCHANGED <<target, quar, debris, new, lock, seen, last>>

UnlinkNew(u) ==
    /\ pc[u] = "undo"
    /\ \/ target' = {} /\ Goto(u, "putback") /\ UNCHANGED quar
       \/ UndoMayFail /\ UNCHANGED <<target, quar>> /\ Goto(u, "failed")
       \/ UndoMayFail /\ target' = {} /\ quar' = Set(quar, u, target) /\ Goto(u, "failed")
    /\ UNCHANGED <<bak, debris, new, lock, seen, last>>

PutBack(u) ==
    /\ pc[u] = "putback"
    /\ \/ target' = bak[u] /\ bak' = Set(bak, u, {})
       \/ UndoMayFail /\ UNCHANGED <<target, bak>>
    /\ Goto(u, "failed")
    /\ UNCHANGED <<quar, debris, new, lock, seen, last>>

-----------------------------------------------------------------------------
(* The lock is released, which may raise after a commit.                   *)
Release(u) ==
    /\ pc[u] \in {"release", "failed"}
    /\ writer' = writer \ {u}
    /\ \E o \in {"raised"} \union (IF pc[u] = "release" THEN {"ok"} ELSE {}) : Goto(u, o)
    /\ LeaveNames(u)
    /\ last' = InPlace
    /\ UNCHANGED <<new, sharing, seen>>

Kill(u) ==
    /\ Kills
    /\ pc[u] \in Holding
    /\ writer' = writer \ {u}
    /\ Goto(u, "dead")
    /\ LeaveNames(u)
    /\ last' = InPlace
    /\ UNCHANGED <<new, sharing, seen>>

Writing(u) ==
    \/ Lock(u) \/ LockFails(u) \/ ReadState(u) \/ Stage(u)
    \/ Link(u) \/ Quarantine(u) \/ UnlinkOld(u)
    \/ Activate(u) \/ Commit(u) \/ RemoveBackup(u) \/ Release(u)

Failing(u) ==
    \/ FailsBefore(u) \/ FailsLinked(u) \/ FailsQuarantined(u)
    \/ FailsInactive(u) \/ FailsActivated(u)
    \/ DropCandidate(u) \/ UnlinkNew(u) \/ PutBack(u) \/ Kill(u)

Next ==
    \/ \E u \in Updates : Writing(u) \/ Failing(u)
    \/ \E r \in Readers : ReadLock(r) \/ Read(r)

Spec == Init /\ [][Next]_vars

-----------------------------------------------------------------------------
(* The register: from the quarantine of the old file to the commit or the  *)
(* end of the undoing, the value is that of the backup.                    *)
Gap == {"quarantined", "activate", "activated", "undo", "putback"}
Replacing == \E u \in Updates : pc[u] \in Gap
Value == IF Replacing THEN Content(UNION {bak[u] : u \in Updates}) ELSE Content(target)
Phase(u) == IF pc[u] \in {"ok", "raised"} THEN pc[u]
            ELSE IF pc[u] \in {"committed", "release"} THEN "applied"
            ELSE "pending"

Register == INSTANCE StateRegister WITH
    value <- Value, phase <- [u \in Updates |-> Phase(u)], seen <- seen

-----------------------------------------------------------------------------
TypeOK ==
    /\ target \subseteq SUBSET Updates /\ debris \subseteq SUBSET Updates
    /\ last \subseteq SUBSET Updates
    /\ bak \in [Updates -> SUBSET SUBSET Updates]
    /\ quar \in [Updates -> SUBSET SUBSET Updates]
    /\ new \in [Updates -> SUBSET Updates]
    /\ pc \in [Updates -> Steps]
    /\ writer \in {{}} \union {{u} : u \in Updates} /\ sharing \subseteq Readers
    /\ seen \in [Readers -> SUBSET Updates]

(* StateStore is the register: no update is lost, a call that returns has  *)
(* taken effect, one that raises before the commit has not, and a reader   *)
(* sees neither the gap nor a state that is then undone.                   *)
IsRegister == Register!RegSpec

(* Between writes state.json is the file last put in place: a failed or    *)
(* interrupted write leaves the old one (tests/test_path_safety.py:630).   *)
TargetIsLast == writer = {} => target = last

(* Between writes state.json has no second name, which would make every    *)
(* later read and write refuse it.                                         *)
StaysUsable == writer = {} => ~Hardlinked

(* Without kills and with an undoing that works, between two writes        *)
(* state.json is the file last put in place and every command can read it. *)
StoreStaysUsable == TargetIsLast /\ StaysUsable

(* However writes fail, are undone or killed, the last state put in place  *)
(* keeps a name in the directory.                                          *)
LastIsKept ==
    last \subseteq target \union debris \union UNION {bak[u] \union quar[u] : u \in Updates}

(* Even then a reader gets the last state put in place, an error, or the   *)
(* initial state; never one that is being undone.                          *)
ReadsSettled ==
    [][\A r \in Readers : seen'[r] = seen[r] \/ seen'[r] \in {Content(last), {}}]_vars
=============================================================================
