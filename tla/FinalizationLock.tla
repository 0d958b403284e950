-------------------------- MODULE FinalizationLock --------------------------
(***************************************************************************)
(* The lock file `.state.json.finalizing` that serialises every command    *)
(* changing the recording state (cli.py).  A CLI process creates the file  *)
(* with O_EXCL, writes its pid and start identity in it, and removes it    *)
(* when the command ends.  Two things make the protocol hard:              *)
(*                                                                         *)
(*  - a command that could not stop the recorder it started hands the file *)
(*    over to that recorder, by rewriting it in place with the recorder's  *)
(*    identity and its systemd scope;                                      *)
(*  - a later command may reclaim a file whose owner is proved gone: it    *)
(*    reads the file in five separate opens, decides, renames the path to  *)
(*    a private name, looks again and only then unlinks.                   *)
(*                                                                         *)
(* A CLI process creates at most one lock file, so the file (the inode) is *)
(* named after its creator; ctime[i] counts what the kernel's ctime        *)
(* records of inode i, and a stat snapshot is an inode with a ctime.       *)
(* Every step of a process below is one system call, or system calls       *)
(* between which no other process can matter.                              *)
(***************************************************************************)
EXTENDS Naturals

CONSTANTS Procs,     \* the CLI invocations, each a process of its own
          Past,      \* those that ended, or were killed, before the others
          NoFile     \* the path names no file

ASSUME ProcsAssumption == Past \subseteq Procs /\ NoFile \notin Procs

(* The owner a lock file can name: a CLI process, or its recorder.         *)
Owners == Procs \X {"cli", "recorder"}
NoOwner == <<NoFile, "none">>

Stamps == [ino : Procs \union {NoFile}, at : Nat]
NoStamp == [ino |-> NoFile, at |-> 0]

Anchors == Procs \X {"scope", "unit"}

VARIABLES
    path,      \* the inode named `.state.json.finalizing`
    away,      \* away[p]: the inode under p's private cleanup name
    body,      \* body[i]: what inode i contains
    anchors,   \* anchors[i]: the liveness anchors written in inode i
    ctime,     \* ctime[i]: number of changes to inode i
    os,        \* os[o]: what the kernel says of owner o's pid
    scope,     \* scope[p]: the systemd scope of p's recorder
    pc,        \* pc[p]: the next step of process p
    snap,      \* snap[p]: the stat snapshot p compares against
    mine,      \* mine[p]: the snapshot p remembers of its own lock
    ownerRead, \* ownerRead[p]: the pid p read from the lock
    anchorRead,\* anchorRead[p]: the anchors p read from the lock
    attempt,   \* attempt[p]: first or second round of the acquisition
    goal       \* goal[p]: why p is removing a lock file

fileVars == <<path, away, body, anchors, ctime>>
osVars == <<os, scope>>
localVars == <<snap, mine, ownerRead, anchorRead, attempt, goal>>
vars == <<fileVars, osVars, pc, localVars>>

PCs == {"create", "lstat", "readpid", "readscope", "readunit", "scope",
        "readidentity", "unit", "recheck", "open", "precheck", "rename", "verify",
        "unlink", "write", "confirm", "hold", "transfer", "prewrite", "truncate",
        "rewrite", "reread", "release", "releaseread", "done"}

(* Inside the section the lock protects: until the release or the handover *)
HoldPCs == {"hold", "transfer", "prewrite", "truncate", "rewrite"}

(* What a past command may have left: its lock, empty if it was killed     *)
(* between two writes, its own if it was killed later, or handed over to   *)
(* the recorder it could not stop.                                         *)
Init ==
    /\ path \in Past \union {NoFile}
    /\ away = [p \in Procs |-> NoFile]
    /\ body \in [Procs -> {"none", "empty", "own", "retained"}]
    /\ \A p \in Procs : body[p] # "none" <=> path = p
    /\ anchors \in [Procs -> SUBSET {"scope", "unit"}]
    /\ scope \in [Procs -> {"none", "live"}]
    /\ \A p \in Procs : /\ anchors[p] # {} => scope[p] = "live"
                        /\ scope[p] = "live" => body[p] = "retained"
    /\ ctime = [p \in Procs |-> 0]
    /\ os = [o \in Owners |->
               IF o[2] = "cli" THEN IF o[1] \in Past THEN "dead" ELSE "live"
               ELSE IF body[o[1]] = "retained" THEN "live" ELSE "none"]
    /\ pc = [p \in Procs |-> IF p \in Past THEN "done" ELSE "create"]
    /\ snap = [p \in Procs |-> NoStamp]
    /\ mine = [p \in Procs |-> NoStamp]
    /\ ownerRead = [p \in Procs |-> NoOwner]
    /\ anchorRead = [p \in Procs |-> {}]
    /\ attempt = [p \in Procs |-> 1]
    /\ goal = [p \in Procs |-> "none"]

-----------------------------------------------------------------------------
Stamp(i) == [ino |-> i, at |-> ctime[i]]

(* The path still names the file of the snapshot, unchanged since.         *)
Unchanged(p) == path # NoFile /\ snap[p] = Stamp(path)

(* The owner written in inode i; a file just created or truncated has none *)
OwnerIn(i) == IF body[i] = "own" THEN <<i, "cli">>
              ELSE IF body[i] = "retained" THEN <<i, "recorder">>
              ELSE NoOwner

(* What /proc says of the pid read earlier, against the identity read now: *)
(* no process is "unknown", the same start time "same", anything else      *)
(* "reused".                                                               *)
Relation(read, identity) ==
    IF read = NoOwner \/ identity = NoOwner THEN "unknown"
    ELSE IF os[read] = "reused" THEN "reused"
    ELSE IF os[read] # "live" THEN "unknown"
    ELSE IF read = identity THEN "same" ELSE "reused"

(* No process is left in the scope of the recorder inode i is bound to.    *)
AnchorGone(i) == scope[i] = "gone"

At(p, l) == pc[p] = l
Goto(p, l) == pc' = [pc EXCEPT ![p] = l]
Bump(i) == ctime' = [ctime EXCEPT ![i] = @ + 1]

-----------------------------------------------------------------------------
(* _acquire_finalization_lock: the O_EXCL create and the writing of pid    *)
(* and identity.                                                           *)
Create(p) ==
    /\ At(p, "create")
    /\ path = NoFile
    /\ path' = p
    /\ body' = [body EXCEPT ![p] = "empty"]
    /\ Bump(p)
    /\ snap' = [snap EXCEPT ![p] = [ino |-> p, at |-> ctime[p] + 1]]
    /\ Goto(p, "write")
    /\ UNCHANGED <<away, anchors, osVars, mine, ownerRead, anchorRead,
                   attempt, goal>>

Write(p) ==
    /\ At(p, "write")
    /\ body' = [body EXCEPT ![p] = "own"]
    /\ Bump(p)
    /\ snap' = [snap EXCEPT ![p] = [ino |-> p, at |-> ctime[p] + 1]]
    /\ Goto(p, "confirm")
    /\ UNCHANGED <<path, away, anchors, osVars, mine, ownerRead, anchorRead,
                   attempt, goal>>

(* The write or the fsync fails, before or after the contents changed: the *)
(* file is removed only if it is still as it was created.                  *)
WriteFails(p) ==
    /\ At(p, "write")
    /\ \/ UNCHANGED <<body, ctime>>
       \/ body' = [body EXCEPT ![p] = "own"] /\ Bump(p)
    /\ goal' = [goal EXCEPT ![p] = "undo"]
    /\ Goto(p, "open")
    /\ UNCHANGED <<path, away, anchors, osVars, snap, mine, ownerRead,
                   anchorRead, attempt>>

(* The lstat after the close: the lock is acquired only if the path still  *)
(* names the file just written.                                            *)
Confirm(p) ==
    /\ At(p, "confirm")
    /\ IF Unchanged(p)
         THEN /\ mine' = [mine EXCEPT ![p] = snap[p]]
              /\ goal' = goal
              /\ Goto(p, "hold")
         ELSE /\ goal' = [goal EXCEPT ![p] = "undo"]
              /\ mine' = mine
              /\ Goto(p, "open")
    /\ UNCHANGED <<fileVars, osVars, snap, ownerRead, anchorRead, attempt>>

-----------------------------------------------------------------------------
(* _acquire_finalization_lock, FileExistsError: is the owner gone for good?*)
Exists(p) ==
    /\ At(p, "create")
    /\ path # NoFile
    /\ Goto(p, "lstat")
    /\ UNCHANGED <<fileVars, osVars, localVars>>

Lstat(p) ==
    /\ At(p, "lstat")
    /\ anchorRead' = [anchorRead EXCEPT ![p] = {}]
    /\ IF path = NoFile
         THEN Goto(p, "done") /\ snap' = snap
         ELSE Goto(p, "readpid") /\ snap' = [snap EXCEPT ![p] = Stamp(path)]
    /\ UNCHANGED <<fileVars, osVars, mine, ownerRead, attempt, goal>>

ReadPid(p) ==
    /\ At(p, "readpid")
    /\ IF path = NoFile
         THEN Goto(p, "done") /\ ownerRead' = ownerRead
         ELSE /\ ownerRead' = [ownerRead EXCEPT ![p] = OwnerIn(path)]
              /\ Goto(p, "readscope")
    /\ UNCHANGED <<fileVars, osVars, snap, mine, anchorRead, attempt, goal>>

(* Both anchors are read, in one open each, before the scope is examined.  *)
ReadAnchor(p, from, kind, to) ==
    /\ At(p, from)
    /\ IF path = NoFile
         THEN Goto(p, "done") /\ anchorRead' = anchorRead
         ELSE /\ anchorRead' = [anchorRead EXCEPT ![p] =
                    @ \union {<<path, a>> : a \in anchors[path] \cap {kind}}]
              /\ Goto(p, to)
    /\ UNCHANGED <<fileVars, osVars, snap, mine, ownerRead, attempt, goal>>

ReadScope(p) == ReadAnchor(p, "readscope", "scope", "readunit")
ReadUnit(p) == ReadAnchor(p, "readunit", "unit", "scope")

(* An anchor that is not gone, or that cannot be examined, ends the        *)
(* attempt: only gone, twice in a row, lets it go on.                      *)
Examine(p, from, kind, to) ==
    /\ At(p, from)
    /\ \/ /\ \A a \in anchorRead[p] : a[2] = kind => AnchorGone(a[1])
          /\ Goto(p, to)
       \/ /\ \E a \in anchorRead[p] : a[2] = kind
          /\ Goto(p, "done")
    /\ UNCHANGED <<fileVars, osVars, localVars>>

CheckScope(p) == Examine(p, "scope", "scope", "readidentity")
CheckUnit(p) == Examine(p, "unit", "unit", "recheck")

(* Slip: reuse of the pid alone is taken for a proof.                      *)
ReadIdentity_NoAnchor(p) ==
    /\ At(p, "readidentity")
    /\ IF path # NoFile /\ Relation(ownerRead[p], OwnerIn(path)) = "reused"
         THEN Goto(p, "unit")
         ELSE Goto(p, "done")
    /\ UNCHANGED <<fileVars, osVars, localVars>>

(* Slip: a live owner is waited for.                                       *)
ReadIdentity_Waits(p) ==
    /\ At(p, "readidentity")
    /\ IF /\ path # NoFile
          /\ Relation(ownerRead[p], OwnerIn(path)) = "reused"
          /\ anchorRead[p] # {}
         THEN Goto(p, "unit")
         ELSE Goto(p, "lstat")
    /\ UNCHANGED <<fileVars, osVars, localVars>>

(* The identity is read in one more open, and compared with the identity   *)
(* the pid read earlier has now; without an anchor nothing proves reuse.   *)
ReadIdentity(p) ==
    /\ At(p, "readidentity")
    /\ IF /\ path # NoFile
          /\ Relation(ownerRead[p], OwnerIn(path)) = "reused"
          /\ anchorRead[p] # {}
         THEN Goto(p, "unit")
         ELSE Goto(p, "done")
    /\ UNCHANGED <<fileVars, osVars, localVars>>

(* Slip: the snapshot is taken again instead of compared.                  *)
Recheck_Restat(p) ==
    /\ At(p, "recheck")
    /\ path # NoFile
    /\ Goto(p, "open")
    /\ snap' = [snap EXCEPT ![p] = Stamp(path)]
    /\ goal' = [goal EXCEPT ![p] = "reclaim"]
    /\ UNCHANGED <<fileVars, osVars, mine, ownerRead, anchorRead, attempt>>

Recheck(p) ==
    /\ At(p, "recheck")
    /\ IF Unchanged(p)
         THEN /\ Goto(p, "open")
              /\ goal' = [goal EXCEPT ![p] = "reclaim"]
         ELSE Goto(p, "done") /\ goal' = goal
    /\ UNCHANGED <<fileVars, osVars, snap, mine, ownerRead, anchorRead,
                   attempt>>

-----------------------------------------------------------------------------
(* _unlink_finalization_lock_at                                            *)
OpenClaim(p) ==
    /\ At(p, "open")
    /\ Goto(p, IF Unchanged(p) THEN "precheck" ELSE "done")
    /\ UNCHANGED <<fileVars, osVars, localVars>>

Precheck(p) ==
    /\ At(p, "precheck")
    /\ Goto(p, IF Unchanged(p) THEN "rename" ELSE "done")
    /\ UNCHANGED <<fileVars, osVars, localVars>>

(* renameat2(RENAME_NOREPLACE) takes whatever the path names by now.       *)
Rename(p) ==
    /\ At(p, "rename")
    /\ IF path = NoFile
         THEN Goto(p, "done") /\ UNCHANGED fileVars
         ELSE /\ away' = [away EXCEPT ![p] = path]
              /\ path' = NoFile
              /\ Bump(path)
              /\ Goto(p, "verify")
              /\ UNCHANGED <<body, anchors>>
    /\ UNCHANGED <<osVars, localVars>>

(* Through the descriptor opened before: another file was claimed, and it  *)
(* is left under the private name, because only a verified claim is put    *)
(* back.                                                                   *)
Verify(p) ==
    /\ At(p, "verify")
    /\ Goto(p, IF away[p] = snap[p].ino THEN "unlink" ELSE "done")
    /\ UNCHANGED <<fileVars, osVars, localVars>>

(* Slip: the rounds of the acquisition are counted, not bounded.           *)
Unlink_Unbounded(p) ==
    /\ At(p, "unlink")
    /\ away' = [away EXCEPT ![p] = NoFile]
    /\ IF goal[p] = "reclaim"
         THEN attempt' = [attempt EXCEPT ![p] = @ + 1] /\ Goto(p, "create")
         ELSE attempt' = attempt /\ Goto(p, "done")
    /\ UNCHANGED <<path, body, anchors, ctime, osVars, snap, mine, ownerRead,
                   anchorRead, goal>>

(* The file is unlinked; a reclaim then tries once more to create its own, *)
(* unless the directory's fsync failed.                                    *)
Unlink(p) ==
    /\ At(p, "unlink")
    /\ away' = [away EXCEPT ![p] = NoFile]
    /\ \/ /\ goal[p] = "reclaim" /\ attempt[p] = 1
          /\ attempt' = [attempt EXCEPT ![p] = 2]
          /\ Goto(p, "create")
       \/ /\ Goto(p, "done")
          /\ attempt' = attempt
    /\ UNCHANGED <<path, body, anchors, ctime, osVars, snap, mine, ownerRead,
                   anchorRead, goal>>

(* The unlink fails: the claim is put back, if the path is still free.     *)
UnlinkFails(p) ==
    /\ At(p, "unlink")
    /\ IF path = NoFile
         THEN /\ path' = away[p]
              /\ away' = [away EXCEPT ![p] = NoFile]
              /\ Bump(away[p])
         ELSE UNCHANGED <<path, away, ctime>>
    /\ Goto(p, "done")
    /\ UNCHANGED <<body, anchors, osVars, localVars>>

-----------------------------------------------------------------------------
(* The protected section: a command may start a recorder, in a scope of    *)
(* its own when systemd-run is there.                                      *)
StartRecorder(p) ==
    /\ At(p, "hold")
    /\ os[<<p, "recorder">>] = "none"
    /\ os' = [os EXCEPT ![<<p, "recorder">>] = "live"]
    /\ \/ scope' = [scope EXCEPT ![p] = "live"]
       \/ scope' = scope
    /\ UNCHANGED <<fileVars, pc, localVars>>

(* _retain_finalization_lock_for_process: the descriptor, the path, the    *)
(* remembered snapshot, the contents and the recorder are compared.        *)
Transfer(p) ==
    /\ At(p, "hold")
    /\ os[<<p, "recorder">>] # "none"
    /\ Goto(p, "transfer")
    /\ UNCHANGED <<fileVars, osVars, localVars>>

CheckTransfer(p) ==
    /\ At(p, "transfer")
    /\ IF /\ path # NoFile
          /\ mine[p] = Stamp(path)
          /\ OwnerIn(path) = <<p, "cli">>
          /\ os[<<p, "recorder">>] = "live"
         THEN Goto(p, "prewrite") /\ snap' = [snap EXCEPT ![p] = Stamp(path)]
         ELSE Goto(p, "done") /\ snap' = snap
    /\ UNCHANGED <<fileVars, osVars, mine, ownerRead, anchorRead, attempt,
                   goal>>

Prewrite(p) ==
    /\ At(p, "prewrite")
    /\ Goto(p, IF Unchanged(p) THEN "truncate" ELSE "done")
    /\ UNCHANGED <<fileVars, osVars, localVars>>

Truncate(p) ==
    /\ At(p, "truncate")
    /\ body' = [body EXCEPT ![p] = "empty"]
    /\ Bump(p)
    /\ Goto(p, "rewrite")
    /\ UNCHANGED <<path, away, anchors, osVars, localVars>>

(* The recorder's identity and the anchors known to the caller; a failing  *)
(* write leaves the file empty and in place.                               *)
Rewrite(p) ==
    /\ At(p, "rewrite")
    /\ \/ /\ body' = [body EXCEPT ![p] = "retained"]
          /\ \E a \in SUBSET (IF scope[p] = "none" THEN {}
                                                   ELSE {"scope", "unit"}) :
                anchors' = [anchors EXCEPT ![p] = a]
          /\ Bump(p)
          /\ snap' = [snap EXCEPT ![p] = [ino |-> p, at |-> ctime[p] + 1]]
          /\ Goto(p, "reread")
       \/ Goto(p, "done") /\ UNCHANGED <<body, anchors, ctime, snap>>
    /\ UNCHANGED <<path, away, osVars, mine, ownerRead, anchorRead, attempt,
                   goal>>

(* Success forgets the ownership: the release that follows finds another   *)
(* owner.  Failure makes the caller skip the release.                      *)
Reread(p) ==
    /\ At(p, "reread")
    /\ IF Unchanged(p)
         THEN mine' = [mine EXCEPT ![p] = NoStamp] /\ Goto(p, "release")
         ELSE mine' = mine /\ Goto(p, "done")
    /\ UNCHANGED <<fileVars, osVars, snap, ownerRead, anchorRead, attempt,
                   goal>>

-----------------------------------------------------------------------------
(* _release_finalization_lock                                              *)
EndCommand(p) ==
    /\ At(p, "hold")
    /\ Goto(p, "release")
    /\ UNCHANGED <<fileVars, osVars, localVars>>

(* Slip: the remover of a lock does not look whose lock it is.             *)
ReleaseRead_Any(p) ==
    /\ At(p, "releaseread")
    /\ Goto(p, "open")
    /\ goal' = [goal EXCEPT ![p] = "release"]
    /\ UNCHANGED <<fileVars, osVars, snap, mine, ownerRead, anchorRead,
                   attempt>>

ReleaseStat(p) ==
    /\ At(p, "release")
    /\ IF path = NoFile
         THEN Goto(p, "done") /\ snap' = snap
         ELSE /\ snap' = [snap EXCEPT ![p] = Stamp(path)]
              /\ Goto(p, "releaseread")
    /\ UNCHANGED <<fileVars, osVars, mine, ownerRead, anchorRead, attempt,
                   goal>>

ReleaseRead(p) ==
    /\ At(p, "releaseread")
    /\ IF path # NoFile /\ OwnerIn(path) = <<p, "cli">>
         THEN Goto(p, "open") /\ goal' = [goal EXCEPT ![p] = "release"]
         ELSE Goto(p, "done") /\ goal' = goal
    /\ UNCHANGED <<fileVars, osVars, snap, mine, ownerRead, anchorRead,
                   attempt>>

-----------------------------------------------------------------------------
(* The world: a process ends at any point, its pid is given to another     *)
(* process, a recorder's scope empties once the recorder is dead.          *)
Kill(p) ==
    /\ os[<<p, "cli">>] = "live"
    /\ os' = [os EXCEPT ![<<p, "cli">>] = "dead"]
    /\ Goto(p, "done")
    /\ snap' = [snap EXCEPT ![p] = NoStamp]
    /\ mine' = [mine EXCEPT ![p] = NoStamp]
    /\ ownerRead' = [ownerRead EXCEPT ![p] = NoOwner]
    /\ anchorRead' = [anchorRead EXCEPT ![p] = {}]
    /\ attempt' = [attempt EXCEPT ![p] = 1]
    /\ goal' = [goal EXCEPT ![p] = "none"]
    /\ UNCHANGED <<fileVars, scope>>

RecorderEnds(p) ==
    /\ os[<<p, "recorder">>] = "live"
    /\ os' = [os EXCEPT ![<<p, "recorder">>] = "dead"]
    /\ UNCHANGED <<fileVars, scope, pc, localVars>>

ReusePid(o) ==
    /\ os[o] = "dead"
    /\ os' = [os EXCEPT ![o] = "reused"]
    /\ UNCHANGED <<fileVars, scope, pc, localVars>>

ScopeEmpties(p) ==
    /\ scope[p] = "live"
    /\ os[<<p, "recorder">>] \in {"dead", "reused"}
    /\ scope' = [scope EXCEPT ![p] = "gone"]
    /\ UNCHANGED <<fileVars, os, pc, localVars>>

Acquire(p) == \/ Create(p) \/ Write(p) \/ WriteFails(p) \/ Confirm(p)
              \/ Exists(p) \/ Lstat(p) \/ ReadPid(p) \/ ReadScope(p)
              \/ ReadUnit(p) \/ CheckScope(p) \/ ReadIdentity(p)
              \/ CheckUnit(p) \/ Recheck(p)
Remove(p) == \/ OpenClaim(p) \/ Precheck(p) \/ Rename(p) \/ Verify(p)
             \/ Unlink(p) \/ UnlinkFails(p)
Retain(p) == \/ Transfer(p) \/ CheckTransfer(p) \/ Prewrite(p)
             \/ Truncate(p) \/ Rewrite(p) \/ Reread(p)
Release(p) == EndCommand(p) \/ ReleaseStat(p) \/ ReleaseRead(p)
Command(p) == Acquire(p) \/ Remove(p) \/ StartRecorder(p) \/ Retain(p)
              \/ Release(p)
World == \/ \E p \in Procs : Kill(p) \/ RecorderEnds(p) \/ ScopeEmpties(p)
         \/ \E o \in Owners : ReusePid(o)

Next == (\E p \in Procs : Command(p)) \/ World

Spec == Init /\ [][Next]_vars

(* A CLI process that is not killed runs on: nothing in a command waits    *)
(* for another command.                                                    *)
FairSpec == Spec /\ \A p \in Procs : WF_vars(Command(p))

-----------------------------------------------------------------------------
TypeOK ==
    /\ path \in Procs \union {NoFile}
    /\ away \in [Procs -> Procs \union {NoFile}]
    /\ body \in [Procs -> {"none", "empty", "own", "retained"}]
    /\ anchors \in [Procs -> SUBSET {"scope", "unit"}]
    /\ ctime \in [Procs -> Nat]
    /\ os \in [Owners -> {"none", "live", "dead", "reused"}]
    /\ scope \in [Procs -> {"none", "live", "gone"}]
    /\ pc \in [Procs -> PCs]
    /\ snap \in [Procs -> Stamps]
    /\ mine \in [Procs -> Stamps]
    /\ ownerRead \in [Procs -> Owners \union {NoOwner}]
    /\ anchorRead \in [Procs -> SUBSET Anchors]
    /\ attempt \in [Procs -> {1, 2}]
    /\ goal \in [Procs -> {"none", "reclaim", "undo", "release"}]

Holding(p) == pc[p] \in HoldPCs

(* The lock of i is handed to a recorder that still runs, or that left a   *)
(* process in its scope.                                                   *)
Guarding(i) == /\ body[i] = "retained"
               /\ \/ os[<<i, "recorder">>] = "live"
                  \/ anchors[i] # {} /\ scope[i] = "live"

Displaced(i) == \E r \in Procs : away[r] = i

(* Two commands are inside the protected section at once only while the    *)
(* lock file of one of them has been renamed away by a reclaimer.          *)
ExclusiveUnlessDisplaced ==
    \A p, q \in Procs : Holding(p) /\ Holding(q) /\ p # q
                            => Displaced(p) \/ Displaced(q)

(* The lock of a running command, and the lock that stands for a recorder  *)
(* still running, is never deleted by anybody: the file exists, under its  *)
(* path or under a reclaimer's private name.                               *)
LiveLockKept ==
    \A p \in Procs : Holding(p) \/ Guarding(p) => path = p \/ Displaced(p)

(* Only a proof lets a foreign lock be deleted: the pid it names belongs   *)
(* to another process now, and an anchor written in it is gone.  The lock  *)
(* of a crashed command has no anchor and stays for good.                  *)
ProvedGone(i) == /\ body[i] = "retained"
                 /\ anchors[i] # {}
                 /\ os[<<i, "recorder">>] = "reused"
                 /\ AnchorGone(i)

OnlyProvedGoneDeleted ==
    [][\A p \in Procs :
          away[p] # NoFile /\ away'[p] = NoFile /\ path' = path
             => away[p] = p \/ ProvedGone(away[p])]_vars

(* Every command ends, whatever the others do, unless it is killed.        *)
CommandsHaveEnded == \A p \in Procs : pc[p] = "done"
=============================================================================
