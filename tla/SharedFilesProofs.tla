-------------------------- MODULE SharedFilesProofs -------------------------
(***************************************************************************)
(* Proofs about what several processes share a lock for.                   *)
(*                                                                         *)
(* FinalizationLock, for any set of commands: a stat snapshot that still   *)
(* matches its inode proves that the path named that inode all along and   *)
(* that its contents did not change, so what was read in five opens is one *)
(* consistent record of it; and what the reader then concludes, that the   *)
(* owner is gone, is stable.                                               *)
(*                                                                         *)
(* BackupJobs, for any number of jobs and targets and a ledger of any      *)
(* length: the lock of a target makes whoever works there the only one     *)
(* who writes about its jobs, and archives are never taken back.           *)
(***************************************************************************)
EXTENDS MCSharedFiles, WellFoundedInduction, TLAPS

(* The inode of p's snapshot has not changed since the snapshot.           *)
Matches(p) == snap[p].ino # NoFile /\ ctime[snap[p].ino] = snap[p].at

Early == {"create", "lstat", "readpid", "readscope", "readunit", "scope",
          "readidentity", "unit", "recheck"}
Inspect == {"readpid", "readscope", "readunit", "scope", "readidentity",
            "unit", "recheck"}
Removal == {"open", "precheck", "rename", "verify", "unlink"}

(* Contents against control: who has not created its file, who is writing  *)
(* it, and that anchors only stand in a file handed over.                  *)
BodyOK(p) ==
    /\ pc[p] \in Early => body[p] = "none"
    /\ pc[p] \in Removal /\ goal[p] = "reclaim" => body[p] = "none"
    /\ pc[p] \in Removal /\ goal[p] # "reclaim" => body[p] \in {"empty", "own"}
    /\ pc[p] \in {"write", "rewrite"} => body[p] = "empty"
    /\ pc[p] \in {"confirm", "hold", "transfer", "prewrite", "truncate"}
          => body[p] = "own"
    /\ pc[p] \in Removal => goal[p] # "none"
    /\ anchors[p] # {} => body[p] = "retained"
    /\ os[<<p, "recorder">>] = "none" => scope[p] = "none"

(* A private name is in use only between the rename and the unlink, or by  *)
(* a command that left a file there.                                       *)
AwayOK(p) == away[p] # NoFile => pc[p] \in {"verify", "unlink", "done"}

(* A snapshot is never ahead of its inode.                                 *)
SnapOK(p) == snap[p].ino # NoFile => snap[p].at <= ctime[snap[p].ino]

(* A snapshot taken from the path and still matching: the path names it.   *)
PathOK(p) ==
    /\ pc[p] \in Inspect \union {"releaseread"} => snap[p].ino # NoFile
    /\ \/ pc[p] \in Inspect \union {"releaseread"}
       \/ pc[p] \in {"open", "precheck", "rename"} /\ goal[p] = "release"
       => (Matches(p) => path = snap[p].ino)

(* What an inspection has read is true of the inode, if it still matches.  *)
ReadOK(p) ==
    /\ pc[p] \in Inspect \ {"readpid"} /\ Matches(p)
          => ownerRead[p] = OwnerIn(snap[p].ino)
    /\ pc[p] \in Inspect /\ Matches(p)
          => \A a \in anchorRead[p] : /\ a[1] = snap[p].ino
                                      /\ a[2] \in anchors[a[1]]
    /\ pc[p] \in {"readidentity", "unit", "recheck"}
          => \A a \in anchorRead[p] : a[2] = "scope" => AnchorGone(a[1])
    /\ pc[p] \in {"unit", "recheck"} /\ Matches(p)
          => anchorRead[p] # {} /\ os[OwnerIn(snap[p].ino)] = "reused"
    /\ pc[p] = "recheck"
          => \A a \in anchorRead[p] : a[2] = "unit" => AnchorGone(a[1])

(* Whoever removes a file removes its own, or one proved gone.             *)
ClaimOK(p) ==
    /\ pc[p] \in {"write", "confirm"} => snap[p].ino = p
    /\ pc[p] \in Removal /\ goal[p] = "reclaim"
          => snap[p].ino # NoFile /\ ProvedGone(snap[p].ino)
    /\ pc[p] \in Removal /\ goal[p] = "undo" => snap[p].ino = p
    /\ pc[p] \in Removal \ {"open"} /\ goal[p] = "release" => snap[p].ino = p
    /\ pc[p] = "open" /\ goal[p] = "release" /\ Matches(p) => snap[p].ino = p
    /\ pc[p] = "unlink" => away[p] = snap[p].ino

Local(p) == /\ BodyOK(p) /\ AwayOK(p) /\ SnapOK(p) /\ PathOK(p) /\ ReadOK(p)
            /\ ClaimOK(p)

IInv == TypeOK /\ LiveLockKept /\ \A p \in Procs : Local(p)

-----------------------------------------------------------------------------
(* An action of one process, or of the world about one process.            *)
ProcStep(p) == Command(p) \/ Kill(p) \/ RecorderEnds(p) \/ ScopeEmpties(p)

LEMMA NextCases ==
    ASSUME Next
    PROVE  \/ \E p \in Procs : ProcStep(p)
           \/ \E o \in Owners : ReusePid(o)
BY DEF Next, World, ProcStep

LEMMA OwnerInType ==
    ASSUME TypeOK, NEW i \in Procs
    PROVE  OwnerIn(i) \in Owners \union {NoOwner}
BY DEF OwnerIn, Owners, TypeOK

LEMMA TypeInit == Init => TypeOK
BY ProcsAssumption DEF Init, TypeOK, NoStamp, Stamps, NoOwner, Owners, PCs

LEMMA TypeStep ==
    ASSUME TypeOK, NEW p \in Procs, ProcStep(p)
    PROVE  TypeOK'
<1>1. <<p, "cli">> \in Owners /\ <<p, "recorder">> \in Owners
  BY DEF Owners
<1>2. NoStamp \in Stamps /\ \A i \in Procs : Stamp(i) \in Stamps
  BY DEF NoStamp, Stamps, Stamp, TypeOK
<1>3. [ino |-> p, at |-> ctime[p] + 1] \in Stamps
  BY DEF Stamps, TypeOK
<1> USE ProcsAssumption DEF TypeOK, fileVars, osVars, localVars, At, Goto, Bump,
   PCs
<1>Create. CASE Create(p)
  BY <1>3, <1>Create DEF Create
<1>Write. CASE Write(p)
  BY <1>3, <1>Write DEF Write
<1>WriteFails. CASE WriteFails(p)
  BY <1>1, <1>WriteFails DEF WriteFails
<1>Confirm. CASE Confirm(p)
  BY <1>1, <1>2, <1>Confirm DEF Confirm
<1>Exists. CASE Exists(p)
  BY <1>1, <1>Exists DEF Exists
<1>Lstat. CASE Lstat(p)
  BY <1>1, <1>2, <1>Lstat DEF Lstat
<1>ReadPid. CASE ReadPid(p)
  BY OwnerInType, <1>ReadPid DEF ReadPid
<1>ReadScope. CASE ReadScope(p)
  BY <1>1, <1>ReadScope DEF ReadScope, ReadAnchor, Anchors
<1>ReadUnit. CASE ReadUnit(p)
  BY <1>1, <1>ReadUnit DEF ReadUnit, ReadAnchor, Anchors
<1>CheckScope. CASE CheckScope(p)
  BY <1>1, <1>CheckScope DEF CheckScope, Examine
<1>ReadIdentity. CASE ReadIdentity(p)
  BY <1>1, <1>ReadIdentity DEF ReadIdentity
<1>CheckUnit. CASE CheckUnit(p)
  BY <1>1, <1>CheckUnit DEF CheckUnit, Examine
<1>Recheck. CASE Recheck(p)
  BY <1>1, <1>Recheck DEF Recheck
<1>OpenClaim. CASE OpenClaim(p)
  BY <1>1, <1>OpenClaim DEF OpenClaim
<1>Precheck. CASE Precheck(p)
  BY <1>1, <1>Precheck DEF Precheck
<1>Rename. CASE Rename(p)
  BY <1>1, <1>Rename DEF Rename
<1>Verify. CASE Verify(p)
  BY <1>1, <1>Verify DEF Verify
<1>Unlink. CASE Unlink(p)
  BY <1>1, <1>Unlink DEF Unlink
<1>UnlinkFails. CASE UnlinkFails(p)
  BY <1>1, <1>UnlinkFails DEF UnlinkFails
<1>StartRecorder. CASE StartRecorder(p)
  BY <1>1, <1>StartRecorder DEF StartRecorder
<1>Transfer. CASE Transfer(p)
  BY <1>1, <1>Transfer DEF Transfer
<1>CheckTransfer. CASE CheckTransfer(p)
  BY <1>1, <1>2, <1>CheckTransfer DEF CheckTransfer
<1>Prewrite. CASE Prewrite(p)
  BY <1>1, <1>Prewrite DEF Prewrite
<1>Truncate. CASE Truncate(p)
  BY <1>1, <1>Truncate DEF Truncate
<1>Rewrite. CASE Rewrite(p)
  BY <1>3, <1>Rewrite DEF Rewrite
<1>Reread. CASE Reread(p)
  BY <1>1, <1>2, <1>Reread DEF Reread
<1>EndCommand. CASE EndCommand(p)
  BY <1>1, <1>EndCommand DEF EndCommand
<1>ReleaseStat. CASE ReleaseStat(p)
  BY <1>1, <1>2, <1>ReleaseStat DEF ReleaseStat
<1>ReleaseRead. CASE ReleaseRead(p)
  BY <1>1, <1>ReleaseRead DEF ReleaseRead
<1>Kill. CASE Kill(p)
  BY <1>1, <1>2, <1>Kill DEF Kill
<1>RecorderEnds. CASE RecorderEnds(p)
  BY <1>1, <1>RecorderEnds DEF RecorderEnds
<1>ScopeEmpties. CASE ScopeEmpties(p)
  BY <1>1, <1>ScopeEmpties DEF ScopeEmpties
<1> QED
  BY <1>Create, <1>Write, <1>WriteFails, <1>Confirm, <1>Exists, <1>Lstat,
     <1>ReadPid, <1>ReadScope, <1>ReadUnit, <1>CheckScope, <1>ReadIdentity,
     <1>CheckUnit, <1>Recheck, <1>OpenClaim, <1>Precheck, <1>Rename, <1>Verify,
     <1>Unlink, <1>UnlinkFails, <1>StartRecorder, <1>Transfer, <1>CheckTransfer,
     <1>Prewrite, <1>Truncate, <1>Rewrite, <1>Reread, <1>EndCommand,
     <1>ReleaseStat, <1>ReleaseRead, <1>Kill, <1>RecorderEnds, <1>ScopeEmpties
  DEF ProcStep, Command, Acquire, Remove, Retain, Release

LEMMA TypeNext == TypeOK /\ [Next]_vars => TypeOK'
<1> SUFFICES ASSUME TypeOK, [Next]_vars PROVE TypeOK'
  OBVIOUS
<1>1. CASE \E p \in Procs : ProcStep(p)
  BY <1>1, TypeStep
<1>2. CASE \E o \in Owners : ReusePid(o)
  BY <1>2 DEF TypeOK, ReusePid, fileVars, localVars
<1>3. CASE UNCHANGED vars
  BY <1>3 DEF TypeOK, vars, fileVars, osVars, localVars
<1> QED
  BY <1>1, <1>2, <1>3, NextCases

(* Every variable keeps its type, whatever the set of commands.            *)
THEOREM TypeCorrect == Spec => []TypeOK
<1>1. Init => TypeOK
  BY TypeInit
<1>2. TypeOK /\ [Next]_vars => TypeOK'
  BY TypeNext
<1> QED
  BY <1>1, <1>2, PTL DEF Spec

-----------------------------------------------------------------------------
(* What no step changes of a process that does not take it.                *)
Frame(q) ==
    /\ pc'[q] = pc[q] /\ snap'[q] = snap[q] /\ ownerRead'[q] = ownerRead[q]
    /\ anchorRead'[q] = anchorRead[q] /\ goal'[q] = goal[q]
    /\ away'[q] = away[q] /\ body'[q] = body[q] /\ anchors'[q] = anchors[q]
    /\ os'[<<q, "recorder">>] = "live" => os[<<q, "recorder">>] = "live"
    /\ os'[<<q, "recorder">>] = "none" => os[<<q, "recorder">>] = "none"
    /\ scope'[q] = "live" => scope[q] = "live"
    /\ scope[q] = "none" => scope'[q] = "none"

(* What every step guarantees of an inode: ctime grows with each change of *)
(* its contents or of the path that names it.                              *)
Inode(i) ==
    /\ ctime[i] <= ctime'[i]
    /\ ctime'[i] = ctime[i] => /\ body'[i] = body[i]
                               /\ anchors'[i] = anchors[i]
                               /\ path = i => path' = i

(* What is gone stays gone.                                                *)
Gone == /\ \A o \in Owners : os[o] = "reused" => os'[o] = "reused"
        /\ \A i \in Procs : AnchorGone(i) => AnchorGone(i)'

LEMMA FrameStep ==
    ASSUME IInv, NEW p \in Procs, ProcStep(p)
    PROVE  /\ \A q \in Procs : q # p => Frame(q)
           /\ \A i \in Procs : Inode(i)
           /\ Gone
<1> USE ProcsAssumption DEF IInv, TypeOK, fileVars, osVars, localVars, At, Goto,
   Bump, Owners, Frame, Inode, Gone, AnchorGone, Local, BodyOK, Early, Removal
<1>1. \A q \in Procs : /\ <<q, "recorder">> \in Owners
                        /\ <<q, "recorder">> # <<p, "cli">>
                        /\ q # p => <<q, "recorder">> # <<p, "recorder">>
  OBVIOUS
<1>Create. CASE Create(p)
  BY <1>Create DEF Create
<1>Write. CASE Write(p)
  BY <1>Write DEF Write
<1>WriteFails. CASE WriteFails(p)
  BY <1>WriteFails DEF WriteFails
<1>Confirm. CASE Confirm(p)
  BY <1>Confirm DEF Confirm
<1>Exists. CASE Exists(p)
  BY <1>Exists DEF Exists
<1>Lstat. CASE Lstat(p)
  BY <1>Lstat DEF Lstat
<1>ReadPid. CASE ReadPid(p)
  BY <1>ReadPid DEF ReadPid
<1>ReadScope. CASE ReadScope(p)
  BY <1>ReadScope DEF ReadScope, ReadAnchor
<1>ReadUnit. CASE ReadUnit(p)
  BY <1>ReadUnit DEF ReadUnit, ReadAnchor
<1>CheckScope. CASE CheckScope(p)
  BY <1>CheckScope DEF CheckScope, Examine
<1>ReadIdentity. CASE ReadIdentity(p)
  BY <1>ReadIdentity DEF ReadIdentity
<1>CheckUnit. CASE CheckUnit(p)
  BY <1>CheckUnit DEF CheckUnit, Examine
<1>Recheck. CASE Recheck(p)
  BY <1>Recheck DEF Recheck
<1>OpenClaim. CASE OpenClaim(p)
  BY <1>OpenClaim DEF OpenClaim
<1>Precheck. CASE Precheck(p)
  BY <1>Precheck DEF Precheck
<1>Rename. CASE Rename(p)
  BY <1>Rename DEF Rename
<1>Verify. CASE Verify(p)
  BY <1>Verify DEF Verify
<1>Unlink. CASE Unlink(p)
  BY <1>Unlink DEF Unlink
<1>UnlinkFails. CASE UnlinkFails(p)
  BY <1>UnlinkFails DEF UnlinkFails
<1>StartRecorder. CASE StartRecorder(p)
  <2>1. \A q \in Procs : q # p => Frame(q)
    BY <1>StartRecorder, <1>1 DEF StartRecorder
  <2>2. Gone
    BY <1>StartRecorder, <1>1 DEF StartRecorder
  <2>3. \A i \in Procs : Inode(i)
    BY <1>StartRecorder DEF StartRecorder
  <2> QED
    BY <2>1, <2>2, <2>3
<1>Transfer. CASE Transfer(p)
  BY <1>Transfer DEF Transfer
<1>CheckTransfer. CASE CheckTransfer(p)
  BY <1>CheckTransfer DEF CheckTransfer
<1>Prewrite. CASE Prewrite(p)
  BY <1>Prewrite DEF Prewrite
<1>Truncate. CASE Truncate(p)
  BY <1>Truncate DEF Truncate
<1>Rewrite. CASE Rewrite(p)
  BY <1>Rewrite DEF Rewrite
<1>Reread. CASE Reread(p)
  BY <1>Reread DEF Reread
<1>EndCommand. CASE EndCommand(p)
  BY <1>EndCommand DEF EndCommand
<1>ReleaseStat. CASE ReleaseStat(p)
  BY <1>ReleaseStat DEF ReleaseStat
<1>ReleaseRead. CASE ReleaseRead(p)
  BY <1>ReleaseRead DEF ReleaseRead
<1>Kill. CASE Kill(p)
  <2>1. \A q \in Procs : q # p => Frame(q)
    BY <1>Kill, <1>1 DEF Kill
  <2>2. Gone
    BY <1>Kill, <1>1 DEF Kill
  <2>3. \A i \in Procs : Inode(i)
    BY <1>Kill DEF Kill
  <2> QED
    BY <2>1, <2>2, <2>3
<1>RecorderEnds. CASE RecorderEnds(p)
  <2>1. \A q \in Procs : q # p => Frame(q)
    BY <1>RecorderEnds, <1>1 DEF RecorderEnds
  <2>2. Gone
    BY <1>RecorderEnds, <1>1 DEF RecorderEnds
  <2>3. \A i \in Procs : Inode(i)
    BY <1>RecorderEnds DEF RecorderEnds
  <2> QED
    BY <2>1, <2>2, <2>3
<1>ScopeEmpties. CASE ScopeEmpties(p)
  BY <1>ScopeEmpties DEF ScopeEmpties
<1> QED
  BY <1>Create, <1>Write, <1>WriteFails, <1>Confirm, <1>Exists, <1>Lstat,
     <1>ReadPid, <1>ReadScope, <1>ReadUnit, <1>CheckScope, <1>ReadIdentity,
     <1>CheckUnit, <1>Recheck, <1>OpenClaim, <1>Precheck, <1>Rename, <1>Verify,
     <1>Unlink, <1>UnlinkFails, <1>StartRecorder, <1>Transfer, <1>CheckTransfer,
     <1>Prewrite, <1>Truncate, <1>Rewrite, <1>Reread, <1>EndCommand,
     <1>ReleaseStat, <1>ReleaseRead, <1>Kill, <1>RecorderEnds, <1>ScopeEmpties
  DEF ProcStep, Command, Acquire, Remove, Retain, Release

(* A lock proved gone stays so, whoever moves: its creator is past writing *)
(* it.                                                                     *)
LEMMA ProvedGoneStable ==
    ASSUME IInv, NEW p \in Procs, ProcStep(p), NEW i \in Procs, ProvedGone(i)
    PROVE  ProvedGone(i)'
<1>1. Gone /\ <<i, "recorder">> \in Owners
  BY FrameStep DEF Owners
<1>2. body'[i] = body[i] /\ anchors'[i] = anchors[i]
  <2>1. CASE i # p
    BY <2>1, FrameStep DEF Frame
  <2>2. CASE i = p
    BY <2>2 DEF IInv, Local, BodyOK, Early, ProvedGone, ProcStep, Command,
       Acquire, Remove, Retain, Release, Create, Write, WriteFails, Confirm,
       Exists, Lstat, ReadPid, ReadScope, ReadUnit, ReadAnchor, CheckScope,
       CheckUnit, Examine, ReadIdentity, Recheck, OpenClaim, Precheck, Rename,
       Verify, Unlink, UnlinkFails, StartRecorder, Transfer, CheckTransfer,
       Prewrite, Truncate, Rewrite, Reread, EndCommand, ReleaseStat, ReleaseRead,
       Kill, RecorderEnds, ScopeEmpties, At, fileVars
  <2> QED
    BY <2>1, <2>2
<1> QED
  BY <1>1, <1>2 DEF ProvedGone, Gone

(* What a step of p leaves true of the others.                             *)
LEMMA OthersStep ==
    ASSUME IInv, TypeOK', NEW p \in Procs, ProcStep(p), NEW q \in Procs, q # p
    PROVE  Local(q)'
<1>1. Frame(q) /\ Gone /\ \A i \in Procs : Inode(i)
  BY FrameStep
<1>2. \A i \in Procs : ProvedGone(i) => ProvedGone(i)'
  BY ProvedGoneStable
<1>3. Local(q) /\ snap[q].ino \in Procs \union {NoFile} /\ snap[q].at \in Nat
      /\ ctime \in [Procs -> Nat] /\ ctime' \in [Procs -> Nat]
      /\ anchorRead[q] \subseteq Anchors
  BY DEF IInv, TypeOK, Stamps
<1>4. SnapOK(q)' /\ (Matches(q)' => Matches(q))
  BY <1>1, <1>3, ProcsAssumption DEF Local, SnapOK, Matches, Frame, Inode
<1>5. BodyOK(q)' /\ AwayOK(q)'
  BY <1>1, <1>3 DEF Local, BodyOK, AwayOK, Frame
<1>6. PathOK(q)'
  BY <1>1, <1>3, <1>4 DEF Local, PathOK, Matches, Frame, Inode
<1>7. ReadOK(q)'
  <2>1. \A a \in anchorRead[q] : a[1] \in Procs
    BY <1>3 DEF Anchors
  <2>2. \A a \in anchorRead[q] : AnchorGone(a[1]) => AnchorGone(a[1])'
    BY <1>1, <2>1 DEF Gone
  <2>3. Matches(q)' => /\ snap[q].ino \in Procs
                      /\ OwnerIn(snap[q].ino)' = OwnerIn(snap[q].ino)
                      /\ anchors'[snap[q].ino] = anchors[snap[q].ino]
    BY <1>1, <1>3, <1>4 DEF Matches, Frame, Inode, OwnerIn
  <2>4. Matches(q)' /\ os[OwnerIn(snap[q].ino)] = "reused" /\ OwnerIn(snap[q].ino) \in Owners
           => os'[OwnerIn(snap[q].ino)] = "reused"
    BY <1>1, <2>3 DEF Gone
  <2>5. pc[q] \in {"unit", "recheck"} /\ Matches(q)' => OwnerIn(snap[q].ino) \in Owners
    <3> SUFFICES ASSUME pc[q] \in {"unit", "recheck"}, Matches(q)'
                 PROVE  OwnerIn(snap[q].ino) \in Owners
      OBVIOUS
    <3>1. PICK a \in anchorRead[q] : a[1] = snap[q].ino /\ a[2] \in anchors[a[1]]
      BY <1>3, <1>4 DEF Local, ReadOK, Inspect
    <3>2. BodyOK(snap[q].ino)
      BY <2>3 DEF IInv, Local
    <3> QED
      BY <2>3, <3>1, <3>2 DEF BodyOK, OwnerIn, Owners
  <2>6. (snap[q].ino)' = snap[q].ino /\ pc'[q] = pc[q] /\ anchorRead'[q] = anchorRead[q] /\ ownerRead'[q] = ownerRead[q]
    BY <1>1 DEF Frame
  <2>7. (Matches(q) => Matches(q)) /\ ReadOK(q)
    BY <1>3 DEF Local
  <2> QED
    BY <1>4, <2>2, <2>3, <2>4, <2>5, <2>6, <2>7 DEF ReadOK
<1>8. ClaimOK(q)'
  BY <1>1, <1>2, <1>3, <1>4 DEF Local, ClaimOK, Frame, Matches
<1> QED
  BY <1>4, <1>5, <1>6, <1>7, <1>8 DEF Local

(* What a step of p leaves true of p itself.                               *)
LEMMA SelfStep ==
    ASSUME IInv, TypeOK', NEW p \in Procs, ProcStep(p)
    PROVE  Local(p)'
<1>1. Gone /\ \A i \in Procs : Inode(i)
  BY FrameStep
<1>2. \A i \in Procs : ProvedGone(i) => ProvedGone(i)'
  BY ProvedGoneStable
<1>3. Local(p) /\ TypeOK
  BY DEF IInv
<1> USE ProcsAssumption DEF TypeOK, fileVars, osVars, localVars, At, Goto, Bump,
   Local, BodyOK, AwayOK, SnapOK, PathOK, ReadOK, ClaimOK, Inspect, Removal,
   Early, Matches, Stamps
<1>Create. CASE Create(p)
  BY <1>1, <1>2, <1>3, <1>Create DEF Create, Stamp, Unchanged, OwnerIn, AnchorGone
<1>Write. CASE Write(p)
  BY <1>1, <1>2, <1>3, <1>Write DEF Write, Stamp, Unchanged, OwnerIn, AnchorGone
<1>WriteFails. CASE WriteFails(p)
  BY <1>1, <1>2, <1>3, <1>WriteFails DEF WriteFails, Stamp, Unchanged, OwnerIn,
     AnchorGone
<1>Confirm. CASE Confirm(p)
  BY <1>1, <1>2, <1>3, <1>Confirm DEF Confirm, Stamp, Unchanged, OwnerIn,
     AnchorGone
<1>Exists. CASE Exists(p)
  BY <1>1, <1>2, <1>3, <1>Exists DEF Exists, Stamp, Unchanged, OwnerIn, AnchorGone
<1>Lstat. CASE Lstat(p)
  BY <1>1, <1>2, <1>3, <1>Lstat DEF Lstat, Stamp, Unchanged, OwnerIn, AnchorGone
<1>ReadPid. CASE ReadPid(p)
  BY <1>1, <1>2, <1>3, <1>ReadPid DEF ReadPid, Stamp, Unchanged, OwnerIn,
     AnchorGone
<1>ReadScope. CASE ReadScope(p)
  BY <1>1, <1>2, <1>3, <1>ReadScope DEF ReadScope, ReadAnchor, Stamp, Unchanged,
     OwnerIn, AnchorGone
<1>ReadUnit. CASE ReadUnit(p)
  BY <1>1, <1>2, <1>3, <1>ReadUnit DEF ReadUnit, ReadAnchor, Stamp, Unchanged,
     OwnerIn, AnchorGone
<1>CheckScope. CASE CheckScope(p)
  BY <1>1, <1>2, <1>3, <1>CheckScope DEF CheckScope, Examine, Stamp, Unchanged,
     OwnerIn, AnchorGone
<1>ReadIdentity. CASE ReadIdentity(p)
  <2>1. CASE pc'[p] = "unit"
    <3>1. path # NoFile /\ Relation(ownerRead[p], OwnerIn(path)) = "reused" /\ anchorRead[p] # {}
      BY <2>1, <1>ReadIdentity DEF ReadIdentity
    <3>2. Matches(p) => path = snap[p].ino /\ ownerRead[p] = OwnerIn(path)
      BY <1>3, <1>ReadIdentity DEF ReadIdentity
    <3>3. Matches(p) => os[OwnerIn(snap[p].ino)] = "reused"
      BY <3>1, <3>2 DEF Relation
    <3> QED
      BY <2>1, <3>1, <3>3, <1>3, <1>ReadIdentity DEF ReadIdentity, OwnerIn,
         AnchorGone
  <2>2. CASE pc'[p] # "unit"
    BY <2>2, <1>3, <1>ReadIdentity DEF ReadIdentity, OwnerIn, AnchorGone
  <2> QED
    BY <2>1, <2>2
<1>CheckUnit. CASE CheckUnit(p)
  BY <1>1, <1>2, <1>3, <1>CheckUnit DEF CheckUnit, Examine, Stamp, Unchanged,
     OwnerIn, AnchorGone
<1>Recheck. CASE Recheck(p)
  <2>1. CASE ~ Unchanged(p)
    BY <2>1, <1>3, <1>Recheck DEF Recheck
  <2>2. CASE Unchanged(p)
    <3>1. Matches(p) /\ path = snap[p].ino /\ path \in Procs
      BY <1>3, <2>2 DEF Unchanged, Stamp
    <3>2. PICK a \in anchorRead[p] : a[1] = path /\ a[2] \in anchors[path]
      BY <3>1, <1>3, <1>Recheck DEF Recheck
    <3>3. a[2] \in {"scope", "unit"} /\ AnchorGone(path)
      BY <3>1, <3>2, <1>3, <1>Recheck DEF Recheck
    <3>4. body[path] = "retained"
      BY <3>1, <3>2 DEF IInv
    <3>5. ProvedGone(path)
      BY <3>1, <3>2, <3>3, <3>4, <1>3, <1>Recheck DEF Recheck, ProvedGone, OwnerIn
    <3>6. ProvedGone(snap[p].ino)'
      BY <3>1, <3>5, <1>2, <1>Recheck DEF Recheck
    <3> QED
      BY <3>1, <3>6, <1>3, <2>2, <1>Recheck DEF Recheck
  <2> QED
    BY <2>1, <2>2
<1>OpenClaim. CASE OpenClaim(p)
  BY <1>1, <1>2, <1>3, <1>OpenClaim DEF OpenClaim, Stamp, Unchanged, OwnerIn,
     AnchorGone
<1>Precheck. CASE Precheck(p)
  BY <1>1, <1>2, <1>3, <1>Precheck DEF Precheck, Stamp, Unchanged, OwnerIn,
     AnchorGone
<1>Rename. CASE Rename(p)
  BY <1>1, <1>2, <1>3, <1>Rename DEF Rename, Stamp, Unchanged, OwnerIn, AnchorGone
<1>Verify. CASE Verify(p)
  BY <1>1, <1>2, <1>3, <1>Verify DEF Verify, Stamp, Unchanged, OwnerIn, AnchorGone
<1>Unlink. CASE Unlink(p)
  BY <1>1, <1>2, <1>3, <1>Unlink DEF Unlink, Stamp, Unchanged, OwnerIn, AnchorGone
<1>UnlinkFails. CASE UnlinkFails(p)
  BY <1>1, <1>2, <1>3, <1>UnlinkFails DEF UnlinkFails, Stamp, Unchanged, OwnerIn,
     AnchorGone
<1>StartRecorder. CASE StartRecorder(p)
  BY <1>1, <1>2, <1>3, <1>StartRecorder DEF StartRecorder, Stamp, Unchanged,
     OwnerIn, AnchorGone
<1>Transfer. CASE Transfer(p)
  BY <1>1, <1>2, <1>3, <1>Transfer DEF Transfer, Stamp, Unchanged, OwnerIn,
     AnchorGone
<1>CheckTransfer. CASE CheckTransfer(p)
  BY <1>1, <1>2, <1>3, <1>CheckTransfer DEF CheckTransfer, Stamp, Unchanged,
     OwnerIn, AnchorGone
<1>Prewrite. CASE Prewrite(p)
  BY <1>1, <1>2, <1>3, <1>Prewrite DEF Prewrite, Stamp, Unchanged, OwnerIn,
     AnchorGone
<1>Truncate. CASE Truncate(p)
  BY <1>1, <1>2, <1>3, <1>Truncate DEF Truncate, Stamp, Unchanged, OwnerIn,
     AnchorGone
<1>Rewrite. CASE Rewrite(p)
  BY <1>1, <1>2, <1>3, <1>Rewrite DEF Rewrite, Stamp, Unchanged, OwnerIn,
     AnchorGone
<1>Reread. CASE Reread(p)
  BY <1>1, <1>2, <1>3, <1>Reread DEF Reread, Stamp, Unchanged, OwnerIn, AnchorGone
<1>EndCommand. CASE EndCommand(p)
  BY <1>1, <1>2, <1>3, <1>EndCommand DEF EndCommand, Stamp, Unchanged, OwnerIn,
     AnchorGone
<1>ReleaseStat. CASE ReleaseStat(p)
  BY <1>1, <1>2, <1>3, <1>ReleaseStat DEF ReleaseStat, Stamp, Unchanged, OwnerIn,
     AnchorGone
<1>ReleaseRead. CASE ReleaseRead(p)
  <2>1. path # NoFile /\ OwnerIn(path) = <<p, "cli">> => path = p /\ body[p] = "own"
    BY DEF OwnerIn, NoOwner
  <2>2. Matches(p) => path = snap[p].ino
    BY <1>3, <1>ReleaseRead DEF ReleaseRead
  <2> QED
    BY <2>1, <2>2, <1>3, <1>ReleaseRead DEF ReleaseRead
<1>Kill. CASE Kill(p)
  <2>1. os'[<<p, "recorder">>] = os[<<p, "recorder">>]
    BY <1>Kill DEF Kill, Owners
  <2> QED
    BY <2>1, <1>3, <1>Kill DEF Kill, NoStamp
<1>RecorderEnds. CASE RecorderEnds(p)
  <2>1. os'[<<p, "recorder">>] = "dead" /\ os[<<p, "recorder">>] = "live"
    BY <1>RecorderEnds DEF RecorderEnds, Owners
  <2>2. OwnerIn(snap[p].ino)' = OwnerIn(snap[p].ino)
    BY <1>RecorderEnds DEF RecorderEnds, OwnerIn
  <2>3. \A o \in Owners : os[o] = "reused" => os'[o] = "reused"
    BY <1>1 DEF Gone
  <2>4. BodyOK(p)' /\ AwayOK(p)' /\ SnapOK(p)' /\ PathOK(p)'
    BY <2>1, <1>3, <1>RecorderEnds DEF RecorderEnds
  <2>5. ReadOK(p)'
    BY <2>2, <2>3, <1>3, <1>RecorderEnds DEF RecorderEnds, OwnerIn, Owners,
       AnchorGone
  <2>6. ClaimOK(p)'
    BY <1>2, <1>3, <1>RecorderEnds DEF RecorderEnds
  <2> QED
    BY <2>4, <2>5, <2>6
<1>ScopeEmpties. CASE ScopeEmpties(p)
  BY <1>1, <1>2, <1>3, <1>ScopeEmpties DEF ScopeEmpties, Stamp, Unchanged,
     OwnerIn, AnchorGone
<1> QED
  BY <1>Create, <1>Write, <1>WriteFails, <1>Confirm, <1>Exists, <1>Lstat,
     <1>ReadPid, <1>ReadScope, <1>ReadUnit, <1>CheckScope, <1>ReadIdentity,
     <1>CheckUnit, <1>Recheck, <1>OpenClaim, <1>Precheck, <1>Rename, <1>Verify,
     <1>Unlink, <1>UnlinkFails, <1>StartRecorder, <1>Transfer, <1>CheckTransfer,
     <1>Prewrite, <1>Truncate, <1>Rewrite, <1>Reread, <1>EndCommand,
     <1>ReleaseStat, <1>ReleaseRead, <1>Kill, <1>RecorderEnds, <1>ScopeEmpties
  DEF ProcStep, Command, Acquire, Remove, Retain, Release

(* A named file keeps a name, but for the file that is unlinked.           *)
LEMMA NamedStep ==
    ASSUME IInv, NEW p \in Procs, ProcStep(p), NEW i \in Procs,
           path = i \/ Displaced(i)
    PROVE  path' = i \/ Displaced(i)' \/ (pc[p] = "unlink" /\ away[p] = i)
<1> USE ProcsAssumption DEF IInv, TypeOK, Displaced, fileVars, At
<1>1. CASE Create(p)
  BY <1>1 DEF Create
<1>2. CASE Rename(p)
  BY <1>2 DEF Rename, Local, AwayOK
<1>3. CASE Unlink(p)
  BY <1>3 DEF Unlink
<1>4. CASE UnlinkFails(p)
  BY <1>4 DEF UnlinkFails
<1>5. CASE UNCHANGED <<path, away>>
  BY <1>5
<1>6. Create(p) \/ Rename(p) \/ Unlink(p) \/ UnlinkFails(p) \/ UNCHANGED <<path, away>>
  BY DEF ProcStep, Command, Acquire, Remove, Retain, Release, Write, WriteFails,
     Confirm, Exists, Lstat, ReadPid, ReadScope, ReadUnit, ReadAnchor, CheckScope,
     CheckUnit, Examine, ReadIdentity, Recheck, OpenClaim, Precheck, Verify,
     StartRecorder, Transfer, CheckTransfer, Prewrite, Truncate, Rewrite, Reread,
     EndCommand, ReleaseStat, ReleaseRead, Kill, RecorderEnds, ScopeEmpties
<1> QED
  BY <1>1, <1>2, <1>3, <1>4, <1>5, <1>6

(* The file a step of p unlinks protects nobody.                           *)
LEMMA UnlinkedIsIdle ==
    ASSUME IInv, NEW p \in Procs, pc[p] = "unlink", NEW i \in Procs, away[p] = i
    PROVE  /\ i = p \/ ProvedGone(i)
           /\ ~ Holding(i) /\ ~ Guarding(i)
<1>1. \/ i = p /\ body[p] \in {"empty", "own"}
      \/ ProvedGone(i)
  BY DEF IInv, TypeOK, Local, ClaimOK, BodyOK, Removal
<1>2. CASE i = p /\ body[p] \in {"empty", "own"}
  BY <1>2 DEF Holding, HoldPCs, Guarding
<1>3. CASE ProvedGone(i)
  BY <1>3 DEF IInv, Local, BodyOK, ProvedGone, Holding, HoldPCs, Guarding,
     AnchorGone
<1> QED
  BY <1>1, <1>2, <1>3

(* Only the end of the acquisition and the handover make a lock needed.    *)
LEMMA SelfIdle ==
    ASSUME IInv, NEW p \in Procs, ProcStep(p), ~ Holding(p), ~ Guarding(p),
           ~ Confirm(p), ~ Rewrite(p), ~ StartRecorder(p)
    PROVE  ~ Holding(p)' /\ ~ Guarding(p)'
<1> USE DEF IInv, TypeOK, fileVars, osVars, localVars, At, Goto, Owners, Holding,
   HoldPCs, Guarding
<1>Create. CASE Create(p)
  BY <1>Create DEF Create
<1>Write. CASE Write(p)
  BY <1>Write DEF Write
<1>WriteFails. CASE WriteFails(p)
  BY <1>WriteFails DEF WriteFails
<1>Exists. CASE Exists(p)
  BY <1>Exists DEF Exists
<1>Lstat. CASE Lstat(p)
  BY <1>Lstat DEF Lstat
<1>ReadPid. CASE ReadPid(p)
  BY <1>ReadPid DEF ReadPid
<1>ReadScope. CASE ReadScope(p)
  BY <1>ReadScope DEF ReadScope, ReadAnchor
<1>ReadUnit. CASE ReadUnit(p)
  BY <1>ReadUnit DEF ReadUnit, ReadAnchor
<1>CheckScope. CASE CheckScope(p)
  BY <1>CheckScope DEF CheckScope, Examine
<1>ReadIdentity. CASE ReadIdentity(p)
  BY <1>ReadIdentity DEF ReadIdentity
<1>CheckUnit. CASE CheckUnit(p)
  BY <1>CheckUnit DEF CheckUnit, Examine
<1>Recheck. CASE Recheck(p)
  BY <1>Recheck DEF Recheck
<1>OpenClaim. CASE OpenClaim(p)
  BY <1>OpenClaim DEF OpenClaim
<1>Precheck. CASE Precheck(p)
  BY <1>Precheck DEF Precheck
<1>Rename. CASE Rename(p)
  BY <1>Rename DEF Rename
<1>Verify. CASE Verify(p)
  BY <1>Verify DEF Verify
<1>Unlink. CASE Unlink(p)
  BY <1>Unlink DEF Unlink
<1>UnlinkFails. CASE UnlinkFails(p)
  BY <1>UnlinkFails DEF UnlinkFails
<1>Transfer. CASE Transfer(p)
  BY <1>Transfer DEF Transfer
<1>CheckTransfer. CASE CheckTransfer(p)
  BY <1>CheckTransfer DEF CheckTransfer
<1>Prewrite. CASE Prewrite(p)
  BY <1>Prewrite DEF Prewrite
<1>Truncate. CASE Truncate(p)
  BY <1>Truncate DEF Truncate
<1>Reread. CASE Reread(p)
  BY <1>Reread DEF Reread
<1>EndCommand. CASE EndCommand(p)
  BY <1>EndCommand DEF EndCommand
<1>ReleaseStat. CASE ReleaseStat(p)
  BY <1>ReleaseStat DEF ReleaseStat
<1>ReleaseRead. CASE ReleaseRead(p)
  BY <1>ReleaseRead DEF ReleaseRead
<1>Kill. CASE Kill(p)
  BY <1>Kill DEF Kill
<1>RecorderEnds. CASE RecorderEnds(p)
  BY <1>RecorderEnds DEF RecorderEnds
<1>ScopeEmpties. CASE ScopeEmpties(p)
  BY <1>ScopeEmpties DEF ScopeEmpties
<1> QED
  BY <1>Create, <1>Write, <1>WriteFails, <1>Exists, <1>Lstat, <1>ReadPid,
     <1>ReadScope, <1>ReadUnit, <1>CheckScope, <1>ReadIdentity, <1>CheckUnit,
     <1>Recheck, <1>OpenClaim, <1>Precheck, <1>Rename, <1>Verify, <1>Unlink,
     <1>UnlinkFails, <1>Transfer, <1>CheckTransfer, <1>Prewrite, <1>Truncate,
     <1>Reread, <1>EndCommand, <1>ReleaseStat, <1>ReleaseRead, <1>Kill,
     <1>RecorderEnds, <1>ScopeEmpties
  DEF ProcStep, Command, Acquire, Remove, Retain, Release

LEMMA KeptStep ==
    ASSUME IInv, TypeOK', NEW p \in Procs, ProcStep(p)
    PROVE  LiveLockKept'
<1> SUFFICES ASSUME NEW i \in Procs, Holding(i)' \/ Guarding(i)'
             PROVE  path' = i \/ Displaced(i)'
  BY DEF LiveLockKept
<1>1. CASE Holding(i) \/ Guarding(i)
  <2>1. path = i \/ Displaced(i)
    BY <1>1 DEF IInv, LiveLockKept
  <2> QED
    BY <1>1, <2>1, NamedStep, UnlinkedIsIdle
<1>2. CASE ~ Holding(i) /\ ~ Guarding(i)
  <2>1. i = p
    BY <1>2, FrameStep DEF Frame, Holding, Guarding
  <2>2. Local(p)
    BY DEF IInv
  <2>3. CASE Confirm(p)
    BY <2>1, <2>2, <2>3, <1>2, ProcsAssumption DEF Confirm, At, Goto, IInv,
       TypeOK, Local, ClaimOK, BodyOK, Unchanged, Stamp, Holding, Guarding,
       HoldPCs, fileVars, osVars
  <2>4. CASE Rewrite(p)
    BY <1>2, <2>1, <2>4 DEF Rewrite, At, Holding, HoldPCs
  <2>5. CASE StartRecorder(p)
    BY <1>2, <2>1, <2>5 DEF StartRecorder, At, Holding, HoldPCs
  <2>6. CASE ~ Confirm(p) /\ ~ Rewrite(p) /\ ~ StartRecorder(p)
    BY <1>2, <2>1, <2>6, SelfIdle
  <2> QED
    BY <2>3, <2>4, <2>5, <2>6
<1> QED
  BY <1>1, <1>2

-----------------------------------------------------------------------------
LEMMA InvInit == Init => IInv
<1> SUFFICES ASSUME Init PROVE IInv
  OBVIOUS
<1>1. TypeOK
  BY TypeInit
<1>2. LiveLockKept
  BY ProcsAssumption DEF Init, LiveLockKept, Holding, HoldPCs, Guarding
<1>3. ASSUME NEW p \in Procs PROVE Local(p)
  BY <1>1, ProcsAssumption DEF Init, NoStamp, Local, BodyOK, AwayOK, SnapOK,
     PathOK, ReadOK, ClaimOK, Early, Inspect, Removal, Owners
<1> QED
  BY <1>1, <1>2, <1>3 DEF IInv

(* The reuse of a pid changes only what /proc says of a dead process.      *)
LEMMA ReuseStep ==
    ASSUME IInv, NEW o \in Owners, ReusePid(o)
    PROVE  LiveLockKept' /\ \A p \in Procs : Local(p)'
<1> USE DEF IInv, TypeOK, ReusePid, fileVars, localVars
<1>1. /\ \A q \in Owners : os[q] = "reused" => os'[q] = "reused"
      /\ \A q \in Owners : os'[q] \in {"none", "live"} => os'[q] = os[q]
  OBVIOUS
<1>2. \A p \in Procs : <<p, "recorder">> \in Owners
  BY DEF Owners
<1>3. LiveLockKept'
  BY <1>1, <1>2 DEF LiveLockKept, Holding, Guarding, Displaced
<1>4. ASSUME NEW p \in Procs PROVE Local(p)'
  <2>1. Local(p) /\ \A i \in Procs : ProvedGone(i) => ProvedGone(i)'
    BY <1>1, <1>2 DEF ProvedGone, AnchorGone
  <2>2. BodyOK(p)' /\ AwayOK(p)' /\ SnapOK(p)' /\ PathOK(p)'
    BY <1>1, <1>2, <2>1 DEF Local, BodyOK, AwayOK, SnapOK, PathOK, Matches
  <2>3. ReadOK(p)'
    <3>1. OwnerIn(snap[p].ino)' = OwnerIn(snap[p].ino) /\ (Matches(p)' <=> Matches(p))
      BY DEF OwnerIn, Matches
    <3>2. Matches(p) => snap[p].ino \in Procs
      BY DEF Matches, Stamps
    <3>3. Matches(p) => OwnerIn(snap[p].ino) \in Owners \union {NoOwner}
      BY <3>2, OwnerInType
    <3>4. ReadOK(p)
      BY <2>1 DEF Local
    <3>5. pc[p] \in {"unit", "recheck"} /\ Matches(p) => OwnerIn(snap[p].ino) \in Owners
      <4> SUFFICES ASSUME pc[p] \in {"unit", "recheck"}, Matches(p)
                   PROVE  OwnerIn(snap[p].ino) \in Owners
        OBVIOUS
      <4>1. PICK a \in anchorRead[p] : a[1] = snap[p].ino /\ a[2] \in anchors[a[1]]
        BY <3>4 DEF ReadOK, Inspect <4>2. BodyOK(snap[p].ino) BY <3>2 DEF Local
           <4> QED BY <3>2, <4>1, <4>2 DEF BodyOK, OwnerIn, Owners
    <3> QED
      BY <1>1, <3>1, <3>4, <3>5 DEF ReadOK, AnchorGone
  <2>4. ClaimOK(p)'
    BY <2>1 DEF Local, ClaimOK, Matches, Stamps
  <2> QED
    BY <2>2, <2>3, <2>4 DEF Local
<1> QED
  BY <1>3, <1>4

LEMMA InvNext == IInv /\ [Next]_vars => IInv'
<1> SUFFICES ASSUME IInv, [Next]_vars PROVE IInv'
  OBVIOUS
<1>1. TypeOK'
  BY TypeNext DEF IInv
<1>2. CASE \E p \in Procs : ProcStep(p)
  <2>1. PICK p \in Procs : ProcStep(p)
    BY <1>2
  <2>2. \A q \in Procs : Local(q)'
    BY <1>1, <2>1, SelfStep, OthersStep
  <2> QED
    BY <1>1, <2>1, <2>2, KeptStep DEF IInv
<1>3. CASE \E o \in Owners : ReusePid(o)
  BY <1>1, <1>3, ReuseStep DEF IInv
<1>4. CASE UNCHANGED vars
  BY <1>1, <1>4 DEF vars, fileVars, osVars, localVars, IInv, LiveLockKept,
     Holding, Guarding, Displaced, Local, BodyOK, AwayOK, SnapOK, PathOK, ReadOK,
     ClaimOK, Matches, OwnerIn, AnchorGone, ProvedGone
<1> QED
  BY <1>2, <1>3, <1>4, NextCases

THEOREM Invariant == Spec => []IInv
<1>1. IInv /\ [Next]_vars => IInv'
  BY InvNext
<1> QED
  BY InvInit, <1>1, PTL DEF Spec

(* No lock of a running command, or of a recorder still running, is ever   *)
(* deleted.                                                                *)
THEOREM LiveLocksAreKept == Spec => []LiveLockKept
<1>1. IInv => LiveLockKept
  BY DEF IInv
<1> QED
  BY Invariant, <1>1, PTL

(* Two commands hold the lock at once only while the lock of one of them   *)
(* lies under a reclaimer's private name.                                  *)
THEOREM Exclusion == Spec => []ExclusiveUnlessDisplaced
<1>1. IInv => ExclusiveUnlessDisplaced
  BY DEF IInv, LiveLockKept, ExclusiveUnlessDisplaced
<1> QED
  BY Invariant, <1>1, PTL

(* A foreign lock is deleted only when its owner is proved gone.           *)
THEOREM DeletionsAreProved == Spec => OnlyProvedGoneDeleted
<1>1. ASSUME IInv, [Next]_vars, NEW p \in Procs,
             away[p] # NoFile, away'[p] = NoFile, path' = path
      PROVE  away[p] = p \/ ProvedGone(away[p])
  <2>1. away[p] \in Procs
    BY <1>1 DEF IInv, TypeOK
  <2>2. CASE \E q \in Procs : ProcStep(q)
    <3>1. ProcStep(p)
      BY <1>1, <2>2, FrameStep DEF Frame
    <3>2. pc[p] = "unlink"
      BY <1>1, <3>1, ProcsAssumption DEF ProcStep, Command, Acquire, Remove,
         Retain, Release, Create, Rename, Unlink, UnlinkFails, fileVars, At, IInv,
         TypeOK, Local, AwayOK, Write, WriteFails, Confirm, Exists, Lstat,
         ReadPid, ReadScope, ReadUnit, ReadAnchor, CheckScope, CheckUnit, Examine,
         ReadIdentity, Recheck, OpenClaim, Precheck, Verify, StartRecorder,
         Transfer, CheckTransfer, Prewrite, Truncate, Rewrite, Reread, EndCommand,
         ReleaseStat, ReleaseRead, Kill, RecorderEnds, ScopeEmpties
    <3> QED
      BY <1>1, <2>1, <3>2, UnlinkedIsIdle
  <2>3. CASE \E o \in Owners : ReusePid(o)
    BY <1>1, <2>3 DEF ReusePid, fileVars
  <2>4. CASE UNCHANGED vars
    BY <1>1, <2>4 DEF vars, fileVars
  <2> QED
    BY <1>1, <2>2, <2>3, <2>4, NextCases
<1>2. IInv /\ [Next]_vars
        => [\A p \in Procs : away[p] # NoFile /\ away'[p] = NoFile /\ path' = path
                               => away[p] = p \/ ProvedGone(away[p])]_vars
  BY <1>1
<1> QED
  BY Invariant, <1>2, PTL DEF Spec, OnlyProvedGoneDeleted

-----------------------------------------------------------------------------
(* BackupJobs.  The lock of a target belongs to the job that works there.   *)
Working == {"loads", "settles", "collects", "stages", "publishes", "succeeds",
            "warns", "fails", "releases"}

LeaseIsHeld == \A j \in Jobs : jobStep[j] \in Working => leaseOf[jobTarget[j]] = j

\* An archive is of a job that has published it, and holds what it collected.
ArchivesAreOwn ==
    \A t \in Targets : \A a \in archives[t] :
        /\ jobTarget[a.by] = t /\ a.config = collected[a.by]
        /\ jobStep[a.by] \in {"succeeds", "warns", "releases", "tidies", "ended", "killed"}

PublishedHasArchive ==
    \A j \in Jobs : jobStep[j] \in {"succeeds", "warns", "tidies"} =>
        [by |-> j, config |-> collected[j]] \in archives[jobTarget[j]]

Ledger == {jobs[i] : i \in DOMAIN jobs}
OneTarget == \A j, k \in Jobs : jobTarget[j] = jobTarget[k]

\* The ledger calls a job that has begun and has not published `running`.
OpenIsRunning ==
    OneTarget => \A e \in Ledger :
        jobStep[e.job] \in {"collects", "stages", "publishes"} => e.status = "running"

\* What a job that settles has not read or has settled is of another target.
RunningIsRead ==
    \A j \in Jobs : jobStep[j] = "settles" =>
        \A e \in Ledger : e.status = "running" =>
            e.job \in toSettle[j] \/ jobTarget[e.job] # jobTarget[j]

BackupInv ==
    /\ BackupTypeOK /\ LeaseIsHeld /\ ArchivesAreOwn /\ PublishedHasArchive
    /\ OpenIsRunning /\ RunningIsRead /\ SuccessHasArchive /\ PublishedIsNamed

(* A set of natural numbers has a least element.                           *)
LEMMA Least ==
    ASSUME NEW T, T \subseteq Nat, T # {}
    PROVE  \E m \in T : \A k \in T : m <= k
<1> DEFINE R == {ss \in Nat \X Nat : ss[1] < ss[2]}
<1>1. IsWellFoundedOn(R, Nat)
  BY NatLessThanWellFounded DEF OpToRel
<1>2. PICK m \in T : \A k \in T : <<k, m>> \notin R
  BY <1>1, WFMin
<1>3. ASSUME NEW k \in T PROVE m <= k
  <2>1. k \in Nat /\ m \in Nat
    OBVIOUS
  <2>2. <<k, m>> \in Nat \X Nat
    BY <2>1
  <2>3. ~(k < m)
    BY <1>2, <2>2
  <2> QED
    BY <2>1, <2>3
<1> QED
  BY <1>3

(* Without is a recursive function over the ledger: it is what its          *)
(* equation says, since there is no first n from which on it is not.       *)
WithoutBy(f, n, j) ==
    IF n = 0 THEN <<>>
    ELSE IF jobs[n].job = j THEN f[n - 1] ELSE Append(f[n - 1], jobs[n])

LEMMA WithoutIsDefined ==
    ASSUME jobs \in Seq(Entries), NEW j
    PROVE  Without(j) = [n \in 0..Len(jobs) |-> WithoutBy(Without(j), n, j)]
<1> DEFINE From(h, n) == h = [i \in 0..n |-> WithoutBy(h, i, j)]
           T == {n \in Nat : ~ \E h : From(h, n)}
<1>1. T = {}
  <2> SUFFICES ASSUME T # {} PROVE FALSE
    OBVIOUS
  <2>1. PICK m \in T : \A k \in T : m <= k
    BY Least
  <2>2. m \in Nat /\ ~ \E h : From(h, m)
    OBVIOUS
  <2>3. CASE m = 0
    <3> DEFINE h == [i \in 0..m |-> WithoutBy(0, i, j)]
    <3>1. \A i \in 0..m : WithoutBy(h, i, j) = WithoutBy(0, i, j)
      BY <2>3 DEF WithoutBy
    <3>2. From(h, m)
      BY <3>1
    <3> QED
      BY <2>2, <3>2
  <2>4. CASE m # 0
    <3>1. m - 1 \in Nat /\ m - 1 \notin T
      BY <2>1, <2>2, <2>4
    <3>2. PICK g : From(g, m - 1)
      BY <3>1
    <3> DEFINE h == [i \in 0..m |-> IF i = m THEN WithoutBy(g, i, j) ELSE g[i]]
    <3>3. ASSUME NEW i \in 0..m
          PROVE  h[i] = WithoutBy(h, i, j)
      <4>1. WithoutBy(h, i, j) = WithoutBy(g, i, j)
        <5>1. CASE i = 0
          BY <5>1 DEF WithoutBy <5>2. CASE i # 0 <6>1. i - 1 \in 0..m /\ i - 1 # m
             BY <2>2, <5>2 <6>2. h[i - 1] = g[i - 1] BY <6>1 <6> QED BY <6>2 DEF
             WithoutBy <5> QED BY <5>1, <5>2 <4>2. CASE i = m BY <4>1, <4>2 <4>3.
             CASE i # m <5>1. i \in 0..(m - 1) BY <2>2, <4>3 <5>2. g[i] =
             WithoutBy(g, i, j) BY <3>2, <5>1 <5> QED BY <4>1, <4>3, <5>2 <4> QED
             BY <4>2, <4>3
    <3>4. From(h, m)
      BY <3>3
    <3> QED
      BY <2>2, <3>4
  <2> QED
    BY <2>3, <2>4
<1> DEFINE P(h) == h = [n \in 0..Len(jobs) |-> WithoutBy(h, n, j)]
<1>2. \E h : P(h)
  <2>1. Len(jobs) \in Nat /\ Len(jobs) \notin T
    BY <1>1
  <2> QED
    BY <2>1
<1>3. Without(j) = CHOOSE h : P(h)
  BY DEF Without, WithoutBy
<1>4. P(CHOOSE h : P(h))
  <2> HIDE DEF P
  <2> QED
    BY <1>2
<1> QED
  BY <1>3, <1>4

(* Every entry Without keeps is one of another job.                        *)
LEMMA WithoutKeepsOthers ==
    ASSUME jobs \in Seq(Entries), NEW j, NEW n \in 0..Len(jobs)
    PROVE  /\ Without(j)[n] \in Seq(Entries)
           /\ \A i \in 1..Len(Without(j)[n]) :
                 Without(j)[n][i] \in Ledger /\ Without(j)[n][i].job # j
<1> DEFINE w == Without(j)
           Others(l) == l \in Seq(Entries)
                        /\ \A i \in 1..Len(l) : l[i] \in Ledger /\ l[i].job # j
           T == {k \in Nat : k <= Len(jobs) /\ ~Others(w[k])}
<1>1. \A k \in 0..Len(jobs) :
         w[k] = IF k = 0 THEN <<>>
                ELSE IF jobs[k].job = j THEN w[k - 1] ELSE Append(w[k - 1], jobs[k])
  <2>1. w = [k \in 0..Len(jobs) |-> WithoutBy(w, k, j)]
    BY WithoutIsDefined
  <2> HIDE DEF w
  <2>2. \A k \in 0..Len(jobs) : w[k] = WithoutBy(w, k, j)
    BY <2>1, Zenon
  <2> QED
    BY <2>2 DEF WithoutBy
<1> HIDE DEF w
<1>2. T = {}
  <2> SUFFICES ASSUME T # {} PROVE FALSE
    OBVIOUS
  <2>1. PICK m \in T : \A k \in T : m <= k
    BY Least
  <2>2. m \in Nat /\ m <= Len(jobs) /\ ~Others(w[m]) /\ m \in 0..Len(jobs)
    BY DEF Entries
  <2>3. CASE m = 0
    <3>1. w[m] = <<>>
      BY <1>1, <2>2, <2>3
    <3>2. Others(<<>>)
      OBVIOUS
    <3> QED
      BY <2>2, <3>1, <3>2
  <2>4. CASE m # 0
    <3>1. m - 1 \in Nat /\ m - 1 \notin T /\ m - 1 <= Len(jobs)
      BY <2>1, <2>2, <2>4
    <3>2. Others(w[m - 1])
      BY <3>1
    <3>3. m \in DOMAIN jobs /\ jobs[m] \in Entries /\ jobs[m] \in Ledger
      BY <2>2, <2>4 DEF Ledger
    <3>4. CASE jobs[m].job = j
      <4>1. w[m] = w[m - 1]
        BY <1>1, <2>2, <2>4, <3>4 <4> QED BY <2>2, <3>2, <4>1
    <3>5. CASE jobs[m].job # j
      <4> DEFINE l == w[m - 1]
      <4>1. w[m] = Append(l, jobs[m])
        BY <1>1, <2>2, <2>4, <3>5 <4>2. l \in Seq(Entries) /\ \A i \in 1..Len(l) :
           l[i] \in Ledger /\ l[i].job # j BY <3>2 <4> HIDE DEF l <4>3.
           Others(Append(l, jobs[m])) <5>1. Append(l, jobs[m]) \in Seq(Entries) /\
           Len(Append(l, jobs[m])) = Len(l) + 1 BY <3>3, <4>2 <5>2. ASSUME NEW i
           \in 1..Len(Append(l, jobs[m])) PROVE Append(l, jobs[m])[i] \in Ledger
           /\ Append(l, jobs[m])[i].job # j <6>1. CASE i <= Len(l) <7>1. Append(l,
           jobs[m])[i] = l[i] /\ i \in 1..Len(l) BY <4>2, <5>1, <6>1 <7> QED BY
           <4>2, <7>1 <6>2. CASE i > Len(l) <7>1. Append(l, jobs[m])[i] = jobs[m]
           BY <4>2, <5>1, <6>2 <7> QED BY <3>3, <3>5, <7>1 <6> QED BY <4>2, <6>1,
           <6>2 <5> QED BY <5>1, <5>2 <4> QED BY <2>2, <4>1, <4>3
    <3> QED
      BY <3>4, <3>5
  <2> QED
    BY <2>3, <2>4
<1>3. n \in Nat /\ n <= Len(jobs) /\ n \notin T
  BY <1>2
<1>4. Others(w[n])
  BY <1>3
<1> QED
  BY <1>4 DEF w

New(j, status, saved) == [job |-> j, status |-> status, config |-> saved]
LedgerTypeOK == jobs \in Seq(Entries) /\ Len(jobs) <= MaxJobs

\* The ledger afterwards is the one before with a new entry for job j.
Puts(j, status, saved) ==
    \A e \in Ledger' : e = New(j, status, saved) \/ (e \in Ledger /\ e.job # j)

(* However long the ledger is, a call of record_job replaces the entry of  *)
(* its job and keeps the ledger within MaxJobs entries.                    *)
LEMMA RecordsPuts ==
    ASSUME BackupAssumption, LedgerTypeOK, NEW j \in Jobs, NEW status \in Statuses,
           NEW saved \in Contents, Records(j, status, saved)
    PROVE  LedgerTypeOK' /\ Puts(j, status, saved)
<1> DEFINE new == New(j, status, saved)
           w == Without(j)[Len(jobs)]
           all == Append(w, new)
           from == IF Len(all) > MaxJobs THEN Len(all) - MaxJobs + 1 ELSE 1
<1>1. jobs' = SubSeq(all, from, Len(all))
  BY DEF Records, Recorded, New
<1>2. w \in Seq(Entries) /\ \A i \in 1..Len(w) : w[i] \in Ledger /\ w[i].job # j
  <2>1. Len(jobs) \in 0..Len(jobs)
    BY DEF LedgerTypeOK
  <2> QED
    BY <2>1, WithoutKeepsOthers DEF LedgerTypeOK
<1>3. new \in Entries
  BY DEF New, Entries, Statuses
<1> HIDE DEF new, w
<1>4. all \in Seq(Entries) /\ Len(all) = Len(w) + 1 /\ Len(all) \in Nat \ {0}
  BY <1>2, <1>3
<1>5. ASSUME NEW i \in 1..Len(all)
      PROVE  all[i] = new \/ (all[i] \in Ledger /\ all[i].job # j)
  <2>1. CASE i <= Len(w)
    <3>1. all[i] = w[i] /\ i \in 1..Len(w)
      BY <1>2, <1>4, <2>1
    <3> QED
      BY <1>2, <3>1
  <2>2. CASE i > Len(w)
    <3>1. i = Len(w) + 1
      BY <1>2, <1>4, <2>2
    <3>2. all[i] = new
      BY <1>2, <1>3, <3>1
    <3> HIDE DEF all
    <3> QED
      BY <3>2
  <2> QED
    BY <1>2, <2>1, <2>2
<1> HIDE DEF all
<1>6. from \in 1..Len(all) /\ Len(all) - from + 1 <= MaxJobs
  BY <1>4 DEF BackupAssumption
<1> HIDE DEF from
<1>7. /\ jobs' \in Seq(Entries) /\ Len(jobs') = Len(all) - from + 1
      /\ \A i \in 1..Len(jobs') : jobs'[i] = all[from + i - 1] /\ from + i - 1 \in 1..Len(all)
  BY <1>1, <1>4, <1>6
<1>8. LedgerTypeOK'
  BY <1>6, <1>7 DEF LedgerTypeOK
<1>9. ASSUME NEW e \in Ledger'
      PROVE  e = new \/ (e \in Ledger /\ e.job # j)
  <2>1. PICK i \in 1..Len(jobs') : e = jobs'[i]
    BY <1>7 DEF Ledger
  <2> QED
    BY <1>5, <1>7, <2>1
<1> QED
  BY <1>8, <1>9 DEF Puts, new

LEMMA RecordRaisesPuts ==
    ASSUME BackupAssumption, LedgerTypeOK, NEW j \in Jobs, NEW status \in Statuses,
           NEW saved \in Contents, RecordRaises(j, status, saved)
    PROVE  LedgerTypeOK' /\ (UNCHANGED jobs \/ Puts(j, status, saved))
<1>1. CASE UNCHANGED jobs
  BY <1>1 DEF LedgerTypeOK
<1>2. CASE Records(j, status, saved)
  BY <1>2, RecordsPuts
<1> QED
  BY <1>1, <1>2 DEF RecordRaises, Records

BackupStep(j) ==
    \/ Acquires(j) \/ IsBusy(j) \/ Loads(j) \/ SettlingFails(j) \/ Begins(j)
    \/ Collects(j) \/ Stages(j) \/ Publishes(j) \/ Fails(j)
    \/ RecordsFailure(j) \/ RecordsSuccess(j) \/ Releases(j)
    \/ RecordsWarning(j) \/ Killed(j)
    \/ \E k \in Jobs : Settles(j, k)

\* What a job finds out about another one.
Settled(j, k, status, saved) ==
    \/ status = "failed" /\ saved = None /\ ArchiveOf(k, jobTarget[j]) = {}
    \/ status = "unverified" /\ saved = None /\ ArchiveOf(k, jobTarget[j]) # {}
    \/ status = "success" /\ \E a \in ArchiveOf(k, jobTarget[j]) : saved = a.config

\* Who writes what into the ledger, and when.
Writes(j, k, status, saved) ==
    \/ /\ k = j /\ status = "running" /\ saved = None
       /\ jobStep[j] = "settles" /\ jobStep'[j] \in {"collects", "fails"}
    \/ /\ k = j /\ status = "skipped" /\ saved = None
       /\ jobStep[j] = "collects" /\ jobStep'[j] \in {"releases", "fails"}
    \/ /\ k = j /\ status = "failed" /\ saved = None
       /\ jobStep[j] = "fails" /\ jobStep'[j] = "releases"
    \/ /\ k = j /\ status = "success" /\ saved = collected[j]
       /\ jobStep[j] \in {"succeeds", "warns", "tidies"}
       /\ jobStep'[j] \in {"warns", "releases", "ended"}
    \/ /\ jobStep[j] = "settles" /\ jobStep' = jobStep /\ k \in toSettle[j]
       /\ Settled(j, k, status, saved)
       /\ toSettle' = [toSettle EXCEPT ![j] = @ \ {k}]

LedgerMoves(j) ==
    \/ UNCHANGED jobs
    \/ /\ UNCHANGED archives
       /\ \E k \in Jobs, status \in Statuses, saved \in Contents :
             Writes(j, k, status, saved) /\ Puts(k, status, saved)

LEMMA SettlesPuts ==
    ASSUME BackupAssumption, BackupInv, NEW j \in Jobs, NEW k \in Jobs, Settles(j, k)
    PROVE  /\ LedgerTypeOK'
           /\ \E status \in {"success", "failed", "unverified"}, saved \in Contents :
                 Settled(j, k, status, saved) /\ Puts(k, status, saved)
<1>0. LedgerTypeOK
  BY DEF BackupInv, BackupTypeOK, LedgerTypeOK
<1>1. None \in Contents /\ {"success", "failed", "unverified"} \subseteq Statuses
  BY DEF Contents, Statuses
<1>2. CASE ArchiveOf(k, jobTarget[j]) = {} /\ Records(k, "failed", None)
  <2>1. LedgerTypeOK' /\ Puts(k, "failed", None)
    BY <1>0, <1>1, <1>2, RecordsPuts
  <2> QED
    BY <1>1, <1>2, <2>1 DEF Settled
<1>3. CASE ArchiveOf(k, jobTarget[j]) # {} /\ Records(k, "unverified", None)
  <2>1. LedgerTypeOK' /\ Puts(k, "unverified", None)
    BY <1>0, <1>1, <1>3, RecordsPuts
  <2> QED
    BY <1>1, <1>3, <2>1 DEF Settled
<1>4. ASSUME NEW a \in ArchiveOf(k, jobTarget[j]), Records(k, "success", a.config)
      PROVE  /\ LedgerTypeOK'
             /\ \E status \in {"success", "failed", "unverified"}, saved \in Contents :
                   Settled(j, k, status, saved) /\ Puts(k, status, saved)
  <2>1. a.config \in Contents
    BY DEF BackupInv, BackupTypeOK, Archives, ArchiveOf
  <2>2. LedgerTypeOK' /\ Puts(k, "success", a.config)
    BY <1>0, <1>1, <1>4, <2>1, RecordsPuts
  <2> QED
    BY <1>4, <2>1, <2>2 DEF Settled
<1> QED
  BY <1>2, <1>3, <1>4 DEF Settles

LEMMA LedgerIsMoved ==
    ASSUME BackupAssumption, BackupInv, NEW j \in Jobs, BackupStep(j)
    PROVE  LedgerTypeOK' /\ LedgerMoves(j)
<1> USE DEF LedgerMoves, Writes, Statuses, Contents
<1>0. LedgerTypeOK /\ collected[j] \in Contents
  BY DEF BackupInv, BackupTypeOK, LedgerTypeOK
<1>a. \A s : Step(j, s) => jobStep'[j] = s
  BY DEF Step, BackupInv, BackupTypeOK
<1>1. CASE UNCHANGED jobs
  BY <1>0, <1>1 DEF LedgerTypeOK
<1>2. CASE Begins(j)
  <2>1. Records(j, "running", None) \/ RecordRaises(j, "running", None)
    BY <1>2 DEF Begins
  <2>2. LedgerTypeOK' /\ (UNCHANGED jobs \/ Puts(j, "running", None))
    BY <1>0, <2>1, RecordsPuts, RecordRaisesPuts
  <2>3. UNCHANGED archives /\ Writes(j, j, "running", None)
    BY <1>2, <1>a DEF Begins
  <2> QED
    BY <2>2, <2>3
<1>3. CASE Collects(j)
  <2>1. \/ UNCHANGED jobs
        \/ /\ Records(j, "skipped", None) \/ RecordRaises(j, "skipped", None)
           /\ jobStep'[j] \in {"releases", "fails"}
    BY <1>3, <1>a DEF Collects
  <2>2. CASE Records(j, "skipped", None) \/ RecordRaises(j, "skipped", None)
    <3>1. LedgerTypeOK' /\ (UNCHANGED jobs \/ Puts(j, "skipped", None))
      BY <1>0, <2>2, RecordsPuts, RecordRaisesPuts
    <3>2. UNCHANGED archives /\ jobStep[j] = "collects"
      BY <1>3 DEF Collects
    <3> QED
      BY <1>0, <2>1, <3>1, <3>2
  <2> QED
    BY <1>0, <2>1, <2>2 DEF LedgerTypeOK
<1>4. CASE RecordsFailure(j)
  <2>1. Records(j, "failed", None) \/ RecordRaises(j, "failed", None)
    BY <1>4 DEF RecordsFailure
  <2>2. LedgerTypeOK' /\ (UNCHANGED jobs \/ Puts(j, "failed", None))
    BY <1>0, <2>1, RecordsPuts, RecordRaisesPuts
  <2>3. UNCHANGED archives /\ Writes(j, j, "failed", None)
    BY <1>4, <1>a DEF RecordsFailure
  <2> QED
    BY <2>2, <2>3
<1>5. CASE RecordsSuccess(j) \/ RecordsWarning(j)
  <2>1. Records(j, "success", collected[j]) \/ RecordRaises(j, "success", collected[j])
    BY <1>5 DEF RecordsSuccess, RecordsWarning
  <2>2. LedgerTypeOK' /\ (UNCHANGED jobs \/ Puts(j, "success", collected[j]))
    BY <1>0, <2>1, RecordsPuts, RecordRaisesPuts
  <2>3. UNCHANGED archives /\ Writes(j, j, "success", collected[j])
    BY <1>5, <1>a DEF RecordsSuccess, RecordsWarning
  <2> QED
    BY <1>0, <2>2, <2>3
<1>6. ASSUME NEW k \in Jobs, Settles(j, k)
      PROVE  LedgerTypeOK' /\ LedgerMoves(j)
  <2>1. UNCHANGED archives /\ jobStep[j] = "settles" /\ jobStep' = jobStep /\ k \in toSettle[j]
        /\ toSettle' = [toSettle EXCEPT ![j] = @ \ {k}]
    BY <1>6 DEF Settles
  <2>2. PICK status \in {"success", "failed", "unverified"}, saved \in Contents :
           Settled(j, k, status, saved) /\ Puts(k, status, saved)
    BY <1>6, SettlesPuts
  <2>3. Writes(j, k, status, saved)
    BY <2>1, <2>2
  <2>4. status \in Statuses
    BY DEF Statuses
  <2> HIDE DEF Writes, Statuses, Contents
  <2>5. LedgerMoves(j)
    BY <2>1, <2>2, <2>3, <2>4
  <2> QED
    BY <1>6, <2>5, SettlesPuts
<1> QED
  BY <1>1, <1>2, <1>3, <1>4, <1>5, <1>6 DEF BackupStep, Acquires, IsBusy, Loads,
     SettlingFails, Stages, Publishes, Fails, Releases, Killed, ledgerVars

LEMMA JobTypesKept ==
    ASSUME BackupAssumption, BackupInv, NEW j \in Jobs, BackupStep(j)
    PROVE  BackupTypeOK'
<1>1. CASE Acquires(j)
  BY <1>1, LedgerIsMoved DEF Acquires, Step, BackupInv, BackupTypeOK,
     LedgerTypeOK, ledgerVars, Contents
<1>2. CASE IsBusy(j)
  BY <1>2, LedgerIsMoved DEF IsBusy, Step, BackupInv, BackupTypeOK, LedgerTypeOK,
     ledgerVars, Contents
<1>3. CASE Loads(j)
  <2>1. Entry("running") \in SUBSET Jobs
    <3>1. ASSUME NEW k \in Entry("running") PROVE k \in Jobs
      <4>1. PICK i \in DOMAIN jobs : k = jobs[i].job
        BY DEF Entry <4>2. jobs[i] \in Entries BY DEF BackupInv, BackupTypeOK <4>
           QED BY <4>1, <4>2 DEF Entries
    <3> QED
      BY <3>1
  <2> QED
    BY <1>3, <2>1 DEF Loads, Step, BackupInv, BackupTypeOK
<1>4. CASE SettlingFails(j)
  BY <1>4, LedgerIsMoved DEF SettlingFails, Step, BackupInv, BackupTypeOK,
     LedgerTypeOK, ledgerVars, Contents
<1>5. CASE Begins(j)
  BY <1>5, LedgerIsMoved DEF Begins, Step, BackupInv, BackupTypeOK, LedgerTypeOK,
     ledgerVars, Contents
<1>6. CASE Collects(j)
  BY <1>6, LedgerIsMoved DEF Collects, Step, BackupInv, BackupTypeOK,
     LedgerTypeOK, ledgerVars, Contents
<1>7. CASE Stages(j)
  BY <1>7, LedgerIsMoved DEF Stages, Step, BackupInv, BackupTypeOK, LedgerTypeOK,
     ledgerVars, Contents
<1>8. CASE Publishes(j)
  BY <1>8, LedgerIsMoved DEF Publishes, Step, BackupInv, BackupTypeOK,
     LedgerTypeOK, ledgerVars, Contents, Archives
<1>9. CASE Fails(j)
  BY <1>9, LedgerIsMoved DEF Fails, Step, BackupInv, BackupTypeOK, LedgerTypeOK,
     ledgerVars, Contents
<1>10. CASE RecordsFailure(j)
  BY <1>10, LedgerIsMoved DEF RecordsFailure, Step, BackupInv, BackupTypeOK,
     LedgerTypeOK, ledgerVars, Contents
<1>11. CASE RecordsSuccess(j)
  BY <1>11, LedgerIsMoved DEF RecordsSuccess, Step, BackupInv, BackupTypeOK,
     LedgerTypeOK, ledgerVars, Contents
<1>12. CASE Releases(j)
  BY <1>12, LedgerIsMoved DEF Releases, Step, BackupInv, BackupTypeOK,
     LedgerTypeOK, ledgerVars, Contents
<1>13. CASE RecordsWarning(j)
  BY <1>13, LedgerIsMoved DEF RecordsWarning, Step, BackupInv, BackupTypeOK,
     LedgerTypeOK, ledgerVars, Contents
<1>14. CASE Killed(j)
  BY <1>14, LedgerIsMoved DEF Killed, Step, BackupInv, BackupTypeOK, LedgerTypeOK,
     ledgerVars, Contents
<1>15. ASSUME NEW k \in Jobs, Settles(j, k)
      PROVE  BackupTypeOK'
  BY <1>15, LedgerIsMoved DEF Settles, Step, BackupInv, BackupTypeOK,
     LedgerTypeOK, ledgerVars, Contents
<1> QED
  BY <1>1, <1>2, <1>3, <1>4, <1>5, <1>6, <1>7, <1>8, <1>9, <1>10, <1>11, <1>12,
     <1>13, <1>14, <1>15 DEF BackupStep

LEMMA LeaseIsHeldKept ==
    ASSUME BackupAssumption, BackupInv, NEW j \in Jobs, BackupStep(j)
    PROVE  LeaseIsHeld'
<1>1. CASE Acquires(j)
  BY <1>1 DEF Acquires, Step, BackupInv, BackupTypeOK, LeaseIsHeld, Working,
     BackupAssumption
<1>2. CASE IsBusy(j)
  BY <1>2 DEF IsBusy, Step, BackupInv, BackupTypeOK, LeaseIsHeld, Working,
     BackupAssumption
<1>3. CASE Loads(j)
  BY <1>3 DEF Loads, Step, BackupInv, BackupTypeOK, LeaseIsHeld, Working,
     BackupAssumption
<1>4. CASE SettlingFails(j)
  BY <1>4 DEF SettlingFails, Step, BackupInv, BackupTypeOK, LeaseIsHeld, Working,
     BackupAssumption
<1>5. CASE Begins(j)
  BY <1>5 DEF Begins, Step, BackupInv, BackupTypeOK, LeaseIsHeld, Working,
     BackupAssumption
<1>6. CASE Collects(j)
  BY <1>6 DEF Collects, Step, BackupInv, BackupTypeOK, LeaseIsHeld, Working,
     BackupAssumption
<1>7. CASE Stages(j)
  BY <1>7 DEF Stages, Step, BackupInv, BackupTypeOK, LeaseIsHeld, Working,
     BackupAssumption
<1>8. CASE Publishes(j)
  BY <1>8 DEF Publishes, Step, BackupInv, BackupTypeOK, LeaseIsHeld, Working,
     BackupAssumption
<1>9. CASE Fails(j)
  BY <1>9 DEF Fails, Step, BackupInv, BackupTypeOK, LeaseIsHeld, Working,
     BackupAssumption
<1>10. CASE RecordsFailure(j)
  BY <1>10 DEF RecordsFailure, Step, BackupInv, BackupTypeOK, LeaseIsHeld,
     Working, BackupAssumption
<1>11. CASE RecordsSuccess(j)
  BY <1>11 DEF RecordsSuccess, Step, BackupInv, BackupTypeOK, LeaseIsHeld,
     Working, BackupAssumption
<1>12. CASE Releases(j)
  BY <1>12 DEF Releases, Step, ArchiveOf, BackupInv, BackupTypeOK, LeaseIsHeld,
     Working, BackupAssumption
<1>13. CASE RecordsWarning(j)
  BY <1>13 DEF RecordsWarning, Step, BackupInv, BackupTypeOK, LeaseIsHeld,
     Working, BackupAssumption
<1>14. CASE Killed(j)
  BY <1>14 DEF Killed, Step, BackupInv, BackupTypeOK, LeaseIsHeld, Working,
     BackupAssumption
<1>15. ASSUME NEW k \in Jobs, Settles(j, k)
      PROVE  LeaseIsHeld'
  BY <1>15 DEF Settles, Step, BackupInv, BackupTypeOK, LeaseIsHeld, Working,
     BackupAssumption
<1> QED
  BY <1>1, <1>2, <1>3, <1>4, <1>5, <1>6, <1>7, <1>8, <1>9, <1>10, <1>11, <1>12,
     <1>13, <1>14, <1>15 DEF BackupStep

LEMMA ArchivesAreOwnKept ==
    ASSUME BackupAssumption, BackupInv, NEW j \in Jobs, BackupStep(j)
    PROVE  ArchivesAreOwn'
<1>1. CASE Acquires(j)
  BY <1>1 DEF Acquires, Step, BackupInv, BackupTypeOK, ArchivesAreOwn, Archives
<1>2. CASE IsBusy(j)
  BY <1>2 DEF IsBusy, Step, BackupInv, BackupTypeOK, ArchivesAreOwn, Archives
<1>3. CASE Loads(j)
  BY <1>3 DEF Loads, Step, BackupInv, BackupTypeOK, ArchivesAreOwn, Archives
<1>4. CASE SettlingFails(j)
  BY <1>4 DEF SettlingFails, Step, BackupInv, BackupTypeOK, ArchivesAreOwn,
     Archives
<1>5. CASE Begins(j)
  BY <1>5 DEF Begins, Step, BackupInv, BackupTypeOK, ArchivesAreOwn, Archives
<1>6. CASE Collects(j)
  BY <1>6 DEF Collects, Step, BackupInv, BackupTypeOK, ArchivesAreOwn, Archives
<1>7. CASE Stages(j)
  BY <1>7 DEF Stages, Step, BackupInv, BackupTypeOK, ArchivesAreOwn, Archives
<1>8. CASE Publishes(j)
  <2>1. ASSUME NEW t \in Targets, NEW a \in archives'[t]
        PROVE  a \in archives[t] \/ (t = jobTarget[j] /\ a = [by |-> j, config |-> collected[j]])
    <3>1. archives \in [Targets -> SUBSET Archives]
          /\ archives' = [archives EXCEPT ![jobTarget[j]] =
                             archives[jobTarget[j]] \cup {[by |-> j, config |-> collected[j]]}]
      BY <1>8 DEF Publishes, BackupInv, BackupTypeOK
    <3>2. archives'[t] = IF t = jobTarget[j] THEN archives[t] \cup {[by |-> j, config |-> collected[j]]}
                         ELSE archives[t]
      BY <3>1
    <3>3. CASE t = jobTarget[j]
      BY <3>2, <3>3
    <3>4. CASE t # jobTarget[j]
      BY <3>2, <3>4
    <3> QED
      BY <3>3, <3>4
  <2> QED
    BY <1>8, <2>1 DEF Publishes, Step, BackupInv, BackupTypeOK, ArchivesAreOwn,
       Archives
<1>9. CASE Fails(j)
  BY <1>9 DEF Fails, Step, BackupInv, BackupTypeOK, ArchivesAreOwn, Archives
<1>10. CASE RecordsFailure(j)
  BY <1>10 DEF RecordsFailure, Step, BackupInv, BackupTypeOK, ArchivesAreOwn,
     Archives
<1>11. CASE RecordsSuccess(j)
  BY <1>11 DEF RecordsSuccess, Step, BackupInv, BackupTypeOK, ArchivesAreOwn,
     Archives
<1>12. CASE Releases(j)
  BY <1>12 DEF Releases, Step, ArchiveOf, BackupInv, BackupTypeOK, ArchivesAreOwn,
     Archives
<1>13. CASE RecordsWarning(j)
  BY <1>13 DEF RecordsWarning, Step, BackupInv, BackupTypeOK, ArchivesAreOwn,
     Archives
<1>14. CASE Killed(j)
  BY <1>14 DEF Killed, Step, BackupInv, BackupTypeOK, ArchivesAreOwn, Archives
<1>15. ASSUME NEW k \in Jobs, Settles(j, k)
      PROVE  ArchivesAreOwn'
  BY <1>15 DEF Settles, Step, BackupInv, BackupTypeOK, ArchivesAreOwn, Archives
<1> QED
  BY <1>1, <1>2, <1>3, <1>4, <1>5, <1>6, <1>7, <1>8, <1>9, <1>10, <1>11, <1>12,
     <1>13, <1>14, <1>15 DEF BackupStep

LEMMA PublishedHasArchiveKept ==
    ASSUME BackupAssumption, BackupInv, NEW j \in Jobs, BackupStep(j)
    PROVE  PublishedHasArchive'
<1>1. CASE Acquires(j)
  BY <1>1 DEF Acquires, Step, BackupInv, BackupTypeOK, ArchivesAreOwn,
     PublishedHasArchive
<1>2. CASE IsBusy(j)
  BY <1>2 DEF IsBusy, Step, BackupInv, BackupTypeOK, ArchivesAreOwn,
     PublishedHasArchive
<1>3. CASE Loads(j)
  BY <1>3 DEF Loads, Step, BackupInv, BackupTypeOK, ArchivesAreOwn,
     PublishedHasArchive
<1>4. CASE SettlingFails(j)
  BY <1>4 DEF SettlingFails, Step, BackupInv, BackupTypeOK, ArchivesAreOwn,
     PublishedHasArchive
<1>5. CASE Begins(j)
  BY <1>5 DEF Begins, Step, BackupInv, BackupTypeOK, ArchivesAreOwn,
     PublishedHasArchive
<1>6. CASE Collects(j)
  BY <1>6 DEF Collects, Step, BackupInv, BackupTypeOK, ArchivesAreOwn,
     PublishedHasArchive
<1>7. CASE Stages(j)
  BY <1>7 DEF Stages, Step, BackupInv, BackupTypeOK, ArchivesAreOwn,
     PublishedHasArchive
<1>8. CASE Publishes(j)
  BY <1>8 DEF Publishes, Step, BackupInv, BackupTypeOK, ArchivesAreOwn,
     PublishedHasArchive
<1>9. CASE Fails(j)
  BY <1>9 DEF Fails, Step, BackupInv, BackupTypeOK, ArchivesAreOwn,
     PublishedHasArchive
<1>10. CASE RecordsFailure(j)
  BY <1>10 DEF RecordsFailure, Step, BackupInv, BackupTypeOK, ArchivesAreOwn,
     PublishedHasArchive
<1>11. CASE RecordsSuccess(j)
  BY <1>11 DEF RecordsSuccess, Step, BackupInv, BackupTypeOK, ArchivesAreOwn,
     PublishedHasArchive
<1>12. CASE Releases(j)
  BY <1>12 DEF Releases, Step, ArchiveOf, BackupInv, BackupTypeOK, ArchivesAreOwn,
     PublishedHasArchive, Archives
<1>13. CASE RecordsWarning(j)
  BY <1>13 DEF RecordsWarning, Step, BackupInv, BackupTypeOK, ArchivesAreOwn,
     PublishedHasArchive
<1>14. CASE Killed(j)
  BY <1>14 DEF Killed, Step, BackupInv, BackupTypeOK, ArchivesAreOwn,
     PublishedHasArchive
<1>15. ASSUME NEW k \in Jobs, Settles(j, k)
      PROVE  PublishedHasArchive'
  BY <1>15 DEF Settles, Step, BackupInv, BackupTypeOK, ArchivesAreOwn,
     PublishedHasArchive
<1> QED
  BY <1>1, <1>2, <1>3, <1>4, <1>5, <1>6, <1>7, <1>8, <1>9, <1>10, <1>11, <1>12,
     <1>13, <1>14, <1>15 DEF BackupStep

\* What a step of job j leaves alone.
OtherJobsStay(j) ==
    /\ jobTarget' = jobTarget
    /\ \A t \in Targets : archives[t] \subseteq archives'[t]
    /\ \A i \in Jobs \ {j} : jobStep'[i] = jobStep[i] /\ toSettle'[i] = toSettle[i]

LEMMA StepFrame ==
    ASSUME BackupAssumption, BackupInv, NEW j \in Jobs, BackupStep(j)
    PROVE  OtherJobsStay(j)
<1>1. CASE Acquires(j)
  BY <1>1 DEF Acquires, Step, BackupInv, BackupTypeOK, ledgerVars, OtherJobsStay
<1>2. CASE IsBusy(j)
  BY <1>2 DEF IsBusy, Step, BackupInv, BackupTypeOK, ledgerVars, OtherJobsStay
<1>3. CASE Loads(j)
  BY <1>3 DEF Loads, Step, BackupInv, BackupTypeOK, ledgerVars, OtherJobsStay
<1>4. CASE SettlingFails(j)
  BY <1>4 DEF SettlingFails, Step, BackupInv, BackupTypeOK, ledgerVars,
     OtherJobsStay
<1>5. CASE Begins(j)
  BY <1>5 DEF Begins, Step, BackupInv, BackupTypeOK, ledgerVars, OtherJobsStay
<1>6. CASE Collects(j)
  BY <1>6 DEF Collects, Step, BackupInv, BackupTypeOK, ledgerVars, OtherJobsStay
<1>7. CASE Stages(j)
  BY <1>7 DEF Stages, Step, BackupInv, BackupTypeOK, ledgerVars, OtherJobsStay
<1>8. CASE Publishes(j)
  BY <1>8 DEF Publishes, Step, BackupInv, BackupTypeOK, ledgerVars, OtherJobsStay
<1>9. CASE Fails(j)
  BY <1>9 DEF Fails, Step, BackupInv, BackupTypeOK, ledgerVars, OtherJobsStay
<1>10. CASE RecordsFailure(j)
  BY <1>10 DEF RecordsFailure, Step, BackupInv, BackupTypeOK, ledgerVars,
     OtherJobsStay
<1>11. CASE RecordsSuccess(j)
  BY <1>11 DEF RecordsSuccess, Step, BackupInv, BackupTypeOK, ledgerVars,
     OtherJobsStay
<1>12. CASE Releases(j)
  BY <1>12 DEF Releases, Step, ArchiveOf, BackupInv, BackupTypeOK, ledgerVars,
     OtherJobsStay
<1>13. CASE RecordsWarning(j)
  BY <1>13 DEF RecordsWarning, Step, BackupInv, BackupTypeOK, ledgerVars,
     OtherJobsStay
<1>14. CASE Killed(j)
  BY <1>14 DEF Killed, Step, BackupInv, BackupTypeOK, ledgerVars, OtherJobsStay
<1>15. ASSUME NEW k \in Jobs, Settles(j, k)
      PROVE  OtherJobsStay(j)
  BY <1>15 DEF Settles, Step, BackupInv, BackupTypeOK, ledgerVars, OtherJobsStay
<1> QED
  BY <1>1, <1>2, <1>3, <1>4, <1>5, <1>6, <1>7, <1>8, <1>9, <1>10, <1>11, <1>12,
     <1>13, <1>14, <1>15 DEF BackupStep

LEMMA OpenIsRunningKept ==
    ASSUME BackupAssumption, BackupInv, NEW j \in Jobs, BackupStep(j)
    PROVE  OpenIsRunning'
<1> DEFINE Open == {"collects", "stages", "publishes"}
<1>0. jobTarget' = jobTarget /\ \A k \in Jobs \ {j} : jobStep'[k] = jobStep[k]
  BY StepFrame DEF OtherJobsStay
<1>1. LedgerTypeOK /\ LedgerTypeOK' /\ LedgerMoves(j)
  BY LedgerIsMoved DEF BackupInv, BackupTypeOK, LedgerTypeOK
<1>2. jobStep'[j] \in Open => \/ jobStep[j] \in Open /\ UNCHANGED jobs
                              \/ Records(j, "running", None)
  BY DEF BackupInv, BackupTypeOK, BackupStep, Acquires, IsBusy, Loads,
     SettlingFails, Begins, Collects, Stages, Publishes, Fails, RecordsFailure,
     RecordsSuccess, Releases, RecordsWarning, Killed, Settles, Step, ledgerVars
<1> SUFFICES ASSUME OneTarget, NEW e \in Ledger', jobStep'[e.job] \in Open
             PROVE  e.status = "running"
  BY <1>0 DEF OpenIsRunning, OneTarget
<1>3. e.job \in Jobs
  <2>1. PICK i \in DOMAIN jobs' : e = jobs'[i]
    BY DEF Ledger
  <2>2. e \in Entries
    BY <1>1, <2>1 DEF LedgerTypeOK
  <2> QED
    BY <2>2 DEF Entries
<1>4. CASE e.job = j /\ Records(j, "running", None)
  <2>1. Puts(j, "running", None)
    BY <1>1, <1>4, RecordsPuts DEF Statuses, Contents
  <2> QED
    BY <1>4, <2>1 DEF Puts, New
<1>5. CASE UNCHANGED jobs
  <2>1. e \in Ledger
    BY <1>5 DEF Ledger
  <2>2. CASE jobStep[e.job] \in Open
    BY <2>1, <2>2 DEF BackupInv, OpenIsRunning
  <2> QED
    BY <1>0, <1>2, <1>3, <1>4, <2>2
<1>6. CASE e.job # j
  <2>1. jobStep[e.job] \in Open
    BY <1>0, <1>3, <1>6
  <2>2. CASE e \in Ledger
    BY <2>1, <2>2 DEF BackupInv, OpenIsRunning
  <2>3. ASSUME NEW k \in Jobs, NEW status, NEW saved,
               Writes(j, k, status, saved), e = New(k, status, saved)
        PROVE  FALSE
    <3>1. k # j /\ e.job = k /\ jobStep[j] = "settles"
      BY <1>6, <2>3 DEF Writes, New
    <3>2. leaseOf[jobTarget[j]] = j /\ leaseOf[jobTarget[k]] = k
      BY <2>1, <3>1 DEF BackupInv, LeaseIsHeld, Working
    <3> QED
      BY <3>1, <3>2 DEF OneTarget
  <2> QED
    BY <1>1, <1>5, <2>2, <2>3 DEF LedgerMoves, Puts
<1> QED
  BY <1>2, <1>4, <1>5, <1>6

LEMMA RunningIsReadKept ==
    ASSUME BackupAssumption, BackupInv, NEW j \in Jobs, BackupStep(j)
    PROVE  RunningIsRead'
<1>0. /\ jobTarget' = jobTarget
      /\ \A k \in Jobs \ {j} : jobStep'[k] = jobStep[k] /\ toSettle'[k] = toSettle[k]
  BY StepFrame DEF OtherJobsStay
<1>1. LedgerMoves(j)
  BY LedgerIsMoved
<1>2. jobStep'[j] = "settles" => Loads(j) \/ \E k \in Jobs : Settles(j, k)
  BY DEF BackupInv, BackupTypeOK, BackupStep, Acquires, IsBusy, SettlingFails,
     Begins, Collects, Stages, Publishes, Fails, RecordsFailure, RecordsSuccess,
     Releases, RecordsWarning, Killed, Step, ledgerVars
<1> SUFFICES ASSUME NEW k \in Jobs, jobStep'[k] = "settles",
                    NEW e \in Ledger', e.status = "running"
             PROVE  e.job \in toSettle'[k] \/ jobTarget[e.job] # jobTarget[k]
  BY <1>0 DEF RunningIsRead
<1>3. CASE k # j
  <2>1. jobStep[k] = "settles" /\ toSettle'[k] = toSettle[k]
    BY <1>0, <1>3
  <2>2. CASE e \in Ledger
    BY <2>1, <2>2 DEF BackupInv, RunningIsRead
  <2>3. ASSUME NEW m \in Jobs, NEW status, NEW saved,
               Writes(j, m, status, saved), e = New(m, status, saved)
        PROVE  jobTarget[e.job] # jobTarget[k]
    <3>1. e.job = j /\ jobStep[j] = "settles"
      BY <2>3 DEF Writes, New, Settled
    <3>2. leaseOf[jobTarget[j]] = j /\ leaseOf[jobTarget[k]] = k
      BY <2>1, <3>1 DEF BackupInv, LeaseIsHeld, Working
    <3> QED
      BY <1>3, <3>1, <3>2
  <2>4. CASE UNCHANGED jobs
    BY <2>2, <2>4 DEF Ledger
  <2> QED
    BY <1>1, <2>2, <2>3, <2>4 DEF LedgerMoves, Puts
<1>4. CASE k = j /\ Loads(j)
  <2>1. e \in Ledger /\ toSettle'[k] = Entry("running")
    BY <1>4 DEF Loads, Ledger, BackupInv, BackupTypeOK
  <2> QED
    BY <2>1 DEF Ledger, Entry
<1>5. ASSUME k = j, NEW m \in Jobs, Settles(j, m)
      PROVE  e.job \in toSettle'[k] \/ jobTarget[e.job] # jobTarget[k]
  <2>1. e \in Ledger /\ e.job # m
    BY <1>5, SettlesPuts DEF Puts, New
  <2>2. e.job \in toSettle[j] \/ jobTarget[e.job] # jobTarget[j]
    BY <1>5, <2>1 DEF Settles, BackupInv, RunningIsRead
  <2>3. toSettle'[j] = toSettle[j] \ {m}
    BY <1>5 DEF Settles, BackupInv, BackupTypeOK
  <2> QED
    BY <1>5, <2>1, <2>2, <2>3
<1> QED
  BY <1>2, <1>3, <1>4, <1>5

LEMMA SuccessHasArchiveKept ==
    ASSUME BackupAssumption, BackupInv, NEW j \in Jobs, BackupStep(j)
    PROVE  SuccessHasArchive'
<1> DEFINE Saved(e) == [by |-> e.job, config |-> e.config] \in archives[jobTarget[e.job]]
<1>0. jobTarget' = jobTarget /\ \A t \in Targets : archives[t] \subseteq archives'[t]
  BY StepFrame DEF OtherJobsStay
<1>1. LedgerTypeOK' /\ LedgerMoves(j)
  BY LedgerIsMoved
<1>2. \A e \in Ledger : e.status = "success" => Saved(e)
  BY DEF BackupInv, SuccessHasArchive, Ledger
<1>3. ASSUME NEW e \in Ledger', e.status = "success"
      PROVE  Saved(e)
  <2>1. CASE e \in Ledger
    BY <1>2, <1>3, <2>1
  <2>2. ASSUME NEW k \in Jobs, NEW status, NEW saved,
               Writes(j, k, status, saved), e = New(k, status, saved)
        PROVE  Saved(e)
    <3>1. e.job = k /\ e.config = saved /\ status = "success"
      BY <1>3, <2>2 DEF New
    <3>2. CASE k = j /\ saved = collected[j] /\ jobStep[j] \in {"succeeds", "warns", "tidies"}
      BY <3>1, <3>2 DEF BackupInv, PublishedHasArchive
    <3>3. ASSUME NEW a \in ArchiveOf(k, jobTarget[j]), saved = a.config
          PROVE  Saved(e)
      <4>1. a \in archives[jobTarget[j]] /\ a \in Archives /\ a.by = k
        BY DEF ArchiveOf, BackupInv, BackupTypeOK <4>2. jobTarget[k] =
           jobTarget[j] BY <4>1 DEF BackupInv, BackupTypeOK, ArchivesAreOwn <4>3.
           a = [by |-> k, config |-> saved] BY <3>3, <4>1 DEF Archives <4> QED BY
           <3>1, <4>1, <4>2, <4>3
    <3> QED
      BY <2>2, <3>1, <3>2, <3>3 DEF Writes, Settled
  <2>3. CASE UNCHANGED jobs
    BY <2>1, <2>3 DEF Ledger
  <2> QED
    BY <1>1, <2>1, <2>2, <2>3 DEF LedgerMoves, Puts
<1>4. ASSUME NEW i \in DOMAIN jobs', jobs'[i].status = "success"
      PROVE  [by |-> jobs'[i].job, config |-> jobs'[i].config] \in archives'[jobTarget'[jobs'[i].job]]
  <2>1. jobs'[i] \in Ledger' /\ jobs'[i] \in Entries
    BY <1>1 DEF Ledger, LedgerTypeOK
  <2>2. Saved(jobs'[i]) /\ jobTarget[jobs'[i].job] \in Targets
    BY <1>3, <1>4, <2>1 DEF Entries, BackupInv, BackupTypeOK
  <2> QED
    BY <1>0, <2>2
<1> QED
  BY <1>4 DEF SuccessHasArchive

LEMMA PublishedIsNamedKept ==
    ASSUME BackupAssumption, BackupInv, NEW j \in Jobs, BackupStep(j)
    PROVE  PublishedIsNamed'
<1> DEFINE Unsaved(e) == \A a \in archives[jobTarget[e.job]] : a.by # e.job
<1>0. jobTarget' = jobTarget
  BY StepFrame DEF OtherJobsStay
<1>1. LedgerTypeOK' /\ LedgerMoves(j)
  BY LedgerIsMoved
<1> SUFFICES ASSUME OneTarget, NEW i \in DOMAIN jobs', jobs'[i].status \in {"failed", "skipped"},
                    NEW a \in archives'[jobTarget[jobs'[i].job]], a.by = jobs'[i].job
             PROVE  FALSE
  BY <1>0 DEF PublishedIsNamed, OneTarget, ArchiveOf
<1> DEFINE e == jobs'[i]
<1>2. e \in Ledger' /\ e \in Entries
  BY <1>1 DEF Ledger, LedgerTypeOK
<1> HIDE DEF e
<1>3. e.status \in {"failed", "skipped"} /\ e.job \in Jobs
      /\ a \in archives'[jobTarget[e.job]] /\ a.by = e.job
  BY <1>2 DEF e, Entries
<1>4. ASSUME e \in Ledger PROVE Unsaved(e) /\ (OneTarget => jobStep[e.job] # "publishes")
  BY <1>3, <1>4 DEF BackupInv, PublishedIsNamed, OpenIsRunning, OneTarget,
     ArchiveOf, Ledger
<1>5. CASE UNCHANGED jobs
  <2>1. e \in Ledger
    BY <1>2, <1>5 DEF Ledger
  <2>2. ~Publishes(j) => UNCHANGED archives
    BY DEF BackupStep, Acquires, IsBusy, Loads, SettlingFails, Begins, Collects,
       Stages, Fails, RecordsFailure, RecordsSuccess, Releases, RecordsWarning,
       Killed, Settles
  <2>3. CASE Publishes(j)
    <3>1. e.job # j
      BY <1>4, <2>1, <2>3 DEF Publishes
    <3>2. a \in archives[jobTarget[e.job]] \/ a.by = j
      <4>1. jobTarget[e.job] \in Targets /\ jobTarget[j] \in Targets
        BY <1>3 DEF BackupInv, BackupTypeOK <4> QED BY <1>3, <2>3, <4>1 DEF
           Publishes, BackupInv, BackupTypeOK
    <3> QED
      BY <1>3, <1>4, <2>1, <3>1, <3>2
  <2> QED
    BY <1>3, <1>4, <2>1, <2>2, <2>3
<1>6. ASSUME UNCHANGED archives, NEW k \in Jobs, NEW status, NEW saved,
             Writes(j, k, status, saved), Puts(k, status, saved)
      PROVE  FALSE
  <2>1. CASE e \in Ledger
    BY <1>3, <1>4, <1>6, <2>1
  <2>2. CASE e = New(k, status, saved)
    <3>1. e.job = k /\ status \in {"failed", "skipped"} /\ a \in archives[jobTarget[k]] /\ a.by = k
      BY <1>3, <1>6, <2>2 DEF New
    <3>2. jobStep[k] \in {"succeeds", "warns", "releases", "tidies", "ended", "killed"}
      BY <3>1 DEF BackupInv, BackupTypeOK, ArchivesAreOwn
    <3>3. Settled(j, k, status, saved)
      BY <1>6, <3>1, <3>2 DEF Writes
    <3> QED
      BY <3>1, <3>3 DEF Settled, ArchiveOf, OneTarget
  <2> QED
    BY <1>2, <1>6, <2>1, <2>2 DEF Puts
<1> QED
  BY <1>1, <1>5, <1>6 DEF LedgerMoves

THEOREM BackupInvariant == BackupSpec => []BackupInv
<1>1. BackupInit => BackupInv
  BY BackupAssumption DEF BackupInit, BackupInv, BackupTypeOK, LeaseIsHeld,
     ArchivesAreOwn, PublishedHasArchive, OpenIsRunning, RunningIsRead,
     SuccessHasArchive, PublishedIsNamed, Ledger, Working, Contents
<1>2. ASSUME BackupInv, NEW j \in Jobs, BackupStep(j)
      PROVE  BackupInv'
  BY <1>2, BackupAssumption, JobTypesKept, LeaseIsHeldKept, ArchivesAreOwnKept,
     PublishedHasArchiveKept, OpenIsRunningKept, RunningIsReadKept,
     SuccessHasArchiveKept, PublishedIsNamedKept DEF BackupInv
<1>3. ASSUME BackupInv, ConfigChanges \/ UNCHANGED backupVars
      PROVE  BackupInv'
  <2>1. /\ UNCHANGED <<jobStep, jobTarget, leaseOf, jobs, toSettle, collected, archives>>
        /\ config' \in 0..Versions
    BY <1>3, BackupAssumption DEF ConfigChanges, backupVars, ledgerVars,
       BackupInv, BackupTypeOK
  <2>2. BackupTypeOK'
    BY <1>3, <2>1 DEF BackupInv, BackupTypeOK
  <2>3. (LeaseIsHeld /\ ArchivesAreOwn /\ PublishedHasArchive)'
    BY <1>3, <2>1 DEF BackupInv, LeaseIsHeld, ArchivesAreOwn, PublishedHasArchive
  <2>4. Ledger' = Ledger
    BY <2>1 DEF Ledger
  <2>5. (OpenIsRunning /\ RunningIsRead)'
    BY <1>3, <2>1, <2>4 DEF BackupInv, OpenIsRunning, RunningIsRead, OneTarget
  <2>6. (SuccessHasArchive /\ PublishedIsNamed)'
    BY <1>3, <2>1 DEF BackupInv, SuccessHasArchive, PublishedIsNamed, ArchiveOf
  <2> QED
    BY <2>2, <2>3, <2>5, <2>6 DEF BackupInv
<1>4. BackupInv /\ [BackupNext]_backupVars => BackupInv'
  BY <1>2, <1>3 DEF BackupNext, BackupStep
<1> QED
  BY <1>1, <1>4, PTL DEF BackupSpec

(* backup_state.py:394 - for any number of jobs and targets, and for a     *)
(* ledger of any length: what it calls a success has its archive with the  *)
(* configuration it names; as long as all jobs write to one target an      *)
(* archive that was published is not forgotten, its entry being neither    *)
(* skipped nor a failure without its name; and a job that begins leaves no *)
(* entry of a dead one of its target.                                      *)
THEOREM LedgerStaysTrue == BackupSpec => LedgerIsTrue
<1>1. BackupInv => BackupTypeOK /\ SuccessHasArchive /\ PublishedIsNamed
  BY DEF BackupInv
<1>2. ASSUME BackupInv, BackupNext, NEW j \in Jobs,
             jobStep[j] = "settles", jobStep'[j] = "collects",
             NEW k \in Entry("running")
      PROVE  jobTarget[k] # jobTarget[j]
  <2>1. toSettle[j] = {}
    <3>1. CASE Begins(j)
      BY <3>1 DEF Begins
    <3>2. CASE \E i \in Jobs : BackupStep(i)
      <4>1. PICK i \in Jobs : BackupStep(i)
        BY <3>2 <4>2. i = j BY <1>2, <4>1, StepFrame, BackupAssumption DEF
           OtherJobsStay <4> QED BY <1>2, <4>1, <4>2 DEF BackupInv, BackupTypeOK,
           BackupStep, Acquires, IsBusy, Loads, SettlingFails, Begins, Collects,
           Stages, Publishes, Fails, RecordsFailure, RecordsSuccess, Releases,
           RecordsWarning, Killed, Settles, Step
    <3> QED
      BY <1>2, <3>2 DEF BackupNext, BackupStep, ConfigChanges
  <2>2. PICK i \in DOMAIN jobs : jobs[i].status = "running" /\ k = jobs[i].job
    BY DEF Entry
  <2> QED
    BY <1>2, <2>1, <2>2 DEF BackupInv, RunningIsRead, Ledger
<1>3. BackupInv /\ [BackupNext]_backupVars
        => [\A j \in Jobs : jobStep[j] = "settles" /\ jobStep'[j] = "collects" =>
              \A k \in Entry("running") : jobTarget[k] # jobTarget[j]]_backupVars
  BY <1>2
<1> QED
  BY <1>1, <1>3, BackupInvariant, PTL DEF LedgerIsTrue, BeginSettles, BackupSpec

-----------------------------------------------------------------------------
(* The four properties of the run, for every value of the constants.       *)
THEOREM SharedFilesStay ==
    AllSpec => /\ [](ExclusiveUnlessDisplaced /\ LiveLockKept)
               /\ OnlyProvedGoneDeleted /\ LedgerIsTrue
<1>1. AllInit => Init /\ BackupInit
  BY DEF AllInit
<1>2. [AllNext]_allVars => [Next]_vars /\ [BackupNext]_backupVars
  BY DEF AllNext, allVars
<1> QED
  BY <1>1, <1>2, LiveLocksAreKept, Exclusion, DeletionsAreProved, LedgerStaysTrue, PTL
     DEF AllSpec, Spec, BackupSpec
=============================================================================
