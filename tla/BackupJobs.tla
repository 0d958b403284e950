----------------------------- MODULE BackupJobs -----------------------------
(***************************************************************************)
(* create_backup (backup.py) with its ledger of jobs                       *)
(* (backup_state.py).  A job takes the lock of its target directory,       *)
(* settles the jobs the ledger still calls `running`, records itself,      *)
(* collects the artifacts, leaves out a configuration that an earlier job  *)
(* has already saved, stages an archive, publishes it by a rename and      *)
(* records the success.  The ledger is one file for all targets, the lock  *)
(* is one per target, so jobs of two targets run at the same time.         *)
(*                                                                         *)
(* Every job is a process.  An archive is named after its job; what is in  *)
(* it is the version of the configuration it saved, or None.  Each call of *)
(* record_job is atomic (a flock around read, change and write).           *)
(***************************************************************************)
EXTENDS Integers, Sequences

CONSTANTS Jobs,      \* the jobs, each a process
          Targets,   \* the directories backups are written to
          MaxJobs,   \* MAX_BACKUP_STATE_JOBS
          Versions,  \* bound: how often the configuration changes
          None

ASSUME BackupAssumption ==
    /\ MaxJobs \in Nat \ {0}
    /\ Versions \in Nat
    /\ None \notin Jobs \cup Targets

VARIABLES
    jobStep,    \* what each job does next
    jobTarget,  \* the directory it writes to
    leaseOf,    \* who holds the lock of each target
    jobs,       \* the ledger: the entries in the order they were recorded
    toSettle,   \* the running entries a job has read and not yet settled
    config,     \* the configuration: how often it was changed
    collected,  \* what a job saves: a version of the configuration or None
    archives    \* what each target holds: the job and the configuration

ledgerVars == <<jobs, toSettle>>
backupVars == <<jobStep, jobTarget, leaseOf, ledgerVars, config, collected,
                archives>>

Contents == (0..Versions) \cup {None}
Archives == [by : Jobs, config : Contents]
\* A job that failed before it had published anything is recorded without the
\* name of an archive.  `unverified` is the other kind of `failed`: with the
\* name of an archive that is there and did not pass verify_backup.
Statuses == {"running", "success", "failed", "unverified", "skipped"}
Entries == [job : Jobs, status : Statuses, config : Contents]

BackupTypeOK ==
    /\ jobStep \in [Jobs -> {"starts", "loads", "settles", "records", "collects",
                             "stages", "publishes", "succeeds", "warns", "fails",
                             "releases", "tidies", "ended", "killed"}]
    /\ jobTarget \in [Jobs -> Targets]
    /\ leaseOf \in [Targets -> Jobs \cup {None}]
    /\ jobs \in Seq(Entries) /\ Len(jobs) <= MaxJobs
    /\ toSettle \in [Jobs -> SUBSET Jobs]
    /\ config \in 0..Versions
    /\ collected \in [Jobs -> Contents]
    /\ archives \in [Targets -> SUBSET Archives]

BackupInit ==
    /\ jobStep = [j \in Jobs |-> "starts"]
    /\ jobTarget \in [Jobs -> Targets]
    /\ leaseOf = [t \in Targets |-> None]
    /\ jobs = <<>>
    /\ toSettle = [j \in Jobs |-> {}]
    /\ config = 0
    /\ collected = [j \in Jobs |-> None]
    /\ archives = [t \in Targets |-> {}]

Step(j, s) == jobStep' = [jobStep EXCEPT ![j] = s]

\* What the first n entries of the ledger are without those of job j.
Without(j) ==
    LET others[n \in 0..Len(jobs)] ==
            IF n = 0 THEN <<>>
            ELSE IF jobs[n].job = j THEN others[n - 1] ELSE Append(others[n - 1], jobs[n])
    IN  others

\* The ledger after record_job: the entry of the job is replaced and moves to
\* the end, the oldest ones are dropped.
Recorded(j, status, saved) ==
    LET all == Append(Without(j)[Len(jobs)], [job |-> j, status |-> status, config |-> saved])
    IN SubSeq(all, IF Len(all) > MaxJobs THEN Len(all) - MaxJobs + 1 ELSE 1, Len(all))

\* A call of record_job, which may raise before or after it took effect.
Records(j, status, saved) == jobs' = Recorded(j, status, saved)
RecordRaises(j, status, saved) == jobs' \in {jobs, Recorded(j, status, saved)}

Entry(status) == {jobs[i].job : i \in {k \in DOMAIN jobs : jobs[k].status = status}}
ArchiveOf(j, t) == {a \in archives[t] : a.by = j}

-----------------------------------------------------------------------------
Acquires(j) ==
    /\ jobStep[j] = "starts"
    /\ leaseOf[jobTarget[j]] = None
    /\ leaseOf' = [leaseOf EXCEPT ![jobTarget[j]] = j]
    /\ Step(j, "loads")
    /\ UNCHANGED <<jobTarget, ledgerVars, config, collected, archives>>

\* The target stays locked for longer than BACKUP_LOCK_TIMEOUT_SECONDS.
IsBusy(j) ==
    /\ jobStep[j] = "starts"
    /\ leaseOf[jobTarget[j]] # None
    /\ Step(j, "ended")
    /\ UNCHANGED <<jobTarget, leaseOf, ledgerVars, config, collected, archives>>

Loads_Nothing(j) ==
    /\ jobStep[j] = "loads"
    /\ Step(j, "settles")
    /\ UNCHANGED <<jobTarget, leaseOf, ledgerVars, config, collected, archives>>

Loads(j) ==
    /\ jobStep[j] = "loads"
    /\ toSettle' = [toSettle EXCEPT ![j] = Entry("running")]
    /\ Step(j, "settles")
    /\ UNCHANGED <<jobTarget, leaseOf, jobs, config, collected, archives>>

\* Every interrupted job called a failure, whatever the target holds.
Settles_AllFailed(j, k) ==
    /\ jobStep[j] = "settles"
    /\ k \in toSettle[j]
    /\ Records(k, "failed", None)
    /\ toSettle' = [toSettle EXCEPT ![j] = @ \ {k}]
    /\ UNCHANGED <<jobStep, jobTarget, leaseOf, config, collected, archives>>

\* An entry read as running is a failure if this target does not have its
\* archive.  If it does, verify_backup reads the archive, which may not succeed
\* (a read error, a key that is not at hand), and what it finds is recorded.
Settles(j, k) ==
    /\ jobStep[j] = "settles"
    /\ k \in toSettle[j]
    /\ LET kept == ArchiveOf(k, jobTarget[j])
       IN  \/ kept = {} /\ Records(k, "failed", None)
           \/ kept # {} /\ Records(k, "unverified", None)
           \/ \E a \in kept : Records(k, "success", a.config)
    /\ toSettle' = [toSettle EXCEPT ![j] = @ \ {k}]
    /\ UNCHANGED <<jobStep, jobTarget, leaseOf, config, collected, archives>>

\* Whatever raises before the job is recorded, like an archive that cannot be
\* inspected or is not a plain file, leaves the ledger as it is.
SettlingFails(j) ==
    /\ jobStep[j] \in {"loads", "settles"}
    /\ Step(j, "releases")
    /\ toSettle' = [toSettle EXCEPT ![j] = {}]
    /\ UNCHANGED <<jobTarget, leaseOf, jobs, config, collected, archives>>

Begins(j) ==
    /\ jobStep[j] = "settles" /\ toSettle[j] = {}
    /\ \/ Records(j, "running", None) /\ Step(j, "collects")
       \/ RecordRaises(j, "running", None) /\ Step(j, "fails")
    /\ UNCHANGED <<jobTarget, leaseOf, toSettle, config, collected, archives>>

HasUnchangedArtifact(version) ==
    \E i \in DOMAIN jobs : jobs[i].status = "success" /\ jobs[i].config = version

\* There may be transcripts and recordings to save besides.
Collects(j) ==
    /\ jobStep[j] = "collects"
    /\ \E others \in BOOLEAN :
         IF HasUnchangedArtifact(config)
         THEN /\ UNCHANGED collected
              /\ IF others THEN Step(j, "stages") /\ UNCHANGED jobs
                 ELSE \/ Records(j, "skipped", None) /\ Step(j, "releases")
                      \/ RecordRaises(j, "skipped", None) /\ Step(j, "fails")
         ELSE /\ collected' = [collected EXCEPT ![j] = config]
              /\ Step(j, "stages") /\ UNCHANGED jobs
    /\ UNCHANGED <<jobTarget, leaseOf, toSettle, config, archives>>

StillCollected(j) == collected[j] \in {None, config}

\* The success recorded before the rename that publishes the archive.
Stages_RecordingSuccess(j) ==
    /\ jobStep[j] = "stages"
    /\ StillCollected(j)
    /\ Records(j, "success", collected[j])
    /\ Step(j, "publishes")
    /\ UNCHANGED <<jobTarget, leaseOf, toSettle, config, collected, archives>>

\* A source that is not what was collected any more is refused.
Stages(j) ==
    /\ jobStep[j] = "stages"
    /\ StillCollected(j)
    /\ Step(j, "publishes")
    /\ UNCHANGED <<jobTarget, leaseOf, ledgerVars, config, collected, archives>>

Publishes(j) ==
    /\ jobStep[j] = "publishes"
    /\ archives' = [archives EXCEPT ![jobTarget[j]] =
                      @ \cup {[by |-> j, config |-> collected[j]]}]
    /\ Step(j, "succeeds")
    /\ UNCHANGED <<jobTarget, leaseOf, ledgerVars, config, collected>>

Fails(j) ==
    /\ jobStep[j] \in {"collects", "stages", "publishes"}
    /\ Step(j, "fails")
    /\ UNCHANGED <<jobTarget, leaseOf, ledgerVars, config, collected, archives>>

RecordsFailure(j) ==
    /\ jobStep[j] = "fails"
    /\ Records(j, "failed", None) \/ RecordRaises(j, "failed", None)
    /\ Step(j, "releases")
    /\ UNCHANGED <<jobTarget, leaseOf, toSettle, config, collected, archives>>

\* What fails after the publication is a warning; the success is recorded
\* once more, and that may fail as well.
RecordsSuccess(j) ==
    /\ jobStep[j] \in {"succeeds", "warns"}
    /\ \/ Records(j, "success", collected[j]) /\ Step(j, "releases")
       \/ /\ RecordRaises(j, "success", collected[j])
          /\ Step(j, IF jobStep[j] = "succeeds" THEN "warns" ELSE "releases")
    /\ UNCHANGED <<jobTarget, leaseOf, toSettle, config, collected, archives>>

Releases(j) ==
    /\ jobStep[j] = "releases"
    /\ leaseOf' = [leaseOf EXCEPT ![jobTarget[j]] = None]
    /\ \/ Step(j, "ended")
       \/ ArchiveOf(j, jobTarget[j]) # {} /\ Step(j, "tidies")
    /\ UNCHANGED <<jobTarget, ledgerVars, config, collected, archives>>

\* Something of the staging could not be removed: a published job records its
\* success again, with this warning and without the lock.
RecordsWarning(j) ==
    /\ jobStep[j] = "tidies"
    /\ RecordRaises(j, "success", collected[j])
    /\ Step(j, "ended")
    /\ UNCHANGED <<jobTarget, leaseOf, toSettle, config, collected, archives>>

\* The kernel releases the lock of a killed job.
Killed(j) ==
    /\ jobStep[j] \notin {"starts", "ended", "killed"}
    /\ leaseOf' = [t \in Targets |-> IF leaseOf[t] = j THEN None ELSE leaseOf[t]]
    /\ Step(j, "killed")
    /\ UNCHANGED <<jobTarget, ledgerVars, config, collected, archives>>

ConfigChanges ==
    /\ config < Versions
    /\ config' = config + 1
    /\ UNCHANGED <<jobStep, jobTarget, leaseOf, ledgerVars, collected, archives>>

BackupNext ==
    \/ ConfigChanges
    \/ \E j \in Jobs :
         \/ Acquires(j) \/ IsBusy(j) \/ Loads(j) \/ SettlingFails(j) \/ Begins(j)
         \/ Collects(j) \/ Stages(j) \/ Publishes(j) \/ Fails(j)
         \/ RecordsFailure(j) \/ RecordsSuccess(j) \/ Releases(j)
         \/ RecordsWarning(j) \/ Killed(j)
         \/ \E k \in Jobs : Settles(j, k)

BackupSpec == BackupInit /\ [][BackupNext]_backupVars

-----------------------------------------------------------------------------
\* backup.py:962 - what the ledger calls a success has its archive, with the
\* configuration the ledger says it has: else a later job would leave that
\* configuration out although it is saved nowhere.
SuccessHasArchive ==
    \A i \in DOMAIN jobs : jobs[i].status = "success" =>
        [by |-> jobs[i].job, config |-> jobs[i].config]
            \in archives[jobTarget[jobs[i].job]]

\* backup.py:315 - as long as all jobs write to one target, an archive that
\* was published is not forgotten: when its job has ended, its entry is not
\* `skipped`, and if it is `failed` it names the archive (`unverified`), never
\* one of a backup "interrupted before archive publication".
PublishedIsNamed ==
    (\A j, k \in Jobs : jobTarget[j] = jobTarget[k]) =>
        \A i \in DOMAIN jobs : jobs[i].status \in {"failed", "skipped"} =>
            ArchiveOf(jobs[i].job, jobTarget[jobs[i].job]) = {}

\* backup.py:865 - a job that begins leaves no entry `running` of a job of its
\* own target which is not running any more.
BeginSettles ==
    [][\A j \in Jobs : jobStep[j] = "settles" /\ jobStep'[j] = "collects" =>
         \A k \in Entry("running") : jobTarget[k] # jobTarget[j]]_backupVars

\* What the ledger says of a job is what became of its archive, and a job that
\* begins leaves no entry of a dead one of its target.
LedgerIsTrue == [](BackupTypeOK /\ SuccessHasArchive /\ PublishedIsNamed) /\ BeginSettles
=============================================================================
