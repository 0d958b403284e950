# A verification of speed-of-cinnamon

TLA+ models of the backend of speed-of-cinnamon, the TLC configurations that
check them, and proofs checked by TLAPS. Paths are those of the repository;
`cli.py`, `state.py`, ... are under `src/speed_of_cinnamon/`.

* [The system](#the-system) - parts, state, operations, what is hard
* [The modules](#the-modules) - what models what, and what is abstracted
* [The runs](#the-runs) - what TLC checks, with which bounds, and why they do
* [The proofs](#the-proofs) - what TLAPS proves, from what, and how
* [Where the code and what is said of it differ](#where-the-code-and-what-is-said-of-it-differ)
* [What is not modelled](#what-is-not-modelled)
* [The plan](#the-plan)

## The system

A key binding of the Cinnamon applet starts a dictation, and again ends it. The
applet (`applet.js`) does nothing of that itself: it runs the command line,
`speed-of-cinnamon start | stop | toggle | cancel | status ...`, and each
command is a process of its own. Nothing runs between two commands but the
recorder, a child that outlives the `start` that launched it. So everything the
commands know of each other is on disk, and any of them may be killed at any
point: the applet itself kills a command that exceeds its deadline
(`applet.js:261`, `force_exit`), and it always asks for `--insert-method none`.

    applet.js / terminal
        |  processes: start, stop, toggle, cancel, status, cleanup, alarms, ...
        v
    process_priority.py    every command starts itself again in a systemd scope
        |
    cli.py ---- the lock .state.json.finalizing (one command at a time)
      |   \---- state.json (state.py), written by path_safety.py under a flock
      |---- recorder.py: pw-record, parecord or arecord, in a scope of its own
      |---- finalize_recording: transcriber, postprocessor, output, cleanup
      |         |---- command_chain.py: local programs, bounded
      |         |---- process_priority.py: a local model behind a gate or a supervisor
      |         \---- remote_http.py: a model server, by a worker process
      \---- alarms, backups, settings export, models, logs, passphrase, doctor, ...

| part | state it keeps | operations | interacts by | what is hard | what makes it correct |
|---|---|---|---|---|---|
| finalization lock (`cli.py:823-1673`) | `.state.json.finalizing`: the pid and start identity of its owner, later a recorder's and its scope | acquire, reclaim, hand over, release | a file in the state directory | five reads in five opens before a removal, reused pids, kills, failing writes | one command in the section; the lock of a living owner is never deleted |
| commands (`cli.py:8240-9040, 12583-15565`) | none of their own | start, stop, toggle, cancel | lock, state, recorder | a start that fails half way, a kill anywhere, a state read before the lock | no recorder unaccounted for, never two; nothing transcribed or deleted while it is written |
| recorder (`recorder.py`) | a child process, its scope, the audio and log files | start_recorder, stop_process | pid, identity and scope in the state | descendants, pid reuse, a child that cannot be stopped | no stranger is signalled; what is called stopped is gone |
| finalize_recording (`cli.py:11122-12538`) | locals; journal, marks and paths in the state; backups beside the artifacts | transcribe, insert, clean up, roll back, restore, retry, keep | state, files, clipboard | a crash between any two steps, a failing step, a failing undoing, resumed runs | inserted at most once; no copy of the speech unknown to the state; speech not lost |
| state store (`state.py`, `path_safety.py`) | `state.json` | read, write, update | flock on `.state.json.lock` | replacing a file in steps, undoing them, being killed between them | an atomic register: no lost update, no half write, no gap seen |
| private files (`path_safety.py`, `secure_delete.py`) | transaction directories, `.cleanup` claims | replace or remove if unchanged, wipe | renames, hard links, fsync | foreign writers, power loss, failing undoing | what was seen and what others put there is not lost |
| insertion (`output.py`) | clipboard lock, dedupe state, quarantine ledger | insert_text | X11 clipboard, xdotool | a paste cannot be undone or confirmed | the same text is not pasted twice, nor refused for no reason |
| transcription (`transcriber.py`, `command_chain.py`) | the output file of the program, a directory lock | transcribe | child processes, files shared by the stem of the audio | programs that outlive their command, audio replaced meanwhile | a text is of the audio it was asked for |
| history and cleanup (`cli.py:3700-3900, 17190-17420`) | recordings, transcripts, hidden files | cleanup, prune | directory listings, the state | a start or a stop goes on meanwhile | nothing needed is taken |
| process scopes (`process_priority.py`) | latch, gate directory, status frame | re-execution in a scope, ready/ack gate, direct supervisor | sockets, pipes, signals, subreaper | both ends clean up, either may die | runs once, as checked; what is called empty is empty |
| remote HTTP (`remote_http.py`, `remote_http_worker.py`) | a worker process | one request | control socket, pipe, deadlines | an answer that races the deadline | an answer counts when the worker is released and gone |
| RPM supervisor (`scripts/rpm-lifecycle-supervisor.py`) | bindings of children | run, drain | subreaper, `/proc` | lists that break off, daemonising children | returns when nothing is left |
| local installation (`scripts/install-local.sh`, `scripts/safe-local-fs.py`) | a workspace with the staged items, the backups and a phase | install, roll back | renames by a helper, a lock of the directory | a rollback cut short, a helper that outlives its script, uninstalling meanwhile | what was installed is at its place or in the workspace |
| alarms (`alarms.py`, `cli.py:17480-17640`) | `alarms.json` | add, remove, enable, check, import | flock | clock set back, suspended machine | no occurrence told twice or missed |
| backups (`backup.py`, `backup_state.py`) | ledger of jobs, archives, a lock per target | create_backup | flock, rename | crash between publication and ledger | the ledger says what became of an archive |
| settings export (`settings_export.py`) | the exported file | write_export | rename exchange | failing steps, foreign writers | the old or the new file is there |
| encryption (`artifact_crypto.py`) | the passphrase file, its history | make or replace a passphrase | links and renames, no lock | several commands at once | what was encrypted stays readable |
| models (`models.py`) | model files and directories | download, remove | flock, renames | failing undoing, kills | the old or a verified model is there |
| logging (`app_logging.py`) | daily logs, archives | rotate, compress, merge | flock, hard links | a kill between link and unlink | no record is lost |
| worker, polishing, profanity, blacklist, resource gate, benchmarks, doctor, setup plan, paths | none, or a file written like the state | mostly read-only | - | - | functions of their input |

`PROJECT.json` lists every component with its status, and under `hazards` the
places where the code may go wrong in ways a test would hardly reach.

## The modules

A model of each component stands in a module of its own; `MC...` are the
instances TLC checks, `...Proofs` hold the theorems and their proofs.

| group | modules |
|---|---|
| the commands around a recording | `FinalizationLock`, `Recording`, `RecorderStart`, `RecorderStop`, `CleanupClaims` |
| its finalization | `Finalization`, `KeptRecording`, `ClipboardInsertion`, `Transcription` |
| files several commands use | `StateRegister`, `StateStore`, `ConditionalReplace`, `BackupJobs`, `Cleanup`, `TransientFiles`, `SettingsExport`, `PassphraseKey`, `ModelDownload`, `LogFiles`, `Alarms`, `LocalInstall` |
| processes | `ScopedCommand`, `ReadyAckGate`, `DirectSupervisor`, `BoundedProcess`, `RemoteOperation`, `RpmLifecycle` |
| instances | `MCSharedFiles`, `MCRecorders`, `MCFinalization`, `MCInsertion`, `MCFiles`, `MCProcesses` |
| proofs | `SharedFilesProofs`, `RecordingProofs`, `RecordersProofs`, `FinalizationProofs`, `InsertionProofs`, `FilesProofs`, `CleanupProofs`, `ProcessesProofs` |

How they build on each other. `StateStore` shows that the state is an atomic
register, and `Recording`, `Finalization` and `CleanupClaims` use it as one: a
variable changed in a step that may raise with or without having taken effect.
`FinalizationLock` shows what the lock excludes; `Recording` takes acquiring and
releasing as single steps, `Finalization` and `Cleanup` assume who holds it.
`Recording` ends a stop in its step `Finalizes`, one of the outcomes
`Finalization` has in detail, and takes from `RecorderStart` and `RecorderStop`
that a start fails cleanly or says that it did not, and that a stop that says so
is one. `Finalization` takes an insertion and a transcription as steps that
succeed or fail; `ClipboardInsertion` and `Transcription` open them up.

In all modules a step is one system call, or several between which nobody else
can matter; a failing call is a choice of its step; a kill loses what is not on
disk. History variables (named so where they are declared) only serve the
properties.

### FinalizationLock

A file is named after the process that created it, since a command creates at
most one. `path` is what the well-known name refers to, `away[p]` what `p` has
renamed to its private name, `body`, `anchors` and `ctime` are the contents and
the change time of a file. `Create`, `Write`, `Confirm` acquire a free lock;
`Lstat`, `ReadPid`, `ReadScope`, `ReadUnit`, `CheckScope`, `ReadIdentity`,
`CheckUnit`, `Recheck` inspect a held one, each reading the file anew as the
code does; `OpenClaim`, `Precheck`, `Rename`, `Verify`, `Unlink` remove a file
with the checks before and after the rename; `Transfer` to `Reread` rewrite the
lock for a recorder that could not be stopped. `Kill`, `RecorderEnds`,
`ReusePid` and `ScopeEmpties` are the world. Left out: file modes, symbolic
links, and the removal of a file by the user.

A killed command's lock names no scope. Nothing can prove that such an owner
left nothing behind, so the code never deletes it and every later command is
refused (the tests want that: `tests/test_cli.py:23992`). The model shows it as
the case `ProvedGone` excludes.

### Recording

`pc[c]` is where command `c` is, `op[c]` which command. `lock` is who created the file
and the recorder it was handed to; `store` has the status, the recorder
(pid, identity and scope in the code) and the audio. `proc[r]` is the truth
about recorder `r`: live, only descendants left, gone, or gone with its pid
given to another process; `scoped` says which recorders have a systemd scope,
`file[r]` is its audio. The steps follow `_command_start_locked` (choose and
launch a backend, the grace period, persisting, the clean-up of each failure),
`command_stop`, `command_cancel` and `command_toggle`, which decides without
the lock. `EscapesWrapping` says whether `start_recorder` may raise something
other than `RecorderStartupError` while its child lives; it can
(`recorder.py:3986`). The log file, trimming, and the recoveries of an
interrupted cancel (`cli.py:13976-15457`) are abstracted; `CleanupClaims` has
the one that destroys audio.

### RecorderStart and RecorderStop

The same two functions process by process. `life` and `apart` are the truth of
the recorder and what it has forked (alive, zombie or gone, with its pid reused; out of the
session or not); `RecorderStart` adds who holds the log pipe and who is in the
scope, `RecorderStop` the time, the three signals, the set of identities seen so
far (`known`) and the loops over processes to signal, where every look into
`/proc`, every `pidfd_open`, the check behind it and every signal is a step. A
scan of `/proc` is one step. A child that leaves session and scope and is forked
after the last scan escapes both the code and `StoppedMeansGone`, which says
"every descendant ever seen".

### CleanupClaims

How cancel destroys an artifact: `form` and `journal` are what the state says of
it, `name` and `body` the file, `nameOnDisk` and `bodyOnDisk` the values a loss
of power may leave, cut down by every fsync. `Run` is the transaction with its
migrations of older forms; `Fails` a failure or a kill anywhere, `LosesPower`
the rest. What is appended reaches the disk in order; foreign files at the names
and the limit on the size of the journal are left out.

### Finalization and KeptRecording

`status`, `marks`, `named`, `journal` are the state file, `files`, `bak` and
`text` the disk: artifacts, their `.cleanup` backups, the stored transcript.
`pc`, `flags`, `backed`, `deleted`, `pairs` are the locals of the run; a kill
(`Abandon`) loses them, a later run begins from the disk. `Pipeline` is the try
block up to the insertion, `Cleanup` the backup, journal, delete, done, discard
sequence with its rollback and restore, `Handle` the error handler and its
purge. `Fails` is any other exception of a step. Modelled with
`keep_recording_artifacts` and artifact encryption off. Two constants say
what may go wrong: `RetryMayFail` (a retry fails before its intent is stored)
and `LateRaise` (a state update raises although it has written, which
`StateStore` shows possible).

`KeptRecording` is what the other setting adds: promotion of the trimmed audio
to the stable name, encryption, the conversion back, by claims that are undone
(`files` says what each name holds, `wiped` what was overwritten). Undoing a
claim does not fail in the model, and audio that has just taken the stable name
is plain.

### ClipboardInsertion

`lockFile`, `entry` and `ledger` are the three files of `output.py`, `lockSeen`
and `entrySeen` what a command has read of them; `at` is where each command is,
`pidOf` whose pid it is now. The durations are small numbers that keep the order
of those of the code. Modelled for one window, a wall clock that is not set
back, and a retry of the lock as a loop; direct typing keeps no state. The hard
link a killed write of the state may leave is left out, as is a failing read
while a claimed lock is put back.

### StateRegister and StateStore

A state is the set of calls it reflects: `update` adds itself to what it has read,
`write` replaces it. `target`, `bak[u]`, `quar[u]` and `debris` are names of
the directory, each naming at most one file. `Kills` allows a process to be
killed at every step; `UndoMayFail` allows undoing to fail or to be skipped (an
interrupt before the code that would undo is armed). Validation of the JSON is
reduced to what the code refuses: a target with two links.

The refinement mapping is in `StateStore`: from the quarantine of the old file
to the commit or the end of the undoing, the value is that of the backup, since
readers are kept out by the flock and the write may still be undone; otherwise
it is the content of the target. The register's `Apply` is the step `Commit`.

### The other files

* `ConditionalReplace` - `names` says which file (`seen`, `staged`, `other`) each
  name holds while a foreign writer renames or writes at any time. The moment
  between the last look at a name and its unlink, in the rollback, is exempt: no
  system call closes it. A kill leaves the transaction directory.
* `Transcription` - calls with audio of one stem. `backend` is what the call
  uses: the two programs that write to the file of the stem (`shared`; whisper
  and templates with `{output_dir}`), the two that write to a work path of the
  call (`work`; whisper.cpp and templates with `{text}`), programs that answer
  on their output, and the remote API, which takes no lock. The functions stage,
  read, restore and unstage in different orders, and `AfterLock` to
  `AfterRestoring` say which. `captured` is what was captured to be put back;
  programs outlive a killed command. The audio may be replaced from the moment
  it was identified until it is read for the last time; no step looks at it
  before or after that. Two writers do not take the directory lock (a command
  line that stores its transcript, and a killed command's program); nothing is
  promised to a call they disturb. The earlier file is kept in memory only, so a
  kill loses it.
* `Cleanup` - `cleanup` beside a start and a stop: what it read of the state,
  listed and deletes. With three or more files to keep (the default is 20) nothing needed
  is lost; the applet passes 0 (`applet.js:10552-10562`), see the findings.
  A failed finalization is an error, which refuses a start while it names a file,
  or is left to be tried again; `cancel`, which clears an error, is left out.
  `keep` counts files, not recordings. Dry run, empty transcripts and encrypted
  siblings are left out.
* `TransientFiles` - the hidden transcripts with their owner files.
* `BackupJobs` - jobs of two targets over one ledger, dying anywhere. The verdict
  on an interrupted job whose archive is there is that of `verify_backup`, which
  may fail on a whole archive (a read error, a key not at hand): the entry is then a
  failure with the archive's name, `unverified` in the model, and stays one. An
  archive damaged on disk is not told apart. `restore`,
  which publishes a staged directory by one rename, is left out.
* `SettingsExport` - link, exchange, verification and undo of `write_export`.
* `PassphraseKey` - commands that make or replace the passphrase at the same
  time, with no lock but link, rename without replacing and comparison.
* `ModelDownload` - download with backup and undo, removal with the collection
  of leftovers; at most one call of a command fails. The checksum cache is left
  out, and so are the `.cleanup` names of killed removals, which nothing
  collects (`models.py:3165-3194`).
* `LogFiles` - `log[n]` are the records in the file of each name, `hidden` those
  under names of interrupted work, `linked` the logs with a second link. Of one
  replacement at most one call fails.
* `LocalInstall` - `site` is what each target has, `saved` what the rollback
  directory has, `residue` what failed removals left. A step is a look or a change of
  the helper `safe-local-fs.py`, or a decision of the script. Somebody else, who
  takes no lock, may replace or remove what is at a target once per installation:
  before a look, between two, or after the last. The whole directory that
  `uninstall-local.sh` moves aside for a moment is left out; so are the contents of
  the items and a signal between the lines in which `activate_staged` extends its
  arrays, which is as if the script were killed there.
* `Alarms` - time in minutes; `request` is what a command was asked, with the
  clock a check read before it waited for the lock; `marked` and `owed` are
  histories of occurrences.

### Processes

* `ScopedCommand` - the supervisor, the latch message and the child in the scope,
  signals at every moment, an executable replaced once.
* `ReadyAckGate` - controller and wrapper, two sockets and a directory that both
  remove. Besides its tests nothing in the package calls the gate yet.
* `DirectSupervisor` - the supervisor, the root's three steps before its exec and
  a descendant, zombies and reaping, the drain, the frame it writes. The seccomp program
  and the limits are left out. What the supervisor had forked may survive if it
  is itself killed by SIGKILL: `EmptyIsEmpty` speaks of a frame that says so.
* `BoundedProcess` - the caller, the launching thread, the process and one
  descendant holding its pipes, interrupts in waits and calls.
* `RemoteOperation` - the supervisor and the worker, a request and an answer in
  two parts, two deadlines. The worker cannot fork, so the functions that look
  for its descendants (`remote_http.py:1393-1745`) find none and are not mapped.
* `RpmLifecycle` - the tree of processes with any parent, lists of children that
  break off, the two procedures. Exit status, SIGTERM and the identity helper
  are left out.

## The runs

Six runs pass and put the modules side by side: modules of a run share no state,
the variable `part` says which of them a behaviour is one of, and the others
stay in one initial state, so that the state space is the sum of theirs and not the product.
Every run ends within about four minutes on two cores.

| run | parts | bounds | shows |
|---|---|---|---|
| `SharedFiles` | `FinalizationLock`, `BackupJobs` | a past command and two racing ones; three jobs, two targets, a ledger of two entries, one change of the configuration | `ExclusiveUnlessDisplaced`, `LiveLockKept`, `OnlyProvedGoneDeleted`; `LedgerIsTrue` |
| `Recorders` | `Recording` twice, `RecorderStart`, `RecorderStop`, `Alarms` | three commands and one backend; two commands and two backends with escaping errors; two descendants of a recorder, failing scans; two commands with one alarm, in weeks of two days of three minutes | `RecorderAccounted`, `OneRecorder`, `TranscribesStopped`, `LiveAudioKept`, `PendingAudioNamed`, `EscapedAudioKept`; `RecordersAreGone`; `MarkedOnce`, `NoneMissed` |
| `Finalization` | `Finalization` | audio and log, all failures, any number of runs | `InsertedAtMostOnce`, `DeletedIsJournaled`, `AppletKeepsSpeech`, `RunEnds` |
| `Insertion` | `ClipboardInsertion`, `Finalization` | two commands with one text, one kill, three ticks; `RetryMayFail` and `LateRaise` FALSE | `PastesAreGuarded`; `DoneHasTranscript`, `UninsertedSpeechKept`, `RetryKeepsTranscript` |
| `Files` | `StateStore`, `Transcription`, `ModelDownload`, `Cleanup`, `TransientFiles`, `LogFiles`, `PassphraseKey`, `SettingsExport`, `KeptRecording`, `ConditionalReplace`, `RpmLifecycle`, `LocalInstall` | two or three commands each; one or two failing calls; two items to install | `LastIsKept`, `ReadsSettled`; `TranscribesCleanly`; `ModelIsKept`; `FilesInUseKept`; `NoRecordLost`; `EarlierIsReadable`; `ReplacementsKeepData`; `ReturnsAlone` |
| `Processes` | `FinalizationLock`, `ReadyAckGate`, `DirectSupervisor`, `CleanupClaims`, `RemoteOperation`, `ScopedCommand`, `BoundedProcess`, `StateStore` without kills | two commands; one descendant; two signals, three interrupts, two redirects; three faults | `RunsAsChecked`, `NothingOutlives`, `ClaimsAreSafe`, `StoreStaysUsable`, `IsRegister`, `EverythingEnds` |

Each run also checks the types of its modules (`...TypesOK`). `FilesInUseKept`,
`ReplacementsKeepData`, `RecordersAreGone`, `RunsAsChecked` and
`NothingOutlives` are conjunctions of what the modules say, one conjunct per
part; the modules have a mutant for every conjunct and `PROJECT.json` lists
one per property: the definition of the model the property rests on, changed
the way a plausible bug would, which breaks the property under the run's own
configuration. In the modules their names end in `_` and what is changed
(`Lock_Unguarded`); nothing else uses them.

Six runs expect a violation, see [below](#where-the-code-and-what-is-said-of-it-differ).

Why the bounds are enough. *Lock*: the interesting races are between an owner and
one or two reclaimers; the past command supplies a stale file to two of them.
*Backups*: two jobs of one target and one of the other meet in a ledger that is
full. *Recording*: a start, an ill-timed toggle and a stop, killed or failing, is
the chain the hazards need; more commands and backends are covered by the
theorems. *Finalization*: runs are not bounded in number, only the files are
(audio and log are all there are); `pasted` is unbounded in the model and stays at
most 1, which is the property. *Clipboard*: three ticks let a duplicate expire;
that larger values change nothing is what the theorem is for (an earlier version
of the property failed at eight). *StateStore*: two updates lose one another if
updates can; the write is the third party, and two readers show the shared lock.
*Logs*: three days in months of two have a rotation, a compression and a merge.
*Installation*: two items have one undone while the other is not. *Processes*: one
descendant is enough to keep a pipe, a group or a directory. `KeptRecording` is
checked with one failing call: with two, the undoing of a claim may fail as well,
and then `SpeechKept` does not hold of the code either.

Symmetry exchanges commands that are alike, in runs that check no liveness, and is
off in `Processes` and `Finalization`. Deadlock is checked in the finalization,
whose recording can always be taken up or refused again; elsewhere commands end
and none is left.

Fairness. `Finalization` assumes weak fairness of the run's steps and not of its
beginning: nothing obliges anybody to resume a recording, but a run that is not
killed goes on, transcription and insertion having timeouts in the code. A kill
also ends a run, so `RunEnds` says that the rollback, the error handler and the
purge cannot raise into one another for ever. In `Processes` every part states its
own, as weak fairness of (1) the steps of a process the operating system runs as
long as it is not killed, (2) a deadline that passes, and (3) a SIGKILL that
arrives; a model server need not answer, a command and its descendants need not
end, and signals and kills need not come. The claims of a cancel need somebody who
cancels again. One strong fairness: the two phases of the direct supervisor's
drain end by the clock, whatever round of reaping and signalling they are in when
it runs out. `EverythingEnds` then says of every part that what is begun comes to
its end.

## The proofs

TLC's instances are small; the theorems hold for every value of the constants.
None of the properties is inductive as it stands: each rests on an invariant
that relates what a command believes, from what it read several steps ago, to
what is there now. TLC has checked each invariant on the bounds of its run
before it was proved.

| module | about | theorems (the property each states) |
|---|---|---|
| `SharedFilesProofs` | any set of commands; any number of jobs and targets, a ledger of any length | `TypeCorrect`, `LiveLocksAreKept` (`LiveLockKept`), `Exclusion` (`ExclusiveUnlessDisplaced`), `DeletionsAreProved` (`OnlyProvedGoneDeleted`); `LedgerStaysTrue` (`LedgerIsTrue`) |
| `RecordingProofs` | any number of commands and backends | `TypeCorrect`, `TranscribesCompleteAudio` (`TranscribesStopped`), `RemovesOnlyEndedAudio` (`LiveAudioKept`), `KeepsPendingAudio` (`PendingAudioNamed`); if `~EscapesWrapping`: `RecordersAreAccounted` (`RecorderAccounted`), `RecordersExclude` (`OneRecorder`) |
| `RecordersProofs` | any number of forked processes; any number of commands, any day, catch-up, capacity | `RecordersStop`, `FailedStartsAreClean`, and from them `RecordersAreAlwaysGone` (`RecordersAreGone`); `AlarmTypeCorrect`, `AlarmsMarkOnce` (`MarkedOnce`), `AlarmsMissNone` (`NoneMissed`); `EscapedAudioStaysKept` (`EscapedAudioKept`), `RecorderTypesStayOK` (`RecorderTypesOK`) |
| `FinalizationProofs` | any set of artifacts, any number of runs | `TypeCorrect`, `InsertsOnce` (`InsertedAtMostOnce`), `JournalCoversDeleted` (`DeletedIsJournaled`), `AppletNeverLosesSpeech` (`AppletKeepsSpeech`); if `~LateRaise`: `DoneKeepsTranscript` (`DoneHasTranscript`); if also `~RetryMayFail`: `SpeechIsKept` (`UninsertedSpeechKept`), `RetriedTranscriptIsKept` (`RetryKeepsTranscript`) |
| `InsertionProofs` | any number of commands, texts, kills, ticks | `InsertTypeCorrect`, `PastesStayGuarded` (`PastesAreGuarded`); with the finalizations beside it `InsertionTypesStayOK` (`InsertionTypesOK`) |
| `FilesProofs` | any number of calls, readers, commands, processes, days | `StoreTypeCorrect`, `LastKept` (`LastIsKept`), `ReadersSettle` (`ReadsSettled`); if `~Kills /\ ~UndoMayFail`: `Implements` (`IsRegister`), `StaysSound` (`StoreStaysUsable`); `KeyTypeCorrect`, `StaysReadable` (`EarlierIsReadable`); `AlwaysTranscribesCleanly` (`TranscribesCleanly`); `RpmReturnsAlone` (`ReturnsAlone`); `LogTypeCorrect`, `LogsKeepRecords` (`NoRecordLost`); `ModelTypeCorrect`, `ModelsAreKept` (`ModelIsKept`) |
| `CleanupProofs` | any number of commands, recordings, exports, failing calls, installed items | `OwnFilesAreKept`; if `KeepRecordings >= 3`: `NeededStays`, and from both `FilesInUseAreKept` (`FilesInUseKept`); `ReplacementsLoseNothing`, `ExportsStayKept`, `InstallsLoseNothing`; if `MaxKeptFaults <= 1 /\ ~RemovalMayFail`: `KeptSpeechStays`, and from the four `ReplacementsStayKept` (`ReplacementsKeepData`); `FilesTypesStayOK` (`FilesTypesOK`) |
| `ProcessesProofs` | any set of files and of descendants, any number of faults, signals, redirects | `ClaimsStaySafe` (`ClaimsAreSafe`); `DirectTypeCorrect`, `EmptyMeansEmpty` (`EmptyIsEmpty`), `SignalsAreKept` (`SignalKept`); `GateRunsOnlyReleased`, `CommandsRunOnce`, `ScopesExecuteChecked`, and from them `AlwaysRunsAsChecked` (`RunsAsChecked`); `RemoteAnswersAlone`, `ProcessesAccounted`, and from them and the supervisor's `NothingEverOutlives` (`NothingOutlives`) |

Assumptions on constants are only those the modules state (`...Assumption`:
sizes are natural numbers, a name for nobody is not that of somebody), besides
the conditions named in the table, each of which is a behaviour of the code that a
run shows to break the property (`recording_escapes`, `retry_promise`,
`cleanup_race`, `kept_recording_lost`) or that `StateStore` shows possible. That at
most one call of the handling of a kept recording fails is the condition of its
code too: a second failure in the rollback leaves the old file under its backup's
name only.

**The lock.** Whether a removal is right depends on what was read several
steps before. The invariant adds, for each command, that a stat snapshot which still
matches its inode proves that the path named that inode all along and that its
contents are as they were read; and that what is then concluded, that the owner
is gone, is stable, because a reused pid does not become the recorder's again
and an emptied scope stays empty.

**Recording.** If `start_recorder` raises nothing but its own error once its
child runs, whoever is in the section owns the lock (`Owner`), knows
every recorder that may run (`Knows`: none before a launch, its own during a
start, the one in the state otherwise) and relies on the status of its step
(`Status`); together `IInv`. If it raises something else, recorders run that nobody
knows of, and `Knows` fails. A second invariant, `AudioInv`, holds all the same:
what the state calls the audio of its recorder is that (`AudioIsOfRec`), it was
launched (`AudioWasLaunched`), and what a command has launched but not yet
recorded is named by nothing (`Fresh`, `Launched`). What the code promises of
the audio follows from it without the condition.

**The ledger of backups.** The lock of a target belongs to whoever works there
(`LeaseIsHeld`), so nobody else of that target writes about its jobs
(`OpenIsRunning`) or begins one after they were read (`RunningIsRead`). Archives
are only added, each by its job with what the job collected (`ArchivesAreOwn`,
`PublishedHasArchive`). So a published archive is either a success or, if it did
not verify, a failure that names it; that it is always a success is not true of
the code, nor is it promised with several targets, where a job of another one
looks for the archive in its own directory. What `record_job` does to the ledger
is one lemma for ledgers of any length (`RecordsPuts`): it rests on a recursion
over the ledger (`Without`), shown to be a function and to keep the entries of the
other jobs by the least number at which it would not (`WithoutIsDefined`,
`WithoutKeepsOthers`).

**Finalization.** `Disk` relates the state file to the disk whenever a run may
die, `Knows` says that a run knows every backup there is, `Phase` what its flags
mean at each step, `Once` that the intent to insert is on disk, or was read
from it, before and after the one insertion. For the speech: the audio is
deleted only where a backup of it exists (`Backups`), and the backup only once the text
is stored and no handler will remove it (`Applet`, `Lost`, `Done`); a run has
the text wherever it has its flag `written` and has not reached its handler (`HasTexts`).

**The state store.** `Excl`: the holder of the flock is the one call in the
middle of something. `Place` says at each step under which name the last state
in place is; `Planned` that what is about to be written is the result of the
call on the state there was. `Implements` is the refinement: under that invariant
every step is a step of the register or leaves it unchanged. `Clean` adds, without kills,
that nothing but the two names of a write exists.

**Insertion.** While no lock of a living command was renamed away, whoever is
past the lock owns it (`OwnersOwn`), so the state a command has read is the one
it still holds (`SeesEntry`). Then the state remembers the last paste of a text
as long as nobody reserves another (`PastesAreRemembered`): its entry stays
pending or gets the time of the paste, and a command about to paste has
waited for it to expire (`PastersWaited`). The proof found that the property
needs two more exceptions than the bounded run had shown: a lock claimed from a
living owner that has not written its pid yet, and a state removed because it
could not be put back.

**Alarms.** A check read the clock before it waited for the lock, so it may be a
minute late, and not more while the clock is not set back (`ChecksAreTimely`).
What was marked is not later than what its alarm was triggered for
(`LatestIsTriggered`), hence an occurrence is not marked again; what came within
the catch-up minutes of the last check was marked (`OwedIsMarked`), hence none is
missed. Both speak of a catch-up of less than a day; the default is 15 minutes
(`alarms.py:39`), the most that can be asked for is ten days, and then only the
last of several missed occurrences is told. That a new alarm finds a free id is
the pigeonhole principle, by the cardinality of the store.

**The passphrase.** Before a weak passphrase leaves its path it is in the history
(`KeyIsSafe`), and it stays there: whoever writes the history read it when it
was there already, or is about to replace the weak file himself.

**Transcription.** Who is past the lock holds it alone, and what it found on the
path, keeps and puts back is a whole text of the audio it names (`Sound`).

**The RPM supervisor.** A set of processes that is its own ancestry cannot
arise (`Lineage`: every set of living processes has a member whose parent is
outside of it), so a supervisor whose list shows the root alone, complete and
twice, has no other descendant (`AloneMeansNobody`).

**Logs.** A record that no log holds is in the backup of a target without a
name, while a replacement is between its two renames, or after a kill under a
hidden name (`AllHeld`); for that the invariant says what a replacement has in
its hands at every step (`ReplacingIsSound`, `Rotating`), that a claimed log
is empty (`ClaimedIsEmpty`), and that a compressed log repeats the log of its
name (`GzIsCopy`).

**Models.** At each step of a download it is known what is at the path and in the
backup, by what the download found and by the call that failed: as it found it,
out of the way in the backup, or the backup there beside the verified model
(`Progress`, `AsFound`, `Aside`, `InPlace`); a download that has not begun has no
files yet (`IdleAreEmpty`), so the commands between leave nothing that it could
take for its own.

**The claims of a cancel.** `ClaimsInv` relates the phase in the state to what
the file may be on disk after a loss of power, so that a removal a later run
finishes removes only what was meant.

**The direct supervisor.** Whoever is left of the tree has a parent that can wait
for it (`ParentsCanWait`), and no set of processes lacks a parent outside of it
(`NoRing`); so when `waitpid` and the kernel's list show no child, nobody of the
tree is left (`NoChildNobody`), and since only a living process forks, nobody
comes back (`NobodyComesBack`). `SignalIsNoted` follows a signal through the time
in which it is only pending.

**Gate, scope, remote operation, bounded call.** What the gate promises is
inductive by itself: the caller notes that it may have released before it sends
the answer. In a scope the command does nothing before it has received
the latch, which the supervisor sends only after it looked at the command
(`RunsAfterLatch`), and what it holds was compared before it is run
(`HeldIsChecked`). A remote answer is whole when it is taken, and the worker
can only wait from then on (`AnswerIsWhole`); it ends with zero only if it was
released (`EndsAsReleased`). A bounded call joins the thread before it takes
the process over, so it knows every process there is (`HandedOver`), and what it
has not collected it notes (`NothingUnnoted`).

**Stopping and starting a recorder.** The descriptor of somebody else's process
was opened after the id had been reused, and the check behind it sees that
(`AimsAtOwn`); nothing that is gone comes back, so each look that found
nothing stays true (`GoneForGood`). In a start, which way the clean-up takes follows
from the scope (`CleansOneWay`), and what it has seen dead stays dead (`DeadSoFar`).

**Transient files, replacements, exports.** A living command's owner file names
it before its file has contents, and only the files of ended owners are removed
(`OwnersHaveEnded`). At every step of a conditional replacement it is known
which of the four files is under which name (`NamesAreRight`, `ClaimIsSeen`), and
what was claimed is wiped only once its successor is in place
(`RemovesAfterCommit`). For the exports it is not enough that a file has a name: the
name must be one that no other export is about to take away, which is `SafeName`;
with it the invariant holds for any set of exports that replace each other's file.

**The local installation.** While the script goes forward it is alone: a helper
that outlived an earlier one holds the lock (`ScriptIsAlone`). Of a rollback the
invariant says what is undone (`UndoneIsBack`: what was found is back, and the
rollback directory has at most what was new), and for that it follows the helpers
that go on after a signal: a backup that is still to be made finds its place in
the rollback directory free and the rollback has noticed that it was missing, so
the workspace is kept for it (`LateBackups`, `LateRemovals`).

**The kept recording.** Its files are few, but which of them lies where depends on
the way the command came: with or without a better version of the audio, a
backup left by a killed command, an old file of the other form, and the call that has
failed. The invariant (`KeptInv`) says so for every step: what each name holds, what
the removal that is going on will do when it succeeds and when it fails, and
that nothing but the copy that is given up was overwritten. `SpeechKept` and
`StoredOnce` are then read off the steps at which the command may end. The types
need none of it (`KeptTypeCorrect`).

**The clean-up.** It read the state before it listed the directory, so a recording
may have begun since that it knows nothing of; what saves its audio is that it is of
the newest group of files (`InProgressIsNewest`) and that the newest are kept.
How many are kept is a recursion over the groups. The induction theorems of
the library take an operator and cannot be used here; but that natural numbers
are well-founded can (`Least`), and with it the recursion is shown to define a function
(`KeptIsDefined`: otherwise there would be a last group where it does not) and
the groups above the newest to be empty (`NewestIsKept`). The newest recording and
its trimmed audio are three files, hence the condition.

**The composed runs.** Each run checks several modules side by side. Every step of a
composition is one of each part or leaves it alone (`PartsAreFollowed`,
`FilePartsAreFollowed`), so the parts' theorems carry over to the properties of
the runs themselves: `SharedFilesStay`, `RecordersAreAlwaysGone`,
`EscapedAudioStaysKept`, `RecorderTypesStayOK`, `FilesInUseAreKept`,
`ReplacementsStayKept`, `FilesTypesStayOK`, `InsertionTypesStayOK`,
`AlwaysRunsAsChecked` and `NothingEverOutlives`. `RecordersProofs` uses the theorems of
`RecordingProofs` twice, the second time through an instance with the variables of
the run in which errors escape (`Again`).

Checked by TLC and not proved:

* liveness (`RunEnds`, `EverythingEnds`): fairness and ENABLED are beyond the
  prover;
* `ProcessTypesOK`: the types of the parts are proved module by module where the
  table says so, and the invariants of the others contain them.

## Where the code and what is said of it differ

Six runs expect a violation; `PROJECT.json` quotes the line each contradicts.

* `recording_escapes`: the clean-up of the recorder's log may raise in place of
  `RecorderStartupError` (`recorder.py:3986`); the lock is then released beside
  a live recorder and the next start launches another.
* `retry_promise`: a retry that fails to read or validate the stored
  transcript removes it, although the state tells the user to retry (`cli.py:11205`).
* `stop_gives_up`: a recorder in a scope that survives its first signal is
  given up at once, with the time for TERM and KILL left (`recorder.py:4461`).
* `cleanup_race`: a recording was finalized and its audio kept, so the state still
  names it, and a start has made the files of the next one. A `cleanup` goes on
  without the lock, spares every recording only if the state names none, and
  with nothing to keep deletes the new audio (`cli.py:17307`).
* `kept_recording_lost`: when the removal of a kept recording's plaintext fails
  after it has taken place, the rollback deletes the encrypted copy
  (`cli.py:4954`).
* `alarms_import`: the command locks the alarm store and then waits for its own
  lock (`cli.py:17559`).

More shows in the models and is described here, without a run of its own.

* A cancel interrupted after it has written `finalizing` leaves a state whose
  audio the next start or stop transcribes (`cli.py:14973`;
  `docs/fedora-cinnamon-runbook.md:534` says cancelled audio is not).
* A cancel that raises while it scans (`cli.py:14445`) has already written
  `recording` without a pid, which stop, start and cancel refuse for good.
* The slower of two reclaimers of one stale lock may rename away the lock that
  the faster has just created, and leave the path free while its owner holds it
  (`cli.py:1126`). `ExclusiveUnlessDisplaced` has the exception for this reason.
* The lock of the clipboard may be taken from a living owner that needs longer
  than the age limit to write its pid (`output.py:906`), and a state that cannot
  be put back is removed (`output.py:1778`); both allow a duplicate and are
  exempt in `PastesAreGuarded`.
* A kill between the removal of the old `state.json` and the activation of
  the new one leaves none (`path_safety.py:1391`), and the next reader takes
  that for the idle state; the backup keeps the old one (`LastIsKept`), but
  nothing looks for it. A kill or an interrupt before the backup link is dropped
  (`path_safety.py:1359`) leaves a file with two names, refused by every later
  read and write: `StoreStaysUsable` holds only with `Kills` and `UndoMayFail`
  FALSE.
* The same happens to a log (`app_logging.py:1774-1837, 2041-2089, 2903-2976`):
  a kill between link and unlink leaves two names, and the configuration of logging then raises in
  every command; and to the passphrase (`artifact_crypto.py:1192-1253`).
* A signal that arrives while `activate_staged` rolls back ends the script; the
  EXIT trap then takes the rollback for made (`install-local.sh:486`) and, if
  nothing has failed until then, removes the workspace with the items that were
  not yet put back. `InstallLosesNothing` has the exception `cut` for this.
* `remove-leaf` compares the identity of what it is to remove and then looks at it
  again for the removal (`safe-local-fs.py:3151-3158`); what came between the two
  is removed (`theirs[i] = "gone"`).
* A download killed after the rename to its backup leaves the model under the
  backup's name only (`models.py:3022`).
* With a catch-up of a day or more (up to ten are allowed, `alarms.py:281`) two
  overlapping checks may tell an occurrence twice: the one that waited for the
  lock works with the earlier time and forgets the later occurrence
  (`alarms.py:946`). `MarkedOnce` is about shorter ones.
* The applet asks for `--insert-method none`, so `insert_text` declines; if a
  step after the removal of the audio then fails, audio and transcript are both
  lost. `AppletKeepsSpeech` names this exception (`past` contains `declined`).

## What is not modelled

Pure functions (parsers, filters, settings normalisation, the setup plan), the
contents of files, external programs and the network are outside; in the
modules they appear by their outcomes. The applet is JavaScript in Cinnamon's
process: it is the environment that starts and kills commands. A
`KeyboardInterrupt` is modelled where it decides something (undoing that is not
armed yet, a bounded call, a download), not between any two Python statements.
The in-process model worker, text polishing, the profanity filter, the parser
of security directives, the resource gate, benchmarks, doctor and setup plan,
paths, the session supervisor of the tests, and packaging are left out: they keep no state
several commands share, or only print. What the modelled components leave out
stands with each of them above and in `PROJECT.json`.

## The plan

Done: the modules above, their runs, and the theorems of the table, in the
order of what a user would lose. Next:

1. A refinement between `FinalizationLock` and the single steps `Recording` uses, up
   to displacement.
