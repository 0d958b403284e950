------------------------------ MODULE LogFiles ------------------------------
(***************************************************************************)
(* The logs of the commands (app_logging.py): a file for every day, more   *)
(* when it is full, a compressed one for every file of some days' age, and *)
(* one archive for every month that is over.  A command maintains them     *)
(* when it configures its logging, and after a record; the log lock lets   *)
(* one command do so at a time, so what is shared is a directory and one   *)
(* command that works in it, which fails or is killed anywhere.            *)
(*                                                                         *)
(* A file is replaced by way of hard links.  A log with two links is taken *)
(* for somebody else's: every maintenance that meets one fails.            *)
(*                                                                         *)
(* Left out: a day that comes again (the clock set back), archives that    *)
(* cannot be read, files others put there.  Of the calls of one     *)
(* replacement at most one fails.                                          *)
(***************************************************************************)
EXTENDS Integers

CONSTANTS
    LastDay,          \* bound: the days are 0 .. LastDay
    MonthLength,      \* days in a month
    CompressAfter,    \* COMPRESS_AFTER_DAYS
    LastSuffix,       \* bound: rotated logs a day can have
    MaxRecords        \* bound: records written

ASSUME LogAssumption ==
    /\ {LastDay, LastSuffix, MaxRecords} \subseteq Nat
    /\ {MonthLength, CompressAfter} \subseteq Nat \ {0}

VARIABLES
    today,          \* the date
    written,        \* how many records were written
    log,            \* the records in each file with the name of a log
    linked,         \* the names of logs whose file has a second name
    hidden,         \* the records in files that names of killed or failed work hold
    dropped,        \* the records that the limit of all logs has cost
    logStep,        \* where the command that holds the lock is
    job,            \* what it replaces by what
    logKilled       \* whether any command was killed in its work

directoryVars == <<log, linked, hidden>>
loggerVars == <<logStep, job>>
logVars == <<today, written, directoryVars, dropped, loggerVars, logKilled>>

Days == 0 .. LastDay
Suffixes == 0 .. LastSuffix
MonthOf(d) == d \div MonthLength
Daily(d) == {<<"log", d, s>> : s \in Suffixes} \cup {<<"gz", d, s>> : s \in Suffixes}
Archive(month) == <<"month", month, 0>>
Active == <<"log", today, 0>>
Claimed == <<"cleanup", 0, 0>>    \* the .cleanup name of the command at work
Leftover == <<"cleanup", 1, 0>>   \* those of killed commands
Names == (UNION {Daily(d) : d \in Days}) \cup {Archive(MonthOf(d)) : d \in Days} \cup {Claimed, Leftover}
Records == 1 .. MaxRecords
Idle == [target |-> Claimed, sources |-> {}, temp |-> {}, backup |-> {}, after |-> "idle"]

LogTypeOK ==
    /\ today \in Days /\ written \in 0 .. MaxRecords
    /\ log \in [Names -> SUBSET Records] /\ linked \subseteq Names
    /\ hidden \subseteq Records /\ dropped \subseteq Records
    /\ logStep \in {"idle", "writes", "merges", "compresses", "shrinks", "limits", "maintained",
                 "rotates", "linked", "claimed", "ready", "backed", "removed",
                 "cleared", "activated"}
    /\ job \in [target : Names, sources : SUBSET Names, temp : SUBSET Records,
                backup : SUBSET Records, after : {"idle", "writes", "merges", "compresses"}]
    /\ logKilled \in BOOLEAN

LogInit ==
    /\ today = 0 /\ written = 0
    /\ log = [n \in Names |-> {}] /\ linked = {} /\ hidden = {} /\ dropped = {}
    /\ logStep = "idle" /\ job = Idle /\ logKilled = FALSE

Present(n) == log[n] # {}
Becomes(next) == logStep' = next /\ UNCHANGED <<today, written, dropped, logKilled>>
Put(n, records) == [log EXCEPT ![n] = records]

\* The command ends, or what it does fails: the lock is free again.
Returns == logStep' = "idle" /\ job' = Idle /\ UNCHANGED <<today, written, dropped, logKilled>>

-----------------------------------------------------------------------------
(* A record                                                                *)

\* emit: a log with two links is refused, and the record is not written.
WritesRecord ==
    /\ logStep \in {"idle", "writes"} /\ written < MaxRecords /\ Active \notin linked
    /\ written' = written + 1
    /\ log' = Put(Active, log[Active] \cup {written + 1})
    /\ logStep' = "idle" /\ job' = Idle
    /\ UNCHANGED <<today, linked, hidden, dropped, logKilled>>

Free(s) == ~Present(<<"log", today, s>>) /\ \A t \in 1 .. s - 1 : Present(<<"log", today, t>>)

\* A full log makes room first; what is done next depends on who asked.
Rotates(next) ==
    \E s \in Suffixes \ {0} :
        /\ Free(s) /\ Present(Active) /\ Active \notin linked
        /\ Becomes("rotates")
        /\ job' = [Idle EXCEPT !.target = <<"log", today, s>>, !.sources = {Active}, !.after = next]
        /\ UNCHANGED directoryVars

RecordNeedsRoom == logStep = "idle" /\ Rotates("writes")

LinksRotated ==
    /\ logStep = "rotates" /\ Becomes("linked")
    /\ log' = Put(job.target, log[Active]) /\ linked' = linked \cup {Active, job.target}
    /\ UNCHANGED <<hidden, job>>

ClaimsActive ==
    /\ logStep = "linked" /\ Becomes("claimed")
    /\ log' = [log EXCEPT ![Claimed] = log[Active], ![Active] = {}]
    /\ linked' = (linked \ {Active}) \cup {Claimed}
    /\ UNCHANGED <<hidden, job>>

RemovesActive ==
    /\ logStep = "claimed" /\ Becomes(job.after) /\ job' = Idle
    /\ log' = Put(Claimed, {}) /\ linked' = linked \ {Claimed, job.target}
    /\ UNCHANGED hidden

\* The second link is taken back unless the log was about to be removed.
RotatingFails ==
    /\ Returns /\ UNCHANGED hidden
    /\ \/ logStep = "linked" /\ log' = Put(job.target, {}) /\ linked' = linked \ {Active, job.target}
       \/ logStep = "linked" /\ UNCHANGED <<log, linked>>
       \/ /\ logStep = "claimed"
          /\ log' = [log EXCEPT ![Active] = log[Claimed], ![Claimed] = {}]
          /\ linked' = (linked \ {Claimed}) \cup {Active}

-----------------------------------------------------------------------------
(* Maintenance                                                             *)

Maintains == logStep = "idle" /\ Becomes("merges") /\ UNCHANGED <<directoryVars, job>>

OfMonth(month) == {n \in UNION {Daily(d) : d \in {e \in Days : MonthOf(e) = month}} : Present(n)}

\* A temporary file gets what the target is to hold, if no source is refused.
Prepares(target, sources, temp) ==
    /\ (sources \cup {target}) \cap linked = {}
    /\ Becomes("ready")
    /\ job' = [target |-> target, sources |-> sources, temp |-> temp, backup |-> {}, after |-> logStep]
    /\ UNCHANGED directoryVars

Merges_WithoutArchive ==
    \E month \in {MonthOf(d) : d \in Days} :
        /\ logStep = "merges" /\ month < MonthOf(today) /\ OfMonth(month) # {}
        /\ Prepares(Archive(month), OfMonth(month), UNION {log[n] : n \in OfMonth(month)})

Merges ==
    \E month \in {MonthOf(d) : d \in Days} :
        /\ logStep = "merges" /\ month < MonthOf(today) /\ OfMonth(month) # {}
        /\ Prepares(Archive(month), OfMonth(month),
                    UNION {log[n] : n \in OfMonth(month) \cup {Archive(month)}})

NothingToMerge ==
    /\ logStep = "merges" /\ \A month \in {MonthOf(d) : d \in Days} :
                              month < MonthOf(today) => OfMonth(month) = {}
    /\ Becomes("compresses") /\ UNCHANGED <<directoryVars, job>>

Compressed(n) == <<"gz", n[2], n[3]>>

OldLogs == {n \in Names : n[1] = "log" /\ Present(n) /\ n[2] <= today - CompressAfter
                              /\ MonthOf(n[2]) = MonthOf(today)}

CompressesOld == logStep = "compresses" /\ \E n \in OldLogs : Prepares(Compressed(n), {n}, log[n])

NothingToCompress ==
    /\ logStep = "compresses" /\ OldLogs = {} /\ Becomes("shrinks")
    /\ UNCHANGED <<directoryVars, job>>

\* _enforce_file_size_limit: no log is larger than one may be, as a record
\* that does not fit is preceded by a rotation; this looks at the links only.
ChecksSizes ==
    /\ logStep = "shrinks" /\ linked \cap {n \in Names : n[1] = "log"} = {}
    /\ Becomes("limits") /\ UNCHANGED <<directoryVars, job>>

\* The oldest logs go, should all of them be too large together.
Limits ==
    /\ logStep = "limits" /\ linked = {} /\ logStep' = "maintained"
    /\ \E lost \in {{}} \cup {{n} : n \in {l \in Names : Present(l)} \ {Active}} :
           /\ log' = [n \in Names |-> IF n \in lost THEN {} ELSE log[n]]
           /\ dropped' = dropped \cup UNION {log[n] : n \in lost}
    /\ UNCHANGED <<today, written, linked, hidden, job, logKilled>>

\* configure_logging ends with a rotation if the active log is exactly full.
FullIsRotated == logStep = "maintained" /\ Rotates("idle")

MaintenanceEnds == logStep = "maintained" /\ Returns /\ UNCHANGED directoryVars

\* Whatever the log with two links is, the maintenance that meets it fails.
RefusesLog ==
    /\ logStep \in {"merges", "compresses", "shrinks", "limits"} /\ linked # {}
    /\ Returns /\ UNCHANGED directoryVars

-----------------------------------------------------------------------------
(* A target is replaced, and the sources are removed                       *)

LinksBackup ==
    /\ logStep = "ready" /\ Present(job.target) /\ Becomes("backed")
    /\ job' = [job EXCEPT !.backup = log[job.target]]
    /\ linked' = linked \cup {job.target} /\ UNCHANGED <<log, hidden>>

ClaimsLog ==
    /\ logStep = "backed" /\ Becomes("removed")
    /\ log' = [log EXCEPT ![Claimed] = job.backup, ![job.target] = {}]
    /\ linked' = (linked \ {job.target}) \cup {Claimed}
    /\ UNCHANGED <<hidden, job>>

RemovesLog ==
    /\ logStep = "removed" /\ Becomes("cleared")
    /\ log' = Put(Claimed, {}) /\ linked' = linked \ {Claimed}
    /\ UNCHANGED <<hidden, job>>

ActivatesLog ==
    /\ \/ logStep = "cleared"
       \/ logStep = "ready" /\ ~Present(job.target)
    /\ Becomes("activated")
    /\ log' = Put(job.target, job.temp) /\ UNCHANGED <<linked, hidden, job>>

\* What was there is put back, and the temporary file is removed.
PutsLogBack ==
    /\ log' = [log EXCEPT ![job.target] = job.backup, ![Claimed] = {}]
    /\ linked' = linked \ {job.target, Claimed}
    /\ Returns /\ UNCHANGED hidden

ReplacingFails ==
    \/ logStep = "ready" /\ Returns /\ UNCHANGED directoryVars
    \/ logStep \in {"backed", "removed", "cleared"} /\ PutsLogBack

DeletesSource ==
    \E n \in job.sources :
        /\ logStep = "activated" /\ Present(n) /\ Becomes("activated")
        /\ log' = Put(n, {}) /\ UNCHANGED <<linked, hidden, job>>

\* archive_rollback_safe: once a source is gone the archive stays.  A source
\* that was compressed stays beside what it was compressed to.
DeletingFails ==
    /\ logStep = "activated"
    /\ IF \A n \in job.sources : Present(n)
       THEN \/ PutsLogBack
            \/ job.target[1] = "gz" /\ Returns /\ UNCHANGED directoryVars
       ELSE Returns /\ hidden' = hidden \cup job.backup /\ UNCHANGED <<log, linked>>

Replaced ==
    /\ logStep = "activated" /\ \A n \in job.sources : ~Present(n)
    /\ Becomes(job.after) /\ job' = Idle /\ UNCHANGED directoryVars

-----------------------------------------------------------------------------
(* Everything else                                                         *)

\* The temporary file, the backup and the claimed file keep names of their own.
LoggerKilled ==
    /\ logStep # "idle" /\ logStep' = "idle" /\ job' = Idle /\ logKilled' = TRUE
    /\ log' = Put(Claimed, {})
    /\ linked' = IF Claimed \in linked THEN (linked \ {Claimed}) \cup {Leftover} ELSE linked
    /\ hidden' = hidden \cup log[Claimed]
                    \cup (IF logStep = "activated" THEN {} ELSE job.backup \cup job.temp)
    /\ UNCHANGED <<today, written, dropped>>

DayPasses ==
    /\ logStep = "idle" /\ today < LastDay /\ today' = today + 1
    /\ UNCHANGED <<written, directoryVars, dropped, loggerVars, logKilled>>

LogNext ==
    \/ WritesRecord \/ RecordNeedsRoom
    \/ LinksRotated \/ ClaimsActive \/ RemovesActive \/ RotatingFails
    \/ Maintains \/ Merges \/ NothingToMerge \/ CompressesOld \/ NothingToCompress
    \/ ChecksSizes \/ Limits \/ FullIsRotated \/ MaintenanceEnds \/ RefusesLog
    \/ LinksBackup \/ ClaimsLog \/ RemovesLog \/ ActivatesLog \/ ReplacingFails
    \/ DeletesSource \/ DeletingFails \/ Replaced
    \/ LoggerKilled \/ DayPasses

LogSpec == LogInit /\ [][LogNext]_logVars

-----------------------------------------------------------------------------
\* A record that was written stays in a file until the limit of all logs
\* removes it, whatever fails and whoever is killed.  Unless a command was
\* killed, the file has the name of a log as soon as nobody works on it.
NoRecordLost ==
    \A r \in (1 .. written) \ dropped :
        LET inLog == \E n \in Names : r \in log[n]
        IN  /\ inLog \/ r \in hidden \cup job.temp \cup job.backup
            /\ (logStep = "idle" /\ ~logKilled) => inLog
=============================================================================
