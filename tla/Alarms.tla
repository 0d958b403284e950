------------------------------- MODULE Alarms -------------------------------
(***************************************************************************)
(* The store of repeating alarms (alarms.py) and the commands on it: add,  *)
(* remove, enable or disable, check, the import of settings and the import *)
(* of alarms.  A command locks the store, reads it, changes it and writes  *)
(* it; a check reads the clock BEFORE it waits for the lock.               *)
(*                                                                         *)
(* Time is counted in minutes, a day has Day of them and a week Week days. *)
(* An alarm is due at its minute of each of its days.  A check that marks  *)
(* keeps when it was made and, per alarm, which occurrence it reported;    *)
(* what it marked is history once it is written, reported or not: a check  *)
(* killed after the write has lost its report.                             *)
(***************************************************************************)
EXTENDS Integers, FiniteSets, FiniteSetsExt

CONSTANTS Commands,     \* the processes that run commands
          Day, Week,    \* minutes of a day, days of a week
          Minutes,      \* the minutes of a day alarms are set to
          DaySets,      \* the sets of weekdays alarms are set to
          CatchUp,      \* the catch-up minutes of the checks
          MaxAlarms,    \* MAX_ALARM_COUNT
          LastMinute,   \* bound on the clock
          MaxSetBacks,  \* bound: how often the clock is set back
          Never

ASSUME AlarmAssumption ==
    /\ Day \in Nat \ {0} /\ Week \in Nat \ {0}
    /\ Minutes \subseteq 0..(Day - 1)
    /\ \A days \in DaySets : days \subseteq 0..(Week - 1) /\ days # {}
    /\ CatchUp \in Nat \ {0} /\ LastMinute \in Nat
    /\ MaxAlarms \in Nat \ {0} /\ MaxSetBacks \in Nat
    /\ Never \notin Int \cup Commands

VARIABLES
    wallClock,    \* the wall clock
    setBacks,     \* how often it was set back
    storeLock,    \* who holds the lock of the store
    alarmStep,    \* where each command is
    request,      \* what it was asked to do
    alarms,       \* the store: the alarm of each id in use
    lastChecked,  \* last_checked_at
    marked,       \* history: the occurrences that were marked, once or again
    owed          \* history: what was due while its alarm was enabled

storeVars == <<alarms, lastChecked, marked, owed>>
alarmVars == <<wallClock, setBacks, storeLock, alarmStep, request, storeVars>>

Times == 0..LastMinute
Ids == Minutes \X (1..MaxAlarms)
Alarm == [minute : Minutes, days : DaySets, enabled : BOOLEAN,
          triggered : Times \cup {Never}]
Requests ==
    [op : {"add"}, minute : Minutes, days : DaySets, enabled : BOOLEAN]
    \cup [op : {"remove"}, id : Ids]
    \cup [op : {"set"}, id : Ids, enabled : BOOLEAN]
    \cup [op : {"check"}, mark : BOOLEAN, catchUp : {0, CatchUp}, now : Times]
    \cup [op : {"settings-import", "alarms-import"}]

ASSUME NeverAssumption == Never \notin Requests

AlarmTypeOK ==
    /\ wallClock \in Times /\ setBacks \in 0..MaxSetBacks
    /\ storeLock \in Commands \cup {Never}
    /\ alarmStep \in [Commands -> {"idle", "locks", "holds", "locksAgain"}]
    /\ request \in [Commands -> Requests \cup {Never}]
    /\ DOMAIN alarms \subseteq Ids /\ alarms \in [DOMAIN alarms -> Alarm]
    /\ Cardinality(DOMAIN alarms) <= MaxAlarms
    /\ lastChecked \in Times \cup {Never}
    /\ marked \in [Ids \X Times -> 0..2]
    /\ owed \subseteq Ids \X Times

AlarmInit ==
    /\ wallClock = 0 /\ setBacks = 0
    /\ storeLock = Never
    /\ alarmStep = [c \in Commands |-> "idle"]
    /\ request = [c \in Commands |-> Never]
    /\ alarms = <<>>
    /\ lastChecked = Never
    /\ marked = [o \in Ids \X Times |-> 0]
    /\ owed = {}

-----------------------------------------------------------------------------
Occurs(alarm, t) == t % Day = alarm.minute /\ (t \div Day) % Week \in alarm.days

DueOccurrences(alarm, from, to) == {t \in Times : from <= t /\ t <= to /\ Occurs(alarm, t)}

\* Trusting the time of the last check even when it lies ahead of the clock.
WindowStart_Ahead(now, catchUp) ==
    IF catchUp = 0 THEN now
    ELSE IF lastChecked # Never THEN Max({lastChecked, now - catchUp})
         ELSE now - catchUp

\* A check made before the last one goes back as far as it may.
WindowStart(now, catchUp) ==
    IF catchUp = 0 THEN now
    ELSE IF lastChecked # Never /\ lastChecked <= now
         THEN Max({lastChecked, now - catchUp})
         ELSE now - catchUp

\* What a check would find without a look at what was triggered.
Due_Triggered(now, catchUp) ==
    {o \in Ids \X Times :
        /\ o[1] \in DOMAIN alarms /\ alarms[o[1]].enabled
        /\ LET found == DueOccurrences(alarms[o[1]], WindowStart(now, catchUp), now)
           IN found # {} /\ o[2] = Max(found)}

\* What a check finds due: the last occurrence of an enabled alarm in the
\* window, unless the alarm was already triggered for it.
Due(now, catchUp) ==
    {o \in Ids \X Times :
        /\ o[1] \in DOMAIN alarms /\ alarms[o[1]].enabled
        /\ LET found == DueOccurrences(alarms[o[1]], WindowStart(now, catchUp), now)
           IN found # {} /\ o[2] = Max(found)
        /\ alarms[o[1]].triggered # o[2]}

FreeId(minute) ==
    <<minute, CHOOSE n \in 1..MaxAlarms :
                 /\ <<minute, n>> \notin DOMAIN alarms
                 /\ \A m \in 1..(n - 1) : <<minute, m>> \in DOMAIN alarms>>

\* History of an alarm that begins anew, or is not owed anything any more.
Forget(ids) == marked' = [o \in DOMAIN marked |-> IF o[1] \in ids THEN 0 ELSE marked[o]]
Waive(ids) == owed' = {o \in owed : o[1] \notin ids}

-----------------------------------------------------------------------------
AddAlarm(r) ==
    /\ r.op = "add"
    /\ IF Cardinality(DOMAIN alarms) >= MaxAlarms THEN UNCHANGED storeVars
       ELSE LET id == FreeId(r.minute)
            IN /\ alarms' = [i \in DOMAIN alarms \cup {id} |->
                               IF i = id THEN [minute |-> r.minute, days |-> r.days,
                                               enabled |-> r.enabled, triggered |-> Never]
                               ELSE alarms[i]]
               /\ Forget({id}) /\ Waive({id})
               /\ UNCHANGED lastChecked

RemoveAlarm(r) ==
    /\ r.op = "remove"
    /\ alarms' = [i \in DOMAIN alarms \ {r.id} |-> alarms[i]]
    /\ Forget({r.id}) /\ Waive({r.id})
    /\ UNCHANGED lastChecked

SetAlarmEnabled(r) ==
    /\ r.op = "set"
    /\ alarms' = [i \in DOMAIN alarms |->
                    IF i = r.id THEN [alarms[i] EXCEPT !.enabled = r.enabled]
                    ELSE alarms[i]]
    /\ IF r.enabled THEN UNCHANGED owed ELSE Waive({r.id})
    /\ UNCHANGED <<lastChecked, marked>>

\* A check without catch-up gives up what was due before; the history keeps
\* that as nothing owed.
CheckDueAlarms(r) ==
    /\ r.op = "check"
    /\ IF ~r.mark THEN UNCHANGED storeVars
       ELSE /\ alarms' = [i \in DOMAIN alarms |->
                            IF \E t \in Times : <<i, t>> \in Due(r.now, r.catchUp)
                            THEN [alarms[i] EXCEPT !.triggered =
                                    CHOOSE t \in Times : <<i, t>> \in Due(r.now, r.catchUp)]
                            ELSE alarms[i]]
            /\ lastChecked' = r.now
            /\ marked' = [o \in DOMAIN marked |->
                            IF o \in Due(r.now, r.catchUp) THEN Min({marked[o] + 1, 2})
                            ELSE marked[o]]
            /\ owed' = IF r.catchUp = 0 THEN {} ELSE owed

\* The imported store has the alarms of the file (here none or one) and was
\* never checked.
Imports ==
    /\ \E ids \in SUBSET Ids, days \in DaySets :
         /\ Cardinality(ids) <= 1
         /\ alarms' = [i \in ids |-> [minute |-> i[1], days |-> days,
                                      enabled |-> TRUE, triggered |-> Never]]
    /\ lastChecked' = Never
    /\ Forget(Ids) /\ Waive(Ids)

-----------------------------------------------------------------------------
\* A command is started; a check reads the clock now.
Starts(c) ==
    /\ alarmStep[c] = "idle"
    /\ \E r \in Requests :
         /\ r.op = "check" => r.now = wallClock
         /\ request' = [request EXCEPT ![c] = r]
    /\ alarmStep' = [alarmStep EXCEPT ![c] = "locks"]
    /\ UNCHANGED <<wallClock, setBacks, storeLock, storeVars>>

Locks(c) ==
    /\ alarmStep[c] \in {"locks", "locksAgain"}
    /\ storeLock = Never
    /\ storeLock' = c
    /\ alarmStep' = [alarmStep EXCEPT ![c] = "holds"]
    /\ UNCHANGED <<wallClock, setBacks, request, storeVars>>

AlarmCommandEnds(c) ==
    /\ storeLock' = Never
    /\ alarmStep' = [alarmStep EXCEPT ![c] = "idle"]
    /\ request' = [request EXCEPT ![c] = Never]
    /\ UNCHANGED <<wallClock, setBacks>>

\* Read, change, write and unlock.  Nobody sees the store in between, and a
\* read or write that fails leaves it alone.
Acts(c) ==
    /\ alarmStep[c] = "holds"
    /\ \/ AddAlarm(request[c]) \/ RemoveAlarm(request[c])
       \/ SetAlarmEnabled(request[c]) \/ CheckDueAlarms(request[c])
       \/ request[c].op = "settings-import" /\ Imports
       \/ request[c].op # "alarms-import" /\ UNCHANGED storeVars
    /\ AlarmCommandEnds(c)

\* The import of alarms saves with save_alarm_store, which locks the store
\* through a descriptor of its own: for flock that is somebody else.
LocksTwice(c) ==
    /\ alarmStep[c] = "holds" /\ request[c].op = "alarms-import"
    /\ alarmStep' = [alarmStep EXCEPT ![c] = "locksAgain"]
    /\ UNCHANGED <<wallClock, setBacks, storeLock, request, storeVars>>

\* ALARM_LOCK_TIMEOUT_SECONDS have passed.
TimesOut(c) ==
    /\ alarmStep[c] \in {"locks", "locksAgain"}
    /\ storeLock # Never
    /\ storeLock' = IF storeLock = c THEN Never ELSE storeLock
    /\ alarmStep' = [alarmStep EXCEPT ![c] = "idle"]
    /\ request' = [request EXCEPT ![c] = Never]
    /\ UNCHANGED <<wallClock, setBacks, storeVars>>

\* The kernel unlocks the store of a killed command.
KilledCommand(c) ==
    /\ alarmStep[c] # "idle"
    /\ storeLock' = IF storeLock = c THEN Never ELSE storeLock
    /\ alarmStep' = [alarmStep EXCEPT ![c] = "idle"]
    /\ request' = [request EXCEPT ![c] = Never]
    /\ UNCHANGED <<wallClock, setBacks, storeVars>>

\* The lock is waited for less than a minute: a check is at most one late.
Tick ==
    /\ wallClock < LastMinute
    /\ \A c \in Commands : request[c] # Never /\ request[c].op = "check"
                             => request[c].now >= wallClock
    /\ wallClock' = wallClock + 1
    /\ owed' = owed \cup {<<i, wallClock'>> : i \in {k \in DOMAIN alarms :
                              alarms[k].enabled /\ Occurs(alarms[k], wallClock')}}
    /\ UNCHANGED <<setBacks, storeLock, alarmStep, request, alarms, lastChecked, marked>>

\* The clock is set back, by hand or at the end of daylight saving time.
SetBack ==
    /\ setBacks < MaxSetBacks
    /\ \E t \in 0..(wallClock - 1) : wallClock' = t
    /\ setBacks' = setBacks + 1
    /\ UNCHANGED <<storeLock, alarmStep, request, storeVars>>

AlarmNext ==
    \/ Tick \/ SetBack
    \/ \E c \in Commands : \/ Starts(c) \/ Locks(c) \/ Acts(c) \/ LocksTwice(c)
                           \/ TimesOut(c) \/ KilledCommand(c)

AlarmSpec == AlarmInit /\ [][AlarmNext]_alarmVars

-----------------------------------------------------------------------------
\* alarms.py:946 - while the clock is never set back, no occurrence is marked
\* twice, however checks overlap: a check that waited for the lock works with
\* a time that lies before the last check.  It may forget the later of two
\* occurrences for the earlier one, and the next check finds the later again,
\* unless the catch-up is shorter than a day less the minute of waiting.
MarkedOnce ==
    setBacks = 0 /\ CatchUp + 1 < Day => \A o \in DOMAIN marked : marked[o] <= 1

\* alarms.py:946 - a marking check that reaches back CatchUp minutes leaves no
\* occurrence of these minutes unmarked which came while its alarm was
\* enabled, even if checks overlapped.  Once the clock was set back, that
\* holds for what is not older than a last check the clock has passed again.
NoneMissed ==
    [][\A c \in Commands, o \in owed :
         /\ CatchUp < Day
         /\ alarmStep[c] = "holds" /\ storeLock = c /\ lastChecked' # lastChecked
         /\ request[c].op = "check" /\ request[c].catchUp > 0
         /\ request[c].now - CatchUp <= o[2] /\ o[2] <= request[c].now
         /\ setBacks = 0 \/ lastChecked = Never \/ lastChecked <= o[2]
            \/ lastChecked > request[c].now
         => marked'[o] > 0]_alarmVars

\* docs/man/speed-of-cinnamon.1:110 - an import of alarms that has locked the
\* store and is not killed replaces it: it does not wait for its own lock.
ImportReplaces ==
    [][\A c \in Commands : alarmStep[c] = "locksAgain" => ~TimesOut(c)]_alarmVars
=============================================================================
