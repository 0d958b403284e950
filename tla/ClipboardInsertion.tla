------------------------- MODULE ClipboardInsertion -------------------------
(***************************************************************************)
(* insert_text (output.py) with the method clipboard-paste: put a text on  *)
(* the clipboard and press the paste key of the active window.  A paste    *)
(* has no transaction, so commands agree on what was pasted through three  *)
(* files: a lock with the pid of its owner, a state that names the text    *)
(* inserted last (pending until the paste is known to have happened), and  *)
(* a ledger that quarantines texts of which that was never known.          *)
(*                                                                         *)
(* Every command is a process that inserts one text, in the same window.   *)
(* A lock file is named after the process that created it.  Time passes in *)
(* ticks; the durations below keep the order of those of the code.         *)
(***************************************************************************)
EXTENDS Integers, Sequences, FiniteSets

CONSTANTS Inserters,     \* the commands
          Text,          \* the text each of them inserts
          Past,          \* a command killed earlier, while it held the lock
          NoFile,        \* no lock file
          LastTick,      \* bound: where the clock stops
          MaxKilled      \* bound: the commands that are killed

Duplicate == 1    \* MAX_DUPLICATE_TEXT_SECONDS
PendingFor == 3   \* MAX_PASTE_TIMEOUT_SECONDS
QuarantineFor == 5 \* MAX_PASTE_TIMEOUT_SECONDS + MAX_EXEC_TIMEOUT_SECONDS
LockFor == 6      \* MAX_DUPLICATE_LOCK_SECONDS

ASSUME InsertersAssumption ==
    /\ {NoFile, Past} \cap Inserters = {}
    /\ LastTick \in Nat \ {0}
    /\ MaxKilled \in Nat

VARIABLES
    clock,
    at,         \* what each command does next
    windowless, \* those that find no window, or no helper, to paste
    lockFile,   \* the lock: who created it and whether its pid is written
    lockTime,   \* when it was last changed
    lockSeen,   \* the file each command has inspected
    entry,      \* the dedupe state
    entrySeen,  \* what each command has read of it
    ledger,     \* until when each text is quarantined, 0 if it is not
    pidOf,      \* who has the pid of each command: itself, nobody, another
    reserved,   \* history: when each command wrote its pending entry
    pastes,     \* history: who has pasted, in order, and when
    ended,      \* history: how each command ended
    displaced,  \* history: the lock of a living command was renamed away
    torn        \* history: the state was lost, by a kill in the middle of a
                \* write or as it could not be put back

lockVars == <<lockFile, lockTime, lockSeen, displaced>>
stateVars == <<entry, ledger, torn>>
insertVars == <<clock, at, windowless, lockVars, entrySeen, stateVars, pidOf,
                reserved, pastes, ended>>

NoEntry == [text |-> NoFile, context |-> "none", time |-> 0, pending |-> FALSE]
NoLock == [by |-> NoFile, written |-> FALSE]
Texts == {Text[p] : p \in Inserters}
Contexts == {"window", "nowindow", "clipboard"}
Entries == [text : Texts \cup {NoFile}, context : Contexts \cup {"none"},
            time : 0..LastTick, pending : BOOLEAN]

\* Without a window or a helper that could paste, only the clipboard is set.
Context(p) == IF p \in windowless THEN "nowindow" ELSE "window"
Key(p) == <<Text[p], Context(p)>>

Steps == {"opens", "writes", "rechecks", "claims", "reads",
          "prepares", "reserves", "sets", "pastes", "commits", "fallsback",
          "refreshes", "restores", "releases", "ended"}
Inside == {"reads", "prepares", "reserves", "sets", "pastes", "commits",
           "fallsback", "refreshes", "restores", "releases"}

InsertTypeOK ==
    /\ clock \in 1..LastTick
    /\ at \in [Inserters -> Steps] /\ windowless \subseteq Inserters
    /\ lockFile \in [by : Inserters \cup {Past, NoFile}, written : BOOLEAN]
    /\ lockSeen \in [Inserters -> [by : Inserters \cup {Past, NoFile}, written : BOOLEAN]]
    /\ lockTime \in (-LockFor)..LastTick
    /\ entry \in Entries /\ entrySeen \in [Inserters -> Entries]
    /\ ledger \in [Texts \X {"window", "nowindow"} -> 0..(LastTick + QuarantineFor)]
    /\ pidOf \in [Inserters \cup {Past} -> {"itself", "nobody", "another"}]
    /\ ended \in [Inserters -> {"no", "inserted", "clipboard", "declined",
                                "failed", "uncertain", "killed",
                                "unrestored"}]
    /\ reserved \in [Inserters -> 0..LastTick]
    /\ pastes \in Seq([by : Inserters, time : 1..LastTick])
    /\ {displaced, torn} \subseteq BOOLEAN

InsertInit ==
    /\ clock = 1
    /\ at = [p \in Inserters |-> "opens"]
    /\ windowless \in SUBSET Inserters
    /\ lockFile \in {NoLock} \cup [by : {Past}, written : BOOLEAN]
    /\ lockTime \in {-LockFor, 0}
    /\ pidOf = [p \in Inserters \cup {Past} |-> IF p = Past THEN "nobody" ELSE "itself"]
    /\ ended = [p \in Inserters |-> "no"]
    /\ lockSeen = [p \in Inserters |-> NoLock]
    /\ entry = NoEntry
    /\ entrySeen = [p \in Inserters |-> NoEntry]
    /\ ledger = [k \in Texts \X {"window", "nowindow"} |-> 0]
    /\ reserved = [p \in Inserters |-> 0]
    /\ pastes = <<>>
    /\ displaced = FALSE /\ torn = FALSE

Goes(p, step) == at' = [at EXCEPT ![p] = step]

Ends(p, how) ==
    /\ Goes(p, "ended")
    /\ ended' = [ended EXCEPT ![p] = how]

(***************************************************************************)
(* What keeps a command from inserting: the text is quarantined, or the    *)
(* state names it and has not expired.  A ledger that changes while it is  *)
(* read is not trusted and counts as a quarantine.                         *)
(***************************************************************************)
Quarantined(p) ==
    \/ ledger[Key(p)] > clock
    \/ \E q \in Inserters \ {p} : at[q] \in {"commits", "fallsback", "refreshes"}

Window(pending) == IF pending THEN PendingFor ELSE Duplicate

IsDuplicate_ShortPending(p, e) ==
    \/ ledger[Key(p)] > clock
    \/ /\ e.text = Text[p] /\ e.context = Context(p)
       /\ clock - e.time <= Duplicate

IsDuplicate(p, e) ==
    \/ ledger[Key(p)] > clock
    \/ /\ e.text = Text[p] /\ e.context = Context(p)
       /\ clock - e.time <= Window(e.pending)

Entry(p, where, pending) ==
    [text |-> Text[p], context |-> where, time |-> clock, pending |-> pending]

-----------------------------------------------------------------------------
(* The lock.                                                               *)

\* Before the lock is taken, and whenever it cannot be.
DeclinesPaste(p) ==
    /\ at[p] = "opens"
    /\ Quarantined(p)
    /\ Ends(p, "declined")
    /\ UNCHANGED <<clock, windowless, lockVars, entrySeen, stateVars, pidOf,
                   reserved, pastes>>

Creates(p) ==
    /\ at[p] = "opens"
    /\ lockFile = NoLock
    /\ lockFile' = [by |-> p, written |-> FALSE]
    /\ lockTime' = clock
    /\ Goes(p, "writes")
    /\ UNCHANGED <<clock, windowless, lockSeen, displaced, entrySeen, stateVars,
                   pidOf, reserved, pastes, ended>>

\* A failing write removes the file again and the lock is tried anew.
WritesPid(p) ==
    /\ at[p] = "writes"
    /\ \/ /\ IF lockFile.by = p
             THEN lockFile' = [by |-> p, written |-> TRUE] /\ lockTime' = clock
             ELSE UNCHANGED <<lockFile, lockTime>>
          /\ Goes(p, "reads")
       \/ /\ lockFile' = IF lockFile.by = p THEN NoLock ELSE lockFile
          /\ lockTime' = IF lockFile.by = p THEN 0 ELSE lockTime
          /\ Goes(p, "opens")
    /\ UNCHANGED <<clock, windowless, lockSeen, displaced, entrySeen, stateVars,
                   pidOf, reserved, pastes, ended>>

Stale(f, time) ==
    \/ ~f.written /\ clock - time > LockFor
    \/ f.written /\ pidOf[f.by] = "nobody"
    \/ f.written /\ pidOf[f.by] = "another" /\ clock - time > LockFor

Inspects(p) ==
    /\ at[p] = "opens"
    /\ lockFile # NoLock
    /\ Stale(lockFile, lockTime)
    /\ lockSeen' = [lockSeen EXCEPT ![p] = lockFile]
    /\ Goes(p, "rechecks")
    /\ UNCHANGED <<clock, windowless, lockFile, lockTime, displaced, entrySeen,
                   stateVars, pidOf, reserved, pastes, ended>>

\* The lock stays taken, or the clipboard holds something else than text.
GivesUp(p) ==
    /\ at[p] = "opens"
    /\ lockFile # NoLock \/ p \in windowless
    /\ Ends(p, "failed")
    /\ UNCHANGED <<clock, windowless, lockVars, entrySeen, stateVars, pidOf,
                   reserved, pastes>>

Rechecks(p) ==
    /\ at[p] = "rechecks"
    /\ Goes(p, IF lockFile = lockSeen[p] THEN "claims" ELSE "opens")
    /\ UNCHANGED <<clock, windowless, lockVars, entrySeen, stateVars, pidOf,
                   reserved, pastes, ended>>

\* Its owner was so slow to write its pid that the lock is taken for stale.
OutlivedByOwner == lockFile.by \in Inserters /\ at[lockFile.by] = "writes"

\* The lock is renamed to a name of its own and deleted; a file that turns
\* out to be another one stays under that name.
Claims(p) ==
    /\ at[p] = "claims"
    /\ lockFile' = NoLock
    /\ lockTime' = 0
    /\ displaced' = (displaced \/ lockFile \notin {NoLock, lockSeen[p]} \/ OutlivedByOwner)
    /\ lockSeen' = [lockSeen EXCEPT ![p] = NoLock]
    /\ Goes(p, "opens")
    /\ UNCHANGED <<clock, windowless, entrySeen, stateVars, pidOf, reserved, pastes, ended>>

-----------------------------------------------------------------------------
(* The insertion, under the lock.                                          *)

\* Writes of the state: done, refused, or failing after they took effect.
Writes(e) == entry' = e
WriteFails(e) == entry' \in {entry, e}

ReadsState(p) ==
    /\ at[p] = "reads"
    /\ entrySeen' = [entrySeen EXCEPT ![p] = entry]
    /\ IF IsDuplicate(p, entry)
       THEN /\ Goes(p, "releases")
            /\ ended' = [ended EXCEPT ![p] = "declined"]
       ELSE Goes(p, "prepares") /\ UNCHANGED ended
    /\ UNCHANGED <<clock, windowless, lockVars, stateVars, pidOf, reserved, pastes>>

\* The clipboard must be readable text; otherwise nothing is attempted.
Prepares(p) ==
    /\ at[p] = "prepares"
    /\ Goes(p, "reserves") \/ (Context(p) = "window" /\ Goes(p, "restores"))
    /\ UNCHANGED <<clock, windowless, lockVars, entrySeen, stateVars, pidOf,
                   reserved, pastes, ended>>

Reserves(p) ==
    /\ at[p] = "reserves"
    /\ LET e == Entry(p, Context(p), TRUE)
       IN \/ Writes(e) /\ Goes(p, "sets")
          \/ WriteFails(e) /\ Goes(p, "restores")
    /\ reserved' = [reserved EXCEPT ![p] = clock]
    /\ UNCHANGED <<clock, windowless, lockVars, entrySeen, ledger, torn, pidOf,
                   pastes, ended>>

\* Setting the clipboard works, fails, or fails with its helper not known to
\* have ended.
SetsClipboard(p) ==
    /\ at[p] = "sets"
    /\ \/ Goes(p, IF Context(p) = "window" THEN "pastes" ELSE "commits")
       \/ Goes(p, "restores")
       \/ Goes(p, "refreshes")
    /\ UNCHANGED <<clock, windowless, lockVars, entrySeen, stateVars, pidOf,
                   reserved, pastes, ended>>

\* The paste key is pressed; not pressed, because the window or the clipboard
\* has changed; or not known to have been pressed.
Pastes(p) ==
    /\ at[p] = "pastes"
    /\ \/ /\ pastes' = Append(pastes, [by |-> p, time |-> clock])
          /\ Goes(p, "commits") \/ Goes(p, "refreshes")
       \/ /\ UNCHANGED pastes
          /\ Goes(p, "fallsback") \/ Goes(p, "refreshes")
    /\ UNCHANGED <<clock, windowless, lockVars, entrySeen, stateVars, pidOf,
                   reserved, ended>>

Unquarantined(p) == [ledger EXCEPT ![Key(p)] = 0]

\* A failing removal from the ledger is logged only.
Commits(p) ==
    /\ at[p] = "commits"
    /\ LET e == Entry(p, Context(p), FALSE)
       IN \/ /\ Writes(e)
             /\ ledger' \in {ledger, Unquarantined(p)}
             /\ Goes(p, "releases")
             /\ ended' = [ended EXCEPT ![p] = IF Context(p) = "window"
                                              THEN "inserted" ELSE "clipboard"]
          \/ /\ WriteFails(e)
             /\ UNCHANGED ledger
             /\ IF Context(p) = "window" THEN Goes(p, "refreshes") /\ UNCHANGED ended
                ELSE Goes(p, "releases") /\ ended' = [ended EXCEPT ![p] = "uncertain"]
    /\ UNCHANGED <<clock, windowless, lockVars, entrySeen, torn, pidOf, reserved, pastes>>

\* The text stays on the clipboard: that is what is committed.
FallsBack(p) ==
    /\ at[p] = "fallsback"
    /\ \/ UNCHANGED <<entry, ledger, ended>> /\ Goes(p, "restores")
       \/ /\ ledger' = Unquarantined(p)
          /\ \/ /\ Writes(Entry(p, "clipboard", FALSE))
                /\ Goes(p, "releases")
                /\ ended' = [ended EXCEPT ![p] = "clipboard"]
             \/ /\ WriteFails(Entry(p, "clipboard", FALSE))
                /\ Goes(p, "restores") /\ UNCHANGED ended
    /\ UNCHANGED <<clock, windowless, lockVars, entrySeen, torn, pidOf, reserved, pastes>>

\* Nobody knows whether it was inserted: quarantine the text, then renew the
\* pending entry.  Either may fail.
Refreshes(p) ==
    /\ at[p] = "refreshes"
    /\ \/ UNCHANGED <<entry, ledger>>
       \/ /\ ledger' = [ledger EXCEPT ![Key(p)] = clock + QuarantineFor]
          /\ Writes(Entry(p, Context(p), TRUE)) \/ WriteFails(Entry(p, Context(p), TRUE))
    /\ Goes(p, "releases")
    /\ ended' = [ended EXCEPT ![p] = "uncertain"]
    /\ UNCHANGED <<clock, windowless, lockVars, entrySeen, torn, pidOf, reserved, pastes>>

Restores_Keeping(p) ==
    /\ at[p] = "restores"
    /\ ended' = [ended EXCEPT ![p] = "failed"]
    /\ Goes(p, "releases")
    /\ UNCHANGED <<clock, windowless, lockVars, entrySeen, entry, ledger, torn,
                   pidOf, reserved, pastes>>

\* Nothing was inserted: the state is what it was, or at least not this text,
\* when it cannot be written and is removed.
Restores(p) ==
    /\ at[p] = "restores"
    /\ \/ entry' = entrySeen[p] /\ UNCHANGED torn /\ ended' = [ended EXCEPT ![p] = "failed"]
       \/ /\ entry' = NoEntry /\ torn' = (torn \/ entrySeen[p] # NoEntry)
          /\ ended' = [ended EXCEPT ![p] = "failed"]
       \/ UNCHANGED <<entry, torn>> /\ ended' = [ended EXCEPT ![p] = "unrestored"]
    /\ Goes(p, "releases")
    /\ UNCHANGED <<clock, windowless, lockVars, entrySeen, ledger, pidOf, reserved, pastes>>

Releases(p) ==
    /\ at[p] = "releases"
    /\ lockFile' = IF lockFile = [by |-> p, written |-> TRUE] THEN NoLock ELSE lockFile
    /\ lockTime' = IF lockFile' = NoLock THEN 0 ELSE lockTime
    /\ entrySeen' = [entrySeen EXCEPT ![p] = NoEntry]
    /\ Goes(p, "ended")
    /\ UNCHANGED <<clock, windowless, lockSeen, displaced, stateVars, pidOf, reserved,
                   pastes, ended>>

-----------------------------------------------------------------------------
(* The world.                                                              *)

\* Killed in the middle of a write of the state, a command may leave none.
Killed(p) ==
    /\ at[p] # "ended"
    /\ Cardinality({q \in Inserters : ended[q] = "killed"}) < MaxKilled
    /\ Ends(p, "killed")
    /\ pidOf' = [pidOf EXCEPT ![p] = "nobody"]
    /\ \/ UNCHANGED <<entry, torn>>
       \/ /\ at[p] \in {"reserves", "commits", "fallsback", "refreshes", "restores"}
          /\ entry' = NoEntry /\ torn' = TRUE
    /\ UNCHANGED <<clock, windowless, lockVars, entrySeen, ledger, reserved, pastes>>

PidReused(p) ==
    /\ pidOf[p] = "nobody" /\ lockFile.by = p
    /\ pidOf' = [pidOf EXCEPT ![p] = "another"]
    /\ UNCHANGED <<clock, windowless, at, lockVars, entrySeen, stateVars, reserved,
                   pastes, ended>>

Ticks ==
    /\ clock < LastTick
    /\ clock' = clock + 1
    /\ UNCHANGED <<at, windowless, lockVars, entrySeen, stateVars, pidOf, reserved,
                   pastes, ended>>

InsertNext ==
    \/ Ticks
    \/ \E p \in Inserters \cup {Past} : PidReused(p)
    \/ \E p \in Inserters :
         \/ DeclinesPaste(p) \/ Creates(p) \/ WritesPid(p) \/ Inspects(p)
         \/ GivesUp(p) \/ Rechecks(p) \/ Claims(p) \/ ReadsState(p) \/ Prepares(p)
         \/ Reserves(p) \/ SetsClipboard(p) \/ Pastes(p) \/ Commits(p)
         \/ FallsBack(p) \/ Refreshes(p) \/ Restores(p) \/ Releases(p)
         \/ Killed(p)

InsertSpec == InsertInit /\ [][InsertNext]_insertVars

-----------------------------------------------------------------------------
(* What the three files are for.                                           *)

\* Between two pastes of one text no other text was reserved: the state
\* remembers one entry only.
Consecutive(i, j) ==
    /\ Text[pastes[i].by] = Text[pastes[j].by]
    /\ \A p \in Inserters \ {pastes[i].by, pastes[j].by} :
         reserved[p] = 0 \/ reserved[p] < reserved[pastes[i].by]

\* output.py:3437, 3484 - the same text is not pasted again within
\* MAX_DUPLICATE_TEXT_SECONDS of its last paste, whoever died or failed in
\* between.  Not covered are a paste so slow that the reservation made before
\* it had all but expired, a state lost by a kill inside its replacement or
\* because it could not be put back, and a lock displaced by two commands
\* that reclaim a stale one at once, or before its owner wrote its pid.
NoQuickDuplicate ==
    \A i \in DOMAIN pastes : \A j \in (i + 1)..Len(pastes) :
      Consecutive(i, j) =>
        \/ pastes[j].time - pastes[i].time > Duplicate
        \/ pastes[i].time - reserved[pastes[i].by] >= PendingFor - Duplicate
        \/ displaced \/ torn

\* output.py:3778 - a reservation that outlives its command is explained: the
\* command was killed, could not undo it, or may have inserted the text.
PendingExplained ==
    (entry.pending /\ \A p \in Inserters : at[p] \notin Inside) =>
        \/ displaced
        \/ \E p \in Inserters : /\ Text[p] = entry.text
                                /\ reserved[p] # 0
                                /\ ended[p] \in {"killed", "unrestored", "uncertain"}

\* No text is pasted twice in a row by mistake, nor refused for no reason.
PastesAreGuarded == NoQuickDuplicate /\ PendingExplained
=============================================================================
