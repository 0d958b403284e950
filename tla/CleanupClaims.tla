--------------------------- MODULE CleanupClaims ---------------------------
(***************************************************************************)
(* How `cancel` gets rid of the audio and the log of a recording whose     *)
(* text could not be inserted (process_recovery_cleanup_transaction and    *)
(* what it calls, cli.py).  Every artifact is renamed to a claim, a name   *)
(* only this state file can have given.  A trailer appended to the claim   *)
(* first says that it is prepared, then that wiping it is authorised; only *)
(* when the state says so too, the contents are overwritten, the claim is  *)
(* cut to nothing and unlinked.  The entry of the artifact in the state,   *)
(* its phase, is advanced between these steps.                             *)
(*                                                                         *)
(* A run of `cancel` may fail or be killed anywhere, and the machine may   *)
(* lose power: then a file is what it was at some write since its last     *)
(* fsync, and so is the directory.  Whatever is left, the next `cancel`    *)
(* goes on from there.  It also takes over what earlier versions left: the *)
(* pairs of a restoration and entries without a nonce, to be migrated, and *)
(* claims in the phase `wiping`.                                           *)
(*                                                                         *)
(* A write of the state is one durable step (module StateStore).  What is  *)
(* appended reaches the disk in order.  Nobody else touches the files.     *)
(***************************************************************************)
EXTENDS Naturals

CONSTANTS Artifacts,    \* the owners: audio, log, files of an interrupted run
          MaxFaults     \* how often a run fails or is killed, or power is lost

ASSUME ClaimsAssumption == MaxFaults \in Nat

VARIABLES
    form,        \* what the entries of the state are: none yet, to migrate, claims
    journal,     \* the phase of every artifact's entry
    name,        \* what the artifact is called
    nameOnDisk,  \* what a power loss may make of that
    body,        \* the contents of the file
    bodyOnDisk,  \* what a power loss may make of them
    at,          \* the artifact this run works on
    step,        \* the step it takes next
    todo,        \* the artifacts it has not come to
    faults

fileVars == <<name, nameOnDisk, body, bodyOnDisk>>
runVars == <<at, step, todo>>
claimVars == <<form, journal, fileVars, runVars, faults>>

Phases == {"none", "migrate", "intent", "claimed", "prepared", "wiping", "armed"}
Names == {"owner", "source", "claim", "none"}
Bodies == {"original", "partial", "prepared", "intermediate", "authorized", "wiping", "zero"}
Nothing == {"nothing"}     \* no artifact is being worked on

ClaimsTypeOK ==
    /\ form \in {"none", "migrate", "claims", "finished"}
    /\ journal \in [Artifacts -> Phases]
    /\ name \in [Artifacts -> Names] /\ nameOnDisk \in [Artifacts -> SUBSET Names]
    /\ body \in [Artifacts -> Bodies] /\ bodyOnDisk \in [Artifacts -> SUBSET Bodies]
    /\ \A a \in Artifacts : name[a] \in nameOnDisk[a] /\ body[a] \in bodyOnDisk[a]
    /\ at \in Artifacts \cup {Nothing}
    /\ step \in {"idle", "next", "renames", "syncs", "commits", "trimmed", "writes", "committed",
                 "authorizes", "marked", "suffixed", "arms", "rechecks", "wipes", "wiped",
                 "retires", "unlinked"}
    /\ todo \subseteq Artifacts
    /\ faults \in 0..MaxFaults

-----------------------------------------------------------------------------
\* An artifact before the first run: still called by its name, the backup or
\* the claim without a nonce of an earlier version, already wiped by it, or a
\* claim with the trailer of a wipe an earlier version began.
Starts(f, entry, called, holds) ==
    CASE f = "none"    -> entry = "none" /\ called \in {"owner", "none"} /\ holds = "original"
      [] f = "migrate" -> /\ entry = "migrate"
                          /\ called \in {"owner", "source", "none"}
                          /\ holds = "original" \/ (holds = "zero" /\ called = "source")
      [] f = "claims"  -> /\ entry = "wiping" /\ called = "claim"
                          /\ holds \in {"prepared", "intermediate", "authorized"}

ClaimsInit ==
    /\ form \in {"none", "migrate", "claims"}
    /\ journal \in [Artifacts -> {"none", "migrate", "wiping"}]
    /\ name \in [Artifacts -> Names]
    /\ body \in [Artifacts -> Bodies]
    /\ \A a \in Artifacts : Starts(form, journal[a], name[a], body[a])
    /\ nameOnDisk = [a \in Artifacts |-> {name[a]}]
    /\ bodyOnDisk = [a \in Artifacts |-> {body[a]}]
    /\ at = Nothing /\ step = "idle" /\ todo = {} /\ faults = 0

-----------------------------------------------------------------------------
(* Steps a run is made of                                                  *)

\* The run does `here` to the artifact it works on and goes on with `next`.
ClaimGoes(here, next) == step = here /\ step' = next /\ UNCHANGED <<at, todo, faults>>

Enters(phase) == journal' = [journal EXCEPT ![at] = phase]

Calls(new) ==
    /\ name' = [name EXCEPT ![at] = new]
    /\ nameOnDisk' = [nameOnDisk EXCEPT ![at] = @ \cup {new}]
    /\ UNCHANGED <<body, bodyOnDisk>>

Holds(new) ==
    /\ body' = [body EXCEPT ![at] = new]
    /\ bodyOnDisk' = [bodyOnDisk EXCEPT ![at] = @ \cup {new}]
    /\ UNCHANGED <<name, nameOnDisk>>

\* fsync of the directory and of the file.
SyncsName ==
    /\ nameOnDisk' = [nameOnDisk EXCEPT ![at] = {name[at]}]
    /\ UNCHANGED <<name, body, bodyOnDisk>>

SyncsBody ==
    /\ bodyOnDisk' = [bodyOnDisk EXCEPT ![at] = {body[at]}]
    /\ UNCHANGED <<name, nameOnDisk, body>>

\* This artifact is done with: the run takes the next one.
Finishes(here) ==
    /\ step = here /\ step' = "next"
    /\ todo' = todo \ {at} /\ at' = Nothing
    /\ UNCHANGED faults

-----------------------------------------------------------------------------
(* A run                                                                   *)

\* A cancel under the finalization lock.  Without entries in the state, it
\* writes one for every artifact that is there, before it touches any.
Begins ==
    /\ step = "idle" /\ form # "finished"
    /\ form' = IF form = "none" THEN "claims" ELSE form
    /\ journal' = IF form = "none"
                  THEN [a \in Artifacts |-> IF name[a] = "owner" THEN "intent" ELSE "none"]
                  ELSE journal
    /\ todo' = {a \in Artifacts : journal'[a] # "none"}
    /\ step' = "next" /\ at' = Nothing
    /\ UNCHANGED <<fileVars, faults>>

\* What the first look at the names says: an artifact to be renamed, a claim to
\* go on with, or nothing left.
Migration(a) ==
    CASE name[a] = "none"  -> "unlinked"
      [] body[a] = "zero"  -> "retires"
      [] name[a] = "claim" -> "syncs"
      [] OTHER             -> "renames"

\* Whatever fits neither the entry nor the phase is refused, and the run ends.
Resumption(a) ==
    CASE name[a] = "claim" /\ journal[a] = "armed" /\ body[a] = "zero" -> "retires"
      [] name[a] = "claim"                              -> "syncs"
      [] name[a] = "owner" /\ journal[a] = "intent"     -> "renames"
      [] name[a] = "none" /\ journal[a] = "armed"       -> "unlinked"
      [] OTHER                                          -> "idle"

Takes(a) ==
    /\ step = "next" /\ a \in todo
    /\ at' = a
    /\ step' = IF form = "migrate" THEN Migration(a) ELSE Resumption(a)
    /\ UNCHANGED <<form, journal, fileVars, todo, faults>>

Renames == ClaimGoes("renames", "syncs") /\ Calls("claim") /\ UNCHANGED <<form, journal>>

\* The directory is synced before the state says that there is a claim, and
\* again whenever a run comes upon one.  A migration only renames.
SyncsClaim ==
    /\ step = "syncs" /\ SyncsName
    /\ IF form = "migrate"
       THEN Finishes("syncs") /\ UNCHANGED <<form, journal>>
       ELSE /\ IF journal[at] = "intent" THEN Enters("claimed") ELSE UNCHANGED journal
            /\ UNCHANGED form
            /\ ClaimGoes("syncs", CASE journal[at] \in {"intent", "claimed"} -> "commits"
                               [] journal[at] \in {"prepared", "wiping"} -> "authorizes"
                               [] journal[at] = "armed" -> "wipes")

\* Part of a trailer, or a whole one, of an earlier run is cut off.
Trims ==
    /\ step = "commits" /\ UNCHANGED <<form, journal>>
    /\ IF body[at] = "original"
       THEN ClaimGoes("commits", "writes") /\ UNCHANGED fileVars
       ELSE ClaimGoes("commits", "trimmed") /\ Holds("original")

SyncsTrimmed == ClaimGoes("trimmed", "writes") /\ SyncsBody /\ UNCHANGED <<form, journal>>

WritesTrailer ==
    /\ \/ ClaimGoes("writes", "writes") /\ body[at] = "original" /\ Holds("partial")
       \/ ClaimGoes("writes", "committed") /\ Holds("prepared")
    /\ UNCHANGED <<form, journal>>

Commits == ClaimGoes("committed", "authorizes") /\ SyncsBody /\ Enters("prepared") /\ UNCHANGED form

\* The last byte of the trailer first, then one more after it.
Marks ==
    /\ step = "authorizes" /\ UNCHANGED <<form, journal>>
    /\ CASE body[at] = "prepared"     -> ClaimGoes("authorizes", "marked") /\ Holds("intermediate")
         [] body[at] = "intermediate" -> ClaimGoes("authorizes", "suffixed") /\ Holds("authorized")
         [] body[at] = "authorized"   -> ClaimGoes("authorizes", "suffixed") /\ UNCHANGED fileVars

SyncsMark == ClaimGoes("marked", "authorizes") /\ SyncsBody /\ UNCHANGED <<form, journal>>

SyncsSuffix_Not == ClaimGoes("suffixed", "arms") /\ UNCHANGED <<fileVars, form, journal>>

SyncsSuffix == ClaimGoes("suffixed", "arms") /\ SyncsBody /\ UNCHANGED <<form, journal>>

Arms_Later == ClaimGoes("arms", "wipes") /\ UNCHANGED <<journal, form, fileVars>>

Arms == ClaimGoes("arms", "rechecks") /\ Enters("armed") /\ UNCHANGED <<form, fileVars>>

\* The authorisation is looked at once more after the state was written.
Rechecks == ClaimGoes("rechecks", "wipes") /\ UNCHANGED <<form, journal, fileVars>>

Wipes ==
    /\ step = "wipes" /\ UNCHANGED <<form, journal>>
    /\ \/ body[at] = "authorized" /\ ClaimGoes("wipes", "wipes") /\ Holds("wiping")
       \/ body[at] \in {"authorized", "wiping"} /\ ClaimGoes("wipes", "wiped") /\ Holds("zero")

SyncsWiped == ClaimGoes("wiped", "retires") /\ SyncsBody /\ UNCHANGED <<form, journal>>

RetiresClaim == ClaimGoes("retires", "unlinked") /\ Calls("none") /\ UNCHANGED <<form, journal>>

SyncsUnlinked_Not == Finishes("unlinked") /\ UNCHANGED <<fileVars, form, journal>>

\* After unlinking it, and whenever a run finds that it is gone.
SyncsUnlinked == Finishes("unlinked") /\ SyncsName /\ UNCHANGED <<form, journal>>

\* Every artifact was come to: the entries of the migration become claims.
Migrated ==
    /\ form = "migrate" /\ form' = "claims"
    /\ journal' = [a \in Artifacts |-> IF name[a] = "claim" THEN "claimed" ELSE "none"]
    /\ todo' = {a \in Artifacts : name[a] = "claim"} /\ step' = "next"

\* Or those of the transaction are cleared.
Cleared ==
    /\ form # "migrate" /\ form' = "finished"
    /\ journal' = [a \in Artifacts |-> "none"]
    /\ step' = "idle" /\ UNCHANGED todo

Clears ==
    /\ step = "next" /\ todo = {}
    /\ Migrated \/ Cleared
    /\ UNCHANGED <<fileVars, at, faults>>

-----------------------------------------------------------------------------
(* Faults                                                                  *)

Stopped == step' = "idle" /\ at' = Nothing /\ todo' = {} /\ faults' = faults + 1

\* The run is killed, or a call fails: the caller reports it and keeps the
\* entries.  If it is the second look at the authorisation that fails, the
\* entry goes back to what it was.
Fails ==
    /\ step # "idle" /\ faults < MaxFaults
    /\ Stopped
    /\ \/ UNCHANGED journal
       \/ step = "rechecks" /\ journal' \in {[journal EXCEPT ![at] = p] : p \in {"prepared", "wiping"}}
    /\ UNCHANGED <<form, fileVars>>

LosesPower ==
    /\ faults < MaxFaults
    /\ Stopped
    /\ name' \in {n \in [Artifacts -> Names] : \A a \in Artifacts : n[a] \in nameOnDisk[a]}
    /\ body' \in {b \in [Artifacts -> Bodies] : \A a \in Artifacts : b[a] \in bodyOnDisk[a]}
    /\ nameOnDisk' = [a \in Artifacts |-> {name'[a]}]
    /\ bodyOnDisk' = [a \in Artifacts |-> {body'[a]}]
    /\ UNCHANGED <<form, journal>>

-----------------------------------------------------------------------------
Run ==
    \/ \E a \in Artifacts : Takes(a)
    \/ Renames \/ SyncsClaim \/ Trims \/ SyncsTrimmed \/ WritesTrailer \/ Commits
    \/ Marks \/ SyncsMark \/ SyncsSuffix \/ Arms \/ Rechecks \/ Wipes \/ SyncsWiped
    \/ RetiresClaim \/ SyncsUnlinked \/ Clears

ClaimsNext == Begins \/ Run \/ Fails \/ LosesPower

ClaimsSpec == ClaimsInit /\ [][ClaimsNext]_claimVars

\* Whoever cancels tries again, and a run goes on.
ClaimsFair(n) == (n = 1 /\ Begins) \/ (n = 2 /\ Run)

ClaimsFairness == \A n \in 1..2 : WF_claimVars(ClaimsFair(n))

-----------------------------------------------------------------------------
\* cli.py:13497 - until the state has been armed, power loss or not, every
\* artifact is still there with all of its contents.
KeptUntilArmed ==
    \A a \in Artifacts : journal[a] \in {"intent", "claimed", "prepared", "wiping"} =>
        /\ "none" \notin nameOnDisk[a]
        /\ bodyOnDisk[a] \cap {"wiping", "zero"} = {}

\* cli.py:14637 - no claim is left that the state does not name, for a cancel
\* that finds one refuses for ever.
ClaimIsJournaled ==
    \A a \in Artifacts : "claim" \in nameOnDisk[a] => journal[a] # "none"

ClaimsAreSafe == KeptUntilArmed /\ ClaimIsJournaled

\* cli.py:13442 - whatever failed, a later cancel gets to the end: the entries
\* are cleared, and nothing of the recording is left.
CleanupHasEnded == form = "finished" /\ \A a \in Artifacts : nameOnDisk[a] = {"none"}
=============================================================================
