---------------------------- MODULE LocalInstall ----------------------------
(***************************************************************************)
(* The local installation (scripts/install-local.sh): staged in a private   *)
(* workspace, the items are put at their targets one after the other.  What *)
(* was there before is moved to the rollback directory of the workspace and *)
(* comes back if anything fails.  Every change is a call of the helper      *)
(* scripts/safe-local-fs.py: it looks at the identity of what it is about   *)
(* to move, moves it by one rename, and looks again.                        *)
(*                                                                         *)
(* The EXIT trap rolls back and removes the workspace.  A signal ends the   *)
(* script without its helper, which goes on for itself; as it has inherited *)
(* the lock, the next installation has to wait for it.  Installations are   *)
(* therefore one after the other, and one that finds a workspace with items *)
(* in it refuses.  Meanwhile somebody else, who takes no lock, may replace  *)
(* or remove what is at a target (as uninstall-local.sh does), once for     *)
(* each.                                                                    *)
(***************************************************************************)
EXTENDS Integers

CONSTANT ItemCount    \* the targets of an installation

InstallAssumption == ItemCount \in Nat \ {0}

Items == 1..ItemCount
Things == {"none", "old", "new", "other"}

VARIABLES
    site,           \* what is at each target
    saved,          \* what is in the rollback directory
    residue,        \* what failed removals have left under names of their own
    phase,          \* of the workspace, in its phase file
    former,         \* what the installation has found at each target
    installStep, item,
    recorded,       \* how many items a rollback would undo
    rollbackFailed, complete,
    inTrap,         \* the EXIT trap runs
    orphans,        \* helpers that outlived their script
    cut,            \* a signal came while activate_staged rolled back
    theirs,         \* what somebody else did at each target, in this installation
    destroyed       \* and what was lost by that

runVars == <<former, recorded, complete, cut, destroyed>>
installVars == <<site, saved, residue, phase, theirs, installStep, item,
                 rollbackFailed, inTrap, orphans, runVars>>

\* Steps in which a helper changes something, or looks and then changes it.
HelperSteps == {"cleans", "prepares", "journals", "backs", "renames", "activates",
                "exchanges", "swaps", "puts", "unleafs", "leafs", "claims", "mistakes", "removes"}
Forward == {"cleans", "makes", "prepares", "stages", "journals", "inspects", "backs", "renames", "activates", "verifies"}
Removal == {"unleafs", "leafs", "claims", "mistakes"}
Rollback == {"undoes", "exchanges", "swaps", "puts"} \cup Removal
Helpers == [step : HelperSteps, item : 0..ItemCount]

InstallTypeOK ==
    /\ site \in [Items -> Things] /\ saved \in [Items -> Things]
    /\ former \in [Items -> Things] /\ destroyed \in [Items -> Things]
    /\ residue \in [Items -> SUBSET Things]
    /\ phase \in {"none", "made", "pre-activation", "recovery-required"}
    /\ installStep \in Forward \cup Rollback \cup {"removes", "over"}
    /\ item \in 0..ItemCount /\ recorded \in 0..ItemCount
    /\ {rollbackFailed, complete, inTrap, cut} \subseteq BOOLEAN
    /\ orphans \subseteq Helpers
    /\ theirs \in [Items -> {"no", "put", "took", "gone"}]

Everywhere(x) == [i \in Items |-> x]

InstallInit ==
    /\ site \in [Items -> {"none", "old"}] /\ saved = Everywhere("none") /\ residue = Everywhere({})
    /\ phase = "none" /\ former = Everywhere("none") /\ installStep = "over" /\ item = 0 /\ recorded = 0
    /\ rollbackFailed = FALSE /\ complete = FALSE /\ inTrap = FALSE /\ cut = FALSE
    /\ orphans = {} /\ theirs = Everywhere("no") /\ destroyed = Everywhere("none")

Goes(s) == installStep' = s
Still == UNCHANGED <<site, saved, residue, phase, theirs>>
SameFlags == UNCHANGED <<rollbackFailed, inTrap>>
SameRun == SameFlags /\ UNCHANGED <<item, orphans, runVars>>

(* --- what the helper does -------------------------------------------------- *)

\* The rename of a backup replaces; an activation and a restored backup do not.
BacksUp(i) ==
    /\ site[i] # "none" /\ site' = [site EXCEPT ![i] = "none"]
    /\ saved' = [saved EXCEPT ![i] = site[i]] /\ UNCHANGED <<residue, phase, theirs>>
Places(i) ==
    /\ site[i] = "none" /\ site' = [site EXCEPT ![i] = "new"]
    /\ UNCHANGED <<saved, residue, phase, theirs>>
PutsBack(i) ==
    /\ site[i] = "none" /\ saved[i] # "none"
    /\ site' = [site EXCEPT ![i] = saved[i]] /\ saved' = [saved EXCEPT ![i] = "none"]
    /\ UNCHANGED <<residue, phase, theirs>>
Exchanges(i) ==
    /\ "none" \notin {site[i], saved[i]}
    /\ site' = [site EXCEPT ![i] = saved[i]] /\ saved' = [saved EXCEPT ![i] = site[i]]
    /\ UNCHANGED <<residue, phase, theirs>>

\* A file is claimed by a rename and removed under the new name if it is the one
\* that was seen.  A directory is emptied first; one that was counts as removed.
Seen(step) == IF step = "mistakes" THEN "other" ELSE "new"
TakesAway(i, seen) ==
    /\ site[i] # "none" /\ UNCHANGED <<saved, phase>>
    /\ \/ /\ site' = [site EXCEPT ![i] = "none"]
          /\ \/ residue' = [residue EXCEPT ![i] = @ \cup {site[i]}] /\ UNCHANGED theirs
             \/ /\ site[i] = seen /\ UNCHANGED residue
                /\ theirs' = IF seen = "new" THEN theirs ELSE [theirs EXCEPT ![i] = "gone"]
       \/ UNCHANGED <<site, residue, theirs>>

SetsPhase(p) == phase' = p /\ UNCHANGED <<site, saved, residue, theirs>>

\* The workspace with all that is in it, or as much as there was time and leave for.
RemovesTree ==
    /\ \E kept \in SUBSET Items : saved' = [i \in Items |-> IF i \in kept THEN saved[i] ELSE "none"]
    /\ phase' \in {phase, "made"} /\ UNCHANGED <<site, residue, theirs>>
RemovesAll == saved' = Everywhere("none") /\ phase' = "none" /\ UNCHANGED <<site, residue, theirs>>

SameIdentity(i, thing) == site[i] = thing

(* --- how a script ends ------------------------------------------------------ *)

\* rollback_staged_items, from activate_staged or from the trap.
RollsBack(trap) ==
    /\ Goes("undoes") /\ item' = recorded /\ inTrap' = trap
    /\ UNCHANGED runVars
Fails == RollsBack(FALSE) /\ UNCHANGED <<rollbackFailed, orphans>>
Exits == RollsBack(TRUE) /\ UNCHANGED <<rollbackFailed, orphans>>

(* --- before the first item --------------------------------------------------- *)

\* The lock is free: no installation, and no helper of one, has it.
Begins ==
    /\ installStep = "over" /\ orphans = {} /\ Goes("cleans")
    /\ item' = 0 /\ rollbackFailed' = FALSE /\ inTrap' = FALSE
    /\ Still /\ UNCHANGED <<orphans, runVars>>

\* A workspace in which nothing was activated yet is removed; any other, and one
\* that cannot be removed, needs somebody who looks at it.
FindsNone ==
    /\ installStep = "cleans" /\ phase = "none" /\ Goes("makes") /\ Still /\ SameRun
Cleans ==
    /\ installStep = "cleans" /\ phase = "pre-activation" /\ SameRun
    /\ \/ RemovesAll /\ Goes("makes")
       \/ RemovesTree /\ Goes("over")
Refuses ==
    /\ installStep = "cleans" /\ phase \in {"made", "recovery-required"} /\ Goes("over") /\ Still /\ SameRun

\* The workspace is made.  What is installed counts as old from now on.
Makes ==
    /\ installStep = "makes" /\ phase' = "made" /\ Goes("prepares")
    /\ site' = [i \in Items |-> IF site[i] = "none" THEN "none" ELSE "old"]
    /\ residue' = Everywhere({}) /\ UNCHANGED saved
    /\ former' = Everywhere("none") /\ recorded' = 0 /\ complete' = FALSE /\ cut' = FALSE
    /\ theirs' = Everywhere("no") /\ destroyed' = Everywhere("none")
    /\ SameFlags /\ UNCHANGED <<item, orphans>>

\* Without an identity the trap does not remove it.
CannotMake ==
    /\ installStep = "makes" /\ phase' \in {"none", "made"} /\ Goes("over")
    /\ UNCHANGED <<site, saved, residue, theirs>> /\ SameRun

Prepares ==
    /\ installStep = "prepares" /\ SetsPhase("pre-activation") /\ Goes("stages") /\ SameRun

\* The items are copied into the workspace and their contents written down.
Stages ==
    /\ installStep = "stages" /\ Still
    /\ \/ Goes("journals") /\ SameRun
       \/ Exits

FirstItem == Goes("inspects") /\ item' = 1 /\ SameFlags /\ UNCHANGED <<orphans, runVars>>

Journals ==
    /\ installStep = "journals" /\ SetsPhase("recovery-required") /\ FirstItem

\* The helper failed before or after the phase was written.
CannotJournal ==
    /\ installStep \in {"prepares", "journals"} /\ RollsBack(TRUE)
    /\ rollbackFailed' = TRUE /\ UNCHANGED orphans
    /\ \/ Still
       \/ SetsPhase(IF installStep = "prepares" THEN "pre-activation" ELSE "recovery-required")

(* --- the items ---------------------------------------------------------------- *)

\* activate_staged, up to the arrays the rollback goes by.
Inspects ==
    /\ installStep = "inspects" /\ Still
    /\ former' = [former EXCEPT ![item] = site[item]] /\ recorded' = item
    /\ Goes(IF site[item] = "none" THEN "activates" ELSE "backs")
    /\ SameFlags /\ UNCHANGED <<item, orphans, complete, cut, destroyed>>

LooksBeforeBackup ==
    /\ installStep = "backs" /\ SameIdentity(item, former[item]) /\ Goes("renames") /\ Still /\ SameRun

\* What was moved is looked at again.
Renames ==
    /\ installStep = "renames" /\ BacksUp(item)
    /\ \/ SameIdentity(item, former[item]) /\ Goes("activates") /\ SameRun
       \/ Fails

Activates ==
    /\ installStep = "activates" /\ Places(item)
    /\ \/ /\ IF item < ItemCount THEN Goes("inspects") /\ item' = item + 1 ELSE Goes("verifies") /\ item' = 1
          /\ SameFlags /\ UNCHANGED <<orphans, runVars>>
       \/ Fails

\* An unsafe target, one that is not what it was or not free, a failing call.
ItemFails ==
    /\ installStep \in {"inspects", "backs", "renames", "activates"} /\ Still /\ Fails

\* Every item is compared with what was written down.
Verifies ==
    /\ installStep = "verifies" /\ SameIdentity(item, "new") /\ Still
    /\ IF item < ItemCount
       THEN Goes("verifies") /\ item' = item + 1 /\ SameFlags /\ UNCHANGED <<orphans, runVars>>
       ELSE /\ Goes("removes") /\ complete' = TRUE /\ inTrap' = TRUE
            /\ UNCHANGED <<item, rollbackFailed, orphans, former, recorded, cut, destroyed>>

VerificationFails == installStep = "verifies" /\ Still /\ Exits

(* --- the rollback --------------------------------------------------------------- *)

Undone == Goes("undoes") /\ item' = item - 1 /\ SameFlags /\ UNCHANGED <<orphans, runVars>>
CannotUndo_Unnoticed == Undone
CannotUndo ==
    /\ Goes("undoes") /\ item' = item - 1 /\ rollbackFailed' = TRUE
    /\ UNCHANGED <<inTrap, orphans, runVars>>

\* The last one is undone first.
Undoes ==
    /\ installStep = "undoes" /\ item > 0 /\ Still
    /\ CASE former[item] # "none" /\ saved[item] = "none" -> CannotUndo
         [] former[item] # "none" /\ saved[item] # "none" ->
              Goes(IF site[item] = "none" THEN "puts" ELSE "exchanges") /\ SameRun
         [] former[item] = "none" /\ site[item] # "none" -> Goes("unleafs") /\ SameRun
         [] OTHER -> Undone

LooksBeforeExchange ==
    /\ installStep = "exchanges" /\ saved[item] = former[item] /\ SameIdentity(item, "new")
    /\ Goes("swaps") /\ Still /\ SameRun

Swaps ==
    /\ installStep = "swaps" /\ Exchanges(item)
    /\ \/ SameIdentity(item, "new") /\ Undone
       \/ CannotUndo

Restores ==
    /\ installStep = "puts" /\ saved[item] = former[item] /\ PutsBack(item)
    /\ \/ Undone
       \/ CannotUndo

LooksBeforeRemoval ==
    /\ installStep = "unleafs" /\ SameIdentity(item, "new") /\ Goes("leafs") /\ Still /\ SameRun

\* What it takes away is what it finds at a second look, if there is anything.
LooksAgain ==
    /\ installStep = "leafs" /\ Still
    /\ \/ site[item] = "none" /\ Undone
       \/ SameIdentity(item, "new") /\ Goes("claims") /\ SameRun
       \/ site[item] \notin {"none", "new"} /\ Goes("mistakes") /\ SameRun

Claims ==
    /\ installStep \in {"claims", "mistakes"} /\ TakesAway(item, Seen(installStep))
    /\ \/ SameIdentity(item, Seen(installStep)) /\ site'[item] = "none" /\ UNCHANGED residue /\ Undone
       \/ CannotUndo

UndoFails ==
    /\ installStep \in Rollback \ {"undoes"} /\ Still /\ CannotUndo

\* install_workspace_cleanup: what could not be undone is preserved.
Cleanup == Goes(IF rollbackFailed THEN "over" ELSE "removes")

RolledBack ==
    /\ installStep = "undoes" /\ item = 0 /\ Cleanup /\ inTrap' = TRUE /\ Still
    /\ UNCHANGED <<item, rollbackFailed, orphans, runVars>>

Removes ==
    /\ installStep = "removes" /\ Goes("over") /\ SameRun
    /\ (RemovesAll \/ RemovesTree)

(* --- signals ---------------------------------------------------------------------- *)

\* The helper goes on, or has ended with its script.
Orphans ==
    orphans' \in {orphans} \cup
        (IF installStep \in HelperSteps THEN {orphans \cup {[step |-> installStep, item |-> item]}} ELSE {})

\* SIGKILL, or a signal while the trap runs or has nothing to do.
Killed ==
    /\ installStep # "over" /\ Goes("over") /\ Orphans
    /\ Still /\ SameFlags /\ UNCHANGED <<item, runVars>>

Signalled ==
    /\ installStep \in Forward \ {"cleans", "makes"} /\ RollsBack(TRUE) /\ Orphans
    /\ Still /\ UNCHANGED rollbackFailed

\* The trap takes a rollback that has begun for one that was made.
CutShort ==
    /\ installStep \in Rollback /\ ~inTrap
    /\ Cleanup /\ inTrap' = TRUE /\ cut' = TRUE /\ Orphans
    /\ Still /\ UNCHANGED <<item, rollbackFailed, former, recorded, complete, destroyed>>

WithoutIt(o) ==
    UNCHANGED <<installStep, item, rollbackFailed, inTrap, runVars>> /\ orphans' = orphans \ {o}

OrphanActs(o) ==
    /\ o \in orphans /\ WithoutIt(o) /\ phase # "none"
    /\ CASE o.step = "cleans" -> phase = "pre-activation" /\ (RemovesAll \/ RemovesTree)
         [] o.step = "prepares" -> SetsPhase("pre-activation")
         [] o.step = "journals" -> SetsPhase("recovery-required")
         [] o.step = "renames" -> BacksUp(o.item)
         [] o.step = "activates" -> Places(o.item)
         [] o.step = "swaps" -> Exchanges(o.item)
         [] o.step = "puts" -> saved[o.item] = former[o.item] /\ PutsBack(o.item)
         [] o.step \in {"claims", "mistakes"} -> TakesAway(o.item, Seen(o.step))
         [] o.step = "removes" -> RemovesAll \/ RemovesTree
         [] OTHER -> FALSE

\* The look before a change that takes two steps or three.
OrphanLooks(o) ==
    /\ o \in orphans /\ Still
    /\ UNCHANGED <<installStep, item, rollbackFailed, inTrap, runVars>>
    /\ \E next \in HelperSteps :
         /\ \/ o.step = "backs" /\ SameIdentity(o.item, former[o.item]) /\ next = "renames"
            \/ o.step = "exchanges" /\ saved[o.item] = former[o.item] /\ SameIdentity(o.item, "new") /\ next = "swaps"
            \/ o.step = "unleafs" /\ SameIdentity(o.item, "new") /\ next = "leafs"
            \/ o.step = "leafs" /\ SameIdentity(o.item, "new") /\ next = "claims"
            \/ o.step = "leafs" /\ site[o.item] \notin {"none", "new"} /\ next = "mistakes"
         /\ orphans' = (orphans \ {o}) \cup {[step |-> next, item |-> o.item]}

OrphanEnds(o) == o \in orphans /\ WithoutIt(o) /\ Still

(* --- somebody else ------------------------------------------------------------------ *)

\* Something else is put at the target, or what is there is removed.
Interferes(i) ==
    /\ theirs[i] = "no" /\ destroyed' = [destroyed EXCEPT ![i] = site[i]]
    /\ \/ site' = [site EXCEPT ![i] = "other"] /\ theirs' = [theirs EXCEPT ![i] = "put"]
       \/ site[i] # "none" /\ site' = [site EXCEPT ![i] = "none"] /\ theirs' = [theirs EXCEPT ![i] = "took"]
    /\ UNCHANGED <<saved, residue, phase, former, installStep, item, recorded, complete, cut>> /\ SameFlags
    /\ UNCHANGED orphans

InstallNext ==
    \/ Begins \/ FindsNone \/ Cleans \/ Refuses \/ Makes \/ CannotMake \/ Prepares \/ Stages \/ Journals \/ CannotJournal
    \/ Inspects \/ LooksBeforeBackup \/ Renames \/ Activates \/ ItemFails \/ Verifies \/ VerificationFails
    \/ Undoes \/ LooksBeforeExchange \/ Swaps \/ Restores \/ LooksBeforeRemoval \/ LooksAgain \/ Claims \/ UndoFails \/ RolledBack
    \/ Removes \/ Killed \/ Signalled \/ CutShort
    \/ \E o \in orphans : OrphanActs(o) \/ OrphanLooks(o) \/ OrphanEnds(o)
    \/ \E i \in Items : Interferes(i)

InstallSpec == InstallInit /\ [][InstallNext]_installVars

-----------------------------------------------------------------------------
Kept(i, thing) == thing \in {site[i], saved[i]} \cup residue[i]

\* Until the new items are all in place, what was installed is at its target or
\* in the rollback directory, unless somebody else destroyed it; so is what
\* somebody else has put there, or it lies beside the target, unless it came
\* between the two looks of a removal.  This and the next are said of
\* installations whose rollback was not cut short.
InstalledIsKept ==
    ~cut => \A i \in Items :
        /\ ~complete => former[i] \in {"none", destroyed[i]} \/ Kept(i, former[i])
        /\ theirs[i] = "put" => Kept(i, "other") \/ (complete /\ former[i] = "other")

\* An installation that fails and does not say that its rollback failed leaves
\* at every target what it has found there.
FailureLeavesNoTrace ==
    installStep = "removes" /\ ~complete /\ ~rollbackFailed /\ ~cut =>
        \A i \in Items : former[i] # "none" /\ theirs[i] = "no" => site[i] = former[i]

InstallLosesNothing == InstalledIsKept /\ FailureLeavesNoTrace
=============================================================================
