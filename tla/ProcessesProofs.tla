-------------------------- MODULE ProcessesProofs --------------------------
(***************************************************************************)
(* Proofs about six modules of the run Processes, and from them two of the *)
(* properties of the run for every value of the constants.                 *)
(*                                                                         *)
(* CleanupClaims, for any set of files and any journal size: a removal     *)
(* that a later run finishes removes only what was meant, since its claim  *)
(* was on the disk before anything was overwritten.                        *)
(*                                                                         *)
(* DirectSupervisor, for any set of processes the model starts: a frame    *)
(* that says the tree is empty is true, and no signal is lost.             *)
(*                                                                         *)
(* ReadyAckGate, ScopedCommand, RemoteOperation and BoundedProcess, for    *)
(* any number of signals, redirects and interrupts: what was not released  *)
(* does not run, what runs was checked and runs once, and no process is    *)
(* left behind of which the supervisor says nothing.                       *)
(***************************************************************************)
EXTENDS MCProcesses, TLAPS

(* What the entries say goes with the form of the state; while a run is    *)
(* under way, with what it works on.                                       *)
Entries ==
    /\ form = "none" => step = "idle"
    /\ form = "finished" => step = "idle"
    /\ \A a \in Artifacts :
         CASE form = "migrate" -> journal[a] = "migrate"
           [] form = "claims"  -> journal[a] # "migrate"
           [] OTHER            -> journal[a] = "none"
    /\ step # "idle" => \A a \in todo : journal[a] # "none"

(* Before the first run, and in a migration, the contents are untouched.   *)
Untouched ==
    \A a \in Artifacts :
      /\ form = "none" =>
           /\ nameOnDisk[a] = {name[a]} /\ name[a] \in {"owner", "none"}
           /\ bodyOnDisk[a] = {"original"}
      /\ form = "migrate" =>
           /\ bodyOnDisk[a] = {body[a]} /\ body[a] \in {"original", "zero"}
           /\ "claim" \in nameOnDisk[a] => body[a] = "original"

(* What a run has made durable of the artifacts it has come to.            *)
Taken ==
    step # "idle" => \A a \in Artifacts \ todo :
       /\ form = "migrate" => nameOnDisk[a] = {name[a]} /\ name[a] \in {"claim", "none"}
       /\ form = "claims" => "claim" \notin nameOnDisk[a]

(* The contents that may be authorised.                                    *)
Prepared == {"prepared", "intermediate", "authorized"}

PreparedOnDisk ==
    \A a \in Artifacts : journal[a] \in {"prepared", "wiping"} => bodyOnDisk[a] \subseteq Prepared

(* Where a run is, its artifact's entry is in the phase for it.            *)
Position ==
    /\ step \notin {"idle", "next"} => at \in todo
    /\ form = "migrate" =>
         step \in {"idle", "next", "renames", "syncs", "retires", "unlinked"}
    /\ step = "renames" => journal[at] = "intent" \/ (journal[at] = "migrate" /\ body[at] = "original")
    /\ step = "syncs" => name[at] = "claim"
    /\ step \in {"commits", "trimmed", "writes", "committed"} => journal[at] = "claimed"
    /\ step = "committed" => body[at] = "prepared"
    /\ step \in {"authorizes", "marked", "suffixed", "arms"} => journal[at] \in {"prepared", "wiping"}
    /\ step = "suffixed" => body[at] = "authorized"
    /\ step \in {"rechecks", "wipes", "wiped"} => journal[at] = "armed"
    /\ step \in {"arms", "rechecks"} => bodyOnDisk[at] = {"authorized"}
    /\ step = "rechecks" => "none" \notin nameOnDisk[at]
    /\ step = "retires" => journal[at] \in {"migrate", "armed"}
    /\ step = "unlinked" => name[at] = "none"

ClaimsInv ==
    /\ ClaimsTypeOK /\ Entries /\ Untouched /\ Taken /\ PreparedOnDisk /\ Position
    /\ KeptUntilArmed /\ ClaimIsJournaled

TakesOne == \E a \in Artifacts : Takes(a)

(* Two actions case by case: the invariant leaves them no other.           *)
LEMMA MarksTrailer ==
    ASSUME ClaimsInv, Marks
    PROVE  /\ at \in Artifacts /\ UNCHANGED <<form, journal>>
           /\ \/ ClaimGoes("authorizes", "marked") /\ Holds("intermediate")
              \/ ClaimGoes("authorizes", "suffixed") /\ Holds("authorized")
              \/ /\ body[at] = "authorized"
                 /\ ClaimGoes("authorizes", "suffixed") /\ UNCHANGED fileVars
<1>1. at \in Artifacts /\ step = "authorizes"
  BY DEF ClaimsInv, ClaimsTypeOK, Position, Marks, ClaimGoes
<1>2. body[at] \in Prepared
  BY <1>1 DEF ClaimsInv, ClaimsTypeOK, Position, PreparedOnDisk
<1>3. CASE body[at] = "prepared"
  BY <1>1, <1>3 DEF Marks
<1>4. CASE body[at] = "intermediate"
  BY <1>1, <1>4 DEF Marks
<1>5. CASE body[at] = "authorized"
  BY <1>1, <1>5 DEF Marks
<1> QED
  BY <1>2, <1>3, <1>4, <1>5 DEF Prepared

LEMMA SyncsByPhase ==
    ASSUME ClaimsInv, SyncsClaim
    PROVE  /\ step = "syncs" /\ at \in todo /\ SyncsName /\ UNCHANGED form
           /\ \/ form = "migrate" /\ Finishes("syncs") /\ UNCHANGED journal
              \/ /\ form = "claims" /\ UNCHANGED <<at, todo, faults>>
                 /\ \/ /\ journal[at] = "intent" /\ Enters("claimed") /\ step' = "commits"
                    \/ /\ journal[at] = "claimed" /\ UNCHANGED journal /\ step' = "commits"
                    \/ /\ journal[at] \in {"prepared", "wiping"} /\ UNCHANGED journal
                       /\ step' = "authorizes"
                    \/ journal[at] = "armed" /\ UNCHANGED journal /\ step' = "wipes"
<1>1. step = "syncs" /\ at \in todo /\ at \in Artifacts /\ SyncsName
  BY DEF ClaimsInv, ClaimsTypeOK, Position, SyncsClaim
<1>2. CASE form = "migrate"
  BY <1>1, <1>2 DEF SyncsClaim
<1>3. CASE form # "migrate"
  <2>1. form = "claims" /\ journal[at] \in {"intent", "claimed", "prepared", "wiping", "armed"}
    BY <1>1, <1>3 DEF ClaimsInv, ClaimsTypeOK, Entries, Phases
  <2>2. CASE journal[at] = "intent"
    BY <1>1, <1>3, <2>1, <2>2 DEF SyncsClaim, ClaimGoes
  <2>3. CASE journal[at] = "claimed"
    BY <1>1, <1>3, <2>1, <2>3 DEF SyncsClaim, ClaimGoes
  <2>4. CASE journal[at] \in {"prepared", "wiping"}
    BY <1>1, <1>3, <2>1, <2>4 DEF SyncsClaim, ClaimGoes
  <2>5. CASE journal[at] = "armed"
    BY <1>1, <1>3, <2>1, <2>5 DEF SyncsClaim, ClaimGoes
  <2> QED
    BY <2>1, <2>2, <2>3, <2>4, <2>5
<1> QED
  BY <1>2, <1>3

LEMMA ClaimsTypeKept ==
    ASSUME ClaimsInv, ClaimsNext PROVE ClaimsTypeOK'
<1>1. CASE Begins
  BY <1>1 DEF Begins, fileVars, ClaimsInv, ClaimsTypeOK, Phases, Names, Bodies,
     Position
<1>2. CASE TakesOne
  BY <1>2 DEF TakesOne, Takes, Migration, Resumption, fileVars, ClaimsInv,
     ClaimsTypeOK, Phases, Names, Bodies, Position
<1>3. CASE Renames
  BY <1>3 DEF Renames, ClaimGoes, Calls, ClaimsInv, ClaimsTypeOK, Phases, Names,
     Bodies, Position
<1>4. CASE SyncsClaim
  BY <1>4, SyncsByPhase DEF Finishes, SyncsName, Enters, ClaimsInv, ClaimsTypeOK,
     Phases, Names, Bodies, Position
<1>5. CASE Trims
  BY <1>5 DEF Trims, ClaimGoes, Holds, fileVars, ClaimsInv, ClaimsTypeOK, Phases,
     Names, Bodies, Position
<1>6. CASE SyncsTrimmed
  BY <1>6 DEF SyncsTrimmed, ClaimGoes, SyncsBody, ClaimsInv, ClaimsTypeOK, Phases,
     Names, Bodies, Position
<1>7. CASE WritesTrailer
  BY <1>7 DEF WritesTrailer, ClaimGoes, Holds, ClaimsInv, ClaimsTypeOK, Phases,
     Names, Bodies, Position
<1>8. CASE Commits
  BY <1>8 DEF Commits, ClaimGoes, Enters, SyncsBody, ClaimsInv, ClaimsTypeOK,
     Phases, Names, Bodies, Position
<1>9. CASE Marks
  BY <1>9, MarksTrailer DEF ClaimGoes, Holds, fileVars, ClaimsInv, ClaimsTypeOK,
     Phases, Names, Bodies, Position
<1>10. CASE SyncsMark
  BY <1>10 DEF SyncsMark, ClaimGoes, SyncsBody, ClaimsInv, ClaimsTypeOK, Phases,
     Names, Bodies, Position
<1>11. CASE SyncsSuffix
  BY <1>11 DEF SyncsSuffix, ClaimGoes, SyncsBody, ClaimsInv, ClaimsTypeOK, Phases,
     Names, Bodies, Position
<1>12. CASE Arms
  BY <1>12 DEF Arms, ClaimGoes, Enters, fileVars, ClaimsInv, ClaimsTypeOK, Phases,
     Names, Bodies, Position
<1>13. CASE Rechecks
  BY <1>13 DEF Rechecks, ClaimGoes, fileVars, ClaimsInv, ClaimsTypeOK, Phases,
     Names, Bodies, Position
<1>14. CASE Wipes
  BY <1>14 DEF Wipes, ClaimGoes, Holds, ClaimsInv, ClaimsTypeOK, Phases, Names,
     Bodies, Position
<1>15. CASE SyncsWiped
  BY <1>15 DEF SyncsWiped, ClaimGoes, SyncsBody, ClaimsInv, ClaimsTypeOK, Phases,
     Names, Bodies, Position
<1>16. CASE RetiresClaim
  BY <1>16 DEF RetiresClaim, ClaimGoes, Calls, ClaimsInv, ClaimsTypeOK, Phases,
     Names, Bodies, Position
<1>17. CASE SyncsUnlinked
  BY <1>17 DEF SyncsUnlinked, SyncsName, Finishes, ClaimsInv, ClaimsTypeOK,
     Phases, Names, Bodies, Position
<1>18. CASE Clears
  BY <1>18 DEF Clears, Migrated, Cleared, fileVars, ClaimsInv, ClaimsTypeOK,
     Phases, Names, Bodies, Position
<1>19. CASE Fails
  BY <1>19, ClaimsAssumption DEF Fails, Stopped, fileVars, ClaimsInv,
     ClaimsTypeOK, Phases, Names, Bodies, Position, ClaimsAssumption
<1>20. CASE LosesPower
  BY <1>20, ClaimsAssumption DEF LosesPower, Stopped, ClaimsInv, ClaimsTypeOK,
     Phases, Names, Bodies, Position, ClaimsAssumption
<1> QED
  BY <1>1, <1>2, <1>3, <1>4, <1>5, <1>6, <1>7, <1>8, <1>9, <1>10, <1>11, <1>12,
     <1>13, <1>14, <1>15, <1>16, <1>17, <1>18, <1>19, <1>20 DEF ClaimsNext, Run,
     TakesOne

LEMMA EntriesKept ==
    ASSUME ClaimsInv, ClaimsNext PROVE Entries'
<1>1. CASE Begins
  BY <1>1 DEF Begins, fileVars, ClaimsInv, ClaimsTypeOK, Entries, Position
<1>2. CASE TakesOne
  BY <1>2 DEF TakesOne, Takes, Migration, Resumption, fileVars, ClaimsInv,
     ClaimsTypeOK, Entries, Position
<1>3. CASE Renames
  BY <1>3 DEF Renames, ClaimGoes, Calls, ClaimsInv, ClaimsTypeOK, Entries,
     Position
<1>4. CASE SyncsClaim
  BY <1>4, SyncsByPhase DEF Finishes, SyncsName, Enters, ClaimsInv, ClaimsTypeOK,
     Entries, Position
<1>5. CASE Trims
  BY <1>5 DEF Trims, ClaimGoes, Holds, fileVars, ClaimsInv, ClaimsTypeOK, Entries,
     Position
<1>6. CASE SyncsTrimmed
  BY <1>6 DEF SyncsTrimmed, ClaimGoes, SyncsBody, ClaimsInv, ClaimsTypeOK,
     Entries, Position
<1>7. CASE WritesTrailer
  BY <1>7 DEF WritesTrailer, ClaimGoes, Holds, ClaimsInv, ClaimsTypeOK, Entries,
     Position
<1>8. CASE Commits
  BY <1>8 DEF Commits, ClaimGoes, Enters, SyncsBody, ClaimsInv, ClaimsTypeOK,
     Entries, Position
<1>9. CASE Marks
  BY <1>9, MarksTrailer DEF ClaimGoes, Holds, fileVars, ClaimsInv, ClaimsTypeOK,
     Entries, Position
<1>10. CASE SyncsMark
  BY <1>10 DEF SyncsMark, ClaimGoes, SyncsBody, ClaimsInv, ClaimsTypeOK, Entries,
     Position
<1>11. CASE SyncsSuffix
  BY <1>11 DEF SyncsSuffix, ClaimGoes, SyncsBody, ClaimsInv, ClaimsTypeOK,
     Entries, Position
<1>12. CASE Arms
  BY <1>12 DEF Arms, ClaimGoes, Enters, fileVars, ClaimsInv, ClaimsTypeOK,
     Entries, Position
<1>13. CASE Rechecks
  BY <1>13 DEF Rechecks, ClaimGoes, fileVars, ClaimsInv, ClaimsTypeOK, Entries,
     Position
<1>14. CASE Wipes
  BY <1>14 DEF Wipes, ClaimGoes, Holds, ClaimsInv, ClaimsTypeOK, Entries, Position
<1>15. CASE SyncsWiped
  BY <1>15 DEF SyncsWiped, ClaimGoes, SyncsBody, ClaimsInv, ClaimsTypeOK, Entries,
     Position
<1>16. CASE RetiresClaim
  BY <1>16 DEF RetiresClaim, ClaimGoes, Calls, ClaimsInv, ClaimsTypeOK, Entries,
     Position
<1>17. CASE SyncsUnlinked
  BY <1>17 DEF SyncsUnlinked, SyncsName, Finishes, ClaimsInv, ClaimsTypeOK,
     Entries, Position
<1>18. CASE Clears
  BY <1>18 DEF Clears, Migrated, Cleared, fileVars, ClaimsInv, ClaimsTypeOK,
     Entries, Position
<1>19. CASE Fails
  BY <1>19 DEF Fails, Stopped, fileVars, ClaimsInv, ClaimsTypeOK, Entries,
     Position
<1>20. CASE LosesPower
  BY <1>20 DEF LosesPower, Stopped, ClaimsInv, ClaimsTypeOK, Entries, Position
<1> QED
  BY <1>1, <1>2, <1>3, <1>4, <1>5, <1>6, <1>7, <1>8, <1>9, <1>10, <1>11, <1>12,
     <1>13, <1>14, <1>15, <1>16, <1>17, <1>18, <1>19, <1>20 DEF ClaimsNext, Run,
     TakesOne

LEMMA UntouchedKept ==
    ASSUME ClaimsInv, ClaimsNext PROVE Untouched'
<1>1. CASE Begins
  BY <1>1 DEF Begins, fileVars, ClaimsInv, ClaimsTypeOK, Entries, Untouched,
     Position
<1>2. CASE TakesOne
  BY <1>2 DEF TakesOne, Takes, Migration, Resumption, fileVars, ClaimsInv,
     ClaimsTypeOK, Entries, Untouched, Position
<1>3. CASE Renames
  BY <1>3 DEF Renames, ClaimGoes, Calls, ClaimsInv, ClaimsTypeOK, Entries,
     Untouched, Position
<1>4. CASE SyncsClaim
  BY <1>4, SyncsByPhase DEF Finishes, SyncsName, Enters, ClaimsInv, ClaimsTypeOK,
     Entries, Untouched, Position
<1>5. CASE Trims
  BY <1>5 DEF Trims, ClaimGoes, Holds, fileVars, ClaimsInv, ClaimsTypeOK, Entries,
     Untouched, Position
<1>6. CASE SyncsTrimmed
  BY <1>6 DEF SyncsTrimmed, ClaimGoes, SyncsBody, ClaimsInv, ClaimsTypeOK,
     Entries, Untouched, Position
<1>7. CASE WritesTrailer
  BY <1>7 DEF WritesTrailer, ClaimGoes, Holds, ClaimsInv, ClaimsTypeOK, Entries,
     Untouched, Position
<1>8. CASE Commits
  BY <1>8 DEF Commits, ClaimGoes, Enters, SyncsBody, ClaimsInv, ClaimsTypeOK,
     Entries, Untouched, Position
<1>9. CASE Marks
  BY <1>9, MarksTrailer DEF ClaimGoes, Holds, fileVars, ClaimsInv, ClaimsTypeOK,
     Entries, Untouched, Position
<1>10. CASE SyncsMark
  BY <1>10 DEF SyncsMark, ClaimGoes, SyncsBody, ClaimsInv, ClaimsTypeOK, Entries,
     Untouched, Position
<1>11. CASE SyncsSuffix
  BY <1>11 DEF SyncsSuffix, ClaimGoes, SyncsBody, ClaimsInv, ClaimsTypeOK,
     Entries, Untouched, Position
<1>12. CASE Arms
  BY <1>12 DEF Arms, ClaimGoes, Enters, fileVars, ClaimsInv, ClaimsTypeOK,
     Entries, Untouched, Position
<1>13. CASE Rechecks
  BY <1>13 DEF Rechecks, ClaimGoes, fileVars, ClaimsInv, ClaimsTypeOK, Entries,
     Untouched, Position
<1>14. CASE Wipes
  BY <1>14 DEF Wipes, ClaimGoes, Holds, ClaimsInv, ClaimsTypeOK, Entries,
     Untouched, Position
<1>15. CASE SyncsWiped
  BY <1>15 DEF SyncsWiped, ClaimGoes, SyncsBody, ClaimsInv, ClaimsTypeOK, Entries,
     Untouched, Position
<1>16. CASE RetiresClaim
  BY <1>16 DEF RetiresClaim, ClaimGoes, Calls, ClaimsInv, ClaimsTypeOK, Entries,
     Untouched, Position
<1>17. CASE SyncsUnlinked
  BY <1>17 DEF SyncsUnlinked, SyncsName, Finishes, ClaimsInv, ClaimsTypeOK,
     Entries, Untouched, Position
<1>18. CASE Clears
  BY <1>18 DEF Clears, Migrated, Cleared, fileVars, ClaimsInv, ClaimsTypeOK,
     Entries, Untouched, Position
<1>19. CASE Fails
  BY <1>19 DEF Fails, Stopped, fileVars, ClaimsInv, ClaimsTypeOK, Entries,
     Untouched, Position
<1>20. CASE LosesPower
  BY <1>20 DEF LosesPower, Stopped, ClaimsInv, ClaimsTypeOK, Entries, Untouched,
     Position
<1> QED
  BY <1>1, <1>2, <1>3, <1>4, <1>5, <1>6, <1>7, <1>8, <1>9, <1>10, <1>11, <1>12,
     <1>13, <1>14, <1>15, <1>16, <1>17, <1>18, <1>19, <1>20 DEF ClaimsNext, Run,
     TakesOne

LEMMA TakenKept ==
    ASSUME ClaimsInv, ClaimsNext PROVE Taken'
<1>1. CASE Begins
  BY <1>1 DEF Begins, fileVars, ClaimsInv, ClaimsTypeOK, Entries, Untouched,
     Taken, Position, ClaimIsJournaled
<1>2. CASE TakesOne
  BY <1>2 DEF TakesOne, Takes, Migration, Resumption, fileVars, ClaimsInv,
     ClaimsTypeOK, Entries, Untouched, Taken, Position, ClaimIsJournaled
<1>3. CASE Renames
  BY <1>3 DEF Renames, ClaimGoes, Calls, ClaimsInv, ClaimsTypeOK, Entries,
     Untouched, Taken, Position, ClaimIsJournaled
<1>4. CASE SyncsClaim
  BY <1>4, SyncsByPhase DEF Finishes, SyncsName, Enters, ClaimsInv, ClaimsTypeOK,
     Entries, Untouched, Taken, Position, ClaimIsJournaled
<1>5. CASE Trims
  BY <1>5 DEF Trims, ClaimGoes, Holds, fileVars, ClaimsInv, ClaimsTypeOK, Entries,
     Untouched, Taken, Position, ClaimIsJournaled
<1>6. CASE SyncsTrimmed
  BY <1>6 DEF SyncsTrimmed, ClaimGoes, SyncsBody, ClaimsInv, ClaimsTypeOK,
     Entries, Untouched, Taken, Position, ClaimIsJournaled
<1>7. CASE WritesTrailer
  BY <1>7 DEF WritesTrailer, ClaimGoes, Holds, ClaimsInv, ClaimsTypeOK, Entries,
     Untouched, Taken, Position, ClaimIsJournaled
<1>8. CASE Commits
  BY <1>8 DEF Commits, ClaimGoes, Enters, SyncsBody, ClaimsInv, ClaimsTypeOK,
     Entries, Untouched, Taken, Position, ClaimIsJournaled
<1>9. CASE Marks
  BY <1>9, MarksTrailer DEF ClaimGoes, Holds, fileVars, ClaimsInv, ClaimsTypeOK,
     Entries, Untouched, Taken, Position, ClaimIsJournaled
<1>10. CASE SyncsMark
  BY <1>10 DEF SyncsMark, ClaimGoes, SyncsBody, ClaimsInv, ClaimsTypeOK, Entries,
     Untouched, Taken, Position, ClaimIsJournaled
<1>11. CASE SyncsSuffix
  BY <1>11 DEF SyncsSuffix, ClaimGoes, SyncsBody, ClaimsInv, ClaimsTypeOK,
     Entries, Untouched, Taken, Position, ClaimIsJournaled
<1>12. CASE Arms
  BY <1>12 DEF Arms, ClaimGoes, Enters, fileVars, ClaimsInv, ClaimsTypeOK,
     Entries, Untouched, Taken, Position, ClaimIsJournaled
<1>13. CASE Rechecks
  BY <1>13 DEF Rechecks, ClaimGoes, fileVars, ClaimsInv, ClaimsTypeOK, Entries,
     Untouched, Taken, Position, ClaimIsJournaled
<1>14. CASE Wipes
  BY <1>14 DEF Wipes, ClaimGoes, Holds, ClaimsInv, ClaimsTypeOK, Entries,
     Untouched, Taken, Position, ClaimIsJournaled
<1>15. CASE SyncsWiped
  BY <1>15 DEF SyncsWiped, ClaimGoes, SyncsBody, ClaimsInv, ClaimsTypeOK, Entries,
     Untouched, Taken, Position, ClaimIsJournaled
<1>16. CASE RetiresClaim
  BY <1>16 DEF RetiresClaim, ClaimGoes, Calls, ClaimsInv, ClaimsTypeOK, Entries,
     Untouched, Taken, Position, ClaimIsJournaled
<1>17. CASE SyncsUnlinked
  BY <1>17 DEF SyncsUnlinked, SyncsName, Finishes, ClaimsInv, ClaimsTypeOK,
     Entries, Untouched, Taken, Position, ClaimIsJournaled
<1>18. CASE Clears
  BY <1>18 DEF Clears, Migrated, Cleared, fileVars, ClaimsInv, ClaimsTypeOK,
     Entries, Untouched, Taken, Position, ClaimIsJournaled
<1>19. CASE Fails
  BY <1>19 DEF Fails, Stopped, fileVars, ClaimsInv, ClaimsTypeOK, Entries,
     Untouched, Taken, Position, ClaimIsJournaled
<1>20. CASE LosesPower
  BY <1>20 DEF LosesPower, Stopped, ClaimsInv, ClaimsTypeOK, Entries, Untouched,
     Taken, Position, ClaimIsJournaled
<1> QED
  BY <1>1, <1>2, <1>3, <1>4, <1>5, <1>6, <1>7, <1>8, <1>9, <1>10, <1>11, <1>12,
     <1>13, <1>14, <1>15, <1>16, <1>17, <1>18, <1>19, <1>20 DEF ClaimsNext, Run,
     TakesOne

LEMMA PreparedKept ==
    ASSUME ClaimsInv, ClaimsNext PROVE PreparedOnDisk'
<1>1. CASE Begins
  BY <1>1 DEF Begins, fileVars, ClaimsInv, ClaimsTypeOK, Entries, PreparedOnDisk,
     Prepared, Position
<1>2. CASE TakesOne
  BY <1>2 DEF TakesOne, Takes, Migration, Resumption, fileVars, ClaimsInv,
     ClaimsTypeOK, Entries, PreparedOnDisk, Prepared, Position
<1>3. CASE Renames
  BY <1>3 DEF Renames, ClaimGoes, Calls, ClaimsInv, ClaimsTypeOK, Entries,
     PreparedOnDisk, Prepared, Position
<1>4. CASE SyncsClaim
  BY <1>4, SyncsByPhase DEF Finishes, SyncsName, Enters, ClaimsInv, ClaimsTypeOK,
     Entries, PreparedOnDisk, Prepared, Position
<1>5. CASE Trims
  BY <1>5 DEF Trims, ClaimGoes, Holds, fileVars, ClaimsInv, ClaimsTypeOK, Entries,
     PreparedOnDisk, Prepared, Position
<1>6. CASE SyncsTrimmed
  BY <1>6 DEF SyncsTrimmed, ClaimGoes, SyncsBody, ClaimsInv, ClaimsTypeOK,
     Entries, PreparedOnDisk, Prepared, Position
<1>7. CASE WritesTrailer
  BY <1>7 DEF WritesTrailer, ClaimGoes, Holds, ClaimsInv, ClaimsTypeOK, Entries,
     PreparedOnDisk, Prepared, Position
<1>8. CASE Commits
  BY <1>8 DEF Commits, ClaimGoes, Enters, SyncsBody, ClaimsInv, ClaimsTypeOK,
     Entries, PreparedOnDisk, Prepared, Position
<1>9. CASE Marks
  BY <1>9, MarksTrailer DEF ClaimGoes, Holds, fileVars, ClaimsInv, ClaimsTypeOK,
     Entries, PreparedOnDisk, Prepared, Position
<1>10. CASE SyncsMark
  BY <1>10 DEF SyncsMark, ClaimGoes, SyncsBody, ClaimsInv, ClaimsTypeOK, Entries,
     PreparedOnDisk, Prepared, Position
<1>11. CASE SyncsSuffix
  BY <1>11 DEF SyncsSuffix, ClaimGoes, SyncsBody, ClaimsInv, ClaimsTypeOK,
     Entries, PreparedOnDisk, Prepared, Position
<1>12. CASE Arms
  BY <1>12 DEF Arms, ClaimGoes, Enters, fileVars, ClaimsInv, ClaimsTypeOK,
     Entries, PreparedOnDisk, Prepared, Position
<1>13. CASE Rechecks
  BY <1>13 DEF Rechecks, ClaimGoes, fileVars, ClaimsInv, ClaimsTypeOK, Entries,
     PreparedOnDisk, Prepared, Position
<1>14. CASE Wipes
  BY <1>14 DEF Wipes, ClaimGoes, Holds, ClaimsInv, ClaimsTypeOK, Entries,
     PreparedOnDisk, Prepared, Position
<1>15. CASE SyncsWiped
  BY <1>15 DEF SyncsWiped, ClaimGoes, SyncsBody, ClaimsInv, ClaimsTypeOK, Entries,
     PreparedOnDisk, Prepared, Position
<1>16. CASE RetiresClaim
  BY <1>16 DEF RetiresClaim, ClaimGoes, Calls, ClaimsInv, ClaimsTypeOK, Entries,
     PreparedOnDisk, Prepared, Position
<1>17. CASE SyncsUnlinked
  BY <1>17 DEF SyncsUnlinked, SyncsName, Finishes, ClaimsInv, ClaimsTypeOK,
     Entries, PreparedOnDisk, Prepared, Position
<1>18. CASE Clears
  BY <1>18 DEF Clears, Migrated, Cleared, fileVars, ClaimsInv, ClaimsTypeOK,
     Entries, PreparedOnDisk, Prepared, Position
<1>19. CASE Fails
  BY <1>19 DEF Fails, Stopped, fileVars, ClaimsInv, ClaimsTypeOK, Entries,
     PreparedOnDisk, Prepared, Position
<1>20. CASE LosesPower
  BY <1>20 DEF LosesPower, Stopped, ClaimsInv, ClaimsTypeOK, Entries,
     PreparedOnDisk, Prepared, Position
<1> QED
  BY <1>1, <1>2, <1>3, <1>4, <1>5, <1>6, <1>7, <1>8, <1>9, <1>10, <1>11, <1>12,
     <1>13, <1>14, <1>15, <1>16, <1>17, <1>18, <1>19, <1>20 DEF ClaimsNext, Run,
     TakesOne

LEMMA PositionKept ==
    ASSUME ClaimsInv, ClaimsNext PROVE Position'
<1>1. CASE Begins
  BY <1>1 DEF Begins, fileVars, ClaimsInv, ClaimsTypeOK, Entries, Untouched,
     PreparedOnDisk, Prepared, Position, KeptUntilArmed
<1>2. CASE TakesOne
  BY <1>2 DEF TakesOne, Takes, Migration, Resumption, fileVars, ClaimsInv,
     ClaimsTypeOK, Entries, Untouched, PreparedOnDisk, Prepared, Position,
     KeptUntilArmed
<1>3. CASE Renames
  BY <1>3 DEF Renames, ClaimGoes, Calls, ClaimsInv, ClaimsTypeOK, Entries,
     Untouched, PreparedOnDisk, Prepared, Position, KeptUntilArmed
<1>4. CASE SyncsClaim
  BY <1>4, SyncsByPhase DEF Finishes, SyncsName, Enters, ClaimsInv, ClaimsTypeOK,
     Entries, Untouched, PreparedOnDisk, Prepared, Position, KeptUntilArmed
<1>5. CASE Trims
  BY <1>5 DEF Trims, ClaimGoes, Holds, fileVars, ClaimsInv, ClaimsTypeOK, Entries,
     Untouched, PreparedOnDisk, Prepared, Position, KeptUntilArmed
<1>6. CASE SyncsTrimmed
  BY <1>6 DEF SyncsTrimmed, ClaimGoes, SyncsBody, ClaimsInv, ClaimsTypeOK,
     Entries, Untouched, PreparedOnDisk, Prepared, Position, KeptUntilArmed
<1>7. CASE WritesTrailer
  BY <1>7 DEF WritesTrailer, ClaimGoes, Holds, ClaimsInv, ClaimsTypeOK, Entries,
     Untouched, PreparedOnDisk, Prepared, Position, KeptUntilArmed
<1>8. CASE Commits
  BY <1>8 DEF Commits, ClaimGoes, Enters, SyncsBody, ClaimsInv, ClaimsTypeOK,
     Entries, Untouched, PreparedOnDisk, Prepared, Position, KeptUntilArmed
<1>9. CASE Marks
  BY <1>9, MarksTrailer DEF ClaimGoes, Holds, fileVars, ClaimsInv, ClaimsTypeOK,
     Entries, Untouched, PreparedOnDisk, Prepared, Position, KeptUntilArmed
<1>10. CASE SyncsMark
  BY <1>10 DEF SyncsMark, ClaimGoes, SyncsBody, ClaimsInv, ClaimsTypeOK, Entries,
     Untouched, PreparedOnDisk, Prepared, Position, KeptUntilArmed
<1>11. CASE SyncsSuffix
  BY <1>11 DEF SyncsSuffix, ClaimGoes, SyncsBody, ClaimsInv, ClaimsTypeOK,
     Entries, Untouched, PreparedOnDisk, Prepared, Position, KeptUntilArmed
<1>12. CASE Arms
  BY <1>12 DEF Arms, ClaimGoes, Enters, fileVars, ClaimsInv, ClaimsTypeOK,
     Entries, Untouched, PreparedOnDisk, Prepared, Position, KeptUntilArmed
<1>13. CASE Rechecks
  BY <1>13 DEF Rechecks, ClaimGoes, fileVars, ClaimsInv, ClaimsTypeOK, Entries,
     Untouched, PreparedOnDisk, Prepared, Position, KeptUntilArmed
<1>14. CASE Wipes
  BY <1>14 DEF Wipes, ClaimGoes, Holds, ClaimsInv, ClaimsTypeOK, Entries,
     Untouched, PreparedOnDisk, Prepared, Position, KeptUntilArmed
<1>15. CASE SyncsWiped
  BY <1>15 DEF SyncsWiped, ClaimGoes, SyncsBody, ClaimsInv, ClaimsTypeOK, Entries,
     Untouched, PreparedOnDisk, Prepared, Position, KeptUntilArmed
<1>16. CASE RetiresClaim
  BY <1>16 DEF RetiresClaim, ClaimGoes, Calls, ClaimsInv, ClaimsTypeOK, Entries,
     Untouched, PreparedOnDisk, Prepared, Position, KeptUntilArmed
<1>17. CASE SyncsUnlinked
  BY <1>17 DEF SyncsUnlinked, SyncsName, Finishes, ClaimsInv, ClaimsTypeOK,
     Entries, Untouched, PreparedOnDisk, Prepared, Position, KeptUntilArmed
<1>18. CASE Clears
  BY <1>18 DEF Clears, Migrated, Cleared, fileVars, ClaimsInv, ClaimsTypeOK,
     Entries, Untouched, PreparedOnDisk, Prepared, Position, KeptUntilArmed
<1>19. CASE Fails
  BY <1>19 DEF Fails, Stopped, fileVars, ClaimsInv, ClaimsTypeOK, Entries,
     Untouched, PreparedOnDisk, Prepared, Position, KeptUntilArmed
<1>20. CASE LosesPower
  BY <1>20 DEF LosesPower, Stopped, ClaimsInv, ClaimsTypeOK, Entries, Untouched,
     PreparedOnDisk, Prepared, Position, KeptUntilArmed
<1> QED
  BY <1>1, <1>2, <1>3, <1>4, <1>5, <1>6, <1>7, <1>8, <1>9, <1>10, <1>11, <1>12,
     <1>13, <1>14, <1>15, <1>16, <1>17, <1>18, <1>19, <1>20 DEF ClaimsNext, Run,
     TakesOne

LEMMA SafeKept ==
    ASSUME ClaimsInv, ClaimsNext PROVE ClaimsAreSafe'
<1>1. CASE Begins
  BY <1>1 DEF Begins, fileVars, ClaimsInv, ClaimsTypeOK, Entries, Untouched,
     Taken, PreparedOnDisk, Prepared, Position, KeptUntilArmed, ClaimIsJournaled,
     ClaimsAreSafe
<1>2. CASE TakesOne
  BY <1>2 DEF TakesOne, Takes, Migration, Resumption, fileVars, ClaimsInv,
     ClaimsTypeOK, Entries, Untouched, Taken, PreparedOnDisk, Prepared, Position,
     KeptUntilArmed, ClaimIsJournaled, ClaimsAreSafe
<1>3. CASE Renames
  BY <1>3 DEF Renames, ClaimGoes, Calls, ClaimsInv, ClaimsTypeOK, Entries,
     Untouched, Taken, PreparedOnDisk, Prepared, Position, KeptUntilArmed,
     ClaimIsJournaled, ClaimsAreSafe
<1>4. CASE SyncsClaim
  BY <1>4, SyncsByPhase DEF Finishes, SyncsName, Enters, ClaimsInv, ClaimsTypeOK,
     Entries, Untouched, Taken, PreparedOnDisk, Prepared, Position,
     KeptUntilArmed, ClaimIsJournaled, ClaimsAreSafe
<1>5. CASE Trims
  BY <1>5 DEF Trims, ClaimGoes, Holds, fileVars, ClaimsInv, ClaimsTypeOK, Entries,
     Untouched, Taken, PreparedOnDisk, Prepared, Position, KeptUntilArmed,
     ClaimIsJournaled, ClaimsAreSafe
<1>6. CASE SyncsTrimmed
  BY <1>6 DEF SyncsTrimmed, ClaimGoes, SyncsBody, ClaimsInv, ClaimsTypeOK,
     Entries, Untouched, Taken, PreparedOnDisk, Prepared, Position,
     KeptUntilArmed, ClaimIsJournaled, ClaimsAreSafe
<1>7. CASE WritesTrailer
  BY <1>7 DEF WritesTrailer, ClaimGoes, Holds, ClaimsInv, ClaimsTypeOK, Entries,
     Untouched, Taken, PreparedOnDisk, Prepared, Position, KeptUntilArmed,
     ClaimIsJournaled, ClaimsAreSafe
<1>8. CASE Commits
  BY <1>8 DEF Commits, ClaimGoes, Enters, SyncsBody, ClaimsInv, ClaimsTypeOK,
     Entries, Untouched, Taken, PreparedOnDisk, Prepared, Position,
     KeptUntilArmed, ClaimIsJournaled, ClaimsAreSafe
<1>9. CASE Marks
  BY <1>9, MarksTrailer DEF ClaimGoes, Holds, fileVars, ClaimsInv, ClaimsTypeOK,
     Entries, Untouched, Taken, PreparedOnDisk, Prepared, Position,
     KeptUntilArmed, ClaimIsJournaled, ClaimsAreSafe
<1>10. CASE SyncsMark
  BY <1>10 DEF SyncsMark, ClaimGoes, SyncsBody, ClaimsInv, ClaimsTypeOK, Entries,
     Untouched, Taken, PreparedOnDisk, Prepared, Position, KeptUntilArmed,
     ClaimIsJournaled, ClaimsAreSafe
<1>11. CASE SyncsSuffix
  BY <1>11 DEF SyncsSuffix, ClaimGoes, SyncsBody, ClaimsInv, ClaimsTypeOK,
     Entries, Untouched, Taken, PreparedOnDisk, Prepared, Position,
     KeptUntilArmed, ClaimIsJournaled, ClaimsAreSafe
<1>12. CASE Arms
  BY <1>12 DEF Arms, ClaimGoes, Enters, fileVars, ClaimsInv, ClaimsTypeOK,
     Entries, Untouched, Taken, PreparedOnDisk, Prepared, Position,
     KeptUntilArmed, ClaimIsJournaled, ClaimsAreSafe
<1>13. CASE Rechecks
  BY <1>13 DEF Rechecks, ClaimGoes, fileVars, ClaimsInv, ClaimsTypeOK, Entries,
     Untouched, Taken, PreparedOnDisk, Prepared, Position, KeptUntilArmed,
     ClaimIsJournaled, ClaimsAreSafe
<1>14. CASE Wipes
  BY <1>14 DEF Wipes, ClaimGoes, Holds, ClaimsInv, ClaimsTypeOK, Entries,
     Untouched, Taken, PreparedOnDisk, Prepared, Position, KeptUntilArmed,
     ClaimIsJournaled, ClaimsAreSafe
<1>15. CASE SyncsWiped
  BY <1>15 DEF SyncsWiped, ClaimGoes, SyncsBody, ClaimsInv, ClaimsTypeOK, Entries,
     Untouched, Taken, PreparedOnDisk, Prepared, Position, KeptUntilArmed,
     ClaimIsJournaled, ClaimsAreSafe
<1>16. CASE RetiresClaim
  BY <1>16 DEF RetiresClaim, ClaimGoes, Calls, ClaimsInv, ClaimsTypeOK, Entries,
     Untouched, Taken, PreparedOnDisk, Prepared, Position, KeptUntilArmed,
     ClaimIsJournaled, ClaimsAreSafe
<1>17. CASE SyncsUnlinked
  BY <1>17 DEF SyncsUnlinked, SyncsName, Finishes, ClaimsInv, ClaimsTypeOK,
     Entries, Untouched, Taken, PreparedOnDisk, Prepared, Position,
     KeptUntilArmed, ClaimIsJournaled, ClaimsAreSafe
<1>18. CASE Clears
  BY <1>18 DEF Clears, Migrated, Cleared, fileVars, ClaimsInv, ClaimsTypeOK,
     Entries, Untouched, Taken, PreparedOnDisk, Prepared, Position,
     KeptUntilArmed, ClaimIsJournaled, ClaimsAreSafe
<1>19. CASE Fails
  BY <1>19 DEF Fails, Stopped, fileVars, ClaimsInv, ClaimsTypeOK, Entries,
     Untouched, Taken, PreparedOnDisk, Prepared, Position, KeptUntilArmed,
     ClaimIsJournaled, ClaimsAreSafe
<1>20. CASE LosesPower
  BY <1>20 DEF LosesPower, Stopped, ClaimsInv, ClaimsTypeOK, Entries, Untouched,
     Taken, PreparedOnDisk, Prepared, Position, KeptUntilArmed, ClaimIsJournaled,
     ClaimsAreSafe
<1> QED
  BY <1>1, <1>2, <1>3, <1>4, <1>5, <1>6, <1>7, <1>8, <1>9, <1>10, <1>11, <1>12,
     <1>13, <1>14, <1>15, <1>16, <1>17, <1>18, <1>19, <1>20 DEF ClaimsNext, Run,
     TakesOne

LEMMA InitClaims == ClaimsInit => ClaimsInv
<1> SUFFICES ASSUME ClaimsInit PROVE ClaimsInv
  OBVIOUS
<1>1. ClaimsTypeOK
  BY ClaimsAssumption
     DEF ClaimsAssumption, ClaimsInit, Starts, ClaimsTypeOK, Phases, Names, Bodies
<1>2. \A a \in Artifacts : Starts(form, journal[a], name[a], body[a])
  BY DEF ClaimsInit
<1>3. Entries /\ Untouched /\ PreparedOnDisk
  BY <1>2 DEF ClaimsInit, Starts, Entries, Untouched, PreparedOnDisk, Prepared
<1>4. Taken /\ Position
  BY DEF ClaimsInit, Taken, Position
<1>5. KeptUntilArmed /\ ClaimIsJournaled
  BY <1>2 DEF ClaimsInit, Starts, KeptUntilArmed, ClaimIsJournaled
<1> QED
  BY <1>1, <1>3, <1>4, <1>5 DEF ClaimsInv

LEMMA ClaimsInvariant == ClaimsSpec => []ClaimsInv
<1>1. ASSUME ClaimsInv, [ClaimsNext]_claimVars PROVE ClaimsInv'
  <2>1. CASE ClaimsNext
    BY <1>1, <2>1, ClaimsTypeKept, EntriesKept, UntouchedKept, TakenKept, PreparedKept,
       PositionKept, SafeKept DEF ClaimsInv, ClaimsAreSafe
  <2>2. CASE UNCHANGED claimVars
    BY <1>1, <2>2 DEF claimVars, fileVars, runVars, ClaimsInv, ClaimsTypeOK, Entries,
       Untouched, Taken, PreparedOnDisk, Position, KeptUntilArmed, ClaimIsJournaled
  <2> QED
    BY <1>1, <2>1, <2>2
<1> QED
  BY InitClaims, <1>1, PTL DEF ClaimsSpec

(* cli.py:13442, 13497, 14637 - wherever cancel fails, is killed or power  *)
(* is lost, and however often: an artifact keeps all its contents until    *)
(* the state has been armed, and no claim is left that no entry names.     *)
THEOREM ClaimsStaySafe == ClaimsSpec => []ClaimsAreSafe
<1>1. ClaimsInv => ClaimsAreSafe
  BY DEF ClaimsInv, ClaimsAreSafe
<1> QED
  BY ClaimsInvariant, <1>1, PTL

-----------------------------------------------------------------------------
(* The processes of the tree: whoever is there has a parent that can wait  *)
(* for it, and no set of them is without a parent outside of it.           *)
IsThere(p) == state[p] \in {"alive", "zombie"}

ParentsCanWait ==
    \A p \in Supervised : IsThere(p) =>
        \/ parent[p] = Supervisor
        \/ parent[p] = Outside /\ Alive(p) /\ ~SupervisorLives
        \/ parent[p] \in Supervised /\ Alive(parent[p])

NoRing == \A S \in SUBSET Supervised : S # {} /\ (\A p \in S : IsThere(p)) => \E p \in S : parent[p] \notin S

\* The root is a child of the supervisor or of whoever has adopted it.
RootsParent == parent[Root] \in {Supervisor, Outside}

(* Before the fork there is nobody.                                        *)
BeforeFork == {"starts", "bound", "hardened", "latching"}

NobodyBeforeFork ==
    /\ rootStep = "none" => \A p \in Supervised : state[p] = "none"
    /\ supStep \in BeforeFork => rootStep = "none"

(* Once the supervisor has noted that the tree is empty, it is.            *)
NothingLeft == \A p \in Supervised : state[p] \in {"none", "gone"}

EmptyIsNoted ==
    /\ "TREE_EMPTY" \in flags => NothingLeft /\ supStep \notin BeforeFork
    /\ \A f \in frame : f.flags \subseteq flags

(* A signal that was sent is received or pending, and the outcome says so. *)
HasFrame == {"unblocks", "exits", "ended", "killed"}

SignalIsNoted ==
    /\ frame # {} => supStep \in HasFrame
    /\ told => received \/ pending
    /\ told => supStep \notin {"starts", "bound", "hardened"}
    /\ supStep \in {"writes", "unblocks", "exits"} /\ received => outcome \in {"SIGNAL", "CLEANUP_FAILURE"}
    /\ supStep \in {"unblocks", "exits"} => \A f \in frame : f.outcome = outcome
    /\ supStep = "exits" => ~pending

DirectInv ==
    /\ SupervisorTypeOK /\ RootsParent /\ ParentsCanWait /\ NoRing /\ NobodyBeforeFork
    /\ EmptyIsNoted /\ SignalIsNoted /\ SignalKept

(* Orphans and the end of processes keep the types of the tree.            *)
LEMMA OrphansTypes ==
    ASSUME SupervisorTypeOK, Orphans
    PROVE  /\ state' \in [Supervised -> {"none", "alive", "zombie", "gone"}]
           /\ parent' \in [Supervised -> Parents] /\ doomed' \subseteq Supervised
           /\ rootStatus' = rootStatus
  BY DEF Orphans, SupervisorTypeOK, Supervised, Parents

LEMMA DirectTypeKept ==
    ASSUME SupervisorTypeOK, RootsParent, DirectNext
    PROVE  SupervisorTypeOK'
<1>1. CASE RootAsks
  <2>1. /\ rootStep' \in {"asked", "asked_outside"}
        /\ UNCHANGED <<supervisorVars, pipeVars, treeVars, boundTo, late, controllerLives>>
    BY <1>1 DEF RootAsks, RootGoes
  <2> QED
    BY <2>1 DEF supervisorVars, pipeVars, treeVars, SupervisorTypeOK
<1>2. CASE RootBinds
  <2>1. /\ rootStep' = "bound" /\ boundTo' = parent[Root]
        /\ UNCHANGED <<supervisorVars, pipeVars, treeVars, late, controllerLives>>
    BY <1>2 DEF RootBinds, RootGoes
  <2> QED
    BY <2>1 DEF supervisorVars, pipeVars, treeVars, RootsParent, SupervisorTypeOK
<1>3. CASE RootTellsGroup
  BY <1>3 DEF RootTellsGroup, RootGoes, Alive, supervisorVars, treeVars,
     SupervisorTypeOK, Outcomes, Flags, Supervised, Parents
<1>4. CASE RootPasses
  BY <1>4 DEF RootPasses, RootGoes, Alive, supervisorVars, treeVars, pipeVars,
     SupervisorTypeOK, Outcomes, Flags, Supervised, Parents
<1>5. CASE RootArms
  BY <1>5 DEF RootArms, RootGoes, Alive, supervisorVars, treeVars,
     SupervisorTypeOK, Outcomes, Flags, Supervised, Parents
<1>6. CASE RootExecs
  BY <1>6 DEF RootExecs, RootGoes, Alive, supervisorVars, treeVars, pipeVars,
     SupervisorTypeOK, Outcomes, Flags, Supervised, Parents
<1>7. CASE RootFails
  BY <1>7 DEF RootFails, Die, SupervisorLives, Alive, supervisorVars, pipeVars,
     SupervisorTypeOK, Outcomes, Flags, Supervised, Parents
<1>8. CASE BindsController
  BY <1>8 DEF BindsController, Goes, SignalsUnchanged, RestUnchanged, pipeVars,
     treeVars, SupervisorTypeOK, Outcomes, Flags, Supervised, Parents
<1>9. CASE Hardens
  BY <1>9 DEF Hardens, Goes, SignalsUnchanged, RestUnchanged, pipeVars, treeVars,
     SupervisorTypeOK, Outcomes, Flags, Supervised, Parents
<1>10. CASE Latches
  BY <1>10 DEF Latches, Goes, SignalsUnchanged, RestUnchanged, pipeVars, treeVars,
     SupervisorTypeOK, Outcomes, Flags, Supervised, Parents
<1>11. CASE LateBeforeFork
  BY <1>11 DEF LateBeforeFork, Stops, SignalsUnchanged, RestUnchanged, pipeVars,
     treeVars, SupervisorTypeOK, Outcomes, Flags, Supervised, Parents
<1>12. CASE Forks
  BY <1>12 DEF Forks, Goes, SignalsUnchanged, pipeVars, SupervisorTypeOK,
     Outcomes, Flags, Supervised, Parents
<1>13. CASE BindsRoot
  BY <1>13 DEF BindsRoot, Goes, SignalsUnchanged, RestUnchanged, pipeVars,
     treeVars, SupervisorTypeOK, Outcomes, Flags, Supervised, Parents
<1>14. CASE \E s \in Waits : Interrupted(s)
  BY <1>14 DEF Interrupted, Stops, SignalsUnchanged, RestUnchanged, pipeVars,
     treeVars, SupervisorTypeOK, Outcomes, Flags, Supervised, Parents
<1>15. CASE \E s \in Waits : RootWaited(s)
  BY <1>15 DEF RootWaited, Stops, SignalsUnchanged, pipeVars, SupervisorTypeOK,
     Outcomes, Flags, Supervised, Parents
<1>16. CASE GroupReady
  <2>1. /\ supStep' = "gate" /\ flags' = flags \cup {"GROUP_SEPARATED"} /\ groupPipe' = FALSE
        /\ UNCHANGED <<outcome, received, pending, told, cleanupOk, frame, returncode>>
    BY <1>16 DEF GroupReady, Goes, SignalsUnchanged
  <2>2. UNCHANGED <<gatePipe, armPipe, treeVars, rootStep, boundTo, late, controllerLives>>
    BY <1>16 DEF GroupReady
  <2>3. flags' \subseteq Flags
    BY <2>1 DEF SupervisorTypeOK, Flags
  <2>4. groupPipe' \in BOOLEAN
    BY <2>1
  <2> QED
    BY <2>1, <2>2, <2>3, <2>4 DEF treeVars, SupervisorTypeOK
<1>17. CASE OpensGate
  BY <1>17 DEF OpensGate, Goes, SignalsUnchanged, Alive, treeVars,
     SupervisorTypeOK, Outcomes, Flags, Supervised, Parents
<1>18. CASE Armed
  BY <1>18 DEF Armed, Goes, SignalsUnchanged, RestUnchanged, pipeVars, treeVars,
     SupervisorTypeOK, Outcomes, Flags, Supervised, Parents
<1>19. CASE BeginsCleaning
  BY <1>19 DEF BeginsCleaning, RestUnchanged, pipeVars, treeVars,
     SupervisorTypeOK, Outcomes, Flags, Supervised, Parents
<1>20. CASE Reaps("TERM") \/ Reaps("KILL")
  <2>1. /\ state' = Waited /\ cleanupOk' \in {cleanupOk, FALSE}
        /\ supStep' \in {"empty", "signals_TERM", "signals_KILL"}
        /\ flags' \in {flags, flags \cup {"ROOT_REAPED"}}
        /\ UNCHANGED <<outcome, received, pending, told, frame, returncode, pipeVars, parent,
                       doomed, rootStatus, rootStep, boundTo, late, controllerLives>>
    BY <1>20 DEF Reaps, Signalling
  <2>2. state' \in [Supervised -> {"none", "alive", "zombie", "gone"}]
    BY <2>1 DEF Waited, SupervisorTypeOK
  <2>3. flags' \subseteq Flags /\ cleanupOk' \in BOOLEAN
    BY <2>1 DEF SupervisorTypeOK, Flags
  <2> QED
    BY <2>1, <2>2, <2>3 DEF pipeVars, SupervisorTypeOK
<1>21. CASE \/ Signals("TERM", "reaps_TERM") \/ Signals("KILL", "reaps_KILL")
           \/ PhaseEnds
  <2>1. /\ doomed' \in {doomed, doomed \cup {p \in Children : Alive(p)}} /\ cleanupOk' \in {cleanupOk, FALSE}
        /\ supStep' \in {"reaps_TERM", "reaps_KILL", "drained"}
        /\ UNCHANGED <<outcome, flags, received, pending, told, frame, returncode, pipeVars, state,
                       parent, rootStatus, rootStep, boundTo, late, controllerLives>>
    BY <1>21 DEF Signals, PhaseEnds
  <2>2. doomed' \subseteq Supervised /\ cleanupOk' \in BOOLEAN
    BY <2>1 DEF Children, SupervisorTypeOK
  <2> QED
    BY <2>1, <2>2 DEF pipeVars, SupervisorTypeOK
<1>22. CASE ChecksPending
  BY <1>22 DEF ChecksPending, Waited, Children, NoChild, pipeVars,
     SupervisorTypeOK, Outcomes, Flags, Supervised, Parents
<1>23. CASE WritesFrame
  <2>1. frame' \subseteq [outcome : Outcomes, flags : SUBSET Flags] /\ supStep' = "unblocks"
    BY <1>23 DEF WritesFrame, SupervisorTypeOK
  <2>2. UNCHANGED <<outcome, flags, received, pending, told, cleanupOk, returncode, pipeVars, treeVars,
                    rootStep, boundTo, late, controllerLives>>
    BY <1>23 DEF WritesFrame, RestUnchanged
  <2> QED
    BY <2>1, <2>2 DEF pipeVars, treeVars, SupervisorTypeOK
<1>24. CASE Unblocks
  <2>1. CASE pending
    <3>1. /\ supStep' \in {"ended", "killed"} /\ returncode' \in {"target", "signal", "failure", "killed"}
          /\ controllerLives' \in BOOLEAN /\ Orphans
          /\ UNCHANGED <<outcome, flags, received, pending, told, cleanupOk, frame, pipeVars, rootStep, boundTo, late>>
      BY <1>24, <2>1 DEF Unblocks, SupervisorEndsWith, SupervisorTypeOK
    <3> QED
      BY <3>1, OrphansTypes DEF pipeVars, SupervisorTypeOK
  <2>2. CASE ~(pending)
    BY <1>24, <2>2 DEF Unblocks, RestUnchanged, pipeVars, treeVars, SupervisorTypeOK
  <2> QED
    BY <2>1, <2>2
<1>25. CASE Exits
  BY <1>25 DEF Exits, SupervisorEndsWith, Orphans, Alive, pipeVars,
     SupervisorTypeOK, Outcomes, Flags, Supervised, Parents
<1>26. CASE CallFails
  BY <1>26 DEF CallFails, Stops, SignalsUnchanged, RestUnchanged, pipeVars,
     treeVars, Latched, Waits, SupervisorTypeOK, Outcomes, Flags, Supervised,
     Parents
<1>27. CASE DescendantsExceedLimit
  BY <1>27 DEF DescendantsExceedLimit, Stops, SignalsUnchanged, RestUnchanged,
     pipeVars, treeVars, SupervisorTypeOK, Outcomes, Flags, Supervised, Parents
<1>28. CASE \E p \in Supervised : Ends(p)
  BY <1>28 DEF Ends, Die, SupervisorLives, Alive, supervisorVars, pipeVars,
     SupervisorTypeOK, Outcomes, Flags, Supervised, Parents
<1>29. CASE \E p \in Supervised, k \in Kids : ForksKid(p, k)
  BY <1>29 DEF ForksKid, Alive, supervisorVars, pipeVars, SupervisorTypeOK,
     Outcomes, Flags, Supervised, Parents
<1>30. CASE \E k \in Kids : ReapsKid(k)
  BY <1>30 DEF ReapsKid, supervisorVars, pipeVars, SupervisorTypeOK, Outcomes,
     Flags, Supervised, Parents
<1>31. CASE SignalSent
  <2>1. CASE ~(Latching \/ Blocked)
    <3>1. /\ supStep' \in {"ended", "killed"} /\ returncode' \in {"target", "signal", "failure", "killed"}
          /\ controllerLives' \in BOOLEAN /\ Orphans
          /\ UNCHANGED <<outcome, flags, received, pending, told, cleanupOk, frame, pipeVars, rootStep, boundTo, late>>
      BY <1>31, <2>1 DEF SignalSent, SupervisorEndsWith, SupervisorTypeOK
    <3> QED
      BY <3>1, OrphansTypes DEF pipeVars, SupervisorTypeOK
  <2>2. CASE ~(~(Latching \/ Blocked))
    <3>1. /\ told' = TRUE /\ received' = (received \/ Latching) /\ pending' = (pending \/ Blocked)
          /\ UNCHANGED <<supStep, outcome, flags, cleanupOk, frame, returncode>>
          /\ UNCHANGED <<pipeVars, treeVars, rootStep, boundTo, late, controllerLives>>
      BY <1>31, <2>2 DEF SignalSent, RestUnchanged
    <3>2. received' \in BOOLEAN /\ pending' \in BOOLEAN
      BY <3>1 DEF Latching, Blocked
    <3> QED
      BY <3>1, <3>2 DEF pipeVars, treeVars, SupervisorTypeOK
  <2> QED
    BY <2>1, <2>2
<1>32. CASE DirectKilled
  BY <1>32 DEF DirectKilled, Orphans, Alive, SupervisorLives, pipeVars,
     SupervisorTypeOK, Outcomes, Flags, Supervised, Parents
<1>33. CASE ControllerGone
  <2>1. CASE SupervisorLives /\ supStep # "starts"
    <3>1. /\ supStep' \in {"ended", "killed"} /\ returncode' \in {"target", "signal", "failure", "killed"}
          /\ controllerLives' \in BOOLEAN /\ Orphans
          /\ UNCHANGED <<outcome, flags, received, pending, told, cleanupOk, frame, pipeVars, rootStep, boundTo, late>>
      BY <1>33, <2>1 DEF ControllerGone, SupervisorEndsWith, SupervisorTypeOK
    <3> QED
      BY <3>1, OrphansTypes DEF pipeVars, SupervisorTypeOK
  <2>2. CASE ~(SupervisorLives /\ supStep # "starts")
    <3>1. /\ UNCHANGED <<supStep, returncode, treeVars>> /\ controllerLives' = FALSE
          /\ UNCHANGED <<outcome, flags, received, pending, told, cleanupOk, frame, pipeVars, rootStep,
                         boundTo, late>>
      BY <1>33, <2>2 DEF ControllerGone
    <3>2. controllerLives' \in BOOLEAN
      BY <3>1
    <3> QED
      BY <3>1, <3>2 DEF pipeVars, treeVars, SupervisorTypeOK
  <2> QED
    BY <2>1, <2>2
<1>34. CASE TimeIsUp
  BY <1>34 DEF TimeIsUp, supervisorVars, pipeVars, treeVars, SupervisorTypeOK,
     Outcomes, Flags, Supervised, Parents
<1> QED
  BY <1>1, <1>2, <1>3, <1>4, <1>5, <1>6, <1>7, <1>8, <1>9, <1>10, <1>11, <1>12,
     <1>13, <1>14, <1>15, <1>16, <1>17, <1>18, <1>19, <1>20, <1>21, <1>22, <1>23,
     <1>24, <1>25, <1>26, <1>27, <1>28, <1>29, <1>30, <1>31, <1>32, <1>33, <1>34
     DEF DirectNext, RootNext, Supervises

(* What a step does to the tree.                                           *)
Shrinks ==
    /\ parent' = parent
    /\ \A p \in Supervised : state'[p] = state[p] \/ (state[p] = "zombie" /\ state'[p] = "gone")
    /\ SupervisorLives' <=> SupervisorLives

SomeDies == \E p \in Supervised : Alive(p) /\ Die({p}) /\ UNCHANGED supervisorVars
SomeForks == \E p \in Supervised, k \in Kids : ForksKid(p, k)
IsOrphaned == SupervisorLives /\ supStep' \in {"ended", "killed"} /\ Orphans
NeverForked == supStep = "starts" /\ UNCHANGED treeVars

TreeStep == Shrinks \/ SomeDies \/ SomeForks \/ Forks \/ IsOrphaned \/ NeverForked

LEMMA StepsOfTheTree ==
    ASSUME SupervisorTypeOK, DirectNext
    PROVE  TreeStep
<1>1. CASE RootAsks
  BY <1>1 DEF RootAsks, RootGoes, Alive, supervisorVars, treeVars, pipeVars,
     TreeStep, Shrinks, SomeDies, SomeForks, IsOrphaned, NeverForked,
     SupervisorTypeOK, SupervisorLives
<1>2. CASE RootBinds
  BY <1>2 DEF RootBinds, RootGoes, Alive, supervisorVars, treeVars, pipeVars,
     TreeStep, Shrinks, SomeDies, SomeForks, IsOrphaned, NeverForked,
     SupervisorTypeOK, SupervisorLives
<1>3. CASE RootTellsGroup
  BY <1>3 DEF RootTellsGroup, RootGoes, Alive, supervisorVars, treeVars, TreeStep,
     Shrinks, SomeDies, SomeForks, IsOrphaned, NeverForked, SupervisorTypeOK,
     SupervisorLives
<1>4. CASE RootPasses
  BY <1>4 DEF RootPasses, RootGoes, Alive, supervisorVars, treeVars, pipeVars,
     TreeStep, Shrinks, SomeDies, SomeForks, IsOrphaned, NeverForked,
     SupervisorTypeOK, SupervisorLives
<1>5. CASE RootArms
  BY <1>5 DEF RootArms, RootGoes, Alive, supervisorVars, treeVars, TreeStep,
     Shrinks, SomeDies, SomeForks, IsOrphaned, NeverForked, SupervisorTypeOK,
     SupervisorLives
<1>6. CASE RootExecs
  BY <1>6 DEF RootExecs, RootGoes, Alive, supervisorVars, treeVars, pipeVars,
     TreeStep, Shrinks, SomeDies, SomeForks, IsOrphaned, NeverForked,
     SupervisorTypeOK, SupervisorLives
<1>7. CASE RootFails
  <2>1. Alive(Root) /\ Die({Root}) /\ UNCHANGED supervisorVars
    BY <1>7 DEF RootFails
  <2> QED
    BY <2>1 DEF TreeStep, SomeDies, Supervised
<1>8. CASE BindsController
  BY <1>8 DEF BindsController, Goes, SignalsUnchanged, RestUnchanged, pipeVars,
     treeVars, TreeStep, Shrinks, SomeDies, SomeForks, IsOrphaned, NeverForked,
     SupervisorTypeOK, SupervisorLives
<1>9. CASE Hardens
  BY <1>9 DEF Hardens, Goes, SignalsUnchanged, RestUnchanged, pipeVars, treeVars,
     TreeStep, Shrinks, SomeDies, SomeForks, IsOrphaned, NeverForked,
     SupervisorTypeOK, SupervisorLives
<1>10. CASE Latches
  BY <1>10 DEF Latches, Goes, SignalsUnchanged, RestUnchanged, pipeVars, treeVars,
     TreeStep, Shrinks, SomeDies, SomeForks, IsOrphaned, NeverForked,
     SupervisorTypeOK, SupervisorLives
<1>11. CASE LateBeforeFork
  BY <1>11 DEF LateBeforeFork, Stops, SignalsUnchanged, RestUnchanged, pipeVars,
     treeVars, TreeStep, Shrinks, SomeDies, SomeForks, IsOrphaned, NeverForked,
     SupervisorTypeOK, SupervisorLives
<1>12. CASE Forks
  BY <1>12 DEF TreeStep
<1>13. CASE BindsRoot
  BY <1>13 DEF BindsRoot, Goes, SignalsUnchanged, RestUnchanged, pipeVars,
     treeVars, TreeStep, Shrinks, SomeDies, SomeForks, IsOrphaned, NeverForked,
     SupervisorTypeOK, SupervisorLives
<1>14. CASE \E s \in Waits : Interrupted(s)
  <2>1. supStep \in Waits /\ supStep' = "cleans" /\ UNCHANGED treeVars
    BY <1>14 DEF Interrupted, Stops, RestUnchanged
  <2> QED
    BY <2>1 DEF Waits, TreeStep, Shrinks, treeVars, SupervisorLives
<1>15. CASE \E s \in Waits : RootWaited(s)
  <2>1. /\ supStep \in Waits /\ supStep' = "cleans" /\ parent' = parent
        /\ state[Root] = "zombie" /\ state' = [state EXCEPT ![Root] = "gone"]
    BY <1>15 DEF RootWaited, Stops
  <2> QED
    BY <2>1 DEF Waits, TreeStep, Shrinks, SupervisorLives, SupervisorTypeOK
<1>16. CASE GroupReady
  BY <1>16 DEF GroupReady, Goes, SignalsUnchanged, treeVars, TreeStep, Shrinks,
     SomeDies, SomeForks, IsOrphaned, NeverForked, SupervisorTypeOK,
     SupervisorLives
<1>17. CASE OpensGate
  BY <1>17 DEF OpensGate, Goes, SignalsUnchanged, Alive, treeVars, TreeStep,
     Shrinks, SomeDies, SomeForks, IsOrphaned, NeverForked, SupervisorTypeOK,
     SupervisorLives
<1>18. CASE Armed
  BY <1>18 DEF Armed, Goes, SignalsUnchanged, RestUnchanged, pipeVars, treeVars,
     TreeStep, Shrinks, SomeDies, SomeForks, IsOrphaned, NeverForked,
     SupervisorTypeOK, SupervisorLives
<1>19. CASE BeginsCleaning
  BY <1>19 DEF BeginsCleaning, RestUnchanged, pipeVars, treeVars, TreeStep,
     Shrinks, SomeDies, SomeForks, IsOrphaned, NeverForked, SupervisorTypeOK,
     SupervisorLives
<1>20. CASE Reaps("TERM") \/ Reaps("KILL")
  BY <1>20 DEF Reaps, Waited, Children, Reaping, Signalling, Alive, pipeVars,
     TreeStep, Shrinks, SomeDies, SomeForks, IsOrphaned, NeverForked,
     SupervisorTypeOK, SupervisorLives
<1>21. CASE \/ Signals("TERM", "reaps_TERM") \/ Signals("KILL", "reaps_KILL")
           \/ PhaseEnds
  BY <1>21 DEF Signals, Signalling, Children, Alive, pipeVars, PhaseEnds,
     TreeStep, Shrinks, SomeDies, SomeForks, IsOrphaned, NeverForked,
     SupervisorTypeOK, SupervisorLives
<1>22. CASE ChecksPending
  BY <1>22 DEF ChecksPending, Waited, Children, NoChild, pipeVars, TreeStep,
     Shrinks, SomeDies, SomeForks, IsOrphaned, NeverForked, SupervisorTypeOK,
     SupervisorLives
<1>23. CASE WritesFrame
  BY <1>23 DEF WritesFrame, RestUnchanged, pipeVars, treeVars, TreeStep, Shrinks,
     SomeDies, SomeForks, IsOrphaned, NeverForked, SupervisorTypeOK,
     SupervisorLives
<1>24. CASE Unblocks
  BY <1>24 DEF Unblocks, RestUnchanged, pipeVars, treeVars, SupervisorEndsWith,
     Orphans, Alive, TreeStep, Shrinks, SomeDies, SomeForks, IsOrphaned,
     NeverForked, SupervisorTypeOK, SupervisorLives
<1>25. CASE Exits
  BY <1>25 DEF Exits, SupervisorEndsWith, Orphans, Alive, pipeVars, TreeStep,
     Shrinks, SomeDies, SomeForks, IsOrphaned, NeverForked, SupervisorTypeOK,
     SupervisorLives
<1>26. CASE CallFails
  BY <1>26 DEF CallFails, Stops, SignalsUnchanged, RestUnchanged, pipeVars,
     treeVars, Latched, Waits, TreeStep, Shrinks, SomeDies, SomeForks, IsOrphaned,
     NeverForked, SupervisorTypeOK, SupervisorLives
<1>27. CASE DescendantsExceedLimit
  BY <1>27 DEF DescendantsExceedLimit, Stops, SignalsUnchanged, RestUnchanged,
     pipeVars, treeVars, TreeStep, Shrinks, SomeDies, SomeForks, IsOrphaned,
     NeverForked, SupervisorTypeOK, SupervisorLives
<1>28. CASE \E p \in Supervised : Ends(p)
  BY <1>28 DEF Ends, Die, SupervisorLives, Alive, supervisorVars, pipeVars,
     TreeStep, Shrinks, SomeDies, SomeForks, IsOrphaned, NeverForked,
     SupervisorTypeOK
<1>29. CASE \E p \in Supervised, k \in Kids : ForksKid(p, k)
  BY <1>29 DEF TreeStep, SomeForks
<1>30. CASE \E k \in Kids : ReapsKid(k)
  BY <1>30 DEF ReapsKid, supervisorVars, pipeVars, TreeStep, Shrinks, SomeDies,
     SomeForks, IsOrphaned, NeverForked, SupervisorTypeOK, SupervisorLives
<1>31. CASE SignalSent
  BY <1>31 DEF SignalSent, RestUnchanged, pipeVars, treeVars, SupervisorEndsWith,
     Orphans, Alive, Latching, Latched, Waits, Blocked, SupervisorLives, TreeStep,
     Shrinks, SomeDies, SomeForks, IsOrphaned, NeverForked, SupervisorTypeOK
<1>32. CASE DirectKilled
  BY <1>32 DEF DirectKilled, Orphans, Alive, SupervisorLives, pipeVars, TreeStep,
     Shrinks, SomeDies, SomeForks, IsOrphaned, NeverForked, SupervisorTypeOK
<1>33. CASE ControllerGone
  BY <1>33 DEF ControllerGone, Orphans, Alive, SupervisorLives, pipeVars,
     treeVars, TreeStep, Shrinks, SomeDies, SomeForks, IsOrphaned, NeverForked,
     SupervisorTypeOK
<1>34. CASE TimeIsUp
  BY <1>34 DEF TimeIsUp, supervisorVars, pipeVars, treeVars, TreeStep, Shrinks,
     SomeDies, SomeForks, IsOrphaned, NeverForked, SupervisorTypeOK,
     SupervisorLives
<1> QED
  BY <1>1, <1>2, <1>3, <1>4, <1>5, <1>6, <1>7, <1>8, <1>9, <1>10, <1>11, <1>12,
     <1>13, <1>14, <1>15, <1>16, <1>17, <1>18, <1>19, <1>20, <1>21, <1>22, <1>23,
     <1>24, <1>25, <1>26, <1>27, <1>28, <1>29, <1>30, <1>31, <1>32, <1>33, <1>34
     DEF DirectNext, RootNext, Supervises

LEMMA DyingKeepsRing ==
    ASSUME SupervisorTypeOK, ParentsCanWait, NoRing, SomeDies
    PROVE  ParentsCanWait' /\ NoRing'
<1>1. PICK p \in Supervised : Alive(p) /\ Die({p}) /\ UNCHANGED supervisorVars
  BY DEF SomeDies
<1>2. SupervisorLives' <=> SupervisorLives
  BY <1>1 DEF supervisorVars, SupervisorLives
<1> DEFINE heir == IF SupervisorLives THEN Supervisor ELSE Outside
<1>3. \A q \in Supervised : parent'[q] = IF parent[q] = p THEN heir ELSE parent[q]
  BY <1>1 DEF Die
<1>4. \A q \in Supervised :
        state'[q] = IF q # p /\ state[q] # "zombie" THEN state[q]
                    ELSE IF parent'[q] = Outside THEN "gone" ELSE "zombie"
  BY <1>1, <1>3 DEF Die
<1>5. heir \notin Supervised /\ heir \in {Supervisor, Outside}
  BY SupervisorAssumption DEF Supervised
<1>6. parent[p] # p
  <2>1. \E q \in {p} : parent[q] \notin {p}
    BY <1>1 DEF NoRing, IsThere, Alive
  <2> QED
    BY <2>1
<1> HIDE DEF heir
<1>7. \A q \in Supervised : IsThere(q)' => IsThere(q)
  BY <1>1, <1>4 DEF IsThere, Alive
<1>8. ParentsCanWait'
  <2> SUFFICES ASSUME NEW q \in Supervised, IsThere(q)'
               PROVE  \/ parent'[q] = Supervisor
                      \/ parent'[q] = Outside /\ state'[q] = "alive" /\ ~SupervisorLives
                      \/ parent'[q] \in Supervised /\ state'[parent'[q]] = "alive"
    BY <1>2 DEF ParentsCanWait, Alive
  <2>1. \/ parent[q] = Supervisor
        \/ parent[q] = Outside /\ state[q] = "alive" /\ ~SupervisorLives
        \/ parent[q] \in Supervised /\ state[parent[q]] = "alive"
    BY <1>7 DEF ParentsCanWait, Alive
  <2>2. CASE parent[q] = p
    <3>1. parent'[q] = heir /\ q # p
      BY <2>2, <1>3, <1>6
    <3> QED
      BY <3>1, <1>4, <1>5 DEF IsThere, heir
  <2>3. CASE parent[q] # p
    <3>1. parent'[q] = parent[q]
      BY <2>3, <1>3
    <3>2. CASE parent[q] = Outside
      BY <3>1, <3>2, <2>1, <1>4, SupervisorAssumption DEF IsThere, Supervised
    <3>3. CASE parent[q] \in Supervised /\ state[parent[q]] = "alive"
      BY <3>1, <3>3, <2>3, <1>4
    <3> QED
      BY <3>1, <3>2, <3>3, <2>1
  <2> QED
    BY <2>2, <2>3
<1>9. NoRing'
  <2> SUFFICES ASSUME NEW S \in SUBSET Supervised, S # {}, \A q \in S : IsThere(q)'
               PROVE  \E q \in S : parent'[q] \notin S
    BY DEF NoRing, Supervised
  <2>1. PICK q \in S : parent[q] \notin S
    BY <1>7 DEF NoRing
  <2> QED
    BY <2>1, <1>3, <1>5
<1> QED
  BY <1>8, <1>9

LEMMA OrphansKeepRing ==
    ASSUME SupervisorTypeOK, ParentsCanWait, NoRing, IsOrphaned
    PROVE  ParentsCanWait' /\ NoRing'
<1>1. /\ SupervisorLives /\ ~SupervisorLives'
      /\ \A p \in Supervised :
           /\ parent'[p] = IF parent[p] = Supervisor THEN Outside ELSE parent[p]
           /\ state'[p] = IF parent[p] = Supervisor /\ state[p] = "zombie" THEN "gone" ELSE state[p]
  BY DEF IsOrphaned, Orphans, SupervisorLives
<1>2. \A q \in Supervised : IsThere(q)' => IsThere(q)
  BY <1>1 DEF IsThere
<1>3. ParentsCanWait'
  <2> SUFFICES ASSUME NEW q \in Supervised, IsThere(q)'
               PROVE  \/ parent'[q] = Supervisor
                      \/ parent'[q] = Outside /\ state'[q] = "alive"
                      \/ parent'[q] \in Supervised /\ state'[parent'[q]] = "alive"
    BY <1>1 DEF ParentsCanWait, Alive
  <2>1. \/ parent[q] = Supervisor
        \/ parent[q] \in Supervised /\ state[parent[q]] = "alive"
    BY <1>1, <1>2 DEF ParentsCanWait, Alive
  <2> QED
    BY <1>1, <2>1, SupervisorAssumption DEF IsThere, Supervised
<1>4. NoRing'
  <2> SUFFICES ASSUME NEW S \in SUBSET Supervised, S # {}, \A q \in S : IsThere(q)'
               PROVE  \E q \in S : parent'[q] \notin S
    BY DEF NoRing, Supervised
  <2>1. PICK q \in S : parent[q] \notin S
    BY <1>2 DEF NoRing
  <2> QED
    BY <2>1, <1>1, SupervisorAssumption DEF Supervised
<1> QED
  BY <1>3, <1>4

(* A new process: nobody has it for a parent yet.                          *)
LEMMA ForkKeepsRing ==
    ASSUME SupervisorTypeOK, ParentsCanWait, NoRing,
           NEW k \in Supervised, NEW p \in Parents, state[k] = "none",
           p = Supervisor \/ (p \in Supervised /\ Alive(p)),
           state' = [state EXCEPT ![k] = "alive"], parent' = [parent EXCEPT ![k] = p],
           SupervisorLives' <=> SupervisorLives
    PROVE  ParentsCanWait' /\ NoRing'
<1>1. /\ state'[k] = "alive" /\ parent'[k] = p
      /\ \A q \in Supervised \ {k} : state'[q] = state[q] /\ parent'[q] = parent[q]
  BY DEF SupervisorTypeOK
<1>2. p # k /\ Supervisor \notin Supervised /\ Outside \notin Supervised /\ Supervisor # Outside
  BY SupervisorAssumption DEF Supervised, Alive
<1>3. \A q \in Supervised : IsThere(q) => parent[q] # k
  BY <1>2 DEF ParentsCanWait, Alive, IsThere
<1>4. ParentsCanWait'
  <2> SUFFICES ASSUME NEW q \in Supervised, IsThere(q)'
               PROVE  \/ parent'[q] = Supervisor
                      \/ parent'[q] = Outside /\ state'[q] = "alive" /\ ~SupervisorLives
                      \/ parent'[q] \in Supervised /\ state'[parent'[q]] = "alive"
    BY DEF ParentsCanWait, Alive
  <2>1. CASE q = k
    BY <2>1, <1>1, <1>2 DEF Alive
  <2>2. CASE q # k
    <3>1. IsThere(q) /\ parent'[q] = parent[q] /\ state'[q] = state[q]
      BY <2>2, <1>1 DEF IsThere
    <3>2. \/ parent[q] = Supervisor
          \/ parent[q] = Outside /\ state[q] = "alive" /\ ~SupervisorLives
          \/ parent[q] \in Supervised /\ state[parent[q]] = "alive"
      BY <3>1 DEF ParentsCanWait, Alive
    <3> QED
      BY <3>1, <3>2, <1>1, <1>3
  <2> QED
    BY <2>1, <2>2
<1>5. NoRing'
  <2> SUFFICES ASSUME NEW S \in SUBSET Supervised, S # {}, \A q \in S : IsThere(q)'
               PROVE  \E q \in S : parent'[q] \notin S
    BY DEF NoRing, Supervised
  <2>1. CASE S \ {k} = {}
    BY <2>1, <1>1, <1>2
  <2>2. CASE S \ {k} # {}
    <3>1. \A q \in S \ {k} : IsThere(q)
      BY <1>1 DEF IsThere
    <3>2. PICK q \in S \ {k} : parent[q] \notin S \ {k}
      BY <2>2, <3>1 DEF NoRing
    <3> QED
      BY <3>1, <3>2, <1>1, <1>3
  <2> QED
    BY <2>1, <2>2
<1> QED
  BY <1>4, <1>5

LEMMA RingKept ==
    ASSUME SupervisorTypeOK, ParentsCanWait, NoRing, NobodyBeforeFork, TreeStep
    PROVE  ParentsCanWait' /\ NoRing'
<1>1. CASE Shrinks
  <2>1. \A p \in Supervised : (IsThere(p)' => IsThere(p)) /\ (Alive(p)' <=> Alive(p)) /\ parent'[p] = parent[p]
    BY <1>1 DEF Shrinks, IsThere, Alive
  <2>2. ParentsCanWait'
    BY <1>1, <2>1 DEF Shrinks, ParentsCanWait
  <2>3. NoRing'
    BY <2>1 DEF NoRing, Supervised
  <2> QED
    BY <2>2, <2>3
<1>2. CASE SomeDies
  BY <1>2, DyingKeepsRing
<1>3. CASE SomeForks
  <2>1. PICK p \in Supervised, k \in Kids : ForksKid(p, k)
    BY <1>3 DEF SomeForks
  <2>2. k \in Supervised /\ p \in Parents /\ (SupervisorLives' <=> SupervisorLives)
    BY <2>1 DEF ForksKid, supervisorVars, SupervisorLives, Supervised, Parents
  <2> QED
    BY <2>1, <2>2, ForkKeepsRing DEF ForksKid
<1>4. CASE Forks
  <2>1. /\ state[Root] = "none" /\ state' = [state EXCEPT ![Root] = "alive"]
        /\ parent' = [parent EXCEPT ![Root] = Supervisor]
        /\ SupervisorLives' <=> SupervisorLives
    BY <1>4 DEF Forks, Goes, NobodyBeforeFork, BeforeFork, SupervisorLives, Supervised
  <2>2. Root \in Supervised /\ Supervisor \in Parents
    BY DEF Supervised, Parents
  <2> QED
    BY <2>1, <2>2, ForkKeepsRing
<1>5. CASE IsOrphaned
  BY <1>5, OrphansKeepRing
<1>6. CASE NeverForked
  <2>1. \A p \in Supervised : ~IsThere(p)'
    BY <1>6 DEF NeverForked, NobodyBeforeFork, BeforeFork, IsThere, treeVars
  <2> QED
    BY <2>1 DEF ParentsCanWait, NoRing, Supervised
<1> QED
  BY <1>1, <1>2, <1>3, <1>4, <1>5, <1>6 DEF TreeStep

LEMMA RootsParentKept ==
    ASSUME SupervisorTypeOK, RootsParent, TreeStep
    PROVE  RootsParent'
<1>1. Root \in Supervised /\ Root \notin Kids /\ Supervisor \notin Supervised /\ Outside \notin Supervised
  BY SupervisorAssumption DEF Supervised
<1>2. CASE SomeDies
  <2>1. PICK p \in Supervised : Die({p})
    BY <1>2 DEF SomeDies
  <2>2. parent' = [q \in Supervised |-> IF parent[q] \in {p}
                     THEN (IF SupervisorLives THEN Supervisor ELSE Outside) ELSE parent[q]]
    BY <2>1 DEF Die
  <2> QED
    BY <2>2, <1>1 DEF RootsParent
<1>3. CASE SomeForks
  BY <1>1, <1>3 DEF SomeForks, ForksKid, RootsParent, SupervisorTypeOK
<1>4. CASE Forks
  BY <1>1, <1>4 DEF Forks, RootsParent, SupervisorTypeOK
<1>5. CASE IsOrphaned
  BY <1>1, <1>5 DEF IsOrphaned, Orphans, RootsParent
<1>6. CASE Shrinks \/ NeverForked
  BY <1>1, <1>6 DEF Shrinks, NeverForked, treeVars, RootsParent
<1> QED
  BY <1>2, <1>3, <1>4, <1>5, <1>6 DEF TreeStep

(* When nobody is alive that the supervisor would have to wait for, nobody *)
(* is alive at all.                                                        *)
LEMMA NoChildNobody ==
    ASSUME SupervisorTypeOK, ParentsCanWait, NoRing, SupervisorLives, NoChild
    PROVE  \A p \in Supervised : Waited[p] \in {"none", "gone"}
<1>1. \A p \in Supervised : ~Alive(p)
  <2> DEFINE S == {p \in Supervised : Alive(p)}
  <2>1. SUFFICES ASSUME S # {} PROVE FALSE
    OBVIOUS
  <2>2. PICK p \in S : parent[p] \notin S
    BY <2>1 DEF NoRing, IsThere, Alive
  <2>3. parent[p] = Supervisor
    BY <2>2 DEF ParentsCanWait, IsThere, Alive
  <2> QED
    BY <2>2, <2>3 DEF NoChild, Children, Alive
<1>2. \A p \in Supervised : state[p] = "zombie" => parent[p] = Supervisor
  BY <1>1 DEF ParentsCanWait, IsThere
<1> QED
  BY <1>1, <1>2 DEF Waited, Children, Alive, SupervisorTypeOK


LEMMA BeforeForkKept ==
    ASSUME SupervisorTypeOK, NobodyBeforeFork, DirectNext
    PROVE  /\ rootStep' = "none" => rootStep = "none"
           /\ supStep' \in BeforeFork => supStep \in BeforeFork /\ rootStep' = "none"
<1>1. CASE RootAsks
  BY <1>1 DEF RootAsks, RootGoes, Alive, supervisorVars, treeVars, pipeVars,
     NobodyBeforeFork, BeforeFork
<1>2. CASE RootBinds
  BY <1>2 DEF RootBinds, RootGoes, Alive, supervisorVars, treeVars, pipeVars,
     NobodyBeforeFork, BeforeFork
<1>3. CASE RootTellsGroup
  BY <1>3 DEF RootTellsGroup, RootGoes, Alive, supervisorVars, treeVars,
     NobodyBeforeFork, BeforeFork
<1>4. CASE RootPasses
  BY <1>4 DEF RootPasses, RootGoes, Alive, supervisorVars, treeVars, pipeVars,
     NobodyBeforeFork, BeforeFork
<1>5. CASE RootArms
  BY <1>5 DEF RootArms, RootGoes, Alive, supervisorVars, treeVars,
     NobodyBeforeFork, BeforeFork
<1>6. CASE RootExecs
  BY <1>6 DEF RootExecs, RootGoes, Alive, supervisorVars, treeVars, pipeVars,
     NobodyBeforeFork, BeforeFork
<1>7. CASE RootFails
  BY <1>7 DEF RootFails, Die, SupervisorLives, Alive, supervisorVars, pipeVars,
     NobodyBeforeFork, BeforeFork
<1>8. CASE BindsController
  BY <1>8 DEF BindsController, Goes, SignalsUnchanged, RestUnchanged, pipeVars,
     treeVars, NobodyBeforeFork, BeforeFork
<1>9. CASE Hardens
  BY <1>9 DEF Hardens, Goes, SignalsUnchanged, RestUnchanged, pipeVars, treeVars,
     NobodyBeforeFork, BeforeFork
<1>10. CASE Latches
  BY <1>10 DEF Latches, Goes, SignalsUnchanged, RestUnchanged, pipeVars, treeVars,
     NobodyBeforeFork, BeforeFork
<1>11. CASE LateBeforeFork
  BY <1>11 DEF LateBeforeFork, Stops, SignalsUnchanged, RestUnchanged, pipeVars,
     treeVars, NobodyBeforeFork, BeforeFork
<1>12. CASE Forks
  BY <1>12 DEF Forks, Goes, SignalsUnchanged, pipeVars, NobodyBeforeFork,
     BeforeFork
<1>13. CASE BindsRoot
  BY <1>13 DEF BindsRoot, Goes, SignalsUnchanged, RestUnchanged, pipeVars,
     treeVars, NobodyBeforeFork, BeforeFork
<1>14. CASE \E s \in Waits : Interrupted(s)
  BY <1>14 DEF Interrupted, Stops, SignalsUnchanged, RestUnchanged, pipeVars,
     treeVars, NobodyBeforeFork, BeforeFork
<1>15. CASE \E s \in Waits : RootWaited(s)
  BY <1>15 DEF RootWaited, Stops, SignalsUnchanged, pipeVars, NobodyBeforeFork,
     BeforeFork
<1>16. CASE GroupReady
  BY <1>16 DEF GroupReady, Goes, SignalsUnchanged, treeVars, NobodyBeforeFork,
     BeforeFork
<1>17. CASE OpensGate
  BY <1>17 DEF OpensGate, Goes, SignalsUnchanged, Alive, treeVars,
     NobodyBeforeFork, BeforeFork
<1>18. CASE Armed
  BY <1>18 DEF Armed, Goes, SignalsUnchanged, RestUnchanged, pipeVars, treeVars,
     NobodyBeforeFork, BeforeFork
<1>19. CASE BeginsCleaning
  BY <1>19 DEF BeginsCleaning, RestUnchanged, pipeVars, treeVars,
     NobodyBeforeFork, BeforeFork
<1>20. CASE Reaps("TERM") \/ Reaps("KILL")
  BY <1>20 DEF Reaps, Waited, Children, Reaping, Signalling, Alive, pipeVars,
     NobodyBeforeFork, BeforeFork
<1>21. CASE \/ Signals("TERM", "reaps_TERM") \/ Signals("KILL", "reaps_KILL")
           \/ PhaseEnds
  BY <1>21 DEF Signals, Signalling, Children, Alive, pipeVars, PhaseEnds,
     NobodyBeforeFork, BeforeFork
<1>22. CASE ChecksPending
  BY <1>22 DEF ChecksPending, Waited, Children, NoChild, pipeVars,
     NobodyBeforeFork, BeforeFork
<1>23. CASE WritesFrame
  BY <1>23 DEF WritesFrame, RestUnchanged, pipeVars, treeVars, NobodyBeforeFork,
     BeforeFork
<1>24. CASE Unblocks
  BY <1>24 DEF Unblocks, RestUnchanged, pipeVars, treeVars, SupervisorEndsWith,
     Orphans, Alive, NobodyBeforeFork, BeforeFork
<1>25. CASE Exits
  BY <1>25 DEF Exits, SupervisorEndsWith, Orphans, Alive, pipeVars,
     NobodyBeforeFork, BeforeFork
<1>26. CASE CallFails
  BY <1>26 DEF CallFails, Stops, SignalsUnchanged, RestUnchanged, pipeVars,
     treeVars, Latched, Waits, NobodyBeforeFork, BeforeFork
<1>27. CASE DescendantsExceedLimit
  BY <1>27 DEF DescendantsExceedLimit, Stops, SignalsUnchanged, RestUnchanged,
     pipeVars, treeVars, NobodyBeforeFork, BeforeFork
<1>28. CASE \E p \in Supervised : Ends(p)
  BY <1>28 DEF Ends, Die, SupervisorLives, Alive, supervisorVars, pipeVars,
     NobodyBeforeFork, BeforeFork
<1>29. CASE \E p \in Supervised, k \in Kids : ForksKid(p, k)
  BY <1>29 DEF ForksKid, Alive, supervisorVars, pipeVars, NobodyBeforeFork,
     BeforeFork
<1>30. CASE \E k \in Kids : ReapsKid(k)
  BY <1>30 DEF ReapsKid, supervisorVars, pipeVars, NobodyBeforeFork, BeforeFork
<1>31. CASE SignalSent
  <2>1. /\ rootStep' = rootStep
        /\ supStep' = supStep \/ supStep' = "ended"
    BY <1>31 DEF SignalSent, SupervisorEndsWith, RestUnchanged
  <2> QED
    BY <2>1 DEF NobodyBeforeFork, BeforeFork
<1>32. CASE DirectKilled
  BY <1>32 DEF DirectKilled, Orphans, Alive, SupervisorLives, pipeVars,
     NobodyBeforeFork, BeforeFork
<1>33. CASE ControllerGone
  BY <1>33 DEF ControllerGone, Orphans, Alive, SupervisorLives, pipeVars,
     treeVars, NobodyBeforeFork, BeforeFork
<1>34. CASE TimeIsUp
  BY <1>34 DEF TimeIsUp, supervisorVars, pipeVars, treeVars, NobodyBeforeFork,
     BeforeFork
<1> QED
  BY <1>1, <1>2, <1>3, <1>4, <1>5, <1>6, <1>7, <1>8, <1>9, <1>10, <1>11, <1>12,
     <1>13, <1>14, <1>15, <1>16, <1>17, <1>18, <1>19, <1>20, <1>21, <1>22, <1>23,
     <1>24, <1>25, <1>26, <1>27, <1>28, <1>29, <1>30, <1>31, <1>32, <1>33, <1>34
     DEF DirectNext, RootNext, Supervises

(* Nobody comes back once nobody is left, or before the fork.              *)
LEMMA NobodyComesBack ==
    ASSUME SupervisorTypeOK, NobodyBeforeFork, TreeStep,
           NEW q \in Supervised, state'[q] # state[q],
           \A p \in Supervised : state[p] \in {"none", "gone"}
    PROVE  Forks
<1>1. \A p \in Supervised : ~Alive(p) /\ state[p] # "zombie"
  BY DEF Alive
<1>2. ~SomeDies /\ ~SomeForks
  <2>1. ~SomeDies
    BY <1>1 DEF SomeDies
  <2>2. ~SomeForks
    BY <1>1 DEF SomeForks, ForksKid
  <2> QED
    BY <2>1, <2>2
<1>3. ~Shrinks
  BY <1>1 DEF Shrinks
<1>4. ~IsOrphaned
  BY <1>1 DEF IsOrphaned, Orphans
<1>5. ~NeverForked
  BY DEF NeverForked, treeVars
<1> QED
  BY <1>2, <1>3, <1>4, <1>5 DEF TreeStep

LEMMA NobodyBeforeForkKept ==
    ASSUME SupervisorTypeOK, NobodyBeforeFork, DirectNext
    PROVE  NobodyBeforeFork'
<1>1. TreeStep
  BY StepsOfTheTree
<1>2. /\ rootStep' = "none" => rootStep = "none"
      /\ supStep' \in BeforeFork => rootStep' = "none"
  BY BeforeForkKept
<1>3. ASSUME rootStep' = "none", NEW p \in Supervised PROVE state'[p] = "none"
  <2>1. rootStep = "none" /\ ~Forks
    BY <1>2, <1>3 DEF Forks
  <2>2. \A q \in Supervised : state[q] = "none"
    BY <2>1 DEF NobodyBeforeFork
  <2> QED
    BY <2>1, <2>2, <1>1, NobodyComesBack
<1> QED
  BY <1>2, <1>3 DEF NobodyBeforeFork, BeforeFork, Supervised

LEMMA FlagsAreKept ==
    ASSUME EmptyIsNoted, DirectNext
    PROVE  /\ flags \subseteq flags' /\ \A f \in frame' : f.flags \subseteq flags'
           /\ "TREE_EMPTY" \in flags' => "TREE_EMPTY" \in flags \/ ChecksPending \/ LateBeforeFork
<1>1. CASE RootAsks
  BY <1>1 DEF RootAsks, RootGoes, Alive, supervisorVars, treeVars, pipeVars,
     EmptyIsNoted
<1>2. CASE RootBinds
  BY <1>2 DEF RootBinds, RootGoes, Alive, supervisorVars, treeVars, pipeVars,
     EmptyIsNoted
<1>3. CASE RootTellsGroup
  BY <1>3 DEF RootTellsGroup, RootGoes, Alive, supervisorVars, treeVars,
     EmptyIsNoted
<1>4. CASE RootPasses
  BY <1>4 DEF RootPasses, RootGoes, Alive, supervisorVars, treeVars, pipeVars,
     EmptyIsNoted
<1>5. CASE RootArms
  BY <1>5 DEF RootArms, RootGoes, Alive, supervisorVars, treeVars, EmptyIsNoted
<1>6. CASE RootExecs
  BY <1>6 DEF RootExecs, RootGoes, Alive, supervisorVars, treeVars, pipeVars,
     EmptyIsNoted
<1>7. CASE RootFails
  BY <1>7 DEF RootFails, Die, SupervisorLives, Alive, supervisorVars, pipeVars,
     EmptyIsNoted
<1>8. CASE BindsController
  BY <1>8 DEF BindsController, Goes, SignalsUnchanged, RestUnchanged, pipeVars,
     treeVars, EmptyIsNoted
<1>9. CASE Hardens
  BY <1>9 DEF Hardens, Goes, SignalsUnchanged, RestUnchanged, pipeVars, treeVars,
     EmptyIsNoted
<1>10. CASE Latches
  BY <1>10 DEF Latches, Goes, SignalsUnchanged, RestUnchanged, pipeVars, treeVars,
     EmptyIsNoted
<1>11. CASE LateBeforeFork
  <2>1. flags \subseteq flags' /\ frame' = frame
    BY <1>11 DEF LateBeforeFork, Stops, SignalsUnchanged
  <2> QED
    BY <1>11, <2>1 DEF EmptyIsNoted
<1>12. CASE Forks
  BY <1>12 DEF Forks, Goes, SignalsUnchanged, pipeVars, EmptyIsNoted
<1>13. CASE BindsRoot
  BY <1>13 DEF BindsRoot, Goes, SignalsUnchanged, RestUnchanged, pipeVars,
     treeVars, EmptyIsNoted
<1>14. CASE \E s \in Waits : Interrupted(s)
  BY <1>14 DEF Interrupted, Stops, SignalsUnchanged, RestUnchanged, pipeVars,
     treeVars, EmptyIsNoted
<1>15. CASE \E s \in Waits : RootWaited(s)
  BY <1>15 DEF RootWaited, Stops, SignalsUnchanged, pipeVars, EmptyIsNoted
<1>16. CASE GroupReady
  BY <1>16 DEF GroupReady, Goes, SignalsUnchanged, treeVars, EmptyIsNoted
<1>17. CASE OpensGate
  BY <1>17 DEF OpensGate, Goes, SignalsUnchanged, Alive, treeVars, EmptyIsNoted
<1>18. CASE Armed
  BY <1>18 DEF Armed, Goes, SignalsUnchanged, RestUnchanged, pipeVars, treeVars,
     EmptyIsNoted
<1>19. CASE BeginsCleaning
  BY <1>19 DEF BeginsCleaning, RestUnchanged, pipeVars, treeVars, EmptyIsNoted
<1>20. CASE Reaps("TERM") \/ Reaps("KILL")
  BY <1>20 DEF Reaps, Waited, Children, Reaping, Signalling, Alive, pipeVars,
     EmptyIsNoted
<1>21. CASE \/ Signals("TERM", "reaps_TERM") \/ Signals("KILL", "reaps_KILL")
           \/ PhaseEnds
  BY <1>21 DEF Signals, Signalling, Children, Alive, pipeVars, PhaseEnds,
     EmptyIsNoted
<1>22. CASE ChecksPending
  <2>1. flags \subseteq flags' /\ frame' = frame
    BY <1>22 DEF ChecksPending
  <2> QED
    BY <1>22, <2>1 DEF EmptyIsNoted
<1>23. CASE WritesFrame
  <2>1. flags' = flags /\ frame' \in {{}, {[outcome |-> outcome, flags |-> flags]}}
    BY <1>23 DEF WritesFrame
  <2>2. \A f \in frame' : f.flags = flags
    BY <2>1
  <2> QED
    BY <2>1, <2>2
<1>24. CASE Unblocks
  BY <1>24 DEF Unblocks, RestUnchanged, pipeVars, treeVars, SupervisorEndsWith,
     Orphans, Alive, EmptyIsNoted
<1>25. CASE Exits
  BY <1>25 DEF Exits, SupervisorEndsWith, Orphans, Alive, pipeVars, EmptyIsNoted
<1>26. CASE CallFails
  BY <1>26 DEF CallFails, Stops, SignalsUnchanged, RestUnchanged, pipeVars,
     treeVars, Latched, Waits, EmptyIsNoted
<1>27. CASE DescendantsExceedLimit
  BY <1>27 DEF DescendantsExceedLimit, Stops, SignalsUnchanged, RestUnchanged,
     pipeVars, treeVars, EmptyIsNoted
<1>28. CASE \E p \in Supervised : Ends(p)
  BY <1>28 DEF Ends, Die, SupervisorLives, Alive, supervisorVars, pipeVars,
     EmptyIsNoted
<1>29. CASE \E p \in Supervised, k \in Kids : ForksKid(p, k)
  BY <1>29 DEF ForksKid, Alive, supervisorVars, pipeVars, EmptyIsNoted
<1>30. CASE \E k \in Kids : ReapsKid(k)
  BY <1>30 DEF ReapsKid, supervisorVars, pipeVars, EmptyIsNoted
<1>31. CASE SignalSent
  BY <1>31 DEF SignalSent, RestUnchanged, pipeVars, treeVars, SupervisorEndsWith,
     Orphans, Alive, Latching, Latched, Waits, Blocked, SupervisorLives,
     EmptyIsNoted
<1>32. CASE DirectKilled
  BY <1>32 DEF DirectKilled, Orphans, Alive, SupervisorLives, pipeVars,
     EmptyIsNoted
<1>33. CASE ControllerGone
  BY <1>33 DEF ControllerGone, Orphans, Alive, SupervisorLives, pipeVars,
     treeVars, EmptyIsNoted
<1>34. CASE TimeIsUp
  BY <1>34 DEF TimeIsUp, supervisorVars, pipeVars, treeVars, EmptyIsNoted
<1> QED
  BY <1>1, <1>2, <1>3, <1>4, <1>5, <1>6, <1>7, <1>8, <1>9, <1>10, <1>11, <1>12,
     <1>13, <1>14, <1>15, <1>16, <1>17, <1>18, <1>19, <1>20, <1>21, <1>22, <1>23,
     <1>24, <1>25, <1>26, <1>27, <1>28, <1>29, <1>30, <1>31, <1>32, <1>33, <1>34
     DEF DirectNext, RootNext, Supervises

LEMMA EmptyIsNotedKept ==
    ASSUME SupervisorTypeOK, ParentsCanWait, NoRing, NobodyBeforeFork, EmptyIsNoted, DirectNext
    PROVE  EmptyIsNoted'
<1>1. TreeStep
  BY StepsOfTheTree
<1>2. /\ \A f \in frame' : f.flags \subseteq flags'
      /\ "TREE_EMPTY" \in flags' => "TREE_EMPTY" \in flags \/ ChecksPending \/ LateBeforeFork
  BY FlagsAreKept
<1>3. supStep' \in BeforeFork => supStep \in BeforeFork
  BY BeforeForkKept
<1>4. CASE "TREE_EMPTY" \in flags
  <2>1. NothingLeft /\ supStep \notin BeforeFork
    BY <1>4 DEF EmptyIsNoted
  <2>2. ~Forks
    BY <2>1 DEF Forks, Goes, BeforeFork
  <2>3. NothingLeft'
    BY <2>1, <2>2, <1>1, NobodyComesBack DEF NothingLeft, Supervised
  <2> QED
    BY <2>1, <2>3, <1>2, <1>3 DEF EmptyIsNoted
<1>5. CASE LateBeforeFork
  <2>1. supStep = "latching" /\ supStep' = "cleans" /\ UNCHANGED treeVars
    BY <1>5 DEF LateBeforeFork, Stops, RestUnchanged
  <2>2. NothingLeft'
    BY <2>1 DEF NothingLeft, NobodyBeforeFork, BeforeFork, treeVars, Supervised
  <2> QED
    BY <2>1, <2>2, <1>2 DEF EmptyIsNoted, BeforeFork
<1>6. CASE ChecksPending /\ "TREE_EMPTY" \notin flags /\ "TREE_EMPTY" \in flags'
  <2>1. NoChild /\ state' = Waited /\ SupervisorLives /\ supStep' = "writes"
    BY <1>6 DEF ChecksPending, SupervisorLives
  <2>2. NothingLeft'
    BY <2>1, NoChildNobody DEF NothingLeft, Supervised
  <2> QED
    BY <2>1, <2>2, <1>2 DEF EmptyIsNoted, BeforeFork
<1>7. CASE "TREE_EMPTY" \notin flags'
  BY <1>2, <1>7 DEF EmptyIsNoted
<1> QED
  BY <1>2, <1>4, <1>5, <1>6, <1>7

LEMMA SignalIsNotedKept ==
    ASSUME SupervisorTypeOK, SignalIsNoted, SignalKept, DirectNext
    PROVE  SignalIsNoted' /\ SignalKept'
<1>1. CASE RootAsks
  BY <1>1 DEF RootAsks, RootGoes, Alive, supervisorVars, treeVars, pipeVars,
     SignalIsNoted, SignalKept, HasFrame, SupervisorTypeOK
<1>2. CASE RootBinds
  BY <1>2 DEF RootBinds, RootGoes, Alive, supervisorVars, treeVars, pipeVars,
     SignalIsNoted, SignalKept, HasFrame, SupervisorTypeOK
<1>3. CASE RootTellsGroup
  BY <1>3 DEF RootTellsGroup, RootGoes, Alive, supervisorVars, treeVars,
     SignalIsNoted, SignalKept, HasFrame, SupervisorTypeOK
<1>4. CASE RootPasses
  BY <1>4 DEF RootPasses, RootGoes, Alive, supervisorVars, treeVars, pipeVars,
     SignalIsNoted, SignalKept, HasFrame, SupervisorTypeOK
<1>5. CASE RootArms
  BY <1>5 DEF RootArms, RootGoes, Alive, supervisorVars, treeVars, SignalIsNoted,
     SignalKept, HasFrame, SupervisorTypeOK
<1>6. CASE RootExecs
  BY <1>6 DEF RootExecs, RootGoes, Alive, supervisorVars, treeVars, pipeVars,
     SignalIsNoted, SignalKept, HasFrame, SupervisorTypeOK
<1>7. CASE RootFails
  BY <1>7 DEF RootFails, Die, SupervisorLives, Alive, supervisorVars, pipeVars,
     SignalIsNoted, SignalKept, HasFrame, SupervisorTypeOK
<1>8. CASE BindsController
  BY <1>8 DEF BindsController, Goes, SignalsUnchanged, RestUnchanged, pipeVars,
     treeVars, SignalIsNoted, SignalKept, HasFrame, SupervisorTypeOK
<1>9. CASE Hardens
  BY <1>9 DEF Hardens, Goes, SignalsUnchanged, RestUnchanged, pipeVars, treeVars,
     SignalIsNoted, SignalKept, HasFrame, SupervisorTypeOK
<1>10. CASE Latches
  BY <1>10 DEF Latches, Goes, SignalsUnchanged, RestUnchanged, pipeVars, treeVars,
     SignalIsNoted, SignalKept, HasFrame, SupervisorTypeOK
<1>11. CASE LateBeforeFork
  BY <1>11 DEF LateBeforeFork, Stops, SignalsUnchanged, RestUnchanged, pipeVars,
     treeVars, SignalIsNoted, SignalKept, HasFrame, SupervisorTypeOK
<1>12. CASE Forks
  BY <1>12 DEF Forks, Goes, SignalsUnchanged, pipeVars, SignalIsNoted, SignalKept,
     HasFrame, SupervisorTypeOK
<1>13. CASE BindsRoot
  BY <1>13 DEF BindsRoot, Goes, SignalsUnchanged, RestUnchanged, pipeVars,
     treeVars, SignalIsNoted, SignalKept, HasFrame, SupervisorTypeOK
<1>14. CASE \E s \in Waits : Interrupted(s)
  <2>1. supStep \in Waits /\ supStep' = "cleans" /\ UNCHANGED <<received, pending, told, frame>>
    BY <1>14 DEF Interrupted, Stops, SignalsUnchanged
  <2> QED
    BY <2>1 DEF SignalIsNoted, SignalKept, HasFrame, Waits
<1>15. CASE \E s \in Waits : RootWaited(s)
  <2>1. supStep \in Waits /\ supStep' = "cleans" /\ UNCHANGED <<received, pending, told, frame>>
    BY <1>15 DEF RootWaited, Stops, SignalsUnchanged
  <2> QED
    BY <2>1 DEF SignalIsNoted, SignalKept, HasFrame, Waits
<1>16. CASE GroupReady
  BY <1>16 DEF GroupReady, Goes, SignalsUnchanged, treeVars, SignalIsNoted,
     SignalKept, HasFrame, SupervisorTypeOK
<1>17. CASE OpensGate
  BY <1>17 DEF OpensGate, Goes, SignalsUnchanged, Alive, treeVars, SignalIsNoted,
     SignalKept, HasFrame, SupervisorTypeOK
<1>18. CASE Armed
  BY <1>18 DEF Armed, Goes, SignalsUnchanged, RestUnchanged, pipeVars, treeVars,
     SignalIsNoted, SignalKept, HasFrame, SupervisorTypeOK
<1>19. CASE BeginsCleaning
  BY <1>19 DEF BeginsCleaning, RestUnchanged, pipeVars, treeVars, SignalIsNoted,
     SignalKept, HasFrame, SupervisorTypeOK
<1>20. CASE Reaps("TERM") \/ Reaps("KILL")
  BY <1>20 DEF Reaps, Waited, Children, Reaping, Signalling, Alive, pipeVars,
     SignalIsNoted, SignalKept, HasFrame, SupervisorTypeOK
<1>21. CASE \/ Signals("TERM", "reaps_TERM") \/ Signals("KILL", "reaps_KILL")
           \/ PhaseEnds
  <2>1. /\ supStep \in {"signals_TERM", "signals_KILL"}
        /\ supStep' \in {"reaps_TERM", "reaps_KILL", "drained"}
        /\ UNCHANGED <<received, pending, told, frame>>
    BY <1>21 DEF Signals, PhaseEnds, Signalling
  <2> QED
    BY <2>1 DEF SignalIsNoted, SignalKept, HasFrame, Waits
<1>22. CASE ChecksPending
  BY <1>22 DEF ChecksPending, Waited, Children, NoChild, pipeVars, SignalIsNoted,
     SignalKept, HasFrame, SupervisorTypeOK
<1>23. CASE WritesFrame
  BY <1>23 DEF WritesFrame, RestUnchanged, pipeVars, treeVars, SignalIsNoted,
     SignalKept, HasFrame, SupervisorTypeOK
<1>24. CASE Unblocks
  BY <1>24 DEF Unblocks, RestUnchanged, pipeVars, treeVars, SupervisorEndsWith,
     Orphans, Alive, SignalIsNoted, SignalKept, HasFrame, SupervisorTypeOK
<1>25. CASE Exits
  BY <1>25 DEF Exits, SupervisorEndsWith, Orphans, Alive, pipeVars, SignalIsNoted,
     SignalKept, HasFrame, SupervisorTypeOK
<1>26. CASE CallFails
  BY <1>26 DEF CallFails, Stops, SignalsUnchanged, RestUnchanged, pipeVars,
     treeVars, Latched, Waits, SignalIsNoted, SignalKept, HasFrame,
     SupervisorTypeOK
<1>27. CASE DescendantsExceedLimit
  BY <1>27 DEF DescendantsExceedLimit, Stops, SignalsUnchanged, RestUnchanged,
     pipeVars, treeVars, SignalIsNoted, SignalKept, HasFrame, SupervisorTypeOK
<1>28. CASE \E p \in Supervised : Ends(p)
  BY <1>28 DEF Ends, Die, SupervisorLives, Alive, supervisorVars, pipeVars,
     SignalIsNoted, SignalKept, HasFrame, SupervisorTypeOK
<1>29. CASE \E p \in Supervised, k \in Kids : ForksKid(p, k)
  BY <1>29 DEF ForksKid, Alive, supervisorVars, pipeVars, SignalIsNoted,
     SignalKept, HasFrame, SupervisorTypeOK
<1>30. CASE \E k \in Kids : ReapsKid(k)
  BY <1>30 DEF ReapsKid, supervisorVars, pipeVars, SignalIsNoted, SignalKept,
     HasFrame, SupervisorTypeOK
<1>31. CASE SignalSent
  BY <1>31 DEF SignalSent, RestUnchanged, pipeVars, treeVars, SupervisorEndsWith,
     Orphans, Alive, Latching, Latched, Waits, Blocked, SupervisorLives,
     SignalIsNoted, SignalKept, HasFrame, SupervisorTypeOK
<1>32. CASE DirectKilled
  BY <1>32 DEF DirectKilled, Orphans, Alive, SupervisorLives, pipeVars,
     SignalIsNoted, SignalKept, HasFrame, SupervisorTypeOK
<1>33. CASE ControllerGone
  BY <1>33 DEF ControllerGone, Orphans, Alive, SupervisorLives, pipeVars,
     treeVars, SignalIsNoted, SignalKept, HasFrame, SupervisorTypeOK
<1>34. CASE TimeIsUp
  BY <1>34 DEF TimeIsUp, supervisorVars, pipeVars, treeVars, SignalIsNoted,
     SignalKept, HasFrame, SupervisorTypeOK
<1> QED
  BY <1>1, <1>2, <1>3, <1>4, <1>5, <1>6, <1>7, <1>8, <1>9, <1>10, <1>11, <1>12,
     <1>13, <1>14, <1>15, <1>16, <1>17, <1>18, <1>19, <1>20, <1>21, <1>22, <1>23,
     <1>24, <1>25, <1>26, <1>27, <1>28, <1>29, <1>30, <1>31, <1>32, <1>33, <1>34
     DEF DirectNext, RootNext, Supervises

LEMMA DirectStarts ==
    ASSUME DirectInit PROVE DirectInv
<1>1. Root \in Supervised
  BY DEF Supervised
<1>2. SupervisorTypeOK
  BY DEF DirectInit, SupervisorTypeOK, Supervised, Parents, Flags, Outcomes
<1>3. RootsParent /\ NobodyBeforeFork
  BY <1>1 DEF DirectInit, RootsParent, NobodyBeforeFork
<1>4. ParentsCanWait /\ NoRing
  <2>1. \A p \in Supervised : ~IsThere(p)
    BY DEF DirectInit, IsThere
  <2> QED
    BY <2>1 DEF ParentsCanWait, NoRing
<1>5. EmptyIsNoted /\ SignalIsNoted /\ SignalKept
  BY DEF DirectInit, EmptyIsNoted, SignalIsNoted, SignalKept
<1> QED
  BY <1>2, <1>3, <1>4, <1>5 DEF DirectInv

LEMMA DirectStutters ==
    ASSUME DirectInv, UNCHANGED directVars PROVE DirectInv'
<1> USE DEF directVars, supervisorVars, pipeVars, treeVars
<1>1. SupervisorTypeOK' /\ RootsParent'
  BY DEF DirectInv, SupervisorTypeOK, RootsParent
<1>2. ParentsCanWait' /\ NoRing'
  BY DEF DirectInv, ParentsCanWait, NoRing, IsThere, Alive, SupervisorLives
<1>3. NobodyBeforeFork' /\ EmptyIsNoted'
  BY DEF DirectInv, NobodyBeforeFork, EmptyIsNoted, NothingLeft
<1>4. SignalIsNoted' /\ SignalKept'
  BY DEF DirectInv, SignalIsNoted, SignalKept
<1> QED
  BY <1>1, <1>2, <1>3, <1>4 DEF DirectInv

LEMMA DirectInvKept ==
    ASSUME DirectInv, DirectNext PROVE DirectInv'
<1>1. TreeStep
  BY StepsOfTheTree DEF DirectInv
<1>2. SupervisorTypeOK' /\ RootsParent'
  BY <1>1, DirectTypeKept, RootsParentKept DEF DirectInv
<1>3. ParentsCanWait' /\ NoRing'
  BY <1>1, RingKept DEF DirectInv
<1>4. NobodyBeforeFork' /\ EmptyIsNoted'
  BY NobodyBeforeForkKept, EmptyIsNotedKept DEF DirectInv
<1>5. SignalIsNoted' /\ SignalKept'
  BY SignalIsNotedKept DEF DirectInv
<1> QED
  BY <1>2, <1>3, <1>4, <1>5 DEF DirectInv

(* The invariant of the supervisor, for any set of descendants.            *)
THEOREM DirectInvariant == DirectSpec => []DirectInv
  BY DirectStarts, DirectInvKept, DirectStutters, PTL DEF DirectSpec

(* process_priority.py:5589 - the variables of the supervisor have their   *)
(* types, for any set of descendants.                                      *)
THEOREM DirectTypeCorrect == DirectSpec => []SupervisorTypeOK
<1>1. DirectInv => SupervisorTypeOK
  BY DEF DirectInv
<1> QED
  BY <1>1, DirectInvariant, PTL

(* process_priority.py:1404 - a frame that says that the tree is empty is  *)
(* true, however many processes the model has started: whoever is left has *)
(* a parent that can still wait for it, up to the supervisor, so that a    *)
(* supervisor without a child has no descendant.                           *)
THEOREM EmptyMeansEmpty == DirectSpec => []EmptyIsEmpty
<1>1. DirectInv => EmptyIsEmpty
  <2> SUFFICES ASSUME DirectInv, NEW f \in frame, "TREE_EMPTY" \in f.flags PROVE NothingLeft
    BY DEF EmptyIsEmpty, NothingLeft
  <2> QED
    BY DEF DirectInv, EmptyIsNoted
<1> QED
  BY <1>1, DirectInvariant, PTL

(* process_priority.py:5841 - once the handlers are installed no signal is *)
(* lost: the supervisor ends by it, unless its clean-up or its frame fails.*)
THEOREM SignalsAreKept == DirectSpec => []SignalKept
<1>1. DirectInv => SignalKept
  BY DEF DirectInv
<1> QED
  BY <1>1, DirectInvariant, PTL

-----------------------------------------------------------------------------
(* ReadyAckGate.  process_priority.py:833 - a caller that may take the     *)
(* model for not released is right, wherever either side fails or is       *)
(* killed: the flag is raised before the answer is sent.                   *)
THEOREM GateRunsOnlyReleased == GateSpec => []RunsOnlyReleased
<1>1. GateInit => RunsOnlyReleased
  BY DEF GateInit, RunsOnlyReleased
<1>2. ASSUME RunsOnlyReleased, GateNext PROVE RunsOnlyReleased'
  <2>1. CASE ControllerNext
    BY <1>2, <2>1 DEF ControllerNext, Prepares, Spawns, BindsSpawn, ReceivesReady, BeginsRetirement, Retires, GateFails,
       Releases, SendBlocks, Closes, Invalidates, Unlinks, RemovesDomain, RunsOnlyReleased, controllerVars,
       directoryVars, ownerVars
  <2>2. CASE WrapperNext
    BY <1>2, <2>2, GateAssumption DEF WrapperNext, WrapperFails, Opens, Binds, SendsReady, ReceivesAck, Succeeds, Runs, Unlinks,
       RemovesDomain, GateAssumption, RunsOnlyReleased, controllerVars, directoryVars, ownerVars
  <2>3. CASE ControllerKilled
    BY <1>2, <2>3 DEF ControllerKilled, RunsOnlyReleased, directoryVars
  <2>4. CASE WrapperKilled
    BY <1>2, <2>4 DEF WrapperKilled, RunsOnlyReleased, controllerVars, directoryVars
  <2>5. CASE DeadlinePasses
    BY <1>2, <2>5 DEF DeadlinePasses, RunsOnlyReleased, controllerVars, directoryVars, ownerVars
  <2> QED
    BY <1>2, <2>1, <2>2, <2>3, <2>4, <2>5 DEF GateNext
<1>3. RunsOnlyReleased /\ UNCHANGED gateVars => RunsOnlyReleased'
  BY DEF RunsOnlyReleased, gateVars, controllerVars, directoryVars, ownerVars
<1> QED
  BY <1>1, <1>2, <1>3, PTL DEF GateSpec

-----------------------------------------------------------------------------
(* ScopedCommand.  The latch was sent before the command was looked at,    *)
(* and what was sent is in the queue or was received.                      *)
LatchSent == socket \/ latch # "none"

RunsAfterLatch ==
    /\ child \in {"latched", "checked", "opened", "runs"} => LatchSent
    /\ "scope" \in runs => LatchSent
    /\ scopedSupervisor \in {"starts", "failed"} => child = "none" /\ runs = {}
    /\ scopedSupervisor = "closes" => child \in Scoped!Gone /\ ~socket
    /\ "here" \in runs => scopedSupervisor = "here"
    /\ scopedSupervisor = "here" => "scope" \notin runs /\ child \in Scoped!Gone \cup {"none"}

\* What is held was compared with what the launch specification names.
HeldIsChecked == child \in {"opened", "runs"} => held = expected

ScopedInv == Scoped!ScopedTypeOK /\ RunsAfterLatch /\ HeldIsChecked

LEMMA ScopedTypeKept ==
    ASSUME Scoped!ScopedAssumption, ScopedInv, Scoped!ScopedNext
    PROVE  Scoped!ScopedTypeOK'
<1>1. CASE Scoped!Specifies
  BY <1>1 DEF Scoped!Specifies, Scoped!forwarderVars, ScopedInv,
     Scoped!ScopedTypeOK, Scoped!Gone, Scoped!Finished, Scoped!Installed,
     Scoped!ScopedAssumption
<1>2. CASE Scoped!Upgraded
  BY <1>2 DEF Scoped!Upgraded, Scoped!forwarderVars, ScopedInv,
     Scoped!ScopedTypeOK, Scoped!Gone, Scoped!Finished, Scoped!Installed,
     Scoped!ScopedAssumption
<1>3. CASE Scoped!Enters
  BY <1>3 DEF Scoped!Enters, Scoped!forwarderVars, Scoped!fileVars, ScopedInv,
     Scoped!ScopedTypeOK, Scoped!Gone, Scoped!Finished, Scoped!Installed,
     Scoped!ScopedAssumption
<1>4. CASE Scoped!SendsLatch
  BY <1>4 DEF Scoped!SendsLatch, Scoped!Finished, Scoped!forwarderVars,
     Scoped!fileVars, ScopedInv, Scoped!ScopedTypeOK, Scoped!Gone,
     Scoped!Installed, Scoped!ScopedAssumption
<1>5. CASE Scoped!ChecksArguments
  BY <1>5 DEF Scoped!ChecksArguments, Scoped!forwarderVars, Scoped!fileVars,
     ScopedInv, Scoped!ScopedTypeOK, Scoped!Gone, Scoped!Finished,
     Scoped!Installed, Scoped!ScopedAssumption
<1>6. CASE Scoped!OpensExecutable
  BY <1>6 DEF Scoped!OpensExecutable, Scoped!forwarderVars, ScopedInv,
     Scoped!ScopedTypeOK, Scoped!Gone, Scoped!Finished, Scoped!Installed,
     Scoped!ScopedAssumption
<1>7. CASE Scoped!Execs
  BY <1>7 DEF Scoped!Execs, Scoped!forwarderVars, Scoped!fileVars, ScopedInv,
     Scoped!ScopedTypeOK, Scoped!Gone, Scoped!Finished, Scoped!Installed,
     Scoped!ScopedAssumption
<1>8. CASE Scoped!ChildEnds
  BY <1>8 DEF Scoped!ChildEnds, Scoped!Lives, Scoped!Gone, Scoped!forwarderVars,
     Scoped!fileVars, ScopedInv, Scoped!ScopedTypeOK, Scoped!Finished,
     Scoped!Installed, Scoped!ScopedAssumption
<1>9. CASE Scoped!Dies
  BY <1>9 DEF Scoped!Dies, Scoped!Lives, Scoped!Gone, Scoped!forwarderVars,
     Scoped!fileVars, ScopedInv, Scoped!ScopedTypeOK, Scoped!Finished,
     Scoped!Installed, Scoped!ScopedAssumption
<1>10. CASE Scoped!Heard
  <2>1. /\ scopedSupervisor \in Scoped!Installed /\ signals < MaxSignals /\ signals' = signals + 1
        /\ sent' \in {sent, "term"}
        /\ primary' = (primary \/ ~scopedCleaning)
        /\ UNCHANGED <<scopedSupervisor, status, latch, socket, child, runs, file, expected, held, scopedBound,
                        scopedCleaning>>
    BY <1>10 DEF Scoped!Heard, Scoped!Sends, Scoped!fileVars
  <2>2. signals' \in 0..MaxSignals
    BY <2>1 DEF ScopedInv, Scoped!ScopedTypeOK, Scoped!ScopedAssumption
  <2>3. primary' \in BOOLEAN
    BY <2>1
  <2>4. forwarded' \in {forwarded, Scoped!Lives} /\ scopedPending' \in {scopedPending, TRUE}
    BY <1>10 DEF Scoped!Heard
  <2>5. forwarded' \in BOOLEAN /\ scopedPending' \in BOOLEAN
    BY <2>4 DEF ScopedInv, Scoped!ScopedTypeOK, Scoped!Lives
  <2>6. {status, socket, scopedBound, primary, forwarded, scopedPending, scopedCleaning}' \subseteq BOOLEAN
    BY <2>1, <2>3, <2>5 DEF ScopedInv, Scoped!ScopedTypeOK
  <2> QED
    BY <2>1, <2>2, <2>6 DEF ScopedInv, Scoped!ScopedTypeOK
<1>11. CASE Scoped!Killed
  BY <1>11 DEF Scoped!Killed, Scoped!Finished, Scoped!childVars,
     Scoped!forwarderVars, ScopedInv, Scoped!ScopedTypeOK, Scoped!Gone,
     Scoped!Installed, Scoped!ScopedAssumption
<1>12. CASE Scoped!Launches
  BY <1>12 DEF Scoped!Launches, Scoped!forwarderVars, Scoped!fileVars, ScopedInv,
     Scoped!ScopedTypeOK, Scoped!Gone, Scoped!Finished, Scoped!Installed,
     Scoped!ScopedAssumption
<1>13. CASE Scoped!LaunchFails
  BY <1>13 DEF Scoped!LaunchFails, Scoped!childVars, ScopedInv,
     Scoped!ScopedTypeOK, Scoped!Gone, Scoped!Finished, Scoped!Installed,
     Scoped!ScopedAssumption
<1>14. CASE Scoped!Binds
  BY <1>14 DEF Scoped!Binds, Scoped!Lives, Scoped!Gone, Scoped!Sends,
     Scoped!fileVars, ScopedInv, Scoped!ScopedTypeOK, Scoped!Finished,
     Scoped!Installed, Scoped!ScopedAssumption
<1>15. CASE Scoped!SeesSignal
  BY <1>15 DEF Scoped!SeesSignal, Scoped!Terminates, Scoped!childVars,
     Scoped!forwarderVars, ScopedInv, Scoped!ScopedTypeOK, Scoped!Gone,
     Scoped!Finished, Scoped!Installed, Scoped!ScopedAssumption
<1>16. CASE Scoped!Receives
  BY <1>16 DEF Scoped!Receives, Scoped!forwarderVars, Scoped!fileVars, ScopedInv,
     Scoped!ScopedTypeOK, Scoped!Gone, Scoped!Finished, Scoped!Installed,
     Scoped!ScopedAssumption
<1>17. CASE Scoped!ReceivesNothing
  BY <1>17 DEF Scoped!ReceivesNothing, Scoped!childVars, Scoped!forwarderVars,
     ScopedInv, Scoped!ScopedTypeOK, Scoped!Gone, Scoped!Finished,
     Scoped!Installed, Scoped!ScopedAssumption
<1>18. CASE Scoped!Polls
  BY <1>18 DEF Scoped!Polls, Scoped!SeesEnd, Scoped!Gone, Scoped!forwarderVars,
     Scoped!fileVars, Scoped!SeesNone, Scoped!childVars, ScopedInv,
     Scoped!ScopedTypeOK, Scoped!Finished, Scoped!Installed,
     Scoped!ScopedAssumption
<1>19. CASE Scoped!Distrusts
  BY <1>19 DEF Scoped!Distrusts, Scoped!Terminates, Scoped!childVars, ScopedInv,
     Scoped!ScopedTypeOK, Scoped!Gone, Scoped!Finished, Scoped!Installed,
     Scoped!ScopedAssumption
<1>20. CASE Scoped!Selects
  BY <1>20 DEF Scoped!Selects, Scoped!childVars, Scoped!forwarderVars, ScopedInv,
     Scoped!ScopedTypeOK, Scoped!Gone, Scoped!Finished, Scoped!Installed,
     Scoped!ScopedAssumption
<1>21. CASE Scoped!TimesOut
  BY <1>21 DEF Scoped!TimesOut, Scoped!Terminates, Scoped!childVars, ScopedInv,
     Scoped!ScopedTypeOK, Scoped!Gone, Scoped!Finished, Scoped!Installed,
     Scoped!ScopedAssumption
<1>22. CASE Scoped!StopsWaiting
  BY <1>22 DEF Scoped!StopsWaiting, Scoped!Gone, Scoped!childVars,
     Scoped!forwarderVars, ScopedInv, Scoped!ScopedTypeOK, Scoped!Finished,
     Scoped!Installed, Scoped!ScopedAssumption
<1>23. CASE Scoped!SendsTerm
  BY <1>23 DEF Scoped!SendsTerm, Scoped!Sends, Scoped!Lives, Scoped!Gone,
     Scoped!forwarderVars, Scoped!fileVars, ScopedInv, Scoped!ScopedTypeOK,
     Scoped!Finished, Scoped!Installed, Scoped!ScopedAssumption
<1>24. CASE Scoped!WaitIsOver
  BY <1>24 DEF Scoped!WaitIsOver, Scoped!childVars, Scoped!forwarderVars,
     ScopedInv, Scoped!ScopedTypeOK, Scoped!Gone, Scoped!Finished,
     Scoped!Installed, Scoped!ScopedAssumption
<1>25. CASE Scoped!SendsKill
  BY <1>25 DEF Scoped!SendsKill, Scoped!Sends, Scoped!Lives, Scoped!Gone,
     Scoped!forwarderVars, Scoped!fileVars, ScopedInv, Scoped!ScopedTypeOK,
     Scoped!Finished, Scoped!Installed, Scoped!ScopedAssumption
<1>26. CASE Scoped!Interrupts
  BY <1>26 DEF Scoped!Interrupts, Scoped!childVars, Scoped!forwarderVars,
     ScopedInv, Scoped!ScopedTypeOK, Scoped!Gone, Scoped!Finished,
     Scoped!Installed, Scoped!ScopedAssumption
<1>27. CASE Scoped!FallsBack
  BY <1>27 DEF Scoped!FallsBack, Scoped!MayFallBack, Scoped!NotEntered,
     Scoped!forwarderVars, Scoped!fileVars, ScopedInv, Scoped!ScopedTypeOK,
     Scoped!Gone, Scoped!Finished, Scoped!Installed, Scoped!ScopedAssumption
<1>28. CASE Scoped!RefusesFallback
  BY <1>28 DEF Scoped!RefusesFallback, Scoped!MayFallBack, Scoped!NotEntered,
     Scoped!childVars, Scoped!forwarderVars, ScopedInv, Scoped!ScopedTypeOK,
     Scoped!Gone, Scoped!Finished, Scoped!Installed, Scoped!ScopedAssumption
<1>29. CASE Scoped!Propagates
  BY <1>29 DEF Scoped!Propagates, Scoped!NotEntered, Scoped!childVars,
     Scoped!forwarderVars, ScopedInv, Scoped!ScopedTypeOK, Scoped!Gone,
     Scoped!Finished, Scoped!Installed, Scoped!ScopedAssumption
<1> QED
  BY <1>1, <1>2, <1>3, <1>4, <1>5, <1>6, <1>7, <1>8, <1>9, <1>10, <1>11, <1>12,
     <1>13, <1>14, <1>15, <1>16, <1>17, <1>18, <1>19, <1>20, <1>21, <1>22, <1>23,
     <1>24, <1>25, <1>26, <1>27, <1>28, <1>29 DEF Scoped!ScopedNext

LEMMA RunsStayAfterLatch ==
    ASSUME ScopedInv, Scoped!ScopedNext
    PROVE  RunsAfterLatch'
<1>1. CASE Scoped!Specifies
  BY <1>1 DEF Scoped!Specifies, Scoped!forwarderVars, ScopedInv,
     Scoped!ScopedTypeOK, Scoped!Gone, Scoped!Finished, Scoped!Installed,
     RunsAfterLatch, LatchSent
<1>2. CASE Scoped!Upgraded
  BY <1>2 DEF Scoped!Upgraded, Scoped!forwarderVars, ScopedInv,
     Scoped!ScopedTypeOK, Scoped!Gone, Scoped!Finished, Scoped!Installed,
     RunsAfterLatch, LatchSent
<1>3. CASE Scoped!Enters
  BY <1>3 DEF Scoped!Enters, Scoped!forwarderVars, Scoped!fileVars, ScopedInv,
     Scoped!ScopedTypeOK, Scoped!Gone, Scoped!Finished, Scoped!Installed,
     RunsAfterLatch, LatchSent
<1>4. CASE Scoped!SendsLatch
  BY <1>4 DEF Scoped!SendsLatch, Scoped!Finished, Scoped!forwarderVars,
     Scoped!fileVars, ScopedInv, Scoped!ScopedTypeOK, Scoped!Gone,
     Scoped!Installed, RunsAfterLatch, LatchSent
<1>5. CASE Scoped!ChecksArguments
  BY <1>5 DEF Scoped!ChecksArguments, Scoped!forwarderVars, Scoped!fileVars,
     ScopedInv, Scoped!ScopedTypeOK, Scoped!Gone, Scoped!Finished,
     Scoped!Installed, RunsAfterLatch, LatchSent
<1>6. CASE Scoped!OpensExecutable
  BY <1>6 DEF Scoped!OpensExecutable, Scoped!forwarderVars, ScopedInv,
     Scoped!ScopedTypeOK, Scoped!Gone, Scoped!Finished, Scoped!Installed,
     RunsAfterLatch, LatchSent
<1>7. CASE Scoped!Execs
  BY <1>7 DEF Scoped!Execs, Scoped!forwarderVars, Scoped!fileVars, ScopedInv,
     Scoped!ScopedTypeOK, Scoped!Gone, Scoped!Finished, Scoped!Installed,
     RunsAfterLatch, LatchSent
<1>8. CASE Scoped!ChildEnds
  BY <1>8 DEF Scoped!ChildEnds, Scoped!Lives, Scoped!Gone, Scoped!forwarderVars,
     Scoped!fileVars, ScopedInv, Scoped!ScopedTypeOK, Scoped!Finished,
     Scoped!Installed, RunsAfterLatch, LatchSent
<1>9. CASE Scoped!Dies
  BY <1>9 DEF Scoped!Dies, Scoped!Lives, Scoped!Gone, Scoped!forwarderVars,
     Scoped!fileVars, ScopedInv, Scoped!ScopedTypeOK, Scoped!Finished,
     Scoped!Installed, RunsAfterLatch, LatchSent
<1>10. CASE Scoped!Heard
  BY <1>10 DEF Scoped!Heard, Scoped!Lives, Scoped!Gone, Scoped!Sends,
     Scoped!Installed, Scoped!fileVars, ScopedInv, Scoped!ScopedTypeOK,
     Scoped!Finished, RunsAfterLatch, LatchSent
<1>11. CASE Scoped!Killed
  BY <1>11 DEF Scoped!Killed, Scoped!Finished, Scoped!childVars,
     Scoped!forwarderVars, ScopedInv, Scoped!ScopedTypeOK, Scoped!Gone,
     Scoped!Installed, RunsAfterLatch, LatchSent
<1>12. CASE Scoped!Launches
  BY <1>12 DEF Scoped!Launches, Scoped!forwarderVars, Scoped!fileVars, ScopedInv,
     Scoped!ScopedTypeOK, Scoped!Gone, Scoped!Finished, Scoped!Installed,
     RunsAfterLatch, LatchSent
<1>13. CASE Scoped!LaunchFails
  BY <1>13 DEF Scoped!LaunchFails, Scoped!childVars, ScopedInv,
     Scoped!ScopedTypeOK, Scoped!Gone, Scoped!Finished, Scoped!Installed,
     RunsAfterLatch, LatchSent
<1>14. CASE Scoped!Binds
  BY <1>14 DEF Scoped!Binds, Scoped!Lives, Scoped!Gone, Scoped!Sends,
     Scoped!fileVars, ScopedInv, Scoped!ScopedTypeOK, Scoped!Finished,
     Scoped!Installed, RunsAfterLatch, LatchSent
<1>15. CASE Scoped!SeesSignal
  BY <1>15 DEF Scoped!SeesSignal, Scoped!Terminates, Scoped!childVars,
     Scoped!forwarderVars, ScopedInv, Scoped!ScopedTypeOK, Scoped!Gone,
     Scoped!Finished, Scoped!Installed, RunsAfterLatch, LatchSent
<1>16. CASE Scoped!Receives
  BY <1>16 DEF Scoped!Receives, Scoped!forwarderVars, Scoped!fileVars, ScopedInv,
     Scoped!ScopedTypeOK, Scoped!Gone, Scoped!Finished, Scoped!Installed,
     RunsAfterLatch, LatchSent
<1>17. CASE Scoped!ReceivesNothing
  BY <1>17 DEF Scoped!ReceivesNothing, Scoped!childVars, Scoped!forwarderVars,
     ScopedInv, Scoped!ScopedTypeOK, Scoped!Gone, Scoped!Finished,
     Scoped!Installed, RunsAfterLatch, LatchSent
<1>18. CASE Scoped!Polls
  BY <1>18 DEF Scoped!Polls, Scoped!SeesEnd, Scoped!Gone, Scoped!forwarderVars,
     Scoped!fileVars, Scoped!SeesNone, Scoped!childVars, ScopedInv,
     Scoped!ScopedTypeOK, Scoped!Finished, Scoped!Installed, RunsAfterLatch,
     LatchSent
<1>19. CASE Scoped!Distrusts
  BY <1>19 DEF Scoped!Distrusts, Scoped!Terminates, Scoped!childVars, ScopedInv,
     Scoped!ScopedTypeOK, Scoped!Gone, Scoped!Finished, Scoped!Installed,
     RunsAfterLatch, LatchSent
<1>20. CASE Scoped!Selects
  BY <1>20 DEF Scoped!Selects, Scoped!childVars, Scoped!forwarderVars, ScopedInv,
     Scoped!ScopedTypeOK, Scoped!Gone, Scoped!Finished, Scoped!Installed,
     RunsAfterLatch, LatchSent
<1>21. CASE Scoped!TimesOut
  BY <1>21 DEF Scoped!TimesOut, Scoped!Terminates, Scoped!childVars, ScopedInv,
     Scoped!ScopedTypeOK, Scoped!Gone, Scoped!Finished, Scoped!Installed,
     RunsAfterLatch, LatchSent
<1>22. CASE Scoped!StopsWaiting
  BY <1>22 DEF Scoped!StopsWaiting, Scoped!Gone, Scoped!childVars,
     Scoped!forwarderVars, ScopedInv, Scoped!ScopedTypeOK, Scoped!Finished,
     Scoped!Installed, RunsAfterLatch, LatchSent
<1>23. CASE Scoped!SendsTerm
  BY <1>23 DEF Scoped!SendsTerm, Scoped!Sends, Scoped!Lives, Scoped!Gone,
     Scoped!forwarderVars, Scoped!fileVars, ScopedInv, Scoped!ScopedTypeOK,
     Scoped!Finished, Scoped!Installed, RunsAfterLatch, LatchSent
<1>24. CASE Scoped!WaitIsOver
  BY <1>24 DEF Scoped!WaitIsOver, Scoped!childVars, Scoped!forwarderVars,
     ScopedInv, Scoped!ScopedTypeOK, Scoped!Gone, Scoped!Finished,
     Scoped!Installed, RunsAfterLatch, LatchSent
<1>25. CASE Scoped!SendsKill
  BY <1>25 DEF Scoped!SendsKill, Scoped!Sends, Scoped!Lives, Scoped!Gone,
     Scoped!forwarderVars, Scoped!fileVars, ScopedInv, Scoped!ScopedTypeOK,
     Scoped!Finished, Scoped!Installed, RunsAfterLatch, LatchSent
<1>26. CASE Scoped!Interrupts
  BY <1>26 DEF Scoped!Interrupts, Scoped!childVars, Scoped!forwarderVars,
     ScopedInv, Scoped!ScopedTypeOK, Scoped!Gone, Scoped!Finished,
     Scoped!Installed, RunsAfterLatch, LatchSent
<1>27. CASE Scoped!FallsBack
  BY <1>27 DEF Scoped!FallsBack, Scoped!MayFallBack, Scoped!NotEntered,
     Scoped!forwarderVars, Scoped!fileVars, ScopedInv, Scoped!ScopedTypeOK,
     Scoped!Gone, Scoped!Finished, Scoped!Installed, RunsAfterLatch, LatchSent
<1>28. CASE Scoped!RefusesFallback
  BY <1>28 DEF Scoped!RefusesFallback, Scoped!MayFallBack, Scoped!NotEntered,
     Scoped!childVars, Scoped!forwarderVars, ScopedInv, Scoped!ScopedTypeOK,
     Scoped!Gone, Scoped!Finished, Scoped!Installed, RunsAfterLatch, LatchSent
<1>29. CASE Scoped!Propagates
  BY <1>29 DEF Scoped!Propagates, Scoped!NotEntered, Scoped!childVars,
     Scoped!forwarderVars, ScopedInv, Scoped!ScopedTypeOK, Scoped!Gone,
     Scoped!Finished, Scoped!Installed, RunsAfterLatch, LatchSent
<1> QED
  BY <1>1, <1>2, <1>3, <1>4, <1>5, <1>6, <1>7, <1>8, <1>9, <1>10, <1>11, <1>12,
     <1>13, <1>14, <1>15, <1>16, <1>17, <1>18, <1>19, <1>20, <1>21, <1>22, <1>23,
     <1>24, <1>25, <1>26, <1>27, <1>28, <1>29 DEF Scoped!ScopedNext

LEMMA HeldStaysChecked ==
    ASSUME ScopedInv, Scoped!ScopedNext
    PROVE  HeldIsChecked'
<1>1. CASE Scoped!Specifies
  BY <1>1 DEF Scoped!Specifies, Scoped!forwarderVars, ScopedInv,
     Scoped!ScopedTypeOK, Scoped!Gone, Scoped!Finished, Scoped!Installed,
     RunsAfterLatch, HeldIsChecked
<1>2. CASE Scoped!Upgraded
  BY <1>2 DEF Scoped!Upgraded, Scoped!forwarderVars, ScopedInv,
     Scoped!ScopedTypeOK, Scoped!Gone, Scoped!Finished, Scoped!Installed,
     RunsAfterLatch, HeldIsChecked
<1>3. CASE Scoped!Enters
  BY <1>3 DEF Scoped!Enters, Scoped!forwarderVars, Scoped!fileVars, ScopedInv,
     Scoped!ScopedTypeOK, Scoped!Gone, Scoped!Finished, Scoped!Installed,
     RunsAfterLatch, HeldIsChecked
<1>4. CASE Scoped!SendsLatch
  BY <1>4 DEF Scoped!SendsLatch, Scoped!Finished, Scoped!forwarderVars,
     Scoped!fileVars, ScopedInv, Scoped!ScopedTypeOK, Scoped!Gone,
     Scoped!Installed, RunsAfterLatch, HeldIsChecked
<1>5. CASE Scoped!ChecksArguments
  BY <1>5 DEF Scoped!ChecksArguments, Scoped!forwarderVars, Scoped!fileVars,
     ScopedInv, Scoped!ScopedTypeOK, Scoped!Gone, Scoped!Finished,
     Scoped!Installed, RunsAfterLatch, HeldIsChecked
<1>6. CASE Scoped!OpensExecutable
  BY <1>6 DEF Scoped!OpensExecutable, Scoped!forwarderVars, ScopedInv,
     Scoped!ScopedTypeOK, Scoped!Gone, Scoped!Finished, Scoped!Installed,
     RunsAfterLatch, HeldIsChecked
<1>7. CASE Scoped!Execs
  BY <1>7 DEF Scoped!Execs, Scoped!forwarderVars, Scoped!fileVars, ScopedInv,
     Scoped!ScopedTypeOK, Scoped!Gone, Scoped!Finished, Scoped!Installed,
     RunsAfterLatch, HeldIsChecked
<1>8. CASE Scoped!ChildEnds
  BY <1>8 DEF Scoped!ChildEnds, Scoped!Lives, Scoped!Gone, Scoped!forwarderVars,
     Scoped!fileVars, ScopedInv, Scoped!ScopedTypeOK, Scoped!Finished,
     Scoped!Installed, RunsAfterLatch, HeldIsChecked
<1>9. CASE Scoped!Dies
  BY <1>9 DEF Scoped!Dies, Scoped!Lives, Scoped!Gone, Scoped!forwarderVars,
     Scoped!fileVars, ScopedInv, Scoped!ScopedTypeOK, Scoped!Finished,
     Scoped!Installed, RunsAfterLatch, HeldIsChecked
<1>10. CASE Scoped!Heard
  BY <1>10 DEF Scoped!Heard, Scoped!Lives, Scoped!Gone, Scoped!Sends,
     Scoped!Installed, Scoped!fileVars, ScopedInv, Scoped!ScopedTypeOK,
     Scoped!Finished, RunsAfterLatch, HeldIsChecked
<1>11. CASE Scoped!Killed
  BY <1>11 DEF Scoped!Killed, Scoped!Finished, Scoped!childVars,
     Scoped!forwarderVars, ScopedInv, Scoped!ScopedTypeOK, Scoped!Gone,
     Scoped!Installed, RunsAfterLatch, HeldIsChecked
<1>12. CASE Scoped!Launches
  BY <1>12 DEF Scoped!Launches, Scoped!forwarderVars, Scoped!fileVars, ScopedInv,
     Scoped!ScopedTypeOK, Scoped!Gone, Scoped!Finished, Scoped!Installed,
     RunsAfterLatch, HeldIsChecked
<1>13. CASE Scoped!LaunchFails
  BY <1>13 DEF Scoped!LaunchFails, Scoped!childVars, ScopedInv,
     Scoped!ScopedTypeOK, Scoped!Gone, Scoped!Finished, Scoped!Installed,
     RunsAfterLatch, HeldIsChecked
<1>14. CASE Scoped!Binds
  BY <1>14 DEF Scoped!Binds, Scoped!Lives, Scoped!Gone, Scoped!Sends,
     Scoped!fileVars, ScopedInv, Scoped!ScopedTypeOK, Scoped!Finished,
     Scoped!Installed, RunsAfterLatch, HeldIsChecked
<1>15. CASE Scoped!SeesSignal
  BY <1>15 DEF Scoped!SeesSignal, Scoped!Terminates, Scoped!childVars,
     Scoped!forwarderVars, ScopedInv, Scoped!ScopedTypeOK, Scoped!Gone,
     Scoped!Finished, Scoped!Installed, RunsAfterLatch, HeldIsChecked
<1>16. CASE Scoped!Receives
  BY <1>16 DEF Scoped!Receives, Scoped!forwarderVars, Scoped!fileVars, ScopedInv,
     Scoped!ScopedTypeOK, Scoped!Gone, Scoped!Finished, Scoped!Installed,
     RunsAfterLatch, HeldIsChecked
<1>17. CASE Scoped!ReceivesNothing
  BY <1>17 DEF Scoped!ReceivesNothing, Scoped!childVars, Scoped!forwarderVars,
     ScopedInv, Scoped!ScopedTypeOK, Scoped!Gone, Scoped!Finished,
     Scoped!Installed, RunsAfterLatch, HeldIsChecked
<1>18. CASE Scoped!Polls
  BY <1>18 DEF Scoped!Polls, Scoped!SeesEnd, Scoped!Gone, Scoped!forwarderVars,
     Scoped!fileVars, Scoped!SeesNone, Scoped!childVars, ScopedInv,
     Scoped!ScopedTypeOK, Scoped!Finished, Scoped!Installed, RunsAfterLatch,
     HeldIsChecked
<1>19. CASE Scoped!Distrusts
  BY <1>19 DEF Scoped!Distrusts, Scoped!Terminates, Scoped!childVars, ScopedInv,
     Scoped!ScopedTypeOK, Scoped!Gone, Scoped!Finished, Scoped!Installed,
     RunsAfterLatch, HeldIsChecked
<1>20. CASE Scoped!Selects
  BY <1>20 DEF Scoped!Selects, Scoped!childVars, Scoped!forwarderVars, ScopedInv,
     Scoped!ScopedTypeOK, Scoped!Gone, Scoped!Finished, Scoped!Installed,
     RunsAfterLatch, HeldIsChecked
<1>21. CASE Scoped!TimesOut
  BY <1>21 DEF Scoped!TimesOut, Scoped!Terminates, Scoped!childVars, ScopedInv,
     Scoped!ScopedTypeOK, Scoped!Gone, Scoped!Finished, Scoped!Installed,
     RunsAfterLatch, HeldIsChecked
<1>22. CASE Scoped!StopsWaiting
  BY <1>22 DEF Scoped!StopsWaiting, Scoped!Gone, Scoped!childVars,
     Scoped!forwarderVars, ScopedInv, Scoped!ScopedTypeOK, Scoped!Finished,
     Scoped!Installed, RunsAfterLatch, HeldIsChecked
<1>23. CASE Scoped!SendsTerm
  BY <1>23 DEF Scoped!SendsTerm, Scoped!Sends, Scoped!Lives, Scoped!Gone,
     Scoped!forwarderVars, Scoped!fileVars, ScopedInv, Scoped!ScopedTypeOK,
     Scoped!Finished, Scoped!Installed, RunsAfterLatch, HeldIsChecked
<1>24. CASE Scoped!WaitIsOver
  BY <1>24 DEF Scoped!WaitIsOver, Scoped!childVars, Scoped!forwarderVars,
     ScopedInv, Scoped!ScopedTypeOK, Scoped!Gone, Scoped!Finished,
     Scoped!Installed, RunsAfterLatch, HeldIsChecked
<1>25. CASE Scoped!SendsKill
  BY <1>25 DEF Scoped!SendsKill, Scoped!Sends, Scoped!Lives, Scoped!Gone,
     Scoped!forwarderVars, Scoped!fileVars, ScopedInv, Scoped!ScopedTypeOK,
     Scoped!Finished, Scoped!Installed, RunsAfterLatch, HeldIsChecked
<1>26. CASE Scoped!Interrupts
  BY <1>26 DEF Scoped!Interrupts, Scoped!childVars, Scoped!forwarderVars,
     ScopedInv, Scoped!ScopedTypeOK, Scoped!Gone, Scoped!Finished,
     Scoped!Installed, RunsAfterLatch, HeldIsChecked
<1>27. CASE Scoped!FallsBack
  BY <1>27 DEF Scoped!FallsBack, Scoped!MayFallBack, Scoped!NotEntered,
     Scoped!forwarderVars, Scoped!fileVars, ScopedInv, Scoped!ScopedTypeOK,
     Scoped!Gone, Scoped!Finished, Scoped!Installed, RunsAfterLatch, HeldIsChecked
<1>28. CASE Scoped!RefusesFallback
  BY <1>28 DEF Scoped!RefusesFallback, Scoped!MayFallBack, Scoped!NotEntered,
     Scoped!childVars, Scoped!forwarderVars, ScopedInv, Scoped!ScopedTypeOK,
     Scoped!Gone, Scoped!Finished, Scoped!Installed, RunsAfterLatch, HeldIsChecked
<1>29. CASE Scoped!Propagates
  BY <1>29 DEF Scoped!Propagates, Scoped!NotEntered, Scoped!childVars,
     Scoped!forwarderVars, ScopedInv, Scoped!ScopedTypeOK, Scoped!Gone,
     Scoped!Finished, Scoped!Installed, RunsAfterLatch, HeldIsChecked
<1> QED
  BY <1>1, <1>2, <1>3, <1>4, <1>5, <1>6, <1>7, <1>8, <1>9, <1>10, <1>11, <1>12,
     <1>13, <1>14, <1>15, <1>16, <1>17, <1>18, <1>19, <1>20, <1>21, <1>22, <1>23,
     <1>24, <1>25, <1>26, <1>27, <1>28, <1>29 DEF Scoped!ScopedNext

THEOREM ScopedInvariant == Scoped!ScopedSpec => []ScopedInv
<1>0. Scoped!ScopedAssumption
  BY ProcessesConstants DEF ProcessesConstants
<1>1. Scoped!ScopedInit => ScopedInv
  <2> SUFFICES ASSUME Scoped!ScopedInit PROVE ScopedInv
    OBVIOUS
  <2>1. {status, socket, scopedBound, primary, forwarded, scopedPending, scopedCleaning} \subseteq BOOLEAN
    BY DEF Scoped!ScopedInit
  <2>2. Scoped!ScopedTypeOK
    BY <1>0, <2>1 DEF Scoped!ScopedInit, Scoped!ScopedAssumption, Scoped!ScopedTypeOK, Scoped!Gone, Scoped!Finished,
       Scoped!Installed
  <2>3. RunsAfterLatch /\ HeldIsChecked
    BY DEF Scoped!ScopedInit, RunsAfterLatch, LatchSent, HeldIsChecked
  <2> QED
    BY <2>2, <2>3 DEF ScopedInv
<1>2. ASSUME ScopedInv, Scoped!ScopedNext PROVE ScopedInv'
  BY <1>0, <1>2, ScopedTypeKept, RunsStayAfterLatch, HeldStaysChecked DEF ScopedInv
<1>3. ScopedInv /\ UNCHANGED Scoped!scopedVars => ScopedInv'
  BY DEF Scoped!scopedVars, Scoped!childVars, Scoped!forwarderVars, ScopedInv, Scoped!ScopedTypeOK, RunsAfterLatch, LatchSent, HeldIsChecked
<1> QED
  BY <1>1, <1>2, <1>3, PTL DEF Scoped!ScopedSpec

(* process_priority.py - however many signals come and in whatever order   *)
(* the latch, the end of the child and the looks at both happen: a command *)
(* is not run in its scope and by the supervisor as well.                  *)
THEOREM CommandsRunOnce == Scoped!ScopedSpec => []Scoped!CommandRunsOnce
<1>1. ScopedInv => Scoped!CommandRunsOnce
  <2> SUFFICES ASSUME ScopedInv PROVE Scoped!CommandRunsOnce
    OBVIOUS
  <2>1. scopedSupervisor = "here" => ~Scoped!Lives
    BY DEF ScopedInv, RunsAfterLatch, Scoped!Lives, Scoped!Gone
  <2>2. ~("scope" \in runs /\ "here" \in runs)
    BY DEF ScopedInv, RunsAfterLatch
  <2> QED
    BY <2>1, <2>2 DEF Scoped!CommandRunsOnce
<1> QED
  BY <1>1, ScopedInvariant, PTL

(* process_priority.py - what runs in the scope is the file that was put   *)
(* down at the launch, even if an upgrade replaces it between two looks.   *)
THEOREM ScopesExecuteChecked == Scoped!ScopedSpec => []Scoped!ExecutesChecked
<1>1. ScopedInv => Scoped!ExecutesChecked
  BY DEF ScopedInv, HeldIsChecked, Scoped!ExecutesChecked
<1> QED
  BY <1>1, ScopedInvariant, PTL

-----------------------------------------------------------------------------
(* RemoteOperation.  An answer is whole when it is taken, and the worker    *)
(* waits from then on; it ends with zero only if it was released.          *)
AnswerIsWhole ==
    /\ answer.parts = 2 => remoteWorker \in {"waiting", "zombie", "gone"}
    /\ seenAfterRequest => request = 2
    /\ remoteSupervisor \in {"decode", "release", "draining", "late_term"} \/ candidate # "none"
         => request = 2 /\ answer.parts = 2
    /\ candidate # "none" => candidate = answer.kind
    /\ candidate # "none" => remoteSupervisor \notin {"start", "spawned", "pump"}

EndsAsReleased == exitStatus = "zero" => release

\* What is concluded of the worker, and what was decided before.
ConcludesRightly ==
    /\ remoteSupervisor \in {"start"} => remoteWorker = "none"
    /\ remoteSupervisor = "conclude" /\ remoteCleanupOk => remoteWorker = "gone"
    /\ remoteSupervisor # "done" => response \notin {"ok", "error"}
    /\ remoteSupervisor = "abandoning" => response \in {"failed", "unconfirmed"}

RemoteInv ==
    /\ Remote!RemoteTypeOK /\ AnswerIsWhole /\ EndsAsReleased /\ ConcludesRightly
    /\ Remote!AnsweredAlone

LEMMA RemoteTypeKept ==
    ASSUME Remote!RemoteAssumption, RemoteInv, Remote!RemoteNext
    PROVE  Remote!RemoteTypeOK'
<1>1. CASE Remote!ReadsParent
  BY <1>1 DEF Remote!ReadsParent, Remote!WorkerGoes, Remote!controlVars,
     Remote!ownVars, Remote!httpVars, RemoteInv, Remote!RemoteTypeOK,
     Remote!RemoteAssumption
<1>2. CASE Remote!ArmsDeathSignal
  BY <1>2 DEF Remote!ArmsDeathSignal, Remote!WorkerGoes, Remote!controlVars,
     Remote!ownVars, Remote!ParentChanged, Remote!httpVars, RemoteInv,
     Remote!RemoteTypeOK, Remote!RemoteAssumption
<1>3. CASE Remote!LoadsRuntime
  BY <1>3 DEF Remote!LoadsRuntime, Remote!WorkerGoes, Remote!controlVars,
     Remote!ownVars, Remote!httpVars, RemoteInv, Remote!RemoteTypeOK,
     Remote!RemoteAssumption
<1>4. CASE Remote!ReadsRequest
  BY <1>4 DEF Remote!ReadsRequest, Remote!WorkerGoes, Remote!controlVars,
     Remote!ownVars, Remote!httpVars, RemoteInv, Remote!RemoteTypeOK,
     Remote!RemoteAssumption
<1>5. CASE Remote!RequestRefused
  BY <1>5 DEF Remote!RequestRefused, Remote!WorkerEndsWith, Remote!WorkerAlive,
     Remote!controlVars, Remote!httpVars, Remote!ownVars, RemoteInv,
     Remote!RemoteTypeOK, Remote!RemoteAssumption
<1>6. CASE Remote!WritesAnswer
  <2>1. answer.parts \in 0..1
    BY <1>6 DEF Remote!WritesAnswer, Remote!WorkerGoes, RemoteInv, Remote!RemoteTypeOK, AnswerIsWhole
  <2>2. answer' = [kind |-> answer.kind, parts |-> answer.parts + 1]
    BY <1>6 DEF Remote!WritesAnswer, RemoteInv, Remote!RemoteTypeOK
  <2>3. answer' \in [kind : {"none", "ok", "error"}, parts : 0..2]
    BY <2>1, <2>2 DEF RemoteInv, Remote!RemoteTypeOK
  <2> QED
    BY <1>6, <2>3 DEF Remote!WritesAnswer, Remote!WorkerGoes, Remote!controlVars, Remote!httpVars,
       Remote!ownVars, RemoteInv, Remote!RemoteTypeOK
<1>7. CASE Remote!Released
  BY <1>7 DEF Remote!Released, Remote!WorkerEndsWith, Remote!WorkerAlive,
     Remote!controlVars, Remote!httpVars, Remote!ownVars, RemoteInv,
     Remote!RemoteTypeOK, Remote!RemoteAssumption
<1>8. CASE Remote!Abandoned
  BY <1>8 DEF Remote!Abandoned, Remote!WorkerEndsWith, Remote!WorkerAlive,
     Remote!controlVars, Remote!httpVars, Remote!ownVars, RemoteInv,
     Remote!RemoteTypeOK, Remote!RemoteAssumption
<1>9. CASE Remote!OutOfTime
  BY <1>9 DEF Remote!OutOfTime, Remote!WorkerEndsWith, Remote!WorkerAlive,
     Remote!controlVars, Remote!httpVars, Remote!ownVars, RemoteInv,
     Remote!RemoteTypeOK, Remote!RemoteAssumption
<1>10. CASE Remote!Signalled
  BY <1>10 DEF Remote!Signalled, Remote!WorkerEndsWith, Remote!WorkerAlive,
     Remote!controlVars, Remote!httpVars, Remote!ownVars, RemoteInv,
     Remote!RemoteTypeOK, Remote!RemoteAssumption
<1>11. CASE Remote!WorkerFails
  BY <1>11 DEF Remote!WorkerFails, Remote!WorkerEndsWith, Remote!WorkerAlive,
     Remote!controlVars, Remote!httpVars, Remote!ownVars, RemoteInv,
     Remote!RemoteTypeOK, Remote!RemoteAssumption
<1>12. CASE Remote!Redirected
  BY <1>12 DEF Remote!Redirected, Remote!WorkerGoes, Remote!controlVars,
     Remote!ownVars, RemoteInv, Remote!RemoteTypeOK, Remote!RemoteAssumption
<1>13. CASE Remote!TierRejected
  BY <1>13 DEF Remote!TierRejected, Remote!WorkerGoes, Remote!controlVars,
     Remote!ownVars, RemoteInv, Remote!RemoteTypeOK, Remote!RemoteAssumption
<1>14. CASE Remote!ServerAnswers
  BY <1>14 DEF Remote!ServerAnswers, Remote!WorkerGoes, Remote!controlVars,
     Remote!ownVars, Remote!httpVars, RemoteInv, Remote!RemoteTypeOK,
     Remote!RemoteAssumption
<1>15. CASE Remote!NotStarted
  BY <1>15 DEF Remote!NotStarted, Remote!SupervisorGoes, Remote!httpVars,
     Remote!controlVars, RemoteInv, Remote!RemoteTypeOK, Remote!RemoteAssumption
<1>16. CASE Remote!Spawns
  BY <1>16 DEF Remote!Spawns, Remote!SupervisorGoes, Remote!httpVars,
     Remote!controlVars, Remote!ownVars, RemoteInv, Remote!RemoteTypeOK,
     Remote!RemoteAssumption
<1>17. CASE Remote!BindsWorker
  BY <1>17 DEF Remote!BindsWorker, Remote!SupervisorGoes, Remote!httpVars,
     Remote!controlVars, Remote!ownVars, RemoteInv, Remote!RemoteTypeOK,
     Remote!RemoteAssumption
<1>18. CASE Remote!BindFails
  BY <1>18 DEF Remote!BindFails, Remote!SupervisorGoes, Remote!httpVars,
     Remote!controlVars, RemoteInv, Remote!RemoteTypeOK, Remote!RemoteAssumption
<1>19. CASE Remote!Abandons
  <2>1. /\ remoteCleanupOk' \in {remoteCleanupOk, FALSE} /\ controlOpen' \in {controlOpen, FALSE}
        /\ release' \in {release, TRUE} /\ UNCHANGED <<armed, fellBack, seenAfterRequest>>
    BY <1>19 DEF Remote!Abandons, Remote!SupervisorGoes, Remote!httpVars
  <2>2. {armed, fellBack, seenAfterRequest, remoteCleanupOk, controlOpen, release}' \subseteq BOOLEAN
    BY <2>1 DEF RemoteInv, Remote!RemoteTypeOK
  <2> QED
    BY <1>19, <2>2 DEF Remote!Abandons, Remote!SupervisorGoes, Remote!httpVars,
       RemoteInv, Remote!RemoteTypeOK
<1>20. CASE Remote!SendsRequest
  BY <1>20 DEF Remote!SendsRequest, Remote!WorkerAlive, Remote!SupervisorGoes,
     Remote!httpVars, RemoteInv, Remote!RemoteTypeOK, Remote!RemoteAssumption
<1>21. CASE Remote!TakesAnswer
  BY <1>21 DEF Remote!TakesAnswer, Remote!WorkerAlive, Remote!SupervisorGoes,
     Remote!httpVars, Remote!controlVars, RemoteInv, Remote!RemoteTypeOK,
     Remote!RemoteAssumption
<1>22. CASE Remote!PumpFails
  BY <1>22 DEF Remote!PumpFails, Remote!SupervisorGoes, Remote!httpVars,
     Remote!controlVars, RemoteInv, Remote!RemoteTypeOK, Remote!RemoteAssumption
<1>23. CASE Remote!Decodes
  BY <1>23 DEF Remote!Decodes, Remote!SupervisorGoes, Remote!httpVars,
     Remote!controlVars, RemoteInv, Remote!RemoteTypeOK, Remote!RemoteAssumption
<1>24. CASE Remote!ClosesControl
  <2>1. /\ remoteCleanupOk' \in {remoteCleanupOk, FALSE} /\ controlOpen' \in {controlOpen, FALSE}
        /\ release' \in {release, TRUE} /\ UNCHANGED <<armed, fellBack, seenAfterRequest>>
    BY <1>24 DEF Remote!ClosesControl, Remote!WorkerAlive, Remote!SupervisorGoes,
       Remote!httpVars, Remote!Reaped, Remote!Sends
  <2>2. {armed, fellBack, seenAfterRequest, remoteCleanupOk, controlOpen, release}' \subseteq BOOLEAN
    BY <2>1 DEF RemoteInv, Remote!RemoteTypeOK
  <2>3. /\ signalled' \in {signalled, "term", "kill"} /\ remoteWorker' \in {remoteWorker, "gone"}
        /\ remoteSupervisor' = "termed"
        /\ UNCHANGED <<exitStatus, parentIs, request, answer, redirects, remoteLate, candidate, response>>
    BY <1>24 DEF Remote!ClosesControl, Remote!WorkerAlive, Remote!SupervisorGoes,
       Remote!httpVars, Remote!Reaped, Remote!Sends
  <2> QED
    BY <2>2, <2>3 DEF RemoteInv, Remote!RemoteTypeOK
<1>25. CASE Remote!EndsInTime
  <2>1. /\ remoteCleanupOk' \in {remoteCleanupOk, FALSE} /\ controlOpen' \in {controlOpen, FALSE}
        /\ release' \in {release, TRUE} /\ UNCHANGED <<armed, fellBack, seenAfterRequest>>
    BY <1>25 DEF Remote!EndsInTime, Remote!SupervisorGoes, Remote!httpVars,
       Remote!Reaped, Remote!controlVars
  <2>2. {armed, fellBack, seenAfterRequest, remoteCleanupOk, controlOpen, release}' \subseteq BOOLEAN
    BY <2>1 DEF RemoteInv, Remote!RemoteTypeOK
  <2> QED
    BY <1>25, <2>2 DEF Remote!EndsInTime, Remote!SupervisorGoes, Remote!httpVars,
       Remote!Reaped, Remote!controlVars, RemoteInv, Remote!RemoteTypeOK
<1>26. CASE Remote!KillsWorker
  <2>1. /\ remoteCleanupOk' \in {remoteCleanupOk, FALSE} /\ controlOpen' \in {controlOpen, FALSE}
        /\ release' \in {release, TRUE} /\ UNCHANGED <<armed, fellBack, seenAfterRequest>>
    BY <1>26 DEF Remote!KillsWorker, Remote!WorkerAlive, Remote!SupervisorGoes,
       Remote!httpVars, Remote!Sends, Remote!controlVars
  <2>2. {armed, fellBack, seenAfterRequest, remoteCleanupOk, controlOpen, release}' \subseteq BOOLEAN
    BY <2>1 DEF RemoteInv, Remote!RemoteTypeOK
  <2>3. /\ signalled' \in {signalled, "term", "kill"} /\ remoteWorker' \in {remoteWorker, "gone"}
        /\ remoteSupervisor' = "wait"
        /\ UNCHANGED <<exitStatus, parentIs, request, answer, redirects, remoteLate, candidate, response>>
    BY <1>26 DEF Remote!KillsWorker, Remote!WorkerAlive, Remote!SupervisorGoes,
       Remote!httpVars, Remote!Sends, Remote!controlVars
  <2> QED
    BY <2>2, <2>3 DEF RemoteInv, Remote!RemoteTypeOK
<1>27. CASE Remote!Waits
  <2>1. /\ remoteCleanupOk' \in {remoteCleanupOk, FALSE} /\ controlOpen' \in {controlOpen, FALSE}
        /\ release' \in {release, TRUE} /\ UNCHANGED <<armed, fellBack, seenAfterRequest>>
    BY <1>27 DEF Remote!Waits, Remote!SupervisorGoes, Remote!httpVars, Remote!Reaped,
       Remote!controlVars
  <2>2. {armed, fellBack, seenAfterRequest, remoteCleanupOk, controlOpen, release}' \subseteq BOOLEAN
    BY <2>1 DEF RemoteInv, Remote!RemoteTypeOK
  <2> QED
    BY <1>27, <2>2 DEF Remote!Waits, Remote!SupervisorGoes, Remote!httpVars,
       Remote!Reaped, Remote!controlVars, RemoteInv, Remote!RemoteTypeOK
<1>28. CASE Remote!SendsRelease
  <2>1. /\ remoteCleanupOk' \in {remoteCleanupOk, FALSE} /\ controlOpen' \in {controlOpen, FALSE}
        /\ release' \in {release, TRUE} /\ UNCHANGED <<armed, fellBack, seenAfterRequest>>
    BY <1>28 DEF Remote!SendsRelease, Remote!WorkerAlive, Remote!SupervisorGoes,
       Remote!httpVars, Remote!Reaped
  <2>2. {armed, fellBack, seenAfterRequest, remoteCleanupOk, controlOpen, release}' \subseteq BOOLEAN
    BY <2>1 DEF RemoteInv, Remote!RemoteTypeOK
  <2>3. /\ signalled' \in {signalled, "term", "kill"} /\ remoteWorker' \in {remoteWorker, "gone"}
        /\ remoteSupervisor' = "draining"
        /\ UNCHANGED <<exitStatus, parentIs, request, answer, redirects, remoteLate, candidate, response>>
    BY <1>28 DEF Remote!SendsRelease, Remote!WorkerAlive, Remote!SupervisorGoes,
       Remote!httpVars, Remote!Reaped
  <2> QED
    BY <2>2, <2>3 DEF RemoteInv, Remote!RemoteTypeOK
<1>29. CASE Remote!EndsReleased
  <2>1. /\ remoteCleanupOk' \in {remoteCleanupOk, FALSE} /\ controlOpen' \in {controlOpen, FALSE}
        /\ release' \in {release, TRUE} /\ UNCHANGED <<armed, fellBack, seenAfterRequest>>
    BY <1>29 DEF Remote!EndsReleased, Remote!SupervisorGoes, Remote!httpVars,
       Remote!Reaped, Remote!controlVars
  <2>2. {armed, fellBack, seenAfterRequest, remoteCleanupOk, controlOpen, release}' \subseteq BOOLEAN
    BY <2>1 DEF RemoteInv, Remote!RemoteTypeOK
  <2> QED
    BY <1>29, <2>2 DEF Remote!EndsReleased, Remote!SupervisorGoes, Remote!httpVars,
       Remote!Reaped, Remote!controlVars, RemoteInv, Remote!RemoteTypeOK
<1>30. CASE Remote!DoesNotEnd
  <2>1. /\ remoteCleanupOk' \in {remoteCleanupOk, FALSE} /\ controlOpen' \in {controlOpen, FALSE}
        /\ release' \in {release, TRUE} /\ UNCHANGED <<armed, fellBack, seenAfterRequest>>
    BY <1>30 DEF Remote!DoesNotEnd, Remote!WorkerAlive, Remote!SupervisorGoes,
       Remote!httpVars, Remote!controlVars
  <2>2. {armed, fellBack, seenAfterRequest, remoteCleanupOk, controlOpen, release}' \subseteq BOOLEAN
    BY <2>1 DEF RemoteInv, Remote!RemoteTypeOK
  <2> QED
    BY <1>30, <2>2 DEF Remote!DoesNotEnd, Remote!WorkerAlive, Remote!SupervisorGoes,
       Remote!httpVars, Remote!controlVars, RemoteInv, Remote!RemoteTypeOK
<1>31. CASE Remote!CleanupOutOfTime
  <2>1. /\ remoteCleanupOk' \in {remoteCleanupOk, FALSE} /\ controlOpen' \in {controlOpen, FALSE}
        /\ release' \in {release, TRUE} /\ UNCHANGED <<armed, fellBack, seenAfterRequest>>
    BY <1>31 DEF Remote!CleanupOutOfTime, Remote!SupervisorGoes, Remote!httpVars,
       Remote!controlVars
  <2>2. {armed, fellBack, seenAfterRequest, remoteCleanupOk, controlOpen, release}' \subseteq BOOLEAN
    BY <2>1 DEF RemoteInv, Remote!RemoteTypeOK
  <2> QED
    BY <1>31, <2>2 DEF Remote!CleanupOutOfTime, Remote!SupervisorGoes,
       Remote!httpVars, Remote!controlVars, RemoteInv, Remote!RemoteTypeOK
<1>32. CASE Remote!Concludes
  <2>1. /\ remoteCleanupOk' \in {remoteCleanupOk, FALSE} /\ controlOpen' \in {controlOpen, FALSE}
        /\ release' \in {release, TRUE} /\ UNCHANGED <<armed, fellBack, seenAfterRequest>>
    BY <1>32 DEF Remote!Concludes, Remote!SupervisorGoes, Remote!httpVars,
       Remote!Answer
  <2>2. {armed, fellBack, seenAfterRequest, remoteCleanupOk, controlOpen, release}' \subseteq BOOLEAN
    BY <2>1 DEF RemoteInv, Remote!RemoteTypeOK
  <2> QED
    BY <1>32, <2>2 DEF Remote!Concludes, Remote!SupervisorGoes, Remote!httpVars,
       Remote!Answer, RemoteInv, Remote!RemoteTypeOK
<1>33. CASE Remote!SupervisorKilled
  <2>1. /\ remoteCleanupOk' \in {remoteCleanupOk, FALSE} /\ controlOpen' \in {controlOpen, FALSE}
        /\ release' \in {release, TRUE} /\ UNCHANGED <<armed, fellBack, seenAfterRequest>>
    BY <1>33 DEF Remote!SupervisorKilled, Remote!SupervisorRuns, Remote!httpVars,
       Remote!ownVars
  <2>2. {armed, fellBack, seenAfterRequest, remoteCleanupOk, controlOpen, release}' \subseteq BOOLEAN
    BY <2>1 DEF RemoteInv, Remote!RemoteTypeOK
  <2> QED
    BY <1>33, <2>2 DEF Remote!SupervisorKilled, Remote!SupervisorRuns,
       Remote!httpVars, Remote!ownVars, RemoteInv, Remote!RemoteTypeOK
<1>34. CASE Remote!DeadlinePasses
  BY <1>34 DEF Remote!DeadlinePasses, Remote!controlVars, Remote!workerVars,
     Remote!httpVars, Remote!ownVars, RemoteInv, Remote!RemoteTypeOK,
     Remote!RemoteAssumption
<1>35. CASE Remote!ParentChanged /\ Remote!WorkerEndsWith("error")
  BY <1>35 DEF Remote!ParentChanged, Remote!WorkerEndsWith, Remote!WorkerAlive, Remote!controlVars,
     Remote!httpVars, Remote!ownVars, RemoteInv, Remote!RemoteTypeOK, Remote!RemoteAssumption
<1> QED
  BY <1>1, <1>2, <1>3, <1>4, <1>5, <1>6, <1>7, <1>8, <1>9, <1>10, <1>11, <1>12,
     <1>13, <1>14, <1>15, <1>16, <1>17, <1>18, <1>19, <1>20, <1>21, <1>22, <1>23,
     <1>24, <1>25, <1>26, <1>27, <1>28, <1>29, <1>30, <1>31, <1>32, <1>33, <1>34,
     <1>35 DEF Remote!RemoteNext, Remote!SupervisorStep, Remote!WorkerStep,
     Remote!WorkerStarts, Remote!Server

LEMMA AnswerStaysWhole ==
    ASSUME RemoteInv, Remote!RemoteNext
    PROVE  AnswerIsWhole'
<1>1. CASE Remote!ReadsParent
  BY <1>1 DEF Remote!ReadsParent, Remote!WorkerGoes, Remote!controlVars,
     Remote!ownVars, Remote!httpVars, RemoteInv, Remote!RemoteTypeOK,
     AnswerIsWhole
<1>2. CASE Remote!ArmsDeathSignal
  BY <1>2 DEF Remote!ArmsDeathSignal, Remote!WorkerGoes, Remote!controlVars,
     Remote!ownVars, Remote!ParentChanged, Remote!httpVars, RemoteInv,
     Remote!RemoteTypeOK, AnswerIsWhole
<1>3. CASE Remote!LoadsRuntime
  BY <1>3 DEF Remote!LoadsRuntime, Remote!WorkerGoes, Remote!controlVars,
     Remote!ownVars, Remote!httpVars, RemoteInv, Remote!RemoteTypeOK,
     AnswerIsWhole
<1>4. CASE Remote!ReadsRequest
  BY <1>4 DEF Remote!ReadsRequest, Remote!WorkerGoes, Remote!controlVars,
     Remote!ownVars, Remote!httpVars, RemoteInv, Remote!RemoteTypeOK,
     AnswerIsWhole
<1>5. CASE Remote!RequestRefused
  BY <1>5 DEF Remote!RequestRefused, Remote!WorkerEndsWith, Remote!WorkerAlive,
     Remote!controlVars, Remote!httpVars, Remote!ownVars, RemoteInv,
     Remote!RemoteTypeOK, AnswerIsWhole
<1>6. CASE Remote!WritesAnswer
  BY <1>6 DEF Remote!WritesAnswer, Remote!WorkerGoes, Remote!controlVars,
     Remote!ownVars, Remote!httpVars, RemoteInv, Remote!RemoteTypeOK,
     AnswerIsWhole
<1>7. CASE Remote!Released
  BY <1>7 DEF Remote!Released, Remote!WorkerEndsWith, Remote!WorkerAlive,
     Remote!controlVars, Remote!httpVars, Remote!ownVars, RemoteInv,
     Remote!RemoteTypeOK, AnswerIsWhole
<1>8. CASE Remote!Abandoned
  BY <1>8 DEF Remote!Abandoned, Remote!WorkerEndsWith, Remote!WorkerAlive,
     Remote!controlVars, Remote!httpVars, Remote!ownVars, RemoteInv,
     Remote!RemoteTypeOK, AnswerIsWhole
<1>9. CASE Remote!OutOfTime
  BY <1>9 DEF Remote!OutOfTime, Remote!WorkerEndsWith, Remote!WorkerAlive,
     Remote!controlVars, Remote!httpVars, Remote!ownVars, RemoteInv,
     Remote!RemoteTypeOK, AnswerIsWhole
<1>10. CASE Remote!Signalled
  BY <1>10 DEF Remote!Signalled, Remote!WorkerEndsWith, Remote!WorkerAlive,
     Remote!controlVars, Remote!httpVars, Remote!ownVars, RemoteInv,
     Remote!RemoteTypeOK, AnswerIsWhole
<1>11. CASE Remote!WorkerFails
  BY <1>11 DEF Remote!WorkerFails, Remote!WorkerEndsWith, Remote!WorkerAlive,
     Remote!controlVars, Remote!httpVars, Remote!ownVars, RemoteInv,
     Remote!RemoteTypeOK, AnswerIsWhole
<1>12. CASE Remote!Redirected
  BY <1>12 DEF Remote!Redirected, Remote!WorkerGoes, Remote!controlVars,
     Remote!ownVars, RemoteInv, Remote!RemoteTypeOK, AnswerIsWhole
<1>13. CASE Remote!TierRejected
  BY <1>13 DEF Remote!TierRejected, Remote!WorkerGoes, Remote!controlVars,
     Remote!ownVars, RemoteInv, Remote!RemoteTypeOK, AnswerIsWhole
<1>14. CASE Remote!ServerAnswers
  BY <1>14 DEF Remote!ServerAnswers, Remote!WorkerGoes, Remote!controlVars,
     Remote!ownVars, Remote!httpVars, RemoteInv, Remote!RemoteTypeOK,
     AnswerIsWhole
<1>15. CASE Remote!NotStarted
  BY <1>15 DEF Remote!NotStarted, Remote!SupervisorGoes, Remote!httpVars,
     Remote!controlVars, RemoteInv, Remote!RemoteTypeOK, AnswerIsWhole
<1>16. CASE Remote!Spawns
  BY <1>16 DEF Remote!Spawns, Remote!SupervisorGoes, Remote!httpVars,
     Remote!controlVars, Remote!ownVars, RemoteInv, Remote!RemoteTypeOK,
     AnswerIsWhole, ConcludesRightly
<1>17. CASE Remote!BindsWorker
  BY <1>17 DEF Remote!BindsWorker, Remote!SupervisorGoes, Remote!httpVars,
     Remote!controlVars, Remote!ownVars, RemoteInv, Remote!RemoteTypeOK,
     AnswerIsWhole
<1>18. CASE Remote!BindFails
  BY <1>18 DEF Remote!BindFails, Remote!SupervisorGoes, Remote!httpVars,
     Remote!controlVars, RemoteInv, Remote!RemoteTypeOK, AnswerIsWhole
<1>19. CASE Remote!Abandons
  BY <1>19 DEF Remote!Abandons, Remote!SupervisorGoes, Remote!httpVars, RemoteInv,
     Remote!RemoteTypeOK, AnswerIsWhole
<1>20. CASE Remote!SendsRequest
  BY <1>20 DEF Remote!SendsRequest, Remote!WorkerAlive, Remote!SupervisorGoes,
     Remote!httpVars, RemoteInv, Remote!RemoteTypeOK, AnswerIsWhole
<1>21. CASE Remote!TakesAnswer
  BY <1>21 DEF Remote!TakesAnswer, Remote!WorkerAlive, Remote!SupervisorGoes,
     Remote!httpVars, Remote!controlVars, RemoteInv, Remote!RemoteTypeOK,
     AnswerIsWhole
<1>22. CASE Remote!PumpFails
  BY <1>22 DEF Remote!PumpFails, Remote!SupervisorGoes, Remote!httpVars,
     Remote!controlVars, RemoteInv, Remote!RemoteTypeOK, AnswerIsWhole
<1>23. CASE Remote!Decodes
  BY <1>23 DEF Remote!Decodes, Remote!SupervisorGoes, Remote!httpVars,
     Remote!controlVars, RemoteInv, Remote!RemoteTypeOK, AnswerIsWhole
<1>24. CASE Remote!ClosesControl
  BY <1>24 DEF Remote!ClosesControl, Remote!WorkerAlive, Remote!SupervisorGoes,
     Remote!httpVars, Remote!Reaped, Remote!Sends, RemoteInv, Remote!RemoteTypeOK,
     AnswerIsWhole
<1>25. CASE Remote!EndsInTime
  BY <1>25 DEF Remote!EndsInTime, Remote!SupervisorGoes, Remote!httpVars,
     Remote!Reaped, Remote!controlVars, RemoteInv, Remote!RemoteTypeOK,
     AnswerIsWhole
<1>26. CASE Remote!KillsWorker
  BY <1>26 DEF Remote!KillsWorker, Remote!WorkerAlive, Remote!SupervisorGoes,
     Remote!httpVars, Remote!Sends, Remote!controlVars, RemoteInv,
     Remote!RemoteTypeOK, AnswerIsWhole
<1>27. CASE Remote!Waits
  BY <1>27 DEF Remote!Waits, Remote!SupervisorGoes, Remote!httpVars,
     Remote!Reaped, Remote!controlVars, RemoteInv, Remote!RemoteTypeOK,
     AnswerIsWhole
<1>28. CASE Remote!SendsRelease
  BY <1>28 DEF Remote!SendsRelease, Remote!WorkerAlive, Remote!SupervisorGoes,
     Remote!httpVars, Remote!Reaped, RemoteInv, Remote!RemoteTypeOK, AnswerIsWhole
<1>29. CASE Remote!EndsReleased
  BY <1>29 DEF Remote!EndsReleased, Remote!SupervisorGoes, Remote!httpVars,
     Remote!Reaped, Remote!controlVars, RemoteInv, Remote!RemoteTypeOK,
     AnswerIsWhole
<1>30. CASE Remote!DoesNotEnd
  BY <1>30 DEF Remote!DoesNotEnd, Remote!WorkerAlive, Remote!SupervisorGoes,
     Remote!httpVars, Remote!controlVars, RemoteInv, Remote!RemoteTypeOK,
     AnswerIsWhole
<1>31. CASE Remote!CleanupOutOfTime
  BY <1>31 DEF Remote!CleanupOutOfTime, Remote!SupervisorGoes, Remote!httpVars,
     Remote!controlVars, RemoteInv, Remote!RemoteTypeOK, AnswerIsWhole
<1>32. CASE Remote!Concludes
  BY <1>32 DEF Remote!Concludes, Remote!SupervisorGoes, Remote!httpVars,
     Remote!Answer, RemoteInv, Remote!RemoteTypeOK, AnswerIsWhole
<1>33. CASE Remote!SupervisorKilled
  BY <1>33 DEF Remote!SupervisorKilled, Remote!SupervisorRuns, Remote!httpVars,
     Remote!ownVars, RemoteInv, Remote!RemoteTypeOK, AnswerIsWhole
<1>34. CASE Remote!DeadlinePasses
  BY <1>34 DEF Remote!DeadlinePasses, Remote!controlVars, Remote!workerVars,
     Remote!httpVars, Remote!ownVars, RemoteInv, Remote!RemoteTypeOK,
     AnswerIsWhole
<1>35. CASE Remote!ParentChanged /\ Remote!WorkerEndsWith("error")
  BY <1>35 DEF Remote!ParentChanged, Remote!WorkerEndsWith, Remote!WorkerAlive, Remote!controlVars,
     Remote!httpVars, Remote!ownVars, RemoteInv, Remote!RemoteTypeOK, AnswerIsWhole
<1> QED
  BY <1>1, <1>2, <1>3, <1>4, <1>5, <1>6, <1>7, <1>8, <1>9, <1>10, <1>11, <1>12,
     <1>13, <1>14, <1>15, <1>16, <1>17, <1>18, <1>19, <1>20, <1>21, <1>22, <1>23,
     <1>24, <1>25, <1>26, <1>27, <1>28, <1>29, <1>30, <1>31, <1>32, <1>33, <1>34,
     <1>35 DEF Remote!RemoteNext, Remote!SupervisorStep, Remote!WorkerStep,
     Remote!WorkerStarts, Remote!Server

LEMMA StillEndsAsReleased ==
    ASSUME RemoteInv, Remote!RemoteNext
    PROVE  EndsAsReleased'
<1>1. CASE Remote!ReadsParent
  BY <1>1 DEF Remote!ReadsParent, Remote!WorkerGoes, Remote!controlVars,
     Remote!ownVars, Remote!httpVars, RemoteInv, Remote!RemoteTypeOK,
     EndsAsReleased
<1>2. CASE Remote!ArmsDeathSignal
  BY <1>2 DEF Remote!ArmsDeathSignal, Remote!WorkerGoes, Remote!controlVars,
     Remote!ownVars, Remote!ParentChanged, Remote!httpVars, RemoteInv,
     Remote!RemoteTypeOK, EndsAsReleased
<1>3. CASE Remote!LoadsRuntime
  BY <1>3 DEF Remote!LoadsRuntime, Remote!WorkerGoes, Remote!controlVars,
     Remote!ownVars, Remote!httpVars, RemoteInv, Remote!RemoteTypeOK,
     EndsAsReleased
<1>4. CASE Remote!ReadsRequest
  BY <1>4 DEF Remote!ReadsRequest, Remote!WorkerGoes, Remote!controlVars,
     Remote!ownVars, Remote!httpVars, RemoteInv, Remote!RemoteTypeOK,
     EndsAsReleased
<1>5. CASE Remote!RequestRefused
  BY <1>5 DEF Remote!RequestRefused, Remote!WorkerEndsWith, Remote!WorkerAlive,
     Remote!controlVars, Remote!httpVars, Remote!ownVars, RemoteInv,
     Remote!RemoteTypeOK, EndsAsReleased
<1>6. CASE Remote!WritesAnswer
  BY <1>6 DEF Remote!WritesAnswer, Remote!WorkerGoes, Remote!controlVars,
     Remote!ownVars, Remote!httpVars, RemoteInv, Remote!RemoteTypeOK,
     EndsAsReleased
<1>7. CASE Remote!Released
  BY <1>7 DEF Remote!Released, Remote!WorkerEndsWith, Remote!WorkerAlive,
     Remote!controlVars, Remote!httpVars, Remote!ownVars, RemoteInv,
     Remote!RemoteTypeOK, EndsAsReleased
<1>8. CASE Remote!Abandoned
  BY <1>8 DEF Remote!Abandoned, Remote!WorkerEndsWith, Remote!WorkerAlive,
     Remote!controlVars, Remote!httpVars, Remote!ownVars, RemoteInv,
     Remote!RemoteTypeOK, EndsAsReleased
<1>9. CASE Remote!OutOfTime
  BY <1>9 DEF Remote!OutOfTime, Remote!WorkerEndsWith, Remote!WorkerAlive,
     Remote!controlVars, Remote!httpVars, Remote!ownVars, RemoteInv,
     Remote!RemoteTypeOK, EndsAsReleased
<1>10. CASE Remote!Signalled
  BY <1>10 DEF Remote!Signalled, Remote!WorkerEndsWith, Remote!WorkerAlive,
     Remote!controlVars, Remote!httpVars, Remote!ownVars, RemoteInv,
     Remote!RemoteTypeOK, EndsAsReleased
<1>11. CASE Remote!WorkerFails
  BY <1>11 DEF Remote!WorkerFails, Remote!WorkerEndsWith, Remote!WorkerAlive,
     Remote!controlVars, Remote!httpVars, Remote!ownVars, RemoteInv,
     Remote!RemoteTypeOK, EndsAsReleased
<1>12. CASE Remote!Redirected
  BY <1>12 DEF Remote!Redirected, Remote!WorkerGoes, Remote!controlVars,
     Remote!ownVars, RemoteInv, Remote!RemoteTypeOK, EndsAsReleased
<1>13. CASE Remote!TierRejected
  BY <1>13 DEF Remote!TierRejected, Remote!WorkerGoes, Remote!controlVars,
     Remote!ownVars, RemoteInv, Remote!RemoteTypeOK, EndsAsReleased
<1>14. CASE Remote!ServerAnswers
  BY <1>14 DEF Remote!ServerAnswers, Remote!WorkerGoes, Remote!controlVars,
     Remote!ownVars, Remote!httpVars, RemoteInv, Remote!RemoteTypeOK,
     EndsAsReleased
<1>15. CASE Remote!NotStarted
  BY <1>15 DEF Remote!NotStarted, Remote!SupervisorGoes, Remote!httpVars,
     Remote!controlVars, RemoteInv, Remote!RemoteTypeOK, EndsAsReleased
<1>16. CASE Remote!Spawns
  BY <1>16 DEF Remote!Spawns, Remote!SupervisorGoes, Remote!httpVars,
     Remote!controlVars, Remote!ownVars, RemoteInv, Remote!RemoteTypeOK,
     EndsAsReleased
<1>17. CASE Remote!BindsWorker
  BY <1>17 DEF Remote!BindsWorker, Remote!SupervisorGoes, Remote!httpVars,
     Remote!controlVars, Remote!ownVars, RemoteInv, Remote!RemoteTypeOK,
     EndsAsReleased
<1>18. CASE Remote!BindFails
  BY <1>18 DEF Remote!BindFails, Remote!SupervisorGoes, Remote!httpVars,
     Remote!controlVars, RemoteInv, Remote!RemoteTypeOK, EndsAsReleased
<1>19. CASE Remote!Abandons
  BY <1>19 DEF Remote!Abandons, Remote!SupervisorGoes, Remote!httpVars, RemoteInv,
     Remote!RemoteTypeOK, EndsAsReleased
<1>20. CASE Remote!SendsRequest
  BY <1>20 DEF Remote!SendsRequest, Remote!WorkerAlive, Remote!SupervisorGoes,
     Remote!httpVars, RemoteInv, Remote!RemoteTypeOK, EndsAsReleased
<1>21. CASE Remote!TakesAnswer
  BY <1>21 DEF Remote!TakesAnswer, Remote!WorkerAlive, Remote!SupervisorGoes,
     Remote!httpVars, Remote!controlVars, RemoteInv, Remote!RemoteTypeOK,
     EndsAsReleased
<1>22. CASE Remote!PumpFails
  BY <1>22 DEF Remote!PumpFails, Remote!SupervisorGoes, Remote!httpVars,
     Remote!controlVars, RemoteInv, Remote!RemoteTypeOK, EndsAsReleased
<1>23. CASE Remote!Decodes
  BY <1>23 DEF Remote!Decodes, Remote!SupervisorGoes, Remote!httpVars,
     Remote!controlVars, RemoteInv, Remote!RemoteTypeOK, EndsAsReleased
<1>24. CASE Remote!ClosesControl
  BY <1>24 DEF Remote!ClosesControl, Remote!WorkerAlive, Remote!SupervisorGoes,
     Remote!httpVars, Remote!Reaped, Remote!Sends, RemoteInv, Remote!RemoteTypeOK,
     EndsAsReleased
<1>25. CASE Remote!EndsInTime
  BY <1>25 DEF Remote!EndsInTime, Remote!SupervisorGoes, Remote!httpVars,
     Remote!Reaped, Remote!controlVars, RemoteInv, Remote!RemoteTypeOK,
     EndsAsReleased
<1>26. CASE Remote!KillsWorker
  BY <1>26 DEF Remote!KillsWorker, Remote!WorkerAlive, Remote!SupervisorGoes,
     Remote!httpVars, Remote!Sends, Remote!controlVars, RemoteInv,
     Remote!RemoteTypeOK, EndsAsReleased
<1>27. CASE Remote!Waits
  BY <1>27 DEF Remote!Waits, Remote!SupervisorGoes, Remote!httpVars,
     Remote!Reaped, Remote!controlVars, RemoteInv, Remote!RemoteTypeOK,
     EndsAsReleased
<1>28. CASE Remote!SendsRelease
  BY <1>28 DEF Remote!SendsRelease, Remote!WorkerAlive, Remote!SupervisorGoes,
     Remote!httpVars, Remote!Reaped, RemoteInv, Remote!RemoteTypeOK,
     EndsAsReleased
<1>29. CASE Remote!EndsReleased
  BY <1>29 DEF Remote!EndsReleased, Remote!SupervisorGoes, Remote!httpVars,
     Remote!Reaped, Remote!controlVars, RemoteInv, Remote!RemoteTypeOK,
     EndsAsReleased
<1>30. CASE Remote!DoesNotEnd
  BY <1>30 DEF Remote!DoesNotEnd, Remote!WorkerAlive, Remote!SupervisorGoes,
     Remote!httpVars, Remote!controlVars, RemoteInv, Remote!RemoteTypeOK,
     EndsAsReleased
<1>31. CASE Remote!CleanupOutOfTime
  BY <1>31 DEF Remote!CleanupOutOfTime, Remote!SupervisorGoes, Remote!httpVars,
     Remote!controlVars, RemoteInv, Remote!RemoteTypeOK, EndsAsReleased
<1>32. CASE Remote!Concludes
  BY <1>32 DEF Remote!Concludes, Remote!SupervisorGoes, Remote!httpVars,
     Remote!Answer, RemoteInv, Remote!RemoteTypeOK, EndsAsReleased
<1>33. CASE Remote!SupervisorKilled
  BY <1>33 DEF Remote!SupervisorKilled, Remote!SupervisorRuns, Remote!httpVars,
     Remote!ownVars, RemoteInv, Remote!RemoteTypeOK, EndsAsReleased
<1>34. CASE Remote!DeadlinePasses
  BY <1>34 DEF Remote!DeadlinePasses, Remote!controlVars, Remote!workerVars,
     Remote!httpVars, Remote!ownVars, RemoteInv, Remote!RemoteTypeOK,
     EndsAsReleased
<1>35. CASE Remote!ParentChanged /\ Remote!WorkerEndsWith("error")
  BY <1>35 DEF Remote!ParentChanged, Remote!WorkerEndsWith, Remote!WorkerAlive, Remote!controlVars,
     Remote!httpVars, Remote!ownVars, RemoteInv, Remote!RemoteTypeOK, EndsAsReleased
<1> QED
  BY <1>1, <1>2, <1>3, <1>4, <1>5, <1>6, <1>7, <1>8, <1>9, <1>10, <1>11, <1>12,
     <1>13, <1>14, <1>15, <1>16, <1>17, <1>18, <1>19, <1>20, <1>21, <1>22, <1>23,
     <1>24, <1>25, <1>26, <1>27, <1>28, <1>29, <1>30, <1>31, <1>32, <1>33, <1>34,
     <1>35 DEF Remote!RemoteNext, Remote!SupervisorStep, Remote!WorkerStep,
     Remote!WorkerStarts, Remote!Server

LEMMA StillConcludesRightly ==
    ASSUME RemoteInv, Remote!RemoteNext
    PROVE  ConcludesRightly'
<1>1. CASE Remote!ReadsParent
  BY <1>1 DEF Remote!ReadsParent, Remote!WorkerGoes, Remote!controlVars,
     Remote!ownVars, Remote!httpVars, RemoteInv, Remote!RemoteTypeOK,
     ConcludesRightly
<1>2. CASE Remote!ArmsDeathSignal
  BY <1>2 DEF Remote!ArmsDeathSignal, Remote!WorkerGoes, Remote!controlVars,
     Remote!ownVars, Remote!ParentChanged, Remote!httpVars, RemoteInv,
     Remote!RemoteTypeOK, ConcludesRightly
<1>3. CASE Remote!LoadsRuntime
  BY <1>3 DEF Remote!LoadsRuntime, Remote!WorkerGoes, Remote!controlVars,
     Remote!ownVars, Remote!httpVars, RemoteInv, Remote!RemoteTypeOK,
     ConcludesRightly
<1>4. CASE Remote!ReadsRequest
  BY <1>4 DEF Remote!ReadsRequest, Remote!WorkerGoes, Remote!controlVars,
     Remote!ownVars, Remote!httpVars, RemoteInv, Remote!RemoteTypeOK,
     ConcludesRightly
<1>5. CASE Remote!RequestRefused
  BY <1>5 DEF Remote!RequestRefused, Remote!WorkerEndsWith, Remote!WorkerAlive,
     Remote!controlVars, Remote!httpVars, Remote!ownVars, RemoteInv,
     Remote!RemoteTypeOK, ConcludesRightly
<1>6. CASE Remote!WritesAnswer
  BY <1>6 DEF Remote!WritesAnswer, Remote!WorkerGoes, Remote!controlVars,
     Remote!ownVars, Remote!httpVars, RemoteInv, Remote!RemoteTypeOK,
     ConcludesRightly
<1>7. CASE Remote!Released
  BY <1>7 DEF Remote!Released, Remote!WorkerEndsWith, Remote!WorkerAlive,
     Remote!controlVars, Remote!httpVars, Remote!ownVars, RemoteInv,
     Remote!RemoteTypeOK, ConcludesRightly
<1>8. CASE Remote!Abandoned
  BY <1>8 DEF Remote!Abandoned, Remote!WorkerEndsWith, Remote!WorkerAlive,
     Remote!controlVars, Remote!httpVars, Remote!ownVars, RemoteInv,
     Remote!RemoteTypeOK, ConcludesRightly
<1>9. CASE Remote!OutOfTime
  BY <1>9 DEF Remote!OutOfTime, Remote!WorkerEndsWith, Remote!WorkerAlive,
     Remote!controlVars, Remote!httpVars, Remote!ownVars, RemoteInv,
     Remote!RemoteTypeOK, ConcludesRightly
<1>10. CASE Remote!Signalled
  BY <1>10 DEF Remote!Signalled, Remote!WorkerEndsWith, Remote!WorkerAlive,
     Remote!controlVars, Remote!httpVars, Remote!ownVars, RemoteInv,
     Remote!RemoteTypeOK, ConcludesRightly
<1>11. CASE Remote!WorkerFails
  BY <1>11 DEF Remote!WorkerFails, Remote!WorkerEndsWith, Remote!WorkerAlive,
     Remote!controlVars, Remote!httpVars, Remote!ownVars, RemoteInv,
     Remote!RemoteTypeOK, ConcludesRightly
<1>12. CASE Remote!Redirected
  BY <1>12 DEF Remote!Redirected, Remote!WorkerGoes, Remote!controlVars,
     Remote!ownVars, RemoteInv, Remote!RemoteTypeOK, ConcludesRightly
<1>13. CASE Remote!TierRejected
  BY <1>13 DEF Remote!TierRejected, Remote!WorkerGoes, Remote!controlVars,
     Remote!ownVars, RemoteInv, Remote!RemoteTypeOK, ConcludesRightly
<1>14. CASE Remote!ServerAnswers
  BY <1>14 DEF Remote!ServerAnswers, Remote!WorkerGoes, Remote!controlVars,
     Remote!ownVars, Remote!httpVars, RemoteInv, Remote!RemoteTypeOK,
     ConcludesRightly
<1>15. CASE Remote!NotStarted
  BY <1>15 DEF Remote!NotStarted, Remote!SupervisorGoes, Remote!httpVars,
     Remote!controlVars, RemoteInv, Remote!RemoteTypeOK, ConcludesRightly
<1>16. CASE Remote!Spawns
  BY <1>16 DEF Remote!Spawns, Remote!SupervisorGoes, Remote!httpVars,
     Remote!controlVars, Remote!ownVars, RemoteInv, Remote!RemoteTypeOK,
     ConcludesRightly
<1>17. CASE Remote!BindsWorker
  BY <1>17 DEF Remote!BindsWorker, Remote!SupervisorGoes, Remote!httpVars,
     Remote!controlVars, Remote!ownVars, RemoteInv, Remote!RemoteTypeOK,
     ConcludesRightly
<1>18. CASE Remote!BindFails
  BY <1>18 DEF Remote!BindFails, Remote!SupervisorGoes, Remote!httpVars,
     Remote!controlVars, RemoteInv, Remote!RemoteTypeOK, ConcludesRightly
<1>19. CASE Remote!Abandons
  BY <1>19 DEF Remote!Abandons, Remote!SupervisorGoes, Remote!httpVars, RemoteInv,
     Remote!RemoteTypeOK, ConcludesRightly
<1>20. CASE Remote!SendsRequest
  BY <1>20 DEF Remote!SendsRequest, Remote!WorkerAlive, Remote!SupervisorGoes,
     Remote!httpVars, RemoteInv, Remote!RemoteTypeOK, ConcludesRightly
<1>21. CASE Remote!TakesAnswer
  BY <1>21 DEF Remote!TakesAnswer, Remote!WorkerAlive, Remote!SupervisorGoes,
     Remote!httpVars, Remote!controlVars, RemoteInv, Remote!RemoteTypeOK,
     ConcludesRightly
<1>22. CASE Remote!PumpFails
  BY <1>22 DEF Remote!PumpFails, Remote!SupervisorGoes, Remote!httpVars,
     Remote!controlVars, RemoteInv, Remote!RemoteTypeOK, ConcludesRightly
<1>23. CASE Remote!Decodes
  BY <1>23 DEF Remote!Decodes, Remote!SupervisorGoes, Remote!httpVars,
     Remote!controlVars, RemoteInv, Remote!RemoteTypeOK, ConcludesRightly
<1>24. CASE Remote!ClosesControl
  BY <1>24 DEF Remote!ClosesControl, Remote!WorkerAlive, Remote!SupervisorGoes,
     Remote!httpVars, Remote!Reaped, Remote!Sends, RemoteInv, Remote!RemoteTypeOK,
     ConcludesRightly
<1>25. CASE Remote!EndsInTime
  BY <1>25 DEF Remote!EndsInTime, Remote!SupervisorGoes, Remote!httpVars,
     Remote!Reaped, Remote!controlVars, RemoteInv, Remote!RemoteTypeOK,
     ConcludesRightly
<1>26. CASE Remote!KillsWorker
  BY <1>26 DEF Remote!KillsWorker, Remote!WorkerAlive, Remote!SupervisorGoes,
     Remote!httpVars, Remote!Sends, Remote!controlVars, RemoteInv,
     Remote!RemoteTypeOK, ConcludesRightly
<1>27. CASE Remote!Waits
  BY <1>27 DEF Remote!Waits, Remote!SupervisorGoes, Remote!httpVars,
     Remote!Reaped, Remote!controlVars, RemoteInv, Remote!RemoteTypeOK,
     ConcludesRightly
<1>28. CASE Remote!SendsRelease
  BY <1>28 DEF Remote!SendsRelease, Remote!WorkerAlive, Remote!SupervisorGoes,
     Remote!httpVars, Remote!Reaped, RemoteInv, Remote!RemoteTypeOK,
     ConcludesRightly
<1>29. CASE Remote!EndsReleased
  BY <1>29 DEF Remote!EndsReleased, Remote!SupervisorGoes, Remote!httpVars,
     Remote!Reaped, Remote!controlVars, RemoteInv, Remote!RemoteTypeOK,
     ConcludesRightly
<1>30. CASE Remote!DoesNotEnd
  BY <1>30 DEF Remote!DoesNotEnd, Remote!WorkerAlive, Remote!SupervisorGoes,
     Remote!httpVars, Remote!controlVars, RemoteInv, Remote!RemoteTypeOK,
     ConcludesRightly
<1>31. CASE Remote!CleanupOutOfTime
  BY <1>31 DEF Remote!CleanupOutOfTime, Remote!SupervisorGoes, Remote!httpVars,
     Remote!controlVars, RemoteInv, Remote!RemoteTypeOK, ConcludesRightly
<1>32. CASE Remote!Concludes
  BY <1>32 DEF Remote!Concludes, Remote!SupervisorGoes, Remote!httpVars,
     Remote!Answer, RemoteInv, Remote!RemoteTypeOK, ConcludesRightly
<1>33. CASE Remote!SupervisorKilled
  BY <1>33 DEF Remote!SupervisorKilled, Remote!SupervisorRuns, Remote!httpVars,
     Remote!ownVars, RemoteInv, Remote!RemoteTypeOK, ConcludesRightly
<1>34. CASE Remote!DeadlinePasses
  BY <1>34 DEF Remote!DeadlinePasses, Remote!controlVars, Remote!workerVars,
     Remote!httpVars, Remote!ownVars, RemoteInv, Remote!RemoteTypeOK,
     ConcludesRightly
<1>35. CASE Remote!ParentChanged /\ Remote!WorkerEndsWith("error")
  BY <1>35 DEF Remote!ParentChanged, Remote!WorkerEndsWith, Remote!WorkerAlive, Remote!controlVars,
     Remote!httpVars, Remote!ownVars, RemoteInv, Remote!RemoteTypeOK, ConcludesRightly
<1> QED
  BY <1>1, <1>2, <1>3, <1>4, <1>5, <1>6, <1>7, <1>8, <1>9, <1>10, <1>11, <1>12,
     <1>13, <1>14, <1>15, <1>16, <1>17, <1>18, <1>19, <1>20, <1>21, <1>22, <1>23,
     <1>24, <1>25, <1>26, <1>27, <1>28, <1>29, <1>30, <1>31, <1>32, <1>33, <1>34,
     <1>35 DEF Remote!RemoteNext, Remote!SupervisorStep, Remote!WorkerStep,
     Remote!WorkerStarts, Remote!Server

LEMMA StaysAnsweredAlone ==
    ASSUME RemoteInv, Remote!RemoteNext
    PROVE  Remote!AnsweredAlone'
<1>1. CASE Remote!ReadsParent
  BY <1>1 DEF Remote!ReadsParent, Remote!WorkerGoes, Remote!controlVars,
     Remote!ownVars, Remote!httpVars, RemoteInv, Remote!RemoteTypeOK,
     AnswerIsWhole, EndsAsReleased, ConcludesRightly, Remote!AnsweredAlone
<1>2. CASE Remote!ArmsDeathSignal
  BY <1>2 DEF Remote!ArmsDeathSignal, Remote!WorkerGoes, Remote!controlVars,
     Remote!ownVars, Remote!ParentChanged, Remote!httpVars, RemoteInv,
     Remote!RemoteTypeOK, AnswerIsWhole, EndsAsReleased, ConcludesRightly,
     Remote!AnsweredAlone
<1>3. CASE Remote!LoadsRuntime
  BY <1>3 DEF Remote!LoadsRuntime, Remote!WorkerGoes, Remote!controlVars,
     Remote!ownVars, Remote!httpVars, RemoteInv, Remote!RemoteTypeOK,
     AnswerIsWhole, EndsAsReleased, ConcludesRightly, Remote!AnsweredAlone
<1>4. CASE Remote!ReadsRequest
  BY <1>4 DEF Remote!ReadsRequest, Remote!WorkerGoes, Remote!controlVars,
     Remote!ownVars, Remote!httpVars, RemoteInv, Remote!RemoteTypeOK,
     AnswerIsWhole, EndsAsReleased, ConcludesRightly, Remote!AnsweredAlone
<1>5. CASE Remote!RequestRefused
  BY <1>5 DEF Remote!RequestRefused, Remote!WorkerEndsWith, Remote!WorkerAlive,
     Remote!controlVars, Remote!httpVars, Remote!ownVars, RemoteInv,
     Remote!RemoteTypeOK, AnswerIsWhole, EndsAsReleased, ConcludesRightly,
     Remote!AnsweredAlone
<1>6. CASE Remote!WritesAnswer
  BY <1>6 DEF Remote!WritesAnswer, Remote!WorkerGoes, Remote!controlVars,
     Remote!ownVars, Remote!httpVars, RemoteInv, Remote!RemoteTypeOK,
     AnswerIsWhole, EndsAsReleased, ConcludesRightly, Remote!AnsweredAlone
<1>7. CASE Remote!Released
  BY <1>7 DEF Remote!Released, Remote!WorkerEndsWith, Remote!WorkerAlive,
     Remote!controlVars, Remote!httpVars, Remote!ownVars, RemoteInv,
     Remote!RemoteTypeOK, AnswerIsWhole, EndsAsReleased, ConcludesRightly,
     Remote!AnsweredAlone
<1>8. CASE Remote!Abandoned
  BY <1>8 DEF Remote!Abandoned, Remote!WorkerEndsWith, Remote!WorkerAlive,
     Remote!controlVars, Remote!httpVars, Remote!ownVars, RemoteInv,
     Remote!RemoteTypeOK, AnswerIsWhole, EndsAsReleased, ConcludesRightly,
     Remote!AnsweredAlone
<1>9. CASE Remote!OutOfTime
  BY <1>9 DEF Remote!OutOfTime, Remote!WorkerEndsWith, Remote!WorkerAlive,
     Remote!controlVars, Remote!httpVars, Remote!ownVars, RemoteInv,
     Remote!RemoteTypeOK, AnswerIsWhole, EndsAsReleased, ConcludesRightly,
     Remote!AnsweredAlone
<1>10. CASE Remote!Signalled
  BY <1>10 DEF Remote!Signalled, Remote!WorkerEndsWith, Remote!WorkerAlive,
     Remote!controlVars, Remote!httpVars, Remote!ownVars, RemoteInv,
     Remote!RemoteTypeOK, AnswerIsWhole, EndsAsReleased, ConcludesRightly,
     Remote!AnsweredAlone
<1>11. CASE Remote!WorkerFails
  BY <1>11 DEF Remote!WorkerFails, Remote!WorkerEndsWith, Remote!WorkerAlive,
     Remote!controlVars, Remote!httpVars, Remote!ownVars, RemoteInv,
     Remote!RemoteTypeOK, AnswerIsWhole, EndsAsReleased, ConcludesRightly,
     Remote!AnsweredAlone
<1>12. CASE Remote!Redirected
  BY <1>12 DEF Remote!Redirected, Remote!WorkerGoes, Remote!controlVars,
     Remote!ownVars, RemoteInv, Remote!RemoteTypeOK, AnswerIsWhole,
     EndsAsReleased, ConcludesRightly, Remote!AnsweredAlone
<1>13. CASE Remote!TierRejected
  BY <1>13 DEF Remote!TierRejected, Remote!WorkerGoes, Remote!controlVars,
     Remote!ownVars, RemoteInv, Remote!RemoteTypeOK, AnswerIsWhole,
     EndsAsReleased, ConcludesRightly, Remote!AnsweredAlone
<1>14. CASE Remote!ServerAnswers
  BY <1>14 DEF Remote!ServerAnswers, Remote!WorkerGoes, Remote!controlVars,
     Remote!ownVars, Remote!httpVars, RemoteInv, Remote!RemoteTypeOK,
     AnswerIsWhole, EndsAsReleased, ConcludesRightly, Remote!AnsweredAlone
<1>15. CASE Remote!NotStarted
  BY <1>15 DEF Remote!NotStarted, Remote!SupervisorGoes, Remote!httpVars,
     Remote!controlVars, RemoteInv, Remote!RemoteTypeOK, AnswerIsWhole,
     EndsAsReleased, ConcludesRightly, Remote!AnsweredAlone
<1>16. CASE Remote!Spawns
  BY <1>16 DEF Remote!Spawns, Remote!SupervisorGoes, Remote!httpVars,
     Remote!controlVars, Remote!ownVars, RemoteInv, Remote!RemoteTypeOK,
     AnswerIsWhole, EndsAsReleased, ConcludesRightly, Remote!AnsweredAlone
<1>17. CASE Remote!BindsWorker
  BY <1>17 DEF Remote!BindsWorker, Remote!SupervisorGoes, Remote!httpVars,
     Remote!controlVars, Remote!ownVars, RemoteInv, Remote!RemoteTypeOK,
     AnswerIsWhole, EndsAsReleased, ConcludesRightly, Remote!AnsweredAlone
<1>18. CASE Remote!BindFails
  BY <1>18 DEF Remote!BindFails, Remote!SupervisorGoes, Remote!httpVars,
     Remote!controlVars, RemoteInv, Remote!RemoteTypeOK, AnswerIsWhole,
     EndsAsReleased, ConcludesRightly, Remote!AnsweredAlone
<1>19. CASE Remote!Abandons
  BY <1>19 DEF Remote!Abandons, Remote!SupervisorGoes, Remote!httpVars, RemoteInv,
     Remote!RemoteTypeOK, AnswerIsWhole, EndsAsReleased, ConcludesRightly,
     Remote!AnsweredAlone
<1>20. CASE Remote!SendsRequest
  BY <1>20 DEF Remote!SendsRequest, Remote!WorkerAlive, Remote!SupervisorGoes,
     Remote!httpVars, RemoteInv, Remote!RemoteTypeOK, AnswerIsWhole,
     EndsAsReleased, ConcludesRightly, Remote!AnsweredAlone
<1>21. CASE Remote!TakesAnswer
  BY <1>21 DEF Remote!TakesAnswer, Remote!WorkerAlive, Remote!SupervisorGoes,
     Remote!httpVars, Remote!controlVars, RemoteInv, Remote!RemoteTypeOK,
     AnswerIsWhole, EndsAsReleased, ConcludesRightly, Remote!AnsweredAlone
<1>22. CASE Remote!PumpFails
  BY <1>22 DEF Remote!PumpFails, Remote!SupervisorGoes, Remote!httpVars,
     Remote!controlVars, RemoteInv, Remote!RemoteTypeOK, AnswerIsWhole,
     EndsAsReleased, ConcludesRightly, Remote!AnsweredAlone
<1>23. CASE Remote!Decodes
  BY <1>23 DEF Remote!Decodes, Remote!SupervisorGoes, Remote!httpVars,
     Remote!controlVars, RemoteInv, Remote!RemoteTypeOK, AnswerIsWhole,
     EndsAsReleased, ConcludesRightly, Remote!AnsweredAlone
<1>24. CASE Remote!ClosesControl
  BY <1>24 DEF Remote!ClosesControl, Remote!WorkerAlive, Remote!SupervisorGoes,
     Remote!httpVars, Remote!Reaped, Remote!Sends, RemoteInv, Remote!RemoteTypeOK,
     AnswerIsWhole, EndsAsReleased, ConcludesRightly, Remote!AnsweredAlone
<1>25. CASE Remote!EndsInTime
  BY <1>25 DEF Remote!EndsInTime, Remote!SupervisorGoes, Remote!httpVars,
     Remote!Reaped, Remote!controlVars, RemoteInv, Remote!RemoteTypeOK,
     AnswerIsWhole, EndsAsReleased, ConcludesRightly, Remote!AnsweredAlone
<1>26. CASE Remote!KillsWorker
  BY <1>26 DEF Remote!KillsWorker, Remote!WorkerAlive, Remote!SupervisorGoes,
     Remote!httpVars, Remote!Sends, Remote!controlVars, RemoteInv,
     Remote!RemoteTypeOK, AnswerIsWhole, EndsAsReleased, ConcludesRightly,
     Remote!AnsweredAlone
<1>27. CASE Remote!Waits
  BY <1>27 DEF Remote!Waits, Remote!SupervisorGoes, Remote!httpVars,
     Remote!Reaped, Remote!controlVars, RemoteInv, Remote!RemoteTypeOK,
     AnswerIsWhole, EndsAsReleased, ConcludesRightly, Remote!AnsweredAlone
<1>28. CASE Remote!SendsRelease
  BY <1>28 DEF Remote!SendsRelease, Remote!WorkerAlive, Remote!SupervisorGoes,
     Remote!httpVars, Remote!Reaped, RemoteInv, Remote!RemoteTypeOK,
     AnswerIsWhole, EndsAsReleased, ConcludesRightly, Remote!AnsweredAlone
<1>29. CASE Remote!EndsReleased
  BY <1>29 DEF Remote!EndsReleased, Remote!SupervisorGoes, Remote!httpVars,
     Remote!Reaped, Remote!controlVars, RemoteInv, Remote!RemoteTypeOK,
     AnswerIsWhole, EndsAsReleased, ConcludesRightly, Remote!AnsweredAlone
<1>30. CASE Remote!DoesNotEnd
  BY <1>30 DEF Remote!DoesNotEnd, Remote!WorkerAlive, Remote!SupervisorGoes,
     Remote!httpVars, Remote!controlVars, RemoteInv, Remote!RemoteTypeOK,
     AnswerIsWhole, EndsAsReleased, ConcludesRightly, Remote!AnsweredAlone
<1>31. CASE Remote!CleanupOutOfTime
  BY <1>31 DEF Remote!CleanupOutOfTime, Remote!SupervisorGoes, Remote!httpVars,
     Remote!controlVars, RemoteInv, Remote!RemoteTypeOK, AnswerIsWhole,
     EndsAsReleased, ConcludesRightly, Remote!AnsweredAlone
<1>32. CASE Remote!Concludes
  BY <1>32 DEF Remote!Concludes, Remote!SupervisorGoes, Remote!httpVars,
     Remote!Answer, RemoteInv, Remote!RemoteTypeOK, AnswerIsWhole, EndsAsReleased,
     ConcludesRightly, Remote!AnsweredAlone
<1>33. CASE Remote!SupervisorKilled
  BY <1>33 DEF Remote!SupervisorKilled, Remote!SupervisorRuns, Remote!httpVars,
     Remote!ownVars, RemoteInv, Remote!RemoteTypeOK, AnswerIsWhole,
     EndsAsReleased, ConcludesRightly, Remote!AnsweredAlone
<1>34. CASE Remote!DeadlinePasses
  BY <1>34 DEF Remote!DeadlinePasses, Remote!controlVars, Remote!workerVars,
     Remote!httpVars, Remote!ownVars, RemoteInv, Remote!RemoteTypeOK,
     AnswerIsWhole, EndsAsReleased, ConcludesRightly, Remote!AnsweredAlone
<1>35. CASE Remote!ParentChanged /\ Remote!WorkerEndsWith("error")
  BY <1>35 DEF Remote!ParentChanged, Remote!WorkerEndsWith, Remote!WorkerAlive, Remote!controlVars,
     Remote!httpVars, Remote!ownVars, RemoteInv, Remote!RemoteTypeOK, AnswerIsWhole, EndsAsReleased, ConcludesRightly, Remote!AnsweredAlone
<1> QED
  BY <1>1, <1>2, <1>3, <1>4, <1>5, <1>6, <1>7, <1>8, <1>9, <1>10, <1>11, <1>12,
     <1>13, <1>14, <1>15, <1>16, <1>17, <1>18, <1>19, <1>20, <1>21, <1>22, <1>23,
     <1>24, <1>25, <1>26, <1>27, <1>28, <1>29, <1>30, <1>31, <1>32, <1>33, <1>34,
     <1>35 DEF Remote!RemoteNext, Remote!SupervisorStep, Remote!WorkerStep,
     Remote!WorkerStarts, Remote!Server

THEOREM RemoteInvariant == Remote!RemoteSpec => []RemoteInv
<1>0. Remote!RemoteAssumption
  BY ProcessesConstants DEF ProcessesConstants
<1>1. Remote!RemoteInit => RemoteInv
  <2> SUFFICES ASSUME Remote!RemoteInit PROVE RemoteInv
    OBVIOUS
  <2>3. {armed, fellBack, seenAfterRequest, remoteCleanupOk, controlOpen, release} \subseteq BOOLEAN
    BY DEF Remote!RemoteInit
  <2>1. Remote!RemoteTypeOK
    BY <1>0, <2>3 DEF Remote!RemoteInit, Remote!RemoteTypeOK, Remote!RemoteAssumption
  <2>2. AnswerIsWhole /\ EndsAsReleased /\ ConcludesRightly /\ Remote!AnsweredAlone
    BY DEF Remote!RemoteInit, AnswerIsWhole, EndsAsReleased, ConcludesRightly, Remote!AnsweredAlone
  <2> QED
    BY <2>1, <2>2 DEF RemoteInv
<1>2. ASSUME RemoteInv, Remote!RemoteNext PROVE RemoteInv'
  BY <1>0, <1>2, RemoteTypeKept, AnswerStaysWhole, StillEndsAsReleased, StillConcludesRightly,
     StaysAnsweredAlone DEF RemoteInv
<1>3. RemoteInv /\ UNCHANGED Remote!remoteVars => RemoteInv'
  BY DEF Remote!remoteVars, Remote!workerVars, Remote!controlVars, Remote!httpVars, Remote!ownVars,
     RemoteInv, Remote!RemoteTypeOK, AnswerIsWhole, EndsAsReleased, ConcludesRightly,
     Remote!AnsweredAlone
<1> QED
  BY <1>1, <1>2, <1>3, PTL DEF Remote!RemoteSpec

(* remote_http.py - however often the server redirects and whatever fails: *)
(* the answer returned is one the worker wrote for the whole request, and  *)
(* no worker is left unless the supervisor says that it could not tell.    *)
THEOREM RemoteAnswersAlone == Remote!RemoteSpec => []Remote!AnsweredAlone
<1>1. RemoteInv => Remote!AnsweredAlone
  BY DEF RemoteInv
<1> QED
  BY <1>1, RemoteInvariant, PTL

-----------------------------------------------------------------------------
(* BoundedProcess.  The caller waits for the thread before it takes the    *)
(* process over, so it knows every process there is; and what it has not   *)
(* collected when it ends, the error notes.                                *)
HandedOver ==
    /\ caller \in {"opens", "starts"} => boundedWorker = "none"
    /\ boundedWorker \in {"none", "spawns"} => root = "none"
    /\ boundedWorker \in {"spawns", "publishes"} => caller \in {"awaits", "joins"}
    /\ boundedWorker = "done" /\ ~published => root = "none"
    /\ published => boundedWorker = "done"
    /\ caller = "takes" => (boundedKnown <=> published) /\ boundedWorker = "done"

NothingUnnoted ==
    /\ confirmed => root = "reaped"
    /\ caller \in {"closes", "ended"} => root \in {"none", "reaped"} \/ noted
    /\ boundedOutcome = "ok" => caller \in {"closes", "ended"} /\ root = "reaped"
    /\ caller = "ended" => readEnd # "open" /\ writeEnd # "open"

BoundedInv == Bounded!BoundedTypeOK /\ HandedOver /\ NothingUnnoted

LEMMA BoundedTypeKept ==
    ASSUME Bounded!BoundedAssumption, BoundedInv, Bounded!BoundedNext
    PROVE  Bounded!BoundedTypeOK'
<1>1. CASE Bounded!Spawns
  BY <1>1 DEF Bounded!Spawns, Bounded!pipeVars, Bounded!callVars, BoundedInv,
     Bounded!BoundedTypeOK, Bounded!BoundedAssumption
<1>2. CASE Bounded!SpawnFails
  BY <1>2 DEF Bounded!SpawnFails, Bounded!processVars, Bounded!pipeVars,
     Bounded!callVars, BoundedInv, Bounded!BoundedTypeOK,
     Bounded!BoundedAssumption
<1>3. CASE Bounded!Publishes
  BY <1>3 DEF Bounded!Publishes, Bounded!processVars, Bounded!pipeVars,
     Bounded!callVars, BoundedInv, Bounded!BoundedTypeOK,
     Bounded!BoundedAssumption
<1>4. CASE Bounded!Forks
  BY <1>4 DEF Bounded!Forks, Bounded!launchVars, Bounded!pipeVars,
     Bounded!callVars, BoundedInv, Bounded!BoundedTypeOK,
     Bounded!BoundedAssumption
<1>5. CASE Bounded!RootEnds
  BY <1>5 DEF Bounded!RootEnds, Bounded!launchVars, Bounded!pipeVars,
     Bounded!callVars, BoundedInv, Bounded!BoundedTypeOK,
     Bounded!BoundedAssumption
<1>6. CASE Bounded!KidEnds
  BY <1>6 DEF Bounded!KidEnds, Bounded!launchVars, Bounded!pipeVars,
     Bounded!callVars, BoundedInv, Bounded!BoundedTypeOK,
     Bounded!BoundedAssumption
<1>7. CASE Bounded!DeadlinePasses
  BY <1>7 DEF Bounded!DeadlinePasses, Bounded!processVars, Bounded!launchVars,
     Bounded!pipeVars, BoundedInv, Bounded!BoundedTypeOK,
     Bounded!BoundedAssumption
<1>8. CASE Bounded!Opens
  BY <1>8 DEF Bounded!Opens, Bounded!processVars, Bounded!launchVars,
     Bounded!callVars, BoundedInv, Bounded!BoundedTypeOK,
     Bounded!BoundedAssumption
<1>9. CASE Bounded!OpenFails
  BY <1>9 DEF Bounded!OpenFails, Bounded!processVars, Bounded!launchVars,
     Bounded!pipeVars, Bounded!callVars, BoundedInv, Bounded!BoundedTypeOK,
     Bounded!BoundedAssumption
<1>10. CASE Bounded!StartsThread
  BY <1>10 DEF Bounded!StartsThread, Bounded!processVars, Bounded!pipeVars,
     Bounded!callVars, BoundedInv, Bounded!BoundedTypeOK,
     Bounded!BoundedAssumption
<1>11. CASE Bounded!Awaits
  BY <1>11 DEF Bounded!Awaits, Bounded!processVars, Bounded!launchVars,
     Bounded!pipeVars, Bounded!callVars, BoundedInv, Bounded!BoundedTypeOK,
     Bounded!BoundedAssumption
<1>12. CASE Bounded!Joins
  BY <1>12 DEF Bounded!Joins, Bounded!processVars, Bounded!launchVars,
     Bounded!pipeVars, Bounded!callVars, BoundedInv, Bounded!BoundedTypeOK,
     Bounded!BoundedAssumption
<1>13. CASE Bounded!Takes
  BY <1>13 DEF Bounded!Takes, Bounded!Closed, Bounded!processVars,
     Bounded!launchVars, Bounded!callVars, BoundedInv, Bounded!BoundedTypeOK,
     Bounded!BoundedAssumption
<1>14. CASE Bounded!Identifies
  BY <1>14 DEF Bounded!Identifies, Bounded!processVars, Bounded!launchVars,
     Bounded!pipeVars, Bounded!callVars, BoundedInv, Bounded!BoundedTypeOK,
     Bounded!BoundedAssumption
<1>15. CASE Bounded!SeesExit
  BY <1>15 DEF Bounded!SeesExit, Bounded!launchVars, Bounded!pipeVars,
     Bounded!callVars, BoundedInv, Bounded!BoundedTypeOK,
     Bounded!BoundedAssumption
<1>16. CASE Bounded!StopsReading
  BY <1>16 DEF Bounded!StopsReading, Bounded!processVars, Bounded!launchVars,
     Bounded!pipeVars, Bounded!callVars, BoundedInv, Bounded!BoundedTypeOK,
     Bounded!BoundedAssumption
<1>17. CASE Bounded!TimesOut
  BY <1>17 DEF Bounded!TimesOut, Bounded!processVars, Bounded!launchVars,
     Bounded!pipeVars, Bounded!callVars, BoundedInv, Bounded!BoundedTypeOK,
     Bounded!BoundedAssumption
<1>18. CASE Bounded!TooMuch
  BY <1>18 DEF Bounded!TooMuch, Bounded!processVars, Bounded!launchVars,
     Bounded!pipeVars, Bounded!callVars, BoundedInv, Bounded!BoundedTypeOK,
     Bounded!BoundedAssumption
<1>19. CASE Bounded!Finishes
  BY <1>19 DEF Bounded!Finishes, Bounded!launchVars, Bounded!pipeVars,
     Bounded!callVars, BoundedInv, Bounded!BoundedTypeOK,
     Bounded!BoundedAssumption
<1>20. CASE Bounded!KillsChild
  BY <1>20 DEF Bounded!KillsChild, Bounded!launchVars, Bounded!pipeVars,
     Bounded!callVars, BoundedInv, Bounded!BoundedTypeOK,
     Bounded!BoundedAssumption
<1>21. CASE Bounded!KillFails
  BY <1>21 DEF Bounded!KillFails, Bounded!processVars, Bounded!launchVars,
     Bounded!pipeVars, Bounded!callVars, BoundedInv, Bounded!BoundedTypeOK,
     Bounded!BoundedAssumption
<1>22. CASE Bounded!Collects
  BY <1>22 DEF Bounded!Collects, Bounded!ReadsFrame, Bounded!Closed,
     Bounded!launchVars, Bounded!callVars, BoundedInv, Bounded!BoundedTypeOK,
     Bounded!BoundedAssumption
<1>23. CASE Bounded!Concludes
  BY <1>23 DEF Bounded!Concludes, Bounded!processVars, Bounded!launchVars,
     Bounded!pipeVars, Bounded!callVars, BoundedInv, Bounded!BoundedTypeOK,
     Bounded!BoundedAssumption
<1>24. CASE Bounded!Closes
  BY <1>24 DEF Bounded!Closes, Bounded!Closed, Bounded!processVars,
     Bounded!launchVars, Bounded!callVars, BoundedInv, Bounded!BoundedTypeOK,
     Bounded!BoundedAssumption
<1>25. CASE Bounded!InterruptsCall
  BY <1>25 DEF Bounded!InterruptsCall, Bounded!Interrupted, Bounded!processVars,
     Bounded!launchVars, Bounded!pipeVars, BoundedInv, Bounded!BoundedTypeOK,
     Bounded!BoundedAssumption
<1>26. CASE Bounded!InterruptsCleanup
  <2>1. /\ boundedAttempt < 2 /\ boundedAttempt' = boundedAttempt + 1
        /\ interrupts < MaxInterrupts /\ interrupts' = interrupts + 1
        /\ caller' \in {"kills", "concludes"} /\ confirmed' \in {confirmed, FALSE}
        /\ UNCHANGED <<boundedWorker, published, root, kid, boundedKnown, identity, readEnd, writeEnd, boundedFrame,
                        direct, boundedLate, boundedOutcome, noted>>
    BY <1>26 DEF Bounded!InterruptsCleanup, Bounded!launchVars, Bounded!processVars, Bounded!pipeVars
  <2>2. boundedAttempt' \in 0..2 /\ interrupts' \in 0..MaxInterrupts
    BY <2>1 DEF BoundedInv, Bounded!BoundedTypeOK, Bounded!BoundedAssumption
  <2>3. {published, boundedKnown, identity, direct, boundedLate, confirmed, noted}' \subseteq BOOLEAN
    BY <2>1 DEF BoundedInv, Bounded!BoundedTypeOK
  <2> QED
    BY <2>1, <2>2, <2>3 DEF BoundedInv, Bounded!BoundedTypeOK
<1> QED
  BY <1>1, <1>2, <1>3, <1>4, <1>5, <1>6, <1>7, <1>8, <1>9, <1>10, <1>11, <1>12,
     <1>13, <1>14, <1>15, <1>16, <1>17, <1>18, <1>19, <1>20, <1>21, <1>22, <1>23,
     <1>24, <1>25, <1>26 DEF Bounded!BoundedNext

LEMMA StillHandedOver ==
    ASSUME BoundedInv, Bounded!BoundedNext
    PROVE  HandedOver'
<1>1. CASE Bounded!Spawns
  BY <1>1 DEF Bounded!Spawns, Bounded!pipeVars, Bounded!callVars, BoundedInv,
     Bounded!BoundedTypeOK, HandedOver
<1>2. CASE Bounded!SpawnFails
  BY <1>2 DEF Bounded!SpawnFails, Bounded!processVars, Bounded!pipeVars,
     Bounded!callVars, BoundedInv, Bounded!BoundedTypeOK, HandedOver
<1>3. CASE Bounded!Publishes
  BY <1>3 DEF Bounded!Publishes, Bounded!processVars, Bounded!pipeVars,
     Bounded!callVars, BoundedInv, Bounded!BoundedTypeOK, HandedOver
<1>4. CASE Bounded!Forks
  BY <1>4 DEF Bounded!Forks, Bounded!launchVars, Bounded!pipeVars,
     Bounded!callVars, BoundedInv, Bounded!BoundedTypeOK, HandedOver
<1>5. CASE Bounded!RootEnds
  BY <1>5 DEF Bounded!RootEnds, Bounded!launchVars, Bounded!pipeVars,
     Bounded!callVars, BoundedInv, Bounded!BoundedTypeOK, HandedOver
<1>6. CASE Bounded!KidEnds
  BY <1>6 DEF Bounded!KidEnds, Bounded!launchVars, Bounded!pipeVars,
     Bounded!callVars, BoundedInv, Bounded!BoundedTypeOK, HandedOver
<1>7. CASE Bounded!DeadlinePasses
  BY <1>7 DEF Bounded!DeadlinePasses, Bounded!processVars, Bounded!launchVars,
     Bounded!pipeVars, BoundedInv, Bounded!BoundedTypeOK, HandedOver
<1>8. CASE Bounded!Opens
  BY <1>8 DEF Bounded!Opens, Bounded!processVars, Bounded!launchVars,
     Bounded!callVars, BoundedInv, Bounded!BoundedTypeOK, HandedOver
<1>9. CASE Bounded!OpenFails
  BY <1>9 DEF Bounded!OpenFails, Bounded!processVars, Bounded!launchVars,
     Bounded!pipeVars, Bounded!callVars, BoundedInv, Bounded!BoundedTypeOK,
     HandedOver
<1>10. CASE Bounded!StartsThread
  BY <1>10 DEF Bounded!StartsThread, Bounded!processVars, Bounded!pipeVars,
     Bounded!callVars, BoundedInv, Bounded!BoundedTypeOK, HandedOver
<1>11. CASE Bounded!Awaits
  BY <1>11 DEF Bounded!Awaits, Bounded!processVars, Bounded!launchVars,
     Bounded!pipeVars, Bounded!callVars, BoundedInv, Bounded!BoundedTypeOK,
     HandedOver
<1>12. CASE Bounded!Joins
  BY <1>12 DEF Bounded!Joins, Bounded!processVars, Bounded!launchVars,
     Bounded!pipeVars, Bounded!callVars, BoundedInv, Bounded!BoundedTypeOK,
     HandedOver
<1>13. CASE Bounded!Takes
  BY <1>13 DEF Bounded!Takes, Bounded!Closed, Bounded!processVars,
     Bounded!launchVars, Bounded!callVars, BoundedInv, Bounded!BoundedTypeOK,
     HandedOver
<1>14. CASE Bounded!Identifies
  BY <1>14 DEF Bounded!Identifies, Bounded!processVars, Bounded!launchVars,
     Bounded!pipeVars, Bounded!callVars, BoundedInv, Bounded!BoundedTypeOK,
     HandedOver
<1>15. CASE Bounded!SeesExit
  BY <1>15 DEF Bounded!SeesExit, Bounded!launchVars, Bounded!pipeVars,
     Bounded!callVars, BoundedInv, Bounded!BoundedTypeOK, HandedOver
<1>16. CASE Bounded!StopsReading
  BY <1>16 DEF Bounded!StopsReading, Bounded!processVars, Bounded!launchVars,
     Bounded!pipeVars, Bounded!callVars, BoundedInv, Bounded!BoundedTypeOK,
     HandedOver
<1>17. CASE Bounded!TimesOut
  BY <1>17 DEF Bounded!TimesOut, Bounded!processVars, Bounded!launchVars,
     Bounded!pipeVars, Bounded!callVars, BoundedInv, Bounded!BoundedTypeOK,
     HandedOver
<1>18. CASE Bounded!TooMuch
  BY <1>18 DEF Bounded!TooMuch, Bounded!processVars, Bounded!launchVars,
     Bounded!pipeVars, Bounded!callVars, BoundedInv, Bounded!BoundedTypeOK,
     HandedOver
<1>19. CASE Bounded!Finishes
  BY <1>19 DEF Bounded!Finishes, Bounded!launchVars, Bounded!pipeVars,
     Bounded!callVars, BoundedInv, Bounded!BoundedTypeOK, HandedOver
<1>20. CASE Bounded!KillsChild
  BY <1>20 DEF Bounded!KillsChild, Bounded!launchVars, Bounded!pipeVars,
     Bounded!callVars, BoundedInv, Bounded!BoundedTypeOK, HandedOver
<1>21. CASE Bounded!KillFails
  BY <1>21 DEF Bounded!KillFails, Bounded!processVars, Bounded!launchVars,
     Bounded!pipeVars, Bounded!callVars, BoundedInv, Bounded!BoundedTypeOK,
     HandedOver
<1>22. CASE Bounded!Collects
  BY <1>22 DEF Bounded!Collects, Bounded!ReadsFrame, Bounded!Closed,
     Bounded!launchVars, Bounded!callVars, BoundedInv, Bounded!BoundedTypeOK,
     HandedOver
<1>23. CASE Bounded!Concludes
  BY <1>23 DEF Bounded!Concludes, Bounded!processVars, Bounded!launchVars,
     Bounded!pipeVars, Bounded!callVars, BoundedInv, Bounded!BoundedTypeOK,
     HandedOver
<1>24. CASE Bounded!Closes
  BY <1>24 DEF Bounded!Closes, Bounded!Closed, Bounded!processVars,
     Bounded!launchVars, Bounded!callVars, BoundedInv, Bounded!BoundedTypeOK,
     HandedOver
<1>25. CASE Bounded!InterruptsCall
  BY <1>25 DEF Bounded!InterruptsCall, Bounded!Interrupted, Bounded!processVars,
     Bounded!launchVars, Bounded!pipeVars, BoundedInv, Bounded!BoundedTypeOK,
     HandedOver
<1>26. CASE Bounded!InterruptsCleanup
  BY <1>26 DEF Bounded!InterruptsCleanup, Bounded!processVars, Bounded!launchVars,
     Bounded!pipeVars, BoundedInv, Bounded!BoundedTypeOK, HandedOver
<1> QED
  BY <1>1, <1>2, <1>3, <1>4, <1>5, <1>6, <1>7, <1>8, <1>9, <1>10, <1>11, <1>12,
     <1>13, <1>14, <1>15, <1>16, <1>17, <1>18, <1>19, <1>20, <1>21, <1>22, <1>23,
     <1>24, <1>25, <1>26 DEF Bounded!BoundedNext

LEMMA StaysNoted ==
    ASSUME BoundedInv, Bounded!BoundedNext
    PROVE  NothingUnnoted'
<1>1. CASE Bounded!Spawns
  BY <1>1 DEF Bounded!Spawns, Bounded!pipeVars, Bounded!callVars, BoundedInv,
     Bounded!BoundedTypeOK, HandedOver, NothingUnnoted
<1>2. CASE Bounded!SpawnFails
  BY <1>2 DEF Bounded!SpawnFails, Bounded!processVars, Bounded!pipeVars,
     Bounded!callVars, BoundedInv, Bounded!BoundedTypeOK, HandedOver,
     NothingUnnoted
<1>3. CASE Bounded!Publishes
  BY <1>3 DEF Bounded!Publishes, Bounded!processVars, Bounded!pipeVars,
     Bounded!callVars, BoundedInv, Bounded!BoundedTypeOK, HandedOver,
     NothingUnnoted
<1>4. CASE Bounded!Forks
  BY <1>4 DEF Bounded!Forks, Bounded!launchVars, Bounded!pipeVars,
     Bounded!callVars, BoundedInv, Bounded!BoundedTypeOK, HandedOver,
     NothingUnnoted
<1>5. CASE Bounded!RootEnds
  BY <1>5 DEF Bounded!RootEnds, Bounded!launchVars, Bounded!pipeVars,
     Bounded!callVars, BoundedInv, Bounded!BoundedTypeOK, HandedOver,
     NothingUnnoted
<1>6. CASE Bounded!KidEnds
  BY <1>6 DEF Bounded!KidEnds, Bounded!launchVars, Bounded!pipeVars,
     Bounded!callVars, BoundedInv, Bounded!BoundedTypeOK, HandedOver,
     NothingUnnoted
<1>7. CASE Bounded!DeadlinePasses
  BY <1>7 DEF Bounded!DeadlinePasses, Bounded!processVars, Bounded!launchVars,
     Bounded!pipeVars, BoundedInv, Bounded!BoundedTypeOK, HandedOver,
     NothingUnnoted
<1>8. CASE Bounded!Opens
  BY <1>8 DEF Bounded!Opens, Bounded!processVars, Bounded!launchVars,
     Bounded!callVars, BoundedInv, Bounded!BoundedTypeOK, HandedOver,
     NothingUnnoted
<1>9. CASE Bounded!OpenFails
  BY <1>9 DEF Bounded!OpenFails, Bounded!processVars, Bounded!launchVars,
     Bounded!pipeVars, Bounded!callVars, BoundedInv, Bounded!BoundedTypeOK,
     HandedOver, NothingUnnoted
<1>10. CASE Bounded!StartsThread
  BY <1>10 DEF Bounded!StartsThread, Bounded!processVars, Bounded!pipeVars,
     Bounded!callVars, BoundedInv, Bounded!BoundedTypeOK, HandedOver,
     NothingUnnoted
<1>11. CASE Bounded!Awaits
  BY <1>11 DEF Bounded!Awaits, Bounded!processVars, Bounded!launchVars,
     Bounded!pipeVars, Bounded!callVars, BoundedInv, Bounded!BoundedTypeOK,
     HandedOver, NothingUnnoted
<1>12. CASE Bounded!Joins
  BY <1>12 DEF Bounded!Joins, Bounded!processVars, Bounded!launchVars,
     Bounded!pipeVars, Bounded!callVars, BoundedInv, Bounded!BoundedTypeOK,
     HandedOver, NothingUnnoted
<1>13. CASE Bounded!Takes
  BY <1>13 DEF Bounded!Takes, Bounded!Closed, Bounded!processVars,
     Bounded!launchVars, Bounded!callVars, BoundedInv, Bounded!BoundedTypeOK,
     HandedOver, NothingUnnoted
<1>14. CASE Bounded!Identifies
  BY <1>14 DEF Bounded!Identifies, Bounded!processVars, Bounded!launchVars,
     Bounded!pipeVars, Bounded!callVars, BoundedInv, Bounded!BoundedTypeOK,
     HandedOver, NothingUnnoted
<1>15. CASE Bounded!SeesExit
  BY <1>15 DEF Bounded!SeesExit, Bounded!launchVars, Bounded!pipeVars,
     Bounded!callVars, BoundedInv, Bounded!BoundedTypeOK, HandedOver,
     NothingUnnoted
<1>16. CASE Bounded!StopsReading
  BY <1>16 DEF Bounded!StopsReading, Bounded!processVars, Bounded!launchVars,
     Bounded!pipeVars, Bounded!callVars, BoundedInv, Bounded!BoundedTypeOK,
     HandedOver, NothingUnnoted
<1>17. CASE Bounded!TimesOut
  BY <1>17 DEF Bounded!TimesOut, Bounded!processVars, Bounded!launchVars,
     Bounded!pipeVars, Bounded!callVars, BoundedInv, Bounded!BoundedTypeOK,
     HandedOver, NothingUnnoted
<1>18. CASE Bounded!TooMuch
  BY <1>18 DEF Bounded!TooMuch, Bounded!processVars, Bounded!launchVars,
     Bounded!pipeVars, Bounded!callVars, BoundedInv, Bounded!BoundedTypeOK,
     HandedOver, NothingUnnoted
<1>19. CASE Bounded!Finishes
  BY <1>19 DEF Bounded!Finishes, Bounded!launchVars, Bounded!pipeVars,
     Bounded!callVars, BoundedInv, Bounded!BoundedTypeOK, HandedOver,
     NothingUnnoted
<1>20. CASE Bounded!KillsChild
  BY <1>20 DEF Bounded!KillsChild, Bounded!launchVars, Bounded!pipeVars,
     Bounded!callVars, BoundedInv, Bounded!BoundedTypeOK, HandedOver,
     NothingUnnoted
<1>21. CASE Bounded!KillFails
  BY <1>21 DEF Bounded!KillFails, Bounded!processVars, Bounded!launchVars,
     Bounded!pipeVars, Bounded!callVars, BoundedInv, Bounded!BoundedTypeOK,
     HandedOver, NothingUnnoted
<1>22. CASE Bounded!Collects
  BY <1>22 DEF Bounded!Collects, Bounded!ReadsFrame, Bounded!Closed,
     Bounded!launchVars, Bounded!callVars, BoundedInv, Bounded!BoundedTypeOK,
     HandedOver, NothingUnnoted
<1>23. CASE Bounded!Concludes
  BY <1>23 DEF Bounded!Concludes, Bounded!processVars, Bounded!launchVars,
     Bounded!pipeVars, Bounded!callVars, BoundedInv, Bounded!BoundedTypeOK,
     HandedOver, NothingUnnoted
<1>24. CASE Bounded!Closes
  BY <1>24 DEF Bounded!Closes, Bounded!Closed, Bounded!processVars,
     Bounded!launchVars, Bounded!callVars, BoundedInv, Bounded!BoundedTypeOK,
     HandedOver, NothingUnnoted
<1>25. CASE Bounded!InterruptsCall
  BY <1>25 DEF Bounded!InterruptsCall, Bounded!Interrupted, Bounded!processVars,
     Bounded!launchVars, Bounded!pipeVars, BoundedInv, Bounded!BoundedTypeOK,
     HandedOver, NothingUnnoted
<1>26. CASE Bounded!InterruptsCleanup
  BY <1>26 DEF Bounded!InterruptsCleanup, Bounded!processVars, Bounded!launchVars,
     Bounded!pipeVars, BoundedInv, Bounded!BoundedTypeOK, HandedOver,
     NothingUnnoted
<1> QED
  BY <1>1, <1>2, <1>3, <1>4, <1>5, <1>6, <1>7, <1>8, <1>9, <1>10, <1>11, <1>12,
     <1>13, <1>14, <1>15, <1>16, <1>17, <1>18, <1>19, <1>20, <1>21, <1>22, <1>23,
     <1>24, <1>25, <1>26 DEF Bounded!BoundedNext

THEOREM BoundedInvariant == Bounded!BoundedSpec => []BoundedInv
<1>0. Bounded!BoundedAssumption
  BY ProcessesConstants DEF ProcessesConstants
<1>1. Bounded!BoundedInit => BoundedInv
  <2> SUFFICES ASSUME Bounded!BoundedInit PROVE BoundedInv
    OBVIOUS
  <2>1. {published, boundedKnown, identity, direct, boundedLate, confirmed, noted} \subseteq BOOLEAN
    BY DEF Bounded!BoundedInit
  <2>2. Bounded!BoundedTypeOK
    BY <1>0, <2>1 DEF Bounded!BoundedInit, Bounded!BoundedTypeOK, Bounded!BoundedAssumption
  <2>3. HandedOver /\ NothingUnnoted
    BY DEF Bounded!BoundedInit, HandedOver, NothingUnnoted
  <2> QED
    BY <2>2, <2>3 DEF BoundedInv
<1>2. ASSUME BoundedInv, Bounded!BoundedNext PROVE BoundedInv'
  BY <1>0, <1>2, BoundedTypeKept, StillHandedOver, StaysNoted DEF BoundedInv
<1>3. BoundedInv /\ UNCHANGED Bounded!boundedVars => BoundedInv'
  BY DEF Bounded!boundedVars, Bounded!launchVars, Bounded!processVars, Bounded!pipeVars, Bounded!callVars,
     BoundedInv, Bounded!BoundedTypeOK, HandedOver, NothingUnnoted
<1> QED
  BY <1>1, <1>2, <1>3, PTL DEF Bounded!BoundedSpec

(* command_chain.py - however often the user interrupts the call: it has   *)
(* collected the process it started, or says that it may be left.          *)
THEOREM ProcessesAccounted == Bounded!BoundedSpec => []Bounded!ProcessAccounted
<1>1. BoundedInv => Bounded!ProcessAccounted
  BY DEF BoundedInv, Bounded!BoundedTypeOK, HandedOver, NothingUnnoted, Bounded!ProcessAccounted, Bounded!Exists
<1> QED
  BY <1>1, BoundedInvariant, PTL

-----------------------------------------------------------------------------
(* The run's behaviours are those of the parts, side by side: each of them *)
(* does a step of its part or leaves it alone.                             *)
LEMMA PartsAreFollowed ==
    AllSpec => /\ GateSpec /\ DirectSpec
               /\ Remote!RemoteSpec /\ Scoped!ScopedSpec /\ Bounded!BoundedSpec
<1>1. AllInit => GateInit /\ DirectInit /\ Remote!RemoteInit /\ Scoped!ScopedInit /\ Bounded!BoundedInit
  BY DEF AllInit
<1>2. [AllNext]_allVars => [GateNext]_gateVars
  BY DEF AllNext, allVars
<1>3. [AllNext]_allVars => [DirectNext]_directVars
  BY DEF AllNext, allVars
<1>4. [AllNext]_allVars => [Remote!RemoteNext]_(Remote!remoteVars)
  BY DEF AllNext, allVars, remotePart, Remote!remoteVars, Remote!workerVars, Remote!controlVars, Remote!httpVars,
     Remote!ownVars
<1>5. [AllNext]_allVars => [Scoped!ScopedNext]_(Scoped!scopedVars)
  BY DEF AllNext, allVars, scopedPart, Scoped!scopedVars, Scoped!childVars, Scoped!forwarderVars, Scoped!fileVars
<1>6. [AllNext]_allVars => [Bounded!BoundedNext]_(Bounded!boundedVars)
  BY DEF AllNext, allVars, boundedPart, Bounded!boundedVars, Bounded!launchVars, Bounded!processVars,
     Bounded!pipeVars, Bounded!callVars
<1> QED
  BY <1>1, <1>2, <1>3, <1>4, <1>5, <1>6, PTL
     DEF AllSpec, GateSpec, DirectSpec, Remote!RemoteSpec, Scoped!ScopedSpec, Bounded!BoundedSpec

(* process_priority.py - for any number of signals, and wherever the gate  *)
(* or a side of it fails or is killed: the model runs only if the caller   *)
(* knows that it may, once, and what runs in a scope is what was checked.  *)
THEOREM AlwaysRunsAsChecked == AllSpec => []RunsAsChecked
<1>1. RunsOnlyReleased /\ Scoped!CommandRunsOnce /\ Scoped!ExecutesChecked => RunsAsChecked
  BY DEF RunsAsChecked
<1> QED
  BY <1>1, PartsAreFollowed, GateRunsOnlyReleased, CommandsRunOnce, ScopesExecuteChecked, PTL

(* process_priority.py, remote_http.py, command_chain.py - for any number  *)
(* of descendants, of redirects and of interrupts: what a supervisor says  *)
(* of the processes it leaves behind is true.                              *)
THEOREM NothingEverOutlives == AllSpec => []NothingOutlives
<1>1. EmptyIsEmpty /\ SignalKept /\ Remote!AnsweredAlone /\ Bounded!ProcessAccounted => NothingOutlives
  BY DEF NothingOutlives
<1> QED
  BY <1>1, PartsAreFollowed, EmptyMeansEmpty, SignalsAreKept, RemoteAnswersAlone, ProcessesAccounted, PTL
=============================================================================
