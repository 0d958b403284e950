-------------------------- MODULE RecordersProofs --------------------------
(***************************************************************************)
(* Proofs about what MCRecorders has besides Recording, and about the run. *)
(*                                                                         *)
(* RecorderStop and RecorderStart, for any number of forked processes: who *)
(* is signalled belongs to the recorder, and who is said to be gone is.    *)
(*                                                                         *)
(* Alarms, for any set of commands, any day, catch-up and capacity.        *)
(*                                                                         *)
(* The part in which start_recorder escapes its own error type is an       *)
(* instance of Recording, so the theorems of RecordingProofs are about it. *)
(***************************************************************************)
EXTENDS MCRecorders, RecordingProofs, WellFoundedInduction, FiniteSetTheorems,
        TLAPS

-----------------------------------------------------------------------------
(* RecorderStop.  A descriptor of somebody else's process was opened when   *)
(* the id was reused, which the check behind it sees; what is known was    *)
(* born, and nothing that is gone comes back.                              *)
AimsAtOwn ==
    /\ at = "check" /\ pidfd = "other" => stopLife[prey] = "reused"
    /\ at \in {"check", "send"} => prey \in Stopping!Recorder
    /\ at = "open" => prey \in Stopping!Recorder
    /\ at = "send" => pidfd # "other"
    /\ ~struck

GoneForGood ==
    /\ \A k \in known : stopLife[k] # "unborn"
    /\ answer = "stopped" =>
          /\ at = "done" /\ ~Stopping!Present(Leader)
          /\ \A k \in Stopping!Recorder :
                stopScoped \/ k \in known \/ k \in Stopping!InSession => stopLife[k] # "alive"

StopInv == Stopping!StopTypeOK /\ AimsAtOwn /\ GoneForGood

LEMMA StopTypeKept ==
    ASSUME Stopping!StopAssumption, StopInv, Stopping!StopNext
    PROVE  Stopping!StopTypeOK'
<1>1. CASE Stopping!Groups
  BY <1>1 DEF Stopping!Groups, Stopping!Live, Stopping!Present,
     Stopping!InSession, Stopping!ScopeReadable, Stopping!Refuses,
     Stopping!kernelVars, Stopping!aimVars, Stopping!Proceeds, StopInv,
     Stopping!StopTypeOK, Stopping!Recorder, Stopping!StopAssumption
<1>2. CASE Stopping!Secures
  BY <1>2 DEF Stopping!Secures, Stopping!StillSafe, Stopping!Live,
     Stopping!Present, Stopping!InSession, Stopping!ScopeReadable,
     Stopping!PhaseOver, Stopping!Refuses, Stopping!kernelVars, Stopping!aimVars,
     Stopping!Proceeds, StopInv, Stopping!StopTypeOK, Stopping!Recorder,
     Stopping!StopAssumption
<1>3. CASE Stopping!Refreshes
  BY <1>3 DEF Stopping!Refreshes, Stopping!Live, Stopping!Present,
     Stopping!InSession, Stopping!kernelVars, Stopping!aimVars, StopInv,
     Stopping!StopTypeOK, Stopping!Recorder, Stopping!StopAssumption
<1>4. CASE Stopping!SignalsTarget
  BY <1>4 DEF Stopping!SignalsTarget, Stopping!Live, Stopping!StillSafe,
     Stopping!Present, Stopping!InSession, Stopping!ScopeReadable,
     Stopping!PhaseOver, Stopping!Refuses, Stopping!kernelVars, Stopping!aimVars,
     Stopping!EntersScopeLoop, Stopping!Proceeds, Stopping!EntersKidsLoop,
     Stopping!AimsAt, StopInv, Stopping!StopTypeOK, Stopping!Recorder,
     Stopping!StopAssumption
<1>5. CASE Stopping!SignalsNext
  BY <1>5 DEF Stopping!SignalsNext, Stopping!Absent, Stopping!ScopeReadable,
     Stopping!PhaseOver, Stopping!Refuses, Stopping!kernelVars, Stopping!aimVars,
     Stopping!AimsAt, StopInv, Stopping!StopTypeOK, Stopping!Recorder,
     Stopping!StopAssumption
<1>6. CASE Stopping!LoopEnds
  BY <1>6 DEF Stopping!LoopEnds, Stopping!PhaseOver, Stopping!Proceeds,
     Stopping!kernelVars, Stopping!aimVars, Stopping!EntersScopeLoop,
     Stopping!Live, Stopping!ScopeReadable, Stopping!Refuses, StopInv,
     Stopping!StopTypeOK, Stopping!Recorder, Stopping!StopAssumption
<1>7. CASE Stopping!OpensPidfd
  BY <1>7 DEF Stopping!OpensPidfd, Stopping!PhaseOver, Stopping!Refuses,
     Stopping!kernelVars, Stopping!aimVars, StopInv, Stopping!StopTypeOK,
     Stopping!Recorder, Stopping!StopAssumption
<1>8. CASE Stopping!ChecksIdentity
  BY <1>8 DEF Stopping!ChecksIdentity, Stopping!Present, Stopping!PhaseOver,
     Stopping!Refuses, Stopping!kernelVars, Stopping!aimVars, Stopping!Proceeds,
     StopInv, Stopping!StopTypeOK, Stopping!Recorder, Stopping!StopAssumption
<1>9. CASE Stopping!SendsSignal
  BY <1>9 DEF Stopping!SendsSignal, Stopping!Present, Stopping!PhaseOver,
     Stopping!Refuses, Stopping!kernelVars, Stopping!aimVars, StopInv,
     Stopping!StopTypeOK, Stopping!Recorder, Stopping!StopAssumption
<1>10. CASE Stopping!PhaseEnds
  BY <1>10 DEF Stopping!PhaseEnds, Stopping!PhaseOver, Stopping!kernelVars,
     StopInv, Stopping!StopTypeOK, Stopping!Recorder, Stopping!StopAssumption
<1>11. CASE Stopping!Observes
  BY <1>11 DEF Stopping!Observes, Stopping!TargetGone, Stopping!Live,
     Stopping!Present, Stopping!InSession, Stopping!ScopeReadable,
     Stopping!PhaseOver, Stopping!Stopped, Stopping!kernelVars, Stopping!aimVars,
     Stopping!Proceeds, StopInv, Stopping!StopTypeOK, Stopping!Recorder,
     Stopping!StopAssumption
<1>12. CASE Stopping!Settles
  BY <1>12 DEF Stopping!Settles, Stopping!StillSafe, Stopping!Live,
     Stopping!Present, Stopping!InSession, Stopping!ScopeReadable,
     Stopping!PhaseOver, Stopping!Refuses, Stopping!kernelVars, Stopping!aimVars,
     Stopping!Proceeds, StopInv, Stopping!StopTypeOK, Stopping!Recorder,
     Stopping!StopAssumption
<1>13. CASE Stopping!LooksAgain
  BY <1>13 DEF Stopping!LooksAgain, Stopping!TargetGone, Stopping!Live,
     Stopping!Present, Stopping!InSession, Stopping!ScopeReadable,
     Stopping!Stopped, Stopping!kernelVars, Stopping!aimVars, Stopping!Proceeds,
     StopInv, Stopping!StopTypeOK, Stopping!Recorder, Stopping!StopAssumption
<1>14. CASE Stopping!MistakesGroup
  BY <1>14 DEF Stopping!MistakesGroup, Stopping!Refuses, Stopping!kernelVars,
     Stopping!aimVars, StopInv, Stopping!StopTypeOK, Stopping!Recorder,
     Stopping!StopAssumption
<1>15. CASE Stopping!ScanFails
  BY <1>15 DEF Stopping!ScanFails, Stopping!Reading, Stopping!Refuses,
     Stopping!kernelVars, Stopping!aimVars, StopInv, Stopping!StopTypeOK,
     Stopping!Recorder, Stopping!StopAssumption
<1>16. CASE Stopping!OutOfTime
  BY <1>16 DEF Stopping!OutOfTime, Stopping!Refuses, Stopping!kernelVars,
     Stopping!aimVars, StopInv, Stopping!StopTypeOK, Stopping!Recorder,
     Stopping!StopAssumption
<1>17. CASE Stopping!LeaderReaped
  BY <1>17 DEF Stopping!LeaderReaped, Stopping!aimVars, StopInv,
     Stopping!StopTypeOK, Stopping!Recorder, Stopping!StopAssumption
<1>18. CASE Stopping!ScopeVanishes
  BY <1>18 DEF Stopping!ScopeVanishes, Stopping!Present, Stopping!aimVars,
     StopInv, Stopping!StopTypeOK, Stopping!Recorder, Stopping!StopAssumption
<1>19. CASE Stopping!TimePasses
  BY <1>19 DEF Stopping!TimePasses, Stopping!kernelVars, Stopping!aimVars,
     StopInv, Stopping!StopTypeOK, Stopping!Recorder, Stopping!StopAssumption
<1>20. CASE \E p \in Stopping!Recorder : Stopping!ProcessEnds(p)
  BY <1>20 DEF Stopping!ProcessEnds, Stopping!aimVars, StopInv,
     Stopping!StopTypeOK, Stopping!Recorder, Stopping!StopAssumption
<1>21. CASE \E p \in Stopping!Recorder : Stopping!PidReused(p)
  BY <1>21 DEF Stopping!PidReused, Stopping!Live, Stopping!InSession,
     Stopping!aimVars, StopInv, Stopping!StopTypeOK, Stopping!Recorder,
     Stopping!StopAssumption
<1>22. CASE \E k \in Kids : Stopping!ProcessForks(k)
  BY <1>22 DEF Stopping!ProcessForks, Stopping!Live, Stopping!aimVars, StopInv,
     Stopping!StopTypeOK, Stopping!Recorder, Stopping!StopAssumption
<1>23. CASE \E k \in Kids : Stopping!LeavesSession(k)
  BY <1>23 DEF Stopping!LeavesSession, Stopping!Live, Stopping!aimVars, StopInv,
     Stopping!StopTypeOK, Stopping!Recorder, Stopping!StopAssumption
<1> QED
  BY <1>1, <1>2, <1>3, <1>4, <1>5, <1>6, <1>7, <1>8, <1>9, <1>10, <1>11, <1>12,
     <1>13, <1>14, <1>15, <1>16, <1>17, <1>18, <1>19, <1>20, <1>21, <1>22, <1>23
     DEF Stopping!StopNext, Stopping!StopSteps, Stopping!KernelSteps

LEMMA StillAimsAtOwn ==
    ASSUME Stopping!StopAssumption, StopInv, Stopping!StopNext
    PROVE  AimsAtOwn'
<1>1. CASE Stopping!Groups
  BY <1>1 DEF Stopping!Groups, Stopping!Live, Stopping!Present,
     Stopping!InSession, Stopping!ScopeReadable, Stopping!Refuses,
     Stopping!kernelVars, Stopping!aimVars, Stopping!Proceeds, StopInv,
     Stopping!StopTypeOK, Stopping!Recorder, Stopping!StopAssumption, AimsAtOwn
<1>2. CASE Stopping!Secures
  BY <1>2 DEF Stopping!Secures, Stopping!StillSafe, Stopping!Live,
     Stopping!Present, Stopping!InSession, Stopping!ScopeReadable,
     Stopping!PhaseOver, Stopping!Refuses, Stopping!kernelVars, Stopping!aimVars,
     Stopping!Proceeds, StopInv, Stopping!StopTypeOK, Stopping!Recorder,
     Stopping!StopAssumption, AimsAtOwn
<1>3. CASE Stopping!Refreshes
  BY <1>3 DEF Stopping!Refreshes, Stopping!Live, Stopping!Present,
     Stopping!InSession, Stopping!kernelVars, Stopping!aimVars, StopInv,
     Stopping!StopTypeOK, Stopping!Recorder, Stopping!StopAssumption, AimsAtOwn
<1>4. CASE Stopping!SignalsTarget
  BY <1>4 DEF Stopping!SignalsTarget, Stopping!Live, Stopping!StillSafe,
     Stopping!Present, Stopping!InSession, Stopping!ScopeReadable,
     Stopping!PhaseOver, Stopping!Refuses, Stopping!kernelVars, Stopping!aimVars,
     Stopping!EntersScopeLoop, Stopping!Proceeds, Stopping!EntersKidsLoop,
     Stopping!AimsAt, StopInv, Stopping!StopTypeOK, Stopping!Recorder,
     Stopping!StopAssumption, AimsAtOwn
<1>5. CASE Stopping!SignalsNext
  BY <1>5 DEF Stopping!SignalsNext, Stopping!Absent, Stopping!ScopeReadable,
     Stopping!PhaseOver, Stopping!Refuses, Stopping!kernelVars, Stopping!aimVars,
     Stopping!AimsAt, StopInv, Stopping!StopTypeOK, Stopping!Recorder,
     Stopping!StopAssumption, AimsAtOwn
<1>6. CASE Stopping!LoopEnds
  BY <1>6 DEF Stopping!LoopEnds, Stopping!PhaseOver, Stopping!Proceeds,
     Stopping!kernelVars, Stopping!aimVars, Stopping!EntersScopeLoop,
     Stopping!Live, Stopping!ScopeReadable, Stopping!Refuses, StopInv,
     Stopping!StopTypeOK, Stopping!Recorder, Stopping!StopAssumption, AimsAtOwn
<1>7. CASE Stopping!OpensPidfd
  BY <1>7 DEF Stopping!OpensPidfd, Stopping!PhaseOver, Stopping!Refuses,
     Stopping!kernelVars, Stopping!aimVars, StopInv, Stopping!StopTypeOK,
     Stopping!Recorder, Stopping!StopAssumption, AimsAtOwn
<1>8. CASE Stopping!ChecksIdentity
  BY <1>8 DEF Stopping!ChecksIdentity, Stopping!Present, Stopping!PhaseOver,
     Stopping!Refuses, Stopping!kernelVars, Stopping!aimVars, Stopping!Proceeds,
     StopInv, Stopping!StopTypeOK, Stopping!Recorder, Stopping!StopAssumption,
     AimsAtOwn
<1>9. CASE Stopping!SendsSignal
  BY <1>9 DEF Stopping!SendsSignal, Stopping!Present, Stopping!PhaseOver,
     Stopping!Refuses, Stopping!kernelVars, Stopping!aimVars, StopInv,
     Stopping!StopTypeOK, Stopping!Recorder, Stopping!StopAssumption, AimsAtOwn
<1>10. CASE Stopping!PhaseEnds
  BY <1>10 DEF Stopping!PhaseEnds, Stopping!PhaseOver, Stopping!kernelVars,
     StopInv, Stopping!StopTypeOK, Stopping!Recorder, Stopping!StopAssumption,
     AimsAtOwn
<1>11. CASE Stopping!Observes
  BY <1>11 DEF Stopping!Observes, Stopping!TargetGone, Stopping!Live,
     Stopping!Present, Stopping!InSession, Stopping!ScopeReadable,
     Stopping!PhaseOver, Stopping!Stopped, Stopping!kernelVars, Stopping!aimVars,
     Stopping!Proceeds, StopInv, Stopping!StopTypeOK, Stopping!Recorder,
     Stopping!StopAssumption, AimsAtOwn
<1>12. CASE Stopping!Settles
  BY <1>12 DEF Stopping!Settles, Stopping!StillSafe, Stopping!Live,
     Stopping!Present, Stopping!InSession, Stopping!ScopeReadable,
     Stopping!PhaseOver, Stopping!Refuses, Stopping!kernelVars, Stopping!aimVars,
     Stopping!Proceeds, StopInv, Stopping!StopTypeOK, Stopping!Recorder,
     Stopping!StopAssumption, AimsAtOwn
<1>13. CASE Stopping!LooksAgain
  BY <1>13 DEF Stopping!LooksAgain, Stopping!TargetGone, Stopping!Live,
     Stopping!Present, Stopping!InSession, Stopping!ScopeReadable,
     Stopping!Stopped, Stopping!kernelVars, Stopping!aimVars, Stopping!Proceeds,
     StopInv, Stopping!StopTypeOK, Stopping!Recorder, Stopping!StopAssumption,
     AimsAtOwn
<1>14. CASE Stopping!MistakesGroup
  BY <1>14 DEF Stopping!MistakesGroup, Stopping!Refuses, Stopping!kernelVars,
     Stopping!aimVars, StopInv, Stopping!StopTypeOK, Stopping!Recorder,
     Stopping!StopAssumption, AimsAtOwn
<1>15. CASE Stopping!ScanFails
  BY <1>15 DEF Stopping!ScanFails, Stopping!Reading, Stopping!Refuses,
     Stopping!kernelVars, Stopping!aimVars, StopInv, Stopping!StopTypeOK,
     Stopping!Recorder, Stopping!StopAssumption, AimsAtOwn
<1>16. CASE Stopping!OutOfTime
  BY <1>16 DEF Stopping!OutOfTime, Stopping!Refuses, Stopping!kernelVars,
     Stopping!aimVars, StopInv, Stopping!StopTypeOK, Stopping!Recorder,
     Stopping!StopAssumption, AimsAtOwn
<1>17. CASE Stopping!LeaderReaped
  BY <1>17 DEF Stopping!LeaderReaped, Stopping!aimVars, StopInv,
     Stopping!StopTypeOK, Stopping!Recorder, Stopping!StopAssumption, AimsAtOwn
<1>18. CASE Stopping!ScopeVanishes
  BY <1>18 DEF Stopping!ScopeVanishes, Stopping!Present, Stopping!aimVars,
     StopInv, Stopping!StopTypeOK, Stopping!Recorder, Stopping!StopAssumption,
     AimsAtOwn
<1>19. CASE Stopping!TimePasses
  BY <1>19 DEF Stopping!TimePasses, Stopping!kernelVars, Stopping!aimVars,
     StopInv, Stopping!StopTypeOK, Stopping!Recorder, Stopping!StopAssumption,
     AimsAtOwn
<1>20. CASE \E p \in Stopping!Recorder : Stopping!ProcessEnds(p)
  BY <1>20 DEF Stopping!ProcessEnds, Stopping!aimVars, StopInv,
     Stopping!StopTypeOK, Stopping!Recorder, Stopping!StopAssumption, AimsAtOwn
<1>21. CASE \E p \in Stopping!Recorder : Stopping!PidReused(p)
  BY <1>21 DEF Stopping!PidReused, Stopping!Live, Stopping!InSession,
     Stopping!aimVars, StopInv, Stopping!StopTypeOK, Stopping!Recorder,
     Stopping!StopAssumption, AimsAtOwn
<1>22. CASE \E k \in Kids : Stopping!ProcessForks(k)
  BY <1>22 DEF Stopping!ProcessForks, Stopping!Live, Stopping!aimVars, StopInv,
     Stopping!StopTypeOK, Stopping!Recorder, Stopping!StopAssumption, AimsAtOwn
<1>23. CASE \E k \in Kids : Stopping!LeavesSession(k)
  BY <1>23 DEF Stopping!LeavesSession, Stopping!Live, Stopping!aimVars, StopInv,
     Stopping!StopTypeOK, Stopping!Recorder, Stopping!StopAssumption, AimsAtOwn
<1> QED
  BY <1>1, <1>2, <1>3, <1>4, <1>5, <1>6, <1>7, <1>8, <1>9, <1>10, <1>11, <1>12,
     <1>13, <1>14, <1>15, <1>16, <1>17, <1>18, <1>19, <1>20, <1>21, <1>22, <1>23
     DEF Stopping!StopNext, Stopping!StopSteps, Stopping!KernelSteps

LEMMA StaysGone ==
    ASSUME Stopping!StopAssumption, StopInv, Stopping!StopNext
    PROVE  GoneForGood'
<1>1. CASE Stopping!Groups
  BY <1>1 DEF Stopping!Groups, Stopping!Live, Stopping!Present,
     Stopping!InSession, Stopping!ScopeReadable, Stopping!Refuses,
     Stopping!kernelVars, Stopping!aimVars, Stopping!Proceeds, StopInv,
     Stopping!StopTypeOK, Stopping!Recorder, Stopping!StopAssumption, GoneForGood
<1>2. CASE Stopping!Secures
  BY <1>2 DEF Stopping!Secures, Stopping!StillSafe, Stopping!Live,
     Stopping!Present, Stopping!InSession, Stopping!ScopeReadable,
     Stopping!PhaseOver, Stopping!Refuses, Stopping!kernelVars, Stopping!aimVars,
     Stopping!Proceeds, StopInv, Stopping!StopTypeOK, Stopping!Recorder,
     Stopping!StopAssumption, GoneForGood
<1>3. CASE Stopping!Refreshes
  BY <1>3 DEF Stopping!Refreshes, Stopping!Live, Stopping!Present,
     Stopping!InSession, Stopping!kernelVars, Stopping!aimVars, StopInv,
     Stopping!StopTypeOK, Stopping!Recorder, Stopping!StopAssumption, GoneForGood
<1>4. CASE Stopping!SignalsTarget
  BY <1>4 DEF Stopping!SignalsTarget, Stopping!Live, Stopping!StillSafe,
     Stopping!Present, Stopping!InSession, Stopping!ScopeReadable,
     Stopping!PhaseOver, Stopping!Refuses, Stopping!kernelVars, Stopping!aimVars,
     Stopping!EntersScopeLoop, Stopping!Proceeds, Stopping!EntersKidsLoop,
     Stopping!AimsAt, StopInv, Stopping!StopTypeOK, Stopping!Recorder,
     Stopping!StopAssumption, GoneForGood
<1>5. CASE Stopping!SignalsNext
  BY <1>5 DEF Stopping!SignalsNext, Stopping!Absent, Stopping!ScopeReadable,
     Stopping!PhaseOver, Stopping!Refuses, Stopping!kernelVars, Stopping!aimVars,
     Stopping!AimsAt, StopInv, Stopping!StopTypeOK, Stopping!Recorder,
     Stopping!StopAssumption, GoneForGood, Stopping!Present, Stopping!InSession
<1>6. CASE Stopping!LoopEnds
  BY <1>6 DEF Stopping!LoopEnds, Stopping!PhaseOver, Stopping!Proceeds,
     Stopping!kernelVars, Stopping!aimVars, Stopping!EntersScopeLoop,
     Stopping!Live, Stopping!ScopeReadable, Stopping!Refuses, StopInv,
     Stopping!StopTypeOK, Stopping!Recorder, Stopping!StopAssumption, GoneForGood,
     Stopping!Present, Stopping!InSession
<1>7. CASE Stopping!OpensPidfd
  BY <1>7 DEF Stopping!OpensPidfd, Stopping!PhaseOver, Stopping!Refuses,
     Stopping!kernelVars, Stopping!aimVars, StopInv, Stopping!StopTypeOK,
     Stopping!Recorder, Stopping!StopAssumption, GoneForGood, Stopping!Present,
     Stopping!InSession
<1>8. CASE Stopping!ChecksIdentity
  BY <1>8 DEF Stopping!ChecksIdentity, Stopping!Present, Stopping!PhaseOver,
     Stopping!Refuses, Stopping!kernelVars, Stopping!aimVars, Stopping!Proceeds,
     StopInv, Stopping!StopTypeOK, Stopping!Recorder, Stopping!StopAssumption,
     GoneForGood, Stopping!InSession
<1>9. CASE Stopping!SendsSignal
  BY <1>9 DEF Stopping!SendsSignal, Stopping!Present, Stopping!PhaseOver,
     Stopping!Refuses, Stopping!kernelVars, Stopping!aimVars, StopInv,
     Stopping!StopTypeOK, Stopping!Recorder, Stopping!StopAssumption, GoneForGood,
     Stopping!InSession
<1>10. CASE Stopping!PhaseEnds
  BY <1>10 DEF Stopping!PhaseEnds, Stopping!PhaseOver, Stopping!kernelVars,
     StopInv, Stopping!StopTypeOK, Stopping!Recorder, Stopping!StopAssumption,
     GoneForGood, Stopping!Present, Stopping!InSession
<1>11. CASE Stopping!Observes
  BY <1>11 DEF Stopping!Observes, Stopping!TargetGone, Stopping!Live,
     Stopping!Present, Stopping!InSession, Stopping!ScopeReadable,
     Stopping!PhaseOver, Stopping!Stopped, Stopping!kernelVars, Stopping!aimVars,
     Stopping!Proceeds, StopInv, Stopping!StopTypeOK, Stopping!Recorder,
     Stopping!StopAssumption, GoneForGood
<1>12. CASE Stopping!Settles
  BY <1>12 DEF Stopping!Settles, Stopping!StillSafe, Stopping!Live,
     Stopping!Present, Stopping!InSession, Stopping!ScopeReadable,
     Stopping!PhaseOver, Stopping!Refuses, Stopping!kernelVars, Stopping!aimVars,
     Stopping!Proceeds, StopInv, Stopping!StopTypeOK, Stopping!Recorder,
     Stopping!StopAssumption, GoneForGood
<1>13. CASE Stopping!LooksAgain
  BY <1>13 DEF Stopping!LooksAgain, Stopping!TargetGone, Stopping!Live,
     Stopping!Present, Stopping!InSession, Stopping!ScopeReadable,
     Stopping!Stopped, Stopping!kernelVars, Stopping!aimVars, Stopping!Proceeds,
     StopInv, Stopping!StopTypeOK, Stopping!Recorder, Stopping!StopAssumption,
     GoneForGood
<1>14. CASE Stopping!MistakesGroup
  BY <1>14 DEF Stopping!MistakesGroup, Stopping!Refuses, Stopping!kernelVars,
     Stopping!aimVars, StopInv, Stopping!StopTypeOK, Stopping!Recorder,
     Stopping!StopAssumption, GoneForGood, Stopping!Present, Stopping!InSession
<1>15. CASE Stopping!ScanFails
  BY <1>15 DEF Stopping!ScanFails, Stopping!Reading, Stopping!Refuses,
     Stopping!kernelVars, Stopping!aimVars, StopInv, Stopping!StopTypeOK,
     Stopping!Recorder, Stopping!StopAssumption, GoneForGood, Stopping!Present,
     Stopping!InSession
<1>16. CASE Stopping!OutOfTime
  BY <1>16 DEF Stopping!OutOfTime, Stopping!Refuses, Stopping!kernelVars,
     Stopping!aimVars, StopInv, Stopping!StopTypeOK, Stopping!Recorder,
     Stopping!StopAssumption, GoneForGood, Stopping!Present, Stopping!InSession
<1>17. CASE Stopping!LeaderReaped
  BY <1>17 DEF Stopping!LeaderReaped, Stopping!aimVars, StopInv,
     Stopping!StopTypeOK, Stopping!Recorder, Stopping!StopAssumption, GoneForGood,
     Stopping!Present, Stopping!InSession
<1>18. CASE Stopping!ScopeVanishes
  BY <1>18 DEF Stopping!ScopeVanishes, Stopping!Present, Stopping!aimVars,
     StopInv, Stopping!StopTypeOK, Stopping!Recorder, Stopping!StopAssumption,
     GoneForGood, Stopping!InSession
<1>19. CASE Stopping!TimePasses
  BY <1>19 DEF Stopping!TimePasses, Stopping!kernelVars, Stopping!aimVars,
     StopInv, Stopping!StopTypeOK, Stopping!Recorder, Stopping!StopAssumption,
     GoneForGood, Stopping!Present, Stopping!InSession
<1>20. CASE \E p \in Stopping!Recorder : Stopping!ProcessEnds(p)
  BY <1>20 DEF Stopping!ProcessEnds, Stopping!aimVars, StopInv,
     Stopping!StopTypeOK, Stopping!Recorder, Stopping!StopAssumption, GoneForGood,
     Stopping!Present, Stopping!InSession
<1>21. CASE \E p \in Stopping!Recorder : Stopping!PidReused(p)
  BY <1>21 DEF Stopping!PidReused, Stopping!Live, Stopping!InSession,
     Stopping!aimVars, StopInv, Stopping!StopTypeOK, Stopping!Recorder,
     Stopping!StopAssumption, GoneForGood, Stopping!Present
<1>22. CASE \E k \in Kids : Stopping!ProcessForks(k)
  BY <1>22 DEF Stopping!ProcessForks, Stopping!Live, Stopping!aimVars, StopInv,
     Stopping!StopTypeOK, Stopping!Recorder, Stopping!StopAssumption, GoneForGood,
     Stopping!Present, Stopping!InSession
<1>23. CASE \E k \in Kids : Stopping!LeavesSession(k)
  BY <1>23 DEF Stopping!LeavesSession, Stopping!Live, Stopping!aimVars, StopInv,
     Stopping!StopTypeOK, Stopping!Recorder, Stopping!StopAssumption, GoneForGood,
     Stopping!Present, Stopping!InSession
<1> QED
  BY <1>1, <1>2, <1>3, <1>4, <1>5, <1>6, <1>7, <1>8, <1>9, <1>10, <1>11, <1>12,
     <1>13, <1>14, <1>15, <1>16, <1>17, <1>18, <1>19, <1>20, <1>21, <1>22, <1>23
     DEF Stopping!StopNext, Stopping!StopSteps, Stopping!KernelSteps

THEOREM StopInvariant == Stopping!StopSpec => []StopInv
<1>0. Stopping!StopAssumption
  BY RecordersConstants DEF RecordersConstants
<1>1. Stopping!StopInit => StopInv
  <2> SUFFICES ASSUME Stopping!StopInit PROVE StopInv
    OBVIOUS
  <2>1. {stopScoped, vanished, scopeTold, struck} \subseteq BOOLEAN
    BY DEF Stopping!StopInit
  <2>2. Stopping!StopTypeOK
    BY <1>0, <2>1 DEF Stopping!StopInit, Stopping!StopTypeOK, Stopping!StopAssumption, Stopping!Recorder
  <2>3. AimsAtOwn /\ GoneForGood
    BY DEF Stopping!StopInit, AimsAtOwn, GoneForGood
  <2> QED
    BY <2>2, <2>3 DEF StopInv
<1>2. ASSUME StopInv, Stopping!StopNext PROVE StopInv'
  BY <1>0, <1>2, StopTypeKept, StillAimsAtOwn, StaysGone DEF StopInv
<1>3. StopInv /\ UNCHANGED Stopping!stopVars => StopInv'
  BY DEF Stopping!stopVars, Stopping!kernelVars, Stopping!aimVars, StopInv, Stopping!StopTypeOK, AimsAtOwn,
     GoneForGood, Stopping!Present, Stopping!InSession
<1> QED
  BY <1>1, <1>2, <1>3, PTL DEF Stopping!StopSpec

(* recorder.py - however many processes a recorder starts, however fast    *)
(* ids are reused and whichever look fails: only the recorder's own are    *)
(* signalled, and `stopped` means that none of them is left.               *)
THEOREM RecordersStop == Stopping!StopSpec => [](Stopping!SignalsOwn /\ Stopping!StoppedMeansGone)
<1>1. StopInv => Stopping!SignalsOwn /\ Stopping!StoppedMeansGone
  <2> SUFFICES ASSUME StopInv PROVE Stopping!SignalsOwn /\ Stopping!StoppedMeansGone
    OBVIOUS
  <2>1. Stopping!SignalsOwn
    BY DEF StopInv, AimsAtOwn, Stopping!SignalsOwn
  <2>2. Stopping!StoppedMeansGone
    BY DEF StopInv, GoneForGood, Stopping!StoppedMeansGone, Stopping!Live, Stopping!StopTypeOK, Stopping!Recorder,
       Stopping!InSession
  <2> QED
    BY <2>1, <2>2
<1> QED
  BY <1>1, StopInvariant, PTL

-----------------------------------------------------------------------------
(* RecorderStart.  What is known, in the scope or polled was born or has    *)
(* ended; which way the clean-up takes follows from the scope.             *)
NoneRuns(S) == \A p \in S : startLife[p] # "alive"

WasBorn ==
    /\ finished => startLife[Leader] \in {"gone", "reused"}
    /\ startLife[Leader] = "unborn" => start = "spawns"
    /\ start = "spawns" => startLife[Leader] = "unborn"
    /\ \A p \in tree \cup members : startLife[p] # "unborn"
    /\ ~startScoped => members = {}

CleansOneWay ==
    /\ start \in {"scans", "looks", "again", "confirms", "holders", "unit", "kills", "leader", "session", "waits"}
         => ~verified
    /\ startScoped => start \notin {"again", "confirms", "kills", "leader", "session", "waits"}
    /\ start = "unit" => startScoped
    /\ startScoped /\ start \in {"scans", "looks", "holders", "unit"} => tree = {}
    /\ startScoped /\ start \in {"looks", "holders", "unit"} => finished
    /\ startScoped /\ start \in {"holders", "unit"} => NoneRuns(Starting!Session)

\* What is dead by then, and stays dead.
DeadSoFar ==
    /\ start \in {"leader", "session", "waits"} => NoneRuns(tree)
    /\ start = "waits" /\ complete => NoneRuns(Starting!Session \cup {Leader})
    /\ (start = "communicates" /\ complete) \/ start = "clean" =>
          /\ startLife[Leader] # "alive"
          /\ NoneRuns(IF verified THEN members ELSE Starting!Session \cup members \cup tree)
    /\ start = "clean" => ~Starting!There(Leader)

StartInv == Starting!StartTypeOK /\ WasBorn /\ CleansOneWay /\ DeadSoFar

LEMMA StartTypeKept ==
    ASSUME Starting!StartAssumption, StartInv, Starting!StartNext
    PROVE  Starting!StartTypeOK'
<1>1. CASE Starting!Spawned
  BY <1>1 DEF Starting!Spawned, Starting!Goes, Starting!Unspoilt, StartInv,
     Starting!StartTypeOK, Starting!Started, Starting!StartAssumption
<1>2. CASE Starting!Identified
  BY <1>2 DEF Starting!Identified, Starting!Goes, Starting!Unspoilt, StartInv,
     Starting!StartTypeOK, Starting!Started, Starting!StartAssumption
<1>3. CASE Starting!LooksForScope
  BY <1>3 DEF Starting!LooksForScope, Starting!Goes, Starting!Unspoilt, StartInv,
     Starting!StartTypeOK, Starting!Started, Starting!StartAssumption
<1>4. CASE Starting!PollsScope
  BY <1>4 DEF Starting!PollsScope, Starting!Reaped, Starting!Unspoilt, StartInv,
     Starting!StartTypeOK, Starting!Started, Starting!StartAssumption
<1>5. CASE Starting!Checked
  BY <1>5 DEF Starting!Checked, Starting!Reaped, Starting!Unspoilt, StartInv,
     Starting!StartTypeOK, Starting!Started, Starting!StartAssumption
<1>6. CASE Starting!Interrupted
  BY <1>6 DEF Starting!Interrupted, Starting!Unspoilt, StartInv,
     Starting!StartTypeOK, Starting!Started, Starting!StartAssumption
<1>7. CASE Starting!StopsScope
  BY <1>7 DEF Starting!StopsScope, Starting!Running, Starting!There,
     Starting!Reaped, Starting!Unspoilt, StartInv, Starting!StartTypeOK,
     Starting!Started, Starting!StartAssumption
<1>8. CASE Starting!Scans
  BY <1>8 DEF Starting!Scans, Starting!Running, Starting!Unspoilt, StartInv,
     Starting!StartTypeOK, Starting!Started, Starting!StartAssumption
<1>9. CASE Starting!PollsLeader
  BY <1>9 DEF Starting!PollsLeader, Starting!Reaped, Starting!Unspoilt,
     Starting!IdentityHolds, Starting!There, StartInv, Starting!StartTypeOK,
     Starting!Started, Starting!StartAssumption
<1>10. CASE Starting!LooksAtGroup
  BY <1>10 DEF Starting!LooksAtGroup, Starting!Running, Starting!Session,
     Starting!Unspoilt, StartInv, Starting!StartTypeOK, Starting!Started,
     Starting!StartAssumption
<1>11. CASE Starting!LooksAtHolders
  BY <1>11 DEF Starting!LooksAtHolders, Starting!Holders, Starting!Running,
     Starting!Unspoilt, StartInv, Starting!StartTypeOK, Starting!Started,
     Starting!StartAssumption
<1>12. CASE Starting!AddsHolders
  BY <1>12 DEF Starting!AddsHolders, Starting!Holders, Starting!Running,
     Starting!Goes, Starting!Unspoilt, StartInv, Starting!StartTypeOK,
     Starting!Started, Starting!StartAssumption
<1>13. CASE Starting!UnitGone
  BY <1>13 DEF Starting!UnitGone, Starting!Running, Starting!Goes,
     Starting!Unspoilt, StartInv, Starting!StartTypeOK, Starting!Started,
     Starting!StartAssumption
<1>14. CASE Starting!Confirms
  BY <1>14 DEF Starting!Confirms, Starting!Unspoilt, Starting!IdentityHolds,
     Starting!There, StartInv, Starting!StartTypeOK, Starting!Started,
     Starting!StartAssumption
<1>15. CASE Starting!KillsTree
  BY <1>15 DEF Starting!KillsTree, Starting!Goes, Starting!Unspoilt, StartInv,
     Starting!StartTypeOK, Starting!Started, Starting!StartAssumption
<1>16. CASE Starting!KillsLeader
  BY <1>16 DEF Starting!KillsLeader, Starting!There, Starting!Goes,
     Starting!Unspoilt, StartInv, Starting!StartTypeOK, Starting!Started,
     Starting!StartAssumption
<1>17. CASE Starting!AwaitsSession
  BY <1>17 DEF Starting!AwaitsSession, Starting!Running, Starting!Session,
     Starting!Goes, Starting!Unspoilt, StartInv, Starting!StartTypeOK,
     Starting!Started, Starting!StartAssumption
<1>18. CASE Starting!AwaitsTree
  BY <1>18 DEF Starting!AwaitsTree, Starting!Running, Starting!Goes,
     Starting!Unspoilt, StartInv, Starting!StartTypeOK, Starting!Started,
     Starting!StartAssumption
<1>19. CASE Starting!Communicates
  BY <1>19 DEF Starting!Communicates, Starting!Reaped, Starting!Unspoilt,
     StartInv, Starting!StartTypeOK, Starting!Started, Starting!StartAssumption
<1>20. CASE \E p \in Starting!Started : Starting!Exits(p)
  BY <1>20 DEF Starting!Exits, StartInv, Starting!StartTypeOK, Starting!Started,
     Starting!StartAssumption
<1>21. CASE \E p \in Starting!Started : Starting!Reuses(p)
  BY <1>21 DEF Starting!Reuses, Starting!Running, Starting!Session, StartInv,
     Starting!StartTypeOK, Starting!Started, Starting!StartAssumption
<1>22. CASE \E k \in Kids : Starting!Forking(k)
  BY <1>22 DEF Starting!Forking, Starting!Running, StartInv, Starting!StartTypeOK,
     Starting!Started, Starting!StartAssumption
<1>23. CASE \E k \in Kids : Starting!Daemonizes(k)
  BY <1>23 DEF Starting!Daemonizes, Starting!Running, StartInv,
     Starting!StartTypeOK, Starting!Started, Starting!StartAssumption
<1>24. CASE Starting!EntersScope
  BY <1>24 DEF Starting!EntersScope, StartInv, Starting!StartTypeOK,
     Starting!Started, Starting!StartAssumption
<1> QED
  BY <1>1, <1>2, <1>3, <1>4, <1>5, <1>6, <1>7, <1>8, <1>9, <1>10, <1>11, <1>12,
     <1>13, <1>14, <1>15, <1>16, <1>17, <1>18, <1>19, <1>20, <1>21, <1>22, <1>23,
     <1>24 DEF Starting!StartNext, Starting!Starts, Starting!Cleans,
     Starting!Processes

LEMMA StillBorn ==
    ASSUME Starting!StartAssumption, StartInv, Starting!StartNext
    PROVE  WasBorn'
<1>1. CASE Starting!Spawned
  BY <1>1 DEF Starting!Spawned, Starting!Goes, Starting!Unspoilt, StartInv,
     Starting!StartTypeOK, Starting!Started, Starting!StartAssumption, WasBorn
<1>2. CASE Starting!Identified
  BY <1>2 DEF Starting!Identified, Starting!Goes, Starting!Unspoilt, StartInv,
     Starting!StartTypeOK, Starting!Started, Starting!StartAssumption, WasBorn
<1>3. CASE Starting!LooksForScope
  BY <1>3 DEF Starting!LooksForScope, Starting!Goes, Starting!Unspoilt, StartInv,
     Starting!StartTypeOK, Starting!Started, Starting!StartAssumption, WasBorn
<1>4. CASE Starting!PollsScope
  BY <1>4 DEF Starting!PollsScope, Starting!Reaped, Starting!Unspoilt, StartInv,
     Starting!StartTypeOK, Starting!Started, Starting!StartAssumption, WasBorn
<1>5. CASE Starting!Checked
  BY <1>5 DEF Starting!Checked, Starting!Reaped, Starting!Unspoilt, StartInv,
     Starting!StartTypeOK, Starting!Started, Starting!StartAssumption, WasBorn
<1>6. CASE Starting!Interrupted
  BY <1>6 DEF Starting!Interrupted, Starting!Unspoilt, StartInv,
     Starting!StartTypeOK, Starting!Started, Starting!StartAssumption, WasBorn
<1>7. CASE Starting!StopsScope
  BY <1>7 DEF Starting!StopsScope, Starting!Running, Starting!There,
     Starting!Reaped, Starting!Unspoilt, StartInv, Starting!StartTypeOK,
     Starting!Started, Starting!StartAssumption, WasBorn
<1>8. CASE Starting!Scans
  BY <1>8 DEF Starting!Scans, Starting!Running, Starting!Unspoilt, StartInv,
     Starting!StartTypeOK, Starting!Started, Starting!StartAssumption, WasBorn
<1>9. CASE Starting!PollsLeader
  BY <1>9 DEF Starting!PollsLeader, Starting!Reaped, Starting!Unspoilt,
     Starting!IdentityHolds, Starting!There, StartInv, Starting!StartTypeOK,
     Starting!Started, Starting!StartAssumption, WasBorn
<1>10. CASE Starting!LooksAtGroup
  BY <1>10 DEF Starting!LooksAtGroup, Starting!Running, Starting!Session,
     Starting!Unspoilt, StartInv, Starting!StartTypeOK, Starting!Started,
     Starting!StartAssumption, WasBorn
<1>11. CASE Starting!LooksAtHolders
  BY <1>11 DEF Starting!LooksAtHolders, Starting!Holders, Starting!Running,
     Starting!Unspoilt, StartInv, Starting!StartTypeOK, Starting!Started,
     Starting!StartAssumption, WasBorn
<1>12. CASE Starting!AddsHolders
  BY <1>12 DEF Starting!AddsHolders, Starting!Holders, Starting!Running,
     Starting!Goes, Starting!Unspoilt, StartInv, Starting!StartTypeOK,
     Starting!Started, Starting!StartAssumption, WasBorn
<1>13. CASE Starting!UnitGone
  BY <1>13 DEF Starting!UnitGone, Starting!Running, Starting!Goes,
     Starting!Unspoilt, StartInv, Starting!StartTypeOK, Starting!Started,
     Starting!StartAssumption, WasBorn
<1>14. CASE Starting!Confirms
  BY <1>14 DEF Starting!Confirms, Starting!Unspoilt, Starting!IdentityHolds,
     Starting!There, StartInv, Starting!StartTypeOK, Starting!Started,
     Starting!StartAssumption, WasBorn
<1>15. CASE Starting!KillsTree
  BY <1>15 DEF Starting!KillsTree, Starting!Goes, Starting!Unspoilt, StartInv,
     Starting!StartTypeOK, Starting!Started, Starting!StartAssumption, WasBorn
<1>16. CASE Starting!KillsLeader
  BY <1>16 DEF Starting!KillsLeader, Starting!There, Starting!Goes,
     Starting!Unspoilt, StartInv, Starting!StartTypeOK, Starting!Started,
     Starting!StartAssumption, WasBorn
<1>17. CASE Starting!AwaitsSession
  BY <1>17 DEF Starting!AwaitsSession, Starting!Running, Starting!Session,
     Starting!Goes, Starting!Unspoilt, StartInv, Starting!StartTypeOK,
     Starting!Started, Starting!StartAssumption, WasBorn
<1>18. CASE Starting!AwaitsTree
  BY <1>18 DEF Starting!AwaitsTree, Starting!Running, Starting!Goes,
     Starting!Unspoilt, StartInv, Starting!StartTypeOK, Starting!Started,
     Starting!StartAssumption, WasBorn
<1>19. CASE Starting!Communicates
  BY <1>19 DEF Starting!Communicates, Starting!Reaped, Starting!Unspoilt,
     StartInv, Starting!StartTypeOK, Starting!Started, Starting!StartAssumption,
     WasBorn
<1>20. CASE \E p \in Starting!Started : Starting!Exits(p)
  BY <1>20 DEF Starting!Exits, StartInv, Starting!StartTypeOK, Starting!Started,
     Starting!StartAssumption, WasBorn
<1>21. CASE \E p \in Starting!Started : Starting!Reuses(p)
  BY <1>21 DEF Starting!Reuses, Starting!Running, Starting!Session, StartInv,
     Starting!StartTypeOK, Starting!Started, Starting!StartAssumption, WasBorn
<1>22. CASE \E k \in Kids : Starting!Forking(k)
  BY <1>22 DEF Starting!Forking, Starting!Running, StartInv, Starting!StartTypeOK,
     Starting!Started, Starting!StartAssumption, WasBorn
<1>23. CASE \E k \in Kids : Starting!Daemonizes(k)
  BY <1>23 DEF Starting!Daemonizes, Starting!Running, StartInv,
     Starting!StartTypeOK, Starting!Started, Starting!StartAssumption, WasBorn
<1>24. CASE Starting!EntersScope
  BY <1>24 DEF Starting!EntersScope, StartInv, Starting!StartTypeOK,
     Starting!Started, Starting!StartAssumption, WasBorn
<1> QED
  BY <1>1, <1>2, <1>3, <1>4, <1>5, <1>6, <1>7, <1>8, <1>9, <1>10, <1>11, <1>12,
     <1>13, <1>14, <1>15, <1>16, <1>17, <1>18, <1>19, <1>20, <1>21, <1>22, <1>23,
     <1>24 DEF Starting!StartNext, Starting!Starts, Starting!Cleans,
     Starting!Processes

LEMMA StillOneWay ==
    ASSUME Starting!StartAssumption, StartInv, Starting!StartNext
    PROVE  CleansOneWay'
<1>1. CASE Starting!Spawned
  BY <1>1 DEF Starting!Spawned, Starting!Goes, Starting!Unspoilt, StartInv,
     Starting!StartTypeOK, Starting!Started, Starting!StartAssumption, WasBorn,
     CleansOneWay, NoneRuns, Starting!Session
<1>2. CASE Starting!Identified
  BY <1>2 DEF Starting!Identified, Starting!Goes, Starting!Unspoilt, StartInv,
     Starting!StartTypeOK, Starting!Started, Starting!StartAssumption, WasBorn,
     CleansOneWay, NoneRuns, Starting!Session
<1>3. CASE Starting!LooksForScope
  BY <1>3 DEF Starting!LooksForScope, Starting!Goes, Starting!Unspoilt, StartInv,
     Starting!StartTypeOK, Starting!Started, Starting!StartAssumption, WasBorn,
     CleansOneWay, NoneRuns, Starting!Session
<1>4. CASE Starting!PollsScope
  BY <1>4 DEF Starting!PollsScope, Starting!Reaped, Starting!Unspoilt, StartInv,
     Starting!StartTypeOK, Starting!Started, Starting!StartAssumption, WasBorn,
     CleansOneWay, NoneRuns, Starting!Session
<1>5. CASE Starting!Checked
  BY <1>5 DEF Starting!Checked, Starting!Reaped, Starting!Unspoilt, StartInv,
     Starting!StartTypeOK, Starting!Started, Starting!StartAssumption, WasBorn,
     CleansOneWay, NoneRuns, Starting!Session
<1>6. CASE Starting!Interrupted
  BY <1>6 DEF Starting!Interrupted, Starting!Unspoilt, StartInv,
     Starting!StartTypeOK, Starting!Started, Starting!StartAssumption, WasBorn,
     CleansOneWay, NoneRuns, Starting!Session
<1>7. CASE Starting!StopsScope
  BY <1>7 DEF Starting!StopsScope, Starting!Running, Starting!There,
     Starting!Reaped, Starting!Unspoilt, StartInv, Starting!StartTypeOK,
     Starting!Started, Starting!StartAssumption, WasBorn, CleansOneWay, NoneRuns,
     Starting!Session
<1>8. CASE Starting!Scans
  BY <1>8 DEF Starting!Scans, Starting!Running, Starting!Unspoilt, StartInv,
     Starting!StartTypeOK, Starting!Started, Starting!StartAssumption, WasBorn,
     CleansOneWay, NoneRuns, Starting!Session
<1>9. CASE Starting!PollsLeader
  BY <1>9 DEF Starting!PollsLeader, Starting!Reaped, Starting!Unspoilt,
     Starting!IdentityHolds, Starting!There, StartInv, Starting!StartTypeOK,
     Starting!Started, Starting!StartAssumption, WasBorn, CleansOneWay, NoneRuns,
     Starting!Session
<1>10. CASE Starting!LooksAtGroup
  BY <1>10 DEF Starting!LooksAtGroup, Starting!Running, Starting!Session,
     Starting!Unspoilt, StartInv, Starting!StartTypeOK, Starting!Started,
     Starting!StartAssumption, WasBorn, CleansOneWay, NoneRuns
<1>11. CASE Starting!LooksAtHolders
  BY <1>11 DEF Starting!LooksAtHolders, Starting!Holders, Starting!Running,
     Starting!Unspoilt, StartInv, Starting!StartTypeOK, Starting!Started,
     Starting!StartAssumption, WasBorn, CleansOneWay, NoneRuns, Starting!Session
<1>12. CASE Starting!AddsHolders
  BY <1>12 DEF Starting!AddsHolders, Starting!Holders, Starting!Running,
     Starting!Goes, Starting!Unspoilt, StartInv, Starting!StartTypeOK,
     Starting!Started, Starting!StartAssumption, WasBorn, CleansOneWay, NoneRuns,
     Starting!Session
<1>13. CASE Starting!UnitGone
  BY <1>13 DEF Starting!UnitGone, Starting!Running, Starting!Goes,
     Starting!Unspoilt, StartInv, Starting!StartTypeOK, Starting!Started,
     Starting!StartAssumption, WasBorn, CleansOneWay, NoneRuns, Starting!Session
<1>14. CASE Starting!Confirms
  BY <1>14 DEF Starting!Confirms, Starting!Unspoilt, Starting!IdentityHolds,
     Starting!There, StartInv, Starting!StartTypeOK, Starting!Started,
     Starting!StartAssumption, WasBorn, CleansOneWay, NoneRuns, Starting!Session
<1>15. CASE Starting!KillsTree
  BY <1>15 DEF Starting!KillsTree, Starting!Goes, Starting!Unspoilt, StartInv,
     Starting!StartTypeOK, Starting!Started, Starting!StartAssumption, WasBorn,
     CleansOneWay, NoneRuns, Starting!Session
<1>16. CASE Starting!KillsLeader
  BY <1>16 DEF Starting!KillsLeader, Starting!There, Starting!Goes,
     Starting!Unspoilt, StartInv, Starting!StartTypeOK, Starting!Started,
     Starting!StartAssumption, WasBorn, CleansOneWay, NoneRuns, Starting!Session
<1>17. CASE Starting!AwaitsSession
  BY <1>17 DEF Starting!AwaitsSession, Starting!Running, Starting!Session,
     Starting!Goes, Starting!Unspoilt, StartInv, Starting!StartTypeOK,
     Starting!Started, Starting!StartAssumption, WasBorn, CleansOneWay, NoneRuns
<1>18. CASE Starting!AwaitsTree
  BY <1>18 DEF Starting!AwaitsTree, Starting!Running, Starting!Goes,
     Starting!Unspoilt, StartInv, Starting!StartTypeOK, Starting!Started,
     Starting!StartAssumption, WasBorn, CleansOneWay, NoneRuns, Starting!Session
<1>19. CASE Starting!Communicates
  BY <1>19 DEF Starting!Communicates, Starting!Reaped, Starting!Unspoilt,
     StartInv, Starting!StartTypeOK, Starting!Started, Starting!StartAssumption,
     WasBorn, CleansOneWay, NoneRuns, Starting!Session
<1>20. CASE \E p \in Starting!Started : Starting!Exits(p)
  BY <1>20 DEF Starting!Exits, StartInv, Starting!StartTypeOK, Starting!Started,
     Starting!StartAssumption, WasBorn, CleansOneWay, NoneRuns, Starting!Session
<1>21. CASE \E p \in Starting!Started : Starting!Reuses(p)
  BY <1>21 DEF Starting!Reuses, Starting!Running, Starting!Session, StartInv,
     Starting!StartTypeOK, Starting!Started, Starting!StartAssumption, WasBorn,
     CleansOneWay, NoneRuns
<1>22. CASE \E k \in Kids : Starting!Forking(k)
  BY <1>22 DEF Starting!Forking, Starting!Running, StartInv, Starting!StartTypeOK,
     Starting!Started, Starting!StartAssumption, WasBorn, CleansOneWay, NoneRuns,
     Starting!Session
<1>23. CASE \E k \in Kids : Starting!Daemonizes(k)
  BY <1>23 DEF Starting!Daemonizes, Starting!Running, StartInv,
     Starting!StartTypeOK, Starting!Started, Starting!StartAssumption, WasBorn,
     CleansOneWay, NoneRuns, Starting!Session
<1>24. CASE Starting!EntersScope
  BY <1>24 DEF Starting!EntersScope, StartInv, Starting!StartTypeOK,
     Starting!Started, Starting!StartAssumption, WasBorn, CleansOneWay, NoneRuns,
     Starting!Session
<1> QED
  BY <1>1, <1>2, <1>3, <1>4, <1>5, <1>6, <1>7, <1>8, <1>9, <1>10, <1>11, <1>12,
     <1>13, <1>14, <1>15, <1>16, <1>17, <1>18, <1>19, <1>20, <1>21, <1>22, <1>23,
     <1>24 DEF Starting!StartNext, Starting!Starts, Starting!Cleans,
     Starting!Processes

LEMMA StaysDead ==
    ASSUME Starting!StartAssumption, StartInv, Starting!StartNext
    PROVE  DeadSoFar'
<1>1. CASE Starting!Spawned
  BY <1>1 DEF Starting!Spawned, Starting!Goes, Starting!Unspoilt, StartInv,
     Starting!StartTypeOK, Starting!Started, Starting!StartAssumption, WasBorn,
     CleansOneWay, DeadSoFar, NoneRuns, Starting!Session, Starting!There
<1>2. CASE Starting!Identified
  BY <1>2 DEF Starting!Identified, Starting!Goes, Starting!Unspoilt, StartInv,
     Starting!StartTypeOK, Starting!Started, Starting!StartAssumption, WasBorn,
     CleansOneWay, DeadSoFar, NoneRuns, Starting!Session, Starting!There
<1>3. CASE Starting!LooksForScope
  BY <1>3 DEF Starting!LooksForScope, Starting!Goes, Starting!Unspoilt, StartInv,
     Starting!StartTypeOK, Starting!Started, Starting!StartAssumption, WasBorn,
     CleansOneWay, DeadSoFar, NoneRuns, Starting!Session, Starting!There
<1>4. CASE Starting!PollsScope
  BY <1>4 DEF Starting!PollsScope, Starting!Reaped, Starting!Unspoilt, StartInv,
     Starting!StartTypeOK, Starting!Started, Starting!StartAssumption, WasBorn,
     CleansOneWay, DeadSoFar, NoneRuns, Starting!Session, Starting!There
<1>5. CASE Starting!Checked
  BY <1>5 DEF Starting!Checked, Starting!Reaped, Starting!Unspoilt, StartInv,
     Starting!StartTypeOK, Starting!Started, Starting!StartAssumption, WasBorn,
     CleansOneWay, DeadSoFar, NoneRuns, Starting!Session, Starting!There
<1>6. CASE Starting!Interrupted
  BY <1>6 DEF Starting!Interrupted, Starting!Unspoilt, StartInv,
     Starting!StartTypeOK, Starting!Started, Starting!StartAssumption, WasBorn,
     CleansOneWay, DeadSoFar, NoneRuns, Starting!Session, Starting!There
<1>7. CASE Starting!StopsScope
  BY <1>7 DEF Starting!StopsScope, Starting!Running, Starting!There,
     Starting!Reaped, Starting!Unspoilt, StartInv, Starting!StartTypeOK,
     Starting!Started, Starting!StartAssumption, WasBorn, CleansOneWay, DeadSoFar,
     NoneRuns, Starting!Session
<1>8. CASE Starting!Scans
  BY <1>8 DEF Starting!Scans, Starting!Running, Starting!Unspoilt, StartInv,
     Starting!StartTypeOK, Starting!Started, Starting!StartAssumption, WasBorn,
     CleansOneWay, DeadSoFar, NoneRuns, Starting!Session, Starting!There
<1>9. CASE Starting!PollsLeader
  BY <1>9 DEF Starting!PollsLeader, Starting!Reaped, Starting!Unspoilt,
     Starting!IdentityHolds, Starting!There, StartInv, Starting!StartTypeOK,
     Starting!Started, Starting!StartAssumption, WasBorn, CleansOneWay, DeadSoFar,
     NoneRuns, Starting!Session
<1>10. CASE Starting!LooksAtGroup
  BY <1>10 DEF Starting!LooksAtGroup, Starting!Running, Starting!Session,
     Starting!Unspoilt, StartInv, Starting!StartTypeOK, Starting!Started,
     Starting!StartAssumption, WasBorn, CleansOneWay, DeadSoFar, NoneRuns,
     Starting!There
<1>11. CASE Starting!LooksAtHolders
  BY <1>11 DEF Starting!LooksAtHolders, Starting!Holders, Starting!Running,
     Starting!Unspoilt, StartInv, Starting!StartTypeOK, Starting!Started,
     Starting!StartAssumption, WasBorn, CleansOneWay, DeadSoFar, NoneRuns,
     Starting!Session, Starting!There
<1>12. CASE Starting!AddsHolders
  BY <1>12 DEF Starting!AddsHolders, Starting!Holders, Starting!Running,
     Starting!Goes, Starting!Unspoilt, StartInv, Starting!StartTypeOK,
     Starting!Started, Starting!StartAssumption, WasBorn, CleansOneWay, DeadSoFar,
     NoneRuns, Starting!Session, Starting!There
<1>13. CASE Starting!UnitGone
  BY <1>13 DEF Starting!UnitGone, Starting!Running, Starting!Goes,
     Starting!Unspoilt, StartInv, Starting!StartTypeOK, Starting!Started,
     Starting!StartAssumption, WasBorn, CleansOneWay, DeadSoFar, NoneRuns,
     Starting!Session, Starting!There
<1>14. CASE Starting!Confirms
  BY <1>14 DEF Starting!Confirms, Starting!Unspoilt, Starting!IdentityHolds,
     Starting!There, StartInv, Starting!StartTypeOK, Starting!Started,
     Starting!StartAssumption, WasBorn, CleansOneWay, DeadSoFar, NoneRuns,
     Starting!Session
<1>15. CASE Starting!KillsTree
  BY <1>15 DEF Starting!KillsTree, Starting!Goes, Starting!Unspoilt, StartInv,
     Starting!StartTypeOK, Starting!Started, Starting!StartAssumption, WasBorn,
     CleansOneWay, DeadSoFar, NoneRuns, Starting!Session, Starting!There
<1>16. CASE Starting!KillsLeader
  BY <1>16 DEF Starting!KillsLeader, Starting!There, Starting!Goes,
     Starting!Unspoilt, StartInv, Starting!StartTypeOK, Starting!Started,
     Starting!StartAssumption, WasBorn, CleansOneWay, DeadSoFar, NoneRuns,
     Starting!Session
<1>17. CASE Starting!AwaitsSession
  BY <1>17 DEF Starting!AwaitsSession, Starting!Running, Starting!Session,
     Starting!Goes, Starting!Unspoilt, StartInv, Starting!StartTypeOK,
     Starting!Started, Starting!StartAssumption, WasBorn, CleansOneWay, DeadSoFar,
     NoneRuns, Starting!There
<1>18. CASE Starting!AwaitsTree
  BY <1>18 DEF Starting!AwaitsTree, Starting!Running, Starting!Goes,
     Starting!Unspoilt, StartInv, Starting!StartTypeOK, Starting!Started,
     Starting!StartAssumption, WasBorn, CleansOneWay, DeadSoFar, NoneRuns,
     Starting!Session, Starting!There
<1>19. CASE Starting!Communicates
  BY <1>19 DEF Starting!Communicates, Starting!Reaped, Starting!Unspoilt,
     StartInv, Starting!StartTypeOK, Starting!Started, Starting!StartAssumption,
     WasBorn, CleansOneWay, DeadSoFar, NoneRuns, Starting!Session, Starting!There
<1>20. CASE \E p \in Starting!Started : Starting!Exits(p)
  BY <1>20 DEF Starting!Exits, StartInv, Starting!StartTypeOK, Starting!Started,
     Starting!StartAssumption, WasBorn, CleansOneWay, DeadSoFar, NoneRuns,
     Starting!Session, Starting!There
<1>21. CASE \E p \in Starting!Started : Starting!Reuses(p)
  BY <1>21 DEF Starting!Reuses, Starting!Running, Starting!Session, StartInv,
     Starting!StartTypeOK, Starting!Started, Starting!StartAssumption, WasBorn,
     CleansOneWay, DeadSoFar, NoneRuns, Starting!There
<1>22. CASE \E k \in Kids : Starting!Forking(k)
  BY <1>22 DEF Starting!Forking, Starting!Running, StartInv, Starting!StartTypeOK,
     Starting!Started, Starting!StartAssumption, WasBorn, CleansOneWay, DeadSoFar,
     NoneRuns, Starting!Session, Starting!There
<1>23. CASE \E k \in Kids : Starting!Daemonizes(k)
  BY <1>23 DEF Starting!Daemonizes, Starting!Running, StartInv,
     Starting!StartTypeOK, Starting!Started, Starting!StartAssumption, WasBorn,
     CleansOneWay, DeadSoFar, NoneRuns, Starting!Session, Starting!There
<1>24. CASE Starting!EntersScope
  BY <1>24 DEF Starting!EntersScope, StartInv, Starting!StartTypeOK,
     Starting!Started, Starting!StartAssumption, WasBorn, CleansOneWay, DeadSoFar,
     NoneRuns, Starting!Session, Starting!There
<1> QED
  BY <1>1, <1>2, <1>3, <1>4, <1>5, <1>6, <1>7, <1>8, <1>9, <1>10, <1>11, <1>12,
     <1>13, <1>14, <1>15, <1>16, <1>17, <1>18, <1>19, <1>20, <1>21, <1>22, <1>23,
     <1>24 DEF Starting!StartNext, Starting!Starts, Starting!Cleans,
     Starting!Processes

THEOREM StartInvariant == Starting!StartSpec => []StartInv
<1>0. Starting!StartAssumption
  BY RecordersConstants DEF RecordersConstants
<1>1. Starting!StartInit => StartInv
  <2> SUFFICES ASSUME Starting!StartInit PROVE StartInv
    OBVIOUS
  <2>1. {startScoped, identity, verified, finished, complete} \subseteq BOOLEAN
    BY DEF Starting!StartInit
  <2>2. Starting!StartTypeOK
    BY <1>0, <2>1 DEF Starting!StartInit, Starting!StartTypeOK, Starting!StartAssumption, Starting!Started
  <2>3. WasBorn /\ CleansOneWay /\ DeadSoFar
    BY DEF Starting!StartInit, WasBorn, CleansOneWay, DeadSoFar, NoneRuns, Starting!Started
  <2> QED
    BY <2>2, <2>3 DEF StartInv
<1>2. ASSUME StartInv, Starting!StartNext PROVE StartInv'
  BY <1>0, <1>2, StartTypeKept, StillBorn, StillOneWay, StaysDead DEF StartInv
<1>3. StartInv /\ UNCHANGED Starting!startVars => StartInv'
  BY DEF Starting!startVars, Starting!startKernelVars, StartInv, Starting!StartTypeOK, WasBorn, CleansOneWay,
     DeadSoFar, NoneRuns, Starting!There, Starting!Session
<1> QED
  BY <1>1, <1>2, <1>3, PTL DEF Starting!StartSpec

(* recorder.py - whatever of a start fails, however many processes it has  *)
(* started by then: if it says that it has cleaned up, none of them is     *)
(* left.                                                                   *)
THEOREM FailedStartsAreClean == Starting!StartSpec => []Starting!FailedStartIsClean
<1>1. StartInv => Starting!FailedStartIsClean
  BY DEF StartInv, DeadSoFar, NoneRuns, Starting!FailedStartIsClean, Starting!Running
<1> QED
  BY <1>1, StartInvariant, PTL

-----------------------------------------------------------------------------
(* Alarms.  That no occurrence is marked twice while the clock is not set  *)
(* back needs what relates the marks to the store: what was marked is not  *)
(* later than what its alarm was triggered for (LatestIsTriggered).  That  *)
(* none is missed needs that what lies in the catch-up minutes of the last *)
(* check was marked (OwedIsMarked).                                        *)

(* The lock, and what the commands under way were asked: a check knows the *)
(* minute, or the one before, while the clock is not set back.             *)
OneHolds == \A c \in Commands : alarmStep[c] \in {"holds", "locksAgain"} => storeLock = c

ChecksAreTimely ==
    \A c \in Commands : alarmStep[c] # "idle" =>
        /\ request[c] \in Requests
        /\ request[c].op = "check" /\ setBacks = 0 =>
             request[c].now \in {wallClock - 1, wallClock}

(* The store: an alarm keeps the minute of its id, and what it was         *)
(* triggered for is an occurrence that was marked.                         *)
Triggered(i) == alarms[i].triggered # Never

StoreIsSound ==
    /\ setBacks = 0 /\ lastChecked # Never => lastChecked <= wallClock
    /\ \A i \in DOMAIN alarms :
         /\ alarms[i].minute = i[1]
         /\ Triggered(i) =>
              /\ alarms[i].triggered % Day = i[1]
              /\ marked[<<i, alarms[i].triggered>>] > 0
              /\ setBacks = 0 => alarms[i].triggered <= wallClock

(* While the clock is not set back, what was marked is not later than what *)
(* its alarm was triggered for.                                            *)
LatestIsTriggered ==
    setBacks = 0 /\ CatchUp + 1 < Day =>
      \A o \in Ids \X Times : marked[o] > 0 =>
        o[1] \in DOMAIN alarms /\ Triggered(o[1]) /\ o[2] <= alarms[o[1]].triggered

(* What is owed is an occurrence of an enabled alarm; and what lies in the *)
(* catch-up minutes of the last check was marked.                          *)
OwedIsDue ==
    \A o \in owed : /\ o[1] \in DOMAIN alarms /\ alarms[o[1]].enabled
                    /\ Occurs(alarms[o[1]], o[2])

OwedIsMarked ==
    setBacks = 0 /\ CatchUp < Day /\ lastChecked # Never =>
      \A o \in owed : lastChecked - CatchUp <= o[2] /\ o[2] <= lastChecked => marked[o] > 0

AlarmInv ==
    /\ AlarmTypeOK /\ OneHolds /\ ChecksAreTimely /\ StoreIsSound
    /\ LatestIsTriggered /\ MarkedOnce /\ OwedIsDue /\ OwedIsMarked

-----------------------------------------------------------------------------
(* What a command leaves of the store.                                     *)
StoreTypeOK ==
    /\ DOMAIN alarms \subseteq Ids /\ alarms \in [DOMAIN alarms -> Alarm]
    /\ Cardinality(DOMAIN alarms) <= MaxAlarms
    /\ lastChecked \in Times \cup {Never}
    /\ marked \in [Ids \X Times -> 0..2]
    /\ owed \subseteq Ids \X Times

StoreInv ==
    StoreTypeOK /\ StoreIsSound /\ LatestIsTriggered /\ MarkedOnce /\ OwedIsDue /\ OwedIsMarked

(* Numbers and sets                                                        *)

(* Two occurrences of one minute of the day lie a day apart.               *)
LEMMA DayApart ==
    ASSUME NEW t \in Nat, NEW u \in Nat, t % Day = u % Day, t < u
    PROVE  u - t >= Day
<1>1. Day \in Nat /\ Day > 0
  BY AlarmAssumption DEF AlarmAssumption
<1>2. /\ t = Day * (t \div Day) + (t % Day) /\ u = Day * (u \div Day) + (u % Day)
      /\ t \div Day \in Int /\ u \div Day \in Int /\ t % Day \in Int
  BY <1>1
<1> DEFINE d == (u \div Day) - (t \div Day)
<1>3. d \in Int /\ u - t = Day * d
  BY <1>1, <1>2
<1>4. d >= 1
  BY <1>1, <1>3
<1> QED
  BY <1>1, <1>3, <1>4

(* A bounded nonempty set of natural numbers has a greatest element.       *)
LEMMA MaxIsIn ==
    ASSUME NEW S, NEW n \in Nat, S \subseteq 0..n, S # {}
    PROVE  Max(S) \in S /\ \A y \in S : Max(S) >= y
<1> DEFINE T == {n - x : x \in S}
<1>a. \A x \in S : x \in Nat /\ n - x \in Nat
  OBVIOUS
<1>1. T \subseteq Nat /\ T # {}
  BY <1>a
<1>2. \E x \in T : \A y \in T : ~(<<y, x>> \in OpToRel(<, Nat))
  <2> HIDE DEF T
  <2> QED
    BY <1>1, WFMin, NatLessThanWellFounded, Zenon
<1>3. PICK x \in T : \A y \in T : ~(<<y, x>> \in OpToRel(<, Nat))
  BY <1>2
<1>4. \A y \in T : ~(y < x)
  BY <1>1, <1>3 DEF OpToRel
<1>5. PICK m \in S : x = n - m
  OBVIOUS
<1>6. \A y \in S : m >= y
  <2> TAKE y \in S
  <2>1. n - y \in T /\ y \in Nat /\ m \in Nat
    BY <1>a
  <2>2. ~(n - y < n - m)
    BY <1>4, <1>5, <2>1
  <2> QED
    BY <2>1, <2>2
<1> HIDE DEF T
<1>7. \E x1 \in S : \A y \in S : x1 >= y
  BY <1>6
<1> QED
  BY <1>7 DEF Max

LEMMA MaxOfTwo ==
    ASSUME NEW a \in Int, NEW b \in Int PROVE Max({a, b}) = IF a >= b THEN a ELSE b
<1> DEFINE m == IF a >= b THEN a ELSE b
<1>1. m \in {a, b} /\ \A y \in {a, b} : m >= y
  OBVIOUS
<1>2. \A x \in {a, b} : (\A y \in {a, b} : x >= y) => x = m
  OBVIOUS
<1> DEFINE x0 == Max({a, b})
<1>3. x0 \in {a, b} /\ \A y \in {a, b} : x0 >= y
  BY <1>1 DEF Max
<1> HIDE DEF x0
<1>4. x0 = m
  BY <1>2, <1>3
<1> QED
  BY <1>4 DEF x0

LEMMA CheckRequest ==
    ASSUME NEW r \in Requests, r.op = "check"
    PROVE  r.now \in Times /\ r.catchUp \in {0, CatchUp} /\ r.mark \in BOOLEAN
BY DEF Requests

LEMMA WindowBounds ==
    ASSUME StoreTypeOK, NEW minute \in Times, NEW catchUp \in {0, CatchUp}
    PROVE  /\ WindowStart(minute, catchUp) \in Int
           /\ minute - catchUp <= WindowStart(minute, catchUp) /\ WindowStart(minute, catchUp) <= minute
           /\ catchUp > 0 /\ (lastChecked = Never \/ lastChecked > minute)
                => WindowStart(minute, catchUp) = minute - catchUp
           /\ catchUp > 0 /\ lastChecked # Never /\ lastChecked <= minute
                => WindowStart(minute, catchUp) \in {lastChecked, minute - catchUp}
<1>1. minute \in Int /\ catchUp \in Int /\ catchUp >= 0 /\ Times \subseteq Int
  BY AlarmAssumption DEF AlarmAssumption, Times
<1>2. CASE lastChecked # Never
  <2>1. lastChecked \in Int
    BY <1>1, <1>2 DEF StoreTypeOK
  <2>2. Max({lastChecked, minute - catchUp}) = IF lastChecked >= minute - catchUp THEN lastChecked ELSE minute - catchUp
    BY <1>1, <2>1, MaxOfTwo
  <2> QED
    BY <1>1, <1>2, <2>1, <2>2 DEF WindowStart
<1>3. CASE lastChecked = Never
  BY <1>1, <1>3 DEF WindowStart
<1> QED
  BY <1>2, <1>3

LEMMA FoundInWindow ==
    ASSUME StoreTypeOK, NEW minute \in Times, NEW catchUp \in {0, CatchUp}, NEW alarm,
           DueOccurrences(alarm, WindowStart(minute, catchUp), minute) # {}
    PROVE  LET found == DueOccurrences(alarm, WindowStart(minute, catchUp), minute)
           IN Max(found) \in found /\ \A t \in found : t <= Max(found)
<1> DEFINE found == DueOccurrences(alarm, WindowStart(minute, catchUp), minute)
<1>1. found \subseteq 0..minute /\ minute \in Nat
  BY AlarmAssumption DEF AlarmAssumption, DueOccurrences, Times
<1>2. found # {}
  OBVIOUS
<1>3. \A t \in found : t \in Nat
  BY <1>1
<1> HIDE DEF found
<1>4. Max(found) \in found /\ \A t \in found : Max(found) >= t
  BY <1>1, <1>2, MaxIsIn
<1>5. \A t \in found : t <= Max(found)
  BY <1>3, <1>4
<1> QED
  BY <1>4, <1>5 DEF found

(* What a check finds due is an occurrence of its alarm in the window.     *)
LEMMA DueIsIn ==
    ASSUME StoreTypeOK, NEW minute \in Times, NEW catchUp \in {0, CatchUp},
           NEW o \in Due(minute, catchUp)
    PROVE  /\ o[1] \in DOMAIN alarms /\ alarms[o[1]].enabled /\ o[2] \in Times
           /\ Occurs(alarms[o[1]], o[2])
           /\ minute - catchUp <= o[2] /\ o[2] <= minute
           /\ alarms[o[1]].triggered # o[2] /\ o \in Ids \X Times
           /\ o[2] = Max(DueOccurrences(alarms[o[1]], WindowStart(minute, catchUp), minute))
<1> DEFINE found == DueOccurrences(alarms[o[1]], WindowStart(minute, catchUp), minute)
<1>1. /\ o \in Ids \X Times /\ o[1] \in DOMAIN alarms /\ alarms[o[1]].enabled
      /\ found # {} /\ o[2] = Max(found) /\ alarms[o[1]].triggered # o[2]
  BY DEF Due
<1>2. o[2] \in found
  BY <1>1, FoundInWindow
<1>3. /\ WindowStart(minute, catchUp) \in Int /\ minute - catchUp <= WindowStart(minute, catchUp)
      /\ minute \in Int /\ catchUp \in Int
  BY WindowBounds, AlarmAssumption DEF AlarmAssumption, Times
<1>4. o[2] \in Times /\ o[2] \in Int
  BY <1>1 DEF Times
<1>5. WindowStart(minute, catchUp) <= o[2] /\ o[2] <= minute /\ Occurs(alarms[o[1]], o[2])
  BY <1>2 DEF DueOccurrences
<1>6. minute - catchUp <= o[2]
  BY <1>3, <1>4, <1>5
<1> QED
  BY <1>1, <1>4, <1>5, <1>6

(* An owed occurrence in a window shorter than a day is the one that is    *)
(* found there.                                                            *)
LEMMA OwedIsFound ==
    ASSUME StoreInv, NEW minute \in Times, NEW o \in owed, CatchUp < Day,
           WindowStart(minute, CatchUp) <= o[2], o[2] <= minute
    PROVE  o \in Due(minute, CatchUp) \/ alarms[o[1]].triggered = o[2]
<1> DEFINE found == DueOccurrences(alarms[o[1]], WindowStart(minute, CatchUp), minute)
<1>1. /\ o \in Ids \X Times /\ o[1] \in DOMAIN alarms /\ alarms[o[1]].enabled
      /\ Occurs(alarms[o[1]], o[2])
  BY DEF StoreInv, StoreTypeOK, OwedIsDue
<1>2. o[2] \in found
  BY <1>1 DEF DueOccurrences
<1>3. Max(found) \in found /\ \A t \in found : t <= Max(found)
  BY <1>2, FoundInWindow DEF StoreInv
<1>4. Max(found) = o[2]
  <2> DEFINE m == Max(found)
  <2>1. m \in Times /\ m <= minute /\ WindowStart(minute, CatchUp) <= m /\ m % Day = o[2] % Day
    BY <1>1, <1>3 DEF DueOccurrences, Occurs
  <2>2. minute - CatchUp <= WindowStart(minute, CatchUp) /\ WindowStart(minute, CatchUp) \in Int
    BY WindowBounds DEF StoreInv
  <2>3. minute \in Nat /\ m \in Nat /\ o[2] \in Nat /\ CatchUp \in Nat /\ Day \in Nat
    BY <1>1, <2>1, AlarmAssumption DEF AlarmAssumption, Times
  <2>4. o[2] <= m
    BY <1>2, <1>3
  <2>5. ~(o[2] < m)
    <3> SUFFICES ASSUME o[2] < m PROVE FALSE
      OBVIOUS
    <3>1. m - o[2] >= Day
      BY <2>1, <2>3, DayApart
    <3> HIDE DEF m
    <3> QED
      BY <2>1, <2>2, <2>3, <3>1
  <2> HIDE DEF m
  <2>6. m = o[2]
    BY <2>3, <2>4, <2>5
  <2> QED
    BY <2>6 DEF m
<1> QED
  BY <1>1, <1>2, <1>4 DEF Due

-----------------------------------------------------------------------------
(* A free id                                                               *)
LEMMA IdsAreFinite ==
    /\ IsFiniteSet(Ids)
    /\ \A S \in SUBSET Ids : IsFiniteSet(S)
<1>1. IsFiniteSet(Minutes)
  <2>1. IsFiniteSet(0..(Day - 1))
    BY FS_Interval, AlarmAssumption DEF AlarmAssumption
  <2> QED
    BY <2>1, FS_Subset, AlarmAssumption DEF AlarmAssumption
<1>2. IsFiniteSet(1..MaxAlarms)
  BY FS_Interval, AlarmAssumption DEF AlarmAssumption
<1>3. IsFiniteSet(Ids)
  BY <1>1, <1>2, FS_Product DEF Ids
<1> QED
  BY <1>3, FS_Subset

LEMMA FreeIdIsFree ==
    ASSUME StoreTypeOK, NEW minute \in Minutes, Cardinality(DOMAIN alarms) < MaxAlarms
    PROVE  FreeId(minute) \in Ids \ DOMAIN alarms /\ FreeId(minute)[1] = minute
<1> DEFINE free == {n \in 1..MaxAlarms : <<minute, n>> \notin DOMAIN alarms}
<1>1. free # {}
  <2> SUFFICES ASSUME free = {} PROVE FALSE
    OBVIOUS
  <2> DEFINE row == {minute} \X (1..MaxAlarms)
  <2>1. row \subseteq DOMAIN alarms
    OBVIOUS
  <2>2. IsFiniteSet({minute}) /\ Cardinality({minute}) = 1
    BY FS_Singleton
  <2>3. IsFiniteSet(1..MaxAlarms) /\ Cardinality(1..MaxAlarms) = MaxAlarms
    BY FS_Interval, AlarmAssumption DEF AlarmAssumption
  <2>4. Cardinality(row) = MaxAlarms
    <3>1. Cardinality({minute} \X (1..MaxAlarms)) = Cardinality({minute}) * Cardinality(1..MaxAlarms)
      BY <2>2, <2>3, FS_Product
    <3> QED
      BY <2>2, <2>3, <3>1, AlarmAssumption DEF AlarmAssumption
  <2>5. IsFiniteSet(DOMAIN alarms)
    BY IdsAreFinite DEF StoreTypeOK
  <2> HIDE DEF row
  <2>6. Cardinality(row) <= Cardinality(DOMAIN alarms)
    BY <2>1, <2>5, FS_Subset
  <2>7. Cardinality(DOMAIN alarms) \in Nat
    BY <2>5, FS_CardinalityType
  <2> QED
    BY <2>4, <2>6, <2>7, AlarmAssumption DEF AlarmAssumption
<1>2. \E n \in free : \A m \in free : ~(<<m, n>> \in OpToRel(<, Nat))
  <2>1. free \subseteq Nat
    OBVIOUS
  <2> HIDE DEF free
  <2> QED
    BY <1>1, <2>1, WFMin, NatLessThanWellFounded, Zenon
<1>3. PICK n \in free : \A m \in free : ~(<<m, n>> \in OpToRel(<, Nat))
  BY <1>2
<1>4. \A m \in 1..(n - 1) : <<minute, m>> \in DOMAIN alarms
  <2> SUFFICES ASSUME NEW m \in 1..(n - 1), <<minute, m>> \notin DOMAIN alarms PROVE FALSE
    OBVIOUS
  <2>1. m \in free /\ m < n /\ m \in Nat /\ n \in Nat
    BY AlarmAssumption DEF AlarmAssumption
  <2> QED
    BY <1>3, <2>1 DEF OpToRel
<1> DEFINE least == CHOOSE k \in 1..MaxAlarms :
                      /\ <<minute, k>> \notin DOMAIN alarms
                      /\ \A m \in 1..(k - 1) : <<minute, m>> \in DOMAIN alarms
<1>5. least \in 1..MaxAlarms /\ <<minute, least>> \notin DOMAIN alarms
  BY <1>3, <1>4
<1>6. FreeId(minute) = <<minute, least>>
  BY DEF FreeId
<1> HIDE DEF least
<1> QED
  BY <1>5, <1>6 DEF Ids

-----------------------------------------------------------------------------
(* What a command does to the store                                        *)
LEMMA AddKeeps ==
    ASSUME StoreInv, NEW r \in Requests, AddAlarm(r), UNCHANGED <<wallClock, setBacks>>
    PROVE  StoreInv'
<1>1. CASE Cardinality(DOMAIN alarms) >= MaxAlarms
  BY <1>1 DEF AddAlarm, storeVars, StoreInv, StoreTypeOK, StoreIsSound, Triggered,
     LatestIsTriggered, MarkedOnce, OwedIsDue, OwedIsMarked
<1>2. CASE ~(Cardinality(DOMAIN alarms) >= MaxAlarms)
  <2> DEFINE id == FreeId(r.minute)
             new == [minute |-> r.minute, days |-> r.days, enabled |-> r.enabled,
                     triggered |-> Never]
  <2>1. /\ alarms' = [i \in DOMAIN alarms \cup {id} |-> IF i = id THEN new ELSE alarms[i]]
        /\ marked' = [o \in DOMAIN marked |-> IF o[1] \in {id} THEN 0 ELSE marked[o]]
        /\ owed' = {o \in owed : o[1] \notin {id}}
        /\ lastChecked' = lastChecked
    BY <1>2 DEF AddAlarm, Forget, Waive
  <2>2. r.minute \in Minutes /\ new \in Alarm
    BY DEF AddAlarm, Requests, Alarm
  <2>3. IsFiniteSet(DOMAIN alarms) /\ Cardinality(DOMAIN alarms) \in Nat
    BY IdsAreFinite, FS_CardinalityType DEF StoreInv, StoreTypeOK
  <2>4. Cardinality(DOMAIN alarms) < MaxAlarms
    BY <1>2, <2>3, AlarmAssumption DEF AlarmAssumption
  <2>5. id \in Ids \ DOMAIN alarms /\ id[1] = r.minute
    BY <2>2, <2>4, FreeIdIsFree DEF StoreInv
  <2>6. new.minute = r.minute /\ new.triggered = Never
    OBVIOUS
  <2> HIDE DEF id, new
  <2>7. StoreTypeOK'
    <3>1. Cardinality(DOMAIN alarms \cup {id}) = Cardinality(DOMAIN alarms) + 1
      BY <2>3, <2>5, FS_AddElement
    <3>2. DOMAIN alarms' = DOMAIN alarms \cup {id}
      BY <2>1
    <3>3. Cardinality(DOMAIN alarms') <= MaxAlarms
      BY <2>3, <2>4, <3>1, <3>2, AlarmAssumption DEF AlarmAssumption
    <3>4. alarms' \in [DOMAIN alarms' -> Alarm]
      BY <2>1, <2>2, <3>2 DEF StoreInv, StoreTypeOK
    <3>5. marked' \in [Ids \X Times -> 0..2]
      BY <2>1 DEF StoreInv, StoreTypeOK
    <3> QED
      BY <2>1, <2>5, <3>2, <3>3, <3>4, <3>5 DEF StoreInv, StoreTypeOK
  <2>8. \A i \in DOMAIN alarms : i # id /\ alarms'[i] = alarms[i] /\ i \in DOMAIN alarms'
    BY <2>1, <2>5
  <2>9. \A i \in DOMAIN alarms, t \in Times : marked'[<<i, t>>] = marked[<<i, t>>]
    BY <2>1, <2>8 DEF StoreInv, StoreTypeOK
  <2>10. \A o \in Ids \X Times : marked'[o] = IF o[1] = id THEN 0 ELSE marked[o]
    BY <2>1 DEF StoreInv, StoreTypeOK
  <2>11. StoreIsSound'
    BY <2>1, <2>5, <2>6, <2>8, <2>9 DEF StoreInv, StoreIsSound, Triggered, StoreTypeOK, Alarm
  <2>12. LatestIsTriggered' /\ MarkedOnce'
    BY <2>1, <2>8, <2>10 DEF StoreInv, LatestIsTriggered, Triggered, MarkedOnce, StoreTypeOK
  <2>13. OwedIsDue'
    BY <2>1, <2>8 DEF StoreInv, OwedIsDue, Occurs
  <2>14. OwedIsMarked'
    BY <2>1, <2>10 DEF StoreInv, OwedIsMarked, StoreTypeOK
  <2> QED
    BY <2>7, <2>11, <2>12, <2>13, <2>14 DEF StoreInv
<1> QED
  BY <1>1, <1>2

LEMMA RemoveKeeps ==
    ASSUME StoreInv, NEW r \in Requests, RemoveAlarm(r), UNCHANGED <<wallClock, setBacks>>
    PROVE  StoreInv'
<1>1. /\ alarms' = [i \in DOMAIN alarms \ {r.id} |-> alarms[i]]
      /\ marked' = [o \in DOMAIN marked |-> IF o[1] \in {r.id} THEN 0 ELSE marked[o]]
      /\ owed' = {o \in owed : o[1] \notin {r.id}}
      /\ lastChecked' = lastChecked
  BY DEF RemoveAlarm, Forget, Waive
<1>2. StoreTypeOK'
  <2>1. IsFiniteSet(DOMAIN alarms)
    BY IdsAreFinite DEF StoreInv, StoreTypeOK
  <2>2. DOMAIN alarms' = DOMAIN alarms \ {r.id} /\ DOMAIN alarms' \subseteq DOMAIN alarms
    BY <1>1
  <2>3. Cardinality(DOMAIN alarms') <= Cardinality(DOMAIN alarms) /\ IsFiniteSet(DOMAIN alarms')
    BY <2>1, <2>2, FS_Subset
  <2>4. Cardinality(DOMAIN alarms') <= MaxAlarms
    BY <2>1, <2>3, FS_CardinalityType, AlarmAssumption DEF AlarmAssumption, StoreInv, StoreTypeOK
  <2>5. alarms' \in [DOMAIN alarms' -> Alarm]
    BY <1>1, <2>2 DEF StoreInv, StoreTypeOK
  <2>6. marked' \in [Ids \X Times -> 0..2]
    BY <1>1 DEF StoreInv, StoreTypeOK
  <2> QED
    BY <1>1, <2>2, <2>4, <2>5, <2>6 DEF StoreInv, StoreTypeOK
<1>3. \A i \in DOMAIN alarms' : i \in DOMAIN alarms /\ i # r.id /\ alarms'[i] = alarms[i]
  BY <1>1
<1>4. \A i \in DOMAIN alarms : i # r.id => i \in DOMAIN alarms'
  BY <1>1
<1>5. \A o \in Ids \X Times : marked'[o] = IF o[1] = r.id THEN 0 ELSE marked[o]
  BY <1>1 DEF StoreInv, StoreTypeOK
<1>6. \A i \in DOMAIN alarms', t \in Times : marked'[<<i, t>>] = marked[<<i, t>>]
  BY <1>3, <1>5 DEF StoreInv, StoreTypeOK
<1>7. StoreIsSound'
  BY <1>1, <1>3, <1>6 DEF StoreInv, StoreIsSound, Triggered, StoreTypeOK, Alarm
<1>8. LatestIsTriggered' /\ MarkedOnce'
  BY <1>1, <1>3, <1>4, <1>5 DEF StoreInv, LatestIsTriggered, Triggered, MarkedOnce, StoreTypeOK
<1>9. OwedIsDue'
  BY <1>1, <1>3, <1>4 DEF StoreInv, OwedIsDue, Occurs
<1>10. OwedIsMarked'
  BY <1>1, <1>5 DEF StoreInv, OwedIsMarked, StoreTypeOK
<1> QED
  BY <1>2, <1>7, <1>8, <1>9, <1>10 DEF StoreInv

LEMMA SetKeeps ==
    ASSUME StoreInv, NEW r \in Requests, SetAlarmEnabled(r), UNCHANGED <<wallClock, setBacks>>
    PROVE  StoreInv'
<1>1. /\ alarms' = [i \in DOMAIN alarms |->
                      IF i = r.id THEN [alarms[i] EXCEPT !.enabled = r.enabled] ELSE alarms[i]]
      /\ IF r.enabled THEN owed' = owed ELSE owed' = {o \in owed : o[1] \notin {r.id}}
      /\ lastChecked' = lastChecked /\ marked' = marked
  BY DEF SetAlarmEnabled, Waive
<1>2. r.enabled \in BOOLEAN
  BY DEF SetAlarmEnabled, Requests
<1>3. DOMAIN alarms' = DOMAIN alarms
  BY <1>1
<1>4. \A i \in DOMAIN alarms : /\ alarms'[i] \in Alarm
                               /\ alarms'[i].minute = alarms[i].minute
                               /\ alarms'[i].days = alarms[i].days
                               /\ alarms'[i].triggered = alarms[i].triggered
                               /\ i # r.id => alarms'[i] = alarms[i]
                               /\ i = r.id => alarms'[i].enabled = r.enabled
  <2> SUFFICES ASSUME NEW i \in DOMAIN alarms
               PROVE  /\ alarms'[i] \in Alarm
                      /\ alarms'[i].minute = alarms[i].minute
                      /\ alarms'[i].days = alarms[i].days
                      /\ alarms'[i].triggered = alarms[i].triggered
                      /\ i # r.id => alarms'[i] = alarms[i]
                      /\ i = r.id => alarms'[i].enabled = r.enabled
    OBVIOUS
  <2>1. alarms[i] \in Alarm
    BY DEF StoreInv, StoreTypeOK
  <2>2. CASE i # r.id
    BY <1>1, <2>1, <2>2
  <2>3. CASE i = r.id
    <3>1. alarms'[i] = [alarms[i] EXCEPT !.enabled = r.enabled]
      BY <1>1, <2>3
    <3> QED
      BY <1>2, <2>1, <2>3, <3>1 DEF Alarm
  <2> QED
    BY <2>2, <2>3
<1>5. StoreTypeOK'
  <2>1. alarms' \in [DOMAIN alarms' -> Alarm]
    BY <1>1, <1>3, <1>4
  <2> QED
    BY <1>1, <1>3, <2>1 DEF StoreInv, StoreTypeOK
<1>6. StoreIsSound' /\ LatestIsTriggered' /\ MarkedOnce'
  BY <1>1, <1>3, <1>4 DEF StoreInv, StoreIsSound, Triggered, LatestIsTriggered, MarkedOnce
<1>7. OwedIsDue'
  BY <1>1, <1>3, <1>4 DEF StoreInv, OwedIsDue, Occurs
<1>8. OwedIsMarked'
  BY <1>1 DEF StoreInv, OwedIsMarked
<1> QED
  BY <1>5, <1>6, <1>7, <1>8 DEF StoreInv

LEMMA ImportKeeps ==
    ASSUME StoreInv, Imports, UNCHANGED <<wallClock, setBacks>>
    PROVE  StoreInv'
<1>1. PICK ids \in SUBSET Ids, days \in DaySets :
         /\ Cardinality(ids) <= 1
         /\ alarms' = [i \in ids |-> [minute |-> i[1], days |-> days,
                                      enabled |-> TRUE, triggered |-> Never]]
  BY DEF Imports
<1>2. /\ lastChecked' = Never
      /\ marked' = [o \in DOMAIN marked |-> IF o[1] \in Ids THEN 0 ELSE marked[o]]
      /\ owed' = {o \in owed : o[1] \notin Ids}
  BY DEF Imports, Forget, Waive
<1>3. owed' = {}
  BY <1>2 DEF StoreInv, StoreTypeOK
<1>4. DOMAIN alarms' = ids
  BY <1>1
<1>5. \A i \in ids : alarms'[i] \in Alarm /\ alarms'[i].minute = i[1] /\ alarms'[i].triggered = Never
  BY <1>1 DEF Alarm, Ids
<1>6. marked' \in [Ids \X Times -> 0..2] /\ \A o \in Ids \X Times : marked'[o] = 0
  BY <1>2 DEF StoreInv, StoreTypeOK
<1>7. StoreTypeOK'
  <2>1. alarms' \in [DOMAIN alarms' -> Alarm]
    BY <1>1, <1>4, <1>5
  <2>2. IsFiniteSet(ids) /\ Cardinality(ids) \in Nat
    BY IdsAreFinite, FS_CardinalityType
  <2>3. Cardinality(DOMAIN alarms') <= MaxAlarms
    BY <1>1, <1>4, <2>2, AlarmAssumption DEF AlarmAssumption
  <2> QED
    BY <1>2, <1>3, <1>4, <1>6, <2>1, <2>3 DEF StoreTypeOK
<1>8. StoreIsSound' /\ LatestIsTriggered' /\ MarkedOnce'
  BY <1>2, <1>4, <1>5, <1>6 DEF StoreIsSound, Triggered, LatestIsTriggered, MarkedOnce
<1>9. OwedIsDue' /\ OwedIsMarked'
  BY <1>3 DEF OwedIsDue, OwedIsMarked
<1> QED
  BY <1>7, <1>8, <1>9 DEF StoreInv

LEMMA MinOfTwo == \A n \in 0..2 : Min({n + 1, 2}) = IF n = 0 THEN 1 ELSE 2
<1> TAKE n \in 0..2
<1> DEFINE m == IF n = 0 THEN 1 ELSE 2
           x0 == Min({n + 1, 2})
<1>1. m \in {n + 1, 2} /\ \A y \in {n + 1, 2} : m <= y
  OBVIOUS
<1>2. \A x \in {n + 1, 2} : (\A y \in {n + 1, 2} : x <= y) => x = m
  OBVIOUS
<1>3. x0 \in {n + 1, 2} /\ \A y \in {n + 1, 2} : x0 <= y
  BY <1>1 DEF Min
<1> HIDE DEF x0
<1>4. x0 = m
  BY <1>2, <1>3
<1> QED
  BY <1>4 DEF x0

(* A check that marks: each alarm it finds is triggered for the occurrence *)
(* that was found, and that one is marked; the others stay as they were.   *)
LEMMA CheckEffects ==
    ASSUME StoreInv, NEW r \in Requests, CheckDueAlarms(r), r.mark
    PROVE  /\ r.now \in Times /\ r.catchUp \in {0, CatchUp}
           /\ DOMAIN alarms' = DOMAIN alarms /\ lastChecked' = r.now
           /\ owed' = IF r.catchUp = 0 THEN {} ELSE owed
           /\ \A i \in DOMAIN alarms :
                /\ alarms'[i] \in Alarm
                /\ alarms'[i].minute = alarms[i].minute
                /\ alarms'[i].days = alarms[i].days
                /\ alarms'[i].enabled = alarms[i].enabled
                /\ \/ alarms'[i].triggered = alarms[i].triggered
                      /\ \A t \in Times : <<i, t>> \notin Due(r.now, r.catchUp)
                   \/ /\ alarms'[i].triggered \in Times
                      /\ <<i, alarms'[i].triggered>> \in Due(r.now, r.catchUp)
                      /\ \A t \in Times : <<i, t>> \in Due(r.now, r.catchUp)
                                            => t = alarms'[i].triggered
           /\ marked' \in [Ids \X Times -> 0..2]
           /\ \A o \in Ids \X Times :
                IF o \in Due(r.now, r.catchUp)
                THEN marked'[o] > 0 /\ (marked[o] = 0 => marked'[o] = 1)
                ELSE marked'[o] = marked[o]
<1> DEFINE due == Due(r.now, r.catchUp)
<1>1. /\ r.now \in Times /\ r.catchUp \in {0, CatchUp} /\ lastChecked' = r.now
      /\ owed' = IF r.catchUp = 0 THEN {} ELSE owed
      /\ alarms' = [i \in DOMAIN alarms |->
                      IF \E t \in Times : <<i, t>> \in due
                      THEN [alarms[i] EXCEPT !.triggered = CHOOSE t \in Times : <<i, t>> \in due]
                      ELSE alarms[i]]
      /\ marked' = [o \in DOMAIN marked |->
                      IF o \in due THEN Min({marked[o] + 1, 2}) ELSE marked[o]]
  BY CheckRequest DEF CheckDueAlarms
<1>2. ASSUME NEW o \in due PROVE o[2] = Max(DueOccurrences(alarms[o[1]], WindowStart(r.now, r.catchUp), r.now))
  BY <1>1, DueIsIn DEF StoreInv
<1>3. \A i, t, u : <<i, t>> \in due /\ <<i, u>> \in due => t = u
  BY <1>2
<1> HIDE DEF due
<1>4. ASSUME NEW i \in DOMAIN alarms
      PROVE  /\ alarms'[i] \in Alarm
             /\ alarms'[i].minute = alarms[i].minute
             /\ alarms'[i].days = alarms[i].days
             /\ alarms'[i].enabled = alarms[i].enabled
             /\ \/ /\ alarms'[i].triggered = alarms[i].triggered
                   /\ \A t \in Times : <<i, t>> \notin due
                \/ /\ alarms'[i].triggered \in Times
                   /\ <<i, alarms'[i].triggered>> \in due
                   /\ \A t \in Times : <<i, t>> \in due => t = alarms'[i].triggered
  <2>1. alarms[i] \in Alarm
    BY DEF StoreInv, StoreTypeOK
  <2>2. CASE \A t \in Times : <<i, t>> \notin due
    BY <1>1, <2>1, <2>2
  <2>3. CASE \E t \in Times : <<i, t>> \in due
    <3> DEFINE found == CHOOSE t \in Times : <<i, t>> \in due
    <3>1. found \in Times /\ <<i, found>> \in due
      BY <2>3
    <3>2. alarms'[i] = [alarms[i] EXCEPT !.triggered = found]
      BY <1>1, <2>3
    <3> HIDE DEF found
    <3>3. /\ alarms'[i].triggered = found /\ alarms'[i].minute = alarms[i].minute
          /\ alarms'[i].days = alarms[i].days /\ alarms'[i].enabled = alarms[i].enabled
          /\ alarms'[i] \in Alarm
      BY <2>1, <3>1, <3>2 DEF Alarm
    <3> QED
      BY <1>3, <3>1, <3>3
  <2> QED
    BY <2>2, <2>3
<1>5. ASSUME NEW o \in Ids \X Times
      PROVE  /\ marked'[o] \in 0..2
             /\ IF o \in due THEN marked'[o] > 0 /\ (marked[o] = 0 => marked'[o] = 1)
                ELSE marked'[o] = marked[o]
  <2>1. marked[o] \in 0..2 /\ o \in DOMAIN marked
    BY DEF StoreInv, StoreTypeOK
  <2>2. Min({marked[o] + 1, 2}) = IF marked[o] = 0 THEN 1 ELSE 2
    BY <2>1, MinOfTwo
  <2>3. marked'[o] = IF o \in due THEN Min({marked[o] + 1, 2}) ELSE marked[o]
    BY <1>1, <2>1
  <2> QED
    BY <2>1, <2>2, <2>3
<1>6. marked' \in [Ids \X Times -> 0..2]
  <2>1. DOMAIN marked = Ids \X Times
    BY DEF StoreInv, StoreTypeOK
  <2> QED
    BY <1>1, <1>5, <2>1
<1>7. DOMAIN alarms' = DOMAIN alarms
  BY <1>1
<1> QED
  BY <1>1, <1>4, <1>5, <1>6, <1>7 DEF due

(* While the clock is not set back, what is found due is later than what   *)
(* its alarm was triggered for.                                            *)
LEMMA DueIsLater ==
    ASSUME StoreInv, NEW minute \in Times, NEW catchUp \in {0, CatchUp}, NEW o \in Due(minute, catchUp),
           setBacks = 0, CatchUp + 1 < Day, wallClock \in Times, minute \in {wallClock - 1, wallClock},
           Triggered(o[1])
    PROVE  alarms[o[1]].triggered < o[2]
<1> DEFINE t == alarms[o[1]].triggered
<1>1. /\ o[1] \in DOMAIN alarms /\ o[2] \in Times /\ Occurs(alarms[o[1]], o[2])
      /\ minute - catchUp <= o[2] /\ o[2] <= minute /\ t # o[2]
  BY DueIsIn DEF StoreInv
<1>2. t % Day = o[1][1] /\ t <= wallClock /\ t \in Times
  BY <1>1 DEF StoreInv, StoreIsSound, Triggered, StoreTypeOK, Alarm
<1>3. o[2] % Day = o[1][1]
  BY <1>1 DEF Occurs, StoreInv, StoreIsSound
<1>4. t \in Nat /\ o[2] \in Nat /\ minute \in Nat /\ wallClock \in Nat /\ CatchUp \in Nat /\ Day \in Nat
  BY <1>1, <1>2, AlarmAssumption DEF AlarmAssumption, Times
<1> HIDE DEF t
<1>5. ~(o[2] < t)
  <2> SUFFICES ASSUME o[2] < t PROVE FALSE
    OBVIOUS
  <2>1. t - o[2] >= Day
    BY <1>2, <1>3, <1>4, DayApart
  <2> QED
    BY <1>1, <1>2, <1>4, <2>1
<1>6. t < o[2]
  BY <1>1, <1>4, <1>5
<1> QED
  BY <1>6 DEF t

(* An owed occurrence of the catch-up minutes that was not marked before,  *)
(* and that the last check did not leave behind, is marked.                *)
LEMMA OwedGetsMarked ==
    ASSUME StoreInv, NEW r \in Requests, CheckDueAlarms(r), r.mark, r.catchUp > 0,
           CatchUp < Day, NEW o \in owed, r.now - CatchUp <= o[2], o[2] <= r.now,
           \/ lastChecked = Never \/ lastChecked <= o[2] \/ lastChecked > r.now
    PROVE  marked'[o] > 0
<1>1. /\ r.now \in Times /\ r.catchUp \in {0, CatchUp}
      /\ \A p \in Ids \X Times : IF p \in Due(r.now, r.catchUp) THEN marked'[p] > 0
                                 ELSE marked'[p] = marked[p]
  BY CheckEffects
<1>2. r.catchUp = CatchUp /\ CatchUp \in Nat /\ o \in Ids \X Times /\ o[2] \in Int /\ r.now \in Int
  BY <1>1, AlarmAssumption DEF AlarmAssumption, Times, StoreInv, StoreTypeOK
<1>3. WindowStart(r.now, CatchUp) <= o[2]
  <2>1. lastChecked # Never => lastChecked \in Int
    BY DEF StoreInv, StoreTypeOK, Times
  <2>2. CASE lastChecked = Never \/ lastChecked > r.now
    BY <1>1, <1>2, <2>2, WindowBounds DEF StoreInv
  <2>3. CASE lastChecked # Never /\ ~(lastChecked > r.now)
    <3>1. lastChecked <= r.now
      BY <1>2, <2>1, <2>3
    <3> QED
      BY <1>1, <1>2, <2>1, <2>3, <3>1, WindowBounds DEF StoreInv
  <2> QED
    BY <2>2, <2>3
<1>4. CASE o \in Due(r.now, CatchUp)
  BY <1>1, <1>2, <1>4
<1>5. CASE alarms[o[1]].triggered = o[2]
  <2>1. o[1] \in DOMAIN alarms /\ o[2] # Never /\ o = <<o[1], o[2]>>
    BY <1>2, AlarmAssumption DEF AlarmAssumption, StoreInv, OwedIsDue, Times
  <2>2. marked[o] > 0
    BY <1>5, <2>1 DEF StoreInv, StoreIsSound, Triggered
  <2> QED
    BY <1>1, <1>2, <2>2
<1> QED
  BY <1>1, <1>3, <1>4, <1>5, OwedIsFound

LEMMA CheckKeeps ==
    ASSUME StoreInv, NEW r \in Requests, CheckDueAlarms(r), UNCHANGED <<wallClock, setBacks>>,
           wallClock \in Times, setBacks = 0 => r.now \in {wallClock - 1, wallClock}
    PROVE  StoreInv'
<1>1. CASE ~r.mark
  BY <1>1 DEF CheckDueAlarms, storeVars, StoreInv, StoreTypeOK, StoreIsSound, Triggered,
     LatestIsTriggered, MarkedOnce, OwedIsDue, OwedIsMarked
<1>2. CASE r.mark
  <2> DEFINE due == Due(r.now, r.catchUp)
  <2>1. /\ r.now \in Times /\ r.catchUp \in {0, CatchUp}
        /\ DOMAIN alarms' = DOMAIN alarms /\ lastChecked' = r.now
        /\ owed' = IF r.catchUp = 0 THEN {} ELSE owed
        /\ marked' \in [Ids \X Times -> 0..2]
    BY <1>2, CheckEffects
  <2>2. \A i \in DOMAIN alarms :
          /\ alarms'[i] \in Alarm
          /\ alarms'[i].minute = alarms[i].minute /\ alarms'[i].days = alarms[i].days
          /\ alarms'[i].enabled = alarms[i].enabled
          /\ \/ /\ alarms'[i].triggered = alarms[i].triggered
                /\ \A t \in Times : <<i, t>> \notin due
             \/ /\ alarms'[i].triggered \in Times /\ <<i, alarms'[i].triggered>> \in due
                /\ \A t \in Times : <<i, t>> \in due => t = alarms'[i].triggered
    BY <1>2, CheckEffects
  <2>3. \A o \in Ids \X Times : IF o \in due THEN marked'[o] > 0 /\ (marked[o] = 0 => marked'[o] = 1)
                                ELSE marked'[o] = marked[o]
    BY <1>2, CheckEffects
  <2>4. \A o \in due : /\ o[1] \in DOMAIN alarms /\ o[2] \in Times /\ o \in Ids \X Times
                       /\ o[2] % Day = alarms[o[1]].minute /\ o[2] <= r.now
    BY <2>1, DueIsIn DEF StoreInv, Occurs
  <2>5. setBacks = 0 /\ CatchUp + 1 < Day =>
          \A o \in due : Triggered(o[1]) => alarms[o[1]].triggered < o[2]
    BY <2>1, DueIsLater
  <2>6. r.now \in Nat /\ wallClock \in Nat
    BY <2>1, AlarmAssumption DEF AlarmAssumption, Times
  <2>7. \A o \in Ids \X Times : marked[o] \in 0..2 /\ marked'[o] \in 0..2
    BY <2>1 DEF StoreInv, StoreTypeOK
  <2>8. \A i \in DOMAIN alarms : alarms[i] \in Alarm /\ i \in Ids
    BY DEF StoreInv, StoreTypeOK
  <2> HIDE DEF due
  <2>9. StoreTypeOK'
    <3>1. alarms' \in [DOMAIN alarms' -> Alarm]
      <4>1. alarms' = [i \in DOMAIN alarms |-> alarms'[i]]
        BY <1>2 DEF CheckDueAlarms
      <4> QED
        BY <2>1, <2>2, <4>1
    <3> QED
      BY <2>1, <3>1 DEF StoreInv, StoreTypeOK
  <2>10. StoreIsSound'
    <3>1. setBacks' = 0 /\ lastChecked' # Never => lastChecked' <= wallClock'
      BY <2>1, <2>6
    <3>2. ASSUME NEW i \in DOMAIN alarms', Triggered(i)'
          PROVE  /\ alarms'[i].triggered % Day = i[1]
                 /\ marked'[<<i, alarms'[i].triggered>>] > 0
                 /\ setBacks' = 0 => alarms'[i].triggered <= wallClock'
      <4>1. i \in DOMAIN alarms /\ alarms[i].minute = i[1] /\ i \in Ids
        BY <2>1, <2>8 DEF StoreInv, StoreIsSound
      <4>2. CASE alarms'[i].triggered = alarms[i].triggered
        <5>1. /\ Triggered(i) /\ alarms[i].triggered \in Times
          BY <3>2, <4>1, <4>2, <2>8 DEF Triggered, Alarm
        <5>2. /\ alarms[i].triggered % Day = i[1] /\ marked[<<i, alarms[i].triggered>>] > 0
              /\ setBacks = 0 => alarms[i].triggered <= wallClock
          BY <4>1, <5>1 DEF StoreInv, StoreIsSound
        <5>3. marked'[<<i, alarms[i].triggered>>] > 0
          BY <2>3, <4>1, <5>1, <5>2
        <5> QED
          BY <4>2, <5>2, <5>3
      <4>3. CASE <<i, alarms'[i].triggered>> \in due
        <5> DEFINE t == alarms'[i].triggered
        <5>1. /\ t \in Times /\ t % Day = alarms[i].minute /\ t <= r.now
              /\ <<i, t>> \in Ids \X Times
          BY <2>4, <4>3
        <5>2. marked'[<<i, t>>] > 0
          BY <2>3, <4>3, <5>1
        <5>3. t \in Nat
          BY <5>1 DEF Times
        <5> HIDE DEF t
        <5>4. setBacks' = 0 => t <= wallClock'
          BY <2>6, <5>1, <5>3
        <5> QED
          BY <4>1, <5>1, <5>2, <5>4 DEF t
      <4> QED
        BY <2>2, <4>1, <4>2, <4>3
    <3>3. \A i \in DOMAIN alarms' : alarms'[i].minute = i[1]
      BY <2>1, <2>2 DEF StoreInv, StoreIsSound
    <3> QED
      BY <3>1, <3>2, <3>3 DEF StoreIsSound
  <2>11. LatestIsTriggered'
    <3> SUFFICES ASSUME setBacks = 0, CatchUp + 1 < Day, NEW o \in Ids \X Times, marked'[o] > 0
                 PROVE  /\ o[1] \in DOMAIN alarms' /\ alarms'[o[1]].triggered # Never
                        /\ o[2] <= alarms'[o[1]].triggered
      BY DEF LatestIsTriggered, Triggered
    <3>1. o = <<o[1], o[2]>> /\ o[2] \in Times /\ o[2] \in Nat /\ Never \notin Times
      BY AlarmAssumption DEF AlarmAssumption, Times
    <3>2. CASE o \in due
      <4> DEFINE i == o[1]
                 t == o[2]
      <4>1. <<i, t>> \in due /\ i \in DOMAIN alarms /\ t \in Times
        BY <2>4, <3>1, <3>2
      <4> HIDE DEF i, t
      <4>2. alarms'[i].triggered = t
        BY <2>2, <4>1
      <4> QED
        BY <2>1, <3>1, <4>1, <4>2 DEF i, t
    <3>3. CASE o \notin due
      <4>1. marked[o] > 0
        BY <2>3, <3>3
      <4>2. o[1] \in DOMAIN alarms /\ Triggered(o[1]) /\ o[2] <= alarms[o[1]].triggered
        BY <4>1 DEF StoreInv, LatestIsTriggered
      <4>3. alarms[o[1]].triggered \in Nat
        BY <2>8, <4>2 DEF Triggered, Alarm, Times
      <4>4. CASE alarms'[o[1]].triggered = alarms[o[1]].triggered
        BY <2>1, <4>2, <4>4 DEF Triggered
      <4>5. CASE /\ alarms'[o[1]].triggered \in Times
                 /\ <<o[1], alarms'[o[1]].triggered>> \in due
        <5> DEFINE t == alarms'[o[1]].triggered
        <5>1. t \in Times /\ t \in Nat /\ <<o[1], t>> \in due
          BY <4>5 DEF Times
        <5>2. alarms[o[1]].triggered < t
          BY <2>5, <4>2, <5>1
        <5> HIDE DEF t
        <5>3. o[2] <= t /\ t # Never
          BY <3>1, <4>2, <4>3, <5>1, <5>2
        <5> QED
          BY <2>1, <4>2, <5>3 DEF t
      <4> QED
        BY <2>2, <4>2, <4>4, <4>5
    <3> QED
      BY <3>2, <3>3
  <2>12. MarkedOnce'
    <3> SUFFICES ASSUME setBacks = 0, CatchUp + 1 < Day, NEW o \in Ids \X Times PROVE marked'[o] <= 1
      BY <2>1 DEF MarkedOnce
    <3>1. marked[o] <= 1
      BY DEF StoreInv, MarkedOnce, StoreTypeOK
    <3>2. CASE o \notin due
      BY <2>3, <3>1, <3>2
    <3>3. CASE o \in due
      <4>1. marked[o] = 0
        <5> SUFFICES ASSUME marked[o] # 0 PROVE FALSE
          OBVIOUS
        <5>1. marked[o] > 0
          BY <2>7
        <5>2. Triggered(o[1]) /\ o[2] <= alarms[o[1]].triggered /\ o[1] \in DOMAIN alarms
          BY <5>1 DEF StoreInv, LatestIsTriggered
        <5>3. alarms[o[1]].triggered \in Nat /\ o[2] \in Nat
          BY <2>8, <5>2 DEF Triggered, Alarm, Times
        <5>4. alarms[o[1]].triggered < o[2]
          BY <2>5, <3>3, <5>2
        <5> QED
          BY <5>2, <5>3, <5>4
      <4> QED
        BY <2>3, <3>3, <4>1
    <3> QED
      BY <3>2, <3>3
  <2>13. OwedIsDue'
    BY <2>1, <2>2 DEF StoreInv, OwedIsDue, Occurs
  <2>14. OwedIsMarked'
    <3> SUFFICES ASSUME setBacks = 0, CatchUp < Day, NEW o \in owed',
                        r.now - CatchUp <= o[2], o[2] <= r.now
                 PROVE  marked'[o] > 0
      BY <2>1 DEF OwedIsMarked
    <3>1. o \in owed /\ r.catchUp > 0
      BY <2>1, AlarmAssumption DEF AlarmAssumption
    <3>2. CASE lastChecked = Never \/ lastChecked <= o[2] \/ lastChecked > r.now
      BY <1>2, <3>1, <3>2, OwedGetsMarked
    <3>3. CASE ~(lastChecked = Never \/ lastChecked <= o[2] \/ lastChecked > r.now)
      <4>1. lastChecked \in Nat /\ o[2] \in Nat /\ CatchUp \in Nat /\ o \in Ids \X Times
        BY <3>1, <3>3, AlarmAssumption DEF AlarmAssumption, StoreInv, StoreTypeOK, Times
      <4>2. lastChecked - CatchUp <= o[2] /\ o[2] <= lastChecked
        BY <2>6, <3>3, <4>1
      <4>3. marked[o] > 0
        BY <3>1, <3>3, <4>2 DEF StoreInv, OwedIsMarked
      <4> QED
        BY <2>3, <4>1, <4>3
    <3> QED
      BY <3>2, <3>3
  <2> QED
    BY <2>9, <2>10, <2>11, <2>12, <2>13, <2>14 DEF StoreInv
<1> QED
  BY <1>1, <1>2, CheckRequest DEF CheckDueAlarms

-----------------------------------------------------------------------------
(* The steps                                                               *)

(* Everything but the work of a command leaves the store alone.            *)
Waits(c) == Starts(c) \/ Locks(c) \/ LocksTwice(c) \/ TimesOut(c) \/ KilledCommand(c)

Works(c) ==
    \/ AddAlarm(request[c]) \/ RemoveAlarm(request[c])
    \/ SetAlarmEnabled(request[c]) \/ CheckDueAlarms(request[c])
    \/ request[c].op = "settings-import" /\ Imports
    \/ request[c].op # "alarms-import" /\ UNCHANGED storeVars

LEMMA StoreInvSame == ASSUME StoreInv, UNCHANGED <<wallClock, setBacks, storeVars>> PROVE StoreInv'
BY DEF storeVars, StoreInv, StoreTypeOK, StoreIsSound, Triggered, LatestIsTriggered, MarkedOnce,
   OwedIsDue, OwedIsMarked

(* The minute that begins is not marked yet, nor looked for by a check.    *)
LEMMA TickKeepsStore == ASSUME StoreInv, wallClock \in Times, Tick PROVE StoreInv'
<1>1. /\ wallClock' = wallClock + 1 /\ wallClock' \in Times /\ wallClock \in Nat
      /\ UNCHANGED <<setBacks, alarms, lastChecked, marked>>
  BY AlarmAssumption DEF AlarmAssumption, Tick, Times
<1>2. owed' = owed \cup {<<i, wallClock'>> : i \in {k \in DOMAIN alarms :
                              alarms[k].enabled /\ Occurs(alarms[k], wallClock')}}
  BY DEF Tick
<1>3. \A o \in owed' : o \in owed \/ (/\ o[1] \in DOMAIN alarms /\ alarms[o[1]].enabled
                                      /\ Occurs(alarms[o[1]], o[2]) /\ o[2] = wallClock'
                                      /\ o = <<o[1], wallClock'>>)
  BY <1>2
<1>4. StoreTypeOK'
  <2>1. owed' \subseteq Ids \X Times
    BY <1>1, <1>3 DEF StoreInv, StoreTypeOK
  <2> QED
    BY <1>1, <2>1 DEF StoreInv, StoreTypeOK
<1>5. lastChecked # Never => lastChecked \in Nat
  BY DEF StoreInv, StoreTypeOK, Times
<1>6. \A i \in DOMAIN alarms : alarms[i].triggered \in Nat \cup {Never}
  BY DEF StoreInv, StoreTypeOK, Alarm, Times
<1>7. StoreIsSound'
  BY <1>1, <1>5, <1>6 DEF StoreInv, StoreIsSound, Triggered
<1>8. LatestIsTriggered' /\ MarkedOnce'
  BY <1>1 DEF StoreInv, LatestIsTriggered, Triggered, MarkedOnce
<1>9. OwedIsDue'
  BY <1>1, <1>3 DEF StoreInv, OwedIsDue, Occurs
<1>10. OwedIsMarked'
  BY <1>1, <1>3, <1>5 DEF StoreInv, OwedIsMarked, StoreIsSound
<1> QED
  BY <1>4, <1>7, <1>8, <1>9, <1>10 DEF StoreInv

LEMMA SetBackKeepsStore ==
    ASSUME StoreInv, setBacks \in 0..MaxSetBacks, SetBack PROVE StoreInv'
<1>1. setBacks' # 0 /\ UNCHANGED storeVars
  BY AlarmAssumption DEF AlarmAssumption, SetBack
<1> QED
  BY <1>1 DEF storeVars, StoreInv, StoreTypeOK, StoreIsSound, Triggered, LatestIsTriggered,
     MarkedOnce, OwedIsDue, OwedIsMarked

LEMMA WorkKeepsStore ==
    ASSUME AlarmInv, NEW c \in Commands, Acts(c) PROVE StoreInv'
<1>1. /\ request[c] \in Requests /\ UNCHANGED <<wallClock, setBacks>> /\ Works(c)
      /\ request[c].op = "check" /\ setBacks = 0 => request[c].now \in {wallClock - 1, wallClock}
  BY DEF AlarmInv, ChecksAreTimely, Acts, AlarmCommandEnds, Works
<1>2. StoreInv /\ wallClock \in Times
  BY DEF AlarmInv, AlarmTypeOK, StoreInv, StoreTypeOK
<1>3. CASE AddAlarm(request[c])
  BY <1>1, <1>2, <1>3, AddKeeps
<1>4. CASE RemoveAlarm(request[c])
  BY <1>1, <1>2, <1>4, RemoveKeeps
<1>5. CASE SetAlarmEnabled(request[c])
  BY <1>1, <1>2, <1>5, SetKeeps
<1>6. CASE CheckDueAlarms(request[c])
  <2>1. request[c].op = "check"
    BY <1>6 DEF CheckDueAlarms
  <2> QED
    BY <1>1, <1>2, <1>6, <2>1, CheckKeeps
<1>7. CASE Imports
  BY <1>1, <1>2, <1>7, ImportKeeps
<1>8. CASE UNCHANGED storeVars
  BY <1>1, <1>2, <1>8, StoreInvSame
<1> QED
  BY <1>1, <1>3, <1>4, <1>5, <1>6, <1>7, <1>8 DEF Works

(* The lock and the commands.                                              *)
CommandsTypeOK ==
    /\ wallClock \in Times /\ setBacks \in 0..MaxSetBacks
    /\ storeLock \in Commands \cup {Never}
    /\ alarmStep \in [Commands -> {"idle", "locks", "holds", "locksAgain"}]
    /\ request \in [Commands -> Requests \cup {Never}]

LEMMA CommandsKept ==
    ASSUME AlarmInv, NEW c \in Commands, Waits(c) \/ Acts(c)
    PROVE  CommandsTypeOK' /\ OneHolds' /\ ChecksAreTimely' /\ UNCHANGED <<wallClock, setBacks>>
<1>1. Never \notin Commands
  BY AlarmAssumption DEF AlarmAssumption
<1>2. CASE Starts(c)
  <2>1. PICK r \in Requests : /\ r.op = "check" => r.now = wallClock
                              /\ request' = [request EXCEPT ![c] = r]
    BY <1>2 DEF Starts
  <2>2. /\ alarmStep' = [alarmStep EXCEPT ![c] = "locks"]
        /\ UNCHANGED <<wallClock, setBacks, storeLock>>
    BY <1>2 DEF Starts
  <2> QED
    BY <2>1, <2>2 DEF AlarmInv, AlarmTypeOK, CommandsTypeOK, OneHolds, ChecksAreTimely
<1>3. CASE Locks(c)
  BY <1>1, <1>3 DEF Locks, AlarmInv, AlarmTypeOK, CommandsTypeOK, OneHolds, ChecksAreTimely
<1>4. CASE LocksTwice(c)
  BY <1>4 DEF LocksTwice, AlarmInv, AlarmTypeOK, CommandsTypeOK, OneHolds, ChecksAreTimely
<1>5. CASE TimesOut(c)
  BY <1>1, <1>5 DEF TimesOut, AlarmInv, AlarmTypeOK, CommandsTypeOK, OneHolds, ChecksAreTimely
<1>6. CASE KilledCommand(c)
  BY <1>1, <1>6 DEF KilledCommand, AlarmInv, AlarmTypeOK, CommandsTypeOK, OneHolds, ChecksAreTimely
<1>7. CASE Acts(c)
  <2>1. AlarmCommandEnds(c) /\ alarmStep[c] = "holds"
    BY <1>7 DEF Acts
  <2> QED
    BY <2>1 DEF AlarmCommandEnds, AlarmInv, AlarmTypeOK, CommandsTypeOK, OneHolds, ChecksAreTimely
<1> QED
  BY <1>2, <1>3, <1>4, <1>5, <1>6, <1>7 DEF Waits

LEMMA ClockKeepsCommands ==
    ASSUME AlarmInv, Tick \/ SetBack
    PROVE  CommandsTypeOK' /\ OneHolds' /\ ChecksAreTimely'
<1>1. wallClock \in Nat /\ wallClock <= LastMinute /\ LastMinute \in Nat /\ setBacks \in Nat /\ MaxSetBacks \in Nat
  BY AlarmAssumption DEF AlarmAssumption, AlarmInv, AlarmTypeOK, Times
<1>2. CASE Tick
  <2>1. wallClock' \in Times /\ wallClock' - 1 = wallClock
    BY <1>1, <1>2 DEF Tick, Times
  <2>2. ASSUME NEW c \in Commands, alarmStep[c] # "idle", request[c].op = "check", setBacks = 0
        PROVE  request[c].now \in {wallClock' - 1, wallClock'}
    <3>1. request[c] \in Requests /\ request[c] # Never /\ request[c].now \in {wallClock - 1, wallClock}
      BY <2>2, NeverAssumption DEF AlarmInv, ChecksAreTimely
    <3>2. request[c].now >= wallClock
      BY <1>2, <2>2, <3>1 DEF Tick
    <3> QED
      BY <1>1, <2>1, <3>1, <3>2
  <2> QED
    BY <1>2, <2>1, <2>2 DEF Tick, AlarmInv, AlarmTypeOK, CommandsTypeOK, OneHolds, ChecksAreTimely
<1>3. CASE SetBack
  <2>1. wallClock' \in Times /\ setBacks' \in 0..MaxSetBacks /\ setBacks' # 0
    BY <1>1, <1>3 DEF SetBack, Times
  <2> QED
    BY <1>3, <2>1 DEF SetBack, AlarmInv, AlarmTypeOK, CommandsTypeOK, OneHolds, ChecksAreTimely
<1> QED
  BY <1>2, <1>3

LEMMA AlarmSplit == AlarmInv <=> (CommandsTypeOK /\ OneHolds /\ ChecksAreTimely /\ StoreInv)
BY DEF AlarmInv, AlarmTypeOK, CommandsTypeOK, StoreInv, StoreTypeOK

LEMMA AlarmJoined ==
    ASSUME CommandsTypeOK', OneHolds', ChecksAreTimely', StoreInv' PROVE AlarmInv'
BY DEF AlarmInv, AlarmTypeOK, CommandsTypeOK, StoreInv, StoreTypeOK

LEMMA AlarmInvariant == AlarmSpec => []AlarmInv
<1>1. AlarmInit => AlarmInv
  <2> SUFFICES ASSUME AlarmInit PROVE AlarmInv
    OBVIOUS
  <2>1. DOMAIN alarms = {} /\ alarms \in [{} -> Alarm]
    BY DEF AlarmInit
  <2>2. Cardinality(DOMAIN alarms) <= MaxAlarms
    BY <2>1, FS_EmptySet, AlarmAssumption DEF AlarmAssumption
  <2>3. StoreTypeOK
    BY <2>1, <2>2 DEF AlarmInit, StoreTypeOK
  <2>4. CommandsTypeOK
    BY AlarmAssumption DEF AlarmAssumption, AlarmInit, CommandsTypeOK, Times
  <2>5. OneHolds /\ ChecksAreTimely
    BY DEF AlarmInit, OneHolds, ChecksAreTimely
  <2>6. StoreIsSound /\ LatestIsTriggered /\ MarkedOnce /\ OwedIsDue /\ OwedIsMarked
    BY <2>1 DEF AlarmInit, StoreIsSound, LatestIsTriggered, MarkedOnce, OwedIsDue, OwedIsMarked
  <2> QED
    BY <2>3, <2>4, <2>5, <2>6, AlarmSplit DEF StoreInv
<1>2. ASSUME AlarmInv, [AlarmNext]_alarmVars PROVE AlarmInv'
  <2>0. CommandsTypeOK /\ StoreInv
    BY <1>2, AlarmSplit
  <2>1. CASE Tick
    BY <1>2, <2>0, <2>1, TickKeepsStore, ClockKeepsCommands, AlarmJoined DEF CommandsTypeOK
  <2>2. CASE SetBack
    BY <1>2, <2>0, <2>2, SetBackKeepsStore, ClockKeepsCommands, AlarmJoined DEF CommandsTypeOK
  <2>3. ASSUME NEW c \in Commands, Acts(c) PROVE AlarmInv'
    BY <1>2, <2>3, WorkKeepsStore, CommandsKept, AlarmJoined
  <2>4. ASSUME NEW c \in Commands, Waits(c) PROVE AlarmInv'
    <3>1. UNCHANGED storeVars
      BY <2>4 DEF Waits, Starts, Locks, LocksTwice, TimesOut, KilledCommand
    <3>2. CommandsTypeOK' /\ OneHolds' /\ ChecksAreTimely' /\ UNCHANGED <<wallClock, setBacks>>
      BY <1>2, <2>4, CommandsKept
    <3> QED
      BY <2>0, <3>1, <3>2, StoreInvSame, AlarmJoined
  <2>5. CASE UNCHANGED alarmVars
    <3>1. UNCHANGED <<wallClock, setBacks, storeVars, storeLock, alarmStep, request>>
      BY <2>5 DEF alarmVars
    <3>2. CommandsTypeOK' /\ OneHolds' /\ ChecksAreTimely'
      BY <1>2, <2>0, <3>1 DEF AlarmInv, CommandsTypeOK, OneHolds, ChecksAreTimely
    <3> QED
      BY <2>0, <3>1, <3>2, StoreInvSame, AlarmJoined
  <2> QED
    BY <1>2, <2>1, <2>2, <2>3, <2>4, <2>5 DEF AlarmNext, Waits
<1> QED
  BY <1>1, <1>2, PTL DEF AlarmSpec

(* alarms.py - the store and the commands on it keep their types; above    *)
(* all, a new alarm finds a free id.                                       *)
THEOREM AlarmTypeCorrect == AlarmSpec => []AlarmTypeOK
<1>1. AlarmInv => AlarmTypeOK
  BY DEF AlarmInv
<1> QED
  BY AlarmInvariant, <1>1, PTL

(* alarms.py:946 - checks that overlap never mark one occurrence twice     *)
(* while the clock is not set back, for any number of commands and alarms, *)
(* and any catch-up of less than a day by two minutes.                     *)
THEOREM AlarmsMarkOnce == AlarmSpec => []MarkedOnce
<1>1. AlarmInv => MarkedOnce
  BY DEF AlarmInv
<1> QED
  BY AlarmInvariant, <1>1, PTL

(* alarms.py:946 - a marking check leaves nothing of the catch-up minutes  *)
(* unmarked that came while its alarm was enabled.                         *)
THEOREM AlarmsMissNone == AlarmSpec => NoneMissed
<1>1. ASSUME AlarmInv, [AlarmNext]_alarmVars,
             NEW c \in Commands, NEW o \in owed,
             CatchUp < Day, alarmStep[c] = "holds", storeLock = c, lastChecked' # lastChecked,
             request[c].op = "check", request[c].catchUp > 0,
             request[c].now - CatchUp <= o[2], o[2] <= request[c].now,
             setBacks = 0 \/ lastChecked = Never \/ lastChecked <= o[2] \/ lastChecked > request[c].now
      PROVE  marked'[o] > 0
  <2>1. PICK d \in Commands : Acts(d)
    BY <1>1 DEF AlarmNext, alarmVars, storeVars, Tick, SetBack, Starts, Locks, LocksTwice,
       TimesOut, KilledCommand
  <2>2. d = c
    BY <1>1, <2>1 DEF AlarmInv, OneHolds, Acts
  <2>3. CheckDueAlarms(request[c]) /\ request[c].mark
    <3>1. Works(c)
      BY <2>1, <2>2 DEF Acts, Works
    <3> QED
      BY <1>1, <3>1 DEF Works, AddAlarm, RemoveAlarm, SetAlarmEnabled, CheckDueAlarms, storeVars
  <2>4. StoreInv /\ request[c] \in Requests
    BY <1>1, AlarmSplit DEF AlarmInv, ChecksAreTimely
  <2>5. CASE lastChecked = Never \/ lastChecked <= o[2] \/ lastChecked > request[c].now
    BY <1>1, <2>3, <2>4, <2>5, OwedGetsMarked
  <2>6. CASE ~(lastChecked = Never \/ lastChecked <= o[2] \/ lastChecked > request[c].now)
    <3>1. request[c].now \in Nat
      BY <1>1, <2>4, CheckRequest DEF Times
    <3>2. lastChecked \in Nat /\ o[2] \in Nat /\ CatchUp \in Nat /\ o \in Ids \X Times
      BY <2>4, <2>6, AlarmAssumption DEF AlarmAssumption, StoreInv, StoreTypeOK, Times
    <3>3. lastChecked - CatchUp <= o[2] /\ o[2] <= lastChecked
      BY <1>1, <2>6, <3>1, <3>2
    <3>4. marked[o] > 0 /\ marked[o] \in 0..2
      BY <1>1, <2>4, <2>6, <3>2, <3>3 DEF StoreInv, OwedIsMarked, StoreTypeOK
    <3>5. marked'[o] > 0
      BY <2>3, <2>4, <3>2, <3>4, CheckEffects
    <3> QED
      BY <3>5
  <2> QED
    BY <2>5, <2>6
<1>2. AlarmInv /\ [AlarmNext]_alarmVars => 
        [\A c \in Commands, o \in owed :
           /\ CatchUp < Day
           /\ alarmStep[c] = "holds" /\ storeLock = c /\ lastChecked' # lastChecked
           /\ request[c].op = "check" /\ request[c].catchUp > 0
           /\ request[c].now - CatchUp <= o[2] /\ o[2] <= request[c].now
           /\ setBacks = 0 \/ lastChecked = Never \/ lastChecked <= o[2]
              \/ lastChecked > request[c].now
           => marked'[o] > 0]_alarmVars
  BY <1>1
<1> QED
  BY AlarmInvariant, <1>2, PTL DEF AlarmSpec, NoneMissed

-----------------------------------------------------------------------------
(* The run's behaviours are those of the parts, side by side, and one of   *)
(* them is Recording again, with its own variables.                        *)
Again == INSTANCE RecordingProofs WITH
    op <- escapedOp, pc <- escapedPc, try <- escapedTry,
    store <- escapedStore, lock <- escapedLock, proc <- escapedProc,
    scoped <- escapedScoped, file <- escapedFile, Cmds <- {c1, c2},
    Backends <- 2, EscapesWrapping <- TRUE

LEMMA SameRecording ==
    /\ Escaped!Init <=> Again!Init
    /\ [Escaped!Next]_(Escaped!vars) <=> [Again!Next]_(Again!vars)
BY DEF Escaped!Recorders, Again!Recorders, Escaped!envVars, Again!envVars,
   Escaped!vars, Again!vars, Escaped!Ops, Again!Ops, Escaped!Statuses,
   Again!Statuses, Escaped!Section, Again!Section, Escaped!PCs, Again!PCs,
   Escaped!Store, Again!Store, Escaped!Free, Again!Free, Escaped!Init,
   Again!Init, Escaped!At, Again!At, Escaped!Goto, Again!Goto, Escaped!Mine,
   Again!Mine, Escaped!Alive, Again!Alive, Escaped!Gone, Again!Gone,
   Escaped!Ends, Again!Ends, Escaped!Return, Again!Return, Escaped!Exits,
   Again!Exits, Escaped!Available, Again!Available, Escaped!CanReconcile,
   Again!CanReconcile, Escaped!Reconciles, Again!Reconciles,
   Escaped!InProgress, Again!InProgress, Escaped!Toggle, Again!Toggle,
   Escaped!Begin, Again!Begin, Escaped!Acquire, Again!Acquire,
   Escaped!Refused, Again!Refused, Escaped!Removed, Again!Removed,
   Escaped!FinalizeReleases, Again!FinalizeReleases, Escaped!Release,
   Again!Release, Escaped!MayLaunch, Again!MayLaunch,
   Escaped!ForgetsInsertion, Again!ForgetsInsertion, Escaped!StartLocked,
   Again!StartLocked, Escaped!StartRefused, Again!StartRefused,
   Escaped!StartResumes, Again!StartResumes, Escaped!StartFindsExited,
   Again!StartFindsExited, Escaped!Launch, Again!Launch, Escaped!NextBackend,
   Again!NextBackend, Escaped!StartupFails, Again!StartupFails,
   Escaped!HandedOver, Again!HandedOver, Escaped!Retain, Again!Retain,
   Escaped!StartupFailsDirty, Again!StartupFailsDirty, Escaped!StartupEscapes,
   Again!StartupEscapes, Escaped!Grace, Again!Grace, Escaped!Exited,
   Again!Exited, Escaped!Persist, Again!Persist, Escaped!PersistFails,
   Again!PersistFails, Escaped!Abort, Again!Abort, Escaped!StopRecords,
   Again!StopRecords, Escaped!StopResumes, Again!StopResumes,
   Escaped!StopRefused, Again!StopRefused, Escaped!FinalizeMarks,
   Again!FinalizeMarks, Escaped!Finalizes, Again!Finalizes,
   Escaped!CancelLocked, Again!CancelLocked, Escaped!CancelRefused,
   Again!CancelRefused, Escaped!CancelJournals, Again!CancelJournals,
   Escaped!CancelRaises, Again!CancelRaises, Escaped!CancelDone,
   Again!CancelDone, Escaped!CancelFails, Again!CancelFails, Escaped!Kill,
   Again!Kill, Escaped!Saves, Again!Saves, Escaped!Dies, Again!Dies,
   Escaped!Start, Again!Start, Escaped!Stop, Again!Stop, Escaped!Cancel,
   Again!Cancel, Escaped!Step, Again!Step, Escaped!System, Again!System,
   Escaped!Next, Again!Next

LEMMA PartsAreFollowed ==
    AllSpec => /\ Spec /\ Again!Spec /\ AlarmSpec
               /\ Stopping!StopSpec /\ Starting!StartSpec
<1>1. AllInit => Init /\ Escaped!Init /\ AlarmInit /\ Stopping!StopInit /\ Starting!StartInit
  BY DEF AllInit
<1>2. [AllNext]_allVars => [Next]_vars
  BY DEF AllNext, allVars
<1>3. [AllNext]_allVars => [Escaped!Next]_(Escaped!vars)
  BY DEF AllNext, allVars, escapedPart, Escaped!vars, Escaped!envVars
<1>4. [AllNext]_allVars => [AlarmNext]_alarmVars
  BY DEF AllNext, allVars
<1>5. [AllNext]_allVars => [Stopping!StopNext]_(Stopping!stopVars)
  BY DEF AllNext, allVars, stopPart, Stopping!stopVars, Stopping!kernelVars, Stopping!aimVars
<1>6. [AllNext]_allVars => [Starting!StartNext]_(Starting!startVars)
  BY DEF AllNext, allVars, startPart, Starting!startVars, Starting!startKernelVars
<1> QED
  BY <1>1, <1>2, <1>3, <1>4, <1>5, <1>6, SameRecording, PTL
     DEF AllSpec, Spec, Again!Spec, AlarmSpec, Stopping!StopSpec, Starting!StartSpec

(* recorder.py - for any number of processes of a recorder: only what      *)
(* belongs to it is ever signalled; when it was stopped, or its start has  *)
(* failed cleanly, nothing of it is left.                                  *)
THEOREM RecordersAreAlwaysGone == AllSpec => []RecordersAreGone
<1>1. (Stopping!SignalsOwn /\ Stopping!StoppedMeansGone) /\ Starting!FailedStartIsClean => RecordersAreGone
  BY DEF RecordersAreGone
<1> QED
  BY <1>1, PartsAreFollowed, RecordersStop, FailedStartsAreClean, PTL

(* recorder.py:3986 - even when start_recorder raises past its own error   *)
(* type, so that a recorder runs which nobody knows of, no audio is        *)
(* transcribed or removed while it is written.                             *)
THEOREM EscapedAudioStaysKept == AllSpec => EscapedAudioKept
<1>1. Again!Spec => []Again!TranscribesStopped /\ Again!LiveAudioKept
  BY RecordersConstants, Again!TranscribesCompleteAudio, Again!RemovesOnlyEndedAudio
     DEF RecordersConstants, Escaped!RecordingAssumption, Escaped!Recorders, Again!Recorders
<1>2. Again!TranscribesStopped <=> Escaped!TranscribesStopped
  BY DEF Again!TranscribesStopped, Escaped!TranscribesStopped, Again!At, Escaped!At, Again!Alive, Escaped!Alive
<1>3. Again!LiveAudioKept <=> Escaped!LiveAudioKept
  BY PTL DEF Again!LiveAudioKept, Escaped!LiveAudioKept, Again!Recorders, Escaped!Recorders, Again!Alive, Escaped!Alive,
     Again!vars, Escaped!vars, Again!envVars, Escaped!envVars
<1> QED
  BY <1>1, <1>2, <1>3, PartsAreFollowed, PTL DEF EscapedAudioKept

PartIsKnown == part \in {"record", "escaped", "stop", "start", "alarms"}

(* The variables of every module keep the values it says.                  *)
THEOREM RecorderTypesStayOK == AllSpec => []RecorderTypesOK
<1>1. Again!Spec => []Again!TypeOK
  BY RecordersConstants, Again!TypeCorrect
     DEF RecordersConstants, Escaped!RecordingAssumption, Escaped!Recorders, Again!Recorders
<1>2. Again!TypeOK => Escaped!TypeOK
  BY DEF Again!TypeOK, Escaped!TypeOK, Again!Ops, Escaped!Ops, Again!PCs, Escaped!PCs, Again!Section,
     Escaped!Section, Again!Statuses, Escaped!Statuses, Again!Recorders, Escaped!Recorders
<1>3. StopInv => Stopping!StopTypeOK
  BY DEF StopInv
<1>4. StartInv => Starting!StartTypeOK
  BY DEF StartInv
<1>5. AllSpec => []TypeOK /\ []Escaped!TypeOK /\ []AlarmTypeOK /\ []Stopping!StopTypeOK /\ []Starting!StartTypeOK
  BY <1>1, <1>2, <1>3, <1>4, PartsAreFollowed, TypeCorrect, AlarmTypeCorrect, StopInvariant, StartInvariant, PTL
<1>6. AllSpec => []PartIsKnown
  <2>1. AllInit => PartIsKnown
    BY DEF AllInit, PartIsKnown
  <2>2. PartIsKnown /\ [AllNext]_allVars => PartIsKnown'
    BY DEF AllNext, allVars, PartIsKnown
  <2> QED
    BY <2>1, <2>2, PTL DEF AllSpec
<1>7. TypeOK /\ Escaped!TypeOK /\ AlarmTypeOK /\ Stopping!StopTypeOK /\ Starting!StartTypeOK /\ PartIsKnown
      => RecorderTypesOK
  BY Zenon DEF RecorderTypesOK, PartIsKnown
<1> QED
  BY <1>5, <1>6, <1>7, PTL
=============================================================================
