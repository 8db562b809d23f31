-------------------------- MODULE Lifecycle_proofs --------------------------
(***************************************************************************)
(* Proofs about the life of the process, for any set of chains and any     *)
(* number of failing tasks.                                                *)
(***************************************************************************)
EXTENDS Lifecycle, TLAPS

-----------------------------------------------------------------------------
(* The inductive invariant, by parts.                                      *)

(* main says which tasks it has spawned, and nothing is cut off before the *)
(* end; each task reports only the ends its code has.                      *)
SpawnedInOrder ==
    /\ core["signer"] = "none" => main = "config"
    /\ core["database"] = "none" => main \in {"config", "database"}
    /\ core["handler"] = "none" =>
          main \in {"config", "database", "server_info", "handler"}
    /\ core["manager"] = "none" => main \in Stages \ {"server"}
    /\ core["server"] = "none" => main \in Stages
    /\ \A c \in Chains : tracker[c] = "none" => main \in Stages \ {"server"}
    /\ main = "config" => core["signer"] = "none"
    /\ main \in {"config", "database", "server_info", "handler"} =>
          core["handler"] = "none"
    /\ main \in Stages => core["server"] = "none"
    /\ main \in Stages \ {"server"} => core["manager"] = "none"

NotCut ==
    Alive => /\ \A t \in Core : core[t] # "cut"
             /\ \A c \in Chains : tracker[c] # "cut" /\ payout[c] # "cut"

OwnEnds ==
    /\ \A t \in Core \ {"signer"} : core[t] # "new"
    /\ \A t \in {"database", "restore", "manager"} : core[t] # "failed"
    /\ \A c \in Chains : tracker[c] # "new" /\ payout[c] # "new"

(* Where the State Handler is, and whom it has told to stop by then.       *)
HandlerInPlace ==
    Alive =>
        /\ core["handler"] = "none" => handler = "wakeup"
        /\ core["handler"] = "running" =>
              handler \in {"wakeup", "serving", "chain", "ledger"}
        /\ core["handler"] \in {"ok", "failed"} => handler = "gone"
        /\ handler \in {"wakeup", "serving"} => told = {}
        /\ handler = "chain" => told = {"manager"}
        /\ handler = "ledger" => told = {"manager", "database"}
        /\ core["handler"] = "ok" => told = {"manager", "database", "signer"}
        /\ core["handler"] = "failed" => told = {}

(* While the State Handler is sound, the database closes only on its word, *)
(* given after the manager has ended, which ends only with every tracker   *)
(* answered or given up on.                                                *)
ChainsFirst ==
    Alive =>
        /\ closing \/ core["database"] = "ok" =>
              "database" \in told \/ core["handler"] = "failed"
        /\ "database" \in told => core["manager"] = "ok"
        /\ core["manager"] = "ok" =>
              (untold = {} /\ asked = Nobody) \/ core["handler"] = "failed"
        /\ \A c \in Chains \ untold :
              c # asked => Ended(tracker[c]) \/ c \in discarded

(* Why the process is going down.                                          *)
SomeTaskFailed ==
    \/ \E t \in Core : core[t] = "failed"
    \/ \E c \in Chains : tracker[c] = "failed"

ErrorsHaveCause ==
    /\ unread > 0 \/ failed \/ reason = "UnrecoverableError" => SomeTaskFailed
    /\ main \in {"igniting", "cancelling"} => failed
    /\ main = "cancelling" => reason = "UnrecoverableError"
    /\ listener \in {"second", "ok"} => cancelled

(* When main joins the listener nobody runs any more, and an ended process *)
(* takes no further step.                                                  *)
Settled ==
    /\ main \in {"joining", "exited"} => NobodyRuns
    /\ main = "exited" => listener \in {"none", "ok"}
    /\ exit # "none" => main = "exited"

SignerErases == Alive /\ core["signer"] = "ok" => zeroized

EndIsTold == GracefulExitIsComplete /\ EntropyIsErased /\ ExitTellsCause

IInv ==
    /\ SpawnedInOrder /\ NotCut /\ OwnEnds /\ HandlerInPlace /\ ChainsFirst
    /\ ErrorsHaveCause /\ CancelHasCause /\ Settled /\ SignerErases
    /\ EndIsTold

-----------------------------------------------------------------------------
(* Every variable has its type, in every state of the life of the process. *)
THEOREM TypeCorrect == Spec => []TypeOK
<1> USE DEF TypeOK, Core, Status, Stages, Loop, Exits
<1>1. Init => TypeOK
  <2> SUFFICES ASSUME Init PROVE TypeOK
    OBVIOUS
  <2>1. /\ core \in [Core -> Status] /\ tracker \in [Chains -> Status]
        /\ payout \in [Chains -> Status]
    BY DEF Init
  <2> QED BY <2>1 DEF Init
<1>2. ASSUME TypeOK, [Next]_vars PROVE TypeOK'
  <2> USE <1>2 DEF Alive, taskVars, stopVars, tokenVars, loopVars, earVars
  <2>1. CASE StartSigner
    BY <2>1 DEF StartSigner, Stage, Spawn
  <2>2. CASE StartDatabase
    BY <2>2 DEF StartDatabase, Stage, Spawn
  <2>3. CASE ServerInfoKnown
    BY <2>3 DEF ServerInfoKnown, Stage
  <2>4. CASE StartHandler
    BY <2>4 DEF StartHandler, Stage, Spawn
  <2>5. CASE StartManager
    BY <2>5 DEF StartManager, Stage, Spawn
  <2>6. CASE StartServer
    BY <2>6 DEF StartServer, Stage, Spawn
  <2>7. CASE \E c \in Chains : StartTracker(c)
    BY <2>7 DEF StartTracker
  <2>8. CASE StartupFails
    BY <2>8 DEF StartupFails, Dies
  <2>9. CASE ReadSeed
    BY <2>9 DEF ReadSeed, Ends
  <2>10. CASE SignerEnds
    BY <2>10 DEF SignerEnds, Ends
  <2>11. CASE DatabaseCloses
    BY <2>11 DEF DatabaseCloses
  <2>12. CASE DatabaseEnds
    BY <2>12 DEF DatabaseEnds, Ends
  <2>13. CASE RestoreEnds
    BY <2>13 DEF RestoreEnds, Ends
  <2>14. CASE ServerEnds
    BY <2>14 DEF ServerEnds, Ends
  <2>15. CASE HandlerWakes
    BY <2>15 DEF HandlerWakes, Spawn
  <2>16. CASE StopChain
    BY <2>16 DEF StopChain, Proceeds, Tell
  <2>17. CASE StopLedger
    BY <2>17 DEF StopLedger, Proceeds, Tell
  <2>18. CASE StopSigner
    BY <2>18 DEF StopSigner, Tell, Ends
  <2>19. CASE HandlerFails
    BY <2>19 DEF HandlerFails, Ends
  <2>20. CASE TrackerReplied
    BY <2>20 DEF TrackerReplied, Winding, Manages
  <2>21. CASE ManagerEnds
    BY <2>21 DEF ManagerEnds, Ends
  <2>22. CASE \E c \in Chains : AskTracker(c)
    BY <2>22 DEF AskTracker, Winding, Manages
  <2>23. CASE Discard
    BY <2>23 DEF Discard, Winding, Manages
  <2>24. CASE \E c \in Chains : \/ TrackerStops(c) \/ TrackerBreaks(c)
                               \/ TrackerFails(c)
    <3> PICK c \in Chains, how \in {"ok", "failed"} : TrackerEnds(c, how)
      BY <2>24 DEF TrackerStops, TrackerBreaks, TrackerFails
    <3> QED BY DEF TrackerEnds
  <2>25. CASE \E c \in Chains : PayoutStarts(c)
    BY <2>25 DEF PayoutStarts, Pays
  <2>26. CASE \E c \in Chains : PayoutEnds(c)
    BY <2>26 DEF PayoutEnds, Pays
  <2>27. CASE ReadError
    BY <2>27 DEF ReadError, Reads
  <2>28. CASE ReadLateError
    BY <2>28 DEF ReadLateError, Reads
  <2>29. CASE IgniteReason
    BY <2>29 DEF IgniteReason
  <2>30. CASE IgniteToken
    BY <2>30 DEF IgniteToken
  <2>31. CASE AllEnded
    BY <2>31 DEF AllEnded
  <2>32. CASE JoinListener
    BY <2>32 DEF JoinListener, Exit, Cut, ExitCode
  <2>33. CASE SeesToken
    BY <2>33 DEF SeesToken, Hears
  <2>34. CASE SeesCompleted
    BY <2>34 DEF SeesCompleted, Hears
  <2>35. CASE ListenerFails
    BY <2>35 DEF ListenerFails, Hears
  <2>36. CASE ListenerFailed
    BY <2>36 DEF ListenerFailed, Dies
  <2>37. CASE Interrupt
    <3>1. CASE listener = "second" /\ ~completed /\ Dies("aborted")
      BY <3>1 DEF Dies
    <3>2. CASE Alive /\ listener = "none" /\ Dies("killed")
      BY <3>2 DEF Dies
    <3>3. CASE /\ Hears("signal", "second")
               /\ cancelled' = TRUE
               /\ interrupted' = (interrupted \/ ~cancelled)
      <4>1. interrupted' \in BOOLEAN
        BY <3>3
      <4> QED BY <3>3, <4>1 DEF Hears
    <3> QED BY <2>37, <3>1, <3>2, <3>3 DEF Interrupt
  <2>38. CASE Panic
    BY <2>38 DEF Panic, Dies
  <2>39. CASE UNCHANGED vars
    BY <2>39 DEF vars
  <2> QED BY <2>1, <2>2, <2>3, <2>4, <2>5, <2>6, <2>7, <2>8, <2>9, <2>10,
             <2>11, <2>12, <2>13, <2>14, <2>15, <2>16, <2>17, <2>18, <2>19,
             <2>20, <2>21, <2>22, <2>23, <2>24, <2>25, <2>26, <2>27, <2>28,
             <2>29, <2>30, <2>31, <2>32, <2>33, <2>34, <2>35, <2>36, <2>37,
             <2>38, <2>39
    DEF Next, Startup, HandlerStep, ManagerStep, MainStep, ListenerStep
<1> QED BY <1>1, <1>2, PTL DEF Spec

-----------------------------------------------------------------------------
(* Every step keeps the inductive invariant.                               *)
LEMMA InvariantStep ==
    ASSUME TypeOK, TypeOK', IInv, [Next]_vars
    PROVE  IInv'
<1> USE DEF TypeOK, Core, Status, Stages, Loop, Exits, Live, Ended, Alive,
            taskVars, stopVars, tokenVars, loopVars, earVars
<1> USE DEF IInv, SpawnedInOrder, NotCut, OwnEnds, HandlerInPlace,
            ChainsFirst, SomeTaskFailed, ErrorsHaveCause, CancelHasCause,
            Settled, SignerErases, EndIsTold, NobodyRuns,
            GracefulExitIsComplete, EntropyIsErased, ExitTellsCause
<1>1. CASE StartSigner
  BY <1>1 DEF StartSigner, Stage, Spawn
<1>2. CASE StartDatabase
  BY <1>2 DEF StartDatabase, Stage, Spawn
<1>3. CASE ServerInfoKnown
  BY <1>3 DEF ServerInfoKnown, Stage
<1>4. CASE StartHandler
  BY <1>4 DEF StartHandler, Stage, Spawn
<1>5. CASE StartManager
  BY <1>5 DEF StartManager, Stage, Spawn
<1>6. CASE StartServer
  BY <1>6 DEF StartServer, Stage, Spawn
<1>7. CASE \E c \in Chains : StartTracker(c)
  BY <1>7 DEF StartTracker
<1>8. CASE StartupFails
  BY <1>8 DEF StartupFails, Dies
<1>9. CASE ReadSeed
  BY <1>9 DEF ReadSeed, Ends
<1>10. CASE SignerEnds
  BY <1>10 DEF SignerEnds, Ends
<1>11. CASE DatabaseCloses
  BY <1>11 DEF DatabaseCloses
<1>12. CASE DatabaseEnds
  BY <1>12 DEF DatabaseEnds, Ends
<1>13. CASE RestoreEnds
  BY <1>13 DEF RestoreEnds, Ends
<1>14. CASE ServerEnds
  BY <1>14 DEF ServerEnds, Ends
<1>15. CASE HandlerWakes
  BY <1>15 DEF HandlerWakes, Spawn
<1>16. CASE StopChain
  <2>1. told' = {"manager"}
    BY <1>16 DEF StopChain, Proceeds, Tell
  <2> QED BY <1>16, <2>1 DEF StopChain, Proceeds, Tell
<1>17. CASE StopLedger
  BY <1>17 DEF StopLedger, Proceeds, Tell
<1>18. CASE StopSigner
  BY <1>18 DEF StopSigner, Tell, Ends
<1>19. CASE HandlerFails
  BY <1>19 DEF HandlerFails, Ends
<1>20. CASE TrackerReplied
  BY <1>20 DEF TrackerReplied, Winding, Manages
<1>21. CASE ManagerEnds
  BY <1>21 DEF ManagerEnds, Ends
<1>22. CASE \E c \in Chains : AskTracker(c)
  <2> PICK c \in Chains : AskTracker(c)
    BY <1>22
  <2>1. tracker[c] # "none" /\ tracker[c] # "cut"
    BY DEF AskTracker, Winding
  <2>2. ChainsFirst'
    BY <2>1, NobodyIsNoChain DEF AskTracker, Winding, Manages
  <2> QED BY <2>2 DEF AskTracker, Winding, Manages
<1>23. CASE Discard
  BY <1>23 DEF Discard, Winding, Manages
<1>24. CASE \E c \in Chains : \/ TrackerStops(c) \/ TrackerBreaks(c)
                            \/ TrackerFails(c)
  BY <1>24 DEF TrackerStops, TrackerBreaks, TrackerFails, TrackerEnds
<1>25. CASE \E c \in Chains : PayoutStarts(c)
  BY <1>25 DEF PayoutStarts, Pays
<1>26. CASE \E c \in Chains : PayoutEnds(c)
  BY <1>26 DEF PayoutEnds, Pays
<1>27. CASE ReadError
  BY <1>27 DEF ReadError, Reads
<1>28. CASE ReadLateError
  BY <1>28 DEF ReadLateError, Reads
<1>29. CASE IgniteReason
  BY <1>29 DEF IgniteReason
<1>30. CASE IgniteToken
  BY <1>30 DEF IgniteToken
<1>31. CASE AllEnded
  BY <1>31 DEF AllEnded
<1>32. CASE JoinListener
  BY <1>32 DEF JoinListener, Exit, Cut, ExitCode
<1>33. CASE SeesToken
  BY <1>33 DEF SeesToken, Hears
<1>34. CASE SeesCompleted
  BY <1>34 DEF SeesCompleted, Hears
<1>35. CASE ListenerFails
  BY <1>35 DEF ListenerFails, Hears
<1>36. CASE ListenerFailed
  BY <1>36 DEF ListenerFailed, Dies
<1>37. CASE Interrupt
  BY <1>37 DEF Interrupt, Hears, Dies
<1>38. CASE Panic
  BY <1>38 DEF Panic, Dies
<1>39. CASE UNCHANGED vars
  BY <1>39 DEF vars
<1> QED BY <1>1, <1>2, <1>3, <1>4, <1>5, <1>6, <1>7, <1>8, <1>9, <1>10, <1>11,
           <1>12, <1>13, <1>14, <1>15, <1>16, <1>17, <1>18, <1>19, <1>20,
           <1>21, <1>22, <1>23, <1>24, <1>25, <1>26, <1>27, <1>28, <1>29,
           <1>30, <1>31, <1>32, <1>33, <1>34, <1>35, <1>36, <1>37, <1>38, <1>39
    DEF Next, Startup, HandlerStep, ManagerStep, MainStep, ListenerStep

LEMMA Invariance == Spec => []IInv
<1>1. Init => IInv
  BY DEF Init, IInv, SpawnedInOrder, NotCut, OwnEnds, HandlerInPlace,
         ChainsFirst, SomeTaskFailed, ErrorsHaveCause, CancelHasCause,
         Settled, SignerErases, EndIsTold, NobodyRuns, Core, Stages, Live,
         Ended, GracefulExitIsComplete, EntropyIsErased, ExitTellsCause
<1> QED BY <1>1, TypeCorrect, InvariantStep, PTL DEF Spec

-----------------------------------------------------------------------------
(* A process that exits with a code of its own has let every task it       *)
(* spawned run to its end (TaskTracker::wait_with_notification), whatever  *)
(* failed on the way.                                                      *)
THEOREM NothingIsCutOff == Spec => []GracefulExitIsComplete
<1>1. IInv => GracefulExitIsComplete
  BY DEF IInv, EndIsTold
<1> QED BY <1>1, Invariance, PTL

(* Such a process has erased the entropy of the seed, unless reading it    *)
(* failed: the signer's loop ends on Shutdown only, past the zeroize of    *)
(* signer.rs.                                                              *)
THEOREM EntropyErased == Spec => []EntropyIsErased
<1>1. IInv => EntropyIsErased
  BY DEF IInv, EndIsTold
<1> QED BY <1>1, Invariance, PTL

(* The exit code tells the operator's Ctrl-C from a failed task.           *)
THEOREM ExitCodeTellsCause == Spec => []ExitTellsCause
<1>1. IInv => ExitTellsCause
  BY DEF IInv, EndIsTold
<1> QED BY <1>1, Invariance, PTL

(* Whoever sees the token cancelled reads the right reason beside it:      *)
(* ignite sets the reason before it cancels the token.                     *)
THEOREM CancellationHasCause == Spec => []CancelHasCause
<1>1. IInv => CancelHasCause
  BY DEF IInv
<1> QED BY <1>1, Invariance, PTL

(* While the State Handler is sound, the database leaves its loop only     *)
(* when every tracker has ended or was given up on (SHUTDOWN_TIMEOUT).     *)
THEOREM LedgerIsLast == Spec => []LedgerOutlivesChains
<1>1. IInv => LedgerOutlivesChains
  BY NobodyIsNoChain DEF IInv, ChainsFirst, LedgerOutlivesChains
<1> QED BY <1>1, Invariance, PTL

(* Nothing happens in a process that has ended: no task outlives main, not *)
(* even to panic.                                                          *)
THEOREM EndIsFinal == Spec => [][main # "exited"]_vars
<1>1. ASSUME TypeOK, IInv, [Next]_vars PROVE [main # "exited"]_vars
  <2> SUFFICES ASSUME Next, main = "exited" PROVE FALSE
    BY <1>1
  <2>1. /\ \A t \in Core : ~Live(core[t])
        /\ \A c \in Chains : ~Live(tracker[c]) /\ ~Live(payout[c])
        /\ listener \in {"none", "ok"}
    BY <1>1 DEF IInv, Settled, NobodyRuns
  <2> QED BY <2>1
          DEF Core, Live, Stages, Loop, Alive, Next, Startup, StartSigner, StartDatabase,
              ServerInfoKnown, StartHandler, StartManager, StartServer,
              StartTracker, Stage, StartupFails, ReadSeed, SignerEnds,
              DatabaseCloses, DatabaseEnds, RestoreEnds, ServerEnds, Ends,
              HandlerStep, HandlerWakes, StopChain, StopLedger, StopSigner,
              Proceeds, HandlerFails, ManagerStep, TrackerReplied,
              ManagerEnds, AskTracker, Winding, Discard, TrackerStops,
              TrackerBreaks, TrackerFails, TrackerEnds, PayoutStarts,
              PayoutEnds, Pays, MainStep, ReadError, ReadLateError, Reads,
              IgniteReason, IgniteToken, AllEnded, JoinListener,
              ListenerStep, SeesToken, SeesCompleted, ListenerFails, Hears,
              ListenerFailed, Interrupt, Panic
<1> QED BY <1>1, TypeCorrect, Invariance, PTL DEF Spec
=============================================================================
