----------------------------- MODULE Lifecycle ------------------------------
(***************************************************************************)
(* The life of the process: main.rs starts the services one after another  *)
(* and any step may fail; then wait_with_notification (task_tracker.rs)    *)
(* reads the errors of the tasks until every task has ended, beside the    *)
(* Ctrl-C listener (shutdown.rs).  A shutdown is orchestrated by the State *)
(* Handler: first the chain manager and its trackers, then the database,   *)
(* then the signer.  What the tasks do besides is in Daemon.               *)
(***************************************************************************)
EXTENDS Naturals, FiniteSets

CONSTANTS
    Chains,       \* configured chains, one tracker each
    Paying,       \* those on which an order is paid out
    Nobody,       \* no tracker
    MaxFailures   \* bound on the tasks that fail

ASSUME NobodyIsNoChain == Nobody \notin Chains
ASSUME ChainsAreFinite == IsFiniteSet(Chains)
ASSUME PayingAreChains == Paying \subseteq Chains
ASSUME MaxFailuresIsNatural == MaxFailures \in Nat

VARIABLES
    main,         \* where async_try_main is
    exit,         \* how the process ended
    core,         \* the state of each single task
    tracker,      \* of each chain's tracker
    payout,       \* of one payout per chain
    handler,      \* where the State Handler is
    told,         \* tasks whose channel holds the handler's Shutdown
    closing,      \* whether the database left its loop
    untold,       \* trackers the manager has still to shut down
    asked,        \* the one it waits for
    discarded,    \* those it gave up on
    zeroized,     \* whether the signer erased the entropy of the seed
    cancelled,    \* the shutdown token
    reason,       \* ShutdownReason
    interrupted,  \* whether the operator's Ctrl-C cancelled the token
    unread,       \* errors in error_rx
    failed,       \* wait_with_notification's flag
    listener,     \* the Ctrl-C listener
    completed     \* the shutdown_completed token

taskVars == <<core, tracker, payout>>
stopVars == <<handler, told, closing, untold, asked, discarded, zeroized>>
tokenVars == <<cancelled, reason, interrupted>>
loopVars == <<main, exit, unread, failed>>
earVars == <<listener, completed>>
vars == <<main, exit, core, tracker, payout, handler, told, closing, untold,
          asked, discarded, zeroized, cancelled, reason, interrupted, unread,
          failed, listener, completed>>

-----------------------------------------------------------------------------
Core == {"signer", "database", "handler", "restore", "manager", "server"}
Status == {"none", "new", "running", "ok", "failed", "cut"}
Stages == {"config", "database", "server_info", "handler", "manager", "server"}
Loop == {"waiting", "igniting", "cancelling", "joining"}
Exits == {"none", "startup_error", "killed", "aborted", "listener_error",
          "success", "failure"}

Live(s) == s \in {"new", "running"}
Ended(s) == s \in {"ok", "failed"}

TypeOK ==
    /\ main \in Stages \cup Loop \cup {"exited"} /\ exit \in Exits
    /\ core \in [Core -> Status]
    /\ tracker \in [Chains -> Status] /\ payout \in [Chains -> Status]
    /\ handler \in {"wakeup", "serving", "chain", "ledger", "gone"}
    /\ told \subseteq {"manager", "database", "signer"}
    /\ closing \in BOOLEAN /\ zeroized \in BOOLEAN
    /\ untold \subseteq Chains /\ asked \in Chains \cup {Nobody}
    /\ discarded \subseteq Chains
    /\ cancelled \in BOOLEAN /\ interrupted \in BOOLEAN
    /\ reason \in {"UserRequested", "UnrecoverableError"}
    /\ unread \in Nat /\ failed \in BOOLEAN
    /\ listener \in {"none", "signal", "second", "ok", "error"}
    /\ completed \in BOOLEAN

Init ==
    /\ main = "config" /\ exit = "none"
    /\ core = [t \in Core |-> "none"]
    /\ tracker = [c \in Chains |-> "none"]
    /\ payout = [c \in Chains |-> "none"]
    /\ handler = "wakeup" /\ told = {} /\ closing = FALSE /\ zeroized = FALSE
    /\ untold = Chains /\ asked = Nobody /\ discarded = {}
    /\ cancelled = FALSE /\ reason = "UserRequested" /\ interrupted = FALSE
    /\ unread = 0 /\ failed = FALSE
    /\ listener = "none" /\ completed = FALSE

(* The end of main, and of every task that is still running.               *)
Cut(f) == [t \in DOMAIN f |-> IF Live(f[t]) THEN "cut" ELSE f[t]]

Exit(how) ==
    /\ main' = "exited" /\ exit' = how
    /\ core' = Cut(core) /\ tracker' = Cut(tracker) /\ payout' = Cut(payout)
    /\ UNCHANGED <<stopVars, tokenVars, unread, failed, earVars>>

(* Another end of the process: nothing is left to tell its tasks by.       *)
Dies(how) ==
    /\ main' = "exited" /\ exit' = how
    /\ core' = [t \in Core |-> "cut"]
    /\ tracker' = [c \in Chains |-> "cut"]
    /\ payout' = [c \in Chains |-> "cut"]
    /\ handler' = "gone" /\ told' = {} /\ closing' = FALSE /\ zeroized' = FALSE
    /\ untold' = {} /\ asked' = Nobody /\ discarded' = {}
    /\ cancelled' = FALSE /\ reason' = "UserRequested" /\ interrupted' = FALSE
    /\ unread' = 0 /\ failed' = FALSE
    /\ listener' = "none" /\ completed' = FALSE

-----------------------------------------------------------------------------
(* Startup.                                                                *)

Stage(now, next) ==
    /\ main = now /\ main' = next
    /\ UNCHANGED <<exit, unread, failed, stopVars, tokenVars, tracker, payout>>

Spawn(t, state) == core' = [core EXCEPT ![t] = state]

StartSigner ==
    Stage("config", "database") /\ Spawn("signer", "new") /\ UNCHANGED earVars
StartDatabase ==
    /\ Stage("database", "server_info") /\ Spawn("database", "running")
    /\ UNCHANGED earVars
ServerInfoKnown ==
    Stage("server_info", "handler") /\ UNCHANGED <<core, earVars>>
StartHandler ==
    /\ Stage("handler", "manager") /\ Spawn("handler", "running")
    /\ UNCHANGED earVars

StartTracker(c) ==
    /\ main = "manager" /\ tracker[c] = "none"
    /\ tracker' = [tracker EXCEPT ![c] = "running"]
    /\ UNCHANGED <<core, payout, stopVars, tokenVars, loopVars, earVars>>

StartManager ==
    /\ \A c \in Chains : tracker[c] # "none"
    /\ Stage("manager", "server") /\ Spawn("manager", "running")
    /\ UNCHANGED earVars

StartServer ==
    /\ Stage("server", "waiting") /\ Spawn("server", "running")
    /\ listener' = "signal"
    /\ UNCHANGED completed

(* Every `?` of try_main and async_try_main: the runtime is dropped.       *)
StartupFails ==
    /\ main \in {"config", "database", "server_info", "manager", "server"}
    /\ Dies("startup_error")

Startup ==
    \/ StartSigner \/ StartDatabase \/ ServerInfoKnown \/ StartHandler
    \/ StartManager \/ StartServer \/ \E c \in Chains : StartTracker(c)

-----------------------------------------------------------------------------
(* The tasks.                                                              *)

Alive == main # "exited"

Failures == Cardinality({t \in Core : core[t] = "failed"})
              + Cardinality({c \in Chains : tracker[c] = "failed"})

Ends(t, how) ==
    /\ Alive
    /\ how = "failed" => Failures < MaxFailures
    /\ core' = [core EXCEPT ![t] = how]
    /\ unread' = IF how = "failed" THEN unread + 1 ELSE unread
    /\ UNCHANGED <<main, exit, failed, tracker, payout, tokenVars, earVars>>

ReadSeed ==
    /\ core["signer"] = "new"
    /\ \E how \in {"running", "failed"} : Ends("signer", how)
    /\ UNCHANGED stopVars

(* Mutant: the loop ends without the entropy being erased.                 *)
SignerEnds_keepsEntropy ==
    /\ core["signer"] = "running" /\ "signer" \in told
    /\ Ends("signer", "ok")
    /\ UNCHANGED stopVars

(* Not when its channel closes: main holds a Signer until it returns.      *)
SignerEnds ==
    /\ core["signer"] = "running" /\ "signer" \in told
    /\ zeroized' = TRUE
    /\ Ends("signer", "ok")
    /\ UNCHANGED <<handler, told, closing, untold, asked, discarded>>

(* Told, or the handler with the last Database handle is gone.             *)
DatabaseCloses ==
    /\ Alive /\ core["database"] = "running" /\ ~closing
    /\ "database" \in told \/ Ended(core["handler"])
    /\ closing' = TRUE
    /\ UNCHANGED <<taskVars, handler, told, untold, asked, discarded, zeroized,
                   tokenVars, loopVars, earVars>>

DatabaseEnds ==
    /\ core["database"] = "running" /\ closing
    /\ Ends("database", "ok")
    /\ UNCHANGED stopVars

RestoreEnds ==
    core["restore"] = "running" /\ Ends("restore", "ok") /\ UNCHANGED stopVars

ServerEnds ==
    /\ core["server"] = "running"
    /\ \/ cancelled /\ Ends("server", "ok")
       \/ Ends("server", "failed")
    /\ UNCHANGED stopVars

-----------------------------------------------------------------------------
(* The State Handler.                                                      *)

Serving == core["handler"] = "running" /\ handler = "serving"

(* It waits for the chain manager and reads the saved orders.              *)
HandlerWakes ==
    /\ Alive /\ core["handler"] = "running" /\ handler = "wakeup"
    /\ core["manager"] # "none"
    /\ handler' = "serving"
    /\ Spawn("restore", "running")
    /\ UNCHANGED <<tracker, payout, told, closing, untold, asked, discarded,
                   zeroized, tokenVars, loopVars, earVars>>

(* The saved orders cannot be read, or an HTTP peer left before its answer *)
HandlerFails ==
    /\ core["handler"] = "running"
    /\ \/ handler = "wakeup" /\ core["manager"] # "none"
       \/ handler = "serving" /\ core["server"] # "none"
    /\ handler' = "gone"
    /\ Ends("handler", "failed")
    /\ UNCHANGED <<told, closing, untold, asked, discarded, zeroized>>

Tell(now, next, t) ==
    /\ handler = now /\ handler' = next
    /\ told' = told \cup {t}
    /\ UNCHANGED <<closing, untold, asked, discarded, zeroized>>

Proceeds(now, next, t) ==
    /\ Alive /\ core["handler"] = "running"
    /\ Tell(now, next, t)
    /\ UNCHANGED <<taskVars, tokenVars, loopVars, earVars>>

StopChain == cancelled /\ Proceeds("serving", "chain", "manager")

(* Mutant: the shutdown orders of manager and database are both sent       *)
(* before the manager's answer is waited for.                              *)
StopLedger_early == Proceeds("chain", "ledger", "database")

StopLedger == Ended(core["manager"]) /\ Proceeds("chain", "ledger", "database")

(* Mutant: the handler forgets the signer.                                 *)
StopSigner_forgotten ==
    /\ closing \/ Ended(core["database"])
    /\ core["handler"] = "running" /\ handler = "ledger"
    /\ handler' = "gone"
    /\ Ends("handler", "ok")
    /\ UNCHANGED <<told, closing, untold, asked, discarded, zeroized>>

(* The database answers before it flushes; the signer is not waited for.   *)
StopSigner ==
    /\ closing \/ Ended(core["database"])
    /\ core["handler"] = "running"
    /\ Tell("ledger", "gone", "signer")
    /\ Ends("handler", "ok")

HandlerStep == HandlerWakes \/ StopChain \/ StopLedger \/ StopSigner

-----------------------------------------------------------------------------
(* The chain manager's shutdown of its trackers, one after another.        *)

Winding == Alive /\ core["manager"] = "running" /\ "manager" \in told

Manages(nextAsked, nextUntold, nextDiscarded) ==
    /\ asked' = nextAsked /\ untold' = nextUntold
    /\ discarded' = nextDiscarded
    /\ UNCHANGED <<taskVars, handler, told, closing, zeroized, tokenVars,
                   loopVars, earVars>>

AskTracker(c) ==
    /\ Winding /\ asked = Nobody /\ c \in untold
    /\ Manages(IF Live(tracker[c]) THEN c ELSE Nobody, untold \ {c}, discarded)

TrackerReplied ==
    /\ Winding /\ asked # Nobody /\ Ended(tracker[asked])
    /\ Manages(Nobody, untold, discarded)

(* SHUTDOWN_TIMEOUT: the tracker may still be running.                     *)
Discard ==
    /\ Winding /\ asked # Nobody /\ Live(tracker[asked])
    /\ Manages(Nobody, untold, discarded \cup {asked})

(* Everything wound down, or every ChainManager handle is gone.            *)
ManagerEnds ==
    /\ core["manager"] = "running"
    /\ \/ "manager" \in told /\ untold = {} /\ asked = Nobody
       \/ Ended(core["handler"]) /\ ~Live(core["restore"])
    /\ Ends("manager", "ok")
    /\ UNCHANGED stopVars

ManagerStep ==
    TrackerReplied \/ ManagerEnds \/ \E c \in Chains : AskTracker(c)

-----------------------------------------------------------------------------
(* The trackers and the payouts they spawn.                                *)

TrackerEnds(c, how) ==
    /\ Alive /\ tracker[c] = "running"
    /\ how = "failed" => Failures < MaxFailures
    /\ tracker' = [tracker EXCEPT ![c] = how]
    /\ unread' = IF how = "failed" THEN unread + 1 ELSE unread
    /\ UNCHANGED <<main, exit, failed, core, payout, stopVars, tokenVars,
                   earVars>>

TrackerStops(c) == c \in {asked} \cup discarded /\ TrackerEnds(c, "ok")

(* It lost its connection and finds the token cancelled.                   *)
TrackerBreaks(c) == cancelled /\ TrackerEnds(c, "ok")

TrackerFails(c) == TrackerEnds(c, "failed")

Pays(c, now, next) ==
    /\ Alive /\ payout[c] = now
    /\ payout' = [payout EXCEPT ![c] = next]
    /\ UNCHANGED <<core, tracker, stopVars, tokenVars, loopVars, earVars>>

(* A Reap the handler sent off.                                            *)
PayoutStarts(c) ==
    /\ c \in Paying /\ tracker[c] = "running" /\ handler # "wakeup"
    /\ Pays(c, "none", "running")
PayoutEnds(c) == Pays(c, "running", "ok")

-----------------------------------------------------------------------------
(* wait_with_notification and the end of async_try_main.                   *)

(* Mutant: a closed channel is taken for one more error.                   *)
Reads_closed(next, flag) ==
    /\ main = "waiting"
    /\ unread' = unread - 1
    /\ main' = next /\ failed' = flag
    /\ UNCHANGED <<exit, taskVars, stopVars, tokenVars, earVars>>

Reads(next, flag) ==
    /\ main = "waiting" /\ unread > 0
    /\ unread' = unread - 1
    /\ main' = next /\ failed' = flag
    /\ UNCHANGED <<exit, taskVars, stopVars, tokenVars, earVars>>

ReadError == (failed \/ ~cancelled) /\ Reads("igniting", TRUE)
ReadLateError == ~failed /\ cancelled /\ Reads("waiting", failed)

(* Mutant: the token is cancelled before the reason is known.              *)
IgniteReason_late ==
    /\ main = "igniting" /\ main' = "cancelling"
    /\ cancelled' = TRUE
    /\ UNCHANGED <<exit, unread, failed, taskVars, stopVars, reason,
                   interrupted, earVars>>

(* Mutant: the token is cancelled, the reason left as it is.               *)
IgniteReason_forgotten ==
    /\ main = "igniting" /\ main' = "cancelling"
    /\ UNCHANGED <<exit, unread, failed, taskVars, stopVars, tokenVars, earVars>>

(* ignite awaits the lock of the reason, then cancels the token.           *)
IgniteReason ==
    /\ main = "igniting" /\ main' = "cancelling"
    /\ reason' = "UnrecoverableError"
    /\ UNCHANGED <<exit, unread, failed, taskVars, stopVars, cancelled,
                   interrupted, earVars>>

IgniteToken ==
    /\ main = "cancelling" /\ main' = "waiting"
    /\ cancelled' = TRUE
    /\ UNCHANGED <<exit, unread, failed, taskVars, stopVars, reason,
                   interrupted, earVars>>

NobodyRuns ==
    /\ \A t \in Core : ~Live(core[t])
    /\ \A c \in Chains : ~Live(tracker[c]) /\ ~Live(payout[c])

(* Mutant: only the tasks main started itself are waited for.              *)
AllEnded_coreOnly ==
    /\ main = "waiting" /\ unread = 0
    /\ \A t \in Core : ~Live(core[t])
    /\ main' = "joining" /\ completed' = TRUE
    /\ UNCHANGED <<exit, unread, failed, taskVars, stopVars, tokenVars, listener>>

(* Every error_tx is dropped, so every task has ended.                     *)
AllEnded ==
    /\ main = "waiting" /\ unread = 0 /\ NobodyRuns
    /\ main' = "joining" /\ completed' = TRUE
    /\ UNCHANGED <<exit, unread, failed, taskVars, stopVars, tokenVars, listener>>

ExitCode == IF reason = "UserRequested" THEN "success" ELSE "failure"

JoinListener == main = "joining" /\ listener = "ok" /\ Exit(ExitCode)

MainStep ==
    \/ ReadError \/ ReadLateError \/ IgniteReason \/ IgniteToken
    \/ AllEnded \/ JoinListener

-----------------------------------------------------------------------------
(* The listener and the operator.                                          *)

Hears(now, next) ==
    /\ Alive /\ listener = now /\ listener' = next
    /\ UNCHANGED <<taskVars, stopVars, loopVars, completed, reason>>

SeesToken ==
    cancelled /\ Hears("signal", "second") /\ UNCHANGED <<cancelled, interrupted>>
SeesCompleted ==
    completed /\ Hears("second", "ok") /\ UNCHANGED <<cancelled, interrupted>>
ListenerFails ==
    /\ \E now \in {"signal", "second"} : Hears(now, "error")
    /\ UNCHANGED <<cancelled, interrupted>>

ListenerStep == SeesToken \/ SeesCompleted

(* main returns the listener's error, whatever is still running.           *)
ListenerFailed ==
    main \in Loop /\ listener = "error" /\ Dies("listener_error")

Interrupt ==
    \/ /\ Hears("signal", "second")
       /\ cancelled' = TRUE
       /\ interrupted' = (interrupted \/ ~cancelled)
    \/ listener = "second" /\ ~completed /\ Dies("aborted")
    \/ Alive /\ listener = "none" /\ Dies("killed")

(* public_payment_account is a todo!(); the panic hook then panics in      *)
(* blocking_read, inside the runtime, and the process aborts.              *)
Panic == core["server"] = "running" /\ Dies("aborted")

-----------------------------------------------------------------------------
Next ==
    \/ Startup \/ StartupFails
    \/ ReadSeed \/ SignerEnds \/ DatabaseCloses \/ DatabaseEnds \/ RestoreEnds
    \/ ServerEnds \/ HandlerStep \/ HandlerFails \/ ManagerStep \/ Discard
    \/ \E c \in Chains :
          \/ TrackerStops(c) \/ TrackerBreaks(c) \/ TrackerFails(c)
          \/ PayoutStarts(c) \/ PayoutEnds(c)
    \/ MainStep \/ ListenerStep \/ ListenerFails \/ ListenerFailed
    \/ Interrupt \/ Panic

Spec == Init /\ [][Next]_vars

(* Every task that can go on is polled; queries of a payout or a restored  *)
(* order are answered in the end.                                          *)
Fairness ==
    /\ WF_vars(Startup) /\ WF_vars(MainStep) /\ WF_vars(ListenerStep)
    /\ WF_vars(ListenerFailed)
    /\ WF_vars(ReadSeed) /\ WF_vars(SignerEnds) /\ WF_vars(DatabaseCloses)
    /\ WF_vars(DatabaseEnds) /\ WF_vars(RestoreEnds)
    /\ WF_vars(ServerEnds) /\ WF_vars(HandlerStep) /\ WF_vars(ManagerStep)
    /\ \A c \in Chains : WF_vars(TrackerStops(c)) /\ WF_vars(PayoutEnds(c))

FairSpec == Spec /\ Fairness
-----------------------------------------------------------------------------
(* A process that says goodbye has cut no task off: every task that was    *)
(* spawned, the trackers' payouts included, has run to its end.            *)
GracefulExitIsComplete ==
    exit \in {"success", "failure"} =>
        /\ \A t \in Core \ {"restore"} : Ended(core[t])
        /\ core["restore"] \in {"none", "ok"}
        /\ \A c \in Chains : Ended(tracker[c]) /\ payout[c] # "cut"

(* Such a process has erased the entropy it derives its keys from, unless  *)
(* it never had any (signer.rs:68).  The phrase that the entropy was read  *)
(* from is a String the task holds as well, and is not erased.             *)
EntropyIsErased ==
    exit \in {"success", "failure"} => zeroized \/ core["signer"] = "failed"

(* The exit code: without the operator's Ctrl-C the daemon never exits     *)
(* with success, and it reports a failure only if a task failed.           *)
ExitTellsCause ==
    /\ exit = "success" => interrupted
    /\ exit = "failure" =>
          \/ \E t \in Core : core[t] = "failed"
          \/ \E c \in Chains : tracker[c] = "failed"

(* Whoever sees the token cancelled, and was not asked by the operator,    *)
(* also sees that an error is the reason (ShutdownNotification::ignite).   *)
CancelHasCause == cancelled => interrupted \/ reason = "UnrecoverableError"

(* The ledger is wound down after the chains: no tracker is left that was  *)
(* not given up on, unless the State Handler failed.                       *)
LedgerOutlivesChains ==
    closing /\ Alive /\ core["handler"] # "failed" =>
        \A c \in Chains : Ended(tracker[c]) \/ c \in discarded

(* A shutdown completes, unless the State Handler failed: nobody tells the *)
(* trackers and the signer then.                                           *)
ShutdownCompletes ==
    cancelled ~> main = "exited" \/ core["handler"] = "failed"
=============================================================================
