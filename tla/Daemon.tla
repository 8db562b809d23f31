------------------------------- MODULE Daemon -------------------------------
(***************************************************************************)
(* The daemon: State Handler, order restoring, chain manager, tracker,     *)
(* block watcher, payouts and HTTP handlers over their shared channels,    *)
(* with the chain, the clock, the disk and the operator outside, crashes   *)
(* and restarts included.                                                  *)
(***************************************************************************)
EXTENDS StateHandler, ChainManager, ChainTracker, FiniteSets

CONSTANTS
    Payments,    \* amounts customers transfer
    Interrupts,  \* whether the operator may ask for a shutdown
    MaxHeight,   \* bound on the finalized blocks
    MaxClock,    \* bound on the clock
    Crashes,     \* whether the process may crash
    Discards     \* whether the tracker may take longer to stop than
                 \* SHUTDOWN_TIMEOUT

ASSUME BoundsAreNaturals ==
    /\ MaxHeight \in Nat /\ MaxClock \in Nat
    /\ Crashes \in BOOLEAN /\ Interrupts \in BOOLEAN /\ Discards \in BOOLEAN
    /\ Payments \subseteq Nat \ {0}

-----------------------------------------------------------------------------
(* The chain and the clock.                                                *)

Finalize(balances) ==
    /\ Height < MaxHeight
    /\ blocks' = Append(blocks, balances)
    /\ UNCHANGED <<ledgerVars, clock, handlerVars, restoreVars, managerVars,
                   ack, trackerVars, tailVars>>

EmptyBlock == Finalize(blocks[Height]) /\ UNCHANGED submitted

Pay(o, amount) ==
    /\ Finalize([blocks[Height] EXCEPT ![o] = @ + amount])
    /\ UNCHANGED submitted

Settle(o) ==
    /\ o \in submitted
    /\ Finalize([blocks[Height] EXCEPT ![o] = 0])
    /\ submitted' = submitted \ {o}

ChainStep ==
    \/ EmptyBlock
    \/ \E o \in Orders : Settle(o) \/ \E amount \in Payments : Pay(o, amount)

Tick ==
    /\ clock < MaxClock
    /\ clock' = clock + 1
    /\ UNCHANGED <<ledgerVars, blocks, submitted, handlerVars, restoreVars,
                   managerVars, ack, trackerVars, tailVars>>

-----------------------------------------------------------------------------
(* The database's flushes.                                                 *)

BackgroundFlush ==
    /\ db # "closed" /\ disk # table
    /\ disk' = table
    /\ UNCHANGED <<table, db, worldVars, handlerVars, restoreVars, managerVars,
                   ack, trackerVars, tailVars>>

(* The flush at the end may fail: the error is dropped, the task ends the  *)
(* same (as in Database.WindDown).                                         *)
FinalFlush ==
    /\ db = "closing"
    /\ disk' = table \/ UNCHANGED disk
    /\ db' = "closed"
    /\ UNCHANGED <<table, worldVars, handlerVars, restoreVars, managerVars,
                   ack, trackerVars, tailVars>>

-----------------------------------------------------------------------------
(* Shutdown is asked for by the operator, or by a task that failed.        *)

Cancel ==
    /\ ~cancelled
    /\ cancelled' = TRUE
    /\ UNCHANGED <<ledgerVars, worldVars, handlerVars, restoreVars, managerVars,
                   ack, trackerVars, payout, signer>>

Interrupt == Interrupts /\ Cancel

NoticeFailure == (sh.pc = "failed" \/ trk.pc = "failed") /\ Cancel

(* The process dies and is started again on what the disk holds.           *)
CrashAndRestart ==
    /\ Crashes
    /\ table' = disk /\ db' = "open"
    /\ http' = [c \in Clients |-> "idle"]
    /\ stateQ' = <<>>
    /\ sh' = [pc |-> "starting", client |-> Blank]
    /\ supported' = FALSE
    /\ restoring' = EmptyTable /\ restore' = "off"
    /\ cmQ' = <<>> /\ cm' = "serving"
    /\ ack' = [w \in Waiters |-> "none"]
    /\ chainQ' = <<>> /\ trk' = Resting("rotate")
    /\ watched' = [o \in Orders |-> Blank]
    /\ feed' = 0
    /\ payout' = [o \in Orders |-> NoPayout]
    /\ signer' = TRUE /\ cancelled' = FALSE
    /\ UNCHANGED <<disk, worldVars>>

Stopped ==
    /\ ~HandlerLives /\ ~TrackerLives /\ cm = "done" /\ restore = "off"
    /\ \A o \in Orders : payout[o].state \in {"none", "done"}
    /\ db = "closed" /\ ~signer

-----------------------------------------------------------------------------
Next ==
    \/ HandlerStep \/ RestoreStep \/ ClientStep
    \/ ManagerStep \/ (Discards /\ TrackerDiscarded)
    \/ TrackerStep \/ TrackerFails \/ FeedBlock \/ FeedBreaks \/ PayoutStep
    \/ ChainStep \/ Tick \/ BackgroundFlush \/ FinalFlush
    \/ Interrupt \/ NoticeFailure \/ CrashAndRestart

Spec == Init /\ [][Next]_vars

(* Every task that can go on is polled; the endpoints answer in the end    *)
(* (Connect is part of TrackerStep).                                       *)
Fairness ==
    /\ WF_vars(HandlerStep) /\ WF_vars(RestoreStep) /\ WF_vars(ManagerStep)
    /\ WF_vars(TrackerStep) /\ WF_vars(FeedBlock) /\ WF_vars(PayoutStep)
    /\ WF_vars(FinalFlush) /\ WF_vars(NoticeFailure)

FairSpec == Spec /\ Fairness

(* Runs in which no order is amended to a larger amount.  (A crash may     *)
(* still bring back the larger amount of an amendment that was not saved.) *)
NoRaise ==
    HandlerStep => \A o \in Orders :
                      IsKnown(table, o) => table'[o].terms <= table[o].terms

CalmSpec == Init /\ [][Next /\ NoRaise]_vars

-----------------------------------------------------------------------------
(* Every order is paid out at most once per start of the process, however  *)
(* often its payment is reported (two branches of one scan, tracker.rs:108 *)
(* and 121, the check after a reconnect, a restored order): at most one    *)
(* Reap is queued, being started or carried out.                           *)
Reaps(q, o) == {i \in DOMAIN q : q[i].type = "reap" /\ q[i].order = o}

OneReapPerOrder ==
    \A o \in Orders :
        Cardinality(Reaps(cmQ, o)) + Cardinality(Reaps(chainQ, o))
          + Count(payout[o].state # "none") <= 1

(* A payout is on its way only for an order the ledger records as paid.    *)
ReapIsRecorded ==
    \A o \in Orders :
        (Reaps(cmQ, o) # {} \/ Reaps(chainQ, o) # {}
           \/ payout[o].state # "none")
        => IsPaid(table, o)

(* An acknowledgement a task waits for is never lost and never doubled:    *)
(* while it waits, exactly one place holds its request or its answer; when *)
(* it does not, none does.                                                 *)
RequestsOf(q, w) ==
    {i \in DOMAIN q : q[i].type # "block" /\ q[i].from = w}
HeldFor(w) ==
    {o \in Orders : payout[o].state = "spawned" /\ payout[o].from = w}

Awaits(w) == \/ w = "handler" /\ sh.pc \in {"adding", "reaping", "closing"}
             \/ w = "restore" /\ restore = "waiting"

AwaitedIsInFlight ==
    \A w \in {"handler", "restore"} :
        Cardinality(RequestsOf(cmQ, w)) + Cardinality(RequestsOf(chainQ, w))
          + Cardinality(HeldFor(w)) + Count(ack[w] # "none") = Count(Awaits(w))

(* An order is paid only if its account once held what the order asks for. *)
(* (Not when the amount was raised: see the stale run.)                    *)
PaidIsFunded ==
    \A o \in Orders :
        IsPaid(table, o) =>
            \E n \in DOMAIN blocks : blocks[n][o] >= table[o].terms

(* From the moment the ledger is told to close, and its reply is sent      *)
(* before its last flush, nothing more is recorded in it: "now that        *)
(* nothing happens we can wind down the ledger" (state.rs:149), although   *)
(* a discarded tracker may still report payments, and an HTTP handler that *)
(* has checked its currency may still create an order.                     *)
LedgerIsStill ==
    [][db # "open" /\ db' # "open" => UNCHANGED table]_vars

(* A currency process_order saw supported is known when the order is       *)
(* created, so that the second of its two requests is never refused.       *)
CheckedStaysSupported ==
    (\E c \in Clients : http[c] \in {"supported", "creating"}) => supported

(* Handler and tracker never wait for each other: the tracker for room in  *)
(* the handler's channel, the handler for an answer of the tracker.        *)
TrackerBlocked ==
    /\ trk.pc = "announce" \/ trk.sends > 0
    /\ HandlerLives /\ Len(stateQ) = StateCap

HandlerBlocked ==
    /\ sh.pc \in {"adding", "reaping"}
    /\ RequestsOf(cmQ, "handler") # {} \/ RequestsOf(chainQ, "handler") # {}

NoCyclicWait == ~(TrackerBlocked /\ HandlerBlocked)

Contract == INSTANCE OrderContract WITH book <- disk
ContractSpec == Contract!Spec

(* Shutting down drops no reported payment.                                *)
NoReportDropped ==
    [][sh'.pc = "done" /\ sh.pc # "done" =>
         \A i \in DOMAIN stateQ : stateQ[i].type # "paid"]_vars

(* The tracker forgets an unpaid order only after its death.               *)
LiveOrderStaysWatched ==
    [][LoopDone => \A o \in trk.drop : check(o) \/ watched[o].death < clock]_vars

(* The handler gets back to its channel.                                   *)
HandlerComesBack ==
    sh.pc \in {"adding", "reaping", "closing"} ~>
        sh.pc \in {"idle", "done", "failed"}

(* A payment that was reported gets recorded, unless the handler ends.     *)
ReportedIsRecorded ==
    \A o \in Orders :
        (\E i \in DOMAIN stateQ : stateQ[i] = [type |-> "paid", order |-> o])
        ~> IsPaid(table, o) \/ ~HandlerLives

(* The orders of an earlier run are all handed over in the end.            *)
RestoreCompletes == restore # "off" ~> restore = "off"

(* A shutdown completes.                                                   *)
CancelledStops == cancelled ~> Stopped
=============================================================================
