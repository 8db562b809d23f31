---------------------------- MODULE ChainTracker ----------------------------
(***************************************************************************)
(* The tracker task of chain/tracker.rs with the block watcher and the     *)
(* payout tasks it spawns.  It rotates over the endpoints; on each it      *)
(* announces the chain to the State Handler, checks every watched account, *)
(* and then serves its channel: finalized blocks, accounts to watch,       *)
(* payouts to start, and the order to shut down.  Every OrderPaid is a     *)
(* send that waits for room in the State Handler's channel.                *)
(***************************************************************************)
EXTENDS DaemonState

(* Mutant: the requests left in the channel are kept, nobody is told.      *)
TrackerEnds_silently(pc, rest) ==
    /\ trk' = Resting(pc)
    /\ chainQ' = <<>>
    /\ watched' = [o \in Orders |-> Blank]
    /\ feed' = 0
    /\ UNCHANGED ack

(* The tracker ends: its channel goes, and with it every request in it.    *)
TrackerEnds(pc, rest) ==
    /\ trk' = Resting(pc)
    /\ chainQ' = <<>>
    /\ watched' = [o \in Orders |-> Blank]
    /\ feed' = 0
    /\ ack' = AckDropped(ack, rest)

(* The connection is given up; the channel and the watched accounts stay,  *)
(* the subscription of the block watcher ends with its client.             *)
Rotates == trk' = Resting("rotate") /\ feed' = 0

-----------------------------------------------------------------------------
(* Connecting.  An attempt that fails leaves everything as it was.         *)

Connect ==
    /\ trk.pc = "rotate" /\ ~cancelled
    /\ trk' = [Resting("announce") EXCEPT !.block = Height]
    /\ UNCHANGED <<ledgerVars, worldVars, handlerVars, restoreVars, managerVars,
                   ack, chainQ, watched, feed, tailVars>>

CancelledAtRotation ==
    /\ trk.pc = "rotate" /\ cancelled
    /\ TrackerEnds("down", chainQ)
    /\ UNCHANGED <<ledgerVars, worldVars, handlerVars, restoreVars, managerVars,
                   tailVars>>

WatchedOrders == {o \in Orders : watched[o] # Blank}

Announce ==
    /\ trk.pc = "announce"
    /\ SendToHandler([type |-> "connect"])
    /\ trk' = [trk EXCEPT !.pc = "recheck", !.todo = WatchedOrders]
    /\ UNCHANGED <<ledgerVars, worldVars, http, sh, supported, restoreVars,
                   managerVars, ack, chainQ, watched, feed, tailVars>>

-----------------------------------------------------------------------------
(* Checking one account: Invoice::check compares the balance at the block  *)
(* with the amount the tracker was given; the query may fail.              *)

(* What a node answers about an account at a block: its free balance.  An  *)
(* account the chain does not know has no entry; that is a failed query.   *)
balance(o, n) == blocks[n][o]

(* Mutant: any balance will do.                                            *)
check_anyBalance(o) == balance(o, trk.block) > 0

check(o) == balance(o, trk.block) >= watched[o].amount

(* One account of the loop is done: `sends` OrderPaid remain to be sent,   *)
(* and the account is remembered for removal if `drops`.                   *)
Checked(o, sends, drops) ==
    trk' = [trk EXCEPT !.todo = @ \ {o},
                       !.drop = IF drops THEN @ \cup {o} ELSE @,
                       !.order = IF sends > 0 THEN o ELSE Blank,
                       !.sends = sends]

RecheckAccount(o) ==
    /\ trk.pc = "recheck" /\ trk.sends = 0 /\ o \in trk.todo
    /\ \E answered \in BOOLEAN :
          LET paid == answered /\ check(o)
          IN  Checked(o, IF paid THEN 1 ELSE 0, paid)
    /\ UNCHANGED <<ledgerVars, worldVars, handlerVars, restoreVars, managerVars,
                   ack, chainQ, watched, feed, tailVars>>

(* The receivers of a block's Transfer events.  Events of the Assets pallet *)
(* are filtered out, so an account may receive an asset without one: the   *)
(* choice of `first` in ScanAccount stands for that, too.                  *)
transfer_events(n) ==
    {o \in Orders : n > 1 /\ balance(o, n) > balance(o, n - 1)}

(* was_balance_received_at_account over the events.                        *)
Received(o, n) == o \in transfer_events(n)

Count(b) == IF b THEN 1 ELSE 0

(* Mutant: one more report whenever the balance suffices.                  *)
ScanAccount_reportsTwice(o) ==
    /\ trk.pc = "scan" /\ trk.sends = 0 /\ o \in trk.todo
    /\ \E first, second \in BOOLEAN :
          LET byEvent == Received(o, trk.block) /\ first /\ check(o)
              byDeath == watched[o].death >= trk.now /\ second
          IN  Checked(o, Count(byEvent) + Count(byDeath) + Count(check(o)),
                      byEvent \/ byDeath)
    /\ UNCHANGED <<ledgerVars, worldVars, handlerVars, restoreVars, managerVars,
                   ack, chainQ, watched, feed, tailVars>>

ScanAccount(o) ==
    /\ trk.pc = "scan" /\ trk.sends = 0 /\ o \in trk.todo
    /\ \E first, second \in BOOLEAN :
          LET byEvent == Received(o, trk.block) /\ first /\ check(o)
              byDeath == watched[o].death >= trk.now /\ second
          IN  Checked(o, Count(byEvent) + Count(byDeath /\ check(o)),
                      byEvent \/ byDeath)
    /\ UNCHANGED <<ledgerVars, worldVars, handlerVars, restoreVars, managerVars,
                   ack, chainQ, watched, feed, tailVars>>

order_paid ==
    /\ trk.sends > 0
    /\ SendToHandler([type |-> "paid", order |-> trk.order])
    /\ trk' = [trk EXCEPT !.sends = @ - 1,
                          !.order = IF trk.sends = 1 THEN Blank ELSE @]
    /\ UNCHANGED <<ledgerVars, worldVars, http, sh, supported, restoreVars,
                   managerVars, ack, chainQ, watched, feed, tailVars>>

(* The loop is over: the remembered accounts are removed, and the tracker  *)
(* serves its channel; after the first check the block watcher starts.     *)
LoopDone ==
    /\ trk.pc \in {"recheck", "scan"} /\ trk.sends = 0 /\ trk.todo = {}
    /\ watched' = [o \in Orders |-> IF o \in trk.drop THEN Blank
                                                     ELSE watched[o]]
    /\ feed' = IF trk.pc = "recheck" THEN trk.block + 1 ELSE feed
    /\ trk' = Resting("serve")
    /\ UNCHANGED <<ledgerVars, worldVars, handlerVars, restoreVars, managerVars,
                   ack, chainQ, tailVars>>

-----------------------------------------------------------------------------
(* Serving the channel.                                                    *)

TakesNext(type) ==
    trk.pc = "serve" /\ chainQ # <<>> /\ Head(chainQ).type = type

ScanBlock ==
    /\ TakesNext("block")
    /\ chainQ' = Tail(chainQ)
    /\ trk' = [Resting("scan") EXCEPT !.block = Head(chainQ).block,
                                      !.now = clock,
                                      !.todo = WatchedOrders]
    /\ UNCHANGED <<ledgerVars, worldVars, handlerVars, restoreVars, managerVars,
                   ack, watched, feed, tailVars>>

(* The block's hash or its events cannot be had, or the runtime changed.   *)
LoseBlock ==
    /\ TakesNext("block")
    /\ chainQ' = Tail(chainQ)
    /\ Rotates
    /\ UNCHANGED <<ledgerVars, worldVars, handlerVars, restoreVars, managerVars,
                   ack, watched, tailVars>>

(* The runtime version cannot be had: `?` ends the task with an error.     *)
TrackerFails ==
    /\ TakesNext("block")
    /\ TrackerEnds("failed", Tail(chainQ))
    /\ UNCHANGED <<ledgerVars, worldVars, handlerVars, restoreVars, managerVars,
                   tailVars>>

(* Mutant: the account is watched, the request not acknowledged.           *)
StartWatching_noAck ==
    /\ TakesNext("watch")
    /\ LET m == Head(chainQ)
       IN  watched' = [watched EXCEPT ![m.order] =
                         [amount |-> m.amount, death |-> m.death]]
    /\ chainQ' = Tail(chainQ)
    /\ UNCHANGED <<ledgerVars, worldVars, handlerVars, restoreVars, managerVars,
                   ack, trk, feed, tailVars>>

StartWatching ==
    /\ TakesNext("watch")
    /\ LET m == Head(chainQ)
       IN  /\ watched' = [watched EXCEPT ![m.order] =
                             [amount |-> m.amount, death |-> m.death]]
           /\ ack' = [ack EXCEPT ![m.from] = "ok"]
    /\ chainQ' = Tail(chainQ)
    /\ UNCHANGED <<ledgerVars, worldVars, handlerVars, restoreVars, managerVars,
                   trk, feed, tailVars>>

StartPayout ==
    /\ TakesNext("reap")
    /\ LET m == Head(chainQ)
       IN  payout' = [payout EXCEPT ![m.order] =
                        [state |-> "spawned", amount |-> m.amount,
                         from |-> m.from]]
    /\ chainQ' = Tail(chainQ)
    /\ UNCHANGED <<ledgerVars, worldVars, handlerVars, restoreVars, managerVars,
                   ack, trk, watched, feed, signer, cancelled>>

(* Mutant: the tracker stops without answering the manager.                *)
ShutDownTracker_noReply ==
    /\ TakesNext("shutdown")
    /\ trk' = Resting("down")
    /\ chainQ' = <<>>
    /\ watched' = [o \in Orders |-> Blank]
    /\ feed' = 0
    /\ ack' = AckDropped(ack, Tail(chainQ))
    /\ UNCHANGED <<ledgerVars, worldVars, handlerVars, restoreVars, managerVars,
                   tailVars>>

ShutDownTracker ==
    /\ TakesNext("shutdown")
    /\ trk' = Resting("down")
    /\ chainQ' = <<>>
    /\ watched' = [o \in Orders |-> Blank]
    /\ feed' = 0
    /\ ack' = [AckDropped(ack, Tail(chainQ)) EXCEPT !["manager"] = "ok"]
    /\ UNCHANGED <<ledgerVars, worldVars, handlerVars, restoreVars, managerVars,
                   tailVars>>

(* The watchdog: nothing came for 120 s, because the subscription broke or *)
(* the chain stands still.  The other tasks of the daemon have long done   *)
(* by then whatever they could do.                                         *)
Watchdog ==
    /\ trk.pc = "serve" /\ chainQ = <<>>
    /\ feed = 0 \/ feed > Height
    /\ HandlerRests /\ ManagerRests
    /\ Rotates
    /\ UNCHANGED <<ledgerVars, worldVars, handlerVars, restoreVars, managerVars,
                   ack, chainQ, watched, tailVars>>

TrackerStep ==
    \/ Connect \/ CancelledAtRotation \/ Announce \/ order_paid \/ LoopDone
    \/ \E o \in Orders : RecheckAccount(o) \/ ScanAccount(o)
    \/ ScanBlock \/ LoseBlock \/ StartWatching \/ StartPayout
    \/ ShutDownTracker \/ Watchdog

-----------------------------------------------------------------------------
(* The block watcher of the current connection.                            *)

FeedBlock ==
    /\ feed \in 1..Height /\ Len(chainQ) < ChainCap
    /\ chainQ' = Append(chainQ, [type |-> "block", block |-> feed])
    /\ feed' = feed + 1
    /\ UNCHANGED <<ledgerVars, worldVars, handlerVars, restoreVars, managerVars,
                   ack, trk, watched, tailVars>>

FeedBreaks ==
    /\ feed # 0
    /\ feed' = 0
    /\ UNCHANGED <<ledgerVars, worldVars, handlerVars, restoreVars, managerVars,
                   ack, chainQ, trk, watched, tailVars>>

-----------------------------------------------------------------------------
(* The payout tasks.  The acknowledgement is sent when the task starts;    *)
(* nobody looks at how it ends.                                            *)

PayoutStarts(o) ==
    /\ payout[o].state = "spawned"
    /\ ack' = [ack EXCEPT ![payout[o].from] = "ok"]
    /\ payout' = [payout EXCEPT ![o].state = "running"]
    /\ UNCHANGED <<ledgerVars, worldVars, handlerVars, restoreVars, managerVars,
                   trackerVars, signer, cancelled>>

(* A surplus of at most the tolerance is transferred; a larger one waits   *)
(* for manual intervention, and so does a balance below the amount, for    *)
(* which the difference wraps around.                                      *)
InWindow(o) ==
    LET held == balance(o, Height)
    IN  /\ held >= payout[o].amount
        /\ held - payout[o].amount <= LossTolerance

PayoutSubmits(o) ==
    /\ payout[o].state = "running" /\ InWindow(o) /\ signer
    /\ submitted' = submitted \cup {o}
    /\ payout' = [payout EXCEPT ![o].state = "done"]
    /\ UNCHANGED <<ledgerVars, clock, blocks, handlerVars, restoreVars,
                   managerVars, ack, trackerVars, signer, cancelled>>

PayoutGivesUp(o) ==
    /\ payout[o].state = "running"
    /\ payout' = [payout EXCEPT ![o].state = "done"]
    /\ UNCHANGED <<ledgerVars, worldVars, handlerVars, restoreVars, managerVars,
                   ack, trackerVars, signer, cancelled>>

PayoutStep ==
    \E o \in Orders : PayoutStarts(o) \/ PayoutSubmits(o) \/ PayoutGivesUp(o)
=============================================================================
