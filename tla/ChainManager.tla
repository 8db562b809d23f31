---------------------------- MODULE ChainManager ----------------------------
(***************************************************************************)
(* The task "Blockchain connections manager" of chain/mod.rs.  It hands    *)
(* each request on to the tracker of its chain, waiting for room in that   *)
(* tracker's channel before it looks at the next request, and winds the    *)
(* tracker down when it is told to.  Its own channel holds at most one     *)
(* request of each of its two callers, far below its capacity.             *)
(***************************************************************************)
EXTENDS DaemonState

Serves == cm = "serving" /\ cmQ # <<>>

Forward ==
    /\ Serves /\ Head(cmQ).type # "shutdown"
    /\ cmQ' = Tail(cmQ)
    /\ \/ /\ TrackerLives /\ Len(chainQ) < ChainCap
          /\ chainQ' = Append(chainQ, Head(cmQ))
          /\ UNCHANGED ack
       \/ /\ ~TrackerLives
          /\ ack' = [ack EXCEPT ![Head(cmQ).from] = "dropped"]
          /\ UNCHANGED chainQ
    /\ UNCHANGED <<ledgerVars, worldVars, handlerVars, restoreVars, cm, trk,
                   watched, feed, tailVars>>

StopTracker ==
    /\ Serves /\ Head(cmQ).type = "shutdown"
    /\ TrackerLives /\ Len(chainQ) < ChainCap
    /\ chainQ' = Append(chainQ, [type |-> "shutdown", from |-> "manager"])
    /\ cm' = "stopping"
    /\ UNCHANGED <<ledgerVars, worldVars, handlerVars, restoreVars, cmQ, ack,
                   trk, watched, feed, tailVars>>

(* The manager's end: the shutdown request at the head of its channel is   *)
(* answered, whatever is queued behind it is dropped.                      *)
ManagerEnds ==
    /\ cm' = "done"
    /\ cmQ' = <<>>
    /\ ack' = [AckDropped(ack, Tail(cmQ)) EXCEPT !["handler"] = "ok"]
    /\ UNCHANGED <<ledgerVars, worldVars, handlerVars, restoreVars,
                   trackerVars, tailVars>>

TrackerAnswered == cm = "stopping" /\ ack["manager"] # "none" /\ ManagerEnds

(* SHUTDOWN_TIMEOUT: the tracker is discarded, it may still be running.    *)
TrackerDiscarded == cm = "stopping" /\ ack["manager"] = "none" /\ ManagerEnds

NoTrackerToStop ==
    Serves /\ Head(cmQ).type = "shutdown" /\ ~TrackerLives /\ ManagerEnds

(* Every handle is gone: the handler failed and nothing is left to restore *)
ManagerChannelClosed ==
    /\ cm = "serving" /\ cmQ = <<>>
    /\ sh.pc = "failed" /\ restore = "off"
    /\ cm' = "done"
    /\ UNCHANGED <<ledgerVars, worldVars, handlerVars, restoreVars, cmQ, ack,
                   trackerVars, tailVars>>

ManagerStep ==
    \/ Forward \/ StopTracker \/ TrackerAnswered \/ NoTrackerToStop
    \/ ManagerChannelClosed
=============================================================================
