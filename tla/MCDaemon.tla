------------------------------ MODULE MCDaemon ------------------------------
(* Instances of Daemon for TLC.                                            *)
EXTENDS Daemon

CONSTANTS o1, o2

(* The steps of CalmSpec that an instance without crashes, interrupts,     *)
(* discards and ticks of the clock can take.  Where nothing crashes        *)
(* nothing reads the disk, so the background flush is left out.            *)
MCCalmNext ==
    \/ HandlerStep /\ NoRaise
    \/ RestoreStep \/ ClientStep \/ ManagerStep
    \/ TrackerStep \/ TrackerFails \/ FeedBlock \/ FeedBreaks \/ PayoutStep
    \/ ChainStep \/ FinalFlush \/ NoticeFailure

MCCalmSpec == Init /\ [][MCCalmNext]_vars
=============================================================================
