---------------------------- MODULE DaemonState -----------------------------
(***************************************************************************)
(* The state shared by the tasks of the daemon: the order table, the three *)
(* request channels between the tasks (handler <- HTTP and trackers,       *)
(* manager <- handler, tracker <- manager and block feed), the oneshot     *)
(* acknowledgements the tasks wait for, and the chain outside.  The tasks' *)
(* actions are in StateHandler, ChainManager and ChainTracker; Daemon puts *)
(* them together.  There is one chain, which serves every currency.        *)
(***************************************************************************)
EXTENDS Ledger, Sequences

CONSTANTS
    Clients,           \* concurrent HTTP requests
    Leavers,           \* those whose peer may disconnect before the answer
    Saved,             \* orders an earlier run may have left pending
    Lifetime,          \* account_lifetime
    StateCap,          \* capacity of the State Handler's channel
    ChainCap,          \* capacity of a tracker's channel
    LossTolerance      \* surplus up to which a payout is made

ASSUME AmountsArePositive == Terms \subseteq Nat \ {0}
ASSUME AccountPerOrder == Orders \subseteq Accounts
ASSUME LeaversAreClients == Leavers \subseteq Clients
ASSUME SavedAreOrders == Saved \subseteq Orders
ASSUME NumbersAreNaturals == Lifetime \in Nat /\ LossTolerance \in Nat
ASSUME CapsArePositive == StateCap \in Nat \ {0} /\ ChainCap \in Nat \ {0}

VARIABLES
    table,      \* the order table the database server works on
    disk,       \* what of it a crash leaves
    db,         \* the database task: "open", "closing", "closed"
    clock,      \* the system clock
    blocks,     \* finalized blocks: the balance of each order's account
    submitted,  \* orders whose payout extrinsic waits for a block
    http,       \* what each HTTP request waits for
    stateQ,     \* the State Handler's channel
    sh,         \* the State Handler: [pc, client]
    supported,  \* whether the chain's currencies are in StateData
    restoring,  \* orders "Restore saved orders" still has to hand over
    restore,    \* that task: "off", "sending", "waiting"
    cmQ,        \* the chain manager's channel
    cm,         \* the manager: "serving", "stopping", "done"
    ack,        \* the answer each waiting task has got
    chainQ,     \* the chain tracker's channel
    trk,        \* the tracker task
    watched,    \* its watched_accounts
    feed,       \* next block the block watcher will report, 0 when it is off
    payout,     \* the payout task of each order
    signer,     \* whether the signer holds the seed
    cancelled   \* the shutdown token

ledgerVars == <<table, disk, db>>
worldVars == <<clock, blocks, submitted>>
handlerVars == <<http, stateQ, sh, supported>>
restoreVars == <<restoring, restore>>
managerVars == <<cmQ, cm>>
trackerVars == <<chainQ, trk, watched, feed>>
tailVars == <<payout, signer, cancelled>>

vars == <<table, disk, db, clock, blocks, submitted, http, stateQ, sh,
          supported, restoring, restore, cmQ, cm, ack, chainQ, trk, watched,
          feed, payout, signer, cancelled>>

-----------------------------------------------------------------------------
(* Messages.  A WatchAccount or Reap request carries the order's terms and *)
(* the oneshot of the task that waits for it.                              *)

Waiters == {"handler", "restore", "manager"}

AccountRequest == [type : {"watch", "reap"}, order : Orders, amount : Terms,
                   death : Nat, from : {"handler", "restore"}]
ManagerRequest == AccountRequest \cup [type : {"shutdown"}, from : {"handler"}]
TrackerRequest == AccountRequest \cup [type : {"shutdown"}, from : {"manager"}]
                                 \cup [type : {"block"}, block : Nat]
StateRequest ==      [type : {"connect"}]
                \cup [type : {"paid"}, order : Orders]
                \cup [type : {"supported", "read"}, client : Clients]
                \cup [type : {"create"}, client : Clients,
                      order : Orders, amount : Terms]

WatchAccount(type, o, info, from) ==
    [type |-> type, order |-> o, amount |-> info.terms,
     death |-> info.death, from |-> from]

(* The receiver of q is gone: everyone waiting on a request in it is told. *)
DroppedBy(q) ==
    {w \in Waiters : \E i \in DOMAIN q : q[i].type # "block" /\ q[i].from = w}

AckDropped(acks, q) ==
    [w \in Waiters |-> IF w \in DroppedBy(q) THEN "dropped" ELSE acks[w]]

-----------------------------------------------------------------------------
Idle == [pc |-> "idle", client |-> Blank]

Invoice == [amount : Terms, death : Nat]

ASSUME BlankIsNoInvoice == Blank \notin Invoice

Resting(pc) == [pc |-> pc, block |-> 0, now |-> 0, todo |-> {}, drop |-> {},
                order |-> Blank, sends |-> 0]

NoPayout == [state |-> "none", amount |-> 0, from |-> "handler"]

HandlerLives == sh.pc \notin {"done", "failed"}
TrackerLives == trk.pc \notin {"down", "failed"}

(* Nothing for the task to do before somebody else does something.         *)
HandlerRests ==
    \/ ~HandlerLives
    \/ sh.pc = "idle" /\ stateQ = <<>> /\ ~cancelled
    \/ sh.pc \in {"adding", "reaping", "closing"} /\ ack["handler"] = "none"
ManagerRests == cm # "serving" \/ cmQ = <<>>

Height == Len(blocks)
NoBalance == [o \in Orders |-> 0]

Waiting == {"asking", "creating", "reading"}

(* Sending to the State Handler waits for room; once its receiver is gone  *)
(* the send fails and is only logged.                                      *)
SendToHandler(m) ==
    IF HandlerLives
    THEN Len(stateQ) < StateCap /\ stateQ' = Append(stateQ, m)
    ELSE UNCHANGED stateQ

HandlerPlaces == {"starting", "idle", "adding", "reaping", "closing", "done",
                  "failed"}
TrackerPlaces == {"rotate", "announce", "recheck", "serve", "scan", "down",
                  "failed"}
Tracker == [pc : TrackerPlaces, block : Nat, now : Nat,
            todo : SUBSET Orders, drop : SUBSET Orders,
            order : Orders \cup {Blank}, sends : 0..2]
Payout == [state : {"none", "spawned", "running", "done"}, amount : Nat,
           from : {"handler", "restore"}]

LedgerTypes ==
    /\ table \in Table /\ disk \in Table
    /\ db \in {"open", "closing", "closed"}
WorldTypes ==
    /\ clock \in Nat
    /\ blocks \in Seq([Orders -> Nat]) /\ blocks # <<>>
    /\ submitted \in SUBSET Orders
HandlerTypes ==
    /\ http \in [Clients -> Waiting \cup {"idle", "supported", "gone"}]
    /\ stateQ \in Seq(StateRequest)
    /\ sh \in [pc : HandlerPlaces, client : Clients \cup {Blank}]
    /\ sh.pc = "adding" => sh.client \in Clients
    /\ supported \in BOOLEAN
RestoreTypes == restoring \in Table /\ restore \in {"off", "sending", "waiting"}
ManagerTypes == cmQ \in Seq(ManagerRequest)
                /\ cm \in {"serving", "stopping", "done"}
AckType == ack \in [Waiters -> {"none", "ok", "dropped"}]
TrackerTypes ==
    /\ chainQ \in Seq(TrackerRequest)
    /\ trk \in Tracker
    /\ trk.sends > 0 => trk.order \in Orders
    /\ watched \in [Orders -> Invoice \cup {Blank}]
    /\ feed \in Nat
TailTypes ==
    /\ payout \in [Orders -> Payout]
    /\ signer \in BOOLEAN /\ cancelled \in BOOLEAN

TypeOK ==
    /\ LedgerTypes /\ WorldTypes /\ HandlerTypes /\ RestoreTypes
    /\ ManagerTypes /\ AckType /\ TrackerTypes /\ TailTypes

(* A process that starts on the given disk; the chain goes on outside.     *)
Boots ==
    /\ table = disk /\ db = "open"
    /\ http = [c \in Clients |-> "idle"]
    /\ stateQ = <<>>
    /\ sh = [pc |-> "starting", client |-> Blank]
    /\ supported = FALSE
    /\ restoring = EmptyTable /\ restore = "off"
    /\ cmQ = <<>> /\ cm = "serving"
    /\ ack = [w \in Waiters |-> "none"]
    /\ chainQ = <<>> /\ trk = Resting("rotate")
    /\ watched = [o \in Orders |-> Blank]
    /\ feed = 0
    /\ payout = [o \in Orders |-> NoPayout]
    /\ signer = TRUE /\ cancelled = FALSE

(* The disk is empty or holds pending orders of an earlier run.            *)
LeftOver(left, asked) ==
    [o \in Orders |-> IF o \in left THEN NewOrder(asked[o], o, Lifetime)
                                    ELSE Blank]

Init ==
    /\ \E left \in SUBSET Saved, asked \in [Saved -> Terms] :
          disk = LeftOver(left, asked)
    /\ clock = 0
    /\ blocks = <<NoBalance>> /\ submitted = {}
    /\ Boots
=============================================================================
