------------------------------ MODULE Database ------------------------------
(***************************************************************************)
(* The database server task of database.rs: one task takes requests from a *)
(* bounded channel and serves them in series; each caller waits on a       *)
(* oneshot for its reply.  The store (sled) keeps writes in memory until   *)
(* its background flush, or the flush at the end of the task if it does    *)
(* not fail, puts them on disk; a crash loses what was not flushed.        *)
(***************************************************************************)
EXTENDS Ledger, Sequences

CONSTANTS
    Callers,          \* holders of a Database handle
    Ids,              \* instance ids the generator may produce
    RawKey,           \* RawKey[o]: the order whose encoded key is the raw
                      \* bytes of the id o, Blank when there is none
    Instants,         \* readings of the system clock
    AccountLifetime,  \* account_lifetime of the configuration
    QueueCap,         \* capacity of the request channel (1024 in the code)
    MaxBoots          \* bound on the number of process starts

ASSUME RawKeyType ==
    /\ RawKey \in [Orders -> Orders \cup {Blank}]
    /\ \A o \in Orders : RawKey[o] # o   \* an encoding is longer than its id
ASSUME ClockType == Instants \subseteq Nat /\ AccountLifetime \in Nat
ASSUME CapType == QueueCap \in Nat \ {0} /\ MaxBoots \in Nat
ASSUME BlankIsNoId == Blank \notin Ids

VARIABLES
    table,     \* the orders tree as the server task reads it
    instance,  \* the stored instance id, Blank before the first request
    disk,      \* what a crash leaves: [orders, instance]
    queue,     \* the request channel
    caller,    \* caller[c]: "idle", "waiting", the last reply, or "gone"
    server,    \* "running", "draining" (left its loop), "stopped"
    receipts,  \* receipts[o]: Ok replies to mark_paid(o) since the start
    boots      \* process starts so far

vars == <<table, instance, disk, queue, caller, server, receipts, boots>>

Request ==
         [op : {"create"}, caller : Callers, order : Orders,
          terms : Terms, account : Accounts]
    \cup [op : {"read", "paid", "withdrawn", "stuck"},
          caller : Callers, order : Orders]
    \cup [op : {"list", "info", "shutdown"}, caller : Callers]

Reply == {"New", "Modified", "Collision", "Found", "NotFound", "Ok",
          "AlreadyPaid", "OrderNotFound", "NotPaid",
          "WithdrawalWasAttempted", "List", "InstanceId", "ShutDown",
          "DbEngineDown"}

Stored == [orders |-> table, instance |-> instance]

TypeOK ==
    /\ table \in Table
    /\ instance \in Ids \cup {Blank}
    /\ disk \in [orders : Table, instance : Ids \cup {Blank}]
    /\ queue \in Seq(Request)
    /\ caller \in [Callers -> Reply \cup {"idle", "waiting", "gone"}]
    /\ server \in {"running", "draining", "stopped"}
    /\ receipts \in [Orders -> Nat]
    /\ boots \in Nat

Init ==
    /\ table = EmptyTable
    /\ instance = Blank
    /\ disk = [orders |-> EmptyTable, instance |-> Blank]
    /\ queue = <<>>
    /\ caller = [c \in Callers |-> "idle"]
    /\ server = "running"
    /\ receipts = [o \in Orders |-> 0]
    /\ boots = 1

-----------------------------------------------------------------------------
(* The callers.  A send waits for room; the receiver lives until the task  *)
(* ends, and a send after that fails at once.                              *)

CanCall(c) == caller[c] \notin {"waiting", "gone"}

Call(c, r) ==
    /\ CanCall(c) /\ r.caller = c
    /\ server # "stopped"
    /\ Len(queue) < QueueCap
    /\ queue' = Append(queue, r)
    /\ caller' = [caller EXCEPT ![c] = "waiting"]
    /\ UNCHANGED <<table, instance, disk, server, receipts, boots>>

CallStopped(c) ==
    /\ CanCall(c)
    /\ server = "stopped"
    /\ caller' = [caller EXCEPT ![c] = "DbEngineDown"]
    /\ UNCHANGED <<table, instance, disk, queue, server, receipts, boots>>

DropHandle(c) ==
    /\ CanCall(c)
    /\ caller' = [caller EXCEPT ![c] = "gone"]
    /\ UNCHANGED <<table, instance, disk, queue, server, receipts, boots>>

-----------------------------------------------------------------------------
(* The server task.                                                        *)

Takes(op) == server = "running" /\ queue # <<>> /\ Head(queue).op = op

Answers(reply) ==
    /\ queue' = Tail(queue)
    /\ caller' = [caller EXCEPT ![Head(queue).caller] = reply]

Applies(outcome) ==
    /\ table' = outcome.table
    /\ Answers(outcome.reply)
    /\ UNCHANGED <<instance, disk, server, boots>>

ServeList ==
    /\ Takes("list")
    /\ Answers("List")
    /\ UNCHANGED <<table, instance, disk, server, receipts, boots>>

calculate_death_ts(now) == now + AccountLifetime

ServeCreate ==
    /\ Takes("create")
    /\ \E now \in Instants :
          LET r == Head(queue)
          IN  Applies(create_order(table, r.order, r.terms, r.account,
                                   calculate_death_ts(now)))
    /\ UNCHANGED receipts

(* Mutant: a read of an order that is not there is not answered.           *)
ServeRead_foundOnly ==
    /\ Takes("read")
    /\ LET o == Head(queue).order
       IN  IF IsKnown(table, o)
           THEN Applies(read_order(table, o))
           ELSE /\ queue' = Tail(queue)
                /\ UNCHANGED <<table, instance, disk, caller, server, boots>>
    /\ UNCHANGED receipts

ServeRead ==
    /\ Takes("read")
    /\ Applies(read_order(table, Head(queue).order))
    /\ UNCHANGED receipts

ServeMarkPaid ==
    /\ Takes("paid")
    /\ LET o == Head(queue).order
           outcome == mark_paid(table, o)
       IN  /\ Applies(outcome)
           /\ receipts' = IF outcome.reply = "Ok"
                          THEN [receipts EXCEPT ![o] = @ + 1]
                          ELSE receipts

ServeMarkWithdrawn ==
    /\ Takes("withdrawn")
    /\ LET o == Head(queue).order
       IN  Applies(mark_withdrawn(table, RawKey[o], o))
    /\ UNCHANGED receipts

ServeMarkStuck ==
    /\ Takes("stuck")
    /\ LET o == Head(queue).order
       IN  Applies(mark_stuck(table, RawKey[o], o))
    /\ UNCHANGED receipts

(* Mutant: a new instance id on every start.                               *)
InitializeServerInfo_fresh ==
    /\ Takes("info")
    /\ instance' \in Ids
    /\ Answers("InstanceId")
    /\ UNCHANGED <<table, disk, server, receipts, boots>>

InitializeServerInfo ==
    /\ Takes("info")
    /\ instance' \in IF instance = Blank THEN Ids ELSE {instance}
    /\ Answers("InstanceId")
    /\ UNCHANGED <<table, disk, server, receipts, boots>>

(* The reply is sent before the task leaves its loop and flushes.          *)
ServeShutdown ==
    /\ Takes("shutdown")
    /\ Answers("ShutDown")
    /\ server' = "draining"
    /\ UNCHANGED <<table, instance, disk, receipts, boots>>

(* The other way out of the loop: no handle left, nothing queued.          *)
ChannelClosed ==
    /\ server = "running" /\ queue = <<>>
    /\ \A c \in Callers : caller[c] = "gone"
    /\ server' = "draining"
    /\ UNCHANGED <<table, instance, disk, queue, caller, receipts, boots>>

(* The final flush may fail: its error is dropped, the task ends the same. *)
FinalFlush == disk' = Stored \/ UNCHANGED disk

(* Mutant: requests left in the channel are never answered.                *)
WindDown_silent ==
    /\ server = "draining"
    /\ FinalFlush
    /\ server' = "stopped"
    /\ UNCHANGED <<table, instance, queue, caller, receipts, boots>>

(* The end of the task: its channel goes with it, and whoever still waits  *)
(* is told the engine is down.                                             *)
WindDown ==
    /\ server = "draining"
    /\ FinalFlush
    /\ server' = "stopped"
    /\ queue' = <<>>
    /\ caller' = [c \in Callers |->
                    IF caller[c] = "waiting" THEN "DbEngineDown"
                                             ELSE caller[c]]
    /\ UNCHANGED <<table, instance, receipts, boots>>

-----------------------------------------------------------------------------
(* The store and the process.                                              *)

BackgroundFlush ==
    /\ server # "stopped" /\ disk # Stored
    /\ disk' = Stored
    /\ UNCHANGED <<table, instance, queue, caller, server, receipts, boots>>

(* A crash, or an exit, and the next start on what the disk holds.         *)
Reboot ==
    /\ boots < MaxBoots
    /\ boots' = boots + 1
    /\ table' = disk.orders
    /\ instance' = disk.instance
    /\ queue' = <<>>
    /\ caller' = [c \in Callers |-> "idle"]
    /\ server' = "running"
    /\ receipts' = [o \in Orders |-> 0]
    /\ UNCHANGED disk

-----------------------------------------------------------------------------
ServerStep ==
    \/ ServeList \/ ServeCreate \/ ServeRead \/ ServeMarkPaid
    \/ ServeMarkWithdrawn \/ ServeMarkStuck \/ InitializeServerInfo
    \/ ServeShutdown \/ ChannelClosed \/ WindDown

CallerStep ==
    \/ \E c \in Callers : CallStopped(c) \/ DropHandle(c)
    \/ \E r \in Request : Call(r.caller, r)

Next == CallerStep \/ ServerStep \/ BackgroundFlush \/ Reboot

Spec == Init /\ [][Next]_vars

(* The runtime polls the server task whenever it can go on.                *)
FairSpec == Spec /\ WF_vars(ServerStep)

-----------------------------------------------------------------------------
(* Within one run of the process an order is reported as newly paid at     *)
(* most once: the caller pays out on every such report (state.rs:127-131). *)
OneReceipt == \A o \in Orders : receipts[o] <= 1

(* An order whose payment has reached the disk is never reported as newly  *)
(* paid again, whatever crashes and restarts come in between.              *)
NoReceiptAfterDisk ==
    [][\A o \in Orders :
          receipts'[o] > receipts[o] => ~IsPaid(disk.orders, o)]_vars

(* The disk is an earlier version of the book the server works on: memory  *)
(* never goes back behind it, and an id it holds is the id in use.         *)
DiskIsEarlier ==
    /\ MovesForward(disk.orders, table)
    /\ disk.instance # Blank => disk.instance = instance

(* Nobody waits for a reply that no queued request will bring, and no      *)
(* request is served for a caller who is not waiting.                      *)
QueuedFor(c) == {i \in DOMAIN queue : queue[i].caller = c}

WaitersAreQueued ==
    \A c \in Callers :
        \/ caller[c] = "waiting" /\ \E i \in DOMAIN queue : QueuedFor(c) = {i}
        \/ caller[c] # "waiting" /\ QueuedFor(c) = {}

(* Every caller gets an answer, also when the server stops first.          *)
EveryCallIsAnswered ==
    \A c \in Callers : caller[c] = "waiting" ~> caller[c] # "waiting"

(* As long as no order id is the encoded key of another, what the disk     *)
(* holds keeps the contract of OrderContract over every crash.             *)
NoAliasedIds == \A o \in Orders : RawKey[o] = Blank

Contract == INSTANCE OrderContract WITH book <- disk.orders
ContractSpec == Contract!Spec
=============================================================================
