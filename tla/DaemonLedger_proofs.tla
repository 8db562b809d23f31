------------------------- MODULE DaemonLedger_proofs -------------------------
(***************************************************************************)
(* Proofs about the daemon's ledger and its disk: that a shutdown leaves   *)
(* the ledger still, what a crash leaves of it, and when an order may be   *)
(* recorded as paid.                                                       *)
(***************************************************************************)
EXTENDS Daemon_proofs

-----------------------------------------------------------------------------
(* Who changes the ledger.                                                 *)

LEMMA HandlerLedger ==
    ASSUME TypeOK, HandlerStep
    PROVE  /\ HandlerLives /\ disk' = disk
           /\ MovesForward(table, table')
           /\ UNCHANGED <<clock, blocks, submitted>>
           /\ \/ db' = db
              \/ db' = "closing" /\ ~HandlerLives'
<1> USE DEF TypeOK, LedgerTypes
<1>0. MovesForward(table, table)
  BY MovesForwardReflexive
<1>1. ASSUME NEW c, NEW next, NEW rest, Reply(c, next, rest)
      PROVE  db' = db \/ (db' = "closing" /\ ~HandlerLives')
  BY <1>1 DEF Reply, HandlerEnds, HandlerLives
<1>2. CASE ReadOrderList \/ ConnectChain \/ RefusePaid \/ ReapAnswered
             \/ BeginShutdown
  BY <1>0, <1>2
     DEF ReadOrderList, ConnectChain, RefusePaid, ReapAnswered,
         BeginShutdown, Takes, HandlerLives, ledgerVars, worldVars
<1>3. CASE IsCurrencySupported \/ GetStatus \/ InvoiceAdded
  <2>1. HandlerLives /\ UNCHANGED <<table, disk, clock, blocks, submitted>>
    BY <1>3 DEF IsCurrencySupported, GetStatus, InvoiceAdded, Takes,
                HandlerLives, worldVars
  <2>2. db' = db \/ (db' = "closing" /\ ~HandlerLives')
    BY <1>1, <1>3 DEF IsCurrencySupported, GetStatus, InvoiceAdded
  <2> QED BY <1>0, <2>1, <2>2
<1>4. CASE NewInvoice
  BY <1>4, TakenCreate DEF NewInvoice, Takes, HandlerLives, worldVars
<1>5. CASE OldInvoice
  <2>1. db' = db \/ (db' = "closing" /\ ~HandlerLives')
    BY <1>1, <1>5 DEF OldInvoice
  <2> QED BY <1>5, <2>1, TakenCreate DEF OldInvoice, Takes, HandlerLives, worldVars
<1>6. CASE RecordPaid
  BY <1>6, TakenPaid DEF RecordPaid, Takes, HandlerLives, worldVars
<1>7. CASE FinishShutdown
  BY <1>0, <1>7 DEF FinishShutdown, HandlerEnds, HandlerLives, worldVars
<1> QED BY <1>2, <1>3, <1>4, <1>5, <1>6, <1>7 DEF HandlerStep

LEMMA OtherLedger ==
    ASSUME [Next]_vars, ~HandlerStep, ~CrashAndRestart
    PROVE  /\ UNCHANGED <<table, sh, supported>>
           /\ ClientStep \/ UNCHANGED http
           /\ disk' = disk \/ disk' = table
           /\ db' = db \/ (db = "closing" /\ db' = "closed")
<1> USE DEF ledgerVars, worldVars, handlerVars, managerVars, restoreVars,
            trackerVars, tailVars
<1>1. CASE RestoreStep \/ ClientStep
  BY <1>1 DEF RestoreStep, RestoreOrder, OrderRestored, AllRestored,
              ClientStep, RequestStatus, CheckCurrency, CreateOrder, Ask,
              GiveUp, Disconnect
<1>2. CASE ManagerStep \/ TrackerDiscarded
  BY <1>2 DEF ManagerStep, Forward, StopTracker, TrackerAnswered,
              TrackerDiscarded, NoTrackerToStop, ManagerEnds,
              ManagerChannelClosed
<1>3. CASE TrackerStep
  BY <1>3 DEF TrackerStep, Connect, CancelledAtRotation, Announce, order_paid,
              LoopDone, RecheckAccount, ScanAccount, ScanBlock, LoseBlock,
              StartWatching, StartPayout, ShutDownTracker, Watchdog
<1>4. CASE TrackerFails \/ FeedBlock \/ FeedBreaks \/ PayoutStep
  BY <1>4 DEF TrackerFails, FeedBlock, FeedBreaks, PayoutStep, PayoutStarts,
              PayoutSubmits, PayoutGivesUp
<1>5. CASE ChainStep \/ Tick \/ Interrupt \/ NoticeFailure \/ UNCHANGED vars
  BY <1>5 DEF ChainStep, EmptyBlock, Settle, Pay, Finalize, Tick, Interrupt,
              NoticeFailure, Cancel, vars
<1>6. CASE BackgroundFlush \/ FinalFlush
  BY <1>6 DEF BackgroundFlush, FinalFlush
<1> QED BY <1>1, <1>2, <1>3, <1>4, <1>5, <1>6 DEF Next

-----------------------------------------------------------------------------
(* The inductive invariant of the ledger: once the database was told to    *)
(* close, the State Handler has ended, and the disk is behind the table.   *)

ClosingIsFinal == db # "open" => ~HandlerLives

LedgerInv == TypeOK /\ ClosingIsFinal /\ MovesForward(disk, table)

LEMMA LedgerInvariant == Spec => []LedgerInv
<1>1. Init => LedgerInv
  <2> SUFFICES ASSUME Init PROVE LedgerInv
    OBVIOUS
  <2>1. TypeOK /\ disk = table /\ db = "open"
    BY InitTypeOK DEF Init, Boots
  <2>2. MovesForward(disk, table)
    BY <2>1, MovesForwardReflexive DEF TypeOK, LedgerTypes
  <2> QED BY <2>1, <2>2 DEF LedgerInv, ClosingIsFinal
<1>2. ASSUME LedgerInv, [Next]_vars PROVE LedgerInv'
  <2>1. TypeOK /\ TypeOK'
    BY <1>2, StepTypeOK DEF LedgerInv
  <2>2. /\ table \in Table /\ disk \in Table
        /\ table' \in Table /\ disk' \in Table
    BY <2>1 DEF TypeOK, LedgerTypes
  <2>3. MovesForward(table, table) /\ MovesForward(disk, disk)
    BY <2>2, MovesForwardReflexive
  <2>4. CASE HandlerStep
    <3>1. /\ HandlerLives /\ disk' = disk /\ MovesForward(table, table')
          /\ db' = db \/ (db' = "closing" /\ ~HandlerLives')
      BY <2>1, <2>4, HandlerLedger
    <3>2. db = "open"
      BY <1>2, <3>1 DEF LedgerInv, ClosingIsFinal
    <3>3. MovesForward(disk', table')
      BY <1>2, <2>2, <3>1, MovesForwardTransitive DEF LedgerInv
    <3> QED BY <2>1, <3>1, <3>2, <3>3 DEF LedgerInv, ClosingIsFinal
  <2>5. CASE CrashAndRestart
    <3>1. table' = disk /\ disk' = disk /\ db' = "open"
      BY <2>5 DEF CrashAndRestart
    <3> QED BY <2>1, <2>3, <3>1 DEF LedgerInv, ClosingIsFinal
  <2>6. CASE ~HandlerStep /\ ~CrashAndRestart
    <3>1. /\ UNCHANGED <<table, sh>>
          /\ disk' = disk \/ disk' = table
          /\ db' = db \/ (db = "closing" /\ db' = "closed")
      BY <1>2, <2>6, OtherLedger
    <3>2. MovesForward(disk', table')
      BY <1>2, <2>3, <3>1 DEF LedgerInv
    <3>3. HandlerLives' = HandlerLives
      BY <3>1 DEF HandlerLives
    <3> QED BY <1>2, <2>1, <3>1, <3>2, <3>3
            DEF LedgerInv, ClosingIsFinal
  <2> QED BY <2>4, <2>5, <2>6
<1> QED BY <1>1, <1>2, PTL DEF Spec

(* Once the ledger was told to close nothing is recorded in it any more    *)
(* (state.rs:149): only the State Handler writes to it, and it has left    *)
(* its loop, whatever trackers and HTTP handlers still send.               *)
THEOREM LedgerStaysStill == Spec => LedgerIsStill
<1>1. ASSUME LedgerInv, [Next]_vars
      PROVE  [db # "open" /\ db' # "open" => UNCHANGED table]_vars
  <2>1. CASE HandlerStep
    <3>1. HandlerLives
      BY <1>1, <2>1, HandlerLedger DEF LedgerInv
    <3> QED BY <1>1, <3>1 DEF LedgerInv, ClosingIsFinal
  <2>2. CASE CrashAndRestart
    BY <2>2 DEF CrashAndRestart
  <2>3. CASE ~HandlerStep /\ ~CrashAndRestart
    BY <1>1, <2>3, OtherLedger
  <2> QED BY <2>1, <2>2, <2>3
<1> QED BY <1>1, LedgerInvariant, PTL DEF Spec, LedgerIsStill

(* The daemon implements the abstract book of orders: whatever its tasks   *)
(* do, and whenever it crashes or flushes, the orders on disk only ever    *)
(* move forward as OrderContract allows.                                   *)
THEOREM DaemonKeepsContract == Spec => ContractSpec
<1>0. /\ Contract!Table = Table
      /\ \A t, u : Contract!MovesForward(t, u) <=> MovesForward(t, u)
  BY DEF Contract!Table, Table, Contract!OrderInfo, OrderInfo,
         Contract!MovesForward, MovesForward, Contract!Keeps, Keeps
<1>1. LedgerInv => Contract!Init
  BY <1>0 DEF LedgerInv, TypeOK, LedgerTypes, Contract!Init
<1>2. ASSUME LedgerInv, LedgerInv', [Next]_vars
      PROVE  [Contract!Progress]_disk
  <2>1. disk' = disk \/ disk' = table
    BY <1>2, HandlerLedger, OtherLedger DEF LedgerInv, CrashAndRestart
  <2>2. CASE disk' = table
    <3>1. MovesForward(disk, disk') /\ disk' \in Table
      BY <1>2, <2>2 DEF LedgerInv, TypeOK, LedgerTypes
    <3> QED BY <1>0, <3>1 DEF Contract!Progress
  <2> QED BY <2>1, <2>2
<1> QED BY <1>1, <1>2, LedgerInvariant, PTL DEF Spec, ContractSpec, Contract!Spec

-----------------------------------------------------------------------------
(* The two requests of process_order.                                      *)

(* A currency that was seen supported is still known when the order is     *)
(* created, although the handler served others in between: create_invoice  *)
(* never answers UnknownCurrency (state.rs:305).                           *)
THEOREM CheckedSupported == Spec => []CheckedStaysSupported
<1>1. Init => CheckedStaysSupported
  BY DEF Init, Boots, CheckedStaysSupported
<1>2. ASSUME TypeOK, CheckedStaysSupported, [Next]_vars
      PROVE  CheckedStaysSupported'
  <2>1. http \in [Clients -> Waiting \cup {"idle", "supported", "gone"}]
    BY <1>2 DEF TypeOK, HandlerTypes
  <2>2. ASSUME supported => supported',
               \A c \in Clients :
                  http'[c] \in {"supported", "creating"} =>
                     http[c] \in {"supported", "creating"} \/ supported
        PROVE  CheckedStaysSupported'
    BY <1>2, <2>2 DEF CheckedStaysSupported
  <2>3. ASSUME NEW c \in Clients, NEW next, NEW rest, Reply(c, next, rest),
               next = "idle" \/ supported
        PROVE  \A d \in Clients :
                  http'[d] \in {"supported", "creating"} =>
                     http[d] \in {"supported", "creating"} \/ supported
    BY <2>1, <2>3 DEF Reply, HandlerEnds, Waiting
  <2>4. CASE IsCurrencySupported \/ GetStatus \/ OldInvoice
    <3>1. Head(stateQ).client \in Clients
      BY <1>2, <2>4, TakenClient DEF IsCurrencySupported, GetStatus, OldInvoice
    <3>2. PICK next : /\ next = "idle" \/ supported
                      /\ Reply(Head(stateQ).client, next, Tail(stateQ))
      BY <2>4 DEF IsCurrencySupported, GetStatus, OldInvoice
    <3>3. supported' = supported
      BY <2>4 DEF IsCurrencySupported, GetStatus, OldInvoice
    <3> QED BY <2>2, <2>3, <3>1, <3>2, <3>3
  <2>5. CASE InvoiceAdded
    <3>1. sh.client \in Clients /\ Reply(sh.client, "idle", stateQ)
      BY <1>2, <2>5 DEF InvoiceAdded, TypeOK, HandlerTypes
    <3>2. supported' = supported
      BY <2>5 DEF InvoiceAdded
    <3> QED BY <2>2, <2>3, <3>1, <3>2
  <2>6. CASE FinishShutdown
    BY <2>1, <2>2, <2>6 DEF FinishShutdown, HandlerEnds, Waiting
  <2>7. CASE ReadOrderList \/ ConnectChain \/ NewInvoice \/ RecordPaid
               \/ RefusePaid \/ ReapAnswered \/ BeginShutdown
    <3>1. http' = http /\ (supported => supported')
      BY <2>7 DEF ReadOrderList, ConnectChain, NewInvoice, RecordPaid,
                  RefusePaid, ReapAnswered, BeginShutdown
    <3> QED BY <2>2, <3>1
  <2>8. CASE ClientStep
    <3> PICK c \in Clients :
           \/ RequestStatus(c) \/ CheckCurrency(c) \/ GiveUp(c) \/ Disconnect(c)
           \/ \E o \in Orders, amount \in Terms : CreateOrder(c, o, amount)
      BY <2>8 DEF ClientStep
    <3>1. supported' = supported
      BY DEF RequestStatus, CheckCurrency, GiveUp, Disconnect, CreateOrder, Ask
    <3>2. PICK state : /\ http' = [http EXCEPT ![c] = state]
                       /\ state = "creating" => http[c] = "supported"
                       /\ state # "supported"
      BY DEF RequestStatus, CheckCurrency, GiveUp, Disconnect, CreateOrder, Ask
    <3> QED BY <2>1, <2>2, <3>1, <3>2
  <2>9. CASE CrashAndRestart
    BY <2>9 DEF CrashAndRestart, CheckedStaysSupported
  <2>10. CASE ~HandlerStep /\ ~ClientStep /\ ~CrashAndRestart
    BY <1>2, <2>2, <2>10, OtherLedger
  <2> QED BY <2>4, <2>5, <2>6, <2>7, <2>8, <2>9, <2>10 DEF HandlerStep
<1> QED BY <1>1, <1>2, TypeCorrect, PTL DEF Spec

-----------------------------------------------------------------------------
(* Where a report of a payment comes from: the blocks the tracker looks at *)
(* are finalized ones, it checks only accounts it was given, and an order  *)
(* is newly reported only when a block showed its account with the amount  *)
(* the tracker was given.                                                  *)

ReportQueued(o) ==
    \E i \in DOMAIN stateQ : stateQ[i].type = "paid" /\ stateQ[i].order = o

Reported(o) ==
    \/ IsPaid(table, o) \/ IsPaid(disk, o) \/ ReportQueued(o)
    \/ trk.sends > 0 /\ trk.order = o

Held(o, amount) == \E n \in DOMAIN blocks : blocks[n][o] >= amount

Seen(o) == watched[o] # Blank /\ Held(o, watched[o].amount)

ScansKnownBlocks ==
    /\ trk.pc \in {"announce", "recheck", "scan"} => trk.block \in DOMAIN blocks
    /\ \A i \in DOMAIN chainQ :
          chainQ[i].type = "block" => chainQ[i].block \in DOMAIN blocks

ChecksWatched == trk.todo \subseteq WatchedOrders

ScanInv == ScansKnownBlocks /\ ChecksWatched

(* What a step does about reports, blocks and scans.                       *)
NewReports == \A o \in Orders : Reported(o)' => Reported(o) \/ Seen(o)

BlocksKept == /\ DOMAIN blocks \subseteq DOMAIN blocks'
              /\ \A n \in DOMAIN blocks : blocks'[n] = blocks[n]

Advances == ScanInv' /\ NewReports /\ BlocksKept

(* The elements of a queue after a send and after a receive.               *)
LEMMA AppendElements ==
    ASSUME NEW S, NEW q \in Seq(S), NEW m \in S
    PROVE  \A i \in DOMAIN Append(q, m) :
              Append(q, m)[i] = m \/ \E j \in DOMAIN q : Append(q, m)[i] = q[j]
OBVIOUS

LEMMA TailElements ==
    ASSUME NEW S, NEW q \in Seq(S), q # <<>>
    PROVE  \A i \in DOMAIN Tail(q) : \E j \in DOMAIN q : Tail(q)[i] = q[j]
<1> SUFFICES ASSUME NEW i \in DOMAIN Tail(q)
             PROVE  \E j \in DOMAIN q : Tail(q)[i] = q[j]
  OBVIOUS
<1>1. i + 1 \in DOMAIN q /\ Tail(q)[i] = q[i + 1]
  OBVIOUS
<1> QED BY <1>1

(* Blocks stay finalized.                                                  *)
LEMMA BlocksGrow ==
    ASSUME TypeOK, blocks' = blocks \/ \E b \in [Orders -> Nat] :
                                          blocks' = Append(blocks, b)
    PROVE  BlocksKept
<1>1. blocks \in Seq([Orders -> Nat])
  BY DEF TypeOK, WorldTypes
<1>2. ASSUME NEW b \in [Orders -> Nat], blocks' = Append(blocks, b)
      PROVE  BlocksKept
  BY <1>1, <1>2 DEF BlocksKept
<1> QED BY <1>2 DEF BlocksKept

(* A step that leaves the tracker alone and reports nothing new.           *)
LEMMA NothingReported ==
    ASSUME TypeOK, ScanInv,
           blocks' = blocks \/ \E b \in [Orders -> Nat] :
                                  blocks' = Append(blocks, b),
           UNCHANGED <<trk, watched>>,
           \A i \in DOMAIN chainQ' :
              \/ chainQ'[i].type # "block"
              \/ \E j \in DOMAIN chainQ : chainQ'[i] = chainQ[j],
           \A o \in Orders : Reported(o)' => Reported(o)
    PROVE  Advances
<1>1. BlocksKept
  BY BlocksGrow
<1>2. ScansKnownBlocks'
  BY <1>1 DEF ScanInv, ScansKnownBlocks, BlocksKept
<1>3. ChecksWatched'
  BY DEF ScanInv, ChecksWatched, WatchedOrders
<1> QED BY <1>1, <1>2, <1>3 DEF Advances, ScanInv, NewReports

LEMMA HandlerReports ==
    ASSUME TypeOK, ScanInv, HandlerStep
    PROVE  Advances
<1> USE DEF TypeOK, LedgerTypes, HandlerTypes
<1>1. UNCHANGED <<disk, blocks, trk, watched, chainQ>>
  BY DEF HandlerStep, ReadOrderList, ConnectChain, IsCurrencySupported,
         GetStatus, NewInvoice, OldInvoice, InvoiceAdded, RecordPaid,
         RefusePaid, ReapAnswered, BeginShutdown, FinishShutdown,
         ledgerVars, worldVars, trackerVars
<1>2. \A o \in Orders : ReportQueued(o)' => ReportQueued(o)
  <2>1. CASE stateQ' = stateQ \/ stateQ' = <<>>
    BY <2>1 DEF ReportQueued
  <2>2. CASE stateQ # <<>> /\ stateQ' = Tail(stateQ)
    BY <2>2, TailElements DEF ReportQueued
  <2>3. ASSUME NEW c, NEW next, NEW rest, Reply(c, next, rest)
        PROVE  stateQ' = rest \/ stateQ' = <<>>
    BY <2>3 DEF Reply, HandlerEnds
  <2> QED BY <2>1, <2>2, <2>3
          DEF HandlerStep, Takes, ReadOrderList, ConnectChain,
              IsCurrencySupported, GetStatus, NewInvoice, OldInvoice,
              InvoiceAdded, RecordPaid, RefusePaid, ReapAnswered,
              BeginShutdown, FinishShutdown, HandlerEnds
<1>3. \A o \in Orders : IsPaid(table', o) => IsPaid(table, o) \/ ReportQueued(o)
  <2>1. CASE RecordPaid
    <3> DEFINE p == Head(stateQ).order
    <3>1. p \in Orders /\ ReportQueued(p)
      <4>1. stateQ # <<>> /\ Head(stateQ).type = "paid" /\ p \in Orders
        BY <2>1, TakenPaid DEF RecordPaid, Takes
      <4>2. 1 \in DOMAIN stateQ /\ Head(stateQ) = stateQ[1]
        BY <4>1
      <4> QED BY <4>1, <4>2 DEF ReportQueued
    <3>2. \A o \in Orders \ {p} : table'[o] = table[o]
      BY <2>1, <3>1, mark_paidForward DEF RecordPaid
    <3> QED BY <3>1, <3>2 DEF IsPaid, IsKnown
  <2>2. CASE NewInvoice \/ OldInvoice
    <3> DEFINE m == Head(stateQ)
    <3>1. m.order \in Orders /\ m.amount \in Terms
      BY <2>2, TakenCreate DEF NewInvoice, OldInvoice
    <3>2. clock + Lifetime \in Nat /\ public(m.order) \in Accounts
      BY <3>1, NumbersAreNaturals, AccountPerOrder DEF WorldTypes, public
    <3>3. \A o \in Orders : IsPaid(Created(m).table, o) => IsPaid(table, o)
      BY <3>1, <3>2, create_orderForward DEF Created
    <3>4. table' = Created(m).table
      BY <2>2 DEF NewInvoice, OldInvoice
    <3> QED BY <3>3, <3>4
  <2>3. CASE table' = table
    BY <2>3
  <2> QED BY <2>1, <2>2, <2>3
          DEF HandlerStep, ReadOrderList, ConnectChain, IsCurrencySupported,
              GetStatus, InvoiceAdded, RefusePaid, ReapAnswered,
              BeginShutdown, FinishShutdown, ledgerVars
<1>4. \A o \in Orders : Reported(o)' => Reported(o)
  BY <1>1, <1>2, <1>3 DEF Reported
<1> QED BY <1>1, <1>4, NothingReported

LEMMA ClientReports ==
    ASSUME TypeOK, ScanInv, ClientStep
    PROVE  Advances
<1> USE DEF ledgerVars, worldVars, trackerVars
<1>1. UNCHANGED <<table, disk, blocks, trk, watched, chainQ>>
  BY DEF ClientStep, RequestStatus, CheckCurrency, CreateOrder, Ask, GiveUp,
         Disconnect
<1>2. \/ stateQ' = stateQ
      \/ \E m \in StateRequest : stateQ' = Append(stateQ, m) /\ m.type # "paid"
  <2>1. ASSUME NEW c \in Clients, RequestStatus(c) PROVE
           \E m \in StateRequest : stateQ' = Append(stateQ, m) /\ m.type # "paid"
    <3>1. [type |-> "read", client |-> c] \in StateRequest
      BY DEF StateRequest
    <3> QED BY <2>1, <3>1 DEF RequestStatus, Ask
  <2>2. ASSUME NEW c \in Clients, CheckCurrency(c) PROVE
           \E m \in StateRequest : stateQ' = Append(stateQ, m) /\ m.type # "paid"
    <3>1. [type |-> "supported", client |-> c] \in StateRequest
      BY DEF StateRequest
    <3> QED BY <2>2, <3>1 DEF CheckCurrency, Ask
  <2>3. ASSUME NEW c \in Clients, NEW o \in Orders, NEW amount \in Terms,
               CreateOrder(c, o, amount) PROVE
           \E m \in StateRequest : stateQ' = Append(stateQ, m) /\ m.type # "paid"
    <3>1. [type |-> "create", client |-> c, order |-> o, amount |-> amount]
             \in StateRequest
      BY DEF StateRequest
    <3> QED BY <2>3, <3>1 DEF CreateOrder, Ask
  <2> QED BY <2>1, <2>2, <2>3 DEF ClientStep, GiveUp, Disconnect
<1>3. \A o \in Orders : ReportQueued(o)' => ReportQueued(o)
  BY <1>2, AppendElements DEF ReportQueued, TypeOK, HandlerTypes
<1>4. \A o \in Orders : Reported(o)' => Reported(o)
  BY <1>1, <1>3 DEF Reported
<1> QED BY <1>1, <1>4, NothingReported

LEMMA ManagerReports ==
    ASSUME TypeOK, ScanInv, ManagerStep \/ TrackerDiscarded \/ RestoreStep
    PROVE  Advances
<1> USE DEF ledgerVars, worldVars, handlerVars, trackerVars
<1>1. UNCHANGED <<table, disk, blocks, trk, watched, stateQ>>
  BY DEF ManagerStep, Forward, StopTracker, TrackerAnswered, TrackerDiscarded,
         NoTrackerToStop, ManagerEnds, ManagerChannelClosed, RestoreStep,
         RestoreOrder, OrderRestored, AllRestored
<1>2. \A o \in Orders : Reported(o)' => Reported(o)
  BY <1>1 DEF Reported, ReportQueued
<1>3. ASSUME NEW m \in TrackerRequest, m.type # "block",
             chainQ' = Append(chainQ, m)
      PROVE  Advances
  <2>1. \A i \in DOMAIN chainQ' :
           \/ chainQ'[i].type # "block"
           \/ \E j \in DOMAIN chainQ : chainQ'[i] = chainQ[j]
    BY <1>3, AppendElements DEF TypeOK, TrackerTypes
  <2> QED BY <1>1, <1>2, <2>1, NothingReported
<1>4. CASE Forward /\ chainQ' # chainQ
  <2>1. Head(cmQ) \in TrackerRequest /\ Head(cmQ).type # "block"
    BY <1>4, ManagerRequestParts DEF Forward, AccountRequest
  <2> QED BY <1>3, <1>4, <2>1 DEF Forward
<1>5. CASE StopTracker
  <2>1. [type |-> "shutdown", from |-> "manager"] \in TrackerRequest
    BY DEF TrackerRequest
  <2> QED BY <1>3, <1>5, <2>1 DEF StopTracker
<1>6. CASE chainQ' = chainQ
  BY <1>1, <1>2, <1>6, NothingReported
<1> QED BY <1>4, <1>5, <1>6
        DEF ManagerStep, TrackerAnswered, TrackerDiscarded, NoTrackerToStop,
            ManagerEnds, ManagerChannelClosed, RestoreStep, RestoreOrder,
            OrderRestored, AllRestored

(* The tracker: it starts anew without a report to send.                   *)
LEMMA RestingReports ==
    ASSUME TypeOK, ScanInv, UNCHANGED <<table, disk, blocks, stateQ>>,
           trk'.sends = 0, trk'.todo \subseteq WatchedOrders',
           trk'.pc \in {"announce", "recheck", "scan"} =>
              trk'.block \in DOMAIN blocks,
           \A i \in DOMAIN chainQ' :
              \E j \in DOMAIN chainQ : chainQ'[i] = chainQ[j]
    PROVE  Advances
<1>1. NewReports /\ BlocksKept
  BY DEF NewReports, Reported, ReportQueued, BlocksKept
<1>2. ScansKnownBlocks' /\ ChecksWatched'
  BY DEF ScanInv, ScansKnownBlocks, ChecksWatched
<1> QED BY <1>1, <1>2 DEF Advances, ScanInv

(* An account that is checked and found to hold the amount is seen.        *)
LEMMA CheckedIsSeen ==
    ASSUME TypeOK, ScanInv, NEW o \in trk.todo,
           trk.pc \in {"recheck", "scan"}, check(o)
    PROVE  Seen(o)
<1>1. o \in Orders /\ watched[o] # Blank
  BY DEF ScanInv, ChecksWatched, WatchedOrders
<1>2. trk.block \in DOMAIN blocks
  BY DEF ScanInv, ScansKnownBlocks
<1> QED BY <1>1, <1>2 DEF check, balance, Seen, Held

LEMMA CheckedReports ==
    ASSUME TypeOK, ScanInv, NEW o \in trk.todo, NEW sends \in 0..2,
           NEW drops, trk.pc \in {"recheck", "scan"},
           sends > 0 => check(o), Checked(o, sends, drops),
           UNCHANGED <<table, disk, blocks, stateQ, chainQ, watched>>
    PROVE  Advances
<1>1. /\ trk'.pc = trk.pc /\ trk'.block = trk.block
      /\ trk'.todo = trk.todo \ {o} /\ trk'.sends = sends
      /\ sends > 0 => trk'.order = o
  BY DEF Checked, TypeOK, TrackerTypes, Tracker
<1>2. sends > 0 => Seen(o)
  BY CheckedIsSeen
<1>3. NewReports /\ BlocksKept
  BY <1>1, <1>2 DEF NewReports, Reported, ReportQueued, BlocksKept
<1>4. ScansKnownBlocks' /\ ChecksWatched'
  BY <1>1 DEF ScanInv, ScansKnownBlocks, ChecksWatched, WatchedOrders
<1> QED BY <1>3, <1>4 DEF Advances, ScanInv

LEMMA TrackerReports ==
    ASSUME TypeOK, ScanInv, TrackerStep \/ TrackerFails
    PROVE  Advances
<1> USE DEF ledgerVars, worldVars, handlerVars
<1>0. \A q : q = <<>> => \A i \in DOMAIN q : FALSE
  OBVIOUS
<1>1. CASE Connect
  <2>1. /\ UNCHANGED <<table, disk, blocks, stateQ, chainQ, watched>>
        /\ trk' = [Resting("announce") EXCEPT !.block = Height]
    BY <1>1 DEF Connect
  <2>2. /\ trk'.sends = 0 /\ trk'.todo = {} /\ trk'.block = Height
    BY <2>1 DEF Resting
  <2>3. Height \in DOMAIN blocks
    BY DEF Height, TypeOK, WorldTypes
  <2> QED BY <2>1, <2>2, <2>3, RestingReports
<1>2. CASE CancelledAtRotation \/ TrackerFails \/ ShutDownTracker
  <2>1. /\ UNCHANGED <<table, disk, blocks, stateQ>> /\ chainQ' = <<>>
        /\ trk' = Resting("down") \/ trk' = Resting("failed")
    BY <1>2 DEF CancelledAtRotation, TrackerFails, ShutDownTracker, TrackerEnds
  <2>2. trk'.sends = 0 /\ trk'.todo = {} /\ trk'.pc \in {"down", "failed"}
    BY <2>1 DEF Resting
  <2> QED BY <2>1, <2>2, RestingReports
<1>3. CASE LoseBlock \/ Watchdog
  <2>1. /\ UNCHANGED <<table, disk, blocks, stateQ, watched>>
        /\ trk' = Resting("rotate")
        /\ chainQ' = chainQ \/ (chainQ # <<>> /\ chainQ' = Tail(chainQ))
    BY <1>3 DEF LoseBlock, Watchdog, Rotates, TakesNext
  <2>2. trk'.sends = 0 /\ trk'.todo = {} /\ trk'.pc = "rotate"
    BY <2>1 DEF Resting
  <2>3. \A i \in DOMAIN chainQ' :
           \E j \in DOMAIN chainQ : chainQ'[i] = chainQ[j]
    BY <2>1, TailElements DEF TypeOK, TrackerTypes
  <2> QED BY <2>1, <2>2, <2>3, RestingReports
<1>4. CASE LoopDone
  <2>1. /\ UNCHANGED <<table, disk, blocks, stateQ, chainQ>>
        /\ trk' = Resting("serve")
    BY <1>4 DEF LoopDone
  <2>2. trk'.sends = 0 /\ trk'.todo = {} /\ trk'.pc = "serve"
    BY <2>1 DEF Resting
  <2> QED BY <2>1, <2>2, RestingReports
<1>5. CASE ScanBlock
  <2>1. /\ UNCHANGED <<table, disk, blocks, stateQ, watched>>
        /\ chainQ # <<>> /\ chainQ' = Tail(chainQ) /\ Head(chainQ).type = "block"
        /\ trk' = [Resting("scan") EXCEPT !.block = Head(chainQ).block,
                                          !.now = clock, !.todo = WatchedOrders]
    BY <1>5 DEF ScanBlock, TakesNext
  <2>2. /\ trk'.sends = 0 /\ trk'.todo = WatchedOrders
        /\ trk'.block = Head(chainQ).block
    BY <2>1 DEF Resting
  <2>3. Head(chainQ).block \in DOMAIN blocks
    <3>1. 1 \in DOMAIN chainQ /\ Head(chainQ) = chainQ[1]
      BY <2>1 DEF TypeOK, TrackerTypes
    <3> QED BY <2>1, <3>1 DEF ScanInv, ScansKnownBlocks
  <2>4. \A i \in DOMAIN chainQ' :
           \E j \in DOMAIN chainQ : chainQ'[i] = chainQ[j]
    BY <2>1, TailElements DEF TypeOK, TrackerTypes
  <2>5. WatchedOrders' = WatchedOrders
    BY <2>1 DEF WatchedOrders
  <2> QED BY <2>1, <2>2, <2>3, <2>4, <2>5, RestingReports
<1>6. CASE StartWatching \/ StartPayout
  <2>1. /\ UNCHANGED <<table, disk, blocks, stateQ, trk>>
        /\ chainQ # <<>> /\ chainQ' = Tail(chainQ) /\ trk.pc = "serve"
    BY <1>6 DEF StartWatching, StartPayout, TakesNext
  <2>2. \A i \in DOMAIN chainQ' :
           \E j \in DOMAIN chainQ : chainQ'[i] = chainQ[j]
    BY <2>1, TailElements DEF TypeOK, TrackerTypes
  <2>3. NewReports /\ BlocksKept
    BY <2>1 DEF NewReports, Reported, ReportQueued, BlocksKept
  <2>4. ScansKnownBlocks'
    BY <2>1, <2>2 DEF ScanInv, ScansKnownBlocks
  <2>5. WatchedOrders \subseteq WatchedOrders'
    <3>1. CASE StartWatching
      <4> DEFINE m == Head(chainQ)
      <4>1. /\ m.order \in Orders
            /\ [amount |-> m.amount, death |-> m.death] \in Invoice
        BY <1>6, <2>1, <3>1, TrackerRequestParts
           DEF StartWatching, TakesNext, Invoice
      <4>2. [amount |-> m.amount, death |-> m.death] # Blank
        BY <4>1, BlankIsNoInvoice
      <4>3. watched' = [watched EXCEPT ![m.order] =
                          [amount |-> m.amount, death |-> m.death]]
        BY <3>1 DEF StartWatching
      <4> QED BY <4>1, <4>2, <4>3 DEF WatchedOrders, TypeOK, TrackerTypes
    <3>2. CASE StartPayout
      BY <3>2 DEF StartPayout, WatchedOrders
    <3> QED BY <1>6, <3>1, <3>2
  <2>6. ChecksWatched'
    BY <2>1, <2>5 DEF ScanInv, ChecksWatched
  <2> QED BY <2>3, <2>4, <2>6 DEF Advances, ScanInv
<1>7. ASSUME NEW o \in Orders, RecheckAccount(o) PROVE Advances
  <2> PICK answered \in BOOLEAN :
         LET paid == answered /\ check(o)
         IN  Checked(o, IF paid THEN 1 ELSE 0, paid)
    BY <1>7 DEF RecheckAccount
  <2> DEFINE paid == answered /\ check(o)
             sends == IF paid THEN 1 ELSE 0
  <2>1. sends \in 0..2 /\ (sends > 0 => check(o))
    OBVIOUS
  <2>2. /\ Checked(o, sends, paid) /\ o \in trk.todo /\ trk.pc = "recheck"
        /\ UNCHANGED <<table, disk, blocks, stateQ, chainQ, watched>>
    BY <1>7 DEF RecheckAccount
  <2> HIDE DEF sends, paid
  <2> QED BY <2>1, <2>2, CheckedReports
<1>8. ASSUME NEW o \in Orders, ScanAccount(o) PROVE Advances
  <2> PICK first \in BOOLEAN, second \in BOOLEAN :
         LET byEvent == Received(o, trk.block) /\ first /\ check(o)
             byDeath == watched[o].death >= trk.now /\ second
         IN  Checked(o, Count(byEvent) + Count(byDeath /\ check(o)),
                     byEvent \/ byDeath)
    BY <1>8 DEF ScanAccount
  <2> DEFINE byEvent == Received(o, trk.block) /\ first /\ check(o)
             byDeath == watched[o].death >= trk.now /\ second
             sends == Count(byEvent) + Count(byDeath /\ check(o))
             drops == byEvent \/ byDeath
  <2>1. sends \in 0..2 /\ (sends > 0 => check(o))
    BY DEF Count
  <2>2. /\ Checked(o, sends, drops) /\ o \in trk.todo /\ trk.pc = "scan"
        /\ UNCHANGED <<table, disk, blocks, stateQ, chainQ, watched>>
    BY <1>8 DEF ScanAccount
  <2> HIDE DEF sends, drops
  <2> QED BY <2>1, <2>2, CheckedReports
<1>9. CASE Announce
  <2>1. /\ UNCHANGED <<table, disk, blocks, chainQ, watched>>
        /\ SendToHandler([type |-> "connect"])
        /\ trk.pc = "announce"
        /\ trk' = [trk EXCEPT !.pc = "recheck", !.todo = WatchedOrders]
    BY <1>9 DEF Announce
  <2>2. /\ trk'.sends = trk.sends /\ trk'.order = trk.order
        /\ trk'.todo = WatchedOrders /\ trk'.block = trk.block
    BY <2>1 DEF TypeOK, TrackerTypes, Tracker
  <2>3. \A o \in Orders : ReportQueued(o)' => ReportQueued(o)
    <3>1. [type |-> "connect"] \in StateRequest
      BY DEF StateRequest
    <3>2. stateQ' = stateQ \/ stateQ' = Append(stateQ, [type |-> "connect"])
      BY <2>1 DEF SendToHandler
    <3> QED BY <3>1, <3>2, AppendElements
            DEF ReportQueued, TypeOK, HandlerTypes
  <2>4. NewReports /\ BlocksKept
    BY <2>1, <2>2, <2>3 DEF NewReports, Reported, BlocksKept
  <2>5. ScansKnownBlocks' /\ ChecksWatched'
    BY <2>1, <2>2 DEF ScanInv, ScansKnownBlocks, ChecksWatched, WatchedOrders
  <2> QED BY <2>4, <2>5 DEF Advances, ScanInv
<1>10. CASE order_paid
  <2> DEFINE m == [type |-> "paid", order |-> trk.order]
             left == trk.sends - 1
             next == IF trk.sends = 1 THEN Blank ELSE trk.order
  <2>1. /\ UNCHANGED <<table, disk, blocks, chainQ, watched>>
        /\ trk.sends > 0 /\ SendToHandler(m)
        /\ trk' = [trk EXCEPT !.sends = left, !.order = next]
    BY <1>10 DEF order_paid
  <2>2. trk.order \in Orders /\ trk.sends \in 0..2
    BY <2>1 DEF TypeOK, TrackerTypes, Tracker
  <2>3. m \in StateRequest /\ m.type = "paid" /\ m.order = trk.order
    BY <2>2 DEF StateRequest
  <2>4. left > 0 => next = trk.order
    BY <2>2
  <2> HIDE DEF m, left, next
  <2>5. /\ trk'.sends = left /\ trk'.order = next /\ trk'.pc = trk.pc
        /\ trk'.todo = trk.todo /\ trk'.block = trk.block
    BY <2>1 DEF TypeOK, TrackerTypes, Tracker
  <2>6. \A o \in Orders : ReportQueued(o)' => ReportQueued(o) \/ trk.order = o
    <3>1. stateQ' = stateQ \/ stateQ' = Append(stateQ, m)
      BY <2>1 DEF SendToHandler
    <3> QED BY <2>3, <3>1, AppendElements DEF ReportQueued, TypeOK, HandlerTypes
  <2>7. \A o \in Orders : Reported(o)' => Reported(o)
    BY <2>1, <2>4, <2>5, <2>6 DEF Reported
  <2>8. NewReports /\ BlocksKept
    BY <2>1, <2>7 DEF NewReports, BlocksKept
  <2>9. ScansKnownBlocks' /\ ChecksWatched'
    BY <2>1, <2>5 DEF ScanInv, ScansKnownBlocks, ChecksWatched, WatchedOrders
  <2> QED BY <2>8, <2>9 DEF Advances, ScanInv
<1> QED BY <1>1, <1>2, <1>3, <1>4, <1>5, <1>6, <1>7, <1>8, <1>9, <1>10
        DEF TrackerStep

LEMMA OutsideReports ==
    ASSUME TypeOK, ScanInv,
           \/ FeedBlock \/ FeedBreaks \/ PayoutStep \/ ChainStep \/ Tick
           \/ BackgroundFlush \/ FinalFlush \/ Interrupt \/ NoticeFailure
           \/ UNCHANGED vars
    PROVE  Advances
<1> USE DEF ledgerVars, worldVars, handlerVars, trackerVars
<1>1. UNCHANGED <<table, stateQ, trk, watched>> /\ (disk' = disk \/ disk' = table)
  BY DEF FeedBlock, FeedBreaks, PayoutStep, PayoutStarts, PayoutSubmits,
         PayoutGivesUp, ChainStep, EmptyBlock, Settle, Pay, Finalize, Tick,
         BackgroundFlush, FinalFlush, Interrupt, NoticeFailure, Cancel, vars
<1>2. \A o \in Orders : Reported(o)' => Reported(o)
  BY <1>1 DEF Reported, ReportQueued
<1>3. CASE ChainStep
  <2>0. chainQ' = chainQ
    BY <1>3 DEF ChainStep, EmptyBlock, Settle, Pay, Finalize
  <2>1. blocks[Height] \in [Orders -> Nat]
    <3>1. blocks \in Seq([Orders -> Nat]) /\ Height \in DOMAIN blocks
      BY DEF TypeOK, WorldTypes, Height
    <3> QED BY <3>1
  <2>2. \E b \in [Orders -> Nat] : blocks' = Append(blocks, b)
    <3>1. CASE EmptyBlock
      BY <2>1, <3>1 DEF EmptyBlock, Finalize
    <3>2. ASSUME NEW o \in Orders, Settle(o)
          PROVE  \E b \in [Orders -> Nat] : blocks' = Append(blocks, b)
      <4>1. [blocks[Height] EXCEPT ![o] = 0] \in [Orders -> Nat]
        BY <2>1
      <4> QED BY <3>2, <4>1 DEF Settle, Finalize
    <3>3. ASSUME NEW o \in Orders, NEW amount \in Payments, Pay(o, amount)
          PROVE  \E b \in [Orders -> Nat] : blocks' = Append(blocks, b)
      <4>1. [blocks[Height] EXCEPT ![o] = @ + amount] \in [Orders -> Nat]
        BY <2>1, BoundsAreNaturals
      <4> QED BY <3>3, <4>1 DEF Pay, Finalize
    <3> QED BY <1>3, <3>1, <3>2, <3>3 DEF ChainStep
  <2> QED BY <1>1, <1>2, <2>0, <2>2, NothingReported
<1>4. CASE FeedBlock
  <2> DEFINE m == [type |-> "block", block |-> feed]
  <2>1. chainQ' = Append(chainQ, m) /\ blocks' = blocks /\ feed \in DOMAIN blocks
    BY <1>4 DEF FeedBlock, Height, TypeOK, WorldTypes
  <2>2. m \in TrackerRequest /\ m.block \in DOMAIN blocks
    BY <2>1 DEF TrackerRequest, TypeOK, TrackerTypes
  <2> HIDE DEF m
  <2>3. ScansKnownBlocks'
    BY <1>1, <2>1, <2>2, AppendElements
       DEF ScanInv, ScansKnownBlocks, TypeOK, TrackerTypes
  <2>4. NewReports /\ BlocksKept /\ ChecksWatched'
    BY <1>1, <1>2, <2>1
       DEF ScanInv, NewReports, BlocksKept, ChecksWatched, WatchedOrders
  <2> QED BY <2>3, <2>4 DEF Advances, ScanInv
<1>5. CASE blocks' = blocks /\ chainQ' = chainQ
  BY <1>1, <1>2, <1>5, NothingReported
<1> QED BY <1>3, <1>4, <1>5
        DEF FeedBreaks, PayoutStep, PayoutStarts, PayoutSubmits,
            PayoutGivesUp, Tick, BackgroundFlush, FinalFlush, Interrupt,
            NoticeFailure, Cancel, vars

(* Whatever the daemon does, a crash and a restart included.               *)
LEMMA StepAdvances ==
    ASSUME TypeOK, ScanInv, [Next]_vars
    PROVE  Advances
<1>1. CASE CrashAndRestart
  <2>1. /\ table' = disk /\ UNCHANGED <<disk, blocks>> /\ stateQ' = <<>>
        /\ chainQ' = <<>> /\ trk' = Resting("rotate")
    BY <1>1 DEF CrashAndRestart, worldVars
  <2>2. trk'.sends = 0 /\ trk'.todo = {} /\ trk'.pc = "rotate"
    BY <2>1 DEF Resting
  <2>3. NewReports /\ BlocksKept
    BY <2>1, <2>2 DEF NewReports, Reported, ReportQueued, BlocksKept
  <2> QED BY <2>1, <2>2, <2>3
          DEF Advances, ScanInv, ScansKnownBlocks, ChecksWatched
<1> QED BY <1>1, HandlerReports, ClientReports, ManagerReports,
           TrackerReports, OutsideReports DEF Next

(* At the start nothing is paid, reported or scanned.                      *)
LEMMA NothingAtFirst ==
    ASSUME Init
    PROVE  ScanInv /\ \A o \in Orders : ~Reported(o)
<1>1. \A o \in Orders : ~IsPaid(disk, o)
  <2> PICK left \in SUBSET Saved, asked \in [Saved -> Terms] :
         disk = LeftOver(left, asked)
    BY DEF Init
  <2> QED BY DEF LeftOver, NewOrder, IsPaid, IsKnown
<1>2. table = disk /\ stateQ = <<>> /\ chainQ = <<>> /\ trk = Resting("rotate")
  BY DEF Init, Boots
<1>3. trk.sends = 0 /\ trk.todo = {} /\ trk.pc = "rotate"
  BY <1>2 DEF Resting
<1> QED BY <1>1, <1>2, <1>3
        DEF ScanInv, ScansKnownBlocks, ChecksWatched, Reported, ReportQueued

LEMMA ScanInvariant == Spec => []ScanInv
<1>1. Init => ScanInv
  BY NothingAtFirst
<1>2. ASSUME TypeOK, ScanInv, [Next]_vars PROVE ScanInv'
  BY <1>2, StepAdvances DEF Advances
<1> QED BY <1>1, <1>2, TypeCorrect, PTL DEF Spec

-----------------------------------------------------------------------------
(* An order is recorded as paid only when a finalized block showed its     *)
(* account with an amount an order asks for: neither a restart, a second   *)
(* report, a lost block nor a timeout makes the tracker report on          *)
(* anything but a balance it has seen (Invoice::check).                    *)
Backed(o) == \E amount \in Terms : Held(o, amount)

PaidWasSeen == \A o \in Orders : IsPaid(table, o) => Backed(o)

ReportsAreBacked == \A o \in Orders : Reported(o) => Backed(o)

THEOREM PaymentsWereSeen == Spec => []PaidWasSeen
<1>1. Init => ReportsAreBacked
  BY NothingAtFirst DEF ReportsAreBacked
<1>2. ASSUME TypeOK, ScanInv, ReportsAreBacked, [Next]_vars
      PROVE  ReportsAreBacked'
  <2>1. NewReports /\ BlocksKept
    BY <1>2, StepAdvances DEF Advances
  <2>2. \A o \in Orders : Seen(o) => Backed(o)
    BY <1>2 DEF Seen, Backed, TypeOK, TrackerTypes, Invoice
  <2>3. \A o \in Orders : Backed(o) => Backed(o)'
    BY <2>1 DEF Backed, Held, BlocksKept
  <2> QED BY <1>2, <2>1, <2>2, <2>3 DEF ReportsAreBacked, NewReports
<1>3. ReportsAreBacked => PaidWasSeen
  BY DEF ReportsAreBacked, Reported, PaidWasSeen
<1> QED BY <1>1, <1>2, <1>3, TypeCorrect, ScanInvariant, PTL DEF Spec

-----------------------------------------------------------------------------
(* What an order asks for is copied to the task that restores orders, into *)
(* WatchAccount requests, and into the tracker's watched accounts, and     *)
(* amendments never reach the copies.                                      *)

AskedIn(q, o, amount) ==
    \E i \in DOMAIN q : /\ q[i].type = "watch"
                        /\ q[i].order = o /\ q[i].amount = amount

Copied(o, amount) ==
    \/ restoring[o] # Blank /\ restoring[o].terms = amount
    \/ AskedIn(cmQ, o, amount) \/ AskedIn(chainQ, o, amount)
    \/ watched[o] # Blank /\ watched[o].amount = amount

(* A step copies only what the ledger says at that moment.                 *)
NewCopies ==
    \A o \in Orders, amount \in Terms :
        Copied(o, amount)' =>
            \/ Copied(o, amount)
            \/ IsKnown(table', o) /\ amount = table'[o].terms

LEMMA AskedInQueues ==
    ASSUME NEW S, NEW q \in Seq(S), NEW o, NEW amount
    PROVE  /\ q # <<>> =>
                 /\ AskedIn(Tail(q), o, amount) => AskedIn(q, o, amount)
                 /\ /\ Head(q).type = "watch"
                    /\ Head(q).order = o /\ Head(q).amount = amount
                    => AskedIn(q, o, amount)
           /\ \A m \in S :
                 AskedIn(Append(q, m), o, amount) =>
                    \/ AskedIn(q, o, amount)
                    \/ m.type = "watch" /\ m.order = o /\ m.amount = amount
           /\ ~AskedIn(<<>>, o, amount)
<1>1. ASSUME q # <<>>, AskedIn(Tail(q), o, amount) PROVE AskedIn(q, o, amount)
  BY <1>1, TailElements DEF AskedIn
<1>2. ASSUME q # <<>>, Head(q).type = "watch", Head(q).order = o,
             Head(q).amount = amount
      PROVE  AskedIn(q, o, amount)
  <2>1. 1 \in DOMAIN q /\ Head(q) = q[1]
    BY <1>2
  <2> QED BY <1>2, <2>1 DEF AskedIn
<1>3. ASSUME NEW m \in S, AskedIn(Append(q, m), o, amount)
      PROVE  \/ AskedIn(q, o, amount)
             \/ m.type = "watch" /\ m.order = o /\ m.amount = amount
  BY <1>3, AppendElements DEF AskedIn
<1>4. ~AskedIn(<<>>, o, amount)
  BY DEF AskedIn
<1> QED BY <1>1, <1>2, <1>3, <1>4

LEMMA HandlerCopies ==
    ASSUME TypeOK, HandlerStep
    PROVE  NewCopies
<1>1. UNCHANGED <<chainQ, watched>>
  BY DEF HandlerStep, ReadOrderList, ConnectChain, IsCurrencySupported,
         GetStatus, NewInvoice, OldInvoice, InvoiceAdded, RecordPaid,
         RefusePaid, ReapAnswered, BeginShutdown, FinishShutdown, trackerVars
<1>2. CASE ReadOrderList
  <2>1. /\ table' = table /\ cmQ' = cmQ
        /\ \A o \in Orders : restoring'[o] # Blank =>
              IsKnown(table, o) /\ restoring'[o] = table[o]
    BY <1>2 DEF ReadOrderList, ActiveOrders, IsPending, ledgerVars, managerVars
  <2> QED BY <1>1, <2>1 DEF NewCopies, Copied
<1>3. ASSUME NEW m \in ManagerRequest, cmQ' = Append(cmQ, m),
             restoring' = restoring,
             m.type = "watch" => /\ m.order \in Orders
                                 /\ IsKnown(table', m.order)
                                 /\ m.amount = table'[m.order].terms
      PROVE  NewCopies
  <2>1. ASSUME NEW o \in Orders, NEW amount \in Terms, AskedIn(cmQ', o, amount)
        PROVE  \/ AskedIn(cmQ, o, amount)
               \/ m.type = "watch" /\ m.order = o /\ m.amount = amount
    BY <1>3, <2>1, AskedInQueues DEF TypeOK, ManagerTypes
  <2> QED BY <1>1, <1>3, <2>1 DEF NewCopies, Copied
<1>4. CASE NewInvoice
  <2> DEFINE o == Head(stateQ).order
             m == WatchAccount("watch", o, table'[o], "handler")
  <2>1. /\ o \in Orders /\ table' \in Table /\ IsPending(table', o)
        /\ cmQ' = Append(cmQ, m) /\ restoring' = restoring
    BY <1>4, TakenCreate DEF NewInvoice, restoreVars
  <2>2. table'[o] \in OrderInfo /\ IsKnown(table', o)
    BY <2>1, StatusCases DEF IsPending
  <2>3. m \in ManagerRequest /\ m.order = o /\ m.amount = table'[o].terms
    BY <2>1, <2>2, WatchAccountType DEF WatchAccount
  <2> HIDE DEF m, o
  <2> QED BY <1>3, <2>1, <2>2, <2>3
<1>5. CASE RecordPaid
  <2> DEFINE o == Head(stateQ).order
             m == WatchAccount("reap", o, table'[o], "handler")
  <2>1. /\ o \in Orders /\ table' \in Table /\ IsPaid(table', o)
        /\ cmQ' = Append(cmQ, m) /\ restoring' = restoring
    BY <1>5, TakenPaid DEF RecordPaid, restoreVars
  <2>2. table'[o] \in OrderInfo
    BY <2>1, StatusCases DEF IsPaid
  <2>3. m \in ManagerRequest /\ m.type = "reap"
    BY <2>1, <2>2, WatchAccountType
  <2> HIDE DEF m, o
  <2> QED BY <1>3, <2>1, <2>3
<1>6. CASE BeginShutdown
  <2>1. [type |-> "shutdown", from |-> "handler"] \in ManagerRequest
    BY DEF ManagerRequest
  <2> QED BY <1>3, <1>6, <2>1 DEF BeginShutdown, restoreVars
<1>7. CASE UNCHANGED <<restoring, cmQ>>
  BY <1>1, <1>7 DEF NewCopies, Copied
<1> QED BY <1>2, <1>4, <1>5, <1>6, <1>7
        DEF HandlerStep, ConnectChain, IsCurrencySupported, GetStatus,
            OldInvoice, InvoiceAdded, RefusePaid, ReapAnswered,
            FinishShutdown, restoreVars, managerVars

LEMMA RestoreCopies ==
    ASSUME TypeOK, RestoreStep
    PROVE  NewCopies
<1>1. UNCHANGED <<chainQ, watched>>
  BY DEF RestoreStep, RestoreOrder, OrderRestored, AllRestored, trackerVars
<1>2. ASSUME NEW p \in Orders, RestoreOrder(p) PROVE NewCopies
  <2> DEFINE m == WatchAccount("watch", p, restoring[p], "restore")
  <2>1. /\ restoring[p] # Blank /\ restoring[p] \in OrderInfo
        /\ \A o \in Orders : restoring'[o] # Blank =>
              restoring'[o] = restoring[o]
        /\ cmQ' = cmQ \/ cmQ' = Append(cmQ, m)
    BY <1>2 DEF RestoreOrder, TypeOK, RestoreTypes, Table
  <2>2. m \in ManagerRequest /\ m.order = p /\ m.amount = restoring[p].terms
    BY <2>1, WatchAccountType DEF WatchAccount
  <2> HIDE DEF m
  <2>3. ASSUME NEW o \in Orders, NEW amount \in Terms, AskedIn(cmQ', o, amount)
        PROVE  AskedIn(cmQ, o, amount) \/ (m.order = o /\ m.amount = amount)
    <3>1. cmQ \in Seq(ManagerRequest)
      BY DEF TypeOK, ManagerTypes
    <3>2. CASE cmQ' = Append(cmQ, m)
      <4>1. AskedIn(Append(cmQ, m), o, amount)
        BY <2>3, <3>2
      <4> QED BY <2>2, <3>1, <4>1, AskedInQueues
    <3> QED BY <2>1, <2>3, <3>2
  <2> QED BY <1>1, <2>1, <2>2, <2>3 DEF NewCopies, Copied
<1>3. CASE OrderRestored \/ AllRestored
  BY <1>1, <1>3 DEF OrderRestored, AllRestored, managerVars, NewCopies, Copied
<1> QED BY <1>2, <1>3 DEF RestoreStep

LEMMA ManagerCopies ==
    ASSUME TypeOK, ManagerStep \/ TrackerDiscarded
    PROVE  NewCopies
<1> USE DEF TypeOK, ManagerTypes, TrackerTypes
<1>1. UNCHANGED <<restoring, watched>>
  BY DEF ManagerStep, Forward, StopTracker, TrackerAnswered, TrackerDiscarded,
         NoTrackerToStop, ManagerEnds, ManagerChannelClosed, restoreVars,
         trackerVars
<1>2. CASE Forward
  <2>1. /\ cmQ # <<>> /\ cmQ' = Tail(cmQ)
        /\ chainQ' = chainQ \/ chainQ' = Append(chainQ, Head(cmQ))
        /\ Head(cmQ) \in TrackerRequest
    BY <1>2, ManagerRequestParts DEF Forward, Serves
  <2>2. \A o, amount : AskedIn(cmQ', o, amount) => AskedIn(cmQ, o, amount)
    BY <2>1, AskedInQueues
  <2>3. \A o, amount : AskedIn(chainQ', o, amount) =>
           AskedIn(chainQ, o, amount) \/ AskedIn(cmQ, o, amount)
    <3> DEFINE m == Head(cmQ)
    <3>1. ASSUME NEW o, NEW amount, AskedIn(Append(chainQ, m), o, amount)
          PROVE  \/ AskedIn(chainQ, o, amount)
                 \/ m.type = "watch" /\ m.order = o /\ m.amount = amount
      BY <2>1, <3>1, AskedInQueues
    <3>2. \A o, amount :
             m.type = "watch" /\ m.order = o /\ m.amount = amount
             => AskedIn(cmQ, o, amount)
      BY <2>1, AskedInQueues
    <3> HIDE DEF m
    <3> QED BY <2>1, <3>1, <3>2 DEF m
  <2> QED BY <1>1, <2>2, <2>3 DEF NewCopies, Copied
<1>3. CASE StopTracker
  <2> DEFINE m == [type |-> "shutdown", from |-> "manager"]
  <2>1. /\ cmQ' = cmQ /\ chainQ' = Append(chainQ, m)
        /\ m \in TrackerRequest /\ m.type # "watch"
    BY <1>3 DEF StopTracker, TrackerRequest
  <2> HIDE DEF m
  <2>2. \A o, amount : AskedIn(chainQ', o, amount) => AskedIn(chainQ, o, amount)
    BY <2>1, AskedInQueues
  <2> QED BY <1>1, <2>1, <2>2 DEF NewCopies, Copied
<1>4. CASE chainQ' = chainQ /\ (cmQ' = cmQ \/ cmQ' = <<>>)
  <2>1. \A o, amount : AskedIn(cmQ', o, amount) => AskedIn(cmQ, o, amount)
    BY <1>4, AskedInQueues
  <2> QED BY <1>1, <1>4, <2>1 DEF NewCopies, Copied
<1> QED BY <1>2, <1>3, <1>4
        DEF ManagerStep, TrackerAnswered, TrackerDiscarded, NoTrackerToStop,
            ManagerEnds, ManagerChannelClosed, trackerVars

LEMMA TrackerCopies ==
    ASSUME TypeOK,
           \/ TrackerStep \/ TrackerFails \/ FeedBlock \/ FeedBreaks
    PROVE  NewCopies
<1> USE DEF restoreVars, managerVars
<1>0. chainQ \in Seq(TrackerRequest)
  BY DEF TypeOK, TrackerTypes
<1>1. UNCHANGED <<restoring, cmQ>>
  BY DEF TrackerStep, Connect, CancelledAtRotation, Announce, order_paid,
         LoopDone, RecheckAccount, ScanAccount, ScanBlock, LoseBlock,
         StartWatching, StartPayout, ShutDownTracker, Watchdog, TrackerFails,
         FeedBlock, FeedBreaks
<1>2. ASSUME \A o, amount : AskedIn(chainQ', o, amount) => AskedIn(chainQ, o, amount),
             \A o \in Orders : watched'[o] # Blank => watched'[o] = watched[o]
      PROVE  NewCopies
  BY <1>1, <1>2 DEF NewCopies, Copied
<1>3. CASE CancelledAtRotation \/ TrackerFails \/ ShutDownTracker
  <2>1. chainQ' = <<>> /\ \A o \in Orders : watched'[o] = Blank
    BY <1>3 DEF CancelledAtRotation, TrackerFails, ShutDownTracker, TrackerEnds
  <2> QED BY <1>0, <1>2, <2>1, AskedInQueues
<1>4. CASE \/ LoseBlock \/ ScanBlock \/ StartPayout
  <2>1. chainQ # <<>> /\ chainQ' = Tail(chainQ) /\ watched' = watched
    BY <1>4 DEF LoseBlock, ScanBlock, StartPayout, TakesNext
  <2> QED BY <1>0, <1>2, <2>1, AskedInQueues
<1>5. CASE StartWatching
  <2> DEFINE m == Head(chainQ)
             invoice == [amount |-> m.amount, death |-> m.death]
  <2>1. /\ chainQ # <<>> /\ chainQ' = Tail(chainQ) /\ m.type = "watch"
        /\ watched' = [watched EXCEPT ![m.order] = invoice]
        /\ invoice.amount = m.amount
    BY <1>5 DEF StartWatching, TakesNext
  <2>2. watched \in [Orders -> Invoice \cup {Blank}]
    BY DEF TypeOK, TrackerTypes
  <2>3. \A o, amount : AskedIn(chainQ', o, amount) => AskedIn(chainQ, o, amount)
    BY <1>0, <2>1, AskedInQueues
  <2>4. \A o, amount : m.order = o /\ m.amount = amount
                          => AskedIn(chainQ, o, amount)
    BY <1>0, <2>1, AskedInQueues
  <2> HIDE DEF m, invoice
  <2>5. \A o \in Orders : \/ watched'[o] = watched[o]
                          \/ m.order = o /\ watched'[o].amount = m.amount
    BY <2>1, <2>2
  <2> QED BY <1>1, <2>3, <2>4, <2>5 DEF NewCopies, Copied
<1>6. CASE LoopDone
  <2>1. chainQ' = chainQ
        /\ \A o \in Orders : watched'[o] # Blank => watched'[o] = watched[o]
    BY <1>6 DEF LoopDone
  <2> QED BY <1>2, <2>1
<1>7. CASE FeedBlock
  <2> DEFINE m == [type |-> "block", block |-> feed]
  <2>1. /\ chainQ' = Append(chainQ, m) /\ watched' = watched
        /\ m \in TrackerRequest /\ m.type # "watch"
    BY <1>7 DEF FeedBlock, TrackerRequest, TypeOK, TrackerTypes
  <2> HIDE DEF m
  <2> QED BY <1>0, <1>2, <2>1, AskedInQueues
<1>8. CASE UNCHANGED <<chainQ, watched>>
  BY <1>2, <1>8
<1> QED BY <1>3, <1>4, <1>5, <1>6, <1>7, <1>8
        DEF TrackerStep, Connect, Announce, order_paid, RecheckAccount,
            ScanAccount, Watchdog, FeedBreaks

LEMMA StepCopies ==
    ASSUME TypeOK, [Next]_vars, ~CrashAndRestart
    PROVE  NewCopies
<1>1. CASE \/ ClientStep \/ PayoutStep \/ ChainStep \/ Tick \/ BackgroundFlush
           \/ FinalFlush \/ Interrupt \/ NoticeFailure \/ UNCHANGED vars
  <2>1. UNCHANGED <<restoring, cmQ, chainQ, watched>>
    BY <1>1 DEF ClientStep, RequestStatus, CheckCurrency, CreateOrder, Ask,
                GiveUp, Disconnect, PayoutStep, PayoutStarts, PayoutSubmits,
                PayoutGivesUp, ChainStep, EmptyBlock, Settle, Pay, Finalize,
                Tick, BackgroundFlush, FinalFlush, Interrupt, NoticeFailure,
                Cancel, vars, restoreVars, managerVars, trackerVars
  <2> QED BY <2>1 DEF NewCopies, Copied
<1> QED BY <1>1, HandlerCopies, RestoreCopies, ManagerCopies, TrackerCopies
        DEF Next

-----------------------------------------------------------------------------
(* The inductive invariant of the runs in which no amount is raised: every *)
(* copy asks for at least what the ledger asks for, and whatever is        *)
(* reported was held.                                                      *)

CopiesAskEnough ==
    \A o \in Orders, amount \in Terms :
        Copied(o, amount) => IsKnown(table, o) /\ amount >= table[o].terms

ReportsAreFunded ==
    \A o \in Orders : Reported(o) => IsKnown(table, o) /\ Held(o, table[o].terms)

CalmInv == CopiesAskEnough /\ ReportsAreFunded

LEMMA HeldOnward ==
    ASSUME TypeOK, BlocksKept, NEW o \in Orders, NEW a \in Nat, NEW b \in Nat,
           b <= a, Held(o, a)
    PROVE  Held(o, b) /\ Held(o, b)'
<1> PICK n \in DOMAIN blocks : blocks[n][o] >= a
  BY DEF Held
<1>1. blocks[n][o] \in Nat
  BY DEF TypeOK, WorldTypes
<1>2. blocks[n][o] >= b
  BY <1>1
<1> QED BY <1>2 DEF Held, BlocksKept

(* An order that is known stays known and is not raised, unless the        *)
(* process crashes.                                                        *)
LEMMA AmountsFall ==
    ASSUME TypeOK, TypeOK', [Next /\ NoRaise]_vars, ~CrashAndRestart,
           NEW o \in Orders, IsKnown(table, o)
    PROVE  /\ IsKnown(table', o)
           /\ table[o].terms \in Nat /\ table'[o].terms \in Nat
           /\ table'[o].terms <= table[o].terms
<1>0. table \in Table /\ table' \in Table
  BY DEF TypeOK, LedgerTypes
<1>1. table[o] \in OrderInfo /\ table[o].terms \in Nat
  BY <1>0, StatusCases, AmountsArePositive DEF OrderInfo
<1>2. CASE table' = table
  BY <1>1, <1>2
<1>3. CASE table' # table
  <2>1. HandlerStep /\ NoRaise
    BY <1>3, OtherLedger DEF vars
  <2>2. MovesForward(table, table') /\ table'[o].terms <= table[o].terms
    BY <2>1, HandlerLedger DEF NoRaise
  <2>3. IsKnown(table', o)
    BY <2>2 DEF MovesForward, Keeps, IsKnown
  <2>4. table'[o].terms \in Nat
    BY <1>0, <2>3, StatusCases, AmountsArePositive DEF OrderInfo
  <2> QED BY <1>1, <2>2, <2>3, <2>4
<1> QED BY <1>2, <1>3

LEMMA CalmStep ==
    ASSUME TypeOK, TypeOK', ScanInv, CalmInv, [Next /\ NoRaise]_vars,
           ~CrashAndRestart
    PROVE  CalmInv'
<1>0. NewCopies /\ NewReports /\ BlocksKept
  BY StepCopies, StepAdvances DEF Advances
<1>1. Terms \subseteq Nat
  BY AmountsArePositive
<1>2. ASSUME NEW o \in Orders, NEW amount \in Terms, Copied(o, amount)'
      PROVE  IsKnown(table', o) /\ amount >= table'[o].terms
  <2>1. CASE Copied(o, amount)
    <3>1. IsKnown(table, o) /\ amount >= table[o].terms
      BY <2>1 DEF CalmInv, CopiesAskEnough
    <3> QED BY <1>1, <3>1, AmountsFall
  <2>2. CASE IsKnown(table', o) /\ amount = table'[o].terms
    BY <1>1, <2>2
  <2> QED BY <1>0, <1>2, <2>1, <2>2 DEF NewCopies
<1>3. ASSUME NEW o \in Orders, Reported(o)'
      PROVE  IsKnown(table', o) /\ Held(o, table[o].terms)'
  <2>1. IsKnown(table, o) /\ \E a \in Nat : a >= table[o].terms /\ Held(o, a)
    <3>1. CASE Reported(o)
      <4>1. IsKnown(table, o) /\ Held(o, table[o].terms)
        BY <3>1 DEF CalmInv, ReportsAreFunded
      <4>2. table[o].terms \in Nat
        BY <4>1, AmountsFall
      <4> QED BY <4>1, <4>2
    <3>2. CASE Seen(o)
      <4>1. watched[o].amount \in Terms /\ Copied(o, watched[o].amount)
        BY <3>2 DEF Seen, Copied, TypeOK, TrackerTypes, Invoice
      <4>2. IsKnown(table, o) /\ watched[o].amount >= table[o].terms
        BY <4>1 DEF CalmInv, CopiesAskEnough
      <4> QED BY <1>1, <3>2, <4>1, <4>2 DEF Seen
    <3> QED BY <1>0, <1>3, <3>1, <3>2 DEF NewReports
  <2> PICK a \in Nat : a >= table[o].terms /\ Held(o, a)
    BY <2>1
  <2>2. /\ IsKnown(table', o) /\ table'[o].terms \in Nat
        /\ table[o].terms \in Nat /\ table'[o].terms <= table[o].terms
    BY <2>1, AmountsFall
  <2>3. table'[o].terms <= a
    BY <2>2
  <2>4. ASSUME NEW b \in Nat, b <= a PROVE \E n \in DOMAIN blocks' : blocks'[n][o] >= b
    BY <1>0, <2>4, HeldOnward DEF Held
  <2> QED BY <2>2, <2>3, <2>4 DEF Held
<1> QED BY <1>2, <1>3 DEF CalmInv, CopiesAskEnough, ReportsAreFunded

(* After a crash there are no copies and no reports, and an order that is  *)
(* paid on disk asks for what it asked for in memory.                      *)
LEMMA CrashIsCalm ==
    ASSUME LedgerInv, CalmInv, CrashAndRestart
    PROVE  CalmInv'
<1>1. /\ table' = disk /\ UNCHANGED <<disk, blocks>> /\ stateQ' = <<>>
      /\ restoring' = EmptyTable /\ cmQ' = <<>> /\ chainQ' = <<>>
      /\ watched' = [o \in Orders |-> Blank] /\ trk' = Resting("rotate")
  BY DEF CrashAndRestart, worldVars
<1>2. \A o \in Orders, amount \in Terms : ~Copied(o, amount)'
  BY <1>1 DEF Copied, AskedIn, EmptyTable
<1>3. ASSUME NEW o \in Orders, Reported(o)'
      PROVE  IsKnown(table', o) /\ Held(o, table[o].terms)'
  <2>1. IsPaid(disk, o)
    BY <1>1, <1>3 DEF Reported, ReportQueued, Resting
  <2>2. disk[o] \in OrderInfo /\ Keeps(disk[o], table[o])
    BY <2>1 DEF LedgerInv, TypeOK, LedgerTypes, Table, MovesForward, IsPaid,
                IsKnown
  <2>3. table[o].terms = disk[o].terms
    BY <2>1, <2>2 DEF Keeps, IsPaid, IsKnown, OrderInfo
  <2>4. Held(o, table[o].terms)
    BY <2>1 DEF CalmInv, ReportsAreFunded, Reported
  <2> QED BY <1>1, <2>1, <2>3, <2>4 DEF Held, IsPaid
<1> QED BY <1>2, <1>3 DEF CalmInv, CopiesAskEnough, ReportsAreFunded

(* As long as nobody raises the amount of an order, an order is recorded   *)
(* as paid only if its account held what the order asks for, although the  *)
(* tracker works on a copy of an amount that may have been lowered since,  *)
(* and a crash may bring a larger amount back.  (When the amount is raised *)
(* it need not be: see the stale run.)                                     *)
THEOREM PaidWasFunded == CalmSpec => []PaidIsFunded
<1>1. CalmSpec => Spec
  <2>1. [Next /\ NoRaise]_vars => [Next]_vars
    OBVIOUS
  <2> QED BY <2>1, PTL DEF CalmSpec, Spec
<1>2. Init => CalmInv
  <2> SUFFICES ASSUME Init PROVE CalmInv
    OBVIOUS
  <2>1. /\ restoring = EmptyTable /\ cmQ = <<>> /\ chainQ = <<>>
        /\ watched = [o \in Orders |-> Blank]
    BY DEF Init, Boots
  <2>2. CopiesAskEnough
    BY <2>1 DEF CopiesAskEnough, Copied, AskedIn, EmptyTable
  <2> QED BY <2>2, NothingAtFirst DEF CalmInv, ReportsAreFunded
<1>3. LedgerInv /\ LedgerInv' /\ ScanInv /\ CalmInv /\ [Next /\ NoRaise]_vars
        => CalmInv'
  BY CalmStep, CrashIsCalm DEF LedgerInv
<1>4. CalmInv => PaidIsFunded
  BY DEF CalmInv, ReportsAreFunded, Reported, Held, PaidIsFunded
<1> QED BY <1>1, <1>2, <1>3, <1>4, LedgerInvariant, ScanInvariant, PTL
        DEF CalmSpec
=============================================================================
