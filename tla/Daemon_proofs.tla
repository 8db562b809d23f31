---------------------------- MODULE Daemon_proofs ----------------------------
(***************************************************************************)
(* Proofs about the daemon, for any number of orders, clients and queued   *)
(* messages: its type invariant, and that no order is paid out twice.      *)
(***************************************************************************)
EXTENDS Daemon, Ledger_proofs, SequenceTheorems, FiniteSetTheorems

(* Types of variables a step leaves alone.                                 *)
LEMMA KeptTypes ==
    ASSUME TypeOK
    PROVE  /\ UNCHANGED ledgerVars => LedgerTypes'
           /\ UNCHANGED worldVars => WorldTypes'
           /\ UNCHANGED handlerVars => HandlerTypes'
           /\ UNCHANGED restoreVars => RestoreTypes'
           /\ UNCHANGED managerVars => ManagerTypes'
           /\ UNCHANGED ack => AckType'
           /\ UNCHANGED trackerVars => TrackerTypes'
           /\ UNCHANGED tailVars => TailTypes'
<1>1. UNCHANGED ledgerVars => LedgerTypes'
  BY DEF TypeOK, LedgerTypes, ledgerVars
<1>2. UNCHANGED worldVars => WorldTypes'
  BY DEF TypeOK, WorldTypes, worldVars
<1>3. UNCHANGED handlerVars => HandlerTypes'
  BY DEF TypeOK, HandlerTypes, handlerVars
<1>4. UNCHANGED restoreVars => RestoreTypes'
  BY DEF TypeOK, RestoreTypes, restoreVars
<1>5. UNCHANGED managerVars => ManagerTypes'
  BY DEF TypeOK, ManagerTypes, managerVars
<1>6. UNCHANGED ack => AckType'
  BY DEF TypeOK, AckType
<1>7. UNCHANGED trackerVars => TrackerTypes'
  BY DEF TypeOK, TrackerTypes, trackerVars
<1>8. UNCHANGED tailVars => TailTypes'
  BY DEF TypeOK, TailTypes, tailVars
<1> QED BY <1>1, <1>2, <1>3, <1>4, <1>5, <1>6, <1>7, <1>8

-----------------------------------------------------------------------------
(* The State Handler keeps the types.                                      *)

LEMMA ReplyType ==
    ASSUME TypeOK, NEW c \in Clients, NEW next \in {"idle", "supported"},
           NEW rest \in Seq(StateRequest), Reply(c, next, rest)
    PROVE  /\ db' \in {"open", "closing", "closed"}
           /\ UNCHANGED supported => HandlerTypes'
<1> USE DEF TypeOK, HandlerTypes, LedgerTypes
<1>1. CASE /\ http' = [http EXCEPT ![c] = next]
           /\ sh' = Idle /\ stateQ' = rest /\ UNCHANGED db
  BY <1>1 DEF Idle, HandlerPlaces
<1>2. CASE HandlerEnds("failed")
  <2>1. http' \in [Clients -> Waiting \cup {"idle", "supported", "gone"}]
    BY <1>2 DEF HandlerEnds
  <2> QED BY <1>2, <2>1 DEF HandlerEnds, HandlerPlaces
<1> QED BY <1>1, <1>2 DEF Reply

LEMMA WatchAccountType ==
    ASSUME NEW type \in {"watch", "reap"}, NEW o \in Orders,
           NEW info \in OrderInfo, NEW from \in {"handler", "restore"}
    PROVE  /\ WatchAccount(type, o, info, from) \in ManagerRequest
           /\ WatchAccount(type, o, info, from).type = type
           /\ WatchAccount(type, o, info, from).order = o
BY DEF WatchAccount, AccountRequest, ManagerRequest, OrderInfo

LEMMA TakenRequest ==
    ASSUME TypeOK, NEW type, Takes(type)
    PROVE  /\ Head(stateQ) \in StateRequest /\ Head(stateQ).type = type
           /\ Tail(stateQ) \in Seq(StateRequest)
BY DEF TypeOK, HandlerTypes, Takes

LEMMA TakenClient ==
    ASSUME TypeOK, NEW type \in {"supported", "read", "create"}, Takes(type)
    PROVE  Head(stateQ).client \in Clients
BY TakenRequest DEF StateRequest

LEMMA TakenCreate ==
    ASSUME TypeOK, Takes("create")
    PROVE  LET m == Head(stateQ)
           IN  /\ m.order \in Orders /\ m.amount \in Terms
               /\ Created(m).table \in Table
               /\ MovesForward(table, Created(m).table)
               /\ Created(m).reply = "New" =>
                     /\ IsPending(Created(m).table, m.order)
                     /\ ~IsKnown(table, m.order)
<1> DEFINE m == Head(stateQ)
<1>1. m.order \in Orders /\ m.amount \in Terms
  BY TakenRequest DEF StateRequest
<1>2. clock + Lifetime \in Nat /\ public(m.order) \in Accounts
  BY <1>1, NumbersAreNaturals, AccountPerOrder DEF TypeOK, WorldTypes, public
<1> QED BY <1>1, <1>2, create_orderForward DEF Created, TypeOK, LedgerTypes

LEMMA TakenPaid ==
    ASSUME TypeOK, Takes("paid")
    PROVE  LET o == Head(stateQ).order
           IN  /\ o \in Orders
               /\ mark_paid(table, o).table \in Table
               /\ MovesForward(table, mark_paid(table, o).table)
               /\ mark_paid(table, o).reply = "Ok" =>
                    /\ IsPending(table, o)
                    /\ IsPaid(mark_paid(table, o).table, o)
<1>1. Head(stateQ).order \in Orders
  BY TakenRequest DEF StateRequest
<1> QED BY <1>1, mark_paidForward DEF TypeOK, LedgerTypes

LEMMA HandlerTypeOK ==
    ASSUME TypeOK, HandlerStep
    PROVE  TypeOK'
<1>1. CASE ReadOrderList
  <2>1. restoring' \in Table
    BY <1>1 DEF ReadOrderList, Table, TypeOK, LedgerTypes
  <2>2. RestoreTypes' /\ HandlerTypes'
    BY <1>1, <2>1 DEF ReadOrderList, TypeOK, RestoreTypes, HandlerTypes, Idle,
                      HandlerPlaces
  <2> QED BY <1>1, <2>2, KeptTypes DEF ReadOrderList, TypeOK
<1>2. CASE ConnectChain
  <2>1. HandlerTypes'
    BY <1>2, TakenRequest DEF ConnectChain, TypeOK, HandlerTypes
  <2> QED BY <1>2, <2>1, KeptTypes DEF ConnectChain, TypeOK
<1>3. CASE IsCurrencySupported \/ GetStatus
  <2>1. HandlerTypes' /\ db' \in {"open", "closing", "closed"}
    BY <1>3, TakenRequest, TakenClient, ReplyType
       DEF IsCurrencySupported, GetStatus
  <2>2. LedgerTypes'
    BY <1>3, <2>1 DEF IsCurrencySupported, GetStatus, TypeOK,
                      LedgerTypes
  <2> QED BY <1>3, <2>1, <2>2, KeptTypes
          DEF IsCurrencySupported, GetStatus, TypeOK
<1>4. CASE NewInvoice
  <2> DEFINE m == Head(stateQ)
  <2>1. /\ table' \in Table /\ m.order \in Orders /\ m.client \in Clients
        /\ table'[m.order] \in OrderInfo
    BY <1>4, TakenCreate, TakenClient
       DEF NewInvoice, IsPending, IsKnown, Table
  <2>2. WatchAccount("watch", m.order, table'[m.order], "handler")
           \in ManagerRequest
    BY <2>1, WatchAccountType
  <2>3. ManagerTypes'
    BY <1>4, <2>2 DEF NewInvoice, TypeOK, ManagerTypes
  <2>4. HandlerTypes'
    BY <1>4, <2>1, TakenRequest
       DEF NewInvoice, TypeOK, HandlerTypes, HandlerPlaces
  <2>5. LedgerTypes'
    BY <1>4, <2>1 DEF NewInvoice, TypeOK, LedgerTypes
  <2> QED BY <1>4, <2>3, <2>4, <2>5, KeptTypes DEF NewInvoice, TypeOK
<1>5. CASE OldInvoice
  <2>1. table' \in Table
    BY <1>5, TakenCreate DEF OldInvoice
  <2>2. HandlerTypes' /\ db' \in {"open", "closing", "closed"}
    BY <1>5, TakenRequest, TakenClient, ReplyType DEF OldInvoice
  <2>3. LedgerTypes'
    BY <1>5, <2>1, <2>2 DEF OldInvoice, TypeOK, LedgerTypes
  <2> QED BY <1>5, <2>2, <2>3, KeptTypes DEF OldInvoice, TypeOK
<1>6. CASE InvoiceAdded
  <2>1. sh.client \in Clients /\ stateQ \in Seq(StateRequest)
    BY <1>6 DEF InvoiceAdded, TypeOK, HandlerTypes
  <2>2. HandlerTypes' /\ db' \in {"open", "closing", "closed"}
    BY <1>6, <2>1, ReplyType DEF InvoiceAdded
  <2>3. LedgerTypes' /\ AckType'
    BY <1>6, <2>2 DEF InvoiceAdded, TypeOK, LedgerTypes, AckType
  <2> QED BY <1>6, <2>2, <2>3, KeptTypes DEF InvoiceAdded, TypeOK
<1>7. CASE RecordPaid
  <2> DEFINE o == Head(stateQ).order
  <2>1. /\ table' \in Table /\ o \in Orders /\ table'[o] \in OrderInfo
    BY <1>7, TakenPaid DEF RecordPaid, IsPaid, IsKnown, Table
  <2>2. WatchAccount("reap", o, table'[o], "handler") \in ManagerRequest
    BY <2>1, WatchAccountType
  <2>3. ManagerTypes'
    BY <1>7, <2>2 DEF RecordPaid, TypeOK, ManagerTypes
  <2>4. HandlerTypes'
    BY <1>7, TakenRequest DEF RecordPaid, TypeOK, HandlerTypes, HandlerPlaces
  <2>5. LedgerTypes'
    BY <1>7, <2>1 DEF RecordPaid, TypeOK, LedgerTypes
  <2> QED BY <1>7, <2>3, <2>4, <2>5, KeptTypes DEF RecordPaid, TypeOK
<1>8. CASE RefusePaid
  <2>1. HandlerTypes'
    BY <1>8, TakenRequest DEF RefusePaid, TypeOK, HandlerTypes
  <2> QED BY <1>8, <2>1, KeptTypes DEF RefusePaid, TypeOK
<1>9. CASE ReapAnswered
  <2>1. HandlerTypes' /\ AckType'
    BY <1>9 DEF ReapAnswered, TypeOK, HandlerTypes, AckType, Idle, HandlerPlaces
  <2> QED BY <1>9, <2>1, KeptTypes DEF ReapAnswered, TypeOK
<1>10. CASE BeginShutdown
  <2>1. [type |-> "shutdown", from |-> "handler"] \in ManagerRequest
    BY DEF ManagerRequest
  <2>2. ManagerTypes'
    BY <1>10, <2>1 DEF BeginShutdown, TypeOK, ManagerTypes
  <2>3. HandlerTypes'
    BY <1>10 DEF BeginShutdown, TypeOK, HandlerTypes, HandlerPlaces
  <2> QED BY <1>10, <2>2, <2>3, KeptTypes DEF BeginShutdown, TypeOK
<1>11. CASE FinishShutdown
  <2>1. http' \in [Clients -> Waiting \cup {"idle", "supported", "gone"}]
    BY <1>11 DEF FinishShutdown, HandlerEnds, TypeOK, HandlerTypes
  <2>2. HandlerTypes'
    BY <1>11, <2>1 DEF FinishShutdown, HandlerEnds, TypeOK, HandlerTypes,
                       HandlerPlaces
  <2>3. LedgerTypes' /\ AckType' /\ TailTypes'
    BY <1>11 DEF FinishShutdown, HandlerEnds, TypeOK, LedgerTypes, AckType,
                 TailTypes
  <2> QED BY <1>11, <2>2, <2>3, KeptTypes DEF FinishShutdown, TypeOK
<1> QED BY <1>1, <1>2, <1>3, <1>4, <1>5, <1>6, <1>7, <1>8, <1>9, <1>10, <1>11
        DEF HandlerStep

-----------------------------------------------------------------------------
(* The task that restores orders, and the HTTP handlers.                   *)

LEMMA RestoreTypeOK ==
    ASSUME TypeOK, RestoreStep
    PROVE  TypeOK'
<1>1. ASSUME NEW o \in Orders, RestoreOrder(o) PROVE TypeOK'
  <2>1. restoring[o] \in OrderInfo
    BY <1>1 DEF RestoreOrder, TypeOK, RestoreTypes, Table
  <2>2. WatchAccount("watch", o, restoring[o], "restore") \in ManagerRequest
    BY <2>1, WatchAccountType
  <2>3. ManagerTypes'
    BY <1>1, <2>2 DEF RestoreOrder, TypeOK, ManagerTypes
  <2>4. RestoreTypes'
    BY <1>1 DEF RestoreOrder, TypeOK, RestoreTypes, Table
  <2> QED BY <1>1, <2>3, <2>4, KeptTypes DEF RestoreOrder, TypeOK
<1>2. CASE OrderRestored
  <2>1. RestoreTypes' /\ AckType'
    BY <1>2 DEF OrderRestored, TypeOK, RestoreTypes, AckType
  <2> QED BY <1>2, <2>1, KeptTypes DEF OrderRestored, TypeOK
<1>3. CASE AllRestored
  <2>1. RestoreTypes'
    BY <1>3 DEF AllRestored, TypeOK, RestoreTypes
  <2> QED BY <1>3, <2>1, KeptTypes DEF AllRestored, TypeOK
<1> QED BY <1>1, <1>2, <1>3 DEF RestoreStep

LEMMA AskType ==
    ASSUME TypeOK, NEW c \in Clients, NEW m \in StateRequest,
           NEW state \in Waiting, Ask(c, m, state)
    PROVE  TypeOK'
<1>1. HandlerTypes'
  BY DEF Ask, TypeOK, HandlerTypes
<1> QED BY <1>1, KeptTypes DEF Ask, TypeOK

LEMMA ClientTypeOK ==
    ASSUME TypeOK, ClientStep
    PROVE  TypeOK'
<1>1. ASSUME NEW c \in Clients, RequestStatus(c) \/ CheckCurrency(c)
      PROVE  TypeOK'
  <2>1. /\ [type |-> "read", client |-> c] \in StateRequest
        /\ [type |-> "supported", client |-> c] \in StateRequest
    BY DEF StateRequest
  <2> QED BY <1>1, <2>1, AskType DEF RequestStatus, CheckCurrency, Waiting
<1>2. ASSUME NEW c \in Clients, NEW o \in Orders, NEW amount \in Terms,
             CreateOrder(c, o, amount)
      PROVE  TypeOK'
  <2>1. [type |-> "create", client |-> c, order |-> o, amount |-> amount]
           \in StateRequest
    BY DEF StateRequest
  <2> QED BY <1>2, <2>1, AskType DEF CreateOrder, Waiting
<1>3. ASSUME NEW c \in Clients, GiveUp(c) \/ Disconnect(c) PROVE TypeOK'
  <2>1. HandlerTypes'
    BY <1>3 DEF GiveUp, Disconnect, TypeOK, HandlerTypes
  <2> QED BY <1>3, <2>1, KeptTypes DEF GiveUp, Disconnect, TypeOK
<1> QED BY <1>1, <1>2, <1>3 DEF ClientStep

-----------------------------------------------------------------------------
(* The chain manager.                                                      *)

LEMMA AckDroppedType ==
    ASSUME AckType, NEW q
    PROVE  AckDropped(ack, q) \in [Waiters -> {"none", "ok", "dropped"}]
BY DEF AckType, AckDropped

LEMMA ManagerRequestParts ==
    ASSUME TypeOK, Serves
    PROVE  /\ Head(cmQ) \in ManagerRequest /\ Tail(cmQ) \in Seq(ManagerRequest)
           /\ Head(cmQ).from \in {"handler", "restore"}
           /\ Head(cmQ).type # "shutdown" =>
                 Head(cmQ) \in TrackerRequest /\ Head(cmQ) \in AccountRequest
<1>1. Head(cmQ) \in ManagerRequest /\ Tail(cmQ) \in Seq(ManagerRequest)
  BY DEF TypeOK, ManagerTypes, Serves
<1> QED BY <1>1 DEF ManagerRequest, AccountRequest, TrackerRequest

LEMMA ManagerEndsType ==
    ASSUME TypeOK, ManagerEnds
    PROVE  TypeOK'
<1>1. AckType'
  BY AckDroppedType DEF ManagerEnds, TypeOK, AckType, Waiters
<1>2. ManagerTypes'
  BY DEF ManagerEnds, ManagerTypes
<1> QED BY <1>1, <1>2, KeptTypes DEF ManagerEnds, TypeOK

LEMMA ManagerTypeOK ==
    ASSUME TypeOK, ManagerStep \/ TrackerDiscarded
    PROVE  TypeOK'
<1>1. CASE Forward
  <2>1. ManagerTypes'
    BY <1>1, ManagerRequestParts DEF Forward, TypeOK, ManagerTypes
  <2>2. AckType'
    BY <1>1, ManagerRequestParts DEF Forward, TypeOK, AckType, Waiters
  <2>3. chainQ' \in Seq(TrackerRequest)
    <3>1. Head(cmQ) \in TrackerRequest /\ chainQ \in Seq(TrackerRequest)
      BY <1>1, ManagerRequestParts DEF Forward, TypeOK, TrackerTypes
    <3>2. chainQ' = chainQ \/ chainQ' = Append(chainQ, Head(cmQ))
      BY <1>1 DEF Forward
    <3> QED BY <3>1, <3>2
  <2>4. TrackerTypes'
    BY <1>1, <2>3 DEF Forward, TypeOK, TrackerTypes
  <2> QED BY <1>1, <2>1, <2>2, <2>4, KeptTypes DEF Forward, TypeOK
<1>2. CASE StopTracker
  <2>1. [type |-> "shutdown", from |-> "manager"] \in TrackerRequest
    BY DEF TrackerRequest
  <2>2. chainQ' \in Seq(TrackerRequest)
    BY <1>2, <2>1 DEF StopTracker, TypeOK, TrackerTypes
  <2>3. ManagerTypes' /\ TrackerTypes'
    BY <1>2, <2>2 DEF StopTracker, TypeOK, ManagerTypes, TrackerTypes
  <2> QED BY <1>2, <2>3, KeptTypes DEF StopTracker, TypeOK
<1>3. CASE TrackerAnswered \/ TrackerDiscarded \/ NoTrackerToStop
  BY <1>3, ManagerEndsType
     DEF TrackerAnswered, TrackerDiscarded, NoTrackerToStop
<1>4. CASE ManagerChannelClosed
  <2>1. ManagerTypes'
    BY <1>4 DEF ManagerChannelClosed, TypeOK, ManagerTypes
  <2> QED BY <1>4, <2>1, KeptTypes DEF ManagerChannelClosed, TypeOK
<1> QED BY <1>1, <1>2, <1>3, <1>4 DEF ManagerStep

-----------------------------------------------------------------------------
(* The chain tracker, the block watcher and the payouts.                   *)

LEMMA RestingType ==
    ASSUME NEW pc \in TrackerPlaces
    PROVE  Resting(pc) \in Tracker /\ Resting(pc).sends = 0
BY DEF Resting, Tracker

LEMMA TrackerEndsType ==
    ASSUME TypeOK, NEW pc \in {"down", "failed"}, NEW rest, TrackerEnds(pc, rest)
    PROVE  TrackerTypes' /\ AckType'
<1>1. AckType'
  BY AckDroppedType DEF TrackerEnds, TypeOK, AckType
<1>2. pc \in TrackerPlaces
  BY DEF TrackerPlaces
<1>3. TrackerTypes'
  BY <1>2, RestingType DEF TrackerEnds, TypeOK, TrackerTypes
<1> QED BY <1>1, <1>3

LEMMA SendToHandlerType ==
    ASSUME TypeOK, NEW m \in StateRequest, SendToHandler(m),
           UNCHANGED <<http, sh, supported>>
    PROVE  HandlerTypes'
<1>1. stateQ' \in Seq(StateRequest)
  BY DEF SendToHandler, TypeOK, HandlerTypes
<1> QED BY <1>1 DEF TypeOK, HandlerTypes

LEMMA TrackerRequestParts ==
    ASSUME TypeOK, chainQ # <<>>
    PROVE  /\ Head(chainQ) \in TrackerRequest
           /\ Tail(chainQ) \in Seq(TrackerRequest)
           /\ Head(chainQ).type = "block" => Head(chainQ).block \in Nat
           /\ Head(chainQ).type \in {"watch", "reap"} =>
                 /\ Head(chainQ).order \in Orders
                 /\ Head(chainQ).amount \in Terms /\ Head(chainQ).amount \in Nat
                 /\ Head(chainQ).death \in Nat
                 /\ Head(chainQ).from \in {"handler", "restore"}
<1>1. Head(chainQ) \in TrackerRequest /\ Tail(chainQ) \in Seq(TrackerRequest)
  BY DEF TypeOK, TrackerTypes
<1> QED BY <1>1, AmountsArePositive DEF TrackerRequest, AccountRequest

LEMMA CheckedType ==
    ASSUME TypeOK, NEW o \in Orders, NEW sends \in 0..2, NEW drops \in BOOLEAN,
           Checked(o, sends, drops), UNCHANGED <<chainQ, watched, feed>>
    PROVE  TrackerTypes'
BY DEF Checked, TypeOK, TrackerTypes, Tracker

LEMMA TrackerTypeOK ==
    ASSUME TypeOK, TrackerStep \/ TrackerFails \/ FeedBlock \/ FeedBreaks
    PROVE  TypeOK'
<1>1. CASE Connect
  <2>1. Height \in Nat
    BY DEF TypeOK, WorldTypes, Height
  <2>2. trk' \in Tracker /\ trk'.sends = 0
    BY <1>1, <2>1 DEF Connect, Resting, Tracker, TrackerPlaces
  <2>3. TrackerTypes'
    BY <1>1, <2>2 DEF Connect, TypeOK, TrackerTypes
  <2> QED BY <1>1, <2>3, KeptTypes DEF Connect, TypeOK
<1>2. CASE CancelledAtRotation
  BY <1>2, TrackerEndsType, KeptTypes DEF CancelledAtRotation, TypeOK
<1>3. CASE Announce
  <2>1. [type |-> "connect"] \in StateRequest
    BY DEF StateRequest
  <2>2. HandlerTypes'
    BY <1>3, <2>1, SendToHandlerType DEF Announce
  <2>3. TrackerTypes'
    BY <1>3 DEF Announce, WatchedOrders, TypeOK, TrackerTypes, Tracker,
                TrackerPlaces
  <2> QED BY <1>3, <2>2, <2>3, KeptTypes DEF Announce, TypeOK
<1>4. ASSUME NEW o \in Orders, RecheckAccount(o) PROVE TypeOK'
  <2> PICK answered \in BOOLEAN :
         LET paid == answered /\ check(o)
         IN  Checked(o, IF paid THEN 1 ELSE 0, paid)
    BY <1>4 DEF RecheckAccount
  <2> DEFINE paid == answered /\ check(o)
  <2>1. paid \in BOOLEAN /\ (IF paid THEN 1 ELSE 0) \in 0..2
    BY DEF check, balance
  <2>2. Checked(o, IF paid THEN 1 ELSE 0, paid)
    OBVIOUS
  <2> HIDE DEF paid
  <2>3. TrackerTypes'
    BY <1>4, <2>1, <2>2, CheckedType DEF RecheckAccount
  <2> QED BY <1>4, <2>3, KeptTypes DEF RecheckAccount, TypeOK
<1>5. ASSUME NEW o \in Orders, ScanAccount(o) PROVE TypeOK'
  <2> PICK first \in BOOLEAN, second \in BOOLEAN :
         LET byEvent == Received(o, trk.block) /\ first /\ check(o)
             byDeath == watched[o].death >= trk.now /\ second
         IN  Checked(o, Count(byEvent) + Count(byDeath /\ check(o)),
                     byEvent \/ byDeath)
    BY <1>5 DEF ScanAccount
  <2> DEFINE byEvent == Received(o, trk.block) /\ first /\ check(o)
             byDeath == watched[o].death >= trk.now /\ second
             sends == Count(byEvent) + Count(byDeath /\ check(o))
             drops == byEvent \/ byDeath
  <2>1. drops \in BOOLEAN /\ sends \in 0..2
    BY DEF check, balance, Received, Count
  <2>2. Checked(o, sends, drops)
    OBVIOUS
  <2> HIDE DEF sends, drops
  <2>3. TrackerTypes'
    BY <1>5, <2>1, <2>2, CheckedType DEF ScanAccount
  <2> QED BY <1>5, <2>3, KeptTypes DEF ScanAccount, TypeOK
<1>6. CASE order_paid
  <2>1. [type |-> "paid", order |-> trk.order] \in StateRequest
    BY <1>6 DEF order_paid, StateRequest, TypeOK, TrackerTypes
  <2>2. HandlerTypes'
    BY <1>6, <2>1, SendToHandlerType DEF order_paid
  <2>3. trk' \in Tracker /\ (trk'.sends > 0 => trk'.order \in Orders)
    <3> DEFINE left == trk.sends - 1
               next == IF trk.sends = 1 THEN Blank ELSE trk.order
    <3>1. trk.sends > 0 /\ trk' = [trk EXCEPT !.sends = left, !.order = next]
      BY <1>6 DEF order_paid
    <3>2. trk \in Tracker /\ trk.order \in Orders /\ trk.sends \in 0..2
      BY <3>1 DEF TypeOK, TrackerTypes, Tracker
    <3>3. /\ left \in 0..2 /\ next \in Orders \cup {Blank}
          /\ left > 0 => next \in Orders
      BY <3>1, <3>2
    <3> HIDE DEF left, next
    <3> QED BY <3>1, <3>2, <3>3 DEF Tracker
  <2>4. TrackerTypes'
    BY <1>6, <2>3 DEF order_paid, TypeOK, TrackerTypes
  <2> QED BY <1>6, <2>2, <2>4, KeptTypes DEF order_paid, TypeOK
<1>7. CASE LoopDone
  <2>1. trk.block + 1 \in Nat
    BY DEF TypeOK, TrackerTypes, Tracker
  <2>2. /\ watched' \in [Orders -> Invoice \cup {Blank}]
        /\ feed' \in Nat
    BY <1>7, <2>1 DEF LoopDone, TypeOK, TrackerTypes
  <2>3. TrackerTypes'
    BY <1>7, <2>2, RestingType DEF LoopDone, TypeOK, TrackerTypes, TrackerPlaces
  <2> QED BY <1>7, <2>3, KeptTypes DEF LoopDone, TypeOK
<1>8. CASE ScanBlock
  <2>1. Head(chainQ).block \in Nat /\ Tail(chainQ) \in Seq(TrackerRequest)
    BY <1>8, TrackerRequestParts DEF ScanBlock, TakesNext
  <2>2. clock \in Nat
    BY DEF TypeOK, WorldTypes
  <2>3. trk' \in Tracker /\ trk'.sends = 0
    <3>1. trk' = [pc |-> "scan", block |-> Head(chainQ).block, now |-> clock,
                  todo |-> WatchedOrders, drop |-> {}, order |-> Blank,
                  sends |-> 0]
      BY <1>8 DEF ScanBlock, Resting
    <3>2. WatchedOrders \subseteq Orders
      BY DEF WatchedOrders
    <3> QED BY <2>1, <2>2, <3>1, <3>2 DEF Tracker, TrackerPlaces
  <2>4. TrackerTypes'
    BY <1>8, <2>1, <2>3 DEF ScanBlock, TypeOK, TrackerTypes
  <2> QED BY <1>8, <2>4, KeptTypes DEF ScanBlock, TypeOK
<1>9. CASE LoseBlock \/ Watchdog
  <2>1. chainQ' \in Seq(TrackerRequest) /\ UNCHANGED watched
    <3>1. CASE LoseBlock
      BY <3>1, TrackerRequestParts DEF LoseBlock, TakesNext
    <3>2. CASE Watchdog
      BY <3>2 DEF Watchdog, TypeOK, TrackerTypes
    <3> QED BY <1>9, <3>1, <3>2
  <2>2. trk' = Resting("rotate") /\ feed' = 0
    BY <1>9 DEF LoseBlock, Watchdog, Rotates
  <2>3. "rotate" \in TrackerPlaces
    BY DEF TrackerPlaces
  <2>4. TrackerTypes'
    BY <2>1, <2>2, <2>3, RestingType DEF TypeOK, TrackerTypes
  <2> QED BY <1>9, <2>4, KeptTypes DEF LoseBlock, Watchdog, TypeOK
<1>10. CASE TrackerFails
  BY <1>10, TrackerEndsType, KeptTypes DEF TrackerFails, TypeOK
<1>11. CASE StartWatching
  <2> DEFINE m == Head(chainQ)
  <2>1. /\ m.order \in Orders /\ m.from \in {"handler", "restore"}
        /\ [amount |-> m.amount, death |-> m.death] \in Invoice
        /\ Tail(chainQ) \in Seq(TrackerRequest)
    BY <1>11, TrackerRequestParts DEF StartWatching, TakesNext, Invoice
  <2>2. AckType'
    BY <1>11, <2>1 DEF StartWatching, TypeOK, AckType, Waiters
  <2>3. watched' \in [Orders -> Invoice \cup {Blank}]
    BY <1>11, <2>1 DEF StartWatching, TypeOK, TrackerTypes
  <2>4. TrackerTypes'
    BY <1>11, <2>1, <2>3 DEF StartWatching, TypeOK, TrackerTypes
  <2> QED BY <1>11, <2>2, <2>4, KeptTypes DEF StartWatching, TypeOK
<1>12. CASE StartPayout
  <2> DEFINE m == Head(chainQ)
  <2>1. /\ m.order \in Orders
        /\ [state |-> "spawned", amount |-> m.amount, from |-> m.from] \in Payout
        /\ Tail(chainQ) \in Seq(TrackerRequest)
    BY <1>12, TrackerRequestParts DEF StartPayout, TakesNext, Payout
  <2>2. TailTypes'
    BY <1>12, <2>1 DEF StartPayout, TypeOK, TailTypes
  <2>3. TrackerTypes'
    BY <1>12, <2>1 DEF StartPayout, TypeOK, TrackerTypes
  <2> QED BY <1>12, <2>2, <2>3, KeptTypes DEF StartPayout, TypeOK
<1>13. CASE ShutDownTracker
  <2>1. AckType'
    BY <1>13, AckDroppedType DEF ShutDownTracker, TypeOK, AckType, Waiters
  <2>2. TrackerTypes'
    BY <1>13, RestingType
       DEF ShutDownTracker, TypeOK, TrackerTypes, TrackerPlaces
  <2> QED BY <1>13, <2>1, <2>2, KeptTypes DEF ShutDownTracker, TypeOK
<1>14. CASE FeedBlock
  <2>1. [type |-> "block", block |-> feed] \in TrackerRequest /\ feed + 1 \in Nat
    BY DEF TypeOK, TrackerTypes, TrackerRequest
  <2>2. chainQ' \in Seq(TrackerRequest)
    BY <1>14, <2>1 DEF FeedBlock, TypeOK, TrackerTypes
  <2>3. TrackerTypes'
    BY <1>14, <2>1, <2>2 DEF FeedBlock, TypeOK, TrackerTypes
  <2> QED BY <1>14, <2>3, KeptTypes DEF FeedBlock, TypeOK
<1>15. CASE FeedBreaks
  <2>1. TrackerTypes'
    BY <1>15 DEF FeedBreaks, TypeOK, TrackerTypes
  <2> QED BY <1>15, <2>1, KeptTypes DEF FeedBreaks, TypeOK
<1> QED BY <1>1, <1>2, <1>3, <1>4, <1>5, <1>6, <1>7, <1>8, <1>9, <1>10, <1>11,
           <1>12, <1>13, <1>14, <1>15 DEF TrackerStep

LEMMA PayoutTypeOK ==
    ASSUME TypeOK, PayoutStep
    PROVE  TypeOK'
<1>1. ASSUME NEW o \in Orders, PayoutStarts(o) PROVE TypeOK'
  <2>1. payout[o].from \in Waiters
    BY DEF TypeOK, TailTypes, Payout, Waiters
  <2>2. AckType'
    BY <1>1, <2>1 DEF PayoutStarts, TypeOK, AckType
  <2>3. TailTypes'
    BY <1>1 DEF PayoutStarts, TypeOK, TailTypes, Payout
  <2> QED BY <1>1, <2>2, <2>3, KeptTypes DEF PayoutStarts, TypeOK
<1>2. ASSUME NEW o \in Orders, PayoutSubmits(o) PROVE TypeOK'
  <2>1. TailTypes'
    BY <1>2 DEF PayoutSubmits, TypeOK, TailTypes, Payout
  <2>2. WorldTypes'
    BY <1>2 DEF PayoutSubmits, TypeOK, WorldTypes
  <2> QED BY <1>2, <2>1, <2>2, KeptTypes DEF PayoutSubmits, TypeOK
<1>3. ASSUME NEW o \in Orders, PayoutGivesUp(o) PROVE TypeOK'
  <2>1. TailTypes'
    BY <1>3 DEF PayoutGivesUp, TypeOK, TailTypes, Payout
  <2> QED BY <1>3, <2>1, KeptTypes DEF PayoutGivesUp, TypeOK
<1> QED BY <1>1, <1>2, <1>3 DEF PayoutStep

-----------------------------------------------------------------------------
(* The chain, the clock, the flushes, shutdown and crashes.                *)

LEMMA FinalizeType ==
    ASSUME TypeOK, NEW balances \in [Orders -> Nat], Finalize(balances),
           submitted' \in SUBSET Orders
    PROVE  TypeOK'
<1>1. blocks' \in Seq([Orders -> Nat]) /\ blocks' # <<>>
  BY DEF Finalize, TypeOK, WorldTypes
<1>2. WorldTypes'
  BY <1>1 DEF Finalize, TypeOK, WorldTypes
<1> QED BY <1>2, KeptTypes DEF Finalize, TypeOK

LEMMA ChainTypeOK ==
    ASSUME TypeOK, ChainStep
    PROVE  TypeOK'
<1>1. blocks[Height] \in [Orders -> Nat] /\ submitted \in SUBSET Orders
  BY DEF TypeOK, WorldTypes, Height
<1>2. CASE EmptyBlock
  BY <1>1, <1>2, FinalizeType DEF EmptyBlock
<1>3. ASSUME NEW o \in Orders, Settle(o) PROVE TypeOK'
  <2>1. [blocks[Height] EXCEPT ![o] = 0] \in [Orders -> Nat]
    BY <1>1
  <2> QED BY <1>1, <1>3, <2>1, FinalizeType DEF Settle
<1>4. ASSUME NEW o \in Orders, NEW amount \in Payments, Pay(o, amount)
      PROVE  TypeOK'
  <2>1. [blocks[Height] EXCEPT ![o] = @ + amount] \in [Orders -> Nat]
    BY <1>1, BoundsAreNaturals
  <2> QED BY <1>1, <1>4, <2>1, FinalizeType DEF Pay
<1> QED BY <1>2, <1>3, <1>4 DEF ChainStep

LEMMA OutsideTypeOK ==
    ASSUME TypeOK,
           Tick \/ BackgroundFlush \/ FinalFlush \/ Interrupt \/ NoticeFailure
    PROVE  TypeOK'
<1>1. CASE Tick
  <2>1. WorldTypes'
    BY <1>1 DEF Tick, TypeOK, WorldTypes
  <2> QED BY <1>1, <2>1, KeptTypes DEF Tick, TypeOK
<1>2. CASE BackgroundFlush \/ FinalFlush
  <2>1. LedgerTypes'
    BY <1>2 DEF BackgroundFlush, FinalFlush, TypeOK, LedgerTypes
  <2> QED BY <1>2, <2>1, KeptTypes DEF BackgroundFlush, FinalFlush, TypeOK
<1>3. CASE Cancel
  <2>1. TailTypes'
    BY <1>3 DEF Cancel, TypeOK, TailTypes
  <2> QED BY <1>3, <2>1, KeptTypes DEF Cancel, TypeOK
<1> QED BY <1>1, <1>2, <1>3 DEF Interrupt, NoticeFailure

(* What a fresh process starts with, whatever the disk holds.              *)
LEMMA BootTypes ==
    ASSUME LedgerTypes, WorldTypes, Boots
    PROVE  TypeOK
<1>1. HandlerTypes
  <2>1. http \in [Clients -> Waiting \cup {"idle", "supported", "gone"}]
    BY DEF Boots
  <2>2. /\ sh \in [pc : HandlerPlaces, client : Clients \cup {Blank}]
        /\ sh.pc # "adding"
    BY DEF Boots, HandlerPlaces
  <2>3. stateQ \in Seq(StateRequest)
    BY DEF Boots
  <2>4. supported \in BOOLEAN
    BY DEF Boots
  <2> QED BY <2>1, <2>2, <2>3, <2>4 DEF HandlerTypes
<1>5. RestoreTypes /\ ManagerTypes /\ AckType
  BY DEF Boots, RestoreTypes, ManagerTypes, AckType, Table, EmptyTable
<1>2. TrackerTypes
  <2>1. "rotate" \in TrackerPlaces
    BY DEF TrackerPlaces
  <2> QED BY <2>1, RestingType DEF Boots, TrackerTypes
<1>3. TailTypes
  BY DEF Boots, TailTypes, Payout, NoPayout
<1> QED BY <1>1, <1>2, <1>3, <1>5 DEF TypeOK

LEMMA CrashTypeOK ==
    ASSUME TypeOK, CrashAndRestart
    PROVE  TypeOK'
<1>1. HandlerTypes'
  <2>1. http' \in [Clients -> Waiting \cup {"idle", "supported", "gone"}]
    BY DEF CrashAndRestart
  <2>2. /\ sh' \in [pc : HandlerPlaces, client : Clients \cup {Blank}]
        /\ sh'.pc # "adding"
    BY DEF CrashAndRestart, HandlerPlaces
  <2>3. stateQ' \in Seq(StateRequest)
    BY DEF CrashAndRestart
  <2>4. supported' \in BOOLEAN
    BY DEF CrashAndRestart
  <2> QED BY <2>1, <2>2, <2>3, <2>4 DEF HandlerTypes
<1>5. RestoreTypes' /\ ManagerTypes' /\ AckType'
  BY DEF CrashAndRestart, RestoreTypes, ManagerTypes, AckType, Table, EmptyTable
<1>2. TrackerTypes'
  <2>1. "rotate" \in TrackerPlaces
    BY DEF TrackerPlaces
  <2> QED BY <2>1, RestingType DEF CrashAndRestart, TrackerTypes
<1>3. TailTypes'
  BY DEF CrashAndRestart, TailTypes, Payout, NoPayout
<1>4. LedgerTypes' /\ WorldTypes'
  BY KeptTypes DEF CrashAndRestart, TypeOK, LedgerTypes
<1> QED BY <1>1, <1>2, <1>3, <1>4, <1>5 DEF TypeOK

LEMMA InitTypeOK == Init => TypeOK
<1> SUFFICES ASSUME Init PROVE TypeOK
  OBVIOUS
<1>1. disk \in Table
  <2> PICK left \in SUBSET Saved, asked \in [Saved -> Terms] :
         disk = LeftOver(left, asked)
    BY DEF Init
  <2>1. \A o \in left : NewOrder(asked[o], o, Lifetime) \in OrderInfo
    BY NewOrderType, SavedAreOrders, AccountPerOrder, NumbersAreNaturals
  <2> QED BY <2>1, SavedAreOrders DEF LeftOver, Table
<1>2. LedgerTypes
  BY <1>1 DEF Init, Boots, LedgerTypes
<1>3. WorldTypes
  BY DEF Init, WorldTypes, NoBalance
<1> QED BY <1>2, <1>3, BootTypes DEF Init

LEMMA StepTypeOK == TypeOK /\ [Next]_vars => TypeOK'
<1> SUFFICES ASSUME TypeOK, [Next]_vars PROVE TypeOK'
  OBVIOUS
<1>1. CASE UNCHANGED vars
  <2>1. /\ UNCHANGED <<ledgerVars, worldVars, handlerVars, restoreVars>>
        /\ UNCHANGED <<managerVars, ack, trackerVars, tailVars>>
    BY <1>1 DEF vars, ledgerVars, worldVars, handlerVars, restoreVars,
                managerVars, trackerVars, tailVars
  <2> QED BY <2>1, KeptTypes DEF TypeOK
<1> QED BY <1>1, HandlerTypeOK, RestoreTypeOK, ClientTypeOK, ManagerTypeOK,
           TrackerTypeOK, PayoutTypeOK, ChainTypeOK, OutsideTypeOK, CrashTypeOK
        DEF Next

(* Every channel carries only messages its reader knows, every record and  *)
(* every state of a task is one the code has.                              *)
THEOREM TypeCorrect == Spec => []TypeOK
BY InitTypeOK, StepTypeOK, PTL DEF Spec

-----------------------------------------------------------------------------
(* Counting the messages of one kind in a channel.                         *)

(* Shifting the positions of a queue does not change how many they are.    *)
LEMMA ShiftedCardinality ==
    ASSUME NEW A \in SUBSET (Nat \ {0}), IsFiniteSet(A)
    PROVE  LET B == {i - 1 : i \in A}
           IN  IsFiniteSet(B) /\ Cardinality(B) = Cardinality(A)
<1> DEFINE B == {i - 1 : i \in A}
           f == [i \in A |-> i - 1]
<1>1. f \in [A -> B]
  OBVIOUS
<1>2. \A i, j \in A : f[i] = f[j] => i = j
  OBVIOUS
<1>3. \A b \in B : \E i \in A : f[i] = b
  OBVIOUS
<1>4. f \in Bijection(A, B)
  BY <1>1, <1>2, <1>3 DEF Bijection, Injection, Surjection, IsInjective
<1>5. ExistsBijection(A, B)
  BY <1>4 DEF ExistsBijection
<1> QED BY <1>5, FS_Bijection

(* The places of q at which an element of M stands: how their number       *)
(* changes when the queue is sent to and received from.                    *)
Marked(q, M) == {i \in DOMAIN q : q[i] \in M}

LEMMA MarkedFinite ==
    ASSUME NEW S, NEW q \in Seq(S), NEW M
    PROVE  /\ Marked(q, M) \in SUBSET (Nat \ {0})
           /\ IsFiniteSet(Marked(q, M))
           /\ Cardinality(Marked(q, M)) \in Nat
<1>1. Marked(q, M) \subseteq 1..Len(q) /\ Len(q) \in Nat
  BY DEF Marked
<1>2. IsFiniteSet(1..Len(q))
  BY <1>1, FS_Interval
<1>3. IsFiniteSet(Marked(q, M))
  BY <1>1, <1>2, FS_Subset
<1> QED BY <1>1, <1>3, FS_CardinalityType

LEMMA MarkedInAppend ==
    ASSUME NEW S, NEW q \in Seq(S), NEW m \in S, NEW M
    PROVE  Cardinality(Marked(Append(q, m), M))
             = Cardinality(Marked(q, M)) + Count(m \in M)
<1> DEFINE n == Len(q) + 1
<1>1. /\ n \in Nat /\ DOMAIN q = 1..Len(q) /\ DOMAIN Append(q, m) = 1..n
      /\ Append(q, m)[n] = m
      /\ \A i \in 1..Len(q) : Append(q, m)[i] = q[i]
  OBVIOUS
<1>2. n \notin Marked(q, M)
  BY <1>1 DEF Marked
<1>3. CASE m \in M
  <2>1. Marked(Append(q, m), M) = Marked(q, M) \cup {n}
    BY <1>1, <1>3 DEF Marked
  <2> QED BY <1>2, <1>3, <2>1, MarkedFinite, FS_AddElement DEF Count
<1>4. CASE m \notin M
  <2>1. Marked(Append(q, m), M) = Marked(q, M)
    BY <1>1, <1>4 DEF Marked
  <2> QED BY <1>4, <2>1, MarkedFinite DEF Count
<1> QED BY <1>3, <1>4

LEMMA MarkedInTail ==
    ASSUME NEW S, NEW q \in Seq(S), q # <<>>, NEW M
    PROVE  Cardinality(Marked(Tail(q), M))
             = Cardinality(Marked(q, M)) - Count(Head(q) \in M)
<1> DEFINE A == Marked(q, M) \ {1}
<1>1. /\ Len(q) \in Nat \ {0} /\ DOMAIN q = 1..Len(q)
      /\ DOMAIN Tail(q) = 1..(Len(q) - 1) /\ Head(q) = q[1]
      /\ \A i \in 1..(Len(q) - 1) : Tail(q)[i] = q[i + 1]
  OBVIOUS
<1>2. Marked(Tail(q), M) = {i - 1 : i \in A}
  <2>1. ASSUME NEW j \in Marked(Tail(q), M) PROVE j \in {i - 1 : i \in A}
    <3>1. j \in 1..(Len(q) - 1) /\ q[j + 1] \in M
      BY <1>1, <2>1 DEF Marked
    <3>2. j + 1 \in A /\ j = (j + 1) - 1
      BY <1>1, <3>1 DEF Marked
    <3> QED BY <3>2
  <2>2. ASSUME NEW i \in A PROVE i - 1 \in Marked(Tail(q), M)
    <3>1. i \in 2..Len(q) /\ q[i] \in M
      BY <1>1, <2>2 DEF Marked
    <3>2. i - 1 \in 1..(Len(q) - 1) /\ Tail(q)[i - 1] = q[i]
      BY <1>1, <3>1
    <3> QED BY <1>1, <3>1, <3>2 DEF Marked
  <2> QED BY <2>1, <2>2
<1>3. /\ A \in SUBSET (Nat \ {0}) /\ IsFiniteSet(A)
      /\ Cardinality(A) = IF 1 \in Marked(q, M)
                          THEN Cardinality(Marked(q, M)) - 1
                          ELSE Cardinality(Marked(q, M))
  BY MarkedFinite, FS_RemoveElement
<1>4. Cardinality(Marked(Tail(q), M)) = Cardinality(A)
  BY <1>2, <1>3, ShiftedCardinality
<1>5. 1 \in Marked(q, M) <=> Head(q) \in M
  BY <1>1 DEF Marked
<1> QED BY <1>3, <1>4, <1>5, MarkedFinite DEF Count

-----------------------------------------------------------------------------
(* The Reaps of one order in a queue.                                      *)

IsReap(m, o) == m.type = "reap" /\ m.order = o

LEMMA ReapsAreMarked ==
    ASSUME NEW S, NEW q \in Seq(S), NEW o
    PROVE  Reaps(q, o) = Marked(q, {m \in S : IsReap(m, o)})
BY DEF Reaps, Marked, IsReap

LEMMA ReapsFinite ==
    ASSUME NEW S, NEW q \in Seq(S), NEW o
    PROVE  IsFiniteSet(Reaps(q, o)) /\ Cardinality(Reaps(q, o)) \in Nat
<1> DEFINE M == {n \in S : IsReap(n, o)}
<1>1. Reaps(q, o) = Marked(q, M)
  BY ReapsAreMarked
<1> HIDE DEF M
<1> QED BY <1>1, MarkedFinite

LEMMA ReapsOfEmpty ==
    ASSUME NEW o
    PROVE  Cardinality(Reaps(<<>>, o)) = 0
<1>1. Reaps(<<>>, o) = {}
  BY DEF Reaps
<1> QED BY <1>1, FS_EmptySet

LEMMA ReapsOfAppend ==
    ASSUME NEW S, NEW q \in Seq(S), NEW m \in S, NEW o
    PROVE  Cardinality(Reaps(Append(q, m), o))
             = Cardinality(Reaps(q, o)) + Count(IsReap(m, o))
<1> DEFINE M == {n \in S : IsReap(n, o)}
<1>1. (m \in M) <=> IsReap(m, o)
  OBVIOUS
<1>2. Append(q, m) \in Seq(S)
  OBVIOUS
<1>3. Reaps(q, o) = Marked(q, M) /\ Reaps(Append(q, m), o) = Marked(Append(q, m), M)
  BY <1>2, ReapsAreMarked
<1> HIDE DEF M
<1> QED BY <1>1, <1>3, MarkedInAppend DEF Count

LEMMA ReapsOfTail ==
    ASSUME NEW S, NEW q \in Seq(S), q # <<>>, NEW o
    PROVE  Cardinality(Reaps(Tail(q), o))
             = Cardinality(Reaps(q, o)) - Count(IsReap(Head(q), o))
<1> DEFINE M == {n \in S : IsReap(n, o)}
<1>1. Tail(q) \in Seq(S) /\ Head(q) \in S
  OBVIOUS
<1>2. (Head(q) \in M) <=> IsReap(Head(q), o)
  BY <1>1
<1>3. Reaps(q, o) = Marked(q, M) /\ Reaps(Tail(q), o) = Marked(Tail(q), M)
  BY <1>1, ReapsAreMarked
<1> HIDE DEF M
<1> QED BY <1>2, <1>3, MarkedInTail DEF Count

-----------------------------------------------------------------------------
(* The inductive invariant: an order has a Reap or a payout somewhere only *)
(* if it is recorded as paid, and then just one.  OneReapPerOrder alone is *)
(* not inductive: RecordPaid would be free to add a second Reap for an     *)
(* order that is still recorded as pending.                                *)

ReapCount(o) ==
    Cardinality(Reaps(cmQ, o)) + Cardinality(Reaps(chainQ, o))
      + Count(payout[o].state # "none")

ReapsArePaid == \A o \in Orders : ReapCount(o) <= Count(IsPaid(table, o))

PayoutInv == TypeOK /\ ReapsArePaid

(* What the rest of the argument needs of the types.                       *)
LEMMA CountTypes ==
    ASSUME TypeOK, NEW o \in Orders
    PROVE  /\ cmQ \in Seq(ManagerRequest) /\ chainQ \in Seq(TrackerRequest)
           /\ Cardinality(Reaps(cmQ, o)) \in Nat
           /\ Cardinality(Reaps(chainQ, o)) \in Nat
           /\ Count(payout[o].state # "none") \in 0..1
           /\ ReapCount(o) \in Nat
<1>1. cmQ \in Seq(ManagerRequest) /\ chainQ \in Seq(TrackerRequest)
  BY DEF TypeOK, ManagerTypes, TrackerTypes
<1>2. /\ Cardinality(Reaps(cmQ, o)) \in Nat
      /\ Cardinality(Reaps(chainQ, o)) \in Nat
  BY <1>1, ReapsFinite
<1>3. Count(payout[o].state # "none") \in 0..1
  BY DEF Count
<1> QED BY <1>1, <1>2, <1>3 DEF ReapCount

(* The handler: only RecordPaid adds a Reap, for the order it makes paid.  *)
LEMMA HandlerReaps ==
    ASSUME TypeOK, HandlerStep, NEW o \in Orders
    PROVE  /\ IsPaid(table, o) => IsPaid(table', o)
           /\ \/ ReapCount(o)' = ReapCount(o)
              \/ /\ ReapCount(o)' = ReapCount(o) + 1
                 /\ ~IsPaid(table, o) /\ IsPaid(table', o)
<1> USE CountTypes
<1>1. CASE ReadOrderList \/ ConnectChain \/ IsCurrencySupported \/ GetStatus
             \/ InvoiceAdded \/ RefusePaid \/ ReapAnswered
             \/ FinishShutdown
  <2>1. UNCHANGED <<table, cmQ, chainQ, payout>>
    BY <1>1 DEF ReadOrderList, ConnectChain, IsCurrencySupported, GetStatus,
                InvoiceAdded, RefusePaid, ReapAnswered,
                FinishShutdown, ledgerVars, managerVars, trackerVars, tailVars
  <2> QED BY <2>1 DEF ReapCount
<1>2. CASE OldInvoice
  <2>1. UNCHANGED <<cmQ, chainQ, payout>> /\ table' = Created(Head(stateQ)).table
    BY <1>2 DEF OldInvoice, managerVars, trackerVars, tailVars
  <2>2. table' \in Table /\ MovesForward(table, table')
    BY <1>2, <2>1, TakenCreate DEF OldInvoice
  <2>3. IsPaid(table, o) => IsPaid(table', o)
    BY <2>2, PaidStaysPaid DEF TypeOK, LedgerTypes
  <2> QED BY <2>1, <2>3 DEF ReapCount
<1>3. CASE NewInvoice
  <2> DEFINE m == WatchAccount("watch", Head(stateQ).order,
                               table'[Head(stateQ).order], "handler")
  <2>1. /\ cmQ' = Append(cmQ, m) /\ UNCHANGED <<chainQ, payout>>
        /\ table' = Created(Head(stateQ)).table
    BY <1>3 DEF NewInvoice, trackerVars, tailVars
  <2>2. table' \in Table /\ MovesForward(table, table')
    BY <1>3, <2>1, TakenCreate DEF NewInvoice
  <2>3. IsPaid(table, o) => IsPaid(table', o)
    BY <2>2, PaidStaysPaid DEF TypeOK, LedgerTypes
  <2>4. m \in ManagerRequest /\ ~IsReap(m, o)
    <3>1. /\ Head(stateQ).order \in Orders
          /\ table'[Head(stateQ).order] \in OrderInfo
      BY <1>3, <2>1, TakenCreate
         DEF NewInvoice, IsPending, IsKnown, Table
    <3> QED BY <3>1, WatchAccountType DEF IsReap
  <2>5. Cardinality(Reaps(cmQ', o)) = Cardinality(Reaps(cmQ, o))
    <3> HIDE DEF m
    <3> QED BY <2>1, <2>4, ReapsOfAppend DEF Count
  <2> QED BY <2>1, <2>3, <2>5 DEF ReapCount
<1>4. CASE RecordPaid
  <2> DEFINE p == Head(stateQ).order
             m == WatchAccount("reap", p, table'[p], "handler")
  <2>1. /\ cmQ' = Append(cmQ, m) /\ UNCHANGED <<chainQ, payout>>
        /\ table' = mark_paid(table, p).table
        /\ mark_paid(table, p).reply = "Ok"
    BY <1>4 DEF RecordPaid, trackerVars, tailVars
  <2>2. /\ p \in Orders /\ table' \in Table /\ MovesForward(table, table')
        /\ IsPending(table, p) /\ IsPaid(table', p)
    BY <1>4, <2>1, TakenPaid DEF RecordPaid
  <2>3. /\ IsPaid(table, o) => IsPaid(table', o)
        /\ ~IsPaid(table, p)
    BY <2>2, PaidStaysPaid, StatusCases DEF TypeOK, LedgerTypes
  <2>4. m \in ManagerRequest /\ (IsReap(m, o) <=> o = p)
    <3>1. table'[p] \in OrderInfo
      BY <2>2 DEF IsPaid, IsKnown, Table
    <3> QED BY <2>2, <3>1, WatchAccountType DEF IsReap
  <2>5. Cardinality(Reaps(cmQ', o)) = Cardinality(Reaps(cmQ, o)) + Count(o = p)
    <3> HIDE DEF m
    <3> QED BY <2>1, <2>4, ReapsOfAppend DEF Count
  <2> HIDE DEF p, m
  <2>6. ReapCount(o)' = ReapCount(o) + Count(o = p)
    BY <2>1, <2>5 DEF ReapCount, Count
  <2> QED BY <2>2, <2>3, <2>6 DEF Count
<1>5. CASE BeginShutdown
  <2> DEFINE m == [type |-> "shutdown", from |-> "handler"]
  <2>1. cmQ' = Append(cmQ, m) /\ UNCHANGED <<table, chainQ, payout>>
    BY <1>5 DEF BeginShutdown, ledgerVars, trackerVars, tailVars
  <2>2. m \in ManagerRequest /\ ~IsReap(m, o)
    BY DEF ManagerRequest, IsReap
  <2>3. Cardinality(Reaps(cmQ', o)) = Cardinality(Reaps(cmQ, o))
    <3> HIDE DEF m
    <3> QED BY <2>1, <2>2, ReapsOfAppend DEF Count
  <2> QED BY <2>1, <2>3 DEF ReapCount
<1> QED BY <1>1, <1>2, <1>3, <1>4, <1>5 DEF HandlerStep

(* The restoring task asks for watches only, the HTTP handlers for nothing.*)
LEMMA RestoreReaps ==
    ASSUME TypeOK, RestoreStep \/ ClientStep, NEW o \in Orders
    PROVE  UNCHANGED table /\ ReapCount(o)' = ReapCount(o)
<1> USE CountTypes
<1>1. ASSUME NEW p \in Orders, RestoreOrder(p) PROVE
             UNCHANGED table /\ ReapCount(o)' = ReapCount(o)
  <2> DEFINE m == WatchAccount("watch", p, restoring[p], "restore")
  <2>1. /\ cmQ' = Append(cmQ, m) \/ cmQ' = cmQ
        /\ UNCHANGED <<table, chainQ, payout>>
    BY <1>1 DEF RestoreOrder, ledgerVars, trackerVars, tailVars
  <2>2. m \in ManagerRequest /\ ~IsReap(m, o)
    <3>1. restoring[p] \in OrderInfo
      BY <1>1 DEF RestoreOrder, TypeOK, RestoreTypes, Table
    <3> QED BY <3>1, WatchAccountType DEF IsReap
  <2> HIDE DEF m
  <2>3. Cardinality(Reaps(Append(cmQ, m), o)) = Cardinality(Reaps(cmQ, o))
    BY <2>2, ReapsOfAppend DEF Count
  <2>4. Cardinality(Reaps(cmQ', o)) = Cardinality(Reaps(cmQ, o))
    BY <2>1, <2>3
  <2> QED BY <2>1, <2>4 DEF ReapCount
<1>2. CASE OrderRestored \/ AllRestored \/ ClientStep
  <2>1. UNCHANGED <<table, cmQ, chainQ, payout>>
    BY <1>2 DEF OrderRestored, AllRestored, ClientStep, RequestStatus,
                CheckCurrency, CreateOrder, Ask, GiveUp, Disconnect,
                ledgerVars, managerVars, trackerVars, tailVars
  <2> QED BY <2>1 DEF ReapCount
<1> QED BY <1>1, <1>2 DEF RestoreStep

(* The manager moves a Reap from its own channel to the tracker's, or      *)
(* drops it.                                                               *)
LEMMA ManagerReaps ==
    ASSUME TypeOK, ManagerStep \/ TrackerDiscarded, NEW o \in Orders
    PROVE  UNCHANGED table /\ ReapCount(o)' <= ReapCount(o)
<1> USE CountTypes
<1>1. CASE Forward
  <2>1. /\ cmQ # <<>> /\ cmQ' = Tail(cmQ) /\ UNCHANGED <<table, payout>>
        /\ chainQ' = chainQ \/ chainQ' = Append(chainQ, Head(cmQ))
        /\ Head(cmQ) \in TrackerRequest
    BY <1>1, ManagerRequestParts
       DEF Forward, Serves, ledgerVars, tailVars
  <2>2. Cardinality(Reaps(cmQ', o))
          = Cardinality(Reaps(cmQ, o)) - Count(IsReap(Head(cmQ), o))
    BY <2>1, ReapsOfTail
  <2>3. Cardinality(Reaps(chainQ', o)) \in
           {Cardinality(Reaps(chainQ, o)),
            Cardinality(Reaps(chainQ, o)) + Count(IsReap(Head(cmQ), o))}
    BY <2>1, ReapsOfAppend
  <2>4. Count(IsReap(Head(cmQ), o)) \in 0..1
    BY DEF Count
  <2>5. payout' = payout /\ table' = table
    BY <2>1
  <2> QED BY <2>2, <2>3, <2>4, <2>5 DEF ReapCount
<1>2. CASE StopTracker
  <2> DEFINE m == [type |-> "shutdown", from |-> "manager"]
  <2>1. chainQ' = Append(chainQ, m) /\ UNCHANGED <<table, cmQ, payout>>
    BY <1>2 DEF StopTracker, ledgerVars, tailVars
  <2>2. m \in TrackerRequest /\ ~IsReap(m, o)
    BY DEF TrackerRequest, IsReap
  <2>3. Cardinality(Reaps(chainQ', o)) = Cardinality(Reaps(chainQ, o))
    <3> HIDE DEF m
    <3> QED BY <2>1, <2>2, ReapsOfAppend DEF Count
  <2> QED BY <2>1, <2>3 DEF ReapCount
<1>3. CASE ManagerEnds
  <2>1. cmQ' = <<>> /\ UNCHANGED <<table, chainQ, payout>>
    BY <1>3 DEF ManagerEnds, ledgerVars, trackerVars, tailVars
  <2>2. Cardinality(Reaps(cmQ', o)) = 0
    BY <2>1, ReapsOfEmpty
  <2> QED BY <2>1, <2>2 DEF ReapCount
<1>4. CASE ManagerChannelClosed
  <2>1. UNCHANGED <<table, cmQ, chainQ, payout>>
    BY <1>4 DEF ManagerChannelClosed, ledgerVars, trackerVars, tailVars
  <2> QED BY <2>1 DEF ReapCount
<1> QED BY <1>1, <1>2, <1>3, <1>4
        DEF ManagerStep, TrackerAnswered, TrackerDiscarded, NoTrackerToStop

(* The tracker turns a Reap into a payout, or drops it with its channel.   *)
LEMMA TrackerReaps ==
    ASSUME TypeOK, TrackerStep \/ TrackerFails \/ FeedBlock \/ FeedBreaks,
           NEW o \in Orders
    PROVE  UNCHANGED table /\ ReapCount(o)' <= ReapCount(o)
<1> USE CountTypes
<1>1. CASE Connect \/ Announce \/ order_paid \/ LoopDone \/ Watchdog \/ FeedBreaks
             \/ \E p \in Orders : RecheckAccount(p) \/ ScanAccount(p)
  <2>1. UNCHANGED <<table, cmQ, chainQ, payout>>
    BY <1>1 DEF Connect, Announce, order_paid, LoopDone, Watchdog, FeedBreaks,
                RecheckAccount, ScanAccount, ledgerVars, managerVars, tailVars
  <2> QED BY <2>1 DEF ReapCount
<1>2. CASE CancelledAtRotation \/ TrackerFails \/ ShutDownTracker
  <2>1. chainQ' = <<>> /\ UNCHANGED <<table, cmQ, payout>>
    BY <1>2 DEF CancelledAtRotation, TrackerFails, ShutDownTracker, TrackerEnds,
                ledgerVars, managerVars, tailVars
  <2>2. Cardinality(Reaps(chainQ', o)) = 0
    BY <2>1, ReapsOfEmpty
  <2> QED BY <2>1, <2>2 DEF ReapCount
<1>3. CASE ScanBlock \/ LoseBlock \/ StartWatching
  <2>1. /\ chainQ # <<>> /\ chainQ' = Tail(chainQ)
        /\ UNCHANGED <<table, cmQ, payout>>
    BY <1>3 DEF ScanBlock, LoseBlock, StartWatching, TakesNext,
                ledgerVars, managerVars, tailVars
  <2>2. Cardinality(Reaps(chainQ', o))
          = Cardinality(Reaps(chainQ, o)) - Count(IsReap(Head(chainQ), o))
    BY <2>1, ReapsOfTail
  <2>3. Count(IsReap(Head(chainQ), o)) \in 0..1
    BY DEF Count
  <2>4. Cardinality(Reaps(chainQ', o)) <= Cardinality(Reaps(chainQ, o))
    BY <2>2, <2>3
  <2>5. Cardinality(Reaps(chainQ', o)) \in Int
    BY <2>2, <2>3
  <2> QED BY <2>1, <2>4, <2>5 DEF ReapCount
<1>4. CASE StartPayout
  <2> DEFINE m == Head(chainQ)
  <2>1. /\ chainQ # <<>> /\ chainQ' = Tail(chainQ) /\ UNCHANGED <<table, cmQ>>
        /\ m.type = "reap" /\ m.order \in Orders
        /\ payout' = [payout EXCEPT ![m.order] =
                        [state |-> "spawned", amount |-> m.amount,
                         from |-> m.from]]
    BY <1>4, TrackerRequestParts
       DEF StartPayout, TakesNext, ledgerVars, managerVars
  <2>2. Cardinality(Reaps(chainQ', o))
          = Cardinality(Reaps(chainQ, o)) - Count(IsReap(m, o))
    BY <2>1, ReapsOfTail
  <2>3. /\ IsReap(m, o) <=> o = m.order
        /\ o # m.order => payout'[o] = payout[o]
    BY <2>1 DEF IsReap, TypeOK, TailTypes
  <2> HIDE DEF m
  <2>4. CASE o = m.order
    <3>1. Count(payout'[o].state # "none") \in 0..1
      BY DEF Count
    <3>2. Cardinality(Reaps(chainQ', o)) = Cardinality(Reaps(chainQ, o)) - 1
      BY <2>2, <2>3, <2>4 DEF Count
    <3> QED BY <2>1, <3>1, <3>2 DEF ReapCount
  <2>5. CASE o # m.order
    <3>1. Cardinality(Reaps(chainQ', o)) = Cardinality(Reaps(chainQ, o))
      BY <2>2, <2>3, <2>5 DEF Count
    <3> QED BY <2>1, <2>3, <2>5, <3>1 DEF ReapCount
  <2> QED BY <2>4, <2>5
<1>5. CASE FeedBlock
  <2> DEFINE m == [type |-> "block", block |-> feed]
  <2>1. chainQ' = Append(chainQ, m) /\ UNCHANGED <<table, cmQ, payout>>
    BY <1>5 DEF FeedBlock, ledgerVars, managerVars, tailVars
  <2>2. m \in TrackerRequest /\ ~IsReap(m, o)
    BY DEF TrackerRequest, IsReap, TypeOK, TrackerTypes
  <2>3. Cardinality(Reaps(chainQ', o)) = Cardinality(Reaps(chainQ, o))
    <3> HIDE DEF m
    <3> QED BY <2>1, <2>2, ReapsOfAppend DEF Count
  <2> QED BY <2>1, <2>3 DEF ReapCount
<1> QED BY <1>1, <1>2, <1>3, <1>4, <1>5 DEF TrackerStep

(* A payout that has started stays the only one; the world changes nothing.*)
LEMMA OtherReaps ==
    ASSUME TypeOK, NEW o \in Orders,
           PayoutStep \/ ChainStep \/ Tick \/ BackgroundFlush \/ FinalFlush
             \/ Interrupt \/ NoticeFailure \/ UNCHANGED vars
    PROVE  UNCHANGED table /\ ReapCount(o)' = ReapCount(o)
<1> USE CountTypes
<1>1. CASE PayoutStep
  <2>1. UNCHANGED <<table, cmQ, chainQ>>
    BY <1>1 DEF PayoutStep, PayoutStarts, PayoutSubmits, PayoutGivesUp,
                ledgerVars, managerVars, trackerVars
  <2>2. (payout'[o].state # "none") <=> (payout[o].state # "none")
    <3> PICK p \in Orders :
           PayoutStarts(p) \/ PayoutSubmits(p) \/ PayoutGivesUp(p)
      BY <1>1 DEF PayoutStep
    <3>1. PICK s \in {"running", "done"} :
             /\ payout[p].state # "none"
             /\ payout' = [payout EXCEPT ![p].state = s]
      BY DEF PayoutStarts, PayoutSubmits, PayoutGivesUp
    <3> QED BY <3>1 DEF TypeOK, TailTypes, Payout
  <2> QED BY <2>1, <2>2 DEF ReapCount, Count
<1>2. CASE ChainStep \/ Tick \/ BackgroundFlush \/ FinalFlush
             \/ Interrupt \/ NoticeFailure \/ UNCHANGED vars
  <2>1. UNCHANGED <<table, cmQ, chainQ, payout>>
    BY <1>2 DEF ChainStep, EmptyBlock, Pay, Settle, Finalize, Tick,
                BackgroundFlush, FinalFlush, Interrupt, NoticeFailure, Cancel,
                vars, ledgerVars, managerVars, trackerVars, tailVars
  <2> QED BY <2>1 DEF ReapCount
<1> QED BY <1>1, <1>2

LEMMA BootReaps ==
    ASSUME cmQ = <<>>, chainQ = <<>>, payout = [o \in Orders |-> NoPayout]
    PROVE  ReapsArePaid
<1> SUFFICES ASSUME NEW o \in Orders
             PROVE  ReapCount(o) <= Count(IsPaid(table, o))
  BY DEF ReapsArePaid
<1>1. ReapCount(o) = 0
  BY ReapsOfEmpty DEF ReapCount, Count, NoPayout
<1> QED BY <1>1 DEF Count

LEMMA PayoutInvariant == Spec => []PayoutInv
<1>1. Init => PayoutInv
  BY InitTypeOK, BootReaps DEF Init, Boots, PayoutInv
<1>2. ASSUME PayoutInv, [Next]_vars PROVE PayoutInv'
  <2>1. TypeOK /\ TypeOK'
    BY <1>2, StepTypeOK DEF PayoutInv
  <2>2. CASE CrashAndRestart
    <3>1. cmQ' = <<>> /\ chainQ' = <<>> /\ payout' = [o \in Orders |-> NoPayout]
      BY <2>2 DEF CrashAndRestart
    <3>2. ReapsArePaid'
      <4> SUFFICES ASSUME NEW o \in Orders
                   PROVE  ReapCount(o)' <= Count(IsPaid(table', o))
        BY DEF ReapsArePaid
      <4>1. ReapCount(o)' = 0
        BY <3>1, ReapsOfEmpty DEF ReapCount, Count, NoPayout
      <4> QED BY <4>1 DEF Count
    <3> QED BY <2>1, <3>2 DEF PayoutInv
  <2>3. CASE ~CrashAndRestart
    <3> SUFFICES ASSUME NEW o \in Orders
                 PROVE  ReapCount(o)' <= Count(IsPaid(table', o))
      BY <2>1 DEF PayoutInv, ReapsArePaid
    <3>0. ReapCount(o)' \in Nat
      <4>1. cmQ' \in Seq(ManagerRequest) /\ chainQ' \in Seq(TrackerRequest)
        BY <2>1 DEF TypeOK, ManagerTypes, TrackerTypes
      <4>2. /\ Cardinality(Reaps(cmQ', o)) \in Nat
            /\ Cardinality(Reaps(chainQ', o)) \in Nat
        BY <4>1, ReapsFinite
      <4> QED BY <4>2 DEF ReapCount, Count
    <3>1. /\ ReapCount(o) <= Count(IsPaid(table, o)) /\ ReapCount(o) \in Nat
          /\ ReapCount(o)' \in Nat
      BY <1>2, <2>1, <3>0, CountTypes DEF PayoutInv, ReapsArePaid
    <3>2. /\ IsPaid(table, o) => IsPaid(table', o)
          /\ \/ ReapCount(o)' <= ReapCount(o)
             \/ /\ ReapCount(o)' = ReapCount(o) + 1
                /\ ~IsPaid(table, o) /\ IsPaid(table', o)
      <4>1. CASE HandlerStep
        BY <2>1, <3>1, <4>1, HandlerReaps
      <4>2. CASE RestoreStep \/ ClientStep
        BY <2>1, <3>1, <4>2, RestoreReaps
      <4>3. CASE ManagerStep \/ TrackerDiscarded
        BY <2>1, <4>3, ManagerReaps
      <4>4. CASE TrackerStep \/ TrackerFails \/ FeedBlock \/ FeedBreaks
        BY <2>1, <4>4, TrackerReaps
      <4>5. CASE PayoutStep \/ ChainStep \/ Tick \/ BackgroundFlush
                   \/ FinalFlush \/ Interrupt \/ NoticeFailure \/ UNCHANGED vars
        BY <2>1, <3>1, <4>5, OtherReaps
      <4> QED BY <1>2, <2>3, <4>1, <4>2, <4>3, <4>4, <4>5 DEF Next
    <3> QED BY <3>1, <3>2 DEF Count
  <2> QED BY <2>2, <2>3
<1> QED BY <1>1, <1>2, PTL DEF Spec

(* No order is paid out twice within one run of the process, however often *)
(* the tracker reports its payment, whatever is restored, resent, dropped  *)
(* or timed out (state.rs:125-138, tracker.rs:107-135 and 259-272).        *)
THEOREM PaidOutOnce == Spec => []OneReapPerOrder
<1>1. PayoutInv => OneReapPerOrder
  <2> SUFFICES ASSUME PayoutInv, NEW o \in Orders PROVE ReapCount(o) <= 1
    BY DEF OneReapPerOrder, ReapCount
  <2> QED BY CountTypes DEF PayoutInv, ReapsArePaid, Count
<1> QED BY <1>1, PayoutInvariant, PTL

(* Funds leave a payment account only after the ledger has recorded the    *)
(* payment (state.rs:126).                                                 *)
THEOREM PayoutFollowsRecord == Spec => []ReapIsRecorded
<1>1. PayoutInv => ReapIsRecorded
  <2> SUFFICES ASSUME PayoutInv, NEW o \in Orders,
                      \/ Reaps(cmQ, o) # {} \/ Reaps(chainQ, o) # {}
                      \/ payout[o].state # "none"
               PROVE  IsPaid(table, o)
    BY DEF ReapIsRecorded
  <2>1. TypeOK /\ ReapCount(o) <= Count(IsPaid(table, o))
    BY DEF PayoutInv, ReapsArePaid
  <2>2. /\ Reaps(cmQ, o) # {} => Cardinality(Reaps(cmQ, o)) # 0
        /\ Reaps(chainQ, o) # {} => Cardinality(Reaps(chainQ, o)) # 0
    BY <2>1, CountTypes, ReapsFinite, FS_EmptySet
  <2>3. ReapCount(o) >= 1
    BY <2>1, <2>2, CountTypes DEF ReapCount, Count
  <2> QED BY <2>1, <2>3, CountTypes DEF Count
<1> QED BY <1>1, PayoutInvariant, PTL
=============================================================================
