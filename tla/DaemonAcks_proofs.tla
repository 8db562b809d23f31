-------------------------- MODULE DaemonAcks_proofs --------------------------
(***************************************************************************)
(* Proof that no acknowledgement of the daemon is lost or doubled.  A      *)
(* request carries the oneshot of the task that waits for it; the proof    *)
(* counts, for each task, the places where its request or its answer can   *)
(* be, and follows that count through every step.                          *)
(***************************************************************************)
EXTENDS Daemon_proofs

-----------------------------------------------------------------------------
(* The requests of one task in a queue.                                    *)

IsRequest(m, w) == m.type # "block" /\ m.from = w

LEMMA RequestsAreMarked ==
    ASSUME NEW S, NEW q \in Seq(S), NEW w
    PROVE  RequestsOf(q, w) = Marked(q, {m \in S : IsRequest(m, w)})
BY DEF RequestsOf, Marked, IsRequest

LEMMA RequestsFinite ==
    ASSUME NEW S, NEW q \in Seq(S), NEW w
    PROVE  /\ IsFiniteSet(RequestsOf(q, w))
           /\ Cardinality(RequestsOf(q, w)) \in Nat
<1> DEFINE M == {m \in S : IsRequest(m, w)}
<1>1. RequestsOf(q, w) = Marked(q, M)
  BY RequestsAreMarked
<1> HIDE DEF M
<1> QED BY <1>1, MarkedFinite

LEMMA RequestsInEmpty ==
    ASSUME NEW w
    PROVE  Cardinality(RequestsOf(<<>>, w)) = 0
<1>1. RequestsOf(<<>>, w) = {}
  BY DEF RequestsOf
<1> QED BY <1>1, FS_EmptySet

LEMMA RequestsInAppend ==
    ASSUME NEW S, NEW q \in Seq(S), NEW m \in S, NEW w
    PROVE  Cardinality(RequestsOf(Append(q, m), w))
             = Cardinality(RequestsOf(q, w)) + Count(IsRequest(m, w))
<1> DEFINE M == {n \in S : IsRequest(n, w)}
<1>1. (m \in M) <=> IsRequest(m, w)
  OBVIOUS
<1>2. Append(q, m) \in Seq(S)
  OBVIOUS
<1>3. /\ RequestsOf(q, w) = Marked(q, M)
      /\ RequestsOf(Append(q, m), w) = Marked(Append(q, m), M)
  BY <1>2, RequestsAreMarked
<1> HIDE DEF M
<1> QED BY <1>1, <1>3, MarkedInAppend DEF Count

LEMMA RequestsInTail ==
    ASSUME NEW S, NEW q \in Seq(S), q # <<>>, NEW w
    PROVE  Cardinality(RequestsOf(Tail(q), w))
             = Cardinality(RequestsOf(q, w)) - Count(IsRequest(Head(q), w))
<1> DEFINE M == {n \in S : IsRequest(n, w)}
<1>1. Tail(q) \in Seq(S) /\ Head(q) \in S
  OBVIOUS
<1>2. (Head(q) \in M) <=> IsRequest(Head(q), w)
  BY <1>1
<1>3. /\ RequestsOf(q, w) = Marked(q, M)
      /\ RequestsOf(Tail(q), w) = Marked(Tail(q), M)
  BY <1>1, RequestsAreMarked
<1> HIDE DEF M
<1> QED BY <1>2, <1>3, MarkedInTail DEF Count

-----------------------------------------------------------------------------
(* The inductive invariant.  A task that waits has its request or its      *)
(* answer in one place.  That the manager stops on a shutdown request      *)
(* still in its channel, and that orders are restored once, keeps the      *)
(* count when the manager ends and when the handler starts; that an order  *)
(* has at most one Reap or payout (PayoutInv) keeps it when a payout is    *)
(* started.                                                                *)

Askers == {"handler", "restore"}

InFlight(w) ==
    Cardinality(RequestsOf(cmQ, w)) + Cardinality(RequestsOf(chainQ, w))
      + Cardinality(HeldFor(w)) + Count(ack[w] # "none")

Accounted(w) == IsFiniteSet(HeldFor(w)) /\ InFlight(w) = Count(Awaits(w))

StopsOnRequest == cm = "stopping" => cmQ # <<>> /\ Head(cmQ).type = "shutdown"

RestoresOnce == sh.pc = "starting" => restore = "off"

AckInv ==
    /\ PayoutInv
    /\ \A w \in Askers : Accounted(w)
    /\ StopsOnRequest /\ RestoresOnce

(* The numbers in question.                                                *)
LEMMA FlightTypes ==
    ASSUME AckInv, NEW w \in Askers
    PROVE  /\ cmQ \in Seq(ManagerRequest) /\ chainQ \in Seq(TrackerRequest)
           /\ ack \in [Waiters -> {"none", "ok", "dropped"}] /\ w \in Waiters
           /\ Cardinality(RequestsOf(cmQ, w)) \in Nat
           /\ Cardinality(RequestsOf(chainQ, w)) \in Nat
           /\ IsFiniteSet(HeldFor(w)) /\ Cardinality(HeldFor(w)) \in Nat
           /\ Count(ack[w] # "none") \in 0..1 /\ Count(Awaits(w)) \in 0..1
           /\ InFlight(w) = Count(Awaits(w))
<1>1. /\ cmQ \in Seq(ManagerRequest) /\ chainQ \in Seq(TrackerRequest)
      /\ ack \in [Waiters -> {"none", "ok", "dropped"}] /\ w \in Waiters
  BY DEF AckInv, PayoutInv, TypeOK, ManagerTypes, TrackerTypes, AckType,
         Waiters, Askers
<1>2. IsFiniteSet(HeldFor(w)) /\ InFlight(w) = Count(Awaits(w))
  BY DEF AckInv, Accounted
<1> QED BY <1>1, <1>2, RequestsFinite, FS_CardinalityType DEF Count

LEMMA OneInFlight ==
    ASSUME AckInv, NEW w \in Askers
    PROVE  Cardinality(RequestsOf(cmQ, w)) + Cardinality(RequestsOf(chainQ, w))
             + Count(ack[w] # "none") <= 1
<1> DEFINE a == Cardinality(RequestsOf(cmQ, w))
           b == Cardinality(RequestsOf(chainQ, w))
           h == Cardinality(HeldFor(w))
           c == Count(ack[w] # "none")
<1>1. a \in Nat /\ b \in Nat /\ h \in Nat /\ c \in Nat
  BY FlightTypes
<1>2. a + b + h + c = Count(Awaits(w)) /\ Count(Awaits(w)) \in 0..1
  BY FlightTypes DEF InFlight
<1> HIDE DEF a, b, h, c
<1>3. a + b + c <= 1
  BY <1>1, <1>2
<1> QED BY <1>3 DEF a, b, c

LEMMA NextFlight ==
    ASSUME TypeOK', NEW w
    PROVE  /\ Cardinality(RequestsOf(cmQ', w)) \in Nat
           /\ Cardinality(RequestsOf(chainQ', w)) \in Nat
<1>1. cmQ' \in Seq(ManagerRequest) /\ chainQ' \in Seq(TrackerRequest)
  BY DEF TypeOK, ManagerTypes, TrackerTypes
<1> QED BY <1>1, RequestsFinite

(* What a step has to keep track of.                                       *)
LEMMA NothingMoves ==
    ASSUME AckInv, NEW w \in Askers,
           UNCHANGED <<cmQ, chainQ, payout, ack>>, Awaits(w)' = Awaits(w)
    PROVE  Accounted(w)'
<1>1. Accounted(w)
  BY DEF AckInv
<1> QED BY <1>1 DEF Accounted, InFlight, HeldFor, Count

(* A step of another task moves a request or turns it into an answer.      *)
LEMMA RequestMoves ==
    ASSUME AckInv, TypeOK', NEW w \in Askers,
           UNCHANGED <<payout, sh, restore>>,
           Cardinality(RequestsOf(cmQ', w)) + Cardinality(RequestsOf(chainQ', w))
               + Count(ack'[w] # "none")
             = Cardinality(RequestsOf(cmQ, w)) + Cardinality(RequestsOf(chainQ, w))
               + Count(ack[w] # "none")
    PROVE  Accounted(w)'
<1>1. HeldFor(w)' = HeldFor(w) /\ Count(Awaits(w))' = Count(Awaits(w))
  BY DEF HeldFor, Count, Awaits
<1>2. Accounted(w) /\ Cardinality(HeldFor(w)) \in Nat
  BY FlightTypes DEF AckInv
<1>3. Count(ack'[w] # "none") \in 0..1 /\ Count(ack[w] # "none") \in 0..1
  BY DEF Count
<1>4. InFlight(w)' = InFlight(w)
  BY <1>1, <1>2, <1>3, FlightTypes, NextFlight DEF InFlight
<1> QED BY <1>1, <1>2, <1>4 DEF Accounted

LEMMA RequestSent ==
    ASSUME AckInv, NEW w \in Askers, NEW m \in ManagerRequest,
           m.type # "block", cmQ' = Append(cmQ, m),
           UNCHANGED <<chainQ, payout, ack>>,
           ~Awaits(m.from), Awaits(m.from)',
           w # m.from => Awaits(w)' = Awaits(w)
    PROVE  Accounted(w)'
<1>1. Cardinality(RequestsOf(cmQ', w))
        = Cardinality(RequestsOf(cmQ, w)) + Count(m.from = w)
  BY FlightTypes, RequestsInAppend DEF IsRequest, Count
<1>2. Count(Awaits(w)') = Count(Awaits(w)) + Count(m.from = w)
  BY DEF Count
<1>3. HeldFor(w)' = HeldFor(w)
  BY DEF HeldFor
<1> QED BY <1>1, <1>2, <1>3, FlightTypes DEF Accounted, InFlight, Count

LEMMA AnswerTaken ==
    ASSUME AckInv, NEW w \in Askers, NEW v \in Askers,
           ack[v] # "none", ack' = [ack EXCEPT ![v] = "none"],
           UNCHANGED <<cmQ, chainQ, payout>>,
           Awaits(v), ~Awaits(v)', w # v => Awaits(w)' = Awaits(w)
    PROVE  Accounted(w)'
<1>1. Count(ack'[w] # "none") = Count(ack[w] # "none") - Count(v = w)
  BY FlightTypes DEF Count
<1>2. Count(Awaits(w)') = Count(Awaits(w)) - Count(v = w)
  BY DEF Count
<1>3. HeldFor(w)' = HeldFor(w)
  BY DEF HeldFor
<1> QED BY <1>1, <1>2, <1>3, FlightTypes DEF Accounted, InFlight, Count

(* A channel that goes answers every request in it: whoever has one there  *)
(* has no answer yet.                                                      *)
LEMMA DroppedIsAnswered ==
    ASSUME AckInv, NEW w \in Askers, NEW S, NEW q \in Seq(S),
           Cardinality(RequestsOf(q, w)) + Count(ack[w] # "none") <= 1
    PROVE  Count(AckDropped(ack, q)[w] # "none")
             = Cardinality(RequestsOf(q, w)) + Count(ack[w] # "none")
<1>1. /\ w \in Waiters /\ ack \in [Waiters -> {"none", "ok", "dropped"}]
      /\ IsFiniteSet(RequestsOf(q, w)) /\ Cardinality(RequestsOf(q, w)) \in Nat
  BY FlightTypes, RequestsFinite
<1>2. w \in DroppedBy(q) <=> RequestsOf(q, w) # {}
  BY <1>1 DEF DroppedBy, RequestsOf
<1>3. Cardinality(RequestsOf(q, w)) = 0 <=> RequestsOf(q, w) = {}
  BY <1>1, FS_EmptySet
<1>4. AckDropped(ack, q)[w] = IF w \in DroppedBy(q) THEN "dropped" ELSE ack[w]
  BY <1>1 DEF AckDropped
<1> QED BY <1>1, <1>2, <1>3, <1>4 DEF Count

-----------------------------------------------------------------------------
(* The waiting tasks.                                                      *)

LEMMA HandlerAcks ==
    ASSUME AckInv, HandlerStep, NEW w \in Askers
    PROVE  Accounted(w)'
<1> USE DEF Askers
<1>0. ASSUME NEW c, NEW next, NEW rest, Reply(c, next, rest)
      PROVE  sh'.pc \in {"idle", "failed"}
  BY <1>0 DEF Reply, HandlerEnds, Idle
<1>1. CASE ReadOrderList \/ ConnectChain \/ IsCurrencySupported \/ GetStatus
             \/ OldInvoice \/ RefusePaid
  <2>1. /\ UNCHANGED <<cmQ, chainQ, payout, ack>>
        /\ sh.pc \in {"starting", "idle"}
    BY <1>1 DEF ReadOrderList, ConnectChain, IsCurrencySupported, GetStatus,
                OldInvoice, RefusePaid, Takes, managerVars, trackerVars,
                tailVars
  <2>2. sh'.pc \in {"idle", "failed"}
    BY <1>0, <1>1, <2>1
       DEF ReadOrderList, ConnectChain, IsCurrencySupported, GetStatus,
           OldInvoice, RefusePaid, Takes, Idle
  <2>3. \/ restore # "waiting" /\ restore' # "waiting"
        \/ restore' = restore
    BY <1>1 DEF ReadOrderList, ConnectChain, IsCurrencySupported, GetStatus,
                OldInvoice, RefusePaid, restoreVars, AckInv, RestoresOnce
  <2>4. Awaits(w)' = Awaits(w)
    BY <2>1, <2>2, <2>3 DEF Awaits
  <2> QED BY <2>1, <2>4, NothingMoves
<1>2. CASE NewInvoice \/ RecordPaid \/ BeginShutdown
  <2>1. \E m \in ManagerRequest :
           m.type # "block" /\ m.from = "handler" /\ cmQ' = Append(cmQ, m)
    <3>1. CASE NewInvoice
      <4> DEFINE o == Head(stateQ).order
                 m == WatchAccount("watch", o, table'[o], "handler")
      <4>1. cmQ' = Append(cmQ, m) /\ table' = Created(Head(stateQ)).table
        BY <3>1 DEF NewInvoice
      <4>2. o \in Orders /\ table'[o] \in OrderInfo
        BY <3>1, <4>1, TakenCreate
           DEF NewInvoice, AckInv, PayoutInv, IsPending, IsKnown, Table
      <4>3. m \in ManagerRequest /\ m.type = "watch" /\ m.from = "handler"
        BY <4>2, WatchAccountType DEF WatchAccount
      <4> QED BY <4>1, <4>3
    <3>2. CASE RecordPaid
      <4> DEFINE o == Head(stateQ).order
                 m == WatchAccount("reap", o, table'[o], "handler")
      <4>1. /\ cmQ' = Append(cmQ, m) /\ table' = mark_paid(table, o).table
            /\ mark_paid(table, o).reply = "Ok"
        BY <3>2 DEF RecordPaid
      <4>2. o \in Orders /\ table'[o] \in OrderInfo
        BY <3>2, <4>1, TakenPaid
           DEF RecordPaid, AckInv, PayoutInv, IsPaid, IsKnown, Table
      <4>3. m \in ManagerRequest /\ m.type = "reap" /\ m.from = "handler"
        BY <4>2, WatchAccountType DEF WatchAccount
      <4> QED BY <4>1, <4>3
    <3>3. CASE BeginShutdown
      <4> DEFINE m == [type |-> "shutdown", from |-> "handler"]
      <4>1. cmQ' = Append(cmQ, m)
        BY <3>3 DEF BeginShutdown
      <4>2. m \in ManagerRequest /\ m.type = "shutdown" /\ m.from = "handler"
        BY DEF ManagerRequest
      <4> QED BY <4>1, <4>2
    <3> QED BY <1>2, <3>1, <3>2, <3>3
  <2>2. /\ UNCHANGED <<chainQ, payout, ack, restore>> /\ sh.pc = "idle"
        /\ sh'.pc \in {"adding", "reaping", "closing"}
    BY <1>2 DEF NewInvoice, RecordPaid, BeginShutdown, Takes, restoreVars,
                trackerVars, tailVars
  <2>3. /\ ~Awaits("handler") /\ Awaits("handler")'
        /\ w # "handler" => Awaits(w)' = Awaits(w)
    BY <2>2 DEF Awaits
  <2> QED BY <2>1, <2>2, <2>3, RequestSent
<1>3. CASE InvoiceAdded \/ ReapAnswered \/ FinishShutdown
  <2>1. /\ UNCHANGED <<cmQ, chainQ, payout, restore>>
        /\ ack["handler"] # "none" /\ ack' = [ack EXCEPT !["handler"] = "none"]
        /\ sh.pc \in {"adding", "reaping", "closing"}
    BY <1>3 DEF InvoiceAdded, ReapAnswered, FinishShutdown, managerVars,
                restoreVars, trackerVars, tailVars
  <2>2. sh'.pc \in {"idle", "failed", "done"}
    BY <1>0, <1>3 DEF InvoiceAdded, ReapAnswered, FinishShutdown, HandlerEnds,
                      Idle
  <2>3. /\ Awaits("handler") /\ ~Awaits("handler")'
        /\ w # "handler" => Awaits(w)' = Awaits(w)
    BY <2>1, <2>2 DEF Awaits
  <2> QED BY <2>1, <2>3, AnswerTaken
<1> QED BY <1>1, <1>2, <1>3 DEF HandlerStep

LEMMA RestoreAcks ==
    ASSUME AckInv, RestoreStep, NEW w \in Askers
    PROVE  Accounted(w)'
<1> USE DEF Askers
<1>1. ASSUME NEW o \in Orders, RestoreOrder(o) PROVE Accounted(w)'
  <2> DEFINE m == WatchAccount("watch", o, restoring[o], "restore")
  <2>1. UNCHANGED <<chainQ, payout, ack, sh>> /\ restore = "sending"
    BY <1>1 DEF RestoreOrder, handlerVars, trackerVars, tailVars
  <2>2. CASE cmQ' = Append(cmQ, m) /\ restore' = "waiting"
    <3>1. restoring[o] \in OrderInfo
      BY <1>1 DEF RestoreOrder, AckInv, PayoutInv, TypeOK, RestoreTypes, Table
    <3>2. m \in ManagerRequest /\ m.type = "watch" /\ m.from = "restore"
      BY <3>1, WatchAccountType DEF WatchAccount
    <3>3. /\ ~Awaits("restore") /\ Awaits("restore")'
          /\ w # "restore" => Awaits(w)' = Awaits(w)
      BY <2>1, <2>2 DEF Awaits
    <3> HIDE DEF m
    <3> QED BY <2>1, <2>2, <3>2, <3>3, RequestSent
  <2>3. CASE UNCHANGED <<cmQ, restore>>
    <3>1. Awaits(w)' = Awaits(w)
      BY <2>1, <2>3 DEF Awaits
    <3> QED BY <2>1, <2>3, <3>1, NothingMoves
  <2> QED BY <1>1, <2>2, <2>3 DEF RestoreOrder
<1>2. CASE OrderRestored
  <2>1. /\ UNCHANGED <<cmQ, chainQ, payout, sh>> /\ restore = "waiting"
        /\ restore' = "sending" /\ ack["restore"] # "none"
        /\ ack' = [ack EXCEPT !["restore"] = "none"]
    BY <1>2 DEF OrderRestored, handlerVars, managerVars, trackerVars, tailVars
  <2>2. /\ Awaits("restore") /\ ~Awaits("restore")'
        /\ w # "restore" => Awaits(w)' = Awaits(w)
    BY <2>1 DEF Awaits
  <2> QED BY <2>1, <2>2, AnswerTaken
<1>3. CASE AllRestored
  <2>1. /\ UNCHANGED <<cmQ, chainQ, payout, ack, sh>>
        /\ restore # "waiting" /\ restore' # "waiting"
    BY <1>3 DEF AllRestored, handlerVars, managerVars, trackerVars, tailVars
  <2>2. Awaits(w)' = Awaits(w)
    BY <2>1 DEF Awaits
  <2> QED BY <2>1, <2>2, NothingMoves
<1> QED BY <1>1, <1>2, <1>3 DEF RestoreStep

-----------------------------------------------------------------------------
(* The manager passes a request on, or answers for a tracker that is gone. *)

LEMMA ManagerAcks ==
    ASSUME AckInv, TypeOK', ManagerStep \/ TrackerDiscarded, NEW w \in Askers
    PROVE  Accounted(w)'
<1> USE DEF Askers
<1>0. TypeOK
  BY DEF AckInv, PayoutInv
<1>1. UNCHANGED <<payout, sh, restore>>
  BY DEF ManagerStep, Forward, StopTracker, TrackerAnswered, TrackerDiscarded,
         NoTrackerToStop, ManagerEnds, ManagerChannelClosed, handlerVars,
         restoreVars, tailVars
<1>3. CASE Forward
  <2> DEFINE m == Head(cmQ)
  <2>1. /\ cmQ # <<>> /\ cmQ' = Tail(cmQ) /\ m \in TrackerRequest
        /\ m.type # "block" /\ m.from \in Askers
    BY <1>0, <1>3, ManagerRequestParts
       DEF Forward, Serves, AccountRequest
  <2>2. Cardinality(RequestsOf(cmQ', w))
          = Cardinality(RequestsOf(cmQ, w)) - Count(m.from = w)
    <3>1. Cardinality(RequestsOf(cmQ', w))
            = Cardinality(RequestsOf(cmQ, w)) - Count(IsRequest(m, w))
      BY <2>1, FlightTypes, RequestsInTail
    <3> QED BY <2>1, <3>1 DEF IsRequest
  <2> HIDE DEF m
  <2>4. CASE chainQ' = Append(chainQ, m) /\ ack' = ack
    <3>1. Cardinality(RequestsOf(chainQ', w))
            = Cardinality(RequestsOf(chainQ, w)) + Count(m.from = w)
      BY <2>1, <2>4, FlightTypes, RequestsInAppend DEF IsRequest
    <3> QED BY <1>1, <2>2, <2>4, <3>1, FlightTypes, RequestMoves DEF Count
  <2>5. CASE chainQ' = chainQ /\ ack' = [ack EXCEPT ![m.from] = "dropped"]
    <3>1. m.from = w => ack[w] = "none"
      BY <2>2, NextFlight, OneInFlight, FlightTypes DEF Count
    <3>2. Count(ack'[w] # "none") = Count(ack[w] # "none") + Count(m.from = w)
      BY <2>5, <3>1, FlightTypes DEF Count
    <3> QED BY <1>1, <2>2, <2>5, <3>2, FlightTypes, RequestMoves DEF Count
  <2> QED BY <1>3, <2>4, <2>5 DEF Forward, m
<1>4. CASE StopTracker
  <2> DEFINE m == [type |-> "shutdown", from |-> "manager"]
  <2>1. chainQ' = Append(chainQ, m) /\ UNCHANGED <<cmQ, ack>>
    BY <1>4 DEF StopTracker
  <2>2. m \in TrackerRequest /\ ~IsRequest(m, w)
    BY DEF TrackerRequest, IsRequest
  <2> HIDE DEF m
  <2>3. Cardinality(RequestsOf(chainQ', w)) = Cardinality(RequestsOf(chainQ, w))
    BY <2>1, <2>2, FlightTypes, RequestsInAppend DEF Count
  <2> QED BY <1>1, <2>1, <2>3, RequestMoves
<1>5. ASSUME ManagerEnds, cmQ # <<>>, Head(cmQ).type = "shutdown"
      PROVE  Accounted(w)'
  <2>1. /\ cmQ' = <<>> /\ chainQ' = chainQ
        /\ ack' = [AckDropped(ack, Tail(cmQ)) EXCEPT !["handler"] = "ok"]
    BY <1>5 DEF ManagerEnds, trackerVars
  <2>2. IsRequest(Head(cmQ), w) <=> w = "handler"
    BY <1>5, FlightTypes DEF ManagerRequest, AccountRequest, IsRequest
  <2> DEFINE before == Cardinality(RequestsOf(cmQ, w))
             rest == Cardinality(RequestsOf(Tail(cmQ), w))
             answered == Count(ack[w] # "none")
  <2>3. Tail(cmQ) \in Seq(ManagerRequest) /\ rest \in Nat
    <3>1. Tail(cmQ) \in Seq(ManagerRequest)
      BY <1>5, FlightTypes
    <3> QED BY <3>1, RequestsFinite
  <2>4. rest = before - Count(w = "handler")
    <3>1. rest = before - Count(IsRequest(Head(cmQ), w))
      BY <1>5, FlightTypes, RequestsInTail
    <3> QED BY <2>2, <3>1 DEF Count
  <2>5. before \in Nat /\ answered \in 0..1 /\ before + answered <= 1
    <3>1. Cardinality(RequestsOf(chainQ, w)) \in Nat
      BY FlightTypes
    <3> QED BY <3>1, FlightTypes, OneInFlight
  <2>6. Count(AckDropped(ack, Tail(cmQ))[w] # "none") = rest + answered
    <3>1. rest + answered <= 1
      BY <2>3, <2>4, <2>5 DEF Count
    <3> QED BY <2>3, <3>1, DroppedIsAnswered
  <2>7. /\ w = "handler" => ack'[w] = "ok"
        /\ w # "handler" => ack'[w] = AckDropped(ack, Tail(cmQ))[w]
    BY <2>1 DEF AckDropped, Waiters
  <2> HIDE DEF before, rest, answered
  <2>8. Count(ack'[w] # "none") = before + answered
    BY <2>3, <2>4, <2>5, <2>6, <2>7 DEF Count
  <2>9. Cardinality(RequestsOf(cmQ', w)) = 0
    BY <2>1, RequestsInEmpty
  <2>10. Count(ack'[w] # "none")
           = Cardinality(RequestsOf(cmQ, w)) + Count(ack[w] # "none")
    BY <2>8 DEF before, answered
  <2> QED BY <1>1, <2>1, <2>9, <2>10, FlightTypes, RequestMoves
<1>6. CASE TrackerAnswered \/ TrackerDiscarded
  BY <1>5, <1>6 DEF TrackerAnswered, TrackerDiscarded, AckInv, StopsOnRequest
<1>7. CASE NoTrackerToStop
  BY <1>5, <1>7 DEF NoTrackerToStop, Serves
<1>8. CASE ManagerChannelClosed
  BY <1>1, <1>8, NothingMoves DEF ManagerChannelClosed, trackerVars, Awaits
<1> QED BY <1>3, <1>4, <1>6, <1>7, <1>8 DEF ManagerStep

-----------------------------------------------------------------------------
(* The tracker answers the requests it takes, and those it drops; a Reap   *)
(* is answered by the payout task it starts.                               *)

LEMMA TrackerDropsAll ==
    ASSUME AckInv, TypeOK', NEW w \in Askers, NEW rest \in Seq(TrackerRequest),
           Cardinality(RequestsOf(rest, w)) = Cardinality(RequestsOf(chainQ, w)),
           chainQ' = <<>>, ack'[w] = AckDropped(ack, rest)[w],
           UNCHANGED <<cmQ, payout, sh, restore>>
    PROVE  Accounted(w)'
<1>1. Cardinality(RequestsOf(rest, w)) + Count(ack[w] # "none") <= 1
  BY FlightTypes, OneInFlight DEF Count
<1>2. Count(ack'[w] # "none")
        = Cardinality(RequestsOf(chainQ, w)) + Count(ack[w] # "none")
  BY <1>1, DroppedIsAnswered
<1>3. Cardinality(RequestsOf(chainQ', w)) = 0
  BY RequestsInEmpty
<1> QED BY <1>2, <1>3, FlightTypes, RequestMoves DEF Count

(* The head of the tracker's channel, counted.                             *)
LEMMA TrackerTakes ==
    ASSUME AckInv, TypeOK', NEW w \in Askers, chainQ # <<>>
    PROVE  /\ Head(chainQ) \in TrackerRequest
           /\ Tail(chainQ) \in Seq(TrackerRequest)
           /\ Cardinality(RequestsOf(Tail(chainQ), w)) \in Nat
           /\ Cardinality(RequestsOf(Tail(chainQ), w))
                = Cardinality(RequestsOf(chainQ, w))
                  - Count(IsRequest(Head(chainQ), w))
<1>1. chainQ \in Seq(TrackerRequest)
  BY FlightTypes
<1>2. Head(chainQ) \in TrackerRequest /\ Tail(chainQ) \in Seq(TrackerRequest)
  BY <1>1
<1> QED BY <1>1, <1>2, RequestsFinite, RequestsInTail

LEMMA PayoutAcks ==
    ASSUME AckInv, TypeOK', StartPayout, NEW w \in Askers
    PROVE  Accounted(w)'
<1> DEFINE m == Head(chainQ)
           o == m.order
<1>1. /\ chainQ # <<>> /\ chainQ' = Tail(chainQ) /\ m.type = "reap"
      /\ UNCHANGED <<cmQ, ack, sh, restore>>
      /\ payout' = [payout EXCEPT ![o] =
                      [state |-> "spawned", amount |-> m.amount,
                       from |-> m.from]]
  BY DEF StartPayout, TakesNext, handlerVars, restoreVars, managerVars
<1>2. TypeOK /\ o \in Orders /\ m.from \in Askers
  BY <1>1, TrackerRequestParts DEF AckInv, PayoutInv, Askers
<1>3. payout \in [Orders -> Payout]
  BY <1>2 DEF TypeOK, TailTypes
<1>4. payout[o].state = "none"
  <2> DEFINE a == Cardinality(Reaps(cmQ, o))
             b == Cardinality(Reaps(chainQ, o))
  <2>1. chainQ \in Seq(TrackerRequest) /\ Tail(chainQ) \in Seq(TrackerRequest)
    BY <1>1, FlightTypes
  <2>2. Cardinality(Reaps(Tail(chainQ), o)) = b - 1
    BY <1>1, <2>1, ReapsOfTail DEF IsReap, Count
  <2>3. Cardinality(Reaps(Tail(chainQ), o)) \in Nat
    BY <2>1, ReapsFinite
  <2>4. a \in Nat /\ b \in Nat /\ a + b + Count(payout[o].state # "none") <= 1
    BY <1>2, CountTypes DEF AckInv, PayoutInv, ReapsArePaid, ReapCount, Count
  <2> HIDE DEF a, b, o, m
  <2> QED BY <2>2, <2>3, <2>4 DEF Count
<1> HIDE DEF o
<1>5. Cardinality(RequestsOf(chainQ', w))
        = Cardinality(RequestsOf(chainQ, w)) - Count(m.from = w)
  <2>1. IsRequest(m, w) <=> m.from = w
    BY <1>1 DEF IsRequest
  <2> QED BY <1>1, <2>1, TrackerTakes DEF Count
<1>6. o \notin HeldFor(w)
  BY <1>4 DEF HeldFor
<1>7. HeldFor(w)' = IF m.from = w THEN HeldFor(w) \cup {o} ELSE HeldFor(w)
  <2>1. \A p \in Orders : p # o => payout'[p] = payout[p]
    BY <1>1, <1>3
  <2>2. payout'[o].state = "spawned" /\ payout'[o].from = m.from
    BY <1>1, <1>2, <1>3
  <2> QED BY <1>2, <1>6, <2>1, <2>2 DEF HeldFor
<1>8. /\ IsFiniteSet(HeldFor(w)')
      /\ Cardinality(HeldFor(w)')
           = Cardinality(HeldFor(w)) + Count(m.from = w)
  <2>1. IsFiniteSet(HeldFor(w)) /\ Cardinality(HeldFor(w)) \in Nat
    BY FlightTypes
  <2>2. CASE m.from = w
    BY <1>6, <1>7, <2>1, <2>2, FS_AddElement DEF Count
  <2>3. CASE m.from # w
    BY <1>7, <2>1, <2>3 DEF Count
  <2> QED BY <2>2, <2>3
<1> HIDE DEF m
<1>9. Awaits(w)' = Awaits(w)
  BY <1>1 DEF Awaits
<1>10. InFlight(w)' = InFlight(w)
  <2> DEFINE a == Cardinality(RequestsOf(cmQ, w))
             b == Cardinality(RequestsOf(chainQ, w))
             h == Cardinality(HeldFor(w))
             c == Count(ack[w] # "none")
             d == Count(m.from = w)
  <2>1. a \in Nat /\ b \in Nat /\ h \in Nat /\ c \in Nat /\ d \in 0..1
    BY FlightTypes DEF Count
  <2>2. InFlight(w) = a + b + h + c /\ InFlight(w)' = a + (b - d) + (h + d) + c
    BY <1>1, <1>5, <1>8 DEF InFlight
  <2> HIDE DEF a, b, h, c, d
  <2> QED BY <2>1, <2>2
<1> QED BY <1>8, <1>9, <1>10, FlightTypes DEF Accounted

LEMMA TrackerAcks ==
    ASSUME AckInv, TypeOK', NEW w \in Askers,
           TrackerStep \/ TrackerFails \/ FeedBlock \/ FeedBreaks
    PROVE  Accounted(w)'
<1>0. TypeOK
  BY DEF AckInv, PayoutInv
<1>1. UNCHANGED <<cmQ, sh, restore>>
  BY DEF TrackerStep, TrackerFails, FeedBlock, FeedBreaks, Connect,
         CancelledAtRotation, Announce, order_paid, LoopDone, RecheckAccount,
         ScanAccount, ScanBlock, LoseBlock, StartWatching, StartPayout,
         ShutDownTracker, Watchdog, handlerVars, restoreVars, managerVars
<1>2. CASE Connect \/ Announce \/ order_paid \/ LoopDone \/ Watchdog
             \/ FeedBreaks \/ \E p \in Orders : RecheckAccount(p) \/ ScanAccount(p)
  <2>1. UNCHANGED <<cmQ, chainQ, payout, ack>>
    BY <1>2 DEF Connect, Announce, order_paid, LoopDone, Watchdog, FeedBreaks,
                RecheckAccount, ScanAccount, managerVars, tailVars
  <2> QED BY <1>1, <2>1, NothingMoves DEF Awaits
<1>3. CASE CancelledAtRotation
  <2>1. chainQ' = <<>> /\ ack' = AckDropped(ack, chainQ) /\ payout' = payout
    BY <1>3 DEF CancelledAtRotation, TrackerEnds, tailVars
  <2> QED BY <1>1, <2>1, FlightTypes, TrackerDropsAll
<1>4. CASE TrackerFails \/ ShutDownTracker
  <2>1. /\ chainQ # <<>> /\ Head(chainQ).type \in {"block", "shutdown"}
        /\ chainQ' = <<>> /\ payout' = payout
    BY <1>4 DEF TrackerFails, ShutDownTracker, TakesNext, TrackerEnds, tailVars
  <2>2. ~IsRequest(Head(chainQ), w)
    BY <2>1, TrackerTakes DEF IsRequest, TrackerRequest, AccountRequest, Askers
  <2>3. ack'[w] = AckDropped(ack, Tail(chainQ))[w]
    BY <1>4 DEF TrackerFails, ShutDownTracker, TrackerEnds, AckDropped, Askers,
                Waiters
  <2>4. /\ Tail(chainQ) \in Seq(TrackerRequest)
        /\ Cardinality(RequestsOf(Tail(chainQ), w))
             = Cardinality(RequestsOf(chainQ, w))
    BY <2>1, <2>2, TrackerTakes, FlightTypes DEF Count
  <2> QED BY <1>1, <2>1, <2>3, <2>4, TrackerDropsAll
<1>5. CASE ScanBlock \/ LoseBlock
  <2>1. /\ chainQ # <<>> /\ Head(chainQ).type = "block"
        /\ chainQ' = Tail(chainQ) /\ UNCHANGED <<payout, ack>>
    BY <1>5 DEF ScanBlock, LoseBlock, TakesNext, tailVars
  <2>2. ~IsRequest(Head(chainQ), w)
    BY <2>1 DEF IsRequest
  <2>3. Cardinality(RequestsOf(chainQ', w)) = Cardinality(RequestsOf(chainQ, w))
    BY <2>1, <2>2, TrackerTakes, FlightTypes DEF Count
  <2> QED BY <1>1, <2>1, <2>3, RequestMoves
<1>6. CASE StartWatching
  <2> DEFINE m == Head(chainQ)
  <2>1. /\ chainQ # <<>> /\ m.type = "watch" /\ chainQ' = Tail(chainQ)
        /\ payout' = payout /\ ack' = [ack EXCEPT ![m.from] = "ok"]
    BY <1>6 DEF StartWatching, TakesNext, tailVars
  <2>2. IsRequest(m, w) <=> m.from = w
    BY <2>1 DEF IsRequest
  <2>3. Cardinality(RequestsOf(chainQ', w))
          = Cardinality(RequestsOf(chainQ, w)) - Count(m.from = w)
    BY <2>1, <2>2, TrackerTakes DEF Count
  <2>4. m.from \in Askers
    BY <1>0, <2>1, TrackerRequestParts DEF Askers
  <2> HIDE DEF m
  <2>5. m.from = w => ack[w] = "none"
    BY <2>3, NextFlight, OneInFlight, FlightTypes DEF Count
  <2>6. Count(ack'[w] # "none") = Count(ack[w] # "none") + Count(m.from = w)
    BY <2>1, <2>5, FlightTypes DEF Count
  <2> QED BY <1>1, <2>1, <2>3, <2>6, FlightTypes, RequestMoves DEF Count
<1>7. CASE FeedBlock
  <2> DEFINE m == [type |-> "block", block |-> feed]
  <2>1. chainQ' = Append(chainQ, m) /\ UNCHANGED <<payout, ack>>
    BY <1>7 DEF FeedBlock, tailVars
  <2>2. m \in TrackerRequest /\ ~IsRequest(m, w)
    BY <1>0 DEF TrackerRequest, IsRequest, TypeOK, TrackerTypes
  <2> HIDE DEF m
  <2>3. Cardinality(RequestsOf(chainQ', w)) = Cardinality(RequestsOf(chainQ, w))
    BY <2>1, <2>2, FlightTypes, RequestsInAppend DEF Count
  <2> QED BY <1>1, <2>1, <2>3, RequestMoves
<1>8. CASE StartPayout
  BY <1>8, PayoutAcks
<1> QED BY <1>2, <1>3, <1>4, <1>5, <1>6, <1>7, <1>8 DEF TrackerStep

LEMMA PayoutStartAcks ==
    ASSUME AckInv, NEW o \in Orders, PayoutStarts(o), NEW w \in Askers
    PROVE  Accounted(w)'
<1> DEFINE from == payout[o].from
<1>1. /\ payout[o].state = "spawned" /\ ack' = [ack EXCEPT ![from] = "ok"]
      /\ payout' = [payout EXCEPT ![o].state = "running"]
      /\ UNCHANGED <<cmQ, chainQ, sh, restore>>
  BY DEF PayoutStarts, handlerVars, restoreVars, managerVars, trackerVars
<1>2. payout \in [Orders -> Payout] /\ from \in Askers
  BY DEF AckInv, PayoutInv, TypeOK, TailTypes, Payout, Askers
<1>3. o \in HeldFor(w) <=> from = w
  BY <1>1 DEF HeldFor
<1>4. HeldFor(w)' = HeldFor(w) \ {o}
  <2>1. \A p \in Orders : p # o => payout'[p] = payout[p]
    BY <1>1, <1>2
  <2>2. payout'[o].state = "running"
    BY <1>1, <1>2 DEF Payout
  <2> QED BY <2>1, <2>2 DEF HeldFor
<1>5. /\ IsFiniteSet(HeldFor(w)') /\ Cardinality(HeldFor(w)') \in Nat
      /\ Cardinality(HeldFor(w)') = Cardinality(HeldFor(w)) - Count(from = w)
  BY <1>3, <1>4, FlightTypes, FS_RemoveElement, FS_CardinalityType DEF Count
<1> HIDE DEF from
<1> DEFINE a == Cardinality(RequestsOf(cmQ, w))
           b == Cardinality(RequestsOf(chainQ, w))
           h == Cardinality(HeldFor(w))
           c == Count(ack[w] # "none")
           d == Count(from = w)
<1>6. /\ a \in Nat /\ b \in Nat /\ h \in Nat /\ c \in Nat /\ d \in 0..1
      /\ InFlight(w) = a + b + h + c /\ InFlight(w) <= 1 /\ h - d \in Nat
  BY <1>5, FlightTypes DEF InFlight, Count
<1>7. from = w => ack[w] = "none"
  <2>1. from = w => d = 1
    BY DEF Count
  <2>2. c = 0 => ack[w] = "none"
    BY DEF Count
  <2> HIDE DEF a, b, h, c, d
  <2> QED BY <1>6, <2>1, <2>2
<1>8. Count(ack'[w] # "none") = c + d
  BY <1>1, <1>7, FlightTypes DEF Count
<1>9. InFlight(w)' = a + b + (h - d) + (c + d)
  BY <1>1, <1>5, <1>8 DEF InFlight
<1>10. InFlight(w)' = InFlight(w)
  <2> HIDE DEF a, b, h, c, d
  <2> QED BY <1>6, <1>9
<1>11. Awaits(w)' = Awaits(w)
  BY <1>1 DEF Awaits
<1> QED BY <1>5, <1>10, <1>11, FlightTypes DEF Accounted

LEMMA OtherAcks ==
    ASSUME AckInv, NEW w \in Askers,
           \/ ClientStep \/ PayoutStep \/ ChainStep \/ Tick \/ BackgroundFlush
           \/ FinalFlush \/ Interrupt \/ NoticeFailure \/ UNCHANGED vars
    PROVE  Accounted(w)'
<1>1. ASSUME NEW o \in Orders, PayoutSubmits(o) \/ PayoutGivesUp(o)
      PROVE  Accounted(w)'
  <2>1. /\ UNCHANGED <<cmQ, chainQ, ack, sh, restore>>
        /\ payout[o].state = "running"
        /\ payout' = [payout EXCEPT ![o].state = "done"]
    BY <1>1 DEF PayoutSubmits, PayoutGivesUp, handlerVars, restoreVars,
                managerVars, trackerVars
  <2>2. payout \in [Orders -> Payout]
    BY DEF AckInv, PayoutInv, TypeOK, TailTypes
  <2>3. \A p \in Orders : /\ p # o => payout'[p] = payout[p]
                          /\ payout'[o].state = "done"
    BY <2>1, <2>2 DEF Payout
  <2>4. HeldFor(w)' = HeldFor(w) /\ Awaits(w)' = Awaits(w)
    BY <2>1, <2>3 DEF HeldFor, Awaits
  <2> QED BY <2>1, <2>4, FlightTypes DEF Accounted, InFlight, Count
<1>2. CASE \/ ClientStep \/ ChainStep \/ Tick \/ BackgroundFlush \/ FinalFlush
           \/ Interrupt \/ NoticeFailure \/ UNCHANGED vars
  <2>1. UNCHANGED <<cmQ, chainQ, payout, ack, sh, restore>>
    BY <1>2 DEF ClientStep, RequestStatus, CheckCurrency, CreateOrder, Ask,
                GiveUp, Disconnect, ChainStep, EmptyBlock, Pay, Settle,
                Finalize, Tick, BackgroundFlush, FinalFlush, Interrupt,
                NoticeFailure, Cancel, vars, handlerVars, restoreVars,
                managerVars, trackerVars, tailVars
  <2> QED BY <2>1, NothingMoves DEF Awaits
<1> QED BY <1>1, <1>2, PayoutStartAcks DEF PayoutStep

-----------------------------------------------------------------------------
(* A started process, and the two facts about its course.                  *)

LEMMA BootAcks ==
    ASSUME Boots, NEW w \in Askers
    PROVE  Accounted(w)
<1>1. HeldFor(w) = {} /\ ~Awaits(w) /\ ack[w] = "none"
  BY DEF Boots, HeldFor, NoPayout, Awaits, Askers, Waiters
<1>2. /\ Cardinality(RequestsOf(cmQ, w)) = 0
      /\ Cardinality(RequestsOf(chainQ, w)) = 0
  BY RequestsInEmpty DEF Boots
<1>3. IsFiniteSet(HeldFor(w)) /\ Cardinality(HeldFor(w)) = 0
  BY <1>1, FS_EmptySet
<1> QED BY <1>1, <1>2, <1>3 DEF Accounted, InFlight, Count

LEMMA CrashAcks ==
    ASSUME CrashAndRestart, NEW w \in Askers
    PROVE  Accounted(w)'
<1>1. HeldFor(w)' = {} /\ ~Awaits(w)' /\ ack'[w] = "none"
  BY DEF CrashAndRestart, HeldFor, NoPayout, Awaits, Askers, Waiters
<1>2. /\ Cardinality(RequestsOf(cmQ', w)) = 0
      /\ Cardinality(RequestsOf(chainQ', w)) = 0
  BY RequestsInEmpty DEF CrashAndRestart
<1>3. IsFiniteSet(HeldFor(w)') /\ Cardinality(HeldFor(w)') = 0
  BY <1>1, FS_EmptySet
<1> QED BY <1>1, <1>2, <1>3 DEF Accounted, InFlight, Count

LEMMA CourseKept ==
    ASSUME AckInv, [Next]_vars
    PROVE  StopsOnRequest' /\ RestoresOnce'
<1> USE DEF AckInv, StopsOnRequest, RestoresOnce
<1>0. cmQ \in Seq(ManagerRequest)
  BY DEF PayoutInv, TypeOK, ManagerTypes
<1>1. CASE HandlerStep
  <2>1. /\ sh'.pc # "starting" /\ cm' = cm
        /\ cmQ' = cmQ \/ \E m : cmQ' = Append(cmQ, m)
    BY <1>1 DEF HandlerStep, ReadOrderList, ConnectChain, Takes,
                IsCurrencySupported, GetStatus, NewInvoice, OldInvoice,
                InvoiceAdded, RecordPaid, RefusePaid, ReapAnswered,
                BeginShutdown, FinishShutdown, Reply, HandlerEnds, Idle,
                managerVars
  <2>2. \A m : /\ Append(cmQ, m) # <<>>
               /\ cmQ # <<>> => Head(Append(cmQ, m)) = Head(cmQ)
    BY <1>0
  <2> QED BY <2>1, <2>2
<1>2. CASE RestoreStep
  <2>1. /\ sh' = sh /\ cm' = cm /\ restore # "off"
        /\ cmQ' = cmQ \/ \E m : cmQ' = Append(cmQ, m)
    BY <1>2 DEF RestoreStep, RestoreOrder, OrderRestored, AllRestored,
                handlerVars, managerVars
  <2>2. \A m : /\ Append(cmQ, m) # <<>>
               /\ cmQ # <<>> => Head(Append(cmQ, m)) = Head(cmQ)
    BY <1>0
  <2> QED BY <2>1, <2>2
<1>3. CASE ManagerStep \/ TrackerDiscarded
  BY <1>3 DEF ManagerStep, Forward, StopTracker, TrackerAnswered, Serves,
              TrackerDiscarded, NoTrackerToStop, ManagerEnds,
              ManagerChannelClosed, handlerVars, restoreVars
<1>4. CASE CrashAndRestart
  BY <1>4 DEF CrashAndRestart
<1>5. CASE \/ TrackerStep \/ TrackerFails \/ FeedBlock \/ FeedBreaks
           \/ ClientStep \/ PayoutStep
  <2>1. UNCHANGED <<sh, restore, cmQ, cm>>
    BY <1>5 DEF TrackerStep, TrackerFails, FeedBlock, FeedBreaks, Connect,
         CancelledAtRotation, Announce, order_paid, LoopDone, RecheckAccount,
         ScanAccount, ScanBlock, LoseBlock, StartWatching, StartPayout,
         ShutDownTracker, Watchdog, ClientStep, RequestStatus, CheckCurrency,
         CreateOrder, Ask, GiveUp, Disconnect, PayoutStep, PayoutStarts,
         PayoutSubmits, PayoutGivesUp, handlerVars, restoreVars, managerVars
  <2> QED BY <2>1
<1>6. CASE \/ ChainStep \/ Tick \/ BackgroundFlush \/ FinalFlush
           \/ Interrupt \/ NoticeFailure \/ UNCHANGED vars
  <2>1. UNCHANGED <<sh, restore, cmQ, cm>>
    BY <1>6 DEF ChainStep, EmptyBlock, Pay, Settle, Finalize, Tick,
         BackgroundFlush, FinalFlush, Interrupt, NoticeFailure, Cancel, vars,
         handlerVars, restoreVars, managerVars
  <2> QED BY <2>1
<1> QED BY <1>1, <1>2, <1>3, <1>4, <1>5, <1>6 DEF Next

-----------------------------------------------------------------------------

LEMMA AckInvariant == Spec => []AckInv
<1>1. PayoutInv /\ Init => AckInv
  BY BootAcks DEF Init, Boots, AckInv, StopsOnRequest, RestoresOnce
<1>2. ASSUME AckInv, PayoutInv', [Next]_vars PROVE AckInv'
  <2>1. TypeOK'
    BY <1>2 DEF PayoutInv
  <2>2. ASSUME NEW w \in Askers PROVE Accounted(w)'
    <3>1. CASE HandlerStep \/ RestoreStep
      BY <1>2, <3>1, HandlerAcks, RestoreAcks
    <3>2. CASE ManagerStep \/ TrackerDiscarded
      BY <1>2, <2>1, <3>2, ManagerAcks
    <3>3. CASE TrackerStep \/ TrackerFails \/ FeedBlock \/ FeedBreaks
      BY <1>2, <2>1, <3>3, TrackerAcks
    <3>4. CASE CrashAndRestart
      BY <3>4, CrashAcks
    <3>5. CASE \/ ClientStep \/ PayoutStep \/ ChainStep \/ Tick
               \/ BackgroundFlush \/ FinalFlush \/ Interrupt
               \/ NoticeFailure \/ UNCHANGED vars
      BY <1>2, <3>5, OtherAcks
    <3> QED BY <1>2, <3>1, <3>2, <3>3, <3>4, <3>5 DEF Next
  <2> QED BY <1>2, <2>2, CourseKept DEF AckInv
<1> QED BY <1>1, <1>2, PayoutInvariant, PTL DEF Spec

(* The State Handler and the task that restores orders wait, one request   *)
(* at a time, for the acknowledgement (state.rs:81, 130 and 314).          *)
(* However the request travels through the manager's and the tracker's     *)
(* channel, whoever drops it on ending, discards the tracker or forgets    *)
(* the payout, exactly one place holds the request or its answer.          *)
THEOREM NoAckIsLost == Spec => []AwaitedIsInFlight
<1>1. AckInv => AwaitedIsInFlight
  BY DEF AckInv, Accounted, InFlight, AwaitedIsInFlight, Askers
<1> QED BY <1>1, AckInvariant, PTL
=============================================================================
