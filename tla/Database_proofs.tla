--------------------------- MODULE Database_proofs ---------------------------
(***************************************************************************)
(* Proofs about the database server, for any number of callers, orders and *)
(* queued requests.                                                        *)
(***************************************************************************)
EXTENDS Database, Ledger_proofs, SequenceTheorems

-----------------------------------------------------------------------------
(* The request at the head of the channel.                                 *)

LEMMA HeadRequest ==
    ASSUME TypeOK, queue # <<>>
    PROVE  /\ Head(queue) \in Request
           /\ Tail(queue) \in Seq(Request)
           /\ Head(queue).caller \in Callers
BY DEF TypeOK, Request

LEMMA CreateRequest ==
    ASSUME TypeOK, Takes("create")
    PROVE  /\ Head(queue).order \in Orders
           /\ Head(queue).terms \in Terms
           /\ Head(queue).account \in Accounts
BY HeadRequest DEF Takes, Request

LEMMA OrderRequest ==
    ASSUME TypeOK, NEW op \in {"read", "paid", "withdrawn", "stuck"}, Takes(op)
    PROVE  Head(queue).order \in Orders
BY HeadRequest DEF Takes, Request

(* What the server leaves in the table, whichever request it serves.       *)
LEMMA DeathType ==
    ASSUME NEW now \in Instants
    PROVE  calculate_death_ts(now) \in Nat
BY ClockType DEF calculate_death_ts

LEMMA ServeCreateTable ==
    ASSUME TypeOK, ServeCreate
    PROVE  /\ table' \in Table /\ MovesForward(table, table')
           /\ caller' \in [Callers -> Reply \cup {"idle", "waiting", "gone"}]
<1> PICK now \in Instants :
       LET r == Head(queue)
       IN  Applies(create_order(table, r.order, r.terms, r.account,
                                calculate_death_ts(now)))
  BY DEF ServeCreate
<1> DEFINE outcome == create_order(table, Head(queue).order,
                         Head(queue).terms, Head(queue).account,
                         calculate_death_ts(now))
<1>1. /\ outcome.reply \in {"New", "Modified", "Collision"}
      /\ outcome.table \in Table
      /\ MovesForward(table, outcome.table)
  BY CreateRequest, DeathType, create_orderForward DEF ServeCreate, TypeOK
<1>2. /\ table' = outcome.table
      /\ caller' = [caller EXCEPT ![Head(queue).caller] = outcome.reply]
  BY DEF Applies, Answers
<1> HIDE DEF outcome
<1> QED BY <1>1, <1>2, HeadRequest DEF TypeOK, Reply, ServeCreate, Takes

LEMMA ServeMarkPaidTable ==
    ASSUME TypeOK, ServeMarkPaid
    PROVE  /\ table' \in Table /\ MovesForward(table, table')
           /\ caller' \in [Callers -> Reply \cup {"idle", "waiting", "gone"}]
           /\ receipts' \in [Orders -> Nat]
           /\ \A o \in Orders :
                 \/ receipts'[o] = receipts[o]
                 \/ /\ receipts'[o] = receipts[o] + 1
                    /\ ~IsPaid(table, o) /\ IsPaid(table', o)
<1> DEFINE o == Head(queue).order
           outcome == mark_paid(table, o)
<1>1. o \in Orders
  BY OrderRequest DEF ServeMarkPaid
<1>2. /\ outcome.reply \in {"Ok", "AlreadyPaid", "OrderNotFound"}
      /\ outcome.table \in Table
      /\ MovesForward(table, outcome.table)
      /\ outcome.reply = "Ok" => /\ IsPending(table, o)
                                 /\ IsPaid(outcome.table, o)
  BY <1>1, mark_paidForward DEF TypeOK
<1>3. outcome.reply = "Ok" => ~IsPaid(table, o)
  BY <1>1, <1>2, StatusCases DEF TypeOK
<1>4. /\ table' = outcome.table
      /\ caller' = [caller EXCEPT ![Head(queue).caller] = outcome.reply]
      /\ receipts' = IF outcome.reply = "Ok"
                     THEN [receipts EXCEPT ![o] = @ + 1] ELSE receipts
  BY DEF ServeMarkPaid, Applies, Answers
<1> HIDE DEF outcome, o
<1>5. caller' \in [Callers -> Reply \cup {"idle", "waiting", "gone"}]
  BY <1>2, <1>4, HeadRequest DEF TypeOK, Reply, ServeMarkPaid, Takes
<1> QED BY <1>1, <1>2, <1>3, <1>4, <1>5 DEF TypeOK

LEMMA ServeMarkTable ==
    ASSUME TypeOK, ServeMarkWithdrawn \/ ServeMarkStuck
    PROVE  /\ table' \in Table
           /\ \A o \in Orders : IsPaid(table, o) => IsPaid(table', o)
           /\ NoAliasedIds => table' = table
           /\ caller' \in [Callers -> Reply \cup {"idle", "waiting", "gone"}]
           /\ UNCHANGED receipts
<1> DEFINE o == Head(queue).order
<1>1. o \in Orders /\ RawKey[o] \in Orders \cup {Blank}
  BY OrderRequest, RawKeyType DEF ServeMarkWithdrawn, ServeMarkStuck
<1>2. ASSUME NEW status \in {"Failed", "Completed"},
             Applies(MarkWithdrawal(table, RawKey[o], o, status))
      PROVE  /\ table' \in Table
             /\ \A p \in Orders : IsPaid(table, p) => IsPaid(table', p)
             /\ NoAliasedIds => table' = table
             /\ caller' \in [Callers -> Reply \cup {"idle", "waiting", "gone"}]
  <2> DEFINE outcome == MarkWithdrawal(table, RawKey[o], o, status)
  <2>1. /\ outcome.reply \in {"Ok", "OrderNotFound", "NotPaid",
                              "WithdrawalWasAttempted"}
        /\ outcome.table \in Table
        /\ \A p \in Orders : IsPaid(table, p) => IsPaid(outcome.table, p)
        /\ RawKey[o] = Blank => outcome.table = table
    BY <1>1, MarkWithdrawalPaid DEF TypeOK
  <2>2. /\ table' = outcome.table
        /\ caller' = [caller EXCEPT ![Head(queue).caller] = outcome.reply]
    BY <1>2 DEF Applies, Answers
  <2> HIDE DEF outcome
  <2>3. caller' \in [Callers -> Reply \cup {"idle", "waiting", "gone"}]
    BY <2>1, <2>2 DEF TypeOK, Reply
  <2> QED BY <1>1, <2>1, <2>2, <2>3 DEF NoAliasedIds
<1> QED BY <1>2 DEF ServeMarkWithdrawn, ServeMarkStuck, mark_withdrawn, mark_stuck

-----------------------------------------------------------------------------
(* Every variable has its type: each reply of the server is one of the     *)
(* replies of database.rs, each record in memory and on disk is whole.     *)
THEOREM TypeCorrect == Spec => []TypeOK
<1>1. Init => TypeOK
  BY DEF Init, TypeOK, Table, EmptyTable, Reply
<1>2. ASSUME TypeOK, [Next]_vars PROVE TypeOK'
  <2> USE <1>2 DEF TypeOK
  <2>1. CASE \E c \in Callers : CallStopped(c) \/ DropHandle(c)
    BY <2>1 DEF CallStopped, DropHandle, Reply
  <2>2. CASE \E r \in Request : Call(r.caller, r)
    <3> PICK r \in Request : Call(r.caller, r)
      BY <2>2
    <3>1. queue' \in Seq(Request)
      BY DEF Call
    <3> QED BY <3>1 DEF Call
  <2>3. CASE ServeList
    BY <2>3, HeadRequest DEF ServeList, Takes, Answers, Reply
  <2>4. CASE ServeCreate
    BY <2>4, HeadRequest, ServeCreateTable
       DEF ServeCreate, Takes, Applies, Answers
  <2>5. CASE ServeRead
    <3>1. table' = table /\ caller' \in [Callers -> Reply \cup {"idle", "waiting", "gone"}]
      BY <2>5, HeadRequest
         DEF ServeRead, Takes, Applies, Answers, read_order, Outcome, Reply
    <3> QED BY <2>5, <3>1, HeadRequest DEF ServeRead, Takes, Applies, Answers
  <2>6. CASE ServeMarkPaid
    BY <2>6, HeadRequest, ServeMarkPaidTable
       DEF ServeMarkPaid, Takes, Applies, Answers
  <2>7. CASE ServeMarkWithdrawn
    BY <2>7, HeadRequest, ServeMarkTable
       DEF ServeMarkWithdrawn, Takes, Applies, Answers
  <2>8. CASE ServeMarkStuck
    BY <2>8, HeadRequest, ServeMarkTable
       DEF ServeMarkStuck, Takes, Applies, Answers
  <2>9. CASE InitializeServerInfo
    BY <2>9, HeadRequest DEF InitializeServerInfo, Takes, Answers, Reply
  <2>10. CASE ServeShutdown
    BY <2>10, HeadRequest DEF ServeShutdown, Takes, Answers, Reply
  <2>11. CASE ChannelClosed
    BY <2>11 DEF ChannelClosed
  <2>12. CASE WindDown
    BY <2>12 DEF WindDown, FinalFlush, Stored, Reply
  <2>13. CASE BackgroundFlush
    BY <2>13 DEF BackgroundFlush, Stored
  <2>14. CASE Reboot
    BY <2>14 DEF Reboot, Reply
  <2>15. CASE UNCHANGED vars
    BY <2>15 DEF vars
  <2> QED BY <1>2, <2>1, <2>2, <2>3, <2>4, <2>5, <2>6, <2>7, <2>8, <2>9,
             <2>10, <2>11, <2>12, <2>13, <2>14, <2>15
          DEF Next, CallerStep, ServerStep
<1> QED BY <1>1, <1>2, PTL DEF Spec

-----------------------------------------------------------------------------
(* A step restarts the process on what the disk holds, or puts the memory  *)
(* on disk, or leaves the disk alone; in the last case paid orders stay    *)
(* paid, and only ServeMarkPaid adds a receipt, for an order it makes paid.*)

Restarts == /\ table' = disk.orders /\ instance' = disk.instance
            /\ receipts' = [o \in Orders |-> 0]
            /\ disk' = disk

Saves == disk' = Stored /\ UNCHANGED <<table, instance, receipts>>

Serves ==
    /\ disk' = disk
    /\ instance # Blank => instance' = instance
    /\ NoAliasedIds => MovesForward(table, table')
    /\ \A o \in Orders :
          /\ IsPaid(table, o) => IsPaid(table', o)
          /\ \/ receipts'[o] = receipts[o]
             \/ /\ receipts'[o] = receipts[o] + 1
                /\ ~IsPaid(table, o) /\ IsPaid(table', o)

LEMMA StepOfTable ==
    ASSUME TypeOK, [Next]_vars
    PROVE  Restarts \/ Saves \/ Serves
<1> USE DEF TypeOK
<1>0. MovesForward(table, table)
  BY MovesForwardReflexive
<1>1. CASE CallerStep
  <2>1. UNCHANGED <<table, instance, disk, server, receipts>>
    BY <1>1 DEF CallerStep, Call, CallStopped, DropHandle
  <2> QED BY <1>0, <2>1 DEF Serves
<1>2. CASE ServeCreate
  <2>1. MovesForward(table, table') /\ table' \in Table
    BY <1>2, ServeCreateTable
  <2>2. \A o \in Orders : IsPaid(table, o) => IsPaid(table', o)
    BY <2>1, PaidStaysPaid
  <2>3. UNCHANGED <<instance, disk, receipts>>
    BY <1>2 DEF ServeCreate, Applies
  <2> QED BY <2>1, <2>2, <2>3 DEF Serves
<1>3. CASE ServeMarkPaid
  <2>1. /\ MovesForward(table, table') /\ table' \in Table
        /\ \A o \in Orders :
              \/ receipts'[o] = receipts[o]
              \/ /\ receipts'[o] = receipts[o] + 1
                 /\ ~IsPaid(table, o) /\ IsPaid(table', o)
    BY <1>3, ServeMarkPaidTable
  <2>2. \A o \in Orders : IsPaid(table, o) => IsPaid(table', o)
    BY <2>1, PaidStaysPaid
  <2>3. UNCHANGED <<instance, disk>>
    BY <1>3 DEF ServeMarkPaid, Takes, Applies
  <2> QED BY <2>1, <2>2, <2>3 DEF Serves
<1>4. CASE ServeMarkWithdrawn \/ ServeMarkStuck
  <2>1. /\ \A o \in Orders : IsPaid(table, o) => IsPaid(table', o)
        /\ NoAliasedIds => table' = table
        /\ UNCHANGED receipts
    BY <1>4, ServeMarkTable
  <2>2. UNCHANGED <<instance, disk>>
    BY <1>4 DEF ServeMarkWithdrawn, ServeMarkStuck, Takes, Applies
  <2> QED BY <1>0, <2>1, <2>2 DEF Serves
<1>5. CASE ServeList \/ ServeRead
  <2>1. UNCHANGED <<table, instance, disk, receipts>>
    BY <1>5 DEF ServeList, ServeRead, Takes, Applies, read_order, Outcome
  <2> QED BY <1>0, <2>1 DEF Serves
<1>6. CASE InitializeServerInfo
  <2>1. /\ UNCHANGED <<table, disk, receipts>>
        /\ instance # Blank => instance' = instance
    BY <1>6 DEF InitializeServerInfo, Takes
  <2> QED BY <1>0, <2>1 DEF Serves
<1>7. CASE ServeShutdown \/ ChannelClosed
  <2>1. UNCHANGED <<table, instance, disk, receipts>>
    BY <1>7 DEF ServeShutdown, ChannelClosed
  <2> QED BY <1>0, <2>1 DEF Serves
<1>8. CASE WindDown
  <2>1. UNCHANGED <<table, instance, receipts>>
        /\ (disk' = Stored \/ disk' = disk)
    BY <1>8 DEF WindDown, FinalFlush
  <2> QED BY <1>0, <2>1 DEF Saves, Serves
<1>9. CASE BackgroundFlush
  BY <1>9 DEF BackgroundFlush, Saves
<1>10. CASE Reboot
  BY <1>10 DEF Reboot, Restarts
<1>11. CASE UNCHANGED vars
  <2>1. UNCHANGED <<table, instance, disk, server, receipts>>
    BY <1>11 DEF vars
  <2> QED BY <1>0, <2>1 DEF Serves
<1> QED BY <1>1, <1>2, <1>3, <1>4, <1>5, <1>6, <1>7, <1>8, <1>9, <1>10, <1>11
        DEF Next, ServerStep

-----------------------------------------------------------------------------
(* The inductive invariant: a receipt stands for an order that is paid in  *)
(* memory, and what is paid on disk is paid in memory.                     *)
ReceiptMeansPaid ==
    \A o \in Orders :
        /\ receipts[o] <= 1
        /\ receipts[o] = 1 => IsPaid(table, o)

PaidOnDiskIsPaid ==
    \A o \in Orders : IsPaid(disk.orders, o) => IsPaid(table, o)

PaymentInv == TypeOK /\ ReceiptMeansPaid /\ PaidOnDiskIsPaid

LEMMA PaymentInvariant == Spec => []PaymentInv
<1>1. Init => PaymentInv
  <2> SUFFICES ASSUME Init PROVE PaymentInv
    OBVIOUS
  <2>1. TypeOK
    BY DEF Init, TypeOK, Table, EmptyTable, Reply
  <2> QED BY <2>1 DEF Init, PaymentInv, ReceiptMeansPaid, PaidOnDiskIsPaid,
                      IsPaid, IsKnown, EmptyTable
<1>2. ASSUME PaymentInv, TypeOK', [Next]_vars PROVE PaymentInv'
  <2> USE <1>2 DEF PaymentInv
  <2>1. ReceiptMeansPaid'
    BY StepOfTable DEF ReceiptMeansPaid, TypeOK, Restarts, Saves, Serves
  <2>2. PaidOnDiskIsPaid'
    BY StepOfTable DEF PaidOnDiskIsPaid, Stored, Restarts, Saves, Serves
  <2> QED BY <2>1, <2>2
<1> QED BY <1>1, <1>2, TypeCorrect, PTL DEF Spec

(* Within one run of the process mark_paid answers Ok for an order at most *)
(* once, so that state.rs:127-131 starts at most one payout for it.        *)
THEOREM PaidOutOnce == Spec => []OneReceipt
<1>1. PaymentInv => OneReceipt
  BY DEF PaymentInv, ReceiptMeansPaid, OneReceipt
<1> QED BY <1>1, PaymentInvariant, PTL

(* A payment that has reached the disk is never reported again, over any   *)
(* number of crashes and restarts (database.rs:448).                       *)
THEOREM SavedPaymentIsFinal == Spec => NoReceiptAfterDisk
<1>1. ASSUME PaymentInv, [Next]_vars
      PROVE  [\A o \in Orders : receipts'[o] > receipts[o]
                                  => ~IsPaid(disk.orders, o)]_vars
  <2> SUFFICES ASSUME NEW o \in Orders, receipts'[o] > receipts[o],
                      IsPaid(disk.orders, o)
               PROVE  FALSE
    OBVIOUS
  <2>1. IsPaid(table, o)
    BY <1>1 DEF PaymentInv, PaidOnDiskIsPaid
  <2>2. receipts[o] \in Nat
    BY <1>1 DEF PaymentInv, TypeOK
  <2> QED BY <1>1, <2>1, <2>2, StepOfTable
           DEF PaymentInv, Restarts, Saves, Serves
<1> QED BY <1>1, PaymentInvariant, PTL DEF Spec, NoReceiptAfterDisk

-----------------------------------------------------------------------------
(* Callers and the requests in the channel.  The inductive invariant: the  *)
(* queued requests are of different callers, who are those that wait.      *)
OneRequestEach ==
    \A i, j \in DOMAIN queue : queue[i].caller = queue[j].caller => i = j

QueuedAreWaiting ==
    \A i \in DOMAIN queue : caller[queue[i].caller] = "waiting"

WaitingAreQueued ==
    \A c \in Callers :
        caller[c] = "waiting" => \E i \in DOMAIN queue : queue[i].caller = c

ChannelInv == OneRequestEach /\ QueuedAreWaiting /\ WaitingAreQueued

LEMMA RequestCallers ==
    ASSUME TypeOK
    PROVE  /\ DOMAIN queue = 1..Len(queue) /\ Len(queue) \in Nat
           /\ \A i \in DOMAIN queue : queue[i].caller \in Callers
BY DEF TypeOK, Request

(* The server answers the head of the channel.                             *)
LEMMA AnswerKeepsChannel ==
    ASSUME TypeOK, ChannelInv, queue # <<>>, NEW reply \in Reply, Answers(reply)
    PROVE  ChannelInv'
<1> DEFINE n == Len(queue)
<1>1. /\ n \in Nat \ {0} /\ DOMAIN queue = 1..n
      /\ \A i \in 1..n : queue[i].caller \in Callers
      /\ Head(queue) = queue[1]
  BY RequestCallers DEF TypeOK
<1>2. /\ DOMAIN queue' = 1..(n - 1)
      /\ \A i \in 1..(n - 1) : queue'[i] = queue[i + 1]
  BY <1>1 DEF Answers, TypeOK
<1>3. /\ caller'[queue[1].caller] = reply
      /\ \A c \in Callers : c # queue[1].caller => caller'[c] = caller[c]
      /\ reply # "waiting"
  BY <1>1 DEF Answers, TypeOK, Reply
<1> HIDE DEF n
<1>4. OneRequestEach'
  <2> SUFFICES ASSUME NEW i \in 1..(n - 1), NEW j \in 1..(n - 1),
                      queue'[i].caller = queue'[j].caller
               PROVE  i = j
    BY <1>2 DEF OneRequestEach
  <2>1. i + 1 \in 1..n /\ j + 1 \in 1..n
    BY <1>1
  <2>2. queue[i + 1].caller = queue[j + 1].caller
    BY <1>2
  <2>3. i + 1 = j + 1
    BY <1>1, <2>1, <2>2 DEF ChannelInv, OneRequestEach
  <2> QED BY <2>3
<1>5. QueuedAreWaiting'
  <2> SUFFICES ASSUME NEW i \in 1..(n - 1)
               PROVE  caller'[queue[i + 1].caller] = "waiting"
    BY <1>2 DEF QueuedAreWaiting
  <2>1. i + 1 \in 1..n /\ 1 \in 1..n /\ i + 1 # 1
    BY <1>1
  <2>2. queue[i + 1].caller # queue[1].caller
    BY <1>1, <2>1 DEF ChannelInv, OneRequestEach
  <2>3. caller[queue[i + 1].caller] = "waiting"
    BY <1>1, <2>1 DEF ChannelInv, QueuedAreWaiting
  <2> QED BY <1>1, <1>3, <2>1, <2>2, <2>3
<1>6. WaitingAreQueued'
  <2> SUFFICES ASSUME NEW c \in Callers, caller'[c] = "waiting"
               PROVE  \E i \in 1..(n - 1) : queue'[i].caller = c
    BY <1>2 DEF WaitingAreQueued
  <2>1. c # queue[1].caller /\ caller[c] = "waiting"
    BY <1>3
  <2> PICK i \in 1..n : queue[i].caller = c
    BY <1>1, <2>1 DEF ChannelInv, WaitingAreQueued
  <2>2. i - 1 \in 1..(n - 1) /\ (i - 1) + 1 = i
    BY <1>1, <2>1
  <2>3. queue'[i - 1] = queue[i]
    BY <1>2, <2>2
  <2> QED BY <2>2, <2>3
<1> QED BY <1>4, <1>5, <1>6 DEF ChannelInv

(* A caller that does not wait puts its request at the end.                *)
LEMMA CallKeepsChannel ==
    ASSUME TypeOK, ChannelInv, NEW r \in Request, Call(r.caller, r)
    PROVE  ChannelInv'
<1> DEFINE n == Len(queue)
<1>1. /\ n \in Nat /\ DOMAIN queue = 1..n
      /\ \A i \in 1..n : queue[i].caller \in Callers
      /\ r.caller \in Callers
  BY RequestCallers DEF Request
<1>2. /\ DOMAIN queue' = 1..(n + 1) /\ queue'[n + 1] = r
      /\ \A i \in 1..n : queue'[i] = queue[i]
  BY <1>1 DEF Call, TypeOK
<1>3. /\ caller'[r.caller] = "waiting" /\ caller[r.caller] # "waiting"
      /\ \A c \in Callers : c # r.caller => caller'[c] = caller[c]
  BY <1>1 DEF Call, CanCall, TypeOK
<1> HIDE DEF n
<1>4. \A i \in 1..n : queue[i].caller # r.caller
  BY <1>1, <1>3 DEF ChannelInv, QueuedAreWaiting
<1>5. \A i \in 1..(n + 1) : i \in 1..n \/ i = n + 1
  BY <1>1
<1>6. OneRequestEach'
  BY <1>1, <1>2, <1>4, <1>5 DEF ChannelInv, OneRequestEach
<1>7. QueuedAreWaiting'
  BY <1>1, <1>2, <1>3, <1>4, <1>5 DEF ChannelInv, QueuedAreWaiting
<1>8. WaitingAreQueued'
  <2> SUFFICES ASSUME NEW c \in Callers, caller'[c] = "waiting"
               PROVE  \E i \in 1..(n + 1) : queue'[i].caller = c
    BY <1>2 DEF WaitingAreQueued
  <2>1. CASE c = r.caller
    <3>1. n + 1 \in 1..(n + 1)
      BY <1>1
    <3> QED BY <1>2, <2>1, <3>1
  <2>2. CASE c # r.caller
    <3> PICK i \in 1..n : queue[i].caller = c
      BY <1>1, <1>3, <2>2 DEF ChannelInv, WaitingAreQueued
    <3>1. i \in 1..(n + 1)
      BY <1>1
    <3> QED BY <1>2, <3>1
  <2> QED BY <2>1, <2>2
<1> QED BY <1>6, <1>7, <1>8 DEF ChannelInv

(* Every caller that waits has exactly one request in the channel, and no  *)
(* request is of a caller that does not wait: the server answers each      *)
(* request once, and to whoever sent it.                                   *)
THEOREM WaitersQueued == Spec => []WaitersAreQueued
<1>1. Init => ChannelInv
  BY DEF Init, ChannelInv, OneRequestEach, QueuedAreWaiting, WaitingAreQueued
<1>2. ASSUME TypeOK, TypeOK', ChannelInv, [Next]_vars PROVE ChannelInv'
  <2>1. ASSUME NEW op, Takes(op) PROVE queue # <<>>
    BY <2>1 DEF Takes
  <2>2. CASE \E c \in Callers : CallStopped(c) \/ DropHandle(c)
    <3> PICK c \in Callers : CallStopped(c) \/ DropHandle(c)
      BY <2>2
    <3>1. queue' = queue /\ caller[c] # "waiting" /\ caller'[c] # "waiting"
      BY <1>2 DEF CallStopped, DropHandle, CanCall, TypeOK
    <3>2. \A d \in Callers : d # c => caller'[d] = caller[d]
      BY <1>2 DEF CallStopped, DropHandle, TypeOK
    <3>3. \A d \in Callers : (caller[d] = "waiting") <=> (caller'[d] = "waiting")
      BY <3>1, <3>2
    <3> QED BY <1>2, <3>1, <3>3, RequestCallers
            DEF ChannelInv, OneRequestEach, QueuedAreWaiting, WaitingAreQueued
  <2>3. CASE \E r \in Request : Call(r.caller, r)
    BY <1>2, <2>3, CallKeepsChannel
  <2>4. CASE ServeCreate
    <3> PICK now \in Instants :
          LET r == Head(queue)
          IN  Applies(create_order(table, r.order, r.terms, r.account,
                                   calculate_death_ts(now)))
      BY <2>4 DEF ServeCreate
    <3> DEFINE outcome == create_order(table, Head(queue).order,
                             Head(queue).terms, Head(queue).account,
                             calculate_death_ts(now))
    <3>1. outcome.reply \in Reply
      BY <1>2, <2>4, CreateRequest, DeathType, create_orderForward
         DEF ServeCreate, TypeOK, Reply
    <3>2. Answers(outcome.reply)
      BY DEF Applies
    <3> HIDE DEF outcome
    <3> QED BY <1>2, <2>1, <2>4, <3>1, <3>2, AnswerKeepsChannel DEF ServeCreate
  <2>5. CASE ServeMarkPaid
    <3> DEFINE outcome == mark_paid(table, Head(queue).order)
    <3>1. Head(queue).order \in Orders
      BY <1>2, <2>5, OrderRequest DEF ServeMarkPaid
    <3>2. outcome.reply \in Reply
      BY <1>2, <3>1, mark_paidForward DEF TypeOK, Reply
    <3>3. Answers(outcome.reply)
      BY <2>5 DEF ServeMarkPaid, Applies
    <3> HIDE DEF outcome
    <3> QED BY <1>2, <2>1, <2>5, <3>2, <3>3, AnswerKeepsChannel DEF ServeMarkPaid
  <2>6. CASE ServeMarkWithdrawn \/ ServeMarkStuck
    <3> DEFINE o == Head(queue).order
    <3> PICK status \in {"Failed", "Completed"} :
          Applies(MarkWithdrawal(table, RawKey[o], o, status))
      BY <2>6 DEF ServeMarkWithdrawn, ServeMarkStuck, mark_withdrawn, mark_stuck
    <3> DEFINE outcome == MarkWithdrawal(table, RawKey[o], o, status)
    <3>1. o \in Orders /\ RawKey[o] \in Orders \cup {Blank}
      BY <1>2, <2>6, OrderRequest, RawKeyType DEF ServeMarkWithdrawn, ServeMarkStuck
    <3>2. outcome.reply \in Reply
      BY <1>2, <3>1, MarkWithdrawalPaid DEF TypeOK, Reply
    <3>3. Answers(outcome.reply)
      BY DEF Applies
    <3> HIDE DEF outcome
    <3>4. queue # <<>>
      BY <2>1, <2>6 DEF ServeMarkWithdrawn, ServeMarkStuck
    <3> QED BY <1>2, <3>2, <3>3, <3>4, AnswerKeepsChannel
  <2>7. CASE ServeRead
    <3>1. read_order(table, Head(queue).order).reply \in Reply
      BY DEF read_order, Outcome, Reply
    <3>2. Answers(read_order(table, Head(queue).order).reply)
      BY <2>7 DEF ServeRead, Applies
    <3> QED BY <1>2, <2>1, <2>7, <3>1, <3>2, AnswerKeepsChannel DEF ServeRead
  <2>8. CASE ServeList \/ InitializeServerInfo \/ ServeShutdown
    <3>1. PICK reply \in {"List", "InstanceId", "ShutDown"} : Answers(reply)
      BY <2>8 DEF ServeList, InitializeServerInfo, ServeShutdown
    <3>2. reply \in Reply
      BY DEF Reply
    <3>3. queue # <<>>
      BY <2>1, <2>8 DEF ServeList, InitializeServerInfo, ServeShutdown
    <3> QED BY <1>2, <3>1, <3>2, <3>3, AnswerKeepsChannel
  <2>9. CASE WindDown \/ Reboot
    <3>1. queue' = <<>> /\ \A c \in Callers : caller'[c] # "waiting"
      BY <1>2, <2>9 DEF WindDown, Reboot, TypeOK
    <3> QED BY <3>1
            DEF ChannelInv, OneRequestEach, QueuedAreWaiting, WaitingAreQueued
  <2>10. CASE ChannelClosed \/ BackgroundFlush \/ UNCHANGED vars
    <3>1. UNCHANGED <<queue, caller>>
      BY <2>10 DEF ChannelClosed, BackgroundFlush, vars
    <3> QED BY <1>2, <3>1
            DEF ChannelInv, OneRequestEach, QueuedAreWaiting, WaitingAreQueued
  <2> QED BY <1>2, <2>2, <2>3, <2>4, <2>5, <2>6, <2>7, <2>8, <2>9, <2>10
          DEF Next, CallerStep, ServerStep
<1>3. ASSUME TypeOK, ChannelInv PROVE WaitersAreQueued
  <2> SUFFICES ASSUME NEW c \in Callers
               PROVE  \/ /\ caller[c] = "waiting"
                         /\ \E i \in DOMAIN queue : QueuedFor(c) = {i}
                      \/ caller[c] # "waiting" /\ QueuedFor(c) = {}
    BY DEF WaitersAreQueued
  <2>1. CASE caller[c] = "waiting"
    <3> PICK i \in DOMAIN queue : queue[i].caller = c
      BY <1>3, <2>1 DEF ChannelInv, WaitingAreQueued
    <3>1. QueuedFor(c) = {i}
      BY <1>3 DEF ChannelInv, OneRequestEach, QueuedFor
    <3> QED BY <2>1, <3>1
  <2>2. CASE caller[c] # "waiting"
    BY <1>3, <2>2 DEF ChannelInv, QueuedAreWaiting, QueuedFor
  <2> QED BY <2>1, <2>2
<1> QED BY <1>1, <1>2, <1>3, TypeCorrect, PTL DEF Spec

-----------------------------------------------------------------------------
(* As long as no id is the encoded key of another, the table in memory is  *)
(* ahead of the disk, and the disk keeps the contract of OrderContract.    *)

LEMMA EmptyIsTable == EmptyTable \in Table
BY DEF EmptyTable, Table

(* A crash takes the book back to an earlier version of itself, never to a *)
(* different one, and the instance id, once saved, is the id in use.       *)
THEOREM MemoryIsAhead ==
    ASSUME NoAliasedIds
    PROVE  Spec => []DiskIsEarlier
<1>1. Init => DiskIsEarlier
  BY EmptyIsTable, MovesForwardReflexive DEF Init, DiskIsEarlier
<1>2. ASSUME DiskIsEarlier, TypeOK, TypeOK', [Next]_vars
      PROVE  DiskIsEarlier'
  <2>1. disk.orders \in Table /\ table \in Table /\ table' \in Table
    BY <1>2 DEF TypeOK
  <2>2. CASE Restarts
    <3>1. MovesForward(disk.orders, disk.orders)
      BY <2>1, MovesForwardReflexive
    <3> QED BY <2>2, <3>1 DEF Restarts, DiskIsEarlier
  <2>3. CASE Saves
    <3>1. MovesForward(table, table)
      BY <2>1, MovesForwardReflexive
    <3> QED BY <2>3, <3>1 DEF Saves, Stored, DiskIsEarlier
  <2>4. CASE Serves
    <3>1. MovesForward(disk.orders, table) /\ MovesForward(table, table')
      BY <1>2, <2>4, NoAliasedIds DEF Serves, DiskIsEarlier
    <3>2. MovesForward(disk.orders, table')
      BY <2>1, <3>1, MovesForwardTransitive
    <3>3. disk.instance # Blank => disk.instance = instance'
      BY <1>2, <2>4 DEF Serves, DiskIsEarlier
    <3> QED BY <2>4, <3>2, <3>3 DEF Serves, DiskIsEarlier
  <2> QED BY <1>2, <2>2, <2>3, <2>4, StepOfTable
<1> QED BY <1>1, <1>2, TypeCorrect, PTL DEF Spec

(* The database implements the abstract book of orders: over crashes,      *)
(* restarts and flushes at any moment, the orders on disk only ever move   *)
(* forward as OrderContract allows.                                        *)
THEOREM DatabaseKeepsContract ==
    ASSUME NoAliasedIds
    PROVE  Spec => ContractSpec
<1>0. /\ Contract!Table = Table
      /\ \A t, u : Contract!MovesForward(t, u) <=> MovesForward(t, u)
  BY DEF Contract!Table, Table, Contract!OrderInfo, OrderInfo,
         Contract!MovesForward, MovesForward, Contract!Keeps, Keeps
<1>1. Init => Contract!Init
  BY <1>0, EmptyIsTable DEF Init, Contract!Init
<1>2. ASSUME DiskIsEarlier, TypeOK, [Next]_vars
      PROVE  [Contract!Progress]_(disk.orders)
  <2>1. CASE disk' = disk
    BY <2>1
  <2>2. CASE disk' = Stored
    <3>1. disk'.orders = table /\ table \in Table
      BY <1>2, <2>2 DEF Stored, TypeOK
    <3>2. MovesForward(disk.orders, disk'.orders)
      BY <1>2, <3>1 DEF DiskIsEarlier
    <3> QED BY <1>0, <3>1, <3>2 DEF Contract!Progress
  <2> QED BY <1>2, <2>1, <2>2, StepOfTable DEF Restarts, Saves, Serves
<1> QED BY <1>1, <1>2, TypeCorrect, MemoryIsAhead, NoAliasedIds, PTL
        DEF Spec, ContractSpec, Contract!Spec
=============================================================================
