---------------------------- MODULE StateHandler ----------------------------
(***************************************************************************)
(* The State Handler task of state.rs, the task that restores saved orders *)
(* and the HTTP handlers in front of it.  The handler serves one request   *)
(* at a time and holds everybody else up while it waits for the tracker to *)
(* acknowledge a WatchAccount or a Reap.  Its calls to the database are    *)
(* single steps: it is the only caller and waits for each reply, and the   *)
(* database server waits for nobody.                                       *)
(***************************************************************************)
EXTENDS DaemonState

Takes(type) == sh.pc = "idle" /\ stateQ # <<>> /\ Head(stateQ).type = type

(* Leaving the loop drops the receiver, the database handle and every      *)
(* oneshot still queued.                                                   *)
HandlerEnds(how) ==
    /\ sh' = [pc |-> how, client |-> Blank]
    /\ stateQ' = <<>>
    /\ http' = [c \in Clients |-> IF http[c] \in Waiting THEN "idle"
                                                         ELSE http[c]]
    /\ db' = "closing"

(* Sending a reply fails when the HTTP side has dropped its receiver, and  *)
(* the failure ends the task with Error::Fatal.                            *)
Reply(c, next, rest) ==
    \/ /\ http[c] # "gone"
       /\ http' = [http EXCEPT ![c] = next]
       /\ sh' = Idle
       /\ stateQ' = rest
       /\ UNCHANGED db
    \/ /\ http[c] = "gone"
       /\ HandlerEnds("failed")

-----------------------------------------------------------------------------
(* Startup: the chain manager's handle has arrived; list the active orders *)
(* and leave them to the task that restores them.                          *)
ReadOrderList ==
    /\ sh.pc = "starting"
    /\ sh' = Idle
    /\ restoring' = [o \in Orders |-> IF o \in ActiveOrders(table)
                                      THEN table[o] ELSE Blank]
    /\ restore' = "sending"
    /\ UNCHANGED <<ledgerVars, worldVars, http, stateQ, supported, managerVars,
                   ack, trackerVars, tailVars>>

RestoreOrder(o) ==
    /\ restore = "sending" /\ restoring[o] # Blank
    /\ restoring' = [restoring EXCEPT ![o] = Blank]
    /\ \/ /\ cm # "done"
          /\ cmQ' = Append(cmQ, WatchAccount("watch", o, restoring[o],
                                             "restore"))
          /\ restore' = "waiting"
       \/ cm = "done" /\ UNCHANGED <<cmQ, restore>>
    /\ UNCHANGED <<ledgerVars, worldVars, handlerVars, cm, ack, trackerVars,
                   tailVars>>

(* Mutant: a refused order ends the task.                                  *)
OrderRestored_okOnly ==
    /\ restore = "waiting" /\ ack["restore"] = "ok"
    /\ ack' = [ack EXCEPT !["restore"] = "none"]
    /\ restore' = "sending"
    /\ UNCHANGED <<ledgerVars, worldVars, handlerVars, restoring, managerVars,
                   trackerVars, tailVars>>

(* Whether the order is watched now or was refused makes no difference.    *)
OrderRestored ==
    /\ restore = "waiting" /\ ack["restore"] # "none"
    /\ ack' = [ack EXCEPT !["restore"] = "none"]
    /\ restore' = "sending"
    /\ UNCHANGED <<ledgerVars, worldVars, handlerVars, restoring, managerVars,
                   trackerVars, tailVars>>

AllRestored ==
    /\ restore = "sending" /\ restoring = EmptyTable
    /\ restore' = "off"
    /\ UNCHANGED <<ledgerVars, worldVars, handlerVars, restoring, managerVars,
                   ack, trackerVars, tailVars>>

-----------------------------------------------------------------------------
(* The requests.                                                           *)

ConnectChain ==
    /\ Takes("connect")
    /\ supported' = TRUE
    /\ stateQ' = Tail(stateQ)
    /\ UNCHANGED <<ledgerVars, worldVars, http, sh, restoreVars, managerVars,
                   ack, trackerVars, tailVars>>

(* Mutant: every currency is declared supported.                           *)
IsCurrencySupported_always ==
    /\ Takes("supported")
    /\ Reply(Head(stateQ).client, "supported", Tail(stateQ))
    /\ UNCHANGED <<table, disk, worldVars, supported, restoreVars, managerVars,
                   ack, trackerVars, tailVars>>

IsCurrencySupported ==
    /\ Takes("supported")
    /\ Reply(Head(stateQ).client, IF supported THEN "supported" ELSE "idle",
             Tail(stateQ))
    /\ UNCHANGED <<table, disk, worldVars, supported, restoreVars, managerVars,
                   ack, trackerVars, tailVars>>

(* GetInvoiceStatus and ServerStatus read and reply.                       *)
GetStatus ==
    /\ Takes("read")
    /\ Reply(Head(stateQ).client, "idle", Tail(stateQ))
    /\ UNCHANGED <<table, disk, worldVars, supported, restoreVars, managerVars,
                   ack, trackerVars, tailVars>>

(* The signer derives one account per order id.                            *)
public(o) == o

(* create_invoice: a new order is handed to the chain manager and the      *)
(* handler waits; a modified or collided one is answered at once.  The     *)
(* UnknownCurrency of state.rs:305 has no action: it is never met, since   *)
(* process_order asks first (CheckedStaysSupported).                       *)
Created(m) == create_order(table, m.order, m.amount, public(m.order),
                           clock + Lifetime)

NewInvoice ==
    /\ Takes("create") /\ supported
    /\ LET m == Head(stateQ)
       IN  /\ Created(m).reply = "New"
           /\ table' = Created(m).table
           /\ cmQ' = Append(cmQ, WatchAccount("watch", m.order,
                                              table'[m.order], "handler"))
           /\ sh' = [pc |-> "adding", client |-> m.client]
    /\ stateQ' = Tail(stateQ)
    /\ UNCHANGED <<disk, db, worldVars, http, supported, restoreVars, cm, ack,
                   trackerVars, tailVars>>

OldInvoice ==
    /\ Takes("create") /\ supported
    /\ LET m == Head(stateQ)
       IN  /\ Created(m).reply # "New"
           /\ table' = Created(m).table
           /\ Reply(m.client, "idle", Tail(stateQ))
    /\ UNCHANGED <<disk, worldVars, supported, restoreVars, managerVars, ack,
                   trackerVars, tailVars>>

InvoiceAdded ==
    /\ sh.pc = "adding" /\ ack["handler"] # "none"
    /\ ack' = [ack EXCEPT !["handler"] = "none"]
    /\ Reply(sh.client, "idle", stateQ)
    /\ UNCHANGED <<table, disk, worldVars, supported, restoreVars, managerVars,
                   trackerVars, tailVars>>

(* Mutant: the payout is started, the payment not recorded.                *)
RecordPaid_unrecorded ==
    /\ Takes("paid")
    /\ LET o == Head(stateQ).order
       IN  /\ mark_paid(table, o).reply = "Ok"
           /\ cmQ' = Append(cmQ, WatchAccount("reap", o, table[o], "handler"))
    /\ sh' = [pc |-> "reaping", client |-> Blank]
    /\ stateQ' = Tail(stateQ)
    /\ UNCHANGED <<table, disk, db, worldVars, http, supported, restoreVars, cm,
                   ack, trackerVars, tailVars>>

(* OrderPaid: record the payment, and only then start the payout.          *)
RecordPaid ==
    /\ Takes("paid")
    /\ LET o == Head(stateQ).order
           outcome == mark_paid(table, o)
       IN  /\ outcome.reply = "Ok"
           /\ table' = outcome.table
           /\ cmQ' = Append(cmQ, WatchAccount("reap", o, table'[o], "handler"))
    /\ sh' = [pc |-> "reaping", client |-> Blank]
    /\ stateQ' = Tail(stateQ)
    /\ UNCHANGED <<disk, db, worldVars, http, supported, restoreVars, cm, ack,
                   trackerVars, tailVars>>

RefusePaid ==
    /\ Takes("paid")
    /\ mark_paid(table, Head(stateQ).order).reply # "Ok"
    /\ stateQ' = Tail(stateQ)
    /\ UNCHANGED <<ledgerVars, worldVars, http, sh, supported, restoreVars,
                   managerVars, ack, trackerVars, tailVars>>

ReapAnswered ==
    /\ sh.pc = "reaping" /\ ack["handler"] # "none"
    /\ ack' = [ack EXCEPT !["handler"] = "none"]
    /\ sh' = Idle
    /\ UNCHANGED <<ledgerVars, worldVars, http, stateQ, supported, restoreVars,
                   managerVars, trackerVars, tailVars>>

-----------------------------------------------------------------------------
(* Shutdown: the select is biased, so it is seen only once the channel is  *)
(* empty.  First the chain manager, then the database, then the signer.    *)
BeginShutdown ==
    /\ sh.pc = "idle" /\ stateQ = <<>> /\ cancelled
    /\ cmQ' = Append(cmQ, [type |-> "shutdown", from |-> "handler"])
    /\ sh' = [pc |-> "closing", client |-> Blank]
    /\ UNCHANGED <<ledgerVars, worldVars, http, stateQ, supported, restoreVars,
                   cm, ack, trackerVars, tailVars>>

(* Mutant: the loop is not left, the handler serves on.                    *)
FinishShutdown_servesOn ==
    /\ sh.pc = "closing" /\ ack["handler"] # "none"
    /\ ack' = [ack EXCEPT !["handler"] = "none"]
    /\ sh' = Idle
    /\ db' = "closing"
    /\ signer' = FALSE
    /\ UNCHANGED <<table, disk, worldVars, http, stateQ, supported,
                   restoreVars, managerVars, trackerVars, payout, cancelled>>

FinishShutdown ==
    /\ sh.pc = "closing" /\ ack["handler"] # "none"
    /\ ack' = [ack EXCEPT !["handler"] = "none"]
    /\ HandlerEnds("done")
    /\ signer' = FALSE
    /\ UNCHANGED <<table, disk, worldVars, supported, restoreVars, managerVars,
                   trackerVars, payout, cancelled>>

HandlerStep ==
    \/ ReadOrderList \/ ConnectChain \/ IsCurrencySupported \/ GetStatus
    \/ NewInvoice \/ OldInvoice \/ InvoiceAdded
    \/ RecordPaid \/ RefusePaid \/ ReapAnswered
    \/ BeginShutdown \/ FinishShutdown

RestoreStep ==
    \/ \E o \in Orders : RestoreOrder(o)
    \/ OrderRestored \/ AllRestored

-----------------------------------------------------------------------------
(* The HTTP handlers.  process_order first asks whether the currency is    *)
(* supported and then, in a second request, creates the order.  The server *)
(* takes no new requests once the token is cancelled.                      *)

Ask(c, m, state) ==
    /\ HandlerLives /\ Len(stateQ) < StateCap
    /\ stateQ' = Append(stateQ, m)
    /\ http' = [http EXCEPT ![c] = state]
    /\ UNCHANGED <<ledgerVars, worldVars, sh, supported, restoreVars,
                   managerVars, ack, trackerVars, tailVars>>

RequestStatus(c) ==
    /\ http[c] = "idle" /\ ~cancelled
    /\ Ask(c, [type |-> "read", client |-> c], "reading")

CheckCurrency(c) ==
    /\ http[c] = "idle" /\ ~cancelled
    /\ Ask(c, [type |-> "supported", client |-> c], "asking")

CreateOrder(c, o, amount) ==
    /\ http[c] = "supported"
    /\ Ask(c, [type |-> "create", client |-> c, order |-> o,
               amount |-> amount], "creating")

(* The channel is closed: the handler answers 500 by itself.               *)
GiveUp(c) ==
    /\ http[c] = "supported" /\ ~HandlerLives
    /\ http' = [http EXCEPT ![c] = "idle"]
    /\ UNCHANGED <<ledgerVars, worldVars, stateQ, sh, supported, restoreVars,
                   managerVars, ack, trackerVars, tailVars>>

(* The peer goes away; the server drops the HTTP handler, and with it the  *)
(* receiver of the reply.                                                  *)
Disconnect(c) ==
    /\ c \in Leavers /\ http[c] \in Waiting
    /\ http' = [http EXCEPT ![c] = "gone"]
    /\ UNCHANGED <<ledgerVars, worldVars, stateQ, sh, supported, restoreVars,
                   managerVars, ack, trackerVars, tailVars>>

ClientStep ==
    \E c \in Clients :
        \/ RequestStatus(c) \/ CheckCurrency(c) \/ GiveUp(c) \/ Disconnect(c)
        \/ \E o \in Orders, amount \in Terms : CreateOrder(c, o, amount)
=============================================================================
