------------------------------- MODULE Ledger -------------------------------
(***************************************************************************)
(* The order table of the database server and the operations its task      *)
(* applies to it, one operator per function of database.rs.  A table maps  *)
(* every order id to its record, or to Blank when there is none.           *)
(*                                                                         *)
(* A record keeps what the daemon distinguishes: the terms (amount and     *)
(* currency, replaced together when a pending order is created again), the *)
(* account the customer was told to pay (fixed at creation), the instant   *)
(* the order dies, and the two statuses.                                   *)
(***************************************************************************)
EXTENDS Naturals

CONSTANTS
    Orders,     \* order ids
    Terms,      \* what an order asks for: amount and currency
    Accounts,   \* payment accounts the signer derives
    Blank       \* "no record", "no order"

ASSUME BlankIsNoOrder == Blank \notin Orders

OrderInfo == [terms      : Terms,
              account    : Accounts,
              death      : Nat,
              payment    : {"Pending", "Paid"},
              withdrawal : {"Waiting", "Failed", "Completed"}]

ASSUME BlankIsNoRecord == Blank \notin OrderInfo

Table == [Orders -> OrderInfo \cup {Blank}]

EmptyTable == [o \in Orders |-> Blank]

IsKnown(table, o) == table[o] # Blank
IsPaid(table, o) == IsKnown(table, o) /\ table[o].payment = "Paid"
IsPending(table, o) == IsKnown(table, o) /\ table[o].payment = "Pending"

-----------------------------------------------------------------------------
(* Every operation returns the reply it sends and the table it leaves.     *)

Outcome(reply, table) == [reply |-> reply, table |-> table]

(* Mutant: a new order takes its withdrawal status from the other enum.    *)
NewOrder_mixedStatus(terms, account, death) ==
    [terms |-> terms, account |-> account, death |-> death,
     payment |-> "Pending", withdrawal |-> "Pending"]

NewOrder(terms, account, death) ==
    [terms      |-> terms,
     account    |-> account,
     death      |-> death,
     payment    |-> "Pending",
     withdrawal |-> "Waiting"]

(* Mutant: creating a paid order again opens it anew.                      *)
create_order_reopening(table, o, terms, account, death) ==
    Outcome(IF IsKnown(table, o) THEN "Modified" ELSE "New",
            [table EXCEPT ![o] = NewOrder(terms, account, death)])

(* Mutant: a modified order also takes the account derived this time.      *)
create_order_newAccount(table, o, terms, account, death) ==
    IF IsPaid(table, o)
    THEN Outcome("Collision", table)
    ELSE create_order_reopening(table, o, terms, account, death)

create_order(table, o, terms, account, death) ==
    CASE ~IsKnown(table, o) ->
            Outcome("New",
                    [table EXCEPT ![o] = NewOrder(terms, account, death)])
      [] IsPending(table, o) ->
            Outcome("Modified",
                    [table EXCEPT ![o] = [@ EXCEPT !.terms = terms,
                                                   !.death = death]])
      [] IsPaid(table, o) ->
            Outcome("Collision", table)

read_order(table, o) ==
    Outcome(IF IsKnown(table, o) THEN "Found" ELSE "NotFound", table)

(* Mutant: a payment is recorded whatever the status was.                  *)
mark_paid_unguarded(table, o) ==
    IF IsKnown(table, o)
    THEN Outcome("Ok", [table EXCEPT ![o] = [@ EXCEPT !.payment = "Paid"]])
    ELSE Outcome("OrderNotFound", table)

(* Mutant: the status is tested the wrong way round.                       *)
mark_paid_inverted(table, o) ==
    IF IsPending(table, o)
    THEN Outcome("AlreadyPaid", table)
    ELSE mark_paid_unguarded(table, o)

mark_paid(table, o) ==
    CASE ~IsKnown(table, o) -> Outcome("OrderNotFound", table)
      [] IsPaid(table, o)   -> Outcome("AlreadyPaid", table)
      [] IsPending(table, o) ->
            Outcome("Ok", [table EXCEPT ![o] = [@ EXCEPT !.payment = "Paid"]])

(* mark_withdrawn and mark_stuck look the record up under `key` and store  *)
(* the changed record under o.                                             *)
MarkWithdrawal(table, key, o, status) ==
    LET found == IF key = Blank THEN Blank ELSE table[key]
    IN  CASE found = Blank -> Outcome("OrderNotFound", table)
          [] found # Blank /\ found.payment = "Pending" ->
                Outcome("NotPaid", table)
          [] found # Blank /\ found.payment = "Paid"
             /\ found.withdrawal # "Waiting" ->
                Outcome("WithdrawalWasAttempted", table)
          [] found # Blank /\ found.payment = "Paid"
             /\ found.withdrawal = "Waiting" ->
                Outcome("Ok", [table EXCEPT ![o] =
                                 [found EXCEPT !.withdrawal = status]])

mark_withdrawn(table, key, o) == MarkWithdrawal(table, key, o, "Completed")
mark_stuck(table, key, o) == MarkWithdrawal(table, key, o, "Failed")

(* ActiveOrderList: the orders a restarted daemon goes on watching.        *)
ActiveOrders(table) == {o \in Orders : IsPending(table, o)}

-----------------------------------------------------------------------------
(* How a table may change over any number of operations: an order never    *)
(* disappears, its payment account never changes, and once it is paid only *)
(* its withdrawal status may still move, away from Waiting.                *)
Keeps(old, new) ==
    \/ old = Blank
    \/ /\ new # Blank
       /\ new.account = old.account
       /\ old.payment = "Paid" =>
            /\ new = [old EXCEPT !.withdrawal = new.withdrawal]
            /\ old.withdrawal # "Waiting" => new.withdrawal = old.withdrawal

MovesForward(old, new) == \A o \in Orders : Keeps(old[o], new[o])
=============================================================================
