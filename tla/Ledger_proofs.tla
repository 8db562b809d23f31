---------------------------- MODULE Ledger_proofs ----------------------------
(***************************************************************************)
(* What the operations of the order table return and preserve, for every   *)
(* set of orders, terms and accounts.  The proofs about the database and   *)
(* the daemon rest on these lemmas and never look into a record.           *)
(***************************************************************************)
EXTENDS Ledger, TLAPS

(* A new record is well formed and pending (definitions.rs:141).           *)
LEMMA NewOrderType ==
    ASSUME NEW terms \in Terms, NEW account \in Accounts, NEW death \in Nat
    PROVE  /\ NewOrder(terms, account, death) \in OrderInfo
           /\ NewOrder(terms, account, death) # Blank
           /\ NewOrder(terms, account, death).payment = "Pending"
BY BlankIsNoRecord DEF NewOrder, OrderInfo

(* An order is unknown, pending or paid, and only one of these.            *)
LEMMA StatusCases ==
    ASSUME NEW t \in Table, NEW o \in Orders
    PROVE  /\ t[o] = Blank \/ t[o] \in OrderInfo
           /\ IsKnown(t, o) => t[o] \in OrderInfo
           /\ IsKnown(t, o) => (IsPaid(t, o) \/ IsPending(t, o))
           /\ ~(IsPaid(t, o) /\ IsPending(t, o))
BY DEF Table, IsKnown, IsPaid, IsPending, OrderInfo

(* No change at all is a change forward.                                   *)
LEMMA KeepsReflexive ==
    ASSUME NEW r \in OrderInfo \cup {Blank}
    PROVE  Keeps(r, r)
BY DEF Keeps, OrderInfo

(* Changes forward compose.                                                *)
LEMMA KeepsTransitive ==
    ASSUME NEW r \in OrderInfo \cup {Blank}, NEW s \in OrderInfo \cup {Blank},
           NEW t \in OrderInfo \cup {Blank}, Keeps(r, s), Keeps(s, t)
    PROVE  Keeps(r, t)
<1>1. CASE r = Blank
  BY <1>1 DEF Keeps
<1>2. CASE r # Blank
  <2>1. r \in OrderInfo /\ s \in OrderInfo /\ t \in OrderInfo
    BY <1>2 DEF Keeps
  <2>2. t.account = r.account
    BY <1>2, <2>1 DEF Keeps
  <2>3. ASSUME r.payment = "Paid"
        PROVE  /\ t = [r EXCEPT !.withdrawal = t.withdrawal]
               /\ r.withdrawal # "Waiting" => t.withdrawal = r.withdrawal
    <3>1. /\ s = [r EXCEPT !.withdrawal = s.withdrawal]
          /\ r.withdrawal # "Waiting" => s.withdrawal = r.withdrawal
      BY <1>2, <2>1, <2>3 DEF Keeps
    <3>2. s # Blank /\ s.payment = "Paid"
      BY <1>2, <2>1, <2>3, <3>1 DEF Keeps, OrderInfo
    <3>3. /\ t = [s EXCEPT !.withdrawal = t.withdrawal]
          /\ s.withdrawal # "Waiting" => t.withdrawal = s.withdrawal
      BY <2>1, <3>2 DEF Keeps
    <3> QED BY <2>1, <3>1, <3>3 DEF OrderInfo
  <2> QED BY <1>2, <2>1, <2>2, <2>3 DEF Keeps
<1> QED BY <1>1, <1>2

LEMMA MovesForwardReflexive ==
    ASSUME NEW t \in Table
    PROVE  MovesForward(t, t)
BY KeepsReflexive DEF MovesForward, Table

LEMMA MovesForwardTransitive ==
    ASSUME NEW t \in Table, NEW u \in Table, NEW v \in Table,
           MovesForward(t, u), MovesForward(u, v)
    PROVE  MovesForward(t, v)
<1> SUFFICES ASSUME NEW o \in Orders PROVE Keeps(t[o], v[o])
  BY DEF MovesForward
<1>1. Keeps(t[o], u[o]) /\ Keeps(u[o], v[o])
  BY DEF MovesForward
<1>2. /\ t[o] \in OrderInfo \cup {Blank}
      /\ u[o] \in OrderInfo \cup {Blank}
      /\ v[o] \in OrderInfo \cup {Blank}
  BY DEF Table
<1> QED BY <1>1, <1>2, KeepsTransitive

(* An order that is paid stays paid under every change forward.            *)
LEMMA PaidStaysPaid ==
    ASSUME NEW t \in Table, NEW u \in Table, NEW o \in Orders,
           MovesForward(t, u), IsPaid(t, o)
    PROVE  IsPaid(u, o)
<1>1. t[o] \in OrderInfo /\ t[o] # Blank /\ t[o].payment = "Paid"
  BY DEF Table, IsPaid, IsKnown
<1>2. Keeps(t[o], u[o])
  BY DEF MovesForward
<1>3. u[o] # Blank /\ u[o] \in OrderInfo
  BY <1>1, <1>2 DEF Keeps, Table
<1>4. u[o] = [t[o] EXCEPT !.withdrawal = u[o].withdrawal]
  BY <1>1, <1>2 DEF Keeps
<1>5. u[o].payment = t[o].payment
  BY <1>1, <1>3, <1>4 DEF OrderInfo
<1> QED BY <1>1, <1>3, <1>5 DEF IsPaid, IsKnown

-----------------------------------------------------------------------------
(* One lemma per operation: its reply, the type of the table it leaves,    *)
(* and that it moves the table forward.                                    *)

(* create_order amends what is pending and never touches what is paid.     *)
LEMMA create_orderForward ==
    ASSUME NEW t \in Table, NEW o \in Orders, NEW terms \in Terms,
           NEW account \in Accounts, NEW death \in Nat
    PROVE  LET outcome == create_order(t, o, terms, account, death)
           IN  /\ outcome.reply \in {"New", "Modified", "Collision"}
               /\ outcome.table \in Table
               /\ MovesForward(t, outcome.table)
               /\ outcome.reply = "New" => /\ IsPending(outcome.table, o)
                                           /\ ~IsKnown(t, o)
               /\ \A p \in Orders : IsPaid(outcome.table, p) => IsPaid(t, p)
<1> DEFINE outcome == create_order(t, o, terms, account, death)
<1>1. CASE ~IsKnown(t, o)
  <2> DEFINE r == NewOrder(terms, account, death)
  <2>1. r \in OrderInfo /\ r # Blank /\ r.payment = "Pending"
    BY NewOrderType
  <2> HIDE DEF r
  <2>2. outcome = [reply |-> "New", table |-> [t EXCEPT ![o] = r]]
    BY <1>1 DEF create_order, Outcome, r, IsPaid, IsPending
  <2>3. outcome.table \in Table
    BY <2>1, <2>2 DEF Table
  <2>4. \A p \in Orders : Keeps(t[p], outcome.table[p])
    BY <1>1, <2>2, KeepsReflexive DEF Table, Keeps, IsKnown
  <2> QED BY <1>1, <2>1, <2>2, <2>3, <2>4
          DEF MovesForward, IsPending, IsPaid, IsKnown, Table
<1>2. CASE IsPending(t, o)
  <2> DEFINE r == [t[o] EXCEPT !.terms = terms, !.death = death]
  <2>1. /\ t[o] \in OrderInfo /\ t[o] # Blank /\ t[o].payment = "Pending"
    BY <1>2 DEF IsPending, IsKnown, Table
  <2>2. r \in OrderInfo /\ r.payment = "Pending" /\ r.account = t[o].account
    BY <2>1 DEF OrderInfo
  <2>3. r # Blank
    BY <2>2, BlankIsNoRecord
  <2>4. outcome = [reply |-> "Modified", table |-> [t EXCEPT ![o] = r]]
    BY <1>2, <2>1 DEF create_order, Outcome, IsPaid, IsPending, IsKnown
  <2> HIDE DEF r
  <2>5. outcome.table \in Table
    BY <2>2, <2>4 DEF Table
  <2>6. \A p \in Orders : Keeps(t[p], outcome.table[p])
    BY <2>1, <2>2, <2>3, <2>4, KeepsReflexive DEF Table, Keeps
  <2> QED BY <2>2, <2>4, <2>5, <2>6 DEF MovesForward, IsPaid, IsKnown, Table
<1>3. CASE IsPaid(t, o)
  <2>1. outcome = [reply |-> "Collision", table |-> t]
    BY <1>3 DEF create_order, Outcome, IsPaid, IsPending, IsKnown
  <2> QED BY <1>3, <2>1, MovesForwardReflexive
<1> QED BY <1>1, <1>2, <1>3, StatusCases

(* mark_paid answers Ok exactly for a pending order, which it makes paid.  *)
LEMMA mark_paidForward ==
    ASSUME NEW t \in Table, NEW o \in Orders
    PROVE  LET outcome == mark_paid(t, o)
           IN  /\ outcome.reply \in {"Ok", "AlreadyPaid", "OrderNotFound"}
               /\ outcome.table \in Table
               /\ MovesForward(t, outcome.table)
               /\ outcome.reply = "Ok" =>
                     /\ IsPending(t, o) /\ IsPaid(outcome.table, o)
                     /\ outcome.table[o].terms = t[o].terms
               /\ outcome.reply # "Ok" => outcome.table = t
               /\ \A p \in Orders \ {o} : outcome.table[p] = t[p]
<1> DEFINE outcome == mark_paid(t, o)
<1>1. CASE IsPending(t, o)
  <2> DEFINE r == [t[o] EXCEPT !.payment = "Paid"]
  <2>1. t[o] \in OrderInfo /\ t[o] # Blank /\ t[o].payment = "Pending"
    BY <1>1 DEF IsPending, IsKnown, Table
  <2>2. /\ r \in OrderInfo /\ r.payment = "Paid"
        /\ r.account = t[o].account /\ r.terms = t[o].terms
    BY <2>1 DEF OrderInfo
  <2>3. r # Blank
    BY <2>2, BlankIsNoRecord
  <2>4. outcome = [reply |-> "Ok", table |-> [t EXCEPT ![o] = r]]
    BY <1>1, <2>1 DEF mark_paid, Outcome, IsPaid, IsPending, IsKnown
  <2> HIDE DEF r
  <2>5. outcome.table \in Table
    BY <2>2, <2>4 DEF Table
  <2>6. \A p \in Orders : Keeps(t[p], outcome.table[p])
    BY <2>1, <2>2, <2>3, <2>4, KeepsReflexive DEF Table, Keeps
  <2> QED BY <1>1, <2>2, <2>3, <2>4, <2>5, <2>6
          DEF MovesForward, IsPaid, IsKnown, Table
<1>2. CASE ~IsPending(t, o)
  <2>1. /\ outcome.reply \in {"AlreadyPaid", "OrderNotFound"}
        /\ outcome.table = t
    BY <1>2, StatusCases DEF mark_paid, Outcome
  <2> QED BY <2>1, MovesForwardReflexive
<1> QED BY <1>1, <1>2

(* mark_withdrawn and mark_stuck leave every paid order paid, whatever     *)
(* record they find; when they find none they change nothing.              *)
LEMMA MarkWithdrawalPaid ==
    ASSUME NEW t \in Table, NEW o \in Orders, NEW key \in Orders \cup {Blank},
           NEW status \in {"Failed", "Completed"}
    PROVE  LET outcome == MarkWithdrawal(t, key, o, status)
           IN  /\ outcome.reply \in {"Ok", "OrderNotFound", "NotPaid",
                                     "WithdrawalWasAttempted"}
               /\ outcome.table \in Table
               /\ \A p \in Orders : IsPaid(t, p) => IsPaid(outcome.table, p)
               /\ key = Blank => outcome.table = t
<1> DEFINE outcome == MarkWithdrawal(t, key, o, status)
           found == IF key = Blank THEN Blank ELSE t[key]
<1>1. found \in OrderInfo \cup {Blank}
  BY DEF Table
<1>2. CASE found = Blank
  <2>1. outcome = [reply |-> "OrderNotFound", table |-> t]
    BY <1>2 DEF MarkWithdrawal, Outcome
  <2> QED BY <2>1
<1>3. CASE found # Blank /\ found.payment = "Paid"
                         /\ found.withdrawal = "Waiting"
  <2> DEFINE r == [found EXCEPT !.withdrawal = status]
  <2>1. r \in OrderInfo /\ r.payment = "Paid" /\ key # Blank
    BY <1>1, <1>3 DEF OrderInfo
  <2>2. r # Blank
    BY <2>1, BlankIsNoRecord
  <2>3. outcome = [reply |-> "Ok", table |-> [t EXCEPT ![o] = r]]
    BY <1>3 DEF MarkWithdrawal, Outcome
  <2> HIDE DEF r, found
  <2>4. outcome.table \in Table
    BY <2>1, <2>3 DEF Table
  <2> QED BY <2>1, <2>2, <2>3, <2>4 DEF IsPaid, IsKnown, Table
<1>4. CASE found # Blank /\ ~(found.payment = "Paid"
                              /\ found.withdrawal = "Waiting")
  <2>1. /\ outcome.reply \in {"NotPaid", "WithdrawalWasAttempted"}
        /\ outcome.table = t
    BY <1>1, <1>4 DEF MarkWithdrawal, Outcome, OrderInfo
  <2> QED BY <2>1
<1> QED BY <1>1, <1>2, <1>3, <1>4
=============================================================================
