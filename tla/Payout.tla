------------------------------- MODULE Payout -------------------------------
(***************************************************************************)
(* From the account of an order to the transfer of its funds: the State    *)
(* Handler has the signer derive the account (state.rs), customers pay to  *)
(* it, and after the order is recorded as paid a task (chain/payout.rs)    *)
(* reads the balance, builds an extrinsic, has it signed and sends it.     *)
(* Between any two awaits of the task the chain goes on, other tasks run,  *)
(* or the daemon goes down; it may come up with another recipient and with *)
(* an earlier version of its orders.  Which reports lead to a Reap, and    *)
(* that there is one per order and start, is in Daemon.                    *)
(***************************************************************************)
EXTENDS Amounts, Extrinsics, Signer, FiniteSets

CONSTANTS
    Runtimes,     \* what the metadata of a chain may be, by name
    Currencies,   \* those of the chain orders are in, as CurrencyProperties
    Prices,       \* decimal amounts asked for, of type [digits, scale]
    Deposits,     \* units a customer sends at a time
    EraPeriod,    \* blocks a mortal extrinsic lives
    NoOrder,
    MaxHeight, MaxFunds, MaxBoots   \* bounds

VARIABLES
    runtime,    \* the name of the chain's, whose metadata the tracker has
    orders,     \* the order table: [state, account, price, currency]
    creating,   \* the order whose account the handler waits for
    stopping,   \* whether the handler has told the signer to stop
    task,       \* each order's payout task
    height, funds, nonce, pool,   \* the chain's, funds by account and currency
    transfers,  \* <<account, recipient>> of the transfers executed
    derived,    \* <<account, recipient>> of the accounts handed out
    boots

daemonVars == <<orders, creating, stopping, task>>
chainVars == <<height, funds, nonce, pool, transfers>>
setVars == <<runtime, boots>>
vars == <<signerVars, daemonVars, chainVars, setVars, derived>>

ASSUME BoundsAreNatural ==
    /\ MaxHeight \in Nat /\ MaxFunds \in Nat /\ MaxBoots \in Nat \ {0}
    /\ MaxFunds < 2^BalanceBits
ASSUME DepositsAreUnits == Deposits \subseteq Nat

-----------------------------------------------------------------------------
(* What process_order accepts, and the units that are asked for then.      *)
Accepted == {price \in Prices : ~LessThanExistentialDeposit(price)}
Units == [price \in Prices, in \in Currencies |->
            parse(FloatOf(price), in.decimals)]

(* They are an u128.                                                       *)
ASSUME UnitsAreBalances ==
    \A price \in Accepted, in \in Currencies : Units[price, in] \in Balance

NoAccount == <<>>
NewOrder == [state |-> "none", account |-> NoAccount,
             price |-> [digits |-> 0, scale |-> 0],
             currency |-> [kind |-> "none"]]

NoTask == [pc |-> "none"]
Task(pc, block, seen) ==
    [pc |-> pc, block |-> block, seen |-> seen,
     transaction |-> NoTask, signature |-> Nothing]

Init ==
    /\ SignerInit
    /\ runtime \in DOMAIN Runtimes
    /\ orders = [o \in Orders |-> NewOrder]
    /\ creating = NoOrder /\ stopping = FALSE
    /\ task = [o \in Orders |-> NoTask]
    /\ height = 0 /\ funds = [a \in Pairs |-> [of \in Currencies |-> 0]]
    /\ nonce = [a \in Pairs |-> 0]
    /\ pool = {} /\ transfers = {} /\ derived = {} /\ boots = 1

-----------------------------------------------------------------------------
(* The State Handler.                                                      *)

(* create_invoice: whatever the order, its account is derived first.       *)
CreateOrder(o) ==
    /\ creating = NoOrder /\ ~stopping
    /\ Ask(Handler, PublicKeyRequest(o, Handler))
    /\ creating' = o
    /\ UNCHANGED <<orders, stopping, task, chainVars, setVars, derived>>

(* A new order gets the account; a pending one keeps its own and is asked  *)
(* for the new price in the new currency, which process_order has checked; *)
(* a paid one stays.  (When it dies is in Daemon.)                         *)
Ordered(order, account, price, of) ==
    CASE order.state = "none" ->
            [state |-> "pending", account |-> account, price |-> price,
             currency |-> of]
      [] order.state = "pending" ->
            [order EXCEPT !.price = price, !.currency = of]
      [] order.state = "paid" -> order

AccountDerived(price, of) ==
    /\ creating # NoOrder /\ price \in Accepted
    /\ answer[Handler].type = "public"
    /\ LET account == answer[Handler].by
       IN  /\ orders' = [orders EXCEPT ![creating] =
                            Ordered(@, account, price, of)]
           /\ derived' = IF orders[creating].state = "none"
                         THEN derived \cup {<<account, recipient>>}
                         ELSE derived
    /\ answer' = [answer EXCEPT ![Handler] = Nothing]
    /\ creating' = NoOrder
    /\ UNCHANGED <<recipient, signer, signerQ, stopping, task, chainVars,
                   setVars>>

(* An error of the signer is the answer to the client.                     *)
OrderRefused ==
    /\ creating # NoOrder /\ answer[Handler] = SignerDown
    /\ answer' = [answer EXCEPT ![Handler] = Nothing]
    /\ creating' = NoOrder
    /\ UNCHANGED <<recipient, signer, signerQ, orders, stopping, task,
                   chainVars, setVars, derived>>

(* The account exists and has what is asked for; the report may have been  *)
(* checked against the price, and in the currency, the order had before.   *)
FoundPaid(o) ==
    \E price \in Accepted, of \in Currencies :
        LET held == funds[orders[o].account][of]
        IN  held > 0 /\ held >= Units[price, of]

(* Mutant: the payout is spawned before the order is recorded as paid.     *)
OrderPaid_unrecorded(o) ==
    /\ ~stopping /\ orders[o].state = "pending" /\ FoundPaid(o)
    /\ task' = [task EXCEPT ![o] = Task("spawned", 0, 0)]
    /\ UNCHANGED <<signerVars, orders, creating, stopping, chainVars, setVars,
                   derived>>

(* The order is reported, recorded and reaped, and its task spawned.       *)
OrderPaid(o) ==
    /\ ~stopping /\ orders[o].state = "pending" /\ FoundPaid(o)
    /\ orders' = [orders EXCEPT ![o].state = "paid"]
    /\ task' = [task EXCEPT ![o] = Task("spawned", 0, 0)]
    /\ UNCHANGED <<signerVars, creating, stopping, chainVars, setVars, derived>>

(* The handler's last act; payout tasks may still be running.              *)
StopSigner ==
    /\ creating = NoOrder /\ ~stopping
    /\ stopping' = TRUE
    /\ AskToStop
    /\ UNCHANGED <<orders, creating, task, chainVars, setVars, derived>>

-----------------------------------------------------------------------------
(* The payout task of an order: any query may fail, and then it ends, with *)
(* a result nobody looks at.                                               *)

metadata == Runtimes[runtime]

Amount(o) == Units[orders[o].price, orders[o].currency]

At(o, pc) == task[o].pc = pc

Continues(o, next) ==
    /\ task' = [task EXCEPT ![o] = next]
    /\ UNCHANGED <<orders, creating, stopping, setVars, derived>>

GivesUp(o) ==
    /\ task[o].pc \in {"spawned", "connected", "at_block", "numbered", "signed"}
    /\ Continues(o, [task[o] EXCEPT !.pc = "failed"])
    /\ UNCHANGED <<signerVars, chainVars>>

ConnectClient(o) ==
    /\ At(o, "spawned")
    /\ Continues(o, [task[o] EXCEPT !.pc = "connected"])
    /\ UNCHANGED <<signerVars, chainVars>>

(* The best block; what it says of the account is read later.              *)
BlockHash(o) ==
    /\ At(o, "connected")
    /\ Continues(o, Task("at_block", height,
                         funds[orders[o].account][orders[o].currency]))
    /\ UNCHANGED <<signerVars, chainVars>>

BlockNumber(o) ==
    /\ At(o, "at_block")
    /\ Continues(o, [task[o] EXCEPT !.pc =
          IF block_number_query(metadata).entry = "Number"
          THEN "numbered" ELSE "failed"])
    /\ UNCHANGED <<signerVars, chainVars>>

BalanceQuery(o) ==
    IF orders[o].currency.kind = "Asset"
    THEN asset_balance_query(metadata, orders[o].account,
                             orders[o].currency.asset_id)
    ELSE system_balance_query(metadata, orders[o].account)

(* What decodes as the balance of the account in the order's currency; an  *)
(* account without funds does not exist, which is an error.                *)
BalanceFound(o) ==
    /\ task[o].seen > 0
    /\ BalanceQuery(o) =
          IF orders[o].currency.kind = "Asset"
          THEN [pallet |-> "Assets", entry |-> "Account",
                key |-> <<orders[o].currency.asset_id, orders[o].account>>]
          ELSE [pallet |-> "System", entry |-> "Account",
                key |-> orders[o].account]

TransferCall(o) ==
    IF orders[o].currency.kind = "Asset"
    THEN construct_single_asset_transfer_call(
            metadata, orders[o].currency.asset_id, Amount(o), recipient)
    ELSE construct_single_balance_transfer_call(
            metadata, Amount(o), recipient, TRUE)

(* Mutant: the nonce the account has by now.                               *)
Nonce_current(o) == nonce[orders[o].account]

(* payout.rs passes a literal.                                             *)
Nonce(o) == 0

Transaction(o) ==
    construct_batch_transaction(metadata, orders[o].account, <<TransferCall(o)>>,
                                task[o].block, task[o].block, Nonce(o))

(* The balance arrives: decide, build, and go on to the signer.            *)
Decide(o) ==
    /\ At(o, "numbered") /\ BalanceFound(o)
    /\ Continues(o,
          IF Decision(task[o].seen, Amount(o)) # "pay"
          THEN [task[o] EXCEPT !.pc = Decision(task[o].seen, Amount(o))]
          ELSE IF ~Signable(Transaction(o))
               THEN [task[o] EXCEPT !.pc = "unsignable"]
               ELSE [task[o] EXCEPT !.pc = "built",
                                    !.transaction = Transaction(o)])
    /\ UNCHANGED <<signerVars, chainVars>>

NoBalance(o) ==
    /\ At(o, "numbered") /\ ~BalanceFound(o)
    /\ Continues(o, [task[o] EXCEPT !.pc = "failed"])
    /\ UNCHANGED <<signerVars, chainVars>>

Payload(transaction) ==
    [f \in {"call", "era", "block", "number", "nonce"} |-> transaction[f]]

AskSigner(o) ==
    /\ At(o, "built")
    /\ Ask(o, Sign(o, Payload(task[o].transaction), o))
    /\ Continues(o, [task[o] EXCEPT !.pc = "signing"])
    /\ UNCHANGED chainVars

GetSignature(o) ==
    /\ At(o, "signing") /\ answer[o].type \in {"signature", "down"}
    /\ Continues(o, [task[o] EXCEPT
          !.signature = answer[o],
          !.pc = IF answer[o].type = "signature" /\ Sendable(task[o].transaction)
                 THEN "signed" ELSE "failed"])
    /\ answer' = [answer EXCEPT ![o] = Nothing]
    /\ UNCHANGED <<recipient, signer, signerQ, chainVars>>

SendStuff(o) ==
    /\ At(o, "signed")
    /\ pool' = pool \cup {[transaction |-> task[o].transaction,
                           signature |-> task[o].signature]}
    /\ Continues(o, [task[o] EXCEPT !.pc = "sent"])
    /\ UNCHANGED <<signerVars, height, funds, nonce, transfers>>

TaskStep(o) ==
    \/ GivesUp(o) \/ ConnectClient(o) \/ BlockHash(o) \/ BlockNumber(o)
    \/ Decide(o) \/ NoBalance(o) \/ AskSigner(o) \/ GetSignature(o)
    \/ SendStuff(o)

-----------------------------------------------------------------------------
(* The chain: what it makes of a call, and of an extrinsic in its pool.    *)

BatchedCalls(call) ==
    IF call.pallet = "Utility" /\ call.method = "batch_all"
    THEN call.fields["calls"].value ELSE <<>>

Moving == {<<"Assets", "transfer">>, <<"Balances", "transfer_all">>,
           <<"Balances", "transfer_keep_alive">>}

IsTransfer(call) == <<call.pallet, call.method>> \in Moving

InCurrency(call, of) ==
    IF of.kind = "Asset"
    THEN call.pallet = "Assets" /\ call.fields["id"].value = of.asset_id
    ELSE call.pallet = "Balances"

DestinationIn(pallet) == IF pallet = "Assets" THEN "target" ELSE "dest"

Destination(call) == call.fields[DestinationIn(call.pallet)].value

(* What of a transfer is read here.                                        *)
ArgumentsOf(pallet, method) ==
    IF pallet = "Assets" THEN {"target", "id", "amount"}
    ELSE IF method = "transfer_all" THEN {"dest"} ELSE {"dest", "value"}

(* What the names mean, wherever they are found: a batch has calls, and a  *)
(* transfer somebody who receives it.                                      *)
IsUsual(pallets) ==
    /\ 1 \in DOMAIN pallets
    /\ \A k \in DOMAIN pallets :
          /\ 1 \in DOMAIN pallets[k].methods
          /\ \A j \in DOMAIN pallets[k].methods :
                LET method == pallets[k].methods[j]
                IN  /\ <<pallets[k].name, method.name>> \in Moving
                       => \A f \in ArgumentsOf(pallets[k].name, method.name) :
                             f \in DOMAIN method.fields /\ method.fields[f] # "calls"
                    /\ pallets[k].name = "Utility" /\ method.name = "batch_all"
                       => "calls" \in DOMAIN method.fields

ASSUME RuntimesAreUsual == \A r \in DOMAIN Runtimes : IsUsual(Runtimes[r].calls)

(* The calls that a selector starts at have arguments to fill in, who      *)
(* batches has batch_all, and an era is of a type the daemon knows.        *)
HasArguments(method) ==
    \E f \in DOMAIN method.fields : method.fields[f] # "calls"

StartsOpen(pallets, name) ==
    HasArguments(Selected(pallets, name).methods[1])

ASSUME CallsStartOpen ==
    \A r \in DOMAIN Runtimes :
        LET pallets == Runtimes[r].calls
        IN  /\ StartsOpen(pallets, "Assets") /\ StartsOpen(pallets, "Balances")
            /\ \/ /\ Has(pallets, "Utility")
                  /\ Has(Selected(pallets, "Utility").methods, "batch_all")
               \/ StartsOpen(pallets, "Utility")
ASSUME ErasAreKnown ==
    \A r \in DOMAIN Runtimes : Runtimes[r].era \in {"composite", "era"}

Moves(call, held) ==
    CASE call.method = "transfer_all" -> held
      [] call.method = "transfer_keep_alive" -> call.fields["value"].value
      [] call.method = "transfer" -> call.fields["amount"].value

(* A customer pays in whatever currency; for the model, MaxFunds is what    *)
(* an account holds at most, in any two of them together.                  *)
Customer(account, of, units) ==
    /\ \E d \in derived : d[1] = account
    /\ funds[account][of] + units <= MaxFunds
    /\ \A other \in Currencies \ {of} :
          funds[account][of] + units + funds[account][other] <= MaxFunds
    /\ funds' = [funds EXCEPT ![account][of] = @ + units]
    /\ UNCHANGED <<signerVars, daemonVars, height, nonce, pool, transfers,
                   setVars, derived>>

NewBlock ==
    /\ height < MaxHeight
    /\ height' = height + 1
    /\ UNCHANGED <<signerVars, daemonVars, funds, nonce, pool, transfers,
                   setVars, derived>>

(* The block number must be that of the hash that was signed, and not too  *)
(* old.                                                                    *)
IsValid(x) ==
    LET t == x.transaction
    IN  /\ x.signature = Signature(t.author, Payload(t))
        /\ t.nonce = nonce[t.author]
        /\ t.number = t.block
        /\ t.era = "immortal" \/ height - t.number <= EraPeriod

(* An account that is left without funds is removed, its nonce with it.    *)
Lives(account, balances) == \E of \in Currencies : balances[account][of] > 0

ExecuteIn(x, of) ==
    LET account == x.transaction.author
        calls == BatchedCalls(x.transaction.call)
        held == funds[account][of]
    IN  /\ IsValid(x) /\ Len(calls) = 1 /\ IsTransfer(calls[1])
        /\ InCurrency(calls[1], of)
        /\ LET left == held - Moves(calls[1], held)
           IN  /\ held > 0 /\ left >= 0
               /\ calls[1].method = "transfer_keep_alive" => left > 0
               /\ funds' = [funds EXCEPT ![account][of] = left]
               /\ nonce' = [nonce EXCEPT ![account] =
                               IF Lives(account, funds') THEN @ + 1 ELSE 0]
        /\ transfers' = transfers \cup {<<account, Destination(calls[1])>>}
        /\ pool' = pool \ {x}
        /\ UNCHANGED <<signerVars, daemonVars, height, setVars, derived>>

Execute(x) == \E of \in Currencies : ExecuteIn(x, of)

(* An extrinsic may fail, be refused or be lost: another runtime, no fees. *)
Forget(x) ==
    /\ pool' = pool \ {x}
    /\ UNCHANGED <<signerVars, daemonVars, height, funds, nonce, transfers,
                   setVars, derived>>

-----------------------------------------------------------------------------
(* The process ends, in whatever way, and starts again: with the orders    *)
(* that were on disk.                                                      *)
Restored(order, state) ==
    IF state = "none" THEN NewOrder ELSE [order EXCEPT !.state = state]

IsEarlier(state, order) ==
    \/ state = "none" \/ state = order.state
    \/ state = "pending" /\ order.state = "paid"

Restart(saved) ==
    /\ boots < MaxBoots
    /\ \A o \in Orders : IsEarlier(saved[o], orders[o])
    /\ boots' = boots + 1
    /\ recipient' \in Recipients
    /\ signer' = "starting" /\ signerQ' = <<>>
    /\ answer' = [c \in Clients |-> Nothing]
    /\ orders' = [o \in Orders |-> Restored(orders[o], saved[o])]
    /\ creating' = NoOrder /\ stopping' = FALSE
    /\ task' = [o \in Orders |-> NoTask]
    /\ UNCHANGED <<chainVars, runtime, derived>>

Next ==
    \/ SignerStep /\ UNCHANGED <<daemonVars, chainVars, setVars, derived>>
    \/ \E o \in Orders : CreateOrder(o) \/ OrderPaid(o) \/ TaskStep(o)
    \/ \E price \in Prices, of \in Currencies : AccountDerived(price, of)
    \/ OrderRefused \/ StopSigner \/ NewBlock
    \/ \E account \in Pairs, of \in Currencies, units \in Deposits :
          Customer(account, of, units)
    \/ \E x \in pool : Execute(x) \/ Forget(x)
    \/ \E saved \in [Orders -> {"none", "pending", "paid"}] : Restart(saved)

Spec == Init /\ [][Next]_vars

(* The tasks of the daemon are polled, and a query is answered or fails;   *)
(* who waits for room in the signer's channel gets it in turn.             *)
Fairness ==
    /\ WF_vars(SignerStep /\ UNCHANGED <<daemonVars, chainVars, setVars,
                                         derived>>)
    /\ WF_vars(OrderRefused \/ \E price \in Prices, of \in Currencies :
                                  AccountDerived(price, of))
    /\ \A o \in Orders : WF_vars(TaskStep(o)) /\ SF_vars(AskSigner(o))

FairSpec == Spec /\ Fairness

-----------------------------------------------------------------------------
Running == {"spawned", "connected", "at_block", "numbered", "built", "signing",
            "signed"}
Refusals == {"overpaid", "out_of_range"}
Ends == Refusals \cup {"failed", "unsignable", "sent"}

TypeOK ==
    /\ SignerTypeOK
    /\ runtime \in DOMAIN Runtimes
    /\ \A o \in Orders :
          /\ orders[o] = NewOrder
             \/ /\ orders[o].state \in {"pending", "paid"}
                /\ orders[o].account \in Pairs /\ orders[o].price \in Prices
                /\ orders[o].currency \in Currencies
          /\ task[o].pc \in Running \cup Ends \cup {"none"}
          /\ task[o] # NoTask => /\ orders[o].state = "paid"
                                 /\ task[o].block \in 0..MaxHeight
                                 /\ task[o].seen \in 0..MaxFunds
    /\ creating \in Orders \cup {NoOrder} /\ stopping \in BOOLEAN
    /\ height \in 0..MaxHeight
    /\ funds \in [Pairs -> [Currencies -> 0..MaxFunds]]
    /\ nonce \in [Pairs -> Nat] /\ boots \in 1..MaxBoots
    /\ \A x \in pool : x.transaction.author \in Pairs
    /\ transfers \subseteq Pairs \X Recipients
    /\ derived \subseteq Pairs \X Recipients

(* Where the names mean what they do everywhere (RuntimesAreUsual), calls  *)
(* start open (CallsStartOpen) and the era is of a known type              *)
(* (ErasAreKnown), and however the metadata is laid out or short of        *)
(* pallets, methods and entries otherwise: what is signed and sent is one  *)
(* mortal transfer in the order's currency, from its account to the        *)
(* recipient, of all there is ("we've stuck with transfer_all",            *)
(* docs/structure.md:67) or of the amount of an asset.                     *)
SentIsAsOrdered ==
    \A o \in Orders : task[o].pc \in {"signed", "sent"} =>
        LET t == task[o].transaction
            calls == BatchedCalls(t.call)
        IN  /\ t.author = orders[o].account /\ t.era = "mortal"
            /\ t.number = t.block
            /\ Len(calls) = 1 /\ IsTransfer(calls[1])
            /\ InCurrency(calls[1], orders[o].currency)
            /\ Destination(calls[1]) = recipient
            /\ Moves(calls[1], task[o].seen) =
                  IF orders[o].currency.kind = "Asset" THEN Amount(o)
                                                       ELSE task[o].seen

(* A price that is a whole number of units and no larger than a float can  *)
(* distinguish is paid out exactly if the account held it, or more by the  *)
(* tolerance, at the block looked at.                                      *)
Distinguished(price, decimals) ==
    /\ IsWhole(price, decimals)
    /\ ExactUnits(price, decimals) < 2^(MantissaBits - 2)

(* Rounding twice leaves such a price as it is, and an u128 has room for   *)
(* it and the tolerance.                                                   *)
ASSUME DistinguishedAreExact ==
    \A price \in Accepted, in \in Currencies :
        Distinguished(price, in.decimals) =>
            Units[price, in] = ExactUnits(price, in.decimals)
ASSUME BalancesOutrangeFloats ==
    /\ MantissaBits >= 2
    /\ 2^(MantissaBits - 2) + LossTolerance <= 2^BalanceBits

PaysInWindow ==
    \A o \in Orders :
        LET decimals == orders[o].currency.decimals
            surplus == task[o].seen - ExactUnits(orders[o].price, decimals)
        IN  /\ task[o].pc \in {"built", "signing", "signed", "sent"} \cup Refusals
            /\ Distinguished(orders[o].price, decimals)
            => (task[o].pc \notin Refusals <=> surplus \in 0..LossTolerance)

(* However often an order is paid out again after restarts, one extrinsic  *)
(* at most is executed while its account lives.                            *)
PaidOnceWhileAlive == \A account \in Pairs : nonce[account] <= 1

(* Funds go to nobody but the recipient that was configured when the       *)
(* account was handed to the customer, later restarts with others          *)
(* notwithstanding.                                                        *)
PaidToOwner == transfers \subseteq derived

(* Every payout ends, and every client that asked for an order is          *)
(* answered, whenever the signer stops.                                    *)
EveryoneIsAnswered ==
    /\ creating # NoOrder ~> creating = NoOrder
    /\ \A o \in Orders : task[o].pc \in Running ~> task[o].pc \notin Running
=============================================================================
