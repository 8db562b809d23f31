---------------------------- MODULE Payout_proofs ----------------------------
(***************************************************************************)
(* Proofs about Payout: for any orders, recipients, runtimes, currencies   *)
(* and prices, with crashes and restarts, an order is paid out once while  *)
(* its account lives, and to the recipient it was made for.                *)
(***************************************************************************)
EXTENDS Payout, TLAPS

-----------------------------------------------------------------------------
(* Calls.                                                                  *)

(* A call that is executed as one transfer pays to this recipient.         *)
PaysTo(call, to) ==
    /\ Len(BatchedCalls(call)) = 1
    /\ IsTransfer(BatchedCalls(call)[1])
    => Destination(BatchedCalls(call)[1]) = to

(* A selector that finds a name is at that name.                           *)
LEMMA SelectedIsNamed ==
    ASSUME NEW list, NEW name, Has(list, name)
    PROVE  /\ Selected(list, name).name = name
           /\ \E k \in DOMAIN list : Selected(list, name) = list[k]
BY DEF Has, Selected

(* Who receives a transfer is among what is read of it.                    *)
LEMMA DestinationIsArgument ==
    ASSUME NEW pallet, NEW method, <<pallet, method>> \in Moving
    PROVE  DestinationIn(pallet) \in ArgumentsOf(pallet, method)
BY DEF Moving, DestinationIn, ArgumentsOf

(* A complete call that is a transfer has a destination, and it is the one *)
(* the filling has for it: the call of another name that is taken in the   *)
(* absence of the one looked for is not complete.                          *)
LEMMA TransferPaysFilling ==
    ASSUME NEW r \in DOMAIN Runtimes, NEW filling, NEW to,
           NEW pallet, NEW method,
           <<pallet, method>> \in Moving,
           DestinationIn(pallet) \in DOMAIN filling,
           filling[DestinationIn(pallet)] = AccountIn(to),
           IsComplete(Call(Runtimes[r], pallet, method, filling)),
           IsTransfer(Call(Runtimes[r], pallet, method, filling))
    PROVE  Destination(Call(Runtimes[r], pallet, method, filling)) = to
<1> DEFINE pallets == Runtimes[r].calls
           selected == Selected(pallets, pallet)
           found == Has(pallets, pallet) /\ Has(selected.methods, method)
           chosen == Selected(selected.methods, method)
           call == Call(Runtimes[r], pallet, method, filling)
<1>1. IsUsual(pallets)
  BY RuntimesAreUsual
<1>2. PICK k \in DOMAIN pallets : selected = pallets[k]
  BY <1>1, SelectedIsNamed DEF IsUsual, Selected
<1>3. CASE found
  <2>1. /\ call.pallet = pallet /\ call.method = method
        /\ chosen.name = method /\ selected.name = pallet
        /\ \E j \in DOMAIN selected.methods : chosen = selected.methods[j]
    <3>1. call = Filled(Prepared(selected, chosen), filling)
      BY <1>3 DEF Call
    <3>2. /\ chosen.name = method /\ selected.name = pallet
          /\ \E j \in DOMAIN selected.methods : chosen = selected.methods[j]
      BY <1>3, SelectedIsNamed
    <3> HIDE DEF selected, chosen, call
    <3>3. call.pallet = selected.name /\ call.method = chosen.name
      BY <3>1 DEF Filled, Prepared
    <3> QED BY <3>2, <3>3
  <2> DEFINE at == DestinationIn(pallet)
  <2>2. at \in DOMAIN chosen.fields /\ chosen.fields[at] # "calls"
    BY <1>1, <1>2, <2>1, DestinationIsArgument DEF IsUsual
  <2>3. /\ at \in DOMAIN call.fields
        /\ call.fields[at].value =
             IF chosen.fields[at] \in filling[at].kinds
             THEN filling[at].value ELSE Unfilled
    <3>1. call = Filled(Prepared(selected, chosen), filling)
      BY <1>3 DEF Call
    <3> HIDE DEF selected, chosen, call
    <3> QED BY <2>2, <3>1 DEF Filled, Prepared
  <2>4. call.fields[at].value # Unfilled
    BY <2>3 DEF IsComplete
  <2> QED BY <2>1, <2>3, <2>4 DEF Destination, AccountIn, FillWhere
<1>4. CASE ~found
  <2>1. call = Prepared(selected, selected.methods[1])
    BY <1>4 DEF Call
  <2> DEFINE first == selected.methods[1]
             at == DestinationIn(selected.name)
  <2>2. call.pallet = selected.name /\ call.method = first.name
    BY <2>1 DEF Prepared
  <2>3. at \in DOMAIN first.fields /\ first.fields[at] # "calls"
    BY <1>1, <1>2, <2>2, DestinationIsArgument DEF IsUsual, IsTransfer
  <2>4. at \in DOMAIN call.fields /\ call.fields[at].value = Unfilled
    <3>1. call = Prepared(selected, first)
      BY <2>1
    <3> HIDE DEF call, first, selected
    <3> QED BY <3>1, <2>3 DEF Prepared
  <2> QED BY <2>4 DEF IsComplete
<1> QED BY <1>3, <1>4

(* The batch has the calls it was made of, or it is not a batch.           *)
LEMMA BatchHasCalls ==
    ASSUME NEW r \in DOMAIN Runtimes, NEW call_set,
           Len(BatchedCalls(construct_batch_call(Runtimes[r], call_set))) = 1,
           IsComplete(construct_batch_call(Runtimes[r], call_set))
    PROVE  LET batch == construct_batch_call(Runtimes[r], call_set)
           IN  /\ BatchedCalls(batch) = call_set
               /\ "calls" \in DOMAIN batch.fields
               /\ batch.fields["calls"].value = call_set
<1> DEFINE pallets == Runtimes[r].calls
           selected == Selected(pallets, "Utility")
           found == Has(pallets, "Utility") /\ Has(selected.methods, "batch_all")
           chosen == Selected(selected.methods, "batch_all")
           filling == [calls |-> FillWhere({"calls"}, call_set)]
           batch == construct_batch_call(Runtimes[r], call_set)
<1>0. batch = IF found THEN Filled(Prepared(selected, chosen), filling)
                       ELSE Prepared(selected, selected.methods[1])
  BY DEF construct_batch_call, Call
<1>1. IsUsual(pallets)
  BY RuntimesAreUsual
<1>2. PICK k \in DOMAIN pallets : selected = pallets[k]
  BY <1>1, SelectedIsNamed DEF IsUsual, Selected
<1>3. CASE found
  <2>1. /\ chosen.name = "batch_all" /\ selected.name = "Utility"
        /\ \E j \in DOMAIN selected.methods : chosen = selected.methods[j]
    BY <1>3, SelectedIsNamed
  <2>2. "calls" \in DOMAIN chosen.fields
    BY <1>1, <1>2, <2>1 DEF IsUsual
  <2>3. batch = Filled(Prepared(selected, chosen), filling)
    BY <1>0, <1>3
  <2>4. /\ batch.pallet = "Utility" /\ batch.method = "batch_all"
        /\ "calls" \in DOMAIN batch.fields
        /\ batch.fields["calls"].value =
             IF chosen.fields["calls"] = "calls" THEN call_set ELSE Unfilled
    <3> HIDE DEF selected, chosen, batch
    <3> QED BY <2>1, <2>2, <2>3 DEF Filled, Prepared, FillWhere
  <2>5. batch.fields["calls"].value # Unfilled
    BY <2>4 DEF IsComplete
  <2> QED BY <2>4, <2>5 DEF BatchedCalls
<1>4. CASE ~found
  <2> DEFINE first == selected.methods[1]
  <2>1. batch = Prepared(selected, first)
    BY <1>0, <1>4
  <2>2. batch.pallet = selected.name /\ batch.method = first.name
    BY <2>1 DEF Prepared
  <2>3. ~(selected.name = "Utility" /\ first.name = "batch_all")
    BY <1>1, <1>2, <1>4 DEF IsUsual, Has
  <2>4. BatchedCalls(batch) = <<>>
    BY <2>2, <2>3 DEF BatchedCalls
  <2>5. Len(<<>>) # 1
    OBVIOUS
  <2> QED BY <2>4, <2>5
<1> QED BY <1>3, <1>4

(* What is built for an order and can be signed pays to the recipient.     *)
LEMMA TransactionPays ==
    ASSUME runtime \in DOMAIN Runtimes, NEW o \in Orders,
           Signable(Transaction(o))
    PROVE  PaysTo(Transaction(o).call, recipient)
<1> DEFINE call == TransferCall(o)
           batch == construct_batch_call(metadata, <<call>>)
<1>1. Transaction(o).call = batch
  BY DEF Transaction, construct_batch_transaction
<1> SUFFICES ASSUME Len(BatchedCalls(batch)) = 1,
                    IsTransfer(BatchedCalls(batch)[1])
             PROVE  Destination(BatchedCalls(batch)[1]) = recipient
  BY <1>1 DEF PaysTo
<1>2. IsComplete(batch)
  BY <1>1 DEF Signable
<1>3. /\ BatchedCalls(batch) = <<call>>
      /\ "calls" \in DOMAIN batch.fields
      /\ batch.fields["calls"].value = <<call>>
  BY <1>2, BatchHasCalls DEF metadata
<1>4. BatchedCalls(batch)[1] = call /\ IsTransfer(call)
  BY <1>3
<1>5. IsComplete(call)
  <2>1. \A k \in DOMAIN <<call>> : IsComplete(<<call>>[k])
    BY <1>1, <1>3 DEF Signable
  <2> QED BY <2>1
<1>6. CASE orders[o].currency.kind = "Asset"
  <2> DEFINE filling == [target |-> AccountIn(recipient),
                         id     |-> FillWhere({"u32", "compact_u32"},
                                              orders[o].currency.asset_id),
                         amount |-> BalanceIn(Amount(o))]
  <2>1. call = Call(Runtimes[runtime], "Assets", "transfer", filling)
    BY <1>6 DEF TransferCall, construct_single_asset_transfer_call, metadata
  <2>2. /\ DestinationIn("Assets") \in DOMAIN filling
        /\ filling[DestinationIn("Assets")] = AccountIn(recipient)
        /\ <<"Assets", "transfer">> \in Moving
    BY DEF DestinationIn, Moving
  <2> HIDE DEF filling, call
  <2>3. Destination(call) = recipient
    BY <1>4, <1>5, <2>1, <2>2, TransferPaysFilling
  <2> QED BY <1>4, <2>3
<1>7. CASE orders[o].currency.kind # "Asset"
  <2> DEFINE filling == [dest       |-> AccountIn(recipient),
                         keep_alive |-> FillWhere({"bool"}, FALSE),
                         value      |-> BalanceIn(Amount(o))]
  <2>1. call = Call(Runtimes[runtime], "Balances", "transfer_all", filling)
    BY <1>7 DEF TransferCall, construct_single_balance_transfer_call, metadata
  <2>2. /\ DestinationIn("Balances") \in DOMAIN filling
        /\ filling[DestinationIn("Balances")] = AccountIn(recipient)
        /\ <<"Balances", "transfer_all">> \in Moving
    BY DEF DestinationIn, Moving
  <2> HIDE DEF filling, call
  <2>3. Destination(call) = recipient
    BY <1>4, <1>5, <2>1, <2>2, TransferPaysFilling
  <2> QED BY <1>4, <2>3
<1> QED BY <1>6, <1>7

-----------------------------------------------------------------------------
(* The invariant.                                                          *)

(* An account that was handed to a customer, for the recipient in it.      *)
Handed(account) == <<account, account[1]>> \in derived

(* A signature is by the keys for the recipient that its call pays to.     *)
SignatureOK(signature) ==
    signature.type = "signature" =>
        \E to \in Recipients, id \in Orders :
            signature.by = <<to, id>> /\ PaysTo(signature.over.call, to)

RequestOK(request) ==
    \/ request = ShutdownRequest
    \/ /\ request.type = "public"
       /\ request.id \in Orders /\ request.from = Handler
    \/ /\ request.type = "sign"
       /\ request.id \in Orders /\ request.from \in Orders
       /\ PaysTo(request.signable.call, recipient)

SignerOK ==
    /\ recipient \in Recipients
    /\ DOMAIN answer = Clients
    /\ \A c \in Clients : SignatureOK(answer[c])
    /\ answer[Handler].type = "public" =>
          \E id \in Orders : answer[Handler].by = <<recipient, id>>
    /\ \E S : signerQ \in Seq(S) /\ \A request \in S : RequestOK(request)

OrderFields == {"state", "account", "price", "currency"}
OrderOK(order) ==
    /\ DOMAIN order = OrderFields
    /\ order.state \in {"none", "pending", "paid"}
    /\ order.state # "none" => Handed(order.account)
OrdersOK ==
    /\ DOMAIN orders = Orders
    /\ \A o \in Orders : OrderOK(orders[o])
    /\ creating \in Orders \cup {NoOrder}

BuiltOK(transaction) ==
    /\ transaction.nonce = 0
    /\ PaysTo(transaction.call, recipient)
    /\ transaction.author = Unfilled \/ Handed(transaction.author)

TaskFields == {"pc", "block", "seen", "transaction", "signature"}
TaskOK(o) ==
    \/ task[o] = NoTask
    \/ /\ DOMAIN task[o] = TaskFields
       /\ orders[o].state # "none"
       /\ task[o].pc \in {"built", "signing", "signed"} =>
             BuiltOK(task[o].transaction)
       /\ task[o].pc = "signed" => /\ Handed(task[o].transaction.author)
                                   /\ SignatureOK(task[o].signature)
TasksOK == DOMAIN task = Orders /\ \A o \in Orders : TaskOK(o)

PoolOK ==
    \A x \in pool : /\ x.transaction.nonce = 0
                    /\ Handed(x.transaction.author)
                    /\ SignatureOK(x.signature)

NoncesOK == nonce \in [Pairs -> {0, 1}]

PayoutInv ==
    /\ runtime \in DOMAIN Runtimes
    /\ SignerOK /\ OrdersOK /\ TasksOK /\ PoolOK /\ NoncesOK /\ PaidToOwner

LEMMA InvInit == Init => PayoutInv
<1> SUFFICES ASSUME Init PROVE PayoutInv
  OBVIOUS
<1>1. SignerOK
  <2>1. answer = [c \in Clients |-> Nothing] /\ Nothing.type = "nothing"
    BY DEF Init, SignerInit, Nothing
  <2>2. \A c \in Clients : answer[c].type = "nothing"
    BY <2>1
  <2>3. Handler \in Clients
    BY DEF Clients
  <2>4. signerQ \in Seq({})
    BY DEF Init, SignerInit
  <2> QED BY <2>1, <2>2, <2>3, <2>4 DEF Init, SignerInit, SignerOK, SignatureOK
<1>2. OrdersOK
  BY DEF Init, OrdersOK, OrderOK, OrderFields, NewOrder
<1>3. TasksOK
  BY DEF Init, TasksOK, TaskOK
<1>4. PoolOK /\ NoncesOK /\ PaidToOwner
  BY DEF Init, PoolOK, NoncesOK, PaidToOwner
<1> QED BY <1>1, <1>2, <1>3, <1>4 DEF Init, PayoutInv

(* What was handed out stays so.                                           *)
LEMMA HandedStays ==
    ASSUME derived \subseteq derived', NEW account, Handed(account)
    PROVE  Handed(account)'
BY DEF Handed

(* A step that leaves the chain alone and hands out no less.               *)
LEMMA ChainRests ==
    ASSUME PayoutInv, UNCHANGED chainVars, derived \subseteq derived'
    PROVE  PoolOK' /\ NoncesOK' /\ PaidToOwner'
<1>1. \A x \in pool : Handed(x.transaction.author)'
  BY HandedStays DEF PayoutInv, PoolOK
<1> QED BY <1>1 DEF PayoutInv, PoolOK, NoncesOK, PaidToOwner, chainVars,
             SignatureOK, Handed

(* A step that leaves the tasks and the recipient alone, drops no order    *)
(* and hands out no less.                                                  *)
LEMMA TasksRest ==
    ASSUME PayoutInv, UNCHANGED <<task, recipient>>, derived \subseteq derived',
           \A o \in Orders : orders[o].state # "none" => orders'[o].state # "none"
    PROVE  TasksOK'
<1> SUFFICES ASSUME NEW o \in Orders PROVE TaskOK(o)'
  BY DEF PayoutInv, TasksOK
<1>1. TaskOK(o)
  BY DEF PayoutInv, TasksOK
<1>2. \A account : Handed(account) => Handed(account)'
  BY HandedStays
<1> QED BY <1>1, <1>2 DEF TaskOK, BuiltOK, SignatureOK

(* An order with an account that is handed out by then.                    *)
IsOrder(order) ==
    /\ DOMAIN order = OrderFields
    /\ order.state \in {"none", "pending", "paid"}
    /\ order.state # "none" => <<order.account, order.account[1]>> \in derived'

LEMMA OrdersKeep ==
    ASSUME OrdersOK, derived \subseteq derived', DOMAIN orders' = Orders,
           creating' \in Orders \cup {NoOrder},
           \A o \in Orders : orders'[o] = orders[o] \/ IsOrder(orders'[o])
    PROVE  OrdersOK'
<1> SUFFICES ASSUME NEW o \in Orders PROVE OrderOK(orders[o])'
  BY DEF OrdersOK
<1>1. CASE orders'[o] = orders[o]
  BY <1>1 DEF OrdersOK, OrderOK, Handed
<1>2. CASE IsOrder(orders'[o])
  BY <1>2 DEF IsOrder, OrderOK, Handed
<1> QED BY <1>1, <1>2

(* Requests stay what they are while the recipient does.                   *)
LEMMA RequestStays ==
    ASSUME NEW request, RequestOK(request), UNCHANGED recipient
    PROVE  RequestOK(request)'
BY DEF RequestOK

-----------------------------------------------------------------------------
(* The signer.                                                             *)

(* An answer that is put in a client's oneshot, the requests being as good *)
(* as before.                                                              *)
LEMMA AnswerKeeps ==
    ASSUME SignerOK, NEW c \in Clients, NEW reply, SignatureOK(reply),
           c = Handler /\ reply.type = "public" =>
               \E id \in Orders : reply.by = <<recipient, id>>,
           answer' = [answer EXCEPT ![c] = reply], UNCHANGED recipient,
           \E S : signerQ' \in Seq(S) /\ \A request \in S : RequestOK(request)
    PROVE  SignerOK'
<1>1. DOMAIN answer' = Clients
  BY DEF SignerOK
<1>2. \A d \in Clients : answer'[d] = IF d = c THEN reply ELSE answer[d]
  BY DEF SignerOK
<1>3. \A d \in Clients : SignatureOK(answer[d])'
  BY <1>2 DEF SignerOK, SignatureOK
<1>4. answer'[Handler].type = "public" =>
         \E id \in Orders : answer'[Handler].by = <<recipient', id>>
  BY <1>2 DEF SignerOK, Clients
<1>5. \E S : signerQ' \in Seq(S) /\ \A request \in S : RequestOK(request)'
  BY RequestStays
<1> QED BY <1>1, <1>3, <1>4, <1>5 DEF SignerOK

LEMMA AskKeeps ==
    ASSUME SignerOK, NEW c \in Clients, NEW request, RequestOK(request),
           Ask(c, request)
    PROVE  SignerOK' /\ UNCHANGED recipient
<1>1. CASE /\ signerQ' = Append(signerQ, request)
           /\ answer' = [answer EXCEPT ![c] = Awaited]
  <2>1. PICK S : signerQ \in Seq(S) /\ \A r \in S : RequestOK(r)
    BY DEF SignerOK
  <2>2. signerQ' \in Seq(S \cup {request})
    BY <1>1, <2>1
  <2>3. SignatureOK(Awaited) /\ Awaited.type # "public"
    BY DEF SignatureOK, Awaited
  <2>4. \A r \in S \cup {request} : RequestOK(r)
    BY <2>1
  <2>5. \E T : signerQ' \in Seq(T) /\ \A r \in T : RequestOK(r)
    BY <2>2, <2>4
  <2>6. UNCHANGED recipient
    BY DEF Ask
  <2> QED BY <1>1, <2>3, <2>5, <2>6, AnswerKeeps
<1>2. CASE answer' = [answer EXCEPT ![c] = SignerDown] /\ UNCHANGED signerQ
  <2>1. SignatureOK(SignerDown) /\ SignerDown.type # "public"
    BY DEF SignatureOK, SignerDown
  <2>2. \E S : signerQ' \in Seq(S) /\ \A r \in S : RequestOK(r)
    BY <1>2 DEF SignerOK
  <2> QED BY <1>2, <2>1, <2>2, AnswerKeeps DEF Ask
<1> QED BY <1>1, <1>2 DEF Ask

(* A client takes its answer.                                              *)
LEMMA TakeKeeps ==
    ASSUME SignerOK, NEW c \in Clients, answer' = [answer EXCEPT ![c] = Nothing],
           UNCHANGED <<recipient, signerQ>>
    PROVE  SignerOK'
<1>1. SignatureOK(Nothing) /\ Nothing.type # "public"
  BY DEF SignatureOK, Nothing
<1>2. \E S : signerQ' \in Seq(S) /\ \A r \in S : RequestOK(r)
  BY DEF SignerOK
<1> QED BY <1>1, <1>2, AnswerKeeps

LEMMA SignerRests ==
    ASSUME SignerOK, UNCHANGED signerVars
    PROVE  SignerOK'
<1>1. \E S : signerQ' \in Seq(S) /\ \A request \in S : RequestOK(request)'
  BY RequestStays DEF SignerOK, signerVars
<1> QED BY <1>1 DEF SignerOK, signerVars, SignatureOK

LEMMA SignerStepKeeps ==
    ASSUME SignerOK, SignerStep
    PROVE  SignerOK' /\ UNCHANGED recipient
<1>1. PICK S : signerQ \in Seq(S) /\ \A r \in S : RequestOK(r)
  BY DEF SignerOK
<1>2. ASSUME SignerEnds PROVE SignerOK' /\ UNCHANGED recipient
  <2>1. signerQ' \in Seq({})
    BY <1>2 DEF SignerEnds
  <2>2. /\ DOMAIN answer' = Clients
        /\ \A c \in Clients : answer'[c] \in {answer[c], SignerDown}
    BY <1>2 DEF SignerEnds
  <2>3. SignatureOK(SignerDown)' /\ SignerDown.type # "public"
    BY DEF SignatureOK, SignerDown
  <2>4. \A c \in Clients : SignatureOK(answer[c])'
    BY <2>2, <2>3 DEF SignerOK, SignatureOK
  <2>5. answer'[Handler].type = "public" =>
           \E id \in Orders : answer'[Handler].by = <<recipient, id>>
    BY <2>2, <2>3 DEF SignerOK, Clients
  <2>6. UNCHANGED recipient
    BY <1>2 DEF SignerEnds
  <2>7. \E T : signerQ' \in Seq(T) /\ \A r \in T : RequestOK(r)'
    BY <2>1
  <2> QED BY <2>2, <2>4, <2>5, <2>6, <2>7 DEF SignerOK
<1>3. CASE ReadSeed
  <2>1. CASE UNCHANGED <<recipient, signerQ, answer>>
    <3>1. \A r \in S : RequestOK(r)'
      BY <1>1, <2>1, RequestStays
    <3>2. signerQ' \in Seq(S)
      BY <1>1, <2>1
    <3>3. \E T : signerQ' \in Seq(T) /\ \A r \in T : RequestOK(r)'
      BY <3>1, <3>2
    <3> QED BY <2>1, <3>3 DEF SignerOK, SignatureOK
  <2> QED BY <1>2, <1>3, <2>1 DEF ReadSeed
<1>4. ASSUME signerQ # <<>> PROVE Head(signerQ) \in S /\ Tail(signerQ) \in Seq(S)
  BY <1>1, <1>4
<1>5. CASE ServePublicKey
  <2> DEFINE request == Head(signerQ)
             reply == PublicKey(derivations(recipient, request.id))
  <2>1. /\ request \in S /\ signerQ' \in Seq(S) /\ request.type = "public"
        /\ answer' = [answer EXCEPT ![request.from] = reply]
        /\ UNCHANGED recipient
    BY <1>4, <1>5 DEF ServePublicKey, Serves, Answers
  <2>2. request.from = Handler /\ request.id \in Orders
    BY <1>1, <2>1 DEF RequestOK, ShutdownRequest
  <2>3. SignatureOK(reply) /\ reply.by = <<recipient, request.id>>
    BY DEF SignatureOK, PublicKey, derivations
  <2> HIDE DEF request, reply
  <2>4. Handler \in Clients
    BY DEF Clients
  <2> QED BY <1>1, <2>1, <2>2, <2>3, <2>4, AnswerKeeps
<1>6. CASE ServeSign
  <2> DEFINE request == Head(signerQ)
             reply == Signature(derivations(recipient, request.id),
                                request.signable)
  <2>1. /\ request \in S /\ signerQ' \in Seq(S) /\ request.type = "sign"
        /\ answer' = [answer EXCEPT ![request.from] = reply]
        /\ UNCHANGED recipient
    BY <1>4, <1>6 DEF ServeSign, Serves, Answers
  <2>2. /\ request.from \in Orders /\ request.id \in Orders
        /\ PaysTo(request.signable.call, recipient)
    BY <1>1, <2>1 DEF RequestOK, ShutdownRequest
  <2>3. reply.by = <<recipient, request.id>> /\ reply.over = request.signable
    BY DEF Signature, derivations
  <2> HIDE DEF request, reply
  <2>4. SignatureOK(reply)
    BY <2>2, <2>3 DEF SignatureOK, SignerOK
  <2>5. request.from \in Clients /\ request.from # Handler
    BY <2>2, HandlerIsNoOrder DEF Clients
  <2> QED BY <1>1, <2>1, <2>4, <2>5, AnswerKeeps
<1>7. CASE ServeShutdown
  BY <1>2, <1>7 DEF ServeShutdown
<1> QED BY <1>3, <1>5, <1>6, <1>7 DEF SignerStep

LEMMA AskToStopKeeps ==
    ASSUME SignerOK, AskToStop
    PROVE  SignerOK' /\ UNCHANGED recipient
<1>1. PICK S : signerQ \in Seq(S) /\ \A r \in S : RequestOK(r)
  BY DEF SignerOK
<1>2. RequestOK(ShutdownRequest)
  BY DEF RequestOK
<1>3. signerQ' \in Seq(S \cup {ShutdownRequest})
  BY <1>1 DEF AskToStop
<1>4. \A r \in S \cup {ShutdownRequest} : RequestOK(r)'
  BY <1>1, <1>2, RequestStays DEF AskToStop
<1> QED BY <1>3, <1>4 DEF SignerOK, AskToStop, SignatureOK

-----------------------------------------------------------------------------
(* The State Handler.                                                      *)

LEMMA HandlerKeeps ==
    ASSUME PayoutInv,
           \/ \E o \in Orders : CreateOrder(o) \/ OrderPaid(o)
           \/ \E price \in Prices, of \in Currencies : AccountDerived(price, of)
           \/ OrderRefused \/ StopSigner
    PROVE  PayoutInv'
<1> USE DEF PayoutInv
<1>1. ASSUME NEW o \in Orders, CreateOrder(o) PROVE PayoutInv'
  <2>1. RequestOK(PublicKeyRequest(o, Handler)) /\ Handler \in Clients
    BY DEF RequestOK, PublicKeyRequest, Clients
  <2>2. SignerOK' /\ UNCHANGED recipient
    BY <1>1, <2>1, AskKeeps DEF CreateOrder
  <2>3. PoolOK' /\ NoncesOK' /\ PaidToOwner'
    BY <1>1, ChainRests DEF CreateOrder
  <2>4. OrdersOK'
    BY <1>1 DEF CreateOrder, OrdersOK, OrderOK, Handed
  <2>5. TasksOK'
    BY <1>1, <2>2, TasksRest DEF CreateOrder
  <2> QED BY <1>1, <2>2, <2>3, <2>4, <2>5 DEF CreateOrder, setVars
<1>2. ASSUME NEW o \in Orders, OrderPaid(o) PROVE PayoutInv'
  <2>1. SignerOK' /\ UNCHANGED recipient
    BY <1>2, SignerRests DEF OrderPaid, signerVars
  <2>2. PoolOK' /\ NoncesOK' /\ PaidToOwner'
    BY <1>2, ChainRests DEF OrderPaid
  <2>3. /\ orders[o].state = "pending" /\ OrderOK(orders[o])
        /\ orders' = [orders EXCEPT ![o].state = "paid"]
    BY <1>2 DEF OrderPaid, OrdersOK
  <2> DEFINE paid == [orders[o] EXCEPT !.state = "paid"]
  <2>4. IsOrder(paid) /\ paid.state = "paid"
    <3>1. /\ DOMAIN paid = OrderFields /\ paid.state = "paid"
          /\ paid.account = orders[o].account
      BY <2>3 DEF OrderOK, OrderFields
    <3>2. UNCHANGED derived
      BY <1>2 DEF OrderPaid
    <3> HIDE DEF paid
    <3> QED BY <2>3, <3>1, <3>2 DEF IsOrder, OrderOK, Handed
  <2>8. /\ DOMAIN orders' = Orders /\ UNCHANGED <<creating, derived>>
        /\ \A p \in Orders : orders'[p] = IF p = o THEN paid ELSE orders[p]
    BY <1>2, <2>3 DEF OrderPaid, OrdersOK
  <2> HIDE DEF paid
  <2>5. OrdersOK'
    BY <2>4, <2>8, OrdersKeep DEF OrdersOK
  <2>6. ASSUME NEW p \in Orders PROVE TaskOK(p)'
    <3>1. CASE p = o
      <4>1. task'[o] = Task("spawned", 0, 0)
        BY <1>2 DEF OrderPaid, TasksOK
      <4>2. orders'[o].state = "paid"
        BY <2>4, <2>8
      <4> QED BY <3>1, <4>1, <4>2 DEF TaskOK, Task, TaskFields
    <3>2. CASE p # o
      <4>1. task'[p] = task[p] /\ orders'[p] = orders[p] /\ TaskOK(p)
        BY <1>2, <2>8, <3>2 DEF OrderPaid, TasksOK
      <4> QED BY <1>2, <2>1, <4>1 DEF TaskOK, BuiltOK, SignatureOK, Handed, OrderPaid
    <3> QED BY <3>1, <3>2
  <2>7. TasksOK'
    BY <1>2, <2>6 DEF OrderPaid, TasksOK
  <2> QED BY <1>2, <2>1, <2>2, <2>5, <2>7 DEF OrderPaid, setVars
<1>3. ASSUME NEW price \in Prices, NEW of \in Currencies,
             AccountDerived(price, of)
      PROVE  PayoutInv'
  <2> DEFINE account == answer[Handler].by
  <2>0. Handler \in Clients
    BY DEF Clients
  <2>1. SignerOK'
    BY <1>3, <2>0, TakeKeeps DEF AccountDerived
  <2>2. PICK id \in Orders : account = <<recipient, id>>
    BY <1>3 DEF AccountDerived, SignerOK
  <2>3. derived \subseteq derived' /\ UNCHANGED recipient
    BY <1>3 DEF AccountDerived
  <2>4. PoolOK' /\ NoncesOK' /\ PaidToOwner'
    BY <1>3, <2>3, ChainRests DEF AccountDerived
  <2>5. /\ creating \in Orders
        /\ orders' = [orders EXCEPT ![creating] =
                         Ordered(orders[creating], account, price, of)]
    BY <1>3 DEF AccountDerived, OrdersOK
  <2> DEFINE new == Ordered(orders[creating], account, price, of)
  <2>6. IsOrder(new) /\ (orders[creating].state # "none" => new.state # "none")
    <3>1. OrderOK(orders[creating])
      BY <2>5 DEF OrdersOK
    <3>2. CASE orders[creating].state = "none"
      <4>1. <<account, account[1]>> \in derived'
        BY <1>3, <2>2, <3>2 DEF AccountDerived
      <4>2. new = [state |-> "pending", account |-> account, price |-> price,
                   currency |-> of]
        BY <3>2 DEF Ordered
      <4> HIDE DEF account, new
      <4> QED BY <3>2, <4>1, <4>2 DEF IsOrder, OrderFields
    <3>3. CASE orders[creating].state = "pending"
      <4>1. new = [orders[creating] EXCEPT !.price = price, !.currency = of]
        BY <3>3 DEF Ordered
      <4> HIDE DEF account, new
      <4>2. /\ DOMAIN new = OrderFields /\ new.state = "pending"
            /\ new.account = orders[creating].account
        BY <3>1, <3>3, <4>1 DEF OrderOK, OrderFields
      <4> QED BY <2>3, <3>1, <3>3, <4>2 DEF IsOrder, OrderOK, Handed
    <3>4. CASE orders[creating].state = "paid"
      <4>1. new = orders[creating]
        BY <3>4 DEF Ordered
      <4> HIDE DEF account, new
      <4> QED BY <2>3, <3>1, <3>4, <4>1 DEF IsOrder, OrderOK, Handed
    <3> QED BY <3>1, <3>2, <3>3, <3>4 DEF OrderOK
  <2> HIDE DEF account, new
  <2>7. /\ OrdersOK'
        /\ \A o \in Orders :
              orders[o].state # "none" => orders'[o].state # "none"
    <3>1. \A o \in Orders :
             orders'[o] = IF o = creating THEN new ELSE orders[o]
      BY <2>5 DEF OrdersOK, new
    <3>2. DOMAIN orders' = Orders /\ creating' = NoOrder
      BY <1>3, <2>5 DEF AccountDerived, OrdersOK
    <3>3. OrdersOK'
      BY <2>3, <2>6, <3>1, <3>2, OrdersKeep
    <3> QED BY <2>6, <3>1, <3>3
  <2>8. TasksOK'
    BY <1>3, <2>3, <2>7, TasksRest DEF AccountDerived
  <2> QED BY <1>3, <2>1, <2>4, <2>7, <2>8 DEF AccountDerived, setVars
<1>4. CASE OrderRefused
  <2>1. SignerOK' /\ UNCHANGED recipient
    BY <1>4, TakeKeeps DEF OrderRefused, Clients
  <2>2. PoolOK' /\ NoncesOK' /\ PaidToOwner'
    BY <1>4, ChainRests DEF OrderRefused
  <2>3. OrdersOK'
    BY <1>4 DEF OrderRefused, OrdersOK, OrderOK, Handed
  <2>4. TasksOK'
    BY <1>4, <2>1, TasksRest DEF OrderRefused
  <2> QED BY <1>4, <2>1, <2>2, <2>3, <2>4 DEF OrderRefused, setVars
<1>5. CASE StopSigner
  <2>1. SignerOK' /\ UNCHANGED recipient
    BY <1>5, AskToStopKeeps DEF StopSigner
  <2>2. PoolOK' /\ NoncesOK' /\ PaidToOwner'
    BY <1>5, ChainRests DEF StopSigner
  <2>3. OrdersOK'
    BY <1>5 DEF StopSigner, OrdersOK, OrderOK, Handed
  <2>4. TasksOK'
    BY <1>5, <2>1, TasksRest DEF StopSigner
  <2> QED BY <1>5, <2>1, <2>2, <2>3, <2>4 DEF StopSigner, setVars
<1> QED BY <1>1, <1>2, <1>3, <1>4, <1>5

-----------------------------------------------------------------------------
(* The payout task.                                                        *)

(* A task that goes on with what is as good as before.                     *)
LEMMA TaskKeeps ==
    ASSUME PayoutInv, SignerOK', UNCHANGED recipient,
           NEW o \in Orders, NEW next, Continues(o, next),
           DOMAIN next = TaskFields, orders[o].state # "none",
           next.pc \in {"built", "signing", "signed"} => BuiltOK(next.transaction),
           next.pc = "signed" => /\ Handed(next.transaction.author)
                                 /\ SignatureOK(next.signature),
           UNCHANGED <<nonce, transfers>>, PoolOK'
    PROVE  PayoutInv'
<1> USE DEF PayoutInv
<1>1. /\ UNCHANGED <<orders, creating, derived, runtime, transfers, nonce>>
      /\ task' = [task EXCEPT ![o] = next]
  BY DEF Continues, setVars
<1>2. OrdersOK' /\ NoncesOK' /\ PaidToOwner'
  BY <1>1 DEF OrdersOK, OrderOK, Handed, NoncesOK, PaidToOwner
<1>3. ASSUME NEW p \in Orders PROVE TaskOK(p)'
  <2>1. CASE p = o
    <3>1. task'[o] = next
      BY <1>1 DEF TasksOK
    <3>2. next.pc \in {"built", "signing", "signed"} => BuiltOK(next.transaction)'
      BY <1>1 DEF BuiltOK, Handed
    <3>3. next.pc = "signed" => /\ Handed(next.transaction.author)'
                                /\ SignatureOK(next.signature)'
      BY <1>1 DEF Handed, SignatureOK
    <3> QED BY <1>1, <2>1, <3>1, <3>2, <3>3 DEF TaskOK
  <2>2. CASE p # o
    <3>1. task'[p] = task[p] /\ TaskOK(p)
      BY <1>1, <2>2 DEF TasksOK
    <3> QED BY <1>1, <3>1 DEF TaskOK, BuiltOK, SignatureOK, Handed
  <2> QED BY <2>1, <2>2
<1>4. TasksOK'
  BY <1>1, <1>3 DEF TasksOK
<1> QED BY <1>1, <1>2, <1>4

(* A task that is under way is of an order with an account.                *)
LEMMA TaskUnderWay ==
    ASSUME PayoutInv, NEW o \in Orders, task[o].pc # "none"
    PROVE  /\ TaskOK(o) /\ task[o] # NoTask
           /\ DOMAIN task[o] = TaskFields
           /\ orders[o].state # "none" /\ Handed(orders[o].account)
<1>1. TaskOK(o) /\ OrderOK(orders[o])
  BY DEF PayoutInv, TasksOK, OrdersOK
<1>2. task[o] # NoTask
  BY DEF NoTask
<1> QED BY <1>1, <1>2 DEF TaskOK, OrderOK

(* The steps of a task that are between it and the chain.                  *)
LEMMA QueryKeeps ==
    ASSUME PayoutInv, NEW o \in Orders,
           \/ GivesUp(o) \/ ConnectClient(o) \/ BlockHash(o) \/ BlockNumber(o)
           \/ NoBalance(o)
    PROVE  PayoutInv'
<1>1. task[o].pc # "none"
  BY DEF GivesUp, ConnectClient, BlockHash, BlockNumber, NoBalance, At
<1>2. DOMAIN task[o] = TaskFields /\ orders[o].state # "none"
  BY <1>1, TaskUnderWay
<1>3. UNCHANGED <<signerVars, chainVars, derived>>
  BY DEF GivesUp, ConnectClient, BlockHash, BlockNumber, NoBalance, Continues
<1>4. SignerOK' /\ PoolOK'
  BY <1>3, SignerRests, ChainRests DEF PayoutInv
<1>5. UNCHANGED <<recipient, nonce, transfers>>
  BY <1>3 DEF signerVars, chainVars
<1>6. CASE BlockHash(o)
  <2> DEFINE seen == funds[orders[o].account][orders[o].currency]
             next == Task("at_block", height, seen)
  <2>1. Continues(o, next) /\ DOMAIN next = TaskFields /\ next.pc = "at_block"
    BY <1>6 DEF BlockHash, Task, TaskFields
  <2> HIDE DEF next
  <2> QED BY <1>2, <1>4, <1>5, <2>1, TaskKeeps
<1>7. ASSUME NEW pc \in {"connected", "numbered", "failed"},
             Continues(o, [task[o] EXCEPT !.pc = pc])
      PROVE  PayoutInv'
  <2> DEFINE next == [task[o] EXCEPT !.pc = pc]
  <2>1. DOMAIN next = TaskFields /\ next.pc = pc
    BY <1>2 DEF TaskFields
  <2>2. Continues(o, next)
    BY <1>7
  <2> HIDE DEF next
  <2> QED BY <1>2, <1>4, <1>5, <2>1, <2>2, TaskKeeps
<1>8. CASE BlockNumber(o)
  BY <1>7, <1>8 DEF BlockNumber
<1> QED BY <1>6, <1>7, <1>8 DEF GivesUp, ConnectClient, NoBalance

LEMMA DecideKeeps ==
    ASSUME PayoutInv, NEW o \in Orders, Decide(o)
    PROVE  PayoutInv'
<1>1. /\ DOMAIN task[o] = TaskFields
      /\ orders[o].state # "none" /\ Handed(orders[o].account)
  BY TaskUnderWay DEF Decide, At
<1>2. UNCHANGED <<signerVars, chainVars, derived>>
  BY DEF Decide, Continues
<1>3. SignerOK' /\ PoolOK'
  BY <1>2, SignerRests, ChainRests DEF PayoutInv
<1>4. UNCHANGED <<recipient, nonce, transfers>>
  BY <1>2 DEF signerVars, chainVars
<1>5. ASSUME NEW pc, pc \notin {"built", "signing", "signed"},
             Continues(o, [task[o] EXCEPT !.pc = pc])
      PROVE  PayoutInv'
  <2> DEFINE next == [task[o] EXCEPT !.pc = pc]
  <2>1. DOMAIN next = TaskFields /\ next.pc = pc
    BY <1>1 DEF TaskFields
  <2>2. Continues(o, next)
    BY <1>5
  <2> HIDE DEF next
  <2> QED BY <1>1, <1>3, <1>4, <1>5, <2>1, <2>2, TaskKeeps
<1>6. CASE Decision(task[o].seen, Amount(o)) # "pay"
  <2> DEFINE pc == Decision(task[o].seen, Amount(o))
  <2>1. pc \notin {"built", "signing", "signed"}
    BY <1>6 DEF Decision
  <2>2. Continues(o, [task[o] EXCEPT !.pc = pc])
    BY <1>6 DEF Decide
  <2> HIDE DEF pc
  <2> QED BY <1>5, <2>1, <2>2
<1>7. CASE /\ Decision(task[o].seen, Amount(o)) = "pay"
           /\ ~Signable(Transaction(o))
  BY <1>5, <1>7 DEF Decide
<1>8. CASE /\ Decision(task[o].seen, Amount(o)) = "pay"
           /\ Signable(Transaction(o))
  <2> DEFINE t == Transaction(o)
             next == [task[o] EXCEPT !.pc = "built", !.transaction = t]
  <2>1. PaysTo(t.call, recipient)
    BY <1>8, TransactionPays DEF PayoutInv
  <2>2. t.nonce = 0 /\ t.author \in {orders[o].account, Unfilled}
    BY DEF Transaction, construct_batch_transaction, Nonce
  <2>3. BuiltOK(t)
    BY <1>1, <2>1, <2>2 DEF BuiltOK
  <2>4. Continues(o, next)
    BY <1>8 DEF Decide
  <2> HIDE DEF t
  <2>5. DOMAIN next = TaskFields /\ next.pc = "built" /\ next.transaction = t
    BY <1>1 DEF TaskFields
  <2> HIDE DEF next
  <2> QED BY <1>1, <1>3, <1>4, <2>3, <2>4, <2>5, TaskKeeps
<1> QED BY <1>6, <1>7, <1>8

LEMMA SigningKeeps ==
    ASSUME PayoutInv, NEW o \in Orders, AskSigner(o) \/ GetSignature(o)
    PROVE  PayoutInv'
<1>1. /\ DOMAIN task[o] = TaskFields /\ TaskOK(o) /\ task[o] # NoTask
      /\ orders[o].state # "none"
  BY TaskUnderWay DEF AskSigner, GetSignature, At
<1>2. BuiltOK(task[o].transaction)
  BY <1>1 DEF AskSigner, GetSignature, At, TaskOK
<1>3. UNCHANGED <<chainVars, derived>>
  BY DEF AskSigner, GetSignature, Continues, chainVars
<1>4. PoolOK' /\ UNCHANGED <<nonce, transfers>>
  BY <1>3, ChainRests DEF chainVars
<1>5. o \in Clients /\ o # Handler
  BY HandlerIsNoOrder DEF Clients
<1>6. CASE AskSigner(o)
  <2> DEFINE request == Sign(o, Payload(task[o].transaction), o)
             next == [task[o] EXCEPT !.pc = "signing"]
  <2>1. RequestOK(request)
    BY <1>2 DEF RequestOK, Sign, Payload, BuiltOK
  <2>2. SignerOK' /\ UNCHANGED recipient
    BY <1>5, <1>6, <2>1, AskKeeps DEF AskSigner, PayoutInv
  <2>3. Continues(o, next)
    BY <1>6 DEF AskSigner
  <2>4. /\ DOMAIN next = TaskFields /\ next.pc = "signing"
        /\ next.transaction = task[o].transaction
    BY <1>1 DEF TaskFields
  <2> HIDE DEF next, request
  <2> QED BY <1>1, <1>2, <1>4, <2>2, <2>3, <2>4, TaskKeeps
<1>7. CASE GetSignature(o)
  <2> DEFINE pc == IF answer[o].type = "signature" /\ Sendable(task[o].transaction)
                   THEN "signed" ELSE "failed"
             next == [task[o] EXCEPT !.signature = answer[o], !.pc = pc]
  <2>1. SignerOK' /\ UNCHANGED recipient
    BY <1>5, <1>7, TakeKeeps DEF GetSignature, PayoutInv
  <2>2. Continues(o, next)
    BY <1>7 DEF GetSignature
  <2>3. pc = "signed" => Handed(task[o].transaction.author)
    BY <1>2 DEF BuiltOK, Sendable
  <2>4. SignatureOK(answer[o])
    BY <1>5 DEF PayoutInv, SignerOK
  <2> HIDE DEF pc
  <2>5. /\ DOMAIN next = TaskFields /\ next.pc = pc
        /\ next.transaction = task[o].transaction
        /\ next.signature = answer[o]
    BY <1>1 DEF TaskFields
  <2> HIDE DEF next
  <2> QED BY <1>1, <1>2, <1>4, <2>1, <2>2, <2>3, <2>4, <2>5, TaskKeeps
<1> QED BY <1>6, <1>7

LEMMA SendingKeeps ==
    ASSUME PayoutInv, NEW o \in Orders, SendStuff(o)
    PROVE  PayoutInv'
<1>1. /\ DOMAIN task[o] = TaskFields /\ TaskOK(o) /\ task[o] # NoTask
      /\ orders[o].state # "none"
  BY TaskUnderWay DEF SendStuff, At
<1>2. /\ task[o].transaction.nonce = 0
      /\ Handed(task[o].transaction.author) /\ SignatureOK(task[o].signature)
  BY <1>1 DEF SendStuff, At, TaskOK, BuiltOK
<1>3. UNCHANGED <<signerVars, nonce, transfers, derived>>
  BY DEF SendStuff, Continues
<1>4. SignerOK' /\ UNCHANGED recipient
  BY <1>3, SignerRests DEF PayoutInv, signerVars
<1> DEFINE x == [transaction |-> task[o].transaction,
                 signature |-> task[o].signature]
<1>5. pool' = pool \cup {x}
  BY DEF SendStuff
<1>6. PoolOK'
  <2>1. /\ x.transaction = task[o].transaction
        /\ x.signature = task[o].signature
    OBVIOUS
  <2> HIDE DEF x
  <2>2. \A y \in pool' : y \in pool \/ y = x
    BY <1>5
  <2> QED BY <1>2, <1>3, <2>1, <2>2 DEF PayoutInv, PoolOK, Handed, SignatureOK
<1> DEFINE next == [task[o] EXCEPT !.pc = "sent"]
<1>7. Continues(o, next) /\ DOMAIN next = TaskFields /\ next.pc = "sent"
  BY <1>1 DEF SendStuff, TaskFields
<1> HIDE DEF next, x
<1> QED BY <1>1, <1>3, <1>4, <1>6, <1>7, TaskKeeps

-----------------------------------------------------------------------------
(* The chain.                                                              *)

(* An extrinsic that the chain accepts was signed by the keys of the       *)
(* account that it moves the funds of, and so for the recipient to whom    *)
(* that account was handed out; and it is the first of the account.        *)
LEMMA ExecuteKeeps ==
    ASSUME PayoutInv, NEW x \in pool, NEW of \in Currencies, ExecuteIn(x, of)
    PROVE  PayoutInv'
<1> DEFINE account == x.transaction.author
           calls == BatchedCalls(x.transaction.call)
<1>1. /\ x.transaction.nonce = 0 /\ Handed(account) /\ SignatureOK(x.signature)
  BY DEF PayoutInv, PoolOK
<1>2. /\ x.signature = Signature(account, Payload(x.transaction))
      /\ nonce[account] = 0
  BY <1>1 DEF ExecuteIn, IsValid
<1>3. PICK to \in Recipients, id \in Orders :
         account = <<to, id>> /\ PaysTo(x.transaction.call, to)
  <2>1. /\ x.signature.type = "signature" /\ x.signature.by = account
        /\ x.signature.over.call = x.transaction.call
    BY <1>2 DEF Signature, Payload
  <2> QED BY <1>1, <2>1 DEF SignatureOK
<1>4. Destination(calls[1]) = to
  BY <1>3 DEF ExecuteIn, PaysTo
<1>5. <<account, Destination(calls[1])>> \in derived
  BY <1>1, <1>3, <1>4 DEF Handed
<1>6. /\ transfers' = transfers \cup {<<account, Destination(calls[1])>>}
      /\ UNCHANGED <<signerVars, orders, creating, task, runtime, derived>>
      /\ pool' = pool \ {x}
  BY DEF ExecuteIn, daemonVars, setVars
<1>7. PaidToOwner'
  BY <1>5, <1>6 DEF PayoutInv, PaidToOwner
<1>8. NoncesOK'
  <2> DEFINE next == IF Lives(account, funds') THEN nonce[account] + 1 ELSE 0
  <2>1. nonce' = [nonce EXCEPT ![account] = next]
    BY DEF ExecuteIn
  <2>2. next \in {0, 1}
    BY <1>2
  <2> HIDE DEF account, next
  <2> QED BY <2>1, <2>2 DEF PayoutInv, NoncesOK
<1>9. PoolOK'
  BY <1>6 DEF PayoutInv, PoolOK, Handed, SignatureOK
<1>10. SignerOK' /\ UNCHANGED recipient
  BY <1>6, SignerRests DEF PayoutInv, signerVars
<1>11. OrdersOK'
  BY <1>6 DEF PayoutInv, OrdersOK, OrderOK, Handed
<1>12. TasksOK'
  BY <1>6, <1>10, TasksRest
<1> QED BY <1>6, <1>7, <1>8, <1>9, <1>10, <1>11, <1>12 DEF PayoutInv

LEMMA ChainKeeps ==
    ASSUME PayoutInv,
           \/ NewBlock
           \/ \E account \in Pairs, of \in Currencies, units \in Deposits :
                 Customer(account, of, units)
           \/ \E x \in pool : Forget(x)
    PROVE  PayoutInv'
<1>1. /\ UNCHANGED <<signerVars, orders, creating, task, runtime, derived,
                     nonce, transfers>>
      /\ pool' \subseteq pool
  BY DEF NewBlock, Customer, Forget, daemonVars, setVars
<1>2. SignerOK' /\ UNCHANGED recipient
  BY <1>1, SignerRests DEF PayoutInv, signerVars
<1>3. OrdersOK' /\ NoncesOK' /\ PaidToOwner'
  BY <1>1 DEF PayoutInv, OrdersOK, OrderOK, Handed, NoncesOK, PaidToOwner
<1>4. PoolOK'
  BY <1>1 DEF PayoutInv, PoolOK, Handed, SignatureOK
<1>5. TasksOK'
  BY <1>1, <1>2, TasksRest
<1> QED BY <1>1, <1>2, <1>3, <1>4, <1>5 DEF PayoutInv

-----------------------------------------------------------------------------
(* Restarts, with whatever recipient and earlier orders.                   *)
LEMMA RestartKeeps ==
    ASSUME PayoutInv, NEW saved, Restart(saved)
    PROVE  PayoutInv'
<1>1. SignerOK'
  <2>1. /\ recipient' \in Recipients /\ signerQ' = <<>>
        /\ answer' = [c \in Clients |-> Nothing]
    BY DEF Restart
  <2>2. \A c \in Clients : answer'[c].type = "nothing"
    BY <2>1 DEF Nothing
  <2>3. Handler \in Clients
    BY DEF Clients
  <2>4. signerQ' \in Seq({})
    BY <2>1
  <2> QED BY <2>1, <2>2, <2>3, <2>4 DEF SignerOK, SignatureOK
<1>2. OrdersOK'
  <2>1. /\ orders' = [o \in Orders |-> Restored(orders[o], saved[o])]
        /\ creating' = NoOrder /\ UNCHANGED derived
    BY DEF Restart
  <2>2. ASSUME NEW o \in Orders PROVE IsOrder(Restored(orders[o], saved[o]))
    <3> DEFINE old == orders[o]
               order == Restored(old, saved[o])
    <3>1. OrderOK(old) /\ IsEarlier(saved[o], old)
      BY DEF Restart, PayoutInv, OrdersOK
    <3>2. CASE saved[o] = "none"
      BY <3>2 DEF Restored, NewOrder, IsOrder, OrderFields
    <3>3. CASE saved[o] # "none"
      <4>1. saved[o] \in {"pending", "paid"} /\ old.state # "none"
        BY <3>1, <3>3 DEF IsEarlier, OrderOK
      <4>2. order = [old EXCEPT !.state = saved[o]]
        BY <3>3 DEF Restored
      <4> HIDE DEF order, old
      <4>3. /\ DOMAIN order = OrderFields /\ order.state = saved[o]
            /\ order.account = old.account
        BY <3>1, <4>2 DEF OrderOK, OrderFields
      <4>4. IsOrder(order)
        BY <2>1, <3>1, <4>1, <4>3 DEF IsOrder, OrderOK, Handed
      <4> QED BY <4>4 DEF order, old
    <3> QED BY <3>2, <3>3
  <2>3. /\ DOMAIN orders' = Orders
        /\ \A o \in Orders : orders'[o] = Restored(orders[o], saved[o])
    BY <2>1
  <2> QED BY <2>1, <2>2, <2>3, OrdersKeep DEF PayoutInv
<1>3. TasksOK'
  BY DEF Restart, TasksOK, TaskOK
<1>4. UNCHANGED <<chainVars, runtime, derived>>
  BY DEF Restart
<1>5. PoolOK' /\ NoncesOK' /\ PaidToOwner'
  BY <1>4, ChainRests
<1> QED BY <1>1, <1>2, <1>3, <1>4, <1>5 DEF PayoutInv

-----------------------------------------------------------------------------
(* Every step keeps the invariant.                                         *)
LEMMA InvStep == PayoutInv /\ [Next]_vars => PayoutInv'
<1> SUFFICES ASSUME PayoutInv, [Next]_vars PROVE PayoutInv'
  OBVIOUS
<1>1. CASE SignerStep /\ UNCHANGED <<daemonVars, chainVars, setVars, derived>>
  <2>1. SignerOK' /\ UNCHANGED recipient
    BY <1>1, SignerStepKeeps DEF PayoutInv
  <2>2. /\ UNCHANGED <<orders, creating, task, runtime, derived>>
        /\ UNCHANGED chainVars
    BY <1>1 DEF daemonVars, setVars
  <2>3. PoolOK' /\ NoncesOK' /\ PaidToOwner'
    BY <2>2, ChainRests
  <2>4. OrdersOK'
    BY <2>2 DEF PayoutInv, OrdersOK, OrderOK, Handed
  <2>5. TasksOK'
    BY <2>1, <2>2, TasksRest
  <2> QED BY <2>1, <2>2, <2>3, <2>4, <2>5 DEF PayoutInv
<1>2. ASSUME NEW o \in Orders, CreateOrder(o) \/ OrderPaid(o) PROVE PayoutInv'
  BY <1>2, HandlerKeeps
<1>3. ASSUME NEW o \in Orders, TaskStep(o) PROVE PayoutInv'
  BY <1>3, QueryKeeps, DecideKeeps, SigningKeeps, SendingKeeps DEF TaskStep
<1>4. CASE \/ \E price \in Prices, of \in Currencies : AccountDerived(price, of)
           \/ OrderRefused \/ StopSigner
  BY <1>4, HandlerKeeps
<1>5. CASE \/ NewBlock
           \/ \E account \in Pairs, of \in Currencies, units \in Deposits :
                 Customer(account, of, units)
           \/ \E x \in pool : Forget(x)
  BY <1>5, ChainKeeps
<1>6. ASSUME NEW x \in pool, Execute(x) PROVE PayoutInv'
  BY <1>6, ExecuteKeeps DEF Execute
<1>7. ASSUME NEW saved, Restart(saved) PROVE PayoutInv'
  BY <1>7, RestartKeeps
<1>8. CASE UNCHANGED vars
  <2>1. /\ UNCHANGED <<signerVars, orders, creating, task, runtime, derived>>
        /\ UNCHANGED chainVars
    BY <1>8 DEF vars, daemonVars, setVars
  <2>2. SignerOK' /\ UNCHANGED recipient
    BY <2>1, SignerRests DEF PayoutInv, signerVars
  <2>3. PoolOK' /\ NoncesOK' /\ PaidToOwner'
    BY <2>1, ChainRests
  <2>4. OrdersOK'
    BY <2>1 DEF PayoutInv, OrdersOK, OrderOK, Handed
  <2>5. TasksOK'
    BY <2>1, <2>2, TasksRest
  <2> QED BY <2>1, <2>2, <2>3, <2>4, <2>5 DEF PayoutInv
<1> QED BY <1>1, <1>2, <1>3, <1>4, <1>5, <1>6, <1>7, <1>8 DEF Next

LEMMA InvAlways == Spec => []PayoutInv
<1> QED BY InvInit, InvStep, PTL DEF Spec

(* However often an order is paid out again after restarts, one extrinsic  *)
(* at most is executed while its account lives: each of them is sent with  *)
(* the nonce of a new account (payout.rs).                                 *)
THEOREM PaidOnce == Spec => []PaidOnceWhileAlive
<1>1. PayoutInv => PaidOnceWhileAlive
  BY DEF PayoutInv, NoncesOK, PaidOnceWhileAlive
<1> QED BY <1>1, InvAlways, PTL

(* Funds of an account go to nobody but the recipient that was configured  *)
(* when the account was handed to the customer: another recipient, after a *)
(* restart, derives other keys, whose signature the chain does not accept. *)
THEOREM OwnerIsPaid == Spec => []PaidToOwner
<1>1. PayoutInv => PaidToOwner
  BY DEF PayoutInv
<1> QED BY <1>1, InvAlways, PTL

-----------------------------------------------------------------------------
(* What is built.  Where a runtime has what the daemon looks for, or lets  *)
(* nothing incomplete be signed, a call is filled as it should be.         *)

LEMMA TransferIsFilled ==
    ASSUME NEW r \in DOMAIN Runtimes, NEW filling, NEW pallet, NEW method,
           <<pallet, method>> \in Moving,
           StartsOpen(Runtimes[r].calls, pallet),
           IsComplete(Call(Runtimes[r], pallet, method, filling))
    PROVE  LET call == Call(Runtimes[r], pallet, method, filling)
           IN  /\ call.pallet = pallet /\ call.method = method
               /\ \A f \in ArgumentsOf(pallet, method) : f \in DOMAIN filling =>
                     call.fields[f].value = filling[f].value
<1> DEFINE pallets == Runtimes[r].calls
           selected == Selected(pallets, pallet)
           found == Has(pallets, pallet) /\ Has(selected.methods, method)
           chosen == Selected(selected.methods, method)
           first == selected.methods[1]
           call == Call(Runtimes[r], pallet, method, filling)
<1>1. IsUsual(pallets)
  BY RuntimesAreUsual
<1>2. PICK k \in DOMAIN pallets : selected = pallets[k]
  BY <1>1, SelectedIsNamed DEF IsUsual, Selected
<1>3. call = IF found THEN Filled(Prepared(selected, chosen), filling)
                      ELSE Prepared(selected, first)
  BY DEF Call
<1>4. HasArguments(first)
  BY DEF StartsOpen
<1>5. found =>
         /\ chosen.name = method /\ selected.name = pallet
         /\ \E j \in DOMAIN selected.methods : chosen = selected.methods[j]
  BY SelectedIsNamed
<1>6. IsComplete(call)
  OBVIOUS
<1> HIDE DEF call, first, chosen, found, selected
<1>7. found
  <2> SUFFICES ASSUME ~found PROVE FALSE
    OBVIOUS
  <2>1. PICK f \in DOMAIN first.fields : first.fields[f] # "calls"
    BY <1>4 DEF HasArguments
  <2>2. f \in DOMAIN call.fields /\ call.fields[f].value = Unfilled
    BY <1>3, <2>1 DEF Prepared
  <2> QED BY <1>6, <2>2 DEF IsComplete
<1>8. call = Filled(Prepared(selected, chosen), filling)
  BY <1>3, <1>7
<1>9. call.pallet = pallet /\ call.method = method
  BY <1>5, <1>7, <1>8 DEF Filled, Prepared
<1>10. ASSUME NEW f \in ArgumentsOf(pallet, method), f \in DOMAIN filling
       PROVE  call.fields[f].value = filling[f].value
  <2>1. f \in DOMAIN chosen.fields /\ chosen.fields[f] # "calls"
    BY <1>1, <1>2, <1>5, <1>7 DEF IsUsual
  <2>2. /\ f \in DOMAIN call.fields
        /\ call.fields[f].value = IF chosen.fields[f] \in filling[f].kinds
                                  THEN filling[f].value ELSE Unfilled
    BY <1>8, <1>10, <2>1 DEF Filled, Prepared
  <2> QED BY <1>6, <2>2 DEF IsComplete
<1> QED BY <1>9, <1>10 DEF call

LEMMA BatchIsFilled ==
    ASSUME NEW r \in DOMAIN Runtimes, NEW call_set,
           IsComplete(construct_batch_call(Runtimes[r], call_set))
    PROVE  LET batch == construct_batch_call(Runtimes[r], call_set)
           IN  /\ BatchedCalls(batch) = call_set
               /\ "calls" \in DOMAIN batch.fields
               /\ batch.fields["calls"].value = call_set
<1> DEFINE pallets == Runtimes[r].calls
           selected == Selected(pallets, "Utility")
           found == Has(pallets, "Utility") /\ Has(selected.methods, "batch_all")
           chosen == Selected(selected.methods, "batch_all")
           first == selected.methods[1]
           filling == [calls |-> FillWhere({"calls"}, call_set)]
           batch == construct_batch_call(Runtimes[r], call_set)
<1>1. IsUsual(pallets) /\ (found \/ HasArguments(first))
  BY RuntimesAreUsual, CallsStartOpen DEF StartsOpen
<1>2. PICK k \in DOMAIN pallets : selected = pallets[k]
  BY <1>1, SelectedIsNamed DEF IsUsual, Selected
<1>3. batch = IF found THEN Filled(Prepared(selected, chosen), filling)
                       ELSE Prepared(selected, first)
  BY DEF construct_batch_call, Call
<1>4. found =>
         /\ chosen.name = "batch_all" /\ selected.name = "Utility"
         /\ \E j \in DOMAIN selected.methods : chosen = selected.methods[j]
  BY SelectedIsNamed
<1>5. IsComplete(batch)
  OBVIOUS
<1>6. "calls" \in DOMAIN filling /\ filling["calls"].kinds = {"calls"}
      /\ filling["calls"].value = call_set
  BY DEF FillWhere
<1> HIDE DEF batch, first, chosen, found, selected, filling
<1>7. found
  <2> SUFFICES ASSUME ~found PROVE FALSE
    OBVIOUS
  <2>1. PICK f \in DOMAIN first.fields : first.fields[f] # "calls"
    BY <1>1 DEF HasArguments
  <2>2. f \in DOMAIN batch.fields /\ batch.fields[f].value = Unfilled
    BY <1>3, <2>1 DEF Prepared
  <2> QED BY <1>5, <2>2 DEF IsComplete
<1>8. batch = Filled(Prepared(selected, chosen), filling)
  BY <1>3, <1>7
<1>9. "calls" \in DOMAIN chosen.fields
  BY <1>1, <1>2, <1>4, <1>7 DEF IsUsual
<1>10. /\ batch.pallet = "Utility" /\ batch.method = "batch_all"
       /\ "calls" \in DOMAIN batch.fields
       /\ batch.fields["calls"].value =
            IF chosen.fields["calls"] = "calls" THEN call_set ELSE Unfilled
  BY <1>4, <1>6, <1>7, <1>8, <1>9 DEF Filled, Prepared
<1>11. batch.fields["calls"].value = call_set
  BY <1>5, <1>10 DEF IsComplete
<1> QED BY <1>10, <1>11 DEF BatchedCalls, batch

(* One transfer: of everything, or of an amount of an asset.               *)
IsOrdered(call, of, to, amount) ==
    LET calls == BatchedCalls(call)
    IN  /\ Len(calls) = 1 /\ IsTransfer(calls[1])
        /\ InCurrency(calls[1], of) /\ Destination(calls[1]) = to
        /\ IF of.kind = "Asset"
           THEN /\ calls[1].method = "transfer"
                /\ calls[1].fields["amount"].value = amount
           ELSE calls[1].method = "transfer_all"

(* What can be signed is the transfer that was ordered.                    *)
LEMMA TransactionIsOrdered ==
    ASSUME runtime \in DOMAIN Runtimes, NEW o \in Orders,
           Signable(Transaction(o))
    PROVE  IsOrdered(Transaction(o).call, orders[o].currency, recipient, Amount(o))
<1> DEFINE call == TransferCall(o)
           batch == construct_batch_call(metadata, <<call>>)
<1>1. Transaction(o).call = batch
  BY DEF Transaction, construct_batch_transaction
<1>2. IsComplete(batch)
  BY <1>1 DEF Signable
<1>3. /\ BatchedCalls(batch) = <<call>>
      /\ "calls" \in DOMAIN batch.fields
      /\ batch.fields["calls"].value = <<call>>
  BY <1>2, BatchIsFilled DEF metadata
<1>4. IsComplete(call)
  <2>1. \A k \in DOMAIN <<call>> : IsComplete(<<call>>[k])
    BY <1>1, <1>3 DEF Signable
  <2> QED BY <2>1
<1>5. /\ StartsOpen(Runtimes[runtime].calls, "Assets")
      /\ StartsOpen(Runtimes[runtime].calls, "Balances")
  BY CallsStartOpen
<1> DEFINE of == orders[o].currency
           amount == Amount(o)
<1>6. /\ IsTransfer(call) /\ InCurrency(call, of)
      /\ Destination(call) = recipient
      /\ IF of.kind = "Asset"
         THEN call.method = "transfer" /\ call.fields["amount"].value = amount
         ELSE call.method = "transfer_all"
  <2>1. CASE of.kind = "Asset"
    <3> DEFINE filling == [target |-> AccountIn(recipient),
                           id     |-> FillWhere({"u32", "compact_u32"},
                                                of.asset_id),
                           amount |-> BalanceIn(amount)]
    <3>1. call = Call(Runtimes[runtime], "Assets", "transfer", filling)
      BY <2>1 DEF TransferCall, construct_single_asset_transfer_call, metadata
    <3>2. /\ DOMAIN filling = {"target", "id", "amount"}
          /\ filling["target"].value = recipient
          /\ filling["id"].value = of.asset_id
          /\ filling["amount"].value = amount
      BY DEF AccountIn, BalanceIn, FillWhere
    <3>3. /\ <<"Assets", "transfer">> \in Moving
          /\ ArgumentsOf("Assets", "transfer") = {"target", "id", "amount"}
      BY DEF Moving, ArgumentsOf
    <3> HIDE DEF filling, call, of, amount
    <3>4. IsComplete(Call(Runtimes[runtime], "Assets", "transfer", filling))
      BY <1>4, <3>1
    <3>5. /\ call.pallet = "Assets" /\ call.method = "transfer"
          /\ call.fields["target"].value = recipient
          /\ call.fields["id"].value = of.asset_id
          /\ call.fields["amount"].value = amount
      BY <1>5, <3>1, <3>2, <3>3, <3>4, TransferIsFilled
    <3> QED BY <2>1, <3>3, <3>5
            DEF IsTransfer, InCurrency, Destination, DestinationIn
  <2>2. CASE of.kind # "Asset"
    <3> DEFINE filling == [dest       |-> AccountIn(recipient),
                           keep_alive |-> FillWhere({"bool"}, FALSE),
                           value      |-> BalanceIn(amount)]
    <3>1. call = Call(Runtimes[runtime], "Balances", "transfer_all", filling)
      BY <2>2 DEF TransferCall, construct_single_balance_transfer_call, metadata
    <3>2. /\ "dest" \in DOMAIN filling
          /\ filling["dest"].value = recipient
      BY DEF AccountIn, FillWhere
    <3>3. /\ <<"Balances", "transfer_all">> \in Moving
          /\ ArgumentsOf("Balances", "transfer_all") = {"dest"}
      BY DEF Moving, ArgumentsOf
    <3> HIDE DEF filling, call, of, amount
    <3>4. IsComplete(Call(Runtimes[runtime], "Balances", "transfer_all",
                          filling))
      BY <1>4, <3>1
    <3>5. /\ call.pallet = "Balances" /\ call.method = "transfer_all"
          /\ call.fields["dest"].value = recipient
      BY <1>5, <3>1, <3>2, <3>3, <3>4, TransferIsFilled
    <3> QED BY <2>2, <3>3, <3>5
            DEF IsTransfer, InCurrency, Destination, DestinationIn
  <2> QED BY <2>1, <2>2
<1> HIDE DEF call, batch, of, amount
<1>7. Len(BatchedCalls(batch)) = 1 /\ BatchedCalls(batch)[1] = call
  BY <1>3
<1> QED BY <1>1, <1>6, <1>7 DEF IsOrdered, of, amount

(* The units that are asked for.                                           *)
AskedFor(order, of) == Units[order.price, of]

LEMMA AmountIsAsked ==
    ASSUME NEW o
    PROVE  Amount(o) = AskedFor(orders[o], orders[o].currency)
BY Zenon DEF Amount, AskedFor

LEMMA AskedIsBalance ==
    ASSUME NEW order, order.price \in Accepted, NEW of \in Currencies
    PROVE  AskedFor(order, of) \in Balance
BY Zenon, UnitsAreBalances DEF AskedFor

(* What is signed for an order is from its account, on the block looked at *)
(* and for a while only.                                                   *)
AsOrdered(transaction, order, of, to) ==
    /\ transaction.author \in {Unfilled, order.account}
    /\ transaction.era = "mortal" /\ transaction.number = transaction.block
    /\ IsOrdered(transaction.call, of, to, AskedFor(order, of))

(* A task has decided on what it saw of what was asked for.                *)
IsDecided(t, order, of, to) ==
    LET decision == Decision(t.seen, AskedFor(order, of))
    IN  /\ t.pc \in {"built", "signing", "signed", "sent"} =>
              decision = "pay" /\ AsOrdered(t.transaction, order, of, to)
        /\ t.pc \in {"signed", "sent"} => t.transaction.author = order.account
        /\ t.pc \in Refusals => decision = t.pc

IsProgress(t, order, of, to) ==
    \/ t = NoTask
    \/ /\ DOMAIN t = TaskFields /\ order.state = "paid"
       /\ t.pc \in Running \cup Ends
       /\ t.block \in 0..MaxHeight /\ t.seen \in 0..MaxFunds
       /\ IsDecided(t, order, of, to)

IsRecord(order) ==
    \/ order = NewOrder
    \/ /\ DOMAIN order = OrderFields /\ order.state \in {"pending", "paid"}
       /\ order.account \in Pairs /\ order.price \in Accepted
       /\ order.currency \in Currencies

IsSubmitted(x) ==
    /\ x.transaction.author \in Pairs
    /\ \E of \in Currencies, to \in Recipients, amount \in Balance :
          IsOrdered(x.transaction.call, of, to, amount)

RecordsOK == \A o \in Orders : IsRecord(orders[o])
ProgressesOK ==
    \A o \in Orders : IsProgress(task[o], orders[o], orders[o].currency, recipient)
SubmittedOK == \A x \in pool : IsSubmitted(x)
ChannelOK == signer \in {"starting", "up", "down"} /\ Len(signerQ) <= SignerCap
RangesOK ==
    /\ stopping \in BOOLEAN /\ height \in 0..MaxHeight
    /\ funds \in [Pairs -> [Currencies -> 0..MaxFunds]]
    /\ boots \in 1..MaxBoots /\ derived \subseteq Pairs \X Recipients

PaymentInv == PayoutInv /\ RecordsOK /\ ProgressesOK /\ SubmittedOK
                /\ ChannelOK /\ RangesOK

LEMMA PaymentInit == Init => PaymentInv
<1> SUFFICES ASSUME Init PROVE PaymentInv
  OBVIOUS
<1>1. RecordsOK /\ ProgressesOK /\ SubmittedOK
  BY DEF Init, RecordsOK, ProgressesOK, SubmittedOK, IsRecord, IsProgress
<1>2. ChannelOK
  BY SignerCapIsPositive DEF Init, SignerInit, ChannelOK
<1>3. RangesOK
  <2>1. MaxHeight \in Nat /\ MaxFunds \in Nat /\ MaxBoots \in Nat \ {0}
    BY BoundsAreNatural
  <2>2. 0 \in 0..MaxHeight /\ 0 \in 0..MaxFunds /\ 1 \in 1..MaxBoots
    BY <2>1
  <2> QED BY <2>2 DEF Init, RangesOK
<1> QED BY <1>1, <1>2, <1>3, InvInit DEF PaymentInv

(* Orders change when one is made, paid or restored.                       *)
LEMMA RecordsStep ==
    ASSUME PaymentInv, [Next]_vars
    PROVE  RecordsOK'
<1>1. CASE UNCHANGED orders
  BY <1>1 DEF PaymentInv, RecordsOK
<1>2. ASSUME NEW o \in Orders, OrderPaid(o) PROVE RecordsOK'
  <2>1. /\ orders' = [orders EXCEPT ![o].state = "paid"]
        /\ orders[o].state = "pending"
    BY <1>2 DEF OrderPaid
  <2>2. /\ DOMAIN orders[o] = OrderFields /\ orders[o].account \in Pairs
        /\ orders[o].price \in Accepted /\ orders[o].currency \in Currencies
    BY <2>1 DEF PaymentInv, RecordsOK, IsRecord, NewOrder
  <2> DEFINE paid == [orders[o] EXCEPT !.state = "paid"]
  <2>3. IsRecord(paid)
    <3>1. /\ DOMAIN paid = OrderFields /\ paid.state = "paid"
          /\ paid.account = orders[o].account /\ paid.price = orders[o].price
          /\ paid.currency = orders[o].currency
      BY <2>2 DEF OrderFields
    <3> HIDE DEF paid
    <3> QED BY <2>2, <3>1 DEF IsRecord
  <2>4. \A p \in Orders : orders'[p] = IF p = o THEN paid ELSE orders[p]
    BY <2>1 DEF PaymentInv, PayoutInv, OrdersOK
  <2> HIDE DEF paid
  <2> QED BY <2>3, <2>4 DEF PaymentInv, RecordsOK
<1>3. ASSUME NEW price \in Prices, NEW of \in Currencies,
             AccountDerived(price, of)
      PROVE  RecordsOK'
  <2> DEFINE account == answer[Handler].by
             new == Ordered(orders[creating], account, price, of)
  <2>1. /\ creating \in Orders /\ price \in Accepted
        /\ orders' = [orders EXCEPT ![creating] = new]
    BY <1>3 DEF AccountDerived, PaymentInv, PayoutInv, OrdersOK
  <2>2. account \in Pairs
    <3>1. recipient \in Recipients /\ \E id \in Orders : account = <<recipient, id>>
      BY <1>3 DEF AccountDerived, PaymentInv, PayoutInv, SignerOK
    <3> HIDE DEF account
    <3> QED BY <3>1 DEF Pairs, derivations
  <2>3. IsRecord(new)
    <3> DEFINE old == orders[creating]
    <3>1. IsRecord(old)
      BY <2>1 DEF PaymentInv, RecordsOK
    <3>2. CASE old.state = "none"
      <4>1. new = [state |-> "pending", account |-> account, price |-> price,
                   currency |-> of]
        BY <3>2 DEF Ordered
      <4> HIDE DEF new, account
      <4> QED BY <2>1, <2>2, <4>1 DEF IsRecord, OrderFields
    <3>3. CASE old.state = "pending"
      <4>1. new = [old EXCEPT !.price = price, !.currency = of]
        BY <3>3 DEF Ordered
      <4>2. DOMAIN old = OrderFields /\ old.account \in Pairs
        BY <3>1, <3>3 DEF IsRecord, NewOrder
      <4> HIDE DEF new, account, old
      <4>3. /\ DOMAIN new = OrderFields /\ new.state = old.state
            /\ new.account = old.account /\ new.price = price
            /\ new.currency = of
        BY <4>1, <4>2 DEF OrderFields
      <4> QED BY <2>1, <3>3, <4>2, <4>3 DEF IsRecord
    <3>4. CASE old.state = "paid"
      BY <3>1, <3>4 DEF Ordered
    <3> HIDE DEF new, account, old
    <3> QED BY <3>1, <3>2, <3>3, <3>4 DEF IsRecord, NewOrder
  <2> HIDE DEF new
  <2>4. \A p \in Orders : orders'[p] = IF p = creating THEN new ELSE orders[p]
    BY <2>1 DEF PaymentInv, PayoutInv, OrdersOK
  <2> QED BY <2>3, <2>4 DEF PaymentInv, RecordsOK
<1>4. ASSUME NEW saved, Restart(saved) PROVE RecordsOK'
  <2> SUFFICES ASSUME NEW o \in Orders PROVE IsRecord(orders'[o])
    BY DEF RecordsOK
  <2> DEFINE old == orders[o]
             new == Restored(old, saved[o])
  <2>1. orders'[o] = new /\ IsEarlier(saved[o], old) /\ IsRecord(old)
    BY <1>4 DEF Restart, PaymentInv, RecordsOK
  <2>2. CASE saved[o] = "none"
    BY <2>1, <2>2 DEF Restored, IsRecord
  <2>3. CASE saved[o] # "none"
    <3>1. saved[o] \in {"pending", "paid"} /\ old # NewOrder
      BY <2>1, <2>3 DEF IsEarlier, IsRecord, NewOrder
    <3>2. new = [old EXCEPT !.state = saved[o]]
      BY <2>3 DEF Restored
    <3> HIDE DEF new, old
    <3>3. DOMAIN old = OrderFields
      BY <2>1, <3>1 DEF IsRecord
    <3>4. /\ DOMAIN new = OrderFields /\ new.state = saved[o]
          /\ new.account = old.account /\ new.price = old.price
          /\ new.currency = old.currency
      BY <3>2, <3>3 DEF OrderFields
    <3> QED BY <2>1, <3>1, <3>4 DEF IsRecord
  <2> QED BY <2>2, <2>3
<1>5. ASSUME NEW o \in Orders, CreateOrder(o) \/ TaskStep(o)
      PROVE  UNCHANGED orders
  BY <1>5 DEF CreateOrder, TaskStep, GivesUp, ConnectClient, BlockHash,
              BlockNumber, Decide, NoBalance, AskSigner, GetSignature,
              SendStuff, Continues
<1>6. CASE \/ UNCHANGED vars \/ OrderRefused \/ StopSigner \/ NewBlock
           \/ SignerStep /\ UNCHANGED <<daemonVars, chainVars, setVars, derived>>
           \/ \E account \in Pairs, of \in Currencies, units \in Deposits :
                 Customer(account, of, units)
           \/ \E x \in pool : Execute(x) \/ Forget(x)
  BY <1>1, <1>6 DEF vars, daemonVars, OrderRefused, StopSigner, NewBlock,
                    Customer, Execute, ExecuteIn, Forget
<1> QED BY <1>1, <1>2, <1>3, <1>4, <1>5, <1>6 DEF Next

(* A task that goes on as it should.                                       *)
LEMMA ProgressGoesOn ==
    ASSUME PaymentInv, NEW o \in Orders, NEW next, Continues(o, next),
           UNCHANGED recipient,
           IsProgress(next, orders[o], orders[o].currency, recipient)
    PROVE  ProgressesOK'
<1>1. /\ task' = [task EXCEPT ![o] = next]
      /\ UNCHANGED <<orders, recipient>>
  BY DEF Continues, setVars
<1>2. \A p \in Orders : task'[p] = IF p = o THEN next ELSE task[p]
  BY <1>1 DEF PaymentInv, PayoutInv, TasksOK
<1> QED BY <1>1, <1>2 DEF PaymentInv, ProgressesOK

(* A task that is under way is of a paid order with an account.            *)
LEMMA ProgressUnderWay ==
    ASSUME PaymentInv, NEW o \in Orders, task[o].pc # "none"
    PROVE  /\ DOMAIN task[o] = TaskFields /\ task[o] # NoTask
           /\ IsProgress(task[o], orders[o], orders[o].currency, recipient)
           /\ orders[o].state = "paid" /\ orders[o].account \in Pairs
           /\ orders[o].price \in Accepted /\ orders[o].currency \in Currencies
<1>1. task[o] # NoTask
  BY DEF NoTask
<1>2. IsProgress(task[o], orders[o], orders[o].currency, recipient)
  BY DEF PaymentInv, ProgressesOK
<1>3. DOMAIN task[o] = TaskFields /\ orders[o].state = "paid"
  BY <1>1, <1>2 DEF IsProgress
<1>4. /\ orders[o].account \in Pairs /\ orders[o].price \in Accepted
      /\ orders[o].currency \in Currencies
  BY <1>3 DEF PaymentInv, RecordsOK, IsRecord, NewOrder
<1> QED BY <1>1, <1>2, <1>3, <1>4

(* The task goes to a place where nothing has been decided.                *)
LEMMA UndecidedProgress ==
    ASSUME PaymentInv, NEW o \in Orders, task[o].pc # "none",
           NEW pc \in {"connected", "numbered", "failed", "unsignable"}
    PROVE  IsProgress([task[o] EXCEPT !.pc = pc],
                      orders[o], orders[o].currency, recipient)
<1> DEFINE next == [task[o] EXCEPT !.pc = pc]
<1>1. /\ DOMAIN task[o] = TaskFields /\ task[o] # NoTask
      /\ IsProgress(task[o], orders[o], orders[o].currency, recipient)
  BY ProgressUnderWay
<1>2. /\ DOMAIN next = TaskFields /\ next.pc = pc
      /\ next.block = task[o].block /\ next.seen = task[o].seen
  BY <1>1 DEF TaskFields
<1> HIDE DEF next
<1>3. IsDecided(next, orders[o], orders[o].currency, recipient)
  BY <1>2 DEF IsDecided, Refusals
<1>4. IsProgress(next, orders[o], orders[o].currency, recipient)
  BY <1>1, <1>2, <1>3 DEF IsProgress, Running, Ends
<1> QED BY <1>4 DEF next

LEMMA QueryProgress ==
    ASSUME PaymentInv, NEW o \in Orders,
           \/ GivesUp(o) \/ ConnectClient(o) \/ BlockHash(o) \/ BlockNumber(o)
           \/ NoBalance(o)
    PROVE  ProgressesOK'
<1>1. task[o].pc # "none" /\ UNCHANGED recipient
  BY DEF GivesUp, ConnectClient, BlockHash, BlockNumber, NoBalance, At,
         signerVars
<1>2. ASSUME NEW pc \in {"connected", "numbered", "failed"},
             Continues(o, [task[o] EXCEPT !.pc = pc])
      PROVE  ProgressesOK'
  BY <1>1, <1>2, UndecidedProgress, ProgressGoesOn
<1>3. CASE BlockHash(o)
  <2> DEFINE seen == funds[orders[o].account][orders[o].currency]
             next == Task("at_block", height, seen)
  <2>1. /\ next.pc = "at_block" /\ next.block = height
        /\ next.seen = seen
        /\ DOMAIN next = TaskFields /\ Continues(o, next)
    BY <1>3 DEF BlockHash, Task, TaskFields
  <2>2. next.block \in 0..MaxHeight /\ next.seen \in 0..MaxFunds
    <3>1. orders[o].account \in Pairs /\ orders[o].currency \in Currencies
      BY <1>1, ProgressUnderWay
    <3> QED BY <2>1, <3>1 DEF PaymentInv, RangesOK
  <2>3. orders[o].state = "paid"
    BY <1>1, ProgressUnderWay
  <2> HIDE DEF next
  <2>4. IsDecided(next, orders[o], orders[o].currency, recipient)
    BY <2>1 DEF IsDecided, Refusals
  <2>5. IsProgress(next, orders[o], orders[o].currency, recipient)
    BY <2>1, <2>2, <2>3, <2>4 DEF IsProgress, Running
  <2> QED BY <1>1, <2>1, <2>5, ProgressGoesOn
<1>4. CASE BlockNumber(o)
  BY <1>2, <1>4 DEF BlockNumber
<1> QED BY <1>2, <1>3, <1>4 DEF GivesUp, ConnectClient, NoBalance

LEMMA DecideProgress ==
    ASSUME PaymentInv, NEW o \in Orders, Decide(o)
    PROVE  ProgressesOK'
<1>1. /\ task[o].pc # "none" /\ UNCHANGED recipient
      /\ DOMAIN task[o] = TaskFields /\ orders[o].state = "paid"
      /\ task[o].block \in 0..MaxHeight /\ task[o].seen \in 0..MaxFunds
  <2>1. task[o].pc # "none" /\ UNCHANGED recipient
    BY DEF Decide, At, signerVars
  <2> QED BY <2>1, ProgressUnderWay DEF IsProgress
<1> DEFINE decision == Decision(task[o].seen, Amount(o))
<1>2. CASE decision # "pay"
  <2> DEFINE next == [task[o] EXCEPT !.pc = decision]
  <2>1. decision \in Refusals
    BY <1>2 DEF Decision, Refusals
  <2>2. Continues(o, next)
    BY <1>2 DEF Decide
  <2>3. decision = Decision(task[o].seen, AskedFor(orders[o], orders[o].currency))
    BY AmountIsAsked
  <2> HIDE DEF decision
  <2>4. /\ DOMAIN next = TaskFields /\ next.pc = decision
        /\ next.block = task[o].block /\ next.seen = task[o].seen
    BY <1>1 DEF TaskFields
  <2> HIDE DEF next
  <2>5. IsDecided(next, orders[o], orders[o].currency, recipient)
    BY <2>1, <2>3, <2>4 DEF IsDecided, Refusals
  <2>6. IsProgress(next, orders[o], orders[o].currency, recipient)
    BY <1>1, <2>1, <2>4, <2>5 DEF IsProgress, Ends
  <2> QED BY <1>1, <2>2, <2>6, ProgressGoesOn
<1>3. CASE decision = "pay" /\ ~Signable(Transaction(o))
  <2>1. Continues(o, [task[o] EXCEPT !.pc = "unsignable"])
    BY <1>3 DEF Decide
  <2> QED BY <1>1, <2>1, UndecidedProgress, ProgressGoesOn
<1>4. CASE decision = "pay" /\ Signable(Transaction(o))
  <2> DEFINE t == Transaction(o)
             next == [task[o] EXCEPT !.pc = "built", !.transaction = t]
  <2>1. IsOrdered(t.call, orders[o].currency, recipient, Amount(o))
    BY <1>4, TransactionIsOrdered DEF PaymentInv, PayoutInv
  <2>2. /\ t.author \in {Unfilled, orders[o].account}
        /\ t.era = "mortal" /\ t.number = t.block
    BY ErasAreKnown DEF Transaction, construct_batch_transaction, metadata,
                        PaymentInv, PayoutInv
  <2>3. AsOrdered(t, orders[o], orders[o].currency, recipient)
    BY <2>1, <2>2, AmountIsAsked DEF AsOrdered
  <2>4. Continues(o, next)
    BY <1>4 DEF Decide
  <2>5. Decision(task[o].seen, AskedFor(orders[o], orders[o].currency)) = "pay"
    BY <1>4, AmountIsAsked
  <2> HIDE DEF t, decision
  <2>6. /\ DOMAIN next = TaskFields /\ next.pc = "built"
        /\ next.transaction = t
        /\ next.block = task[o].block /\ next.seen = task[o].seen
    BY <1>1 DEF TaskFields
  <2> HIDE DEF next
  <2>7. IsDecided(next, orders[o], orders[o].currency, recipient)
    BY <2>3, <2>5, <2>6 DEF IsDecided, Refusals
  <2>8. IsProgress(next, orders[o], orders[o].currency, recipient)
    BY <1>1, <2>6, <2>7 DEF IsProgress, Running
  <2> QED BY <1>1, <2>4, <2>8, ProgressGoesOn
<1> QED BY <1>2, <1>3, <1>4

(* Nothing is decided anew while the signature is fetched and sent.        *)
LEMMA SigningProgress ==
    ASSUME PaymentInv, NEW o \in Orders,
           AskSigner(o) \/ GetSignature(o) \/ SendStuff(o)
    PROVE  ProgressesOK'
<1>1. /\ task[o].pc \in {"built", "signing", "signed"}
      /\ UNCHANGED recipient
  BY DEF AskSigner, GetSignature, SendStuff, At, Ask, signerVars
<1>2. /\ DOMAIN task[o] = TaskFields /\ task[o] # NoTask
      /\ IsProgress(task[o], orders[o], orders[o].currency, recipient)
  BY <1>1, ProgressUnderWay
<1>3. ASSUME NEW next, Continues(o, next),
             DOMAIN next = TaskFields, next.pc \in {"signing", "signed", "sent"},
             next.block = task[o].block, next.seen = task[o].seen,
             next.transaction = task[o].transaction,
             next.pc \in {"signed", "sent"} =>
                \/ task[o].pc = "signed"
                \/ task[o].transaction.author # Unfilled
      PROVE  ProgressesOK'
  <2>1. IsDecided(next, orders[o], orders[o].currency, recipient)
    BY <1>1, <1>2, <1>3 DEF IsProgress, IsDecided, AsOrdered, Refusals
  <2>2. IsProgress(next, orders[o], orders[o].currency, recipient)
    BY <1>2, <1>3, <2>1 DEF IsProgress, Running, Ends
  <2> QED BY <1>1, <1>3, <2>2, ProgressGoesOn
<1>4. CASE AskSigner(o)
  <2> DEFINE next == [task[o] EXCEPT !.pc = "signing"]
  <2>1. Continues(o, next)
    BY <1>4 DEF AskSigner
  <2>2. /\ DOMAIN next = TaskFields /\ next.pc = "signing"
        /\ next.block = task[o].block /\ next.seen = task[o].seen
        /\ next.transaction = task[o].transaction
    BY <1>2 DEF TaskFields
  <2> HIDE DEF next
  <2> QED BY <1>3, <2>1, <2>2
<1>5. CASE GetSignature(o)
  <2> DEFINE pc == IF answer[o].type = "signature"
                        /\ Sendable(task[o].transaction)
                   THEN "signed" ELSE "failed"
             next == [task[o] EXCEPT !.signature = answer[o], !.pc = pc]
  <2>1. Continues(o, next)
    BY <1>5 DEF GetSignature
  <2>2. /\ pc = "signed" => task[o].transaction.author # Unfilled
        /\ pc \in {"signed", "failed"}
    BY DEF Sendable
  <2> HIDE DEF pc
  <2>3. /\ DOMAIN next = TaskFields /\ next.pc = pc
        /\ next.block = task[o].block /\ next.seen = task[o].seen
        /\ next.transaction = task[o].transaction
    BY <1>2 DEF TaskFields
  <2> HIDE DEF next
  <2>4. CASE pc = "signed"
    BY <1>3, <2>1, <2>2, <2>3, <2>4
  <2>5. CASE pc = "failed"
    <3>1. IsDecided(next, orders[o], orders[o].currency, recipient)
      BY <2>3, <2>5 DEF IsDecided, Refusals
    <3>2. IsProgress(next, orders[o], orders[o].currency, recipient)
      BY <1>2, <2>3, <2>5, <3>1 DEF IsProgress, Ends
    <3> QED BY <1>1, <2>1, <3>2, ProgressGoesOn
  <2> QED BY <2>2, <2>4, <2>5
<1>6. CASE SendStuff(o)
  <2> DEFINE next == [task[o] EXCEPT !.pc = "sent"]
  <2>1. Continues(o, next) /\ task[o].pc = "signed"
    BY <1>6 DEF SendStuff, At
  <2>2. /\ DOMAIN next = TaskFields /\ next.pc = "sent"
        /\ next.block = task[o].block /\ next.seen = task[o].seen
        /\ next.transaction = task[o].transaction
    BY <1>2 DEF TaskFields
  <2> HIDE DEF next
  <2> QED BY <1>3, <2>1, <2>2
<1> QED BY <1>4, <1>5, <1>6

LEMMA ProgressesStep ==
    ASSUME PaymentInv, [Next]_vars
    PROVE  ProgressesOK'
<1>1. ASSUME UNCHANGED <<task, recipient>>,
             \A o \in Orders : orders[o].state = "paid" => orders'[o] = orders[o]
      PROVE  ProgressesOK'
  BY <1>1 DEF PaymentInv, ProgressesOK, IsProgress
<1>2. ASSUME NEW o \in Orders, TaskStep(o) PROVE ProgressesOK'
  BY <1>2, QueryProgress, DecideProgress, SigningProgress DEF TaskStep
<1>3. ASSUME NEW o \in Orders, CreateOrder(o) PROVE ProgressesOK'
  BY <1>1, <1>3 DEF CreateOrder, Ask, setVars
<1>4. ASSUME NEW o \in Orders, OrderPaid(o) PROVE ProgressesOK'
  <2>1. /\ orders' = [orders EXCEPT ![o].state = "paid"]
        /\ task' = [task EXCEPT ![o] = Task("spawned", 0, 0)]
        /\ UNCHANGED recipient /\ orders[o].state = "pending"
    BY <1>4 DEF OrderPaid, signerVars, setVars
  <2> DEFINE new == Task("spawned", 0, 0)
  <2>2. /\ DOMAIN new = TaskFields /\ new.pc = "spawned"
        /\ new.block = 0 /\ new.seen = 0
    BY DEF Task, TaskFields
  <2>3. MaxHeight \in Nat /\ MaxFunds \in Nat
    BY BoundsAreNatural
  <2>4. 0 \in 0..MaxHeight /\ 0 \in 0..MaxFunds
    BY <2>3
  <2>5. orders'[o].state = "paid"
    <3>1. orders'[o] = [orders[o] EXCEPT !.state = "paid"]
      BY <2>1 DEF PaymentInv, PayoutInv, OrdersOK
    <3>2. DOMAIN orders[o] = OrderFields
      BY DEF PaymentInv, PayoutInv, OrdersOK, OrderOK
    <3> QED BY <3>1, <3>2 DEF OrderFields
  <2>6. \A p \in Orders : /\ task'[p] = IF p = o THEN new ELSE task[p]
                          /\ p # o => orders'[p] = orders[p]
    BY <2>1 DEF PaymentInv, PayoutInv, OrdersOK, TasksOK
  <2> HIDE DEF new
  <2>7. IsDecided(new, orders'[o], orders'[o].currency, recipient)
    BY <2>2 DEF IsDecided, Refusals
  <2>8. IsProgress(new, orders'[o], orders'[o].currency, recipient)
    BY <2>2, <2>4, <2>5, <2>7 DEF IsProgress, Running
  <2> QED BY <2>1, <2>6, <2>8 DEF PaymentInv, ProgressesOK
<1>5. ASSUME NEW price \in Prices, NEW of \in Currencies,
             AccountDerived(price, of)
      PROVE  ProgressesOK'
  <2>1. /\ UNCHANGED <<task, recipient>> /\ creating \in Orders
        /\ \E account : orders' = [orders EXCEPT ![creating] =
                                     Ordered(orders[creating], account, price, of)]
    BY <1>5 DEF AccountDerived, setVars, PaymentInv, PayoutInv, OrdersOK
  <2>2. \A account : orders[creating].state = "paid" =>
           Ordered(orders[creating], account, price, of) = orders[creating]
    BY DEF Ordered
  <2>3. \A o \in Orders : orders[o].state = "paid" => orders'[o] = orders[o]
    BY <2>1, <2>2 DEF PaymentInv, PayoutInv, OrdersOK
  <2> QED BY <1>1, <2>1, <2>3
<1>6. ASSUME NEW saved, Restart(saved) PROVE ProgressesOK'
  BY <1>6 DEF Restart, ProgressesOK, IsProgress
<1>7. CASE \/ UNCHANGED vars \/ OrderRefused \/ StopSigner \/ NewBlock
           \/ SignerStep /\ UNCHANGED <<daemonVars, chainVars, setVars, derived>>
           \/ \E account \in Pairs, of \in Currencies, units \in Deposits :
                 Customer(account, of, units)
           \/ \E x \in pool : Execute(x) \/ Forget(x)
  <2>1. UNCHANGED <<task, orders>>
    BY <1>7 DEF vars, daemonVars, setVars, OrderRefused, StopSigner, NewBlock,
                Customer, Execute, ExecuteIn, Forget
  <2>2. SignerStep => UNCHANGED recipient
    BY SignerStepKeeps DEF PaymentInv, PayoutInv
  <2>3. UNCHANGED recipient
    BY <1>7, <2>2 DEF vars, signerVars, OrderRefused, StopSigner, AskToStop,
                      NewBlock, Customer, Execute, ExecuteIn, Forget
  <2> QED BY <1>1, <2>1, <2>3
<1> QED BY <1>2, <1>3, <1>4, <1>5, <1>6, <1>7 DEF Next

(* What reaches the pool was signed for an order.                          *)
LEMMA SubmittedStep ==
    ASSUME PaymentInv, [Next]_vars
    PROVE  SubmittedOK'
<1>1. ASSUME pool' \subseteq pool PROVE SubmittedOK'
  BY <1>1 DEF PaymentInv, SubmittedOK
<1>2. ASSUME NEW o \in Orders, SendStuff(o) PROVE SubmittedOK'
  <2> DEFINE x == [transaction |-> task[o].transaction,
                   signature |-> task[o].signature]
  <2>1. pool' = pool \cup {x} /\ task[o].pc = "signed"
    BY <1>2 DEF SendStuff, At
  <2>2. /\ task[o] # NoTask /\ orders[o].account \in Pairs
        /\ orders[o].price \in Accepted /\ orders[o].currency \in Currencies
        /\ IsProgress(task[o], orders[o], orders[o].currency, recipient)
    BY <2>1, ProgressUnderWay
  <2>3. /\ task[o].transaction.author = orders[o].account
        /\ IsOrdered(task[o].transaction.call, orders[o].currency, recipient,
                     AskedFor(orders[o], orders[o].currency))
    BY <2>1, <2>2 DEF IsProgress, IsDecided, AsOrdered
  <2>4. AskedFor(orders[o], orders[o].currency) \in Balance /\ recipient \in Recipients
    BY <2>2, AskedIsBalance DEF PaymentInv, PayoutInv, SignerOK
  <2>5. x.transaction = task[o].transaction
    OBVIOUS
  <2> HIDE DEF x
  <2>6. IsSubmitted(x)
    BY <2>2, <2>3, <2>4, <2>5 DEF IsSubmitted
  <2> QED BY <2>1, <2>6 DEF PaymentInv, SubmittedOK
<1>3. ASSUME NEW o \in Orders,
             CreateOrder(o) \/ OrderPaid(o) \/ TaskStep(o), ~SendStuff(o)
      PROVE  pool' = pool
  BY <1>3 DEF CreateOrder, OrderPaid, TaskStep, GivesUp, ConnectClient,
              BlockHash, BlockNumber, Decide, NoBalance, AskSigner,
              GetSignature, chainVars
<1>4. CASE \/ UNCHANGED vars \/ OrderRefused \/ StopSigner \/ NewBlock
           \/ SignerStep /\ UNCHANGED <<daemonVars, chainVars, setVars, derived>>
           \/ \E price \in Prices, of \in Currencies : AccountDerived(price, of)
           \/ \E account \in Pairs, of \in Currencies, units \in Deposits :
                 Customer(account, of, units)
           \/ \E x \in pool : Execute(x) \/ Forget(x)
           \/ \E saved : Restart(saved)
  <2>1. pool' \subseteq pool
    BY <1>4 DEF vars, chainVars, OrderRefused, StopSigner, NewBlock,
                AccountDerived, Customer, Execute, ExecuteIn, Forget, Restart
  <2> QED BY <1>1, <2>1
<1> QED BY <1>1, <1>2, <1>3, <1>4 DEF Next

(* The channel takes no more requests than it has room for.                *)
LEMMA ChannelStep ==
    ASSUME PaymentInv, [Next]_vars
    PROVE  ChannelOK'
<1>1. PICK S : signerQ \in Seq(S)
  BY DEF PaymentInv, PayoutInv, SignerOK
<1>2. ChannelOK /\ SignerCap \in Nat \ {0}
  BY SignerCapIsPositive DEF PaymentInv
<1>3. CASE UNCHANGED <<signer, signerQ>>
  BY <1>2, <1>3 DEF ChannelOK
<1>4. ASSUME NEW c, NEW request, Ask(c, request) PROVE ChannelOK'
  <2>1. CASE signerQ' = Append(signerQ, request) /\ Len(signerQ) < SignerCap
    <3>1. Len(signerQ') = Len(signerQ) + 1 /\ Len(signerQ) \in Nat
      BY <1>1, <2>1
    <3> QED BY <1>2, <1>4, <2>1, <3>1 DEF Ask, ChannelOK
  <2> QED BY <1>3, <1>4, <2>1 DEF Ask
<1>5. ASSUME AskToStop PROVE ChannelOK'
  <2>1. CASE /\ signerQ' = Append(signerQ, ShutdownRequest)
             /\ Len(signerQ) < SignerCap
    <3>1. Len(signerQ') = Len(signerQ) + 1 /\ Len(signerQ) \in Nat
      BY <1>1, <2>1
    <3> QED BY <1>2, <1>5, <2>1, <3>1 DEF AskToStop, ChannelOK
  <2> QED BY <1>3, <1>5, <2>1 DEF AskToStop
<1>6. CASE SignerStep
  <2>1. ASSUME SignerEnds PROVE ChannelOK'
    BY <1>2, <2>1 DEF SignerEnds, ChannelOK
  <2>2. ASSUME NEW c, NEW reply, Answers(c, reply), signerQ # <<>>
        PROVE  ChannelOK'
    <3>1. signerQ' = Tail(signerQ) /\ UNCHANGED signer
      BY <2>2 DEF Answers
    <3>2. Len(signerQ') = Len(signerQ) - 1 /\ Len(signerQ) \in Nat
      BY <1>1, <2>2, <3>1
    <3> QED BY <1>2, <3>1, <3>2 DEF ChannelOK
  <2>3. CASE ReadSeed
    BY <1>2, <2>1, <2>3 DEF ReadSeed, ChannelOK
  <2>4. CASE ServePublicKey \/ ServeSign
    BY <2>2, <2>4 DEF ServePublicKey, ServeSign, Serves
  <2>5. CASE ServeShutdown
    BY <2>1, <2>5 DEF ServeShutdown
  <2> QED BY <1>6, <2>3, <2>4, <2>5 DEF SignerStep
<1>7. ASSUME NEW saved, Restart(saved) PROVE ChannelOK'
  BY <1>2, <1>7 DEF Restart, ChannelOK
<1>8. ASSUME NEW o \in Orders, CreateOrder(o) \/ OrderPaid(o) \/ TaskStep(o)
      PROVE  ChannelOK'
  <2>1. CASE CreateOrder(o) \/ AskSigner(o)
    BY <1>4, <2>1 DEF CreateOrder, AskSigner
  <2>2. CASE OrderPaid(o) \/ (TaskStep(o) /\ ~AskSigner(o))
    BY <1>3, <2>2 DEF OrderPaid, TaskStep, GivesUp, ConnectClient, BlockHash,
                      BlockNumber, Decide, NoBalance, GetSignature, SendStuff,
                      signerVars
  <2> QED BY <1>8, <2>1, <2>2
<1>9. CASE \/ UNCHANGED vars \/ OrderRefused \/ NewBlock
           \/ \E price \in Prices, of \in Currencies : AccountDerived(price, of)
           \/ \E account \in Pairs, of \in Currencies, units \in Deposits :
                 Customer(account, of, units)
           \/ \E x \in pool : Execute(x) \/ Forget(x)
  BY <1>3, <1>9 DEF vars, signerVars, OrderRefused, NewBlock, AccountDerived,
                    Customer, Execute, ExecuteIn, Forget
<1>10. CASE StopSigner
  BY <1>5, <1>10 DEF StopSigner
<1> QED BY <1>6, <1>7, <1>8, <1>9, <1>10 DEF Next

(* The chain executes a transfer of no more than the account has.          *)
LEMMA ExecutedInRange ==
    ASSUME PaymentInv, NEW x \in pool, NEW of \in Currencies, ExecuteIn(x, of)
    PROVE  funds' \in [Pairs -> [Currencies -> 0..MaxFunds]]
<1> DEFINE account == x.transaction.author
           held == funds[account][of]
           call == BatchedCalls(x.transaction.call)[1]
           left == held - Moves(call, held)
<1>1. /\ funds' = [funds EXCEPT ![account][of] = left]
      /\ held > 0 /\ left >= 0
  BY DEF ExecuteIn
<1>2. IsSubmitted(x)
  BY DEF PaymentInv, SubmittedOK
<1>3. /\ account \in Pairs /\ funds \in [Pairs -> [Currencies -> 0..MaxFunds]]
      /\ held \in 0..MaxFunds
  BY <1>2 DEF IsSubmitted, PaymentInv, RangesOK
<1>4. Moves(call, held) \in Nat
  <2>1. PICK in \in Currencies, amount \in Balance :
           IF in.kind = "Asset"
           THEN call.method = "transfer" /\ call.fields["amount"].value = amount
           ELSE call.method = "transfer_all"
    BY <1>2 DEF IsSubmitted, IsOrdered
  <2> HIDE DEF call, account, held
  <2>2. Moves(call, held) \in {held, amount}
    BY <2>1 DEF Moves
  <2>3. amount \in Nat /\ held \in Nat
    BY <1>3, BoundsAreNatural DEF Balance
  <2> QED BY <2>2, <2>3
<1>5. left \in 0..MaxFunds
  <2> HIDE DEF call, account, held
  <2> QED BY <1>1, <1>3, <1>4, BoundsAreNatural
<1> HIDE DEF left, account
<1> QED BY <1>1, <1>3, <1>5

LEMMA RangesStep ==
    ASSUME PaymentInv, [Next]_vars
    PROVE  RangesOK'
<1>1. RangesOK
  BY DEF PaymentInv
<1>2. ASSUME UNCHANGED <<stopping, height, funds, boots, derived>>
      PROVE  RangesOK'
  BY <1>1, <1>2 DEF RangesOK
<1>3. ASSUME NEW o \in Orders, CreateOrder(o) \/ OrderPaid(o) \/ TaskStep(o)
      PROVE  RangesOK'
  <2>1. UNCHANGED <<stopping, height, funds, boots, derived>>
    BY <1>3 DEF CreateOrder, OrderPaid, TaskStep, GivesUp, ConnectClient,
                BlockHash, BlockNumber, Decide, NoBalance, AskSigner,
                GetSignature, SendStuff, Continues, chainVars, setVars
  <2> QED BY <1>2, <2>1
<1>4. ASSUME NEW price \in Prices, NEW of \in Currencies,
             AccountDerived(price, of)
      PROVE  RangesOK'
  <2> DEFINE account == answer[Handler].by
  <2>1. /\ UNCHANGED <<stopping, height, funds, boots>>
        /\ derived' \subseteq derived \cup {<<account, recipient>>}
        /\ answer[Handler].type = "public"
    BY <1>4 DEF AccountDerived, chainVars, setVars
  <2>2. recipient \in Recipients /\ \E id \in Orders : account = <<recipient, id>>
    BY <2>1 DEF PaymentInv, PayoutInv, SignerOK
  <2> HIDE DEF account
  <2>3. <<account, recipient>> \in Pairs \X Recipients
    BY <2>2 DEF Pairs, derivations
  <2> QED BY <1>1, <2>1, <2>3 DEF RangesOK
<1>5. CASE StopSigner
  BY <1>1, <1>5 DEF StopSigner, chainVars, setVars, RangesOK
<1>6. CASE NewBlock
  <2>1. height' \in 0..MaxHeight
    BY <1>1, <1>6, BoundsAreNatural DEF NewBlock, RangesOK
  <2> QED BY <1>1, <1>6, <2>1 DEF NewBlock, daemonVars, setVars, RangesOK
<1>7. ASSUME NEW account \in Pairs, NEW of \in Currencies,
             NEW units \in Deposits, Customer(account, of, units)
      PROVE  RangesOK'
  <2>1. /\ funds' = [funds EXCEPT ![account][of] = funds[account][of] + units]
        /\ funds[account][of] + units <= MaxFunds
    BY <1>7 DEF Customer
  <2>2. /\ units \in Nat /\ MaxFunds \in Nat
        /\ funds[account][of] \in 0..MaxFunds
    BY <1>1, DepositsAreUnits, BoundsAreNatural DEF RangesOK
  <2>3. funds[account][of] + units \in 0..MaxFunds
    BY <2>1, <2>2
  <2>4. funds' \in [Pairs -> [Currencies -> 0..MaxFunds]]
    BY <1>1, <2>1, <2>3 DEF RangesOK
  <2> QED BY <1>1, <1>7, <2>4 DEF Customer, daemonVars, setVars, RangesOK
<1>8. ASSUME NEW x \in pool, Execute(x) PROVE RangesOK'
  <2>1. PICK of \in Currencies : ExecuteIn(x, of)
    BY <1>8 DEF Execute
  <2>2. funds' \in [Pairs -> [Currencies -> 0..MaxFunds]]
    BY <2>1, ExecutedInRange
  <2> QED BY <1>1, <2>1, <2>2 DEF ExecuteIn, daemonVars, setVars, RangesOK
<1>9. ASSUME NEW saved, Restart(saved) PROVE RangesOK'
  <2>1. boots' \in 1..MaxBoots
    BY <1>1, <1>9, BoundsAreNatural DEF Restart, RangesOK
  <2> QED BY <1>1, <1>9, <2>1 DEF Restart, chainVars, RangesOK
<1>10. CASE \/ UNCHANGED vars \/ OrderRefused
            \/ SignerStep /\ UNCHANGED <<daemonVars, chainVars, setVars, derived>>
            \/ \E x \in pool : Forget(x)
  BY <1>2, <1>10 DEF vars, daemonVars, chainVars, setVars, OrderRefused, Forget
<1> QED BY <1>3, <1>4, <1>5, <1>6, <1>7, <1>8, <1>9, <1>10 DEF Next

LEMMA PaymentAlways == Spec => []PaymentInv
<1>1. PaymentInv /\ [Next]_vars => PaymentInv'
  BY InvStep, RecordsStep, ProgressesStep, SubmittedStep, ChannelStep,
     RangesStep DEF PaymentInv
<1> QED BY <1>1, PaymentInit, PTL DEF Spec

(* The variables stay in their types: the units on an account are never    *)
(* negative, whatever transfers are executed, and a request is answered to *)
(* a client there is (payout.rs, signer.rs, state.rs).                     *)
THEOREM TypeCorrect == Spec => []TypeOK
<1>1. PaymentInv => TypeOK
  <2> SUFFICES ASSUME PaymentInv PROVE TypeOK
    OBVIOUS
  <2>1. SignerTypeOK
    <3>1. PICK S : signerQ \in Seq(S) /\ \A request \in S : RequestOK(request)
      BY DEF PaymentInv, PayoutInv, SignerOK
    <3>2. \A k \in DOMAIN signerQ : RequestOK(signerQ[k])
      BY <3>1
    <3>3. \A k \in DOMAIN signerQ :
             \/ signerQ[k] = ShutdownRequest
             \/ signerQ[k].id \in Orders /\ signerQ[k].from \in Clients
      BY <3>2 DEF RequestOK, Clients
    <3> QED BY <3>3 DEF SignerTypeOK, PaymentInv, PayoutInv, SignerOK, ChannelOK
  <2>2. ASSUME NEW o \in Orders
        PROVE  /\ orders[o] = NewOrder
                  \/ /\ orders[o].state \in {"pending", "paid"}
                     /\ orders[o].account \in Pairs /\ orders[o].price \in Prices
                     /\ orders[o].currency \in Currencies
               /\ task[o].pc \in Running \cup Ends \cup {"none"}
               /\ task[o] # NoTask => /\ orders[o].state = "paid"
                                      /\ task[o].block \in 0..MaxHeight
                                      /\ task[o].seen \in 0..MaxFunds
    <3>1. IsRecord(orders[o])
      BY DEF PaymentInv, RecordsOK
    <3>2. IsProgress(task[o], orders[o], orders[o].currency, recipient)
      BY DEF PaymentInv, ProgressesOK
    <3>3. task[o] = NoTask => task[o].pc = "none"
      BY DEF NoTask
    <3> QED BY <3>1, <3>2, <3>3 DEF IsRecord, IsProgress, Accepted
  <2>3. nonce \in [Pairs -> Nat]
    BY DEF PaymentInv, PayoutInv, NoncesOK
  <2>4. \A x \in pool : x.transaction.author \in Pairs
    BY DEF PaymentInv, SubmittedOK, IsSubmitted
  <2>5. /\ transfers \subseteq Pairs \X Recipients
        /\ derived \subseteq Pairs \X Recipients
    BY DEF PaymentInv, PayoutInv, PaidToOwner, RangesOK
  <2> QED BY <2>1, <2>2, <2>3, <2>4, <2>5
          DEF TypeOK, PaymentInv, PayoutInv, OrdersOK, RangesOK
<1> QED BY <1>1, PaymentAlways, PTL

(* What is signed and sent for an order is one mortal transfer in its      *)
(* currency, from its account to the recipient, of all there is or of the  *)
(* amount of an asset (payout.rs:52-96): for every runtime where the names *)
(* mean what they usually do, whose calls cannot be completed but by what  *)
(* the daemon fills in and whose type of eras it knows.                    *)
THEOREM SentAsOrdered == Spec => []SentIsAsOrdered
<1>1. PaymentInv => SentIsAsOrdered
  <2> SUFFICES ASSUME PaymentInv, NEW o \in Orders,
                      task[o].pc \in {"signed", "sent"}
               PROVE  LET t == task[o].transaction
                          calls == BatchedCalls(t.call)
                      IN  /\ t.author = orders[o].account /\ t.era = "mortal"
                          /\ t.number = t.block
                          /\ Len(calls) = 1 /\ IsTransfer(calls[1])
                          /\ InCurrency(calls[1], orders[o].currency)
                          /\ Destination(calls[1]) = recipient
                          /\ Moves(calls[1], task[o].seen) =
                                IF orders[o].currency.kind = "Asset"
                                THEN Amount(o) ELSE task[o].seen
    BY DEF SentIsAsOrdered
  <2> DEFINE t == task[o].transaction
             call == BatchedCalls(t.call)[1]
  <2>1. /\ task[o] # NoTask
        /\ IsProgress(task[o], orders[o], orders[o].currency, recipient)
    BY ProgressUnderWay
  <2>2. /\ t.author = orders[o].account
        /\ AsOrdered(t, orders[o], orders[o].currency, recipient)
    BY <2>1 DEF IsProgress, IsDecided
  <2>3. /\ t.era = "mortal" /\ t.number = t.block
        /\ IsOrdered(t.call, orders[o].currency, recipient, Amount(o))
    BY <2>2, AmountIsAsked DEF AsOrdered
  <2>4. Moves(call, task[o].seen) = IF orders[o].currency.kind = "Asset"
                                    THEN Amount(o) ELSE task[o].seen
    BY <2>3 DEF IsOrdered, Moves
  <2> HIDE DEF t
  <2> QED BY <2>2, <2>3, <2>4 DEF IsOrdered, t
<1> QED BY <1>1, PaymentAlways, PTL

-----------------------------------------------------------------------------
(* The window.                                                             *)

(* The wrapped surplus is small only if the true one is.                   *)
LEMMA PaysIfInRange ==
    ASSUME NEW held \in 0..MaxFunds, NEW asked \in Nat,
           asked < 2^(MantissaBits - 2)
    PROVE  Decision(held, asked) = "pay" <=> held - asked \in 0..LossTolerance
<1> DEFINE all == 2^BalanceBits
           most == 2^(MantissaBits - 2)
<1>1. /\ all \in Int /\ most \in Int /\ LossTolerance \in Nat
      /\ most + LossTolerance <= all /\ asked < most
      /\ MaxFunds \in Nat /\ MaxFunds < all
  BY BitsArePositive, WindowIsInRange, BalancesOutrangeFloats, BoundsAreNatural
<1>2. Decision(held, asked) = "pay" <=> (held - asked) % all <= LossTolerance
  BY DEF Decision, Surplus
<1> HIDE DEF all, most
<1>3. (held - asked) % all = IF held >= asked THEN held - asked
                                              ELSE held - asked + all
  BY <1>1
<1> QED BY <1>1, <1>2, <1>3

(* A price that a float holds exactly is paid out exactly if the account   *)
(* held it, or more by the tolerance, at the block looked at: neither the  *)
(* wrap of the subtraction nor a later price of the order changes that     *)
(* (payout.rs:44-50, 98-102).                                              *)
THEOREM WindowIsKept == Spec => []PaysInWindow
<1>1. PaymentInv => PaysInWindow
  <2> SUFFICES ASSUME PaymentInv, NEW o \in Orders,
                      task[o].pc \in {"built", "signing", "signed", "sent"}
                                       \cup Refusals,
                      Distinguished(orders[o].price, orders[o].currency.decimals)
               PROVE  task[o].pc \notin Refusals <=>
                         task[o].seen - ExactUnits(orders[o].price,
                                                   orders[o].currency.decimals)
                           \in 0..LossTolerance
    BY DEF PaysInWindow
  <2> DEFINE exact == ExactUnits(orders[o].price, orders[o].currency.decimals)
             asked == AskedFor(orders[o], orders[o].currency)
  <2>1. /\ task[o] # NoTask /\ orders[o].price \in Accepted
        /\ orders[o].currency \in Currencies
        /\ IsProgress(task[o], orders[o], orders[o].currency, recipient)
    BY ProgressUnderWay DEF Refusals
  <2>2. /\ task[o].seen \in 0..MaxFunds
        /\ task[o].pc \notin Refusals => Decision(task[o].seen, asked) = "pay"
        /\ task[o].pc \in Refusals => Decision(task[o].seen, asked) # "pay"
    BY <2>1 DEF IsProgress, IsDecided, Refusals
  <2>3. asked = exact
    BY Zenon, <2>1, DistinguishedAreExact DEF AskedFor
  <2>4. asked \in Nat
    <3>1. asked \in Balance
      BY <2>1, AskedIsBalance
    <3> QED BY <3>1, BitsArePositive DEF Balance
  <2>5. exact < 2^(MantissaBits - 2)
    BY DEF Distinguished
  <2> HIDE DEF exact, asked
  <2>6. Decision(task[o].seen, asked) = "pay" <=>
           task[o].seen - exact \in 0..LossTolerance
    BY <2>2, <2>3, <2>4, <2>5, PaysIfInRange
  <2>7. task[o].pc \notin Refusals <=>
           task[o].seen - exact \in 0..LossTolerance
    BY <2>2, <2>6
  <2> QED BY <2>7 DEF exact
<1> QED BY <1>1, PaymentAlways, PTL
=============================================================================
