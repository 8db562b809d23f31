----------------------------- MODULE Extrinsics -----------------------------
(***************************************************************************)
(* Extrinsics and storage queries are built from a runtime's metadata      *)
(* (chain/utils.rs): a template is prepared for its calls, a pallet, a     *)
(* method and fields are looked up by name, and fields of the expected     *)
(* type are filled.  What is not found is passed over without an error.    *)
(*                                                                         *)
(* A runtime has, by name, its pallets' calls and storage entries, in      *)
(* order, as far as the names that are looked up and the first of all.     *)
(***************************************************************************)
EXTENDS Naturals, Sequences

CONSTANT Unfilled   \* a value that is still to be filled in

Has(list, name) == \E k \in DOMAIN list : list[k].name = name

(* The one of that name, for names are unique in a runtime; a selector     *)
(* starts at the first of all.                                             *)
Selected(list, name) ==
    IF Has(list, name)
    THEN list[CHOOSE k \in DOMAIN list : list[k].name = name]
    ELSE list[1]

-----------------------------------------------------------------------------
(* Templates, of the substrate-constructor library: a field is unfilled,   *)
(* or an empty list; who fills it must match its kind.                     *)

Prepared(pallet, method) ==
    [pallet |-> pallet.name, method |-> method.name,
     fields |-> [f \in DOMAIN method.fields |->
                   [kind  |-> method.fields[f],
                    value |-> IF method.fields[f] = "calls" THEN <<>>
                                                            ELSE Unfilled]]]

FillWhere(kinds, value) == [kinds |-> kinds, value |-> value]

Filled(call, filling) ==
    [call EXCEPT !.fields =
       [f \in DOMAIN @ |->
          IF f \in DOMAIN filling /\ @[f].kind \in filling[f].kinds
          THEN [@[f] EXCEPT !.value = filling[f].value]
          ELSE @[f]]]

(* The fields are filled only if pallet and method are there.              *)
Call(runtime, pallet, method, filling) ==
    LET selected == Selected(runtime.calls, pallet)
        found == Has(runtime.calls, pallet) /\ Has(selected.methods, method)
    IN  IF found
        THEN Filled(Prepared(selected, Selected(selected.methods, method)),
                    filling)
        ELSE Prepared(selected, selected.methods[1])

IsComplete(call) ==
    \A f \in DOMAIN call.fields : call.fields[f].value # Unfilled

-----------------------------------------------------------------------------
(* The calls.  An account is filled into an address with a variant Id.     *)

AccountIn(account) == FillWhere({"address"}, account)
BalanceIn(amount) == FillWhere({"balance", "compact_balance"}, amount)

construct_single_asset_transfer_call(runtime, asset_id, amount, to_account) ==
    Call(runtime, "Assets", "transfer",
         [target |-> AccountIn(to_account),
          id     |-> FillWhere({"u32", "compact_u32"}, asset_id),
          amount |-> BalanceIn(amount)])

(* Mutant: the account is cleared by the call that keeps it alive.         *)
construct_single_balance_transfer_call_alive(runtime, amount, to, clearing) ==
    Call(runtime, "Balances", "transfer_keep_alive",
         [dest       |-> AccountIn(to),
          keep_alive |-> FillWhere({"bool"}, FALSE),
          value      |-> BalanceIn(amount)])

construct_single_balance_transfer_call(runtime, amount, to, clearing) ==
    Call(runtime, "Balances",
         IF clearing THEN "transfer_all" ELSE "transfer_keep_alive",
         [dest       |-> AccountIn(to),
          keep_alive |-> FillWhere({"bool"}, FALSE),
          value      |-> BalanceIn(amount)])

construct_batch_call(runtime, call_set) ==
    Call(runtime, "Utility", "batch_all",
         [calls |-> FillWhere({"calls"}, call_set)])

(* Author and era are set where they have one of the shapes looked for;    *)
(* the extensions get the number of the block whose hash they get.         *)
construct_batch_transaction(runtime, author, call_set, block, number, nonce) ==
    [author |-> IF runtime.author \in {"composite", "account", "address"}
                THEN author ELSE Unfilled,
     call   |-> construct_batch_call(runtime, call_set),
     era    |-> IF runtime.era \in {"composite", "era"} THEN "mortal"
                                                        ELSE "immortal",
     block  |-> block,
     number |-> number,
     nonce  |-> nonce]

(* What the library finalizes: the signed payload has no author in it.     *)
Signable(transaction) ==
    /\ IsComplete(transaction.call)
    /\ "calls" \in DOMAIN transaction.call.fields =>
         LET calls == transaction.call.fields["calls"].value
         IN  \A k \in DOMAIN calls : IsComplete(calls[k])

Sendable(transaction) == transaction.author # Unfilled

-----------------------------------------------------------------------------
(* Storage queries: the pallet's entry with a key of the expected kind.    *)

NoQuery == [pallet |-> "none", entry |-> "none", key |-> Unfilled]

(* A plain entry is finalized as it is, any other needs its key.           *)
Query(runtime, pallet, entry, kind, key) ==
    LET selected == Selected(runtime.storage, pallet)
        found == Has(runtime.storage, pallet) /\ Has(selected.entries, entry)
        chosen == IF found THEN Selected(selected.entries, entry)
                           ELSE selected.entries[1]
    IN  IF chosen.kind = "plain" \/ (found /\ chosen.kind = kind)
        THEN [pallet |-> selected.name, entry |-> chosen.name,
              key |-> IF chosen.kind = "plain" THEN Unfilled ELSE key]
        ELSE NoQuery

(* This one alone has errors for what is missing.                          *)
block_number_query(runtime) ==
    IF /\ Has(runtime.storage, "System")
       /\ Has(Selected(runtime.storage, "System").entries, "Number")
    THEN Query(runtime, "System", "Number", "plain", Unfilled)
    ELSE NoQuery

asset_balance_query(runtime, account, asset_id) ==
    Query(runtime, "Assets", "Account", "asset_and_account",
          <<asset_id, account>>)

system_balance_query(runtime, account) ==
    Query(runtime, "System", "Account", "account", account)
=============================================================================
