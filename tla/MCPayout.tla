------------------------------ MODULE MCPayout ------------------------------
(* Instance of Payout for TLC.                                             *)
EXTENDS Payout

CONSTANTS order, alice, bob

Price(digits, scale) == [digits |-> digits, scale |-> scale]
MCPrices == {Price(7, 2), Price(3, 1)}

MCCurrencies ==
    {[kind |-> "Native", asset_id |-> Unfilled, decimals |-> 2],
     [kind |-> "Asset", asset_id |-> 1337, decimals |-> 1]}

Method(name, fields) == [name |-> name, fields |-> fields]
Pallet(name, methods) == [name |-> name, methods |-> methods]
Entry(name, kind) == [name |-> name, kind |-> kind]

System == Pallet("System", <<Method("remark", [remark |-> "bytes"])>>)
Balances ==
    Pallet("Balances",
      <<Method("transfer_allow_death",
               [dest |-> "address", value |-> "compact_balance"]),
        Method("transfer_keep_alive",
               [dest |-> "address", value |-> "compact_balance"]),
        Method("transfer_all", [dest |-> "address", keep_alive |-> "bool"])>>)
Assets ==
    Pallet("Assets",
      <<Method("create", [id |-> "compact_u32", admin |-> "address",
                          min_balance |-> "balance"]),
        Method("transfer", [id |-> "compact_u32", target |-> "address",
                            amount |-> "compact_balance"])>>)
Utility ==
    Pallet("Utility", <<Method("batch", [calls |-> "calls"]),
                        Method("batch_all", [calls |-> "calls"])>>)

Storage(pallet, entries) == [name |-> pallet, entries |-> entries]
SystemStorage ==
    Storage("System", <<Entry("Account", "account"), Entry("Number", "plain")>>)
AssetsStorage ==
    Storage("Assets", <<Entry("Asset", "asset"),
                        Entry("Account", "asset_and_account")>>)

AssetHub ==
    [calls |-> <<System, Balances, Assets, Utility>>,
     storage |-> <<SystemStorage, AssetsStorage>>,
     author |-> "address", era |-> "composite"]

(* Other runtimes lack a pallet or a method, or have other types.          *)
MCRuntimes ==
    [asset_hub |-> AssetHub,
     relay     |-> [AssetHub EXCEPT
                      !.calls = <<System, [Balances EXCEPT
                                    !.methods = SubSeq(@, 1, 2)], Utility>>,
                      !.storage = <<SystemStorage>>],
     unbatched |-> [AssetHub EXCEPT !.calls = <<System, Balances, Assets>>],
     plain     |-> [AssetHub EXCEPT
                      !.author = "account", !.era = "era",
                      !.calls[3].methods[2].fields["target"] = "account"],
     evm       |-> [AssetHub EXCEPT !.author = "h160"]]

(* Which of the recipients is the first is all the same.                   *)
MCInit == recipient = alice /\ Init
MCSpec == MCInit /\ [][Next]_vars /\ Fairness
=============================================================================
