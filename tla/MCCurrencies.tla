---------------------------- MODULE MCCurrencies ----------------------------
(* Instances of Currencies for TLC, after the configs/ directory.          *)
EXTENDS Currencies

ChainOf(name, native, asset) ==
    [name |-> name, endpoints |-> 1, native |-> native, asset |-> asset]
Native(name, places) == [name |-> name, decimals |-> places]
AssetOf(name, id) == [name |-> name, id |-> id]
OnChain(id, symbol, sufficient) ==
    [id |-> id, symbol |-> symbol, decimals |-> 6, sufficient |-> sufficient]

Absent == [type |-> "absent"]
Integer(value) == [type |-> "number", value |-> value]
String(value) == [type |-> "string", value |-> value]
Array(items) == [type |-> "array", items |-> items]
Node(format, places, symbol) ==
    [type |-> "object", value |-> [ss58Format |-> format,
                                   tokenDecimals |-> places,
                                   tokenSymbol |-> symbol]]

Polkadot == ChainOf("polkadot", Native("DOT", 10), <<>>)
Statemint == ChainOf("statemint", None,
                     <<AssetOf("USDC", 1337), AssetOf("USDt", 1984)>>)
Westmint == ChainOf("westmint", Native("WND", 12), <<AssetOf("JOE", 8)>>)

(* Two assets share a symbol, one is not sufficient, one has no readable   *)
(* symbol, one bears the native token's.  One node of the relay chain has  *)
(* other properties; those of statemint have another prefix, or decimals   *)
(* no u8 holds, or several units; westmint's metadata has no prefix.       *)
MCNetworks ==
    [polkadot |-> [prefix |-> Integer(0),
                   nodes |-> {Node(Integer(0), Integer(10), String("DOT")),
                              Node(Absent, Array(<<Integer(12)>>), String("DOT"))},
                   assets |-> <<OnChain(7, "DOT", TRUE)>>],
     statemint |-> [prefix |-> Integer(0),
                    nodes |-> {Node(Absent, Array(<<Integer(10)>>),
                                    Array(<<String("DOT")>>)),
                               Node(Integer(42), Integer(10), String("DOT")),
                               Node(Integer(0), Integer(256), String("DOT")),
                               Node(Integer(0), Integer(10),
                                    Array(<<String("DOT"), String("KSM")>>)),
                               Absent},
                    assets |-> <<OnChain(21, "USDC", TRUE),
                                 OnChain(1337, "USDC", TRUE),
                                 OnChain(5, None, TRUE),
                                 OnChain(1984, "USDt", TRUE),
                                 OnChain(22, "USDt", FALSE)>>],
     westmint |-> [prefix |-> Integer(65536),
                   nodes |-> {Node(Integer(42), Integer(12), String("WND"))},
                   assets |-> <<OnChain(8, "JOE", TRUE)>>]]

MCConfigs ==
    {<<Polkadot, Statemint>>,
     <<[Polkadot EXCEPT !.native.decimals = 12]>>,
     <<Polkadot, [Statemint EXCEPT !.endpoints = 0]>>,
     <<Polkadot, [Statemint EXCEPT !.asset = <<AssetOf("DOT", 7)>>]>>,
     <<[Statemint EXCEPT !.asset = <<AssetOf("USDC", 21), AssetOf("USDC", 1337)>>]>>,
     <<[Statemint EXCEPT !.asset = <<AssetOf("USDC", 1337)>>],
       [Statemint EXCEPT !.asset = <<AssetOf("USDt", 1984)>>]>>,
     <<Westmint>>}

MixedConfigs == {<<Westmint>>}
=============================================================================
