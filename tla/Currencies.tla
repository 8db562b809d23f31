----------------------------- MODULE Currencies -----------------------------
(***************************************************************************)
(* How a currency of the config becomes one that orders can be made in:    *)
(* ChainManager::ignite (chain/mod.rs) builds its two routing maps and     *)
(* starts a tracker per chain; each tracker reads the assets of its        *)
(* network (chain/rpc.rs), keeps the requested ones and reports them to    *)
(* the State Handler (chain/tracker.rs, state.rs); the manager routes the  *)
(* orders' accounts back to the trackers.                                  *)
(***************************************************************************)
EXTENDS Specs, FiniteSets, Functions

CONSTANTS
    Configs,    \* lists of chains: [name, endpoints, native, asset]
    Networks,   \* what is served, by spec name: [prefix, nodes, assets], the
                \* metadata's constant and each node's system_properties
    MaxReports  \* bound on the reports in the State Handler's channel

ASSUME MaxReportsIsNatural == MaxReports \in Nat

Chain == [name : STRING, endpoints : Nat,
          native : {None} \cup [name : STRING, decimals : 0..MaxU8],
          asset : Seq([name : STRING, id : Nat])]

ASSUME ConfigsAreLists == Configs \subseteq Seq(Chain)

(* What the chain stores of an asset; no symbol is one that is not UTF-8.  *)
(* A JSON number is one that has a u64: others count as no number.         *)
OnChainAsset == [id : Nat, symbol : STRING \cup {None}, decimals : 0..MaxU8,
                 sufficient : BOOLEAN]
IsJson(json) == json.type = "number" => json.value \in Nat

ASSUME NetworksAnswer ==
    \A net \in DOMAIN Networks :
        /\ Networks[net].assets \in Seq(OnChainAsset)
        /\ IsJson(Networks[net].prefix)
        /\ \A node \in Networks[net].nodes : node.type = "object" =>
              /\ IsJson(node.value.ss58Format)
              /\ IsJson(Single(node.value.tokenDecimals))

ASSUME NoneIsNoValue ==
    None \notin Nat \cup [name : STRING, decimals : 0..MaxU8]

VARIABLES
    config,        \* the parsed `chain` entries
    next,          \* the entry ignite looks at
    outcome,       \* ignite's: "going", "ok", an error; later "stopped"
    watch_chain,   \* the manager's: chain name -> tracker
    currency_map,  \* the manager's: currency -> chain name
    trackers,      \* each entry's tracker: [state, specs, assets], of the
                   \* last endpoint "refused" or reported ("connected")
    reports,       \* ConnectChain requests in the State Handler's channel
    supported,     \* StateData's currencies
    watching,      \* currencies of the accounts each tracker was handed
    told           \* trackers the manager sent a Shutdown

vars == <<config, next, outcome, watch_chain, currency_map, trackers, reports,
          supported, watching, told>>

Entries == DOMAIN config
Slots == UNION {DOMAIN chains : chains \in Configs}
NoMap == [x \in {} |-> x]

(* The entries of `added` take the place of those the map has.             *)
Extended(map, added) ==
    [x \in DOMAIN map \cup DOMAIN added |->
       IF x \in DOMAIN added THEN added[x] ELSE map[x]]

Tracker(state, short, assets) ==
    [state |-> state, specs |-> short, assets |-> assets]

-----------------------------------------------------------------------------
(* What a node's answers amount to.  The keys of the Assets pallet come in *)
(* pages; an error, or the end of the allowed pages, silently ends the     *)
(* list, the first request has the block hash where the node expects the   *)
(* start key, so that it may find nothing, and a key whose value is not    *)
(* there is passed over.                                                   *)
Listings(net) ==
    LET assets == Networks[net].assets
    IN  {Restrict(assets, found) : found \in SUBSET DOMAIN assets}

CurrencyProperties(net, kind, id, places, prefix) ==
    [chain_name |-> net, kind |-> kind, asset_id |-> id, decimals |-> places,
     ss58 |-> prefix]

(* One entry per symbol, the last sufficient asset found under it; the     *)
(* native token's is made first.                                           *)
assets_set_at_block(net, short, listing) ==
    LET Found == {k \in DOMAIN listing : /\ listing[k].sufficient
                                         /\ listing[k].symbol # None}
        Under(symbol) == {k \in Found : listing[k].symbol = symbol}
        Latest(symbol) == CHOOSE k \in Under(symbol) :
                            \A other \in Under(symbol) : other <= k
    IN  [symbol \in {short.unit} \cup {listing[k].symbol : k \in Found} |->
           IF Under(symbol) = {}
           THEN CurrencyProperties(net, "Native", None, short.decimals,
                                   short.base58prefix)
           ELSE LET asset == listing[Latest(symbol)]
                IN  CurrencyProperties(net, "Asset", asset.id, asset.decimals,
                                       short.base58prefix)]

(* By network, what its nodes may offer, and those that list all assets.   *)
OffersOf(net, listings) ==
    {[specs |-> short, assets |-> assets_set_at_block(net, short, listing)] :
       short \in {specs(node, Networks[net].prefix) :
                     node \in Networks[net].nodes} \ {None},
       listing \in listings}

Offers == [net \in DOMAIN Networks |-> OffersOf(net, Listings(net))]
FullOffers ==
    [net \in DOMAIN Networks |-> OffersOf(net, {Networks[net].assets})]

(* Mutant: an asset is recognised by its symbol alone.                     *)
Wanted_bySymbol(chain, short, name, properties) ==
    IF chain.native # None
    THEN chain.native.name = name
           /\ chain.native.decimals = short.decimals
    ELSE \E k \in DOMAIN chain.asset : chain.asset[k].name = name

(* "Remove unwanted assets".                                               *)
Wanted(chain, short, name, properties) ==
    IF chain.native # None
    THEN chain.native.name = name
           /\ chain.native.decimals = short.decimals
    ELSE \E k \in DOMAIN chain.asset :
            /\ chain.asset[k].name = name
            /\ chain.asset[k].id = properties.asset_id

Retained(chain, short, assets) ==
    RestrictDomain(assets,
                   LAMBDA name : Wanted(chain, short, name, assets[name]))

(* Mutant: a native token is always counted.                               *)
RequestedCount_plusNative(chain) == Len(chain.asset) + 1

RequestedCount(chain) ==
    Len(chain.asset) + IF chain.native = None THEN 0 ELSE 1

AssetsInvalid(chain, assets) ==
    Cardinality(DOMAIN assets) # RequestedCount(chain)

-----------------------------------------------------------------------------
Init ==
    /\ config \in Configs
    /\ next = 1 /\ outcome = "going"
    /\ watch_chain = NoMap /\ currency_map = NoMap
    /\ trackers = [i \in Entries |-> Tracker("none", None, NoMap)]
    /\ reports = <<>> /\ supported = NoMap
    /\ watching = [i \in Entries |-> {}]
    /\ told = {}

NamesOf(chain) ==
    (IF chain.native = None THEN <<>> ELSE <<chain.native.name>>)
      \o [k \in DOMAIN chain.asset |-> chain.asset[k].name]

Duplicate(chain) ==
    LET names == NamesOf(chain)
    IN  \/ \E k \in DOMAIN names : names[k] \in DOMAIN currency_map
        \/ \E j, k \in DOMAIN names : j # k /\ names[j] = names[k]

Ignites == outcome = "going" /\ next <= Len(config)

Refuses(error) ==
    /\ outcome' = error
    /\ UNCHANGED <<config, next, watch_chain, currency_map, trackers, reports,
                   supported, watching, told>>

EmptyEndpoints ==
    Ignites /\ config[next].endpoints = 0 /\ Refuses("EmptyEndpoints")

DuplicateCurrency ==
    /\ Ignites /\ config[next].endpoints > 0 /\ Duplicate(config[next])
    /\ Refuses("DuplicateCurrency")

(* Mutant: the native token is not entered in the currency map.            *)
StartChainWatch_assetsOnly ==
    /\ Ignites /\ config[next].endpoints > 0 /\ ~Duplicate(config[next])
    /\ watch_chain' = Extended(watch_chain, [n \in {config[next].name} |-> next])
    /\ currency_map' = Extended(currency_map,
                          [n \in {config[next].asset[k].name :
                                    k \in DOMAIN config[next].asset}
                             |-> config[next].name])
    /\ trackers' = [trackers EXCEPT ![next].state = "connecting"]
    /\ next' = next + 1
    /\ UNCHANGED <<config, outcome, reports, supported, watching, told>>

(* Mutant: the entry is not put in the list of chains.                     *)
StartChainWatch_unlisted ==
    /\ Ignites /\ config[next].endpoints > 0 /\ ~Duplicate(config[next])
    /\ currency_map' = Extended(currency_map,
                          [n \in Range(NamesOf(config[next])) |->
                             config[next].name])
    /\ trackers' = [trackers EXCEPT ![next].state = "connecting"]
    /\ next' = next + 1
    /\ UNCHANGED <<config, outcome, watch_chain, reports, supported, watching,
                   told>>

(* Mutant: currencies are entered under the name of the first chain.       *)
StartChainWatch_firstChain ==
    /\ Ignites /\ config[next].endpoints > 0 /\ ~Duplicate(config[next])
    /\ watch_chain' = Extended(watch_chain, [n \in {config[next].name} |-> next])
    /\ currency_map' = Extended(currency_map,
                          [n \in Range(NamesOf(config[next])) |->
                             config[1].name])
    /\ trackers' = [trackers EXCEPT ![next].state = "connecting"]
    /\ next' = next + 1
    /\ UNCHANGED <<config, outcome, reports, supported, watching, told>>

(* A second entry of the same name takes the place of the first one.       *)
StartChainWatch ==
    /\ Ignites /\ config[next].endpoints > 0 /\ ~Duplicate(config[next])
    /\ watch_chain' = Extended(watch_chain, [n \in {config[next].name} |-> next])
    /\ currency_map' = Extended(currency_map,
                          [n \in Range(NamesOf(config[next])) |->
                             config[next].name])
    /\ trackers' = [trackers EXCEPT ![next].state = "connecting"]
    /\ next' = next + 1
    /\ UNCHANGED <<config, outcome, reports, supported, watching, told>>

Ignited ==
    /\ outcome = "going" /\ next > Len(config)
    /\ outcome' = "ok"
    /\ UNCHANGED <<config, next, watch_chain, currency_map, trackers, reports,
                   supported, watching, told>>

Ignite == EmptyEndpoints \/ DuplicateCurrency \/ StartChainWatch \/ Ignited

-----------------------------------------------------------------------------
(* The trackers.                                                           *)

Up == outcome \in {"going", "ok", "stopped"}

(* Mutant: a refused endpoint ends the rotation.                           *)
Preparing_once(i) == trackers[i].state = "connecting"

Preparing(i) == trackers[i].state \in {"connecting", "refused"}

(* An endpoint of another network (WrongNetwork), or one whose properties  *)
(* give no specs, is left at once: it makes no offer.                      *)
PrepareChain(i, offer) ==
    LET chain == config[i]
        assets == Retained(chain, offer.specs, offer.assets)
    IN  /\ Up /\ Preparing(i)
        /\ \/ /\ AssetsInvalid(chain, assets)
              /\ trackers' = [trackers EXCEPT
                    ![i] = Tracker("refused", offer.specs, offer.assets)]
              /\ UNCHANGED reports
           \/ /\ ~AssetsInvalid(chain, assets)
              /\ Len(reports) < MaxReports
              /\ trackers' = [trackers EXCEPT
                    ![i] = Tracker("connected", offer.specs, assets)]
              /\ reports' = Append(reports, assets)
        /\ UNCHANGED <<config, next, outcome, watch_chain, currency_map,
                       supported, watching, told>>

Connects(i) ==
    /\ config[i].name \in DOMAIN Networks
    /\ \E offer \in Offers[config[i].name] : PrepareChain(i, offer)

(* Offers of everything the chain asks for.                                *)
Serving(i) ==
    {offer \in IF config[i].name \in DOMAIN Networks
               THEN FullOffers[config[i].name] ELSE {} :
       ~AssetsInvalid(config[i], Retained(config[i], offer.specs, offer.assets))}

ConnectsFully(i) == \E offer \in Serving(i) : PrepareChain(i, offer)

Disconnects(i) ==
    /\ Up /\ trackers[i].state = "connected"
    /\ trackers' = [trackers EXCEPT ![i].state = "connecting"]
    /\ UNCHANGED <<config, next, outcome, watch_chain, currency_map, reports,
                   supported, watching, told>>

(* Told by the manager, or between two endpoints during a shutdown.        *)
Stops(i) ==
    /\ \/ i \in told /\ trackers[i].state # "down"
       \/ outcome = "stopped" /\ trackers[i].state \in {"connecting", "refused"}
    /\ trackers' = [trackers EXCEPT ![i] = Tracker("down", None, NoMap)]
    /\ UNCHANGED <<config, next, outcome, watch_chain, currency_map, reports,
                   supported, watching, told>>

-----------------------------------------------------------------------------
(* The State Handler and the chain manager.                                *)

(* Mutant: currencies are put in place of those of other chains.           *)
update_currencies_replacing ==
    /\ outcome = "ok" /\ reports # <<>>
    /\ supported' = Head(reports)
    /\ reports' = Tail(reports)
    /\ UNCHANGED <<config, next, outcome, watch_chain, currency_map, trackers,
                   watching, told>>

(* It reads its channel once ignite has handed over the manager.           *)
update_currencies ==
    /\ outcome = "ok" /\ reports # <<>>
    /\ supported' = Extended(supported, Head(reports))
    /\ reports' = Tail(reports)
    /\ UNCHANGED <<config, next, outcome, watch_chain, currency_map, trackers,
                   watching, told>>

(* A new order in a supported currency, or a saved one in any: what is not *)
(* in the maps is answered InvalidCurrency.                                *)
Route(currency) ==
    /\ outcome = "ok" /\ currency \in DOMAIN currency_map
    /\ currency_map[currency] \in DOMAIN watch_chain
    /\ LET i == watch_chain[currency_map[currency]]
       IN  watching' = [watching EXCEPT ![i] = @ \cup {currency}]
    /\ UNCHANGED <<config, next, outcome, watch_chain, currency_map, trackers,
                   reports, supported, told>>

Shutdown ==
    /\ outcome = "ok"
    /\ outcome' = "stopped"
    /\ told' = Range(watch_chain)
    /\ UNCHANGED <<config, next, watch_chain, currency_map, trackers, reports,
                   supported, watching>>

Next ==
    \/ Ignite \/ update_currencies \/ Shutdown
    \/ \E i \in Entries : Connects(i) \/ Disconnects(i) \/ Stops(i)
    \/ \E currency \in DOMAIN currency_map : Route(currency)

Spec == Init /\ [][Next]_vars

(* ignite and the State Handler go on; the endpoints of a chain come in    *)
(* turn, again and again one gives its whole list, and the channel has     *)
(* room for who waits.                                                     *)
Fairness ==
    /\ WF_vars(Ignite) /\ WF_vars(update_currencies)
    /\ \A i \in Slots : SF_vars(i \in Entries /\ ConnectsFully(i))

FairSpec == Spec /\ Fairness
-----------------------------------------------------------------------------
Asset == [chain_name : DOMAIN Networks, kind : {"Native", "Asset"},
          asset_id : Nat \cup {None}, decimals : 0..MaxU8, ss58 : 0..MaxU16]
States == {"none", "connecting", "refused", "connected", "down"}
IsMap(f, S) == \A x \in DOMAIN f : f[x] \in S

TypeOK ==
    /\ config \in Configs /\ next \in 1..(Len(config) + 1)
    /\ outcome \in {"going", "ok", "stopped", "EmptyEndpoints",
                    "DuplicateCurrency"}
    /\ IsMap(watch_chain, Entries)
    /\ IsMap(currency_map, DOMAIN watch_chain)
    /\ DOMAIN trackers = Entries /\ DOMAIN watching = Entries
    /\ \A i \in Entries : /\ trackers[i].state \in States
                          /\ IsMap(trackers[i].assets, Asset)
                          /\ trackers[i].assets # NoMap =>
                                trackers[i].specs # None
                          /\ watching[i] \subseteq DOMAIN currency_map
    /\ \A k \in DOMAIN reports : IsMap(reports[k], Asset)
    /\ IsMap(supported, Asset) /\ told \subseteq Entries

Requested(i) == Range(NamesOf(config[i]))
DistinctNames ==
    \A i, j \in Entries : config[i].name = config[j].name => i = j
Mixed(chain) == chain.native # None /\ chain.asset # <<>>

(* "This MUST assert that assets match exactly before reporting it"        *)
(* (tracker.rs:247): a tracker that reported has exactly the currencies    *)
(* its entry asks for, an asset under the id asked for, the native token   *)
(* with the decimals asked for, and addresses with the prefix of the       *)
(* chain's metadata.  (Nothing compares the id for a native token: an      *)
(* asset with its symbol may stand in.)                                    *)
ReportedIsRequested ==
    \A i \in Entries : trackers[i].state = "connected" =>
        LET chain == config[i]
            assets == trackers[i].assets
            prefix == optional_prefix_from_meta(Networks[chain.name].prefix)
        IN  /\ DOMAIN assets = Requested(i)
            /\ chain.native = None => \A k \in DOMAIN chain.asset :
                  assets[chain.asset[k].name].asset_id = chain.asset[k].id
            /\ \A c \in DOMAIN assets :
                  /\ assets[c].kind = "Native" =>
                        assets[c].decimals = chain.native.decimals
                  /\ prefix # None => assets[c].ss58 = prefix

(* An order in a supported currency can be handed to a tracker: the        *)
(* currency is in the manager's maps, under the chain it was reported for. *)
SupportedIsRoutable ==
    \A c \in DOMAIN supported :
        /\ c \in DOMAIN currency_map
        /\ currency_map[c] = supported[c].chain_name
        /\ currency_map[c] \in DOMAIN watch_chain

(* With one entry per chain name, a tracker gets orders in its entry's     *)
(* currencies only.                                                        *)
RoutedToOwner ==
    DistinctNames => \A i \in Entries : watching[i] \subseteq Requested(i)

(* What is requested and not there: an asset under its id, or the native   *)
(* token with its decimals.                                                *)
Missing(i) ==
    \/ /\ config[i].native # None
       /\ \/ config[i].native.name \notin DOMAIN trackers[i].assets
          \/ config[i].native.decimals # trackers[i].specs.decimals
    \/ \E k \in DOMAIN config[i].asset :
          \/ config[i].asset[k].name \notin DOMAIN trackers[i].assets
          \/ trackers[i].assets[config[i].asset[k].name].asset_id
                # config[i].asset[k].id

RefusedIsMissing ==
    \A i \in Entries : trackers[i].state = "refused" => Missing(i)

(* A chain that asks for a native token or for assets is refused only if   *)
(* one of them is missing.                                                 *)
UnmixedIsServed ==
    \A i \in Entries :
        trackers[i].state = "refused" /\ ~Mixed(config[i]) => Missing(i)

(* A currency once supported stays so, from the same chain.                *)
SupportedStays ==
    [][\A c \in DOMAIN supported :
          /\ c \in DOMAIN supported'
          /\ supported'[c].chain_name = supported[c].chain_name]_vars

(* A chain with a node that has everything asked for gets its currencies   *)
(* supported, unless the daemon stops.                                     *)
Serves(i) == ~Mixed(config[i]) /\ Serving(i) # {}

ServedGetsSupported ==
    \A i \in Slots :
        outcome = "ok" /\ i \in Entries /\ Serves(i)
        ~> \/ outcome = "stopped"
           \/ i \in Entries /\ Requested(i) \subseteq DOMAIN supported
=============================================================================
