-------------------------- MODULE Currencies_proofs --------------------------
(***************************************************************************)
(* Proofs about the currencies: a tracker reports exactly what its entry   *)
(* of the config asks for, what is supported can be routed, and orders are *)
(* watched by the tracker that has their currency.                         *)
(***************************************************************************)
EXTENDS Currencies, TLAPS, FiniteSetTheorems, WellFoundedInduction

-----------------------------------------------------------------------------
(* The currencies an entry asks for.                                       *)

LEMMA ElementType ==
    ASSUME NEW S, NEW q \in Seq(S), NEW k \in DOMAIN q
    PROVE  q[k] \in S
OBVIOUS

LEMMA ChainParts ==
    ASSUME NEW chain \in Chain
    PROVE  /\ chain.asset \in Seq([name : STRING, id : Nat])
           /\ \A k \in DOMAIN chain.asset : /\ chain.asset[k].name \in STRING
                                            /\ chain.asset[k].id \in Nat
           /\ chain.native # None =>
                 chain.native \in [name : STRING, decimals : 0..MaxU8]
           /\ RequestedCount(chain) \in Nat
<1>1. chain.asset \in Seq([name : STRING, id : Nat])
  BY DEF Chain
<1>2. \A k \in DOMAIN chain.asset : chain.asset[k] \in [name : STRING, id : Nat]
  BY <1>1, ElementType
<1> QED BY <1>1, <1>2 DEF Chain, RequestedCount

LEMMA NamesParts ==
    ASSUME NEW chain \in Chain
    PROVE  LET names == NamesOf(chain)
           IN  /\ names \in Seq(STRING) /\ Len(names) = RequestedCount(chain)
               /\ chain.native = None =>
                     /\ DOMAIN names = DOMAIN chain.asset
                     /\ \A k \in DOMAIN names : names[k] = chain.asset[k].name
               /\ chain.native # None =>
                     /\ 1 \in DOMAIN names /\ names[1] = chain.native.name
                     /\ \A k \in DOMAIN chain.asset :
                           /\ k + 1 \in DOMAIN names
                           /\ names[k + 1] = chain.asset[k].name
<1> DEFINE ofAssets == [k \in DOMAIN chain.asset |-> chain.asset[k].name]
<1>1. /\ ofAssets \in Seq(STRING) /\ Len(ofAssets) = Len(chain.asset)
      /\ DOMAIN ofAssets = DOMAIN chain.asset
      /\ \A k \in DOMAIN chain.asset : ofAssets[k] = chain.asset[k].name
  <2>1. DOMAIN chain.asset = 1..Len(chain.asset) /\ Len(chain.asset) \in Nat
    BY ChainParts
  <2>2. ofAssets \in [1..Len(chain.asset) -> STRING]
    BY <2>1, ChainParts
  <2>3. ofAssets \in Seq(STRING)
    BY <2>1, <2>2
  <2> QED BY <2>1, <2>2, <2>3
<1>2. CASE chain.native = None
  <2>1. NamesOf(chain) = ofAssets
    BY <1>1, <1>2 DEF NamesOf
  <2>2. RequestedCount(chain) = Len(chain.asset)
    BY <1>2, ChainParts DEF RequestedCount
  <2> HIDE DEF ofAssets
  <2> QED BY <1>1, <1>2, <2>1, <2>2
<1>3. CASE chain.native # None
  <2>1. NamesOf(chain) = <<chain.native.name>> \o ofAssets
    BY <1>3 DEF NamesOf
  <2>2. chain.native.name \in STRING
    BY <1>3, ChainParts
  <2>3. RequestedCount(chain) = Len(chain.asset) + 1
    BY <1>3 DEF RequestedCount
  <2>4. chain.asset \in Seq([name : STRING, id : Nat])
    BY ChainParts
  <2> HIDE DEF ofAssets
  <2>5. /\ NamesOf(chain) \in Seq(STRING)
        /\ Len(NamesOf(chain)) = Len(ofAssets) + 1
        /\ NamesOf(chain)[1] = chain.native.name
        /\ \A k \in 1..Len(ofAssets) : NamesOf(chain)[k + 1] = ofAssets[k]
    BY <1>1, <2>1, <2>2
  <2> QED BY <1>1, <1>3, <2>3, <2>4, <2>5
<1> QED BY <1>2, <1>3

LEMMA RequestedSize ==
    ASSUME NEW chain \in Chain
    PROVE  LET names == NamesOf(chain)
           IN  /\ IsFiniteSet(Range(names))
               /\ Cardinality(Range(names)) \in Nat
               /\ Cardinality(Range(names)) <= RequestedCount(chain)
               /\ (\A j, k \in DOMAIN names : names[j] = names[k] => j = k) =>
                     Cardinality(Range(names)) = RequestedCount(chain)
<1> DEFINE names == NamesOf(chain)
           n == Len(names)
<1>1. names \in Seq(STRING) /\ n = RequestedCount(chain)
  BY NamesParts
<1> HIDE DEF names
<1>2. n \in Nat /\ DOMAIN names = 1..n /\ names = [k \in 1..n |-> names[k]]
  BY <1>1
<1>3. names \in Surjection(1..n, Range(names))
  BY <1>2 DEF Surjection, Range
<1>4. IsFiniteSet(1..n) /\ Cardinality(1..n) = n
  BY <1>2, FS_Interval
<1>5. /\ IsFiniteSet(Range(names)) /\ Cardinality(Range(names)) <= n
      /\ names \in Injection(1..n, Range(names)) =>
            Cardinality(Range(names)) = n
  BY <1>3, <1>4, FS_Surjection
<1>6. (\A j, k \in DOMAIN names : names[j] = names[k] => j = k) =>
         names \in Injection(1..n, Range(names))
  BY <1>2, <1>3 DEF Surjection, Injection, IsInjective
<1> QED BY <1>1, <1>5, <1>6, FS_CardinalityType DEF names

-----------------------------------------------------------------------------
(* What remains of an offer when the unwanted assets are removed.          *)

LEMMA RetainedParts ==
    ASSUME NEW chain, NEW short, NEW assets
    PROVE  LET kept == Retained(chain, short, assets)
           IN  \A c : /\ c \in DOMAIN kept <=>
                            /\ c \in DOMAIN assets
                            /\ Wanted(chain, short, c, assets[c])
                      /\ c \in DOMAIN kept => kept[c] = assets[c]
BY DEF Retained, RestrictDomain, Restrict

LEMMA WantedIsRequested ==
    ASSUME NEW chain \in Chain, NEW short, NEW c, NEW properties,
           Wanted(chain, short, c, properties)
    PROVE  c \in Range(NamesOf(chain))
<1>1. CASE chain.native # None
  BY <1>1, NamesParts DEF Wanted, Range
<1>2. CASE chain.native = None
  BY <1>2, NamesParts DEF Wanted, Range
<1> QED BY <1>1, <1>2

(* As many assets as were asked for are those that were asked for.         *)
LEMMA RetainedIsRequested ==
    ASSUME NEW chain \in Chain, NEW short, NEW assets,
           ~AssetsInvalid(chain, Retained(chain, short, assets))
    PROVE  DOMAIN Retained(chain, short, assets) = Range(NamesOf(chain))
<1> DEFINE kept == DOMAIN Retained(chain, short, assets)
           all == Range(NamesOf(chain))
<1>1. kept \in SUBSET all
  BY RetainedParts, WantedIsRequested
<1>2. Cardinality(kept) = RequestedCount(chain)
  BY DEF AssetsInvalid
<1>3. /\ IsFiniteSet(all) /\ Cardinality(all) \in Nat
      /\ Cardinality(all) <= RequestedCount(chain)
  BY RequestedSize
<1> HIDE DEF kept, all
<1>4. Cardinality(kept) <= Cardinality(all) /\ RequestedCount(chain) \in Nat
  BY <1>1, <1>3, FS_Subset, ChainParts
<1>5. Cardinality(all) = Cardinality(kept)
  BY <1>2, <1>3, <1>4
<1>6. all = kept
  BY <1>1, <1>3, <1>5, FS_Subset
<1> QED BY <1>6 DEF kept, all

(* What a node offers bears the chain's name and prefix, and its native    *)
(* token has the node's decimals and no asset id.                          *)
LEMMA OfferParts ==
    ASSUME NEW net \in DOMAIN Networks, NEW offer \in Offers[net],
           NEW c \in DOMAIN offer.assets
    PROVE  LET prefix == optional_prefix_from_meta(Networks[net].prefix)
           IN  /\ offer.assets[c].chain_name = net
               /\ offer.assets[c].kind = "Native" =>
                     /\ offer.assets[c].asset_id = None
                     /\ offer.assets[c].decimals = offer.specs.decimals
               /\ prefix # None => offer.assets[c].ss58 = prefix
<1> DEFINE from_meta == optional_prefix_from_meta(Networks[net].prefix)
<1>1. offer \in OffersOf(net, Listings(net))
  BY DEF Offers
<1>2. PICK node \in Networks[net].nodes, listing \in Listings(net) :
         LET short == specs(node, Networks[net].prefix)
         IN  /\ short # None
             /\ offer = [specs |-> short,
                         assets |-> assets_set_at_block(net, short, listing)]
  BY <1>1 DEF OffersOf
<1> DEFINE short == specs(node, Networks[net].prefix)
<1>3. short = [base58prefix |-> base58prefix(node.value, from_meta),
               decimals |-> decimals(node.value), unit |-> unit(node.value)]
      /\ base58prefix(node.value, from_meta) # None
  BY <1>2 DEF specs, system_properties_to_short_specs
<1>4. from_meta # None => short.base58prefix = from_meta
  BY <1>3 DEF base58prefix
<1> HIDE DEF short
<1>5. /\ offer.specs = short
      /\ offer.assets = assets_set_at_block(net, short, listing)
  BY <1>2 DEF short
<1>6. PICK kind, id, places :
         /\ kind \in {"Native", "Asset"}
         /\ offer.assets[c] = CurrencyProperties(net, kind, id, places,
                                                 short.base58prefix)
         /\ kind = "Native" => id = None /\ places = short.decimals
  <2> DEFINE Found == {k \in DOMAIN listing : /\ listing[k].sufficient
                                              /\ listing[k].symbol # None}
             Under == {k \in Found : listing[k].symbol = c}
             latest == CHOOSE k \in Under : \A other \in Under : other <= k
  <2>1. offer.assets[c] =
           IF Under = {}
           THEN CurrencyProperties(net, "Native", None, short.decimals,
                                   short.base58prefix)
           ELSE CurrencyProperties(net, "Asset", listing[latest].id,
                                   listing[latest].decimals,
                                   short.base58prefix)
    BY <1>5 DEF assets_set_at_block
  <2> HIDE DEF Under, latest
  <2> QED BY <2>1
<1> QED BY <1>4, <1>5, <1>6 DEF CurrencyProperties

-----------------------------------------------------------------------------
(* The inductive invariant.  The manager's maps hold exactly what the      *)
(* entries handled so far ask for; whatever a tracker connected with, the  *)
(* reports and StateData's currencies were asked for by such an entry; and *)
(* a refused tracker keeps what it was refused for.                        *)

Done == 1..(next - 1)

DistinctCurrencies(chain) ==
    LET names == NamesOf(chain)
    IN  \A j, k \in DOMAIN names : names[j] = names[k] => j = k

(* What a tracker may report of its chain.                                 *)
IsReport(chain, assets) ==
    /\ DOMAIN assets = Range(NamesOf(chain))
    /\ \A c \in DOMAIN assets : assets[c].chain_name = chain.name
    /\ chain.native = None => \A k \in DOMAIN chain.asset :
          assets[chain.asset[k].name].asset_id = chain.asset[k].id
    /\ \A c \in DOMAIN assets :
          LET prefix == optional_prefix_from_meta(Networks[chain.name].prefix)
          IN  /\ assets[c].kind = "Native" =>
                    assets[c].decimals = chain.native.decimals
              /\ prefix # None => assets[c].ss58 = prefix

Shape ==
    /\ config \in Seq(Chain) /\ next \in 1..(Len(config) + 1)
    /\ reports \in Seq(Range(reports))
    /\ DOMAIN trackers = Entries /\ DOMAIN watching = Entries

MapsAreBuilt ==
    /\ \A j \in Done :
          /\ DistinctCurrencies(config[j]) /\ config[j].name \in DOMAIN watch_chain
          /\ \A c \in Requested(j) : /\ c \in DOMAIN currency_map
                                     /\ currency_map[c] = config[j].name
    /\ \A x \in DOMAIN watch_chain :
          watch_chain[x] \in Done /\ config[watch_chain[x]].name = x
    /\ \A c \in DOMAIN currency_map : \E j \in Done : c \in Requested(j)

TrackersAreStarted ==
    /\ told \subseteq Done
    /\ \A i \in Entries : trackers[i].state # "none" => i \in Done

ReportsAreRequested ==
    /\ \A i \in Entries : trackers[i].state = "connected" =>
          IsReport(config[i], trackers[i].assets)
    /\ \A k \in DOMAIN reports : \E j \in Done : IsReport(config[j], reports[k])
    /\ \A c \in DOMAIN supported :
          \E j \in Done : /\ c \in Requested(j)
                          /\ supported[c].chain_name = config[j].name

WatchingIsRouted ==
    \A i \in Entries : \A c \in watching[i] :
        \E j \in Done : c \in Requested(j) /\ config[j].name = config[i].name

RefusalsAreInvalid ==
    \A i \in Entries : trackers[i].state = "refused" =>
        AssetsInvalid(config[i], Retained(config[i], trackers[i].specs,
                                          trackers[i].assets))

RoutingInv == Shape /\ MapsAreBuilt /\ TrackersAreStarted
                /\ ReportsAreRequested /\ WatchingIsRouted /\ RefusalsAreInvalid

LEMMA PreparedIsReport ==
    ASSUME NEW chain \in Chain, DistinctCurrencies(chain),
           chain.name \in DOMAIN Networks, NEW offer \in Offers[chain.name],
           ~AssetsInvalid(chain, Retained(chain, offer.specs, offer.assets))
    PROVE  IsReport(chain, Retained(chain, offer.specs, offer.assets))
<1> DEFINE kept == Retained(chain, offer.specs, offer.assets)
<1>1. DOMAIN kept = Range(NamesOf(chain))
  BY RetainedIsRequested
<1>2. \A c \in DOMAIN kept :
         /\ c \in DOMAIN offer.assets /\ kept[c] = offer.assets[c]
         /\ Wanted(chain, offer.specs, c, kept[c])
  BY RetainedParts
<1> HIDE DEF kept
<1>3. \A c \in DOMAIN kept : kept[c].chain_name = chain.name
  BY <1>2, OfferParts
<1>4. ASSUME chain.native = None, NEW k \in DOMAIN chain.asset
      PROVE  kept[chain.asset[k].name].asset_id = chain.asset[k].id
  <2> DEFINE c == chain.asset[k].name
  <2>1. c \in DOMAIN kept
    BY <1>1, <1>4, NamesParts DEF Range
  <2>2. PICK j \in DOMAIN chain.asset : /\ chain.asset[j].name = c
                                        /\ chain.asset[j].id = kept[c].asset_id
    BY <1>2, <1>4, <2>1 DEF Wanted
  <2>3. j = k
    BY <1>4, <2>2, NamesParts DEF DistinctCurrencies
  <2> QED BY <2>2, <2>3
<1>5. ASSUME NEW c \in DOMAIN kept, kept[c].kind = "Native"
      PROVE  kept[c].decimals = chain.native.decimals
  <2>1. kept[c].asset_id = None /\ kept[c].decimals = offer.specs.decimals
    BY <1>2, <1>5, OfferParts
  <2>2. chain.native # None
    <3>1. SUFFICES ASSUME chain.native = None PROVE FALSE
      OBVIOUS
    <3>2. PICK k \in DOMAIN chain.asset : chain.asset[k].id = kept[c].asset_id
      BY <1>2, <1>5, <3>1 DEF Wanted
    <3> QED BY <2>1, <3>2, ChainParts, NoneIsNoValue
  <2> QED BY <1>2, <1>5, <2>1, <2>2 DEF Wanted
<1>6. ASSUME NEW c \in DOMAIN kept
      PROVE  LET prefix == optional_prefix_from_meta(
                              Networks[chain.name].prefix)
             IN  prefix # None => kept[c].ss58 = prefix
  BY <1>2, <1>6, OfferParts
<1>7. IsReport(chain, kept)
  BY <1>1, <1>3, <1>4, <1>5, <1>6 DEF IsReport
<1> QED BY <1>7 DEF kept

(* A refusal has its reason: where native token and assets are not mixed,  *)
(* an offer of everything asked for keeps as many as were asked for.       *)
LEMMA CompleteIsValid ==
    ASSUME NEW chain \in Chain, DistinctCurrencies(chain), ~Mixed(chain),
           NEW short, NEW assets,
           chain.native # None => /\ chain.native.name \in DOMAIN assets
                                  /\ chain.native.decimals = short.decimals,
           \A k \in DOMAIN chain.asset :
              /\ chain.asset[k].name \in DOMAIN assets
              /\ assets[chain.asset[k].name].asset_id = chain.asset[k].id
    PROVE  ~AssetsInvalid(chain, Retained(chain, short, assets))
<1> DEFINE kept == DOMAIN Retained(chain, short, assets)
           all == Range(NamesOf(chain))
<1>1. kept \subseteq all
  BY RetainedParts, WantedIsRequested
<1>2. all \subseteq kept
  <2>1. CASE chain.native = None
    <3> SUFFICES ASSUME NEW c \in all PROVE c \in kept
      OBVIOUS
    <3>1. PICK k \in DOMAIN chain.asset : c = chain.asset[k].name
      BY <2>1, NamesParts DEF Range
    <3>2. c \in DOMAIN assets /\ Wanted(chain, short, c, assets[c])
      BY <2>1, <3>1 DEF Wanted
    <3> QED BY <3>2, RetainedParts
  <2>2. CASE chain.native # None
    <3>1. chain.asset = <<>>
      BY <2>2 DEF Mixed
    <3>2. Len(NamesOf(chain)) = 1 /\ NamesOf(chain) \in Seq(STRING)
      <4>1. RequestedCount(chain) = 1
        BY <2>2, <3>1 DEF RequestedCount
      <4> QED BY <4>1, NamesParts
    <3>3. all = {chain.native.name}
      BY <2>2, <3>2, NamesParts DEF Range
    <3>4. Wanted(chain, short, chain.native.name, assets[chain.native.name])
      BY <2>2 DEF Wanted
    <3> QED BY <2>2, <3>3, <3>4, RetainedParts
  <2> QED BY <2>1, <2>2
<1>3. Cardinality(all) = RequestedCount(chain)
  BY RequestedSize DEF DistinctCurrencies
<1> QED BY <1>1, <1>2, <1>3 DEF AssetsInvalid

-----------------------------------------------------------------------------

LEMMA EntryType ==
    ASSUME Shape, NEW j \in Entries
    PROVE  config[j] \in Chain
BY ElementType DEF Shape, Entries

LEMMA DoneAreEntries ==
    ASSUME Shape
    PROVE  Done \subseteq Entries /\ Entries = 1..Len(config) /\ Len(config) \in Nat
BY DEF Shape, Done, Entries

(* A sequence stays one when it grows at the back or loses its head.       *)
LEMMA QueueGrows ==
    ASSUME NEW q, q \in Seq(Range(q)), NEW m
    PROVE  Append(q, m) \in Seq(Range(Append(q, m)))
<1>1. q \in Seq(Range(q) \cup {m}) /\ m \in Range(q) \cup {m}
  BY DEF Range
<1>2. Append(q, m) \in Seq(Range(q) \cup {m})
  BY <1>1
<1>3. \A k \in 1..Len(Append(q, m)) : Append(q, m)[k] \in Range(Append(q, m))
  BY <1>2 DEF Range
<1> QED BY <1>2, <1>3

LEMMA QueueShrinks ==
    ASSUME NEW q, q \in Seq(Range(q)), q # <<>>
    PROVE  Tail(q) \in Seq(Range(Tail(q)))
<1> DEFINE rest == Tail(q)
<1>1. rest \in Seq(Range(q))
  OBVIOUS
<1> HIDE DEF rest
<1>2. \A k \in 1..Len(rest) : rest[k] \in Range(rest)
  BY <1>1 DEF Range
<1>3. rest \in Seq(Range(rest))
  BY <1>1, <1>2
<1> QED BY <1>3 DEF rest

(* Nothing the invariant speaks of changes.                                *)
LEMMA RoutingKept ==
    ASSUME RoutingInv,
           UNCHANGED <<config, next, watch_chain, currency_map, trackers,
                       reports, supported, watching, told>>
    PROVE  RoutingInv'
BY DEF RoutingInv, Shape, MapsAreBuilt, TrackersAreStarted,
       ReportsAreRequested, WatchingIsRouted, RefusalsAreInvalid, Done,
       Entries, Requested

(* A tracker's step: ignite's part is left alone.                          *)
LEMMA TrackerRouting ==
    ASSUME RoutingInv, NEW i \in Entries, NEW new,
           new.state # "none" => i \in Done,
           new.state = "connected" => IsReport(config[i], new.assets),
           new.state = "refused" =>
              AssetsInvalid(config[i],
                            Retained(config[i], new.specs, new.assets)),
           trackers' = [trackers EXCEPT ![i] = new],
           reports' \in Seq(Range(reports')),
           \A k \in DOMAIN reports' :
              \E j \in Done : IsReport(config[j], reports'[k]),
           UNCHANGED <<config, next, watch_chain, currency_map, supported,
                       watching, told>>
    PROVE  RoutingInv'
<1>1. Shape /\ Shape' /\ Done' = Done /\ Entries' = Entries
  BY DEF RoutingInv, Shape, Done, Entries
<1>2. \A j \in Entries : trackers'[j] = IF j = i THEN new ELSE trackers[j]
  BY <1>1 DEF Shape
<1>3. MapsAreBuilt' /\ WatchingIsRouted'
  BY <1>1 DEF RoutingInv, MapsAreBuilt, WatchingIsRouted, Requested
<1>4. TrackersAreStarted'
  BY <1>1, <1>2 DEF RoutingInv, TrackersAreStarted
<1>5. ReportsAreRequested'
  BY <1>1, <1>2 DEF RoutingInv, ReportsAreRequested, Requested
<1>6. RefusalsAreInvalid'
  BY <1>1, <1>2 DEF RoutingInv, RefusalsAreInvalid
<1> QED BY <1>1, <1>3, <1>4, <1>5, <1>6 DEF RoutingInv

LEMMA StartRouting ==
    ASSUME RoutingInv, StartChainWatch
    PROVE  RoutingInv'
<1> DEFINE chain == config[next]
           names == NamesOf(chain)
<1>1. /\ next \in Nat \ {0} /\ next <= Len(config) /\ ~Duplicate(chain)
      /\ next' = next + 1 /\ config' = config
      /\ watch_chain' = Extended(watch_chain, [n \in {chain.name} |-> next])
      /\ currency_map' = Extended(currency_map,
                                  [n \in Range(names) |-> chain.name])
      /\ trackers' = [trackers EXCEPT ![next].state = "connecting"]
      /\ UNCHANGED <<reports, supported, watching, told>>
  BY DEF StartChainWatch, Ignites, RoutingInv, Shape
<1>2. Shape /\ next \in Entries /\ next \notin Done /\ Done' = Done \cup {next}
  <2>1. Shape /\ next \in Entries
    BY <1>1, DoneAreEntries DEF RoutingInv
  <2>2. Done = 1..(next - 1) /\ Done' = 1..((next + 1) - 1)
    BY <1>1 DEF Done
  <2>3. next \notin 1..(next - 1) /\ 1..((next + 1) - 1) = 1..(next - 1) \cup {next}
    BY <1>1
  <2> QED BY <2>1, <2>2, <2>3
<1>3. Shape' /\ Entries' = Entries
  BY <1>1 DEF RoutingInv, Shape, Entries
<1>4. \A j \in Entries : Requested(j)' = Requested(j)
  BY <1>1 DEF Requested
<1>5. Requested(next) = Range(names)
  BY DEF Requested
<1>6. /\ DistinctCurrencies(chain)
      /\ \A c \in Range(names) : c \notin DOMAIN currency_map
  BY <1>1 DEF Duplicate, DistinctCurrencies, Range
<1>7. \A j \in Entries : /\ j # next => trackers'[j] = trackers[j]
                         /\ trackers'[next].state = "connecting"
  <2>1. next \in DOMAIN trackers
    BY <1>2 DEF Shape
  <2> QED BY <1>1, <1>2, <2>1 DEF Shape
<1> HIDE DEF names
<1>8. /\ DOMAIN watch_chain' = DOMAIN watch_chain \cup {chain.name}
      /\ watch_chain'[chain.name] = next
      /\ \A x \in DOMAIN watch_chain :
            x # chain.name => watch_chain'[x] = watch_chain[x]
  BY <1>1 DEF Extended
<1>9. /\ DOMAIN currency_map' = DOMAIN currency_map \cup Range(names)
      /\ \A c \in Range(names) : currency_map'[c] = chain.name
      /\ \A c \in DOMAIN currency_map : currency_map'[c] = currency_map[c]
  BY <1>1, <1>6 DEF Extended
<1>10. MapsAreBuilt'
  <2>1. MapsAreBuilt /\ Done \subseteq Entries
    BY <1>2, DoneAreEntries DEF RoutingInv
  <2>2. ASSUME NEW j \in Done'
        PROVE  /\ DistinctCurrencies(config[j])
               /\ config[j].name \in DOMAIN watch_chain'
               /\ \A c \in Requested(j) : /\ c \in DOMAIN currency_map'
                                          /\ currency_map'[c] = config[j].name
    <3>1. CASE j \in Done
      BY <1>8, <1>9, <2>1, <3>1 DEF MapsAreBuilt
    <3>2. CASE j = next
      BY <1>5, <1>6, <1>8, <1>9, <3>2
    <3> QED BY <1>2, <3>1, <3>2
  <2>3. ASSUME NEW x \in DOMAIN watch_chain'
        PROVE  watch_chain'[x] \in Done' /\ config[watch_chain'[x]].name = x
    BY <1>2, <1>8, <2>1 DEF MapsAreBuilt
  <2>4. ASSUME NEW c \in DOMAIN currency_map'
        PROVE  \E j \in Done' : c \in Requested(j)
    BY <1>2, <1>5, <1>9, <2>1 DEF MapsAreBuilt
  <2>5. \A j \in Done' : Requested(j)' = Requested(j)
    BY <1>2, <1>4, <2>1
  <2> QED BY <1>1, <2>2, <2>3, <2>4, <2>5 DEF MapsAreBuilt
<1>11. TrackersAreStarted'
  BY <1>1, <1>2, <1>3, <1>7 DEF RoutingInv, TrackersAreStarted
<1>12. ReportsAreRequested' /\ WatchingIsRouted' /\ RefusalsAreInvalid'
  <2>1. Done \subseteq Entries /\ Done \subseteq Done'
    BY <1>2, DoneAreEntries
  <2>2. ReportsAreRequested'
    BY <1>1, <1>3, <1>4, <1>7, <2>1 DEF RoutingInv, ReportsAreRequested
  <2>3. WatchingIsRouted'
    BY <1>1, <1>3, <1>4, <2>1 DEF RoutingInv, WatchingIsRouted
  <2>4. RefusalsAreInvalid'
    BY <1>1, <1>3, <1>7 DEF RoutingInv, RefusalsAreInvalid
  <2> QED BY <2>2, <2>3, <2>4
<1> QED BY <1>3, <1>10, <1>11, <1>12 DEF RoutingInv

LEMMA PrepareRouting ==
    ASSUME RoutingInv, NEW i \in Entries, Connects(i)
    PROVE  RoutingInv'
<1>1. /\ config[i].name \in DOMAIN Networks /\ config[i] \in Chain
      /\ i \in Done /\ DistinctCurrencies(config[i])
  <2>1. Shape /\ config[i].name \in DOMAIN Networks
    BY DEF RoutingInv, Connects
  <2>2. i \in Done
    BY DEF RoutingInv, TrackersAreStarted, Connects, PrepareChain, Preparing
  <2> QED BY <2>1, <2>2, EntryType DEF RoutingInv, MapsAreBuilt
<1>2. PICK offer \in Offers[config[i].name] : PrepareChain(i, offer)
  BY DEF Connects
<1> DEFINE assets == Retained(config[i], offer.specs, offer.assets)
           refused == Tracker("refused", offer.specs, offer.assets)
           connected == Tracker("connected", offer.specs, assets)
<1>3. UNCHANGED <<config, next, watch_chain, currency_map, supported,
                  watching, told>>
  BY <1>2 DEF PrepareChain
<1>4. CASE /\ AssetsInvalid(config[i], assets) /\ reports' = reports
           /\ trackers' = [trackers EXCEPT ![i] = refused]
  <2>1. /\ refused.state = "refused" /\ refused.specs = offer.specs
        /\ refused.assets = offer.assets
    BY DEF Tracker
  <2>2. \A k \in DOMAIN reports' :
           \E j \in Done : IsReport(config[j], reports'[k])
    BY <1>4 DEF RoutingInv, ReportsAreRequested
  <2>3. reports' \in Seq(Range(reports'))
    BY <1>4 DEF RoutingInv, Shape
  <2> HIDE DEF refused
  <2> QED BY <1>1, <1>3, <1>4, <2>1, <2>2, <2>3, TrackerRouting
<1>5. CASE /\ ~AssetsInvalid(config[i], assets)
           /\ reports' = Append(reports, assets)
           /\ trackers' = [trackers EXCEPT ![i] = connected]
  <2>1. connected.state = "connected" /\ connected.assets = assets
    BY DEF Tracker
  <2>2. IsReport(config[i], assets)
    BY <1>1, <1>5, PreparedIsReport
  <2> HIDE DEF connected, assets
  <2>3. \A k \in DOMAIN reports' :
           \E j \in Done : IsReport(config[j], reports'[k])
    BY <1>1, <1>5, <2>2 DEF RoutingInv, ReportsAreRequested
  <2>4. reports' \in Seq(Range(reports'))
    BY <1>5, QueueGrows DEF RoutingInv, Shape
  <2> QED BY <1>1, <1>3, <1>5, <2>1, <2>2, <2>3, <2>4, TrackerRouting
<1> QED BY <1>2, <1>4, <1>5 DEF PrepareChain

LEMMA TrackerStopsRouting ==
    ASSUME RoutingInv, NEW i \in Entries, Disconnects(i) \/ Stops(i)
    PROVE  RoutingInv'
<1>0. i \in DOMAIN trackers
  BY DEF RoutingInv, Shape
<1>1. /\ reports \in Seq(Range(reports))
      /\ \A k \in DOMAIN reports :
            \E j \in Done : IsReport(config[j], reports[k])
  BY DEF RoutingInv, Shape, ReportsAreRequested
<1>2. CASE Disconnects(i)
  <2> DEFINE new == [trackers[i] EXCEPT !.state = "connecting"]
  <2>1. /\ trackers' = [trackers EXCEPT ![i] = new] /\ i \in Done
        /\ new.state = "connecting"
    BY <1>2 DEF Disconnects, RoutingInv, TrackersAreStarted
  <2> HIDE DEF new
  <2> QED BY <1>1, <1>2, <2>1, TrackerRouting DEF Disconnects
<1>3. CASE Stops(i)
  <2> DEFINE new == Tracker("down", None, NoMap)
  <2>1. /\ trackers' = [trackers EXCEPT ![i] = new] /\ i \in Done
        /\ new.state = "down"
    BY <1>3 DEF Stops, RoutingInv, TrackersAreStarted, Tracker
  <2> HIDE DEF new
  <2> QED BY <1>1, <1>3, <2>1, TrackerRouting DEF Stops
<1> QED BY <1>2, <1>3

LEMMA UpdateRouting ==
    ASSUME RoutingInv, update_currencies
    PROVE  RoutingInv'
<1>1. /\ reports # <<>> /\ reports' = Tail(reports)
      /\ supported' = Extended(supported, Head(reports))
      /\ UNCHANGED <<config, next, watch_chain, currency_map, trackers,
                     watching, told>>
  BY DEF update_currencies
<1>2. /\ Shape' /\ MapsAreBuilt' /\ TrackersAreStarted' /\ WatchingIsRouted'
      /\ RefusalsAreInvalid'
  BY <1>1, QueueShrinks DEF RoutingInv, Shape, MapsAreBuilt,
              TrackersAreStarted, WatchingIsRouted, RefusalsAreInvalid, Done,
              Entries, Requested
<1>3. /\ 1 \in DOMAIN reports /\ Head(reports) = reports[1]
      /\ \A k \in DOMAIN reports' :
            k + 1 \in DOMAIN reports /\ reports'[k] = reports[k + 1]
  BY <1>1 DEF RoutingInv, Shape
<1>4. \A k \in DOMAIN reports' :
         \E j \in Done : IsReport(config[j], reports'[k])
  BY <1>3 DEF RoutingInv, ReportsAreRequested
<1>5. PICK j \in Done : IsReport(config[j], Head(reports))
  BY <1>3 DEF RoutingInv, ReportsAreRequested
<1>6. \A c \in DOMAIN supported' :
         \E m \in Done : /\ c \in Requested(m)
                         /\ supported'[c].chain_name = config[m].name
  <2> SUFFICES ASSUME NEW c \in DOMAIN supported'
               PROVE  \E m \in Done :
                         /\ c \in Requested(m)
                         /\ supported'[c].chain_name = config[m].name
    OBVIOUS
  <2>1. CASE c \in DOMAIN Head(reports)
    BY <1>1, <1>5, <2>1 DEF Extended, IsReport, Requested
  <2>2. CASE c \notin DOMAIN Head(reports)
    BY <1>1, <2>2 DEF Extended, RoutingInv, ReportsAreRequested
  <2> QED BY <2>1, <2>2
<1>7. ReportsAreRequested'
  BY <1>1, <1>4, <1>6 DEF RoutingInv, ReportsAreRequested, Done, Entries,
                          Requested
<1> QED BY <1>2, <1>7 DEF RoutingInv

LEMMA RouteRouting ==
    ASSUME RoutingInv, NEW currency \in DOMAIN currency_map, Route(currency)
    PROVE  RoutingInv'
<1> DEFINE i == watch_chain[currency_map[currency]]
<1>1. /\ currency_map[currency] \in DOMAIN watch_chain
      /\ watching' = [watching EXCEPT ![i] = @ \cup {currency}]
      /\ UNCHANGED <<config, next, watch_chain, currency_map, trackers,
                     reports, supported, told>>
  BY DEF Route
<1>2. /\ Shape' /\ MapsAreBuilt' /\ TrackersAreStarted'
      /\ ReportsAreRequested' /\ RefusalsAreInvalid'
  BY <1>1 DEF RoutingInv, Shape, MapsAreBuilt, TrackersAreStarted,
              ReportsAreRequested, RefusalsAreInvalid, Done, Entries, Requested
<1>3. PICK j \in Done : currency \in Requested(j)
  BY DEF RoutingInv, MapsAreBuilt
<1>4. /\ currency_map[currency] = config[j].name
      /\ config[i].name = config[j].name
  BY <1>1, <1>3 DEF RoutingInv, MapsAreBuilt
<1> HIDE DEF i
<1>5. \A m \in Entries : \A c \in watching'[m] :
         c \in watching[m] \/ (m = i /\ c = currency)
  BY <1>1 DEF RoutingInv, Shape
<1>6. WatchingIsRouted'
  BY <1>1, <1>3, <1>4, <1>5
     DEF RoutingInv, WatchingIsRouted, Done, Entries, Requested
<1> QED BY <1>2, <1>6 DEF RoutingInv

LEMMA RoutingInvariant == Spec => []RoutingInv
<1>1. Init => RoutingInv
  <2> SUFFICES ASSUME Init PROVE RoutingInv
    OBVIOUS
  <2>1. config \in Seq(Chain)
    BY ConfigsAreLists DEF Init
  <2>2. Done = {} /\ next \in 1..(Len(config) + 1)
    BY <2>1 DEF Init, Done
  <2>3. \A i \in Entries : trackers[i].state = "none"
    BY DEF Init, Tracker
  <2>4. DOMAIN watch_chain = {} /\ DOMAIN currency_map = {} /\ DOMAIN supported = {}
    BY DEF Init, NoMap
  <2>5. DOMAIN reports = {}
    BY DEF Init
  <2>6. Shape /\ TrackersAreStarted /\ WatchingIsRouted /\ RefusalsAreInvalid
    BY <2>1, <2>2, <2>3
       DEF Init, Shape, TrackersAreStarted, WatchingIsRouted, RefusalsAreInvalid
  <2>7. MapsAreBuilt /\ ReportsAreRequested
    BY <2>2, <2>3, <2>4, <2>5 DEF MapsAreBuilt, ReportsAreRequested
  <2> QED BY <2>6, <2>7 DEF RoutingInv
<1>2. ASSUME RoutingInv, [Next]_vars PROVE RoutingInv'
  <2>1. CASE EmptyEndpoints \/ DuplicateCurrency \/ Ignited \/ UNCHANGED vars
    BY <1>2, <2>1, RoutingKept
       DEF EmptyEndpoints, DuplicateCurrency, Refuses, Ignited, vars
  <2>2. CASE Shutdown
    <3>1. /\ told' = Range(watch_chain)
          /\ UNCHANGED <<config, next, watch_chain, currency_map, trackers,
                         reports, supported, watching>>
      BY <2>2 DEF Shutdown
    <3>2. told' \subseteq Done
      BY <1>2, <3>1 DEF RoutingInv, MapsAreBuilt, Range
    <3> QED BY <1>2, <3>1, <3>2
            DEF RoutingInv, Shape, MapsAreBuilt, TrackersAreStarted,
                ReportsAreRequested, WatchingIsRouted, RefusalsAreInvalid,
                Done, Entries, Requested
  <2> QED BY <1>2, <2>1, <2>2, StartRouting, UpdateRouting, PrepareRouting,
             TrackerStopsRouting, RouteRouting DEF Next, Ignite
<1> QED BY <1>1, <1>2, PTL DEF Spec

-----------------------------------------------------------------------------

(* A tracker that reports to the State Handler has exactly the currencies  *)
(* its entry of the config asks for, whatever its node lists               *)
(* (prepare_chain, tracker.rs:206-251).                                    *)
THEOREM ReportsMatchConfig == Spec => []ReportedIsRequested
<1>1. RoutingInv => ReportedIsRequested
  <2> SUFFICES ASSUME RoutingInv, NEW i \in Entries,
                      trackers[i].state = "connected",
                      IsReport(config[i], trackers[i].assets)
               PROVE  LET chain == config[i]
                          assets == trackers[i].assets
                          prefix == optional_prefix_from_meta(
                                       Networks[chain.name].prefix)
                      IN  /\ DOMAIN assets = Requested(i)
                          /\ chain.native = None => \A k \in DOMAIN chain.asset :
                                assets[chain.asset[k].name].asset_id
                                  = chain.asset[k].id
                          /\ \A c \in DOMAIN assets :
                                /\ assets[c].kind = "Native" =>
                                      assets[c].decimals = chain.native.decimals
                                /\ prefix # None => assets[c].ss58 = prefix
    BY DEF RoutingInv, ReportsAreRequested, ReportedIsRequested
  <2> QED BY DEF IsReport, Requested
<1> QED BY <1>1, RoutingInvariant, PTL

(* Every currency the daemon reports as supported has a tracker behind it: *)
(* the manager's two maps lead from it to the chain it was reported for    *)
(* (chain/mod.rs:53-75 and 96).                                            *)
THEOREM SupportedHasTracker == Spec => []SupportedIsRoutable
<1>1. RoutingInv => SupportedIsRoutable
  <2> SUFFICES ASSUME RoutingInv, NEW c \in DOMAIN supported
               PROVE  /\ c \in DOMAIN currency_map
                      /\ currency_map[c] = supported[c].chain_name
                      /\ currency_map[c] \in DOMAIN watch_chain
    BY DEF SupportedIsRoutable
  <2>1. PICK j \in Done : /\ c \in Requested(j)
                          /\ supported[c].chain_name = config[j].name
    BY DEF RoutingInv, ReportsAreRequested
  <2> QED BY <2>1 DEF RoutingInv, MapsAreBuilt
<1> QED BY <1>1, RoutingInvariant, PTL

(* Where the config names every chain once, a tracker watches accounts in  *)
(* the currencies of its own entry only.                                   *)
THEOREM OrdersReachOwner == Spec => []RoutedToOwner
<1>1. RoutingInv => RoutedToOwner
  <2> SUFFICES ASSUME RoutingInv, DistinctNames, NEW i \in Entries,
                      NEW c \in watching[i]
               PROVE  c \in Requested(i)
    BY DEF RoutedToOwner
  <2>1. PICK j \in Done : c \in Requested(j) /\ config[j].name = config[i].name
    BY DEF RoutingInv, WatchingIsRouted
  <2>2. j = i
    BY <2>1, DoneAreEntries DEF RoutingInv, DistinctNames
  <2> QED BY <2>1, <2>2
<1> QED BY <1>1, RoutingInvariant, PTL

(* A chain that asks for its native token or for assets, not for both, is  *)
(* refused only if something it asks for is missing (the count of          *)
(* tracker.rs:240 counts right).                                           *)
THEOREM RefusalHasReason == Spec => []UnmixedIsServed
<1>1. RoutingInv => UnmixedIsServed
  <2> SUFFICES ASSUME RoutingInv, NEW i \in Entries,
                      trackers[i].state = "refused", ~Mixed(config[i]),
                      ~Missing(i)
               PROVE  FALSE
    BY DEF UnmixedIsServed
  <2>1. /\ config[i] \in Chain /\ DistinctCurrencies(config[i])
        /\ AssetsInvalid(config[i], Retained(config[i], trackers[i].specs,
                                             trackers[i].assets))
    BY EntryType DEF RoutingInv, TrackersAreStarted, MapsAreBuilt,
                     RefusalsAreInvalid
  <2>2. /\ config[i].native # None =>
              /\ config[i].native.name \in DOMAIN trackers[i].assets
              /\ config[i].native.decimals = trackers[i].specs.decimals
        /\ \A k \in DOMAIN config[i].asset :
              /\ config[i].asset[k].name \in DOMAIN trackers[i].assets
              /\ trackers[i].assets[config[i].asset[k].name].asset_id
                    = config[i].asset[k].id
    BY DEF Missing
  <2> QED BY <2>1, <2>2, CompleteIsValid
<1> QED BY <1>1, RoutingInvariant, PTL

(* A currency once supported stays so, from the same chain: no other entry *)
(* can have asked for it (chain/mod.rs:67), so that a later report only    *)
(* renews it (update_currencies, state.rs).                                *)
THEOREM SupportLasts == Spec => SupportedStays
<1>1. ASSUME RoutingInv, [Next]_vars
      PROVE  [\A c \in DOMAIN supported :
                 /\ c \in DOMAIN supported'
                 /\ supported'[c].chain_name = supported[c].chain_name]_vars
  <2>1. CASE update_currencies
    <3> SUFFICES ASSUME NEW c \in DOMAIN supported
                 PROVE  /\ c \in DOMAIN supported'
                        /\ supported'[c].chain_name = supported[c].chain_name
      OBVIOUS
    <3>1. supported' = Extended(supported, Head(reports)) /\ reports # <<>>
      BY <2>1 DEF update_currencies
    <3>2. 1 \in DOMAIN reports /\ Head(reports) = reports[1]
      BY <1>1, <3>1 DEF RoutingInv, Shape
    <3>3. PICK j \in Done : IsReport(config[j], Head(reports))
      BY <1>1, <3>2 DEF RoutingInv, ReportsAreRequested
    <3>4. currency_map[c] = supported[c].chain_name
      BY <1>1 DEF RoutingInv, ReportsAreRequested, MapsAreBuilt
    <3>5. CASE c \in DOMAIN Head(reports)
      <4>1. /\ c \in Requested(j)
            /\ Head(reports)[c].chain_name = config[j].name
        BY <3>3, <3>5 DEF IsReport, Requested
      <4>2. currency_map[c] = config[j].name
        BY <1>1, <4>1 DEF RoutingInv, MapsAreBuilt
      <4> QED BY <3>1, <3>4, <3>5, <4>1, <4>2 DEF Extended
    <3>6. CASE c \notin DOMAIN Head(reports)
      BY <3>1, <3>6 DEF Extended
    <3> QED BY <3>5, <3>6
  <2>2. CASE supported' = supported
    BY <2>2
  <2>3. supported' = supported \/ update_currencies
    BY <1>1 DEF Next, Ignite, EmptyEndpoints, DuplicateCurrency, Refuses,
                StartChainWatch, Ignited, Shutdown, Connects, PrepareChain,
                Disconnects, Stops, Route, vars
  <2> QED BY <2>1, <2>2, <2>3
<1> QED BY <1>1, RoutingInvariant, PTL DEF Spec, SupportedStays

-----------------------------------------------------------------------------
(* What a node says is of the types its currencies have.                   *)

LEMMA HasGreatest ==
    ASSUME NEW n \in Nat, NEW S \in SUBSET (1..n), S # {}
    PROVE  \E k \in S : \A other \in S : other <= k
<1> DEFINE below == {n - k : k \in S}
           R == OpToRel(<, Nat)
<1>1. below \subseteq Nat /\ below # {}
  <2>1. \A k \in S : n - k \in Nat
    OBVIOUS
  <2> QED BY <2>1
<1>2. \A x, y \in Nat : x < y => <<x, y>> \in R
  BY DEF OpToRel
<1>3. IsWellFoundedOn(R, Nat)
  BY Zenon, NatLessThanWellFounded
<1> HIDE DEF R
<1>4. PICK x \in below : \A y \in below : ~(<<y, x>> \in R)
  BY <1>1, <1>3, WFMin
<1>5. PICK k \in S : x = n - k
  BY <1>4
<1>6. \A other \in S : n - other \in below
  OBVIOUS
<1> HIDE DEF below
<1>7. \A other \in S : ~(n - other < n - k)
  BY <1>1, <1>2, <1>4, <1>5, <1>6
<1> QED BY <1>5, <1>7

LEMMA FitsInU16 ==
    ASSUME NEW n \in Nat, n <= MaxU16
    PROVE  n \in 0..MaxU16
<1>1. MaxU16 \in Nat
  BY DEF MaxU16
<1> QED BY <1>1

LEMMA SpecsParts ==
    ASSUME NEW net \in DOMAIN Networks, NEW node \in Networks[net].nodes,
           specs(node, Networks[net].prefix) # None
    PROVE  LET short == specs(node, Networks[net].prefix)
           IN  short.decimals \in 0..MaxU8 /\ short.base58prefix \in 0..MaxU16
<1> DEFINE properties == node.value
           from_meta == optional_prefix_from_meta(Networks[net].prefix)
           prefix == base58prefix(properties, from_meta)
           places == decimals(properties)
           short == specs(node, Networks[net].prefix)
<1>1. /\ node.type = "object"
      /\ short = [base58prefix |-> prefix, decimals |-> places,
                  unit |-> unit(properties)]
      /\ prefix # None /\ places # None
  BY DEF specs, system_properties_to_short_specs
<1>2. /\ IsJson(Networks[net].prefix) /\ IsJson(properties.ss58Format)
      /\ IsJson(Single(properties.tokenDecimals))
  BY <1>1, NetworksAnswer
<1>3. places \in 0..MaxU8
  BY <1>1, <1>2 DEF decimals, Fits, IsJson, MaxU8
<1>4. ASSUME NEW json, IsJson(json), Fits(json, MaxU16)
      PROVE  json.value \in 0..MaxU16
  <2>1. json.value \in Nat /\ json.value <= MaxU16
    BY <1>4 DEF IsJson, Fits
  <2> QED BY <2>1, FitsInU16
<1>5. from_meta # None => from_meta \in 0..MaxU16
  BY <1>2, <1>4 DEF optional_prefix_from_meta
<1>6. prefix \in 0..MaxU16
  <2> HIDE DEF from_meta
  <2>1. prefix = IF properties.ss58Format.type = "absent" THEN from_meta
                 ELSE IF /\ Fits(properties.ss58Format, MaxU16)
                         /\ from_meta \in {None, properties.ss58Format.value}
                      THEN properties.ss58Format.value ELSE None
    BY DEF base58prefix
  <2> HIDE DEF prefix, properties
  <2> QED BY <1>1, <1>2, <1>4, <1>5, <2>1
<1> HIDE DEF prefix, places, short
<1> QED BY <1>1, <1>3, <1>6 DEF short

LEMMA ListingTypes ==
    ASSUME NEW net \in DOMAIN Networks, NEW listing \in Listings(net)
    PROVE  /\ DOMAIN listing \subseteq 1..Len(Networks[net].assets)
           /\ \A k \in DOMAIN listing : listing[k] \in OnChainAsset
<1> DEFINE assets == Networks[net].assets
<1>1. assets \in Seq(OnChainAsset) /\ DOMAIN assets = 1..Len(assets)
  BY NetworksAnswer
<1>2. PICK found \in SUBSET DOMAIN assets : listing = Restrict(assets, found)
  BY DEF Listings
<1>3. /\ DOMAIN listing = found
      /\ \A k \in found : listing[k] = assets[k]
  BY <1>2 DEF Restrict
<1>4. \A k \in DOMAIN assets : assets[k] \in OnChainAsset
  BY <1>1, ElementType
<1> QED BY <1>1, <1>2, <1>3, <1>4

LEMMA AssetSetTypes ==
    ASSUME NEW net \in DOMAIN Networks, NEW listing \in Listings(net),
           NEW short, short.decimals \in 0..MaxU8,
           short.base58prefix \in 0..MaxU16
    PROVE  IsMap(assets_set_at_block(net, short, listing), Asset)
<1> DEFINE assets == assets_set_at_block(net, short, listing)
<1> SUFFICES ASSUME NEW symbol \in DOMAIN assets
             PROVE  assets[symbol] \in Asset
  BY DEF IsMap
<1> DEFINE Found == {k \in DOMAIN listing : /\ listing[k].sufficient
                                            /\ listing[k].symbol # None}
           Under == {k \in Found : listing[k].symbol = symbol}
           latest == CHOOSE k \in Under : \A other \in Under : other <= k
<1>1. assets[symbol] =
         IF Under = {}
         THEN CurrencyProperties(net, "Native", None, short.decimals,
                                 short.base58prefix)
         ELSE CurrencyProperties(net, "Asset", listing[latest].id,
                                 listing[latest].decimals, short.base58prefix)
  BY DEF assets_set_at_block
<1>2. CASE Under = {}
  <2> HIDE DEF Under, latest, assets
  <2> QED BY <1>1, <1>2 DEF CurrencyProperties, Asset
<1>3. CASE Under # {}
  <2>1. latest \in Under
    <3>1. /\ DOMAIN listing \subseteq 1..Len(Networks[net].assets)
          /\ Len(Networks[net].assets) \in Nat
      BY ListingTypes, NetworksAnswer
    <3>2. Under \in SUBSET (1..Len(Networks[net].assets))
      BY <3>1
    <3> HIDE DEF Under
    <3> QED BY <1>3, <3>1, <3>2, HasGreatest
  <2>2. listing[latest] \in OnChainAsset
    <3>1. latest \in DOMAIN listing
      BY <2>1
    <3> HIDE DEF latest
    <3> QED BY <3>1, ListingTypes
  <2> HIDE DEF Under, latest, assets
  <2>3. listing[latest].id \in Nat /\ listing[latest].decimals \in 0..MaxU8
    BY <2>2 DEF OnChainAsset
  <2> QED BY <1>1, <1>3, <2>3 DEF CurrencyProperties, Asset
<1> QED BY <1>2, <1>3

LEMMA OfferTypes ==
    ASSUME NEW net \in DOMAIN Networks, NEW offer \in Offers[net]
    PROVE  offer.specs # None /\ IsMap(offer.assets, Asset)
<1>1. offer \in OffersOf(net, Listings(net))
  BY DEF Offers
<1>2. PICK node \in Networks[net].nodes, listing \in Listings(net) :
         LET short == specs(node, Networks[net].prefix)
         IN  /\ short # None
             /\ offer = [specs |-> short,
                         assets |-> assets_set_at_block(net, short, listing)]
  BY <1>1 DEF OffersOf
<1> DEFINE short == specs(node, Networks[net].prefix)
<1>3. short.decimals \in 0..MaxU8 /\ short.base58prefix \in 0..MaxU16
  BY <1>2, SpecsParts
<1>4. /\ short # None /\ offer.specs = short
      /\ offer.assets = assets_set_at_block(net, short, listing)
  BY <1>2
<1> HIDE DEF short
<1> QED BY <1>3, <1>4, AssetSetTypes

-----------------------------------------------------------------------------
(* The types.                                                              *)

TrackerTypes(t) ==
    /\ t.state \in States /\ IsMap(t.assets, Asset)
    /\ t.assets # NoMap => t.specs # None

CurrencyTypes ==
    /\ config \in Configs
    /\ outcome \in {"going", "ok", "stopped", "EmptyEndpoints",
                    "DuplicateCurrency"}
    /\ \A i \in Entries : TrackerTypes(trackers[i])
    /\ \A k \in DOMAIN reports : IsMap(reports[k], Asset)
    /\ IsMap(supported, Asset)

LEMMA TrackerKeepsTypes ==
    ASSUME RoutingInv, CurrencyTypes, NEW i \in Entries, NEW new,
           TrackerTypes(new), trackers' = [trackers EXCEPT ![i] = new],
           \A k \in DOMAIN reports' : IsMap(reports'[k], Asset),
           UNCHANGED <<config, outcome, supported>>
    PROVE  CurrencyTypes'
<1>1. \A j \in Entries : trackers'[j] = IF j = i THEN new ELSE trackers[j]
  BY DEF RoutingInv, Shape
<1>2. Entries' = Entries
  BY DEF Entries
<1>3. \A j \in Entries : TrackerTypes(trackers'[j])
  BY <1>1 DEF CurrencyTypes
<1> QED BY <1>2, <1>3 DEF CurrencyTypes

LEMMA PrepareKeepsTypes ==
    ASSUME RoutingInv, CurrencyTypes, NEW i \in Entries, Connects(i)
    PROVE  CurrencyTypes'
<1>1. PICK offer \in Offers[config[i].name] : PrepareChain(i, offer)
  BY DEF Connects
<1>2. offer.specs # None /\ IsMap(offer.assets, Asset)
  BY OfferTypes DEF Connects
<1> DEFINE assets == Retained(config[i], offer.specs, offer.assets)
<1>3. IsMap(assets, Asset)
  BY <1>2, RetainedParts DEF IsMap
<1>4. UNCHANGED <<config, outcome, supported>>
  BY <1>1 DEF PrepareChain
<1>5. \A k \in DOMAIN reports : IsMap(reports[k], Asset)
  BY DEF CurrencyTypes
<1>6. CASE reports' = reports /\ trackers' = [trackers EXCEPT
                 ![i] = Tracker("refused", offer.specs, offer.assets)]
  <2>1. TrackerTypes(Tracker("refused", offer.specs, offer.assets))
    BY <1>2 DEF TrackerTypes, Tracker, States
  <2> QED BY <1>4, <1>5, <1>6, <2>1, TrackerKeepsTypes
<1>7. CASE reports' = Append(reports, assets) /\ trackers' = [trackers EXCEPT
                 ![i] = Tracker("connected", offer.specs, assets)]
  <2> HIDE DEF assets
  <2>1. TrackerTypes(Tracker("connected", offer.specs, assets))
    BY <1>2, <1>3 DEF TrackerTypes, Tracker, States
  <2>2. \A k \in DOMAIN reports' : IsMap(reports'[k], Asset)
    BY <1>3, <1>5, <1>7 DEF RoutingInv, Shape
  <2> QED BY <1>4, <1>7, <2>1, <2>2, TrackerKeepsTypes
<1> QED BY <1>1, <1>6, <1>7 DEF PrepareChain

LEMMA CurrencyTypesInvariant == Spec => []CurrencyTypes
<1>1. Init => CurrencyTypes
  <2> SUFFICES ASSUME Init PROVE CurrencyTypes
    OBVIOUS
  <2>1. IsMap(NoMap, Asset)
    BY DEF IsMap, NoMap
  <2>2. TrackerTypes(Tracker("none", None, NoMap))
    BY <2>1 DEF TrackerTypes, Tracker, States
  <2>3. \A i \in Entries : TrackerTypes(trackers[i])
    BY <2>2 DEF Init
  <2>4. DOMAIN reports = {}
    BY DEF Init
  <2> QED BY <2>1, <2>3, <2>4 DEF Init, CurrencyTypes
<1>2. ASSUME RoutingInv, CurrencyTypes, [Next]_vars PROVE CurrencyTypes'
  <2> USE <1>2
  <2>1. CASE UNCHANGED <<config, trackers, reports, supported>>
             /\ outcome' \in {outcome, "ok", "stopped", "EmptyEndpoints",
                              "DuplicateCurrency"}
    BY <2>1 DEF CurrencyTypes, Entries
  <2>2. CASE \/ EmptyEndpoints \/ DuplicateCurrency \/ Ignited \/ Shutdown
             \/ UNCHANGED vars
             \/ \E currency \in DOMAIN currency_map : Route(currency)
    BY <2>1, <2>2 DEF EmptyEndpoints, DuplicateCurrency, Refuses, Ignited,
                      Shutdown, Route, vars
  <2>3. CASE StartChainWatch
    <3> DEFINE new == [trackers[next] EXCEPT !.state = "connecting"]
    <3>1. /\ next \in Entries
          /\ trackers' = [trackers EXCEPT ![next] = new]
          /\ UNCHANGED <<config, outcome, reports, supported>>
      <4>1. next \in 1..(Len(config) + 1) /\ next <= Len(config)
        BY <2>3 DEF StartChainWatch, Ignites, RoutingInv, Shape
      <4>2. next \in Entries /\ DOMAIN trackers = Entries
        BY <4>1, DoneAreEntries DEF RoutingInv, Shape
      <4> QED BY <2>3, <4>2 DEF StartChainWatch
    <3>2. TrackerTypes(new)
      BY <3>1 DEF CurrencyTypes, TrackerTypes, States
    <3> HIDE DEF new
    <3> QED BY <3>1, <3>2, TrackerKeepsTypes DEF CurrencyTypes
  <2>4. CASE update_currencies
    <3>1. /\ reports # <<>> /\ reports' = Tail(reports)
          /\ supported' = Extended(supported, Head(reports))
          /\ UNCHANGED <<config, outcome, trackers>>
      BY <2>4 DEF update_currencies
    <3>2. /\ 1 \in DOMAIN reports /\ Head(reports) = reports[1]
          /\ \A k \in DOMAIN reports' :
                k + 1 \in DOMAIN reports /\ reports'[k] = reports[k + 1]
      BY <3>1 DEF RoutingInv, Shape
    <3>3. IsMap(supported', Asset)
      BY <3>1, <3>2 DEF CurrencyTypes, IsMap, Extended
    <3>4. \A k \in DOMAIN reports' : IsMap(reports'[k], Asset)
      BY <3>2 DEF CurrencyTypes
    <3> QED BY <3>1, <3>3, <3>4 DEF CurrencyTypes, Entries
  <2>5. ASSUME NEW i \in Entries, Connects(i) PROVE CurrencyTypes'
    BY <2>5, PrepareKeepsTypes
  <2>6. ASSUME NEW i \in Entries, Disconnects(i) PROVE CurrencyTypes'
    <3> DEFINE new == [trackers[i] EXCEPT !.state = "connecting"]
    <3>1. /\ trackers' = [trackers EXCEPT ![i] = new]
          /\ UNCHANGED <<config, outcome, reports, supported>>
      <4>1. i \in DOMAIN trackers
        BY DEF RoutingInv, Shape
      <4> QED BY <2>6, <4>1 DEF Disconnects
    <3>2. TrackerTypes(new)
      BY DEF CurrencyTypes, TrackerTypes, States
    <3> HIDE DEF new
    <3> QED BY <3>1, <3>2, TrackerKeepsTypes DEF CurrencyTypes
  <2>7. ASSUME NEW i \in Entries, Stops(i) PROVE CurrencyTypes'
    <3>1. /\ trackers' = [trackers EXCEPT ![i] = Tracker("down", None, NoMap)]
          /\ UNCHANGED <<config, outcome, reports, supported>>
      BY <2>7 DEF Stops
    <3>2. TrackerTypes(Tracker("down", None, NoMap))
      BY DEF TrackerTypes, Tracker, States, IsMap, NoMap
    <3> QED BY <3>1, <3>2, TrackerKeepsTypes DEF CurrencyTypes
  <2> QED BY <1>2, <2>2, <2>3, <2>4, <2>5, <2>6, <2>7 DEF Next, Ignite
<1> QED BY <1>1, <1>2, RoutingInvariant, PTL DEF Spec

(* The variables stay in their types: what is reported of an asset fits    *)
(* the widths the code has for it, whatever a node says of itself          *)
(* (chain/utils.rs:913-1189), and the manager's maps lead to trackers      *)
(* there are (chain/mod.rs:53-75).                                         *)
THEOREM TypeCorrect == Spec => []TypeOK
<1>1. RoutingInv /\ CurrencyTypes => TypeOK
  <2> SUFFICES ASSUME RoutingInv, CurrencyTypes PROVE TypeOK
    OBVIOUS
  <2>1. Done \subseteq Entries
    BY DoneAreEntries DEF RoutingInv
  <2>2. IsMap(watch_chain, Entries) /\ told \subseteq Entries
    BY <2>1 DEF RoutingInv, MapsAreBuilt, TrackersAreStarted, IsMap
  <2>3. IsMap(currency_map, DOMAIN watch_chain)
    BY DEF RoutingInv, MapsAreBuilt, IsMap
  <2>4. \A i \in Entries : watching[i] \subseteq DOMAIN currency_map
    BY DEF RoutingInv, MapsAreBuilt, WatchingIsRouted
  <2> QED BY <2>2, <2>3, <2>4
          DEF TypeOK, RoutingInv, Shape, CurrencyTypes, TrackerTypes
<1> QED BY <1>1, RoutingInvariant, CurrencyTypesInvariant, PTL
=============================================================================
