------------------------------ MODULE PriceFeed ------------------------------
(***************************************************************************)
(* The API process's USD price snapshot (pricing/price-feed.ts), its       *)
(* freshness gate, and the sign quote computed from it                     *)
(* (pricing/service.ts).  Prices are whole micro-USD per coin; a poll of   *)
(* CoinGecko that fails leaves the snapshot as it is, which is a stutter.  *)
(* The snapshot is module state: a restarted process starts from the       *)
(* static prices.                                                          *)
(***************************************************************************)
EXTENDS Naturals, FiniteSets, Functions

CONSTANTS
    Coins,         \* accepted coin types (BILLING_ACCEPTED_COIN_TYPES)
    BuiltIn,       \* coin -> price baked into buildRegistry
    UsdPrices,     \* coin -> static price (BILLING_USD_PRICES)
    GeckoIds,      \* coins the feed is polled for (BILLING_COINGECKO_IDS)
    Quotes,        \* prices CoinGecko may answer
    MaxDeviation,  \* BILLING_PRICE_FEED_MAX_DEVIATION
    MaxAge,        \* BILLING_PRICE_FEED_MAX_AGE_SEC
    Denom,         \* 10^decimals of every coin
    Sui, Ika,      \* the coins a sign is paid in on chain
    FeeSui, FeeIka,\* coordinator's fees for presign and sign
    MaxTime        \* bound: clock

Unpriced == 0      \* no entry in the map

ASSUME PriceAssumption ==
    /\ {Sui, Ika} \subseteq DOMAIN BuiltIn /\ GeckoIds \subseteq Coins
    /\ DOMAIN BuiltIn \subseteq Coins /\ DOMAIN UsdPrices \subseteq Coins
    /\ \A c \in DOMAIN BuiltIn : BuiltIn[c] \in Nat \ {0}
    /\ \A c \in DOMAIN UsdPrices : UsdPrices[c] \in Nat \ {0}
    /\ Quotes \subseteq Nat \ {0}
    /\ MaxDeviation \in Nat \ {0} /\ MaxAge \in Nat /\ Denom \in Nat \ {0}
    /\ FeeSui \in Nat /\ FeeIka \in Nat /\ MaxTime \in Nat

VARIABLES
    clock,     \* now
    snapshot,  \* [prices, lastFeedSuccessAt, source]
    quote      \* the quote being computed and the last one served

priceVars == <<clock, snapshot, quote>>

\* Later layers override earlier ones, coin by coin.
buildRegistry ==
    [c \in DOMAIN BuiltIn \cup GeckoIds \cup DOMAIN UsdPrices |->
        [polled |-> c \in GeckoIds,
         staticUsd |-> IF c \in DOMAIN UsdPrices THEN UsdPrices[c]
                       ELSE IF c \in DOMAIN BuiltIn THEN BuiltIn[c]
                       ELSE Unpriced]]

workList == {c \in DOMAIN buildRegistry : buildRegistry[c].polled}

staticPrices ==
    [c \in Coins |-> IF c \in DOMAIN buildRegistry
                     THEN buildRegistry[c].staticUsd ELSE Unpriced]

staticSnapshot(lastOk) ==
    [prices |-> staticPrices, lastFeedSuccessAt |-> lastOk, source |-> "fallback"]

NoQuote == [asked |-> FALSE, micro |-> Unpriced]

\* warmPriceFeed of a process that has just started.
warmPriceFeed == snapshot' = staticSnapshot(0)

PriceInit ==
    /\ clock = 1 /\ snapshot = staticSnapshot(0) /\ quote = NoQuote

Tick ==
    /\ clock < MaxTime
    /\ clock' = clock + 1
    /\ UNCHANGED <<snapshot, quote>>

\* A feed price is believed within MaxDeviation of the static one, if any.
InBounds(c, usd) ==
    LET static == staticPrices[c]
    IN  static # Unpriced =>
            usd <= static * MaxDeviation /\ static <= usd * MaxDeviation

\* Mutant: the feed's value is taken as it comes.
FeedHits_Unchecked(body) == {c \in workList : body[c] # Unpriced}

FeedHits(body) == {c \in workList : body[c] # Unpriced /\ InBounds(c, body[c])}

\* One answered poll; body: what CoinGecko says of each polled coin.
refreshNow(body) ==
    LET hits == FeedHits(body)
    IN  /\ snapshot' =
             IF workList = {} THEN staticSnapshot(snapshot.lastFeedSuccessAt)
             ELSE [prices |-> [c \in Coins |-> IF c \in hits THEN body[c]
                                               ELSE staticPrices[c]],
                   lastFeedSuccessAt |-> IF hits # {} THEN clock
                                         ELSE snapshot.lastFeedSuccessAt,
                   source |-> CASE hits = {} -> "fallback"
                                [] hits = workList -> "feed"
                                [] OTHER -> "mixed"]
        /\ UNCHANGED <<clock, quote>>

Refresh == \E body \in [workList -> Quotes \cup {Unpriced}] : refreshNow(body)

\* assertPricesFresh does not throw.
PricesFresh ==
    \/ workList = {}
    \/ /\ snapshot.lastFeedSuccessAt # 0
       /\ clock - snapshot.lastFeedSuccessAt <= MaxAge

microUsdFromAtomic(c, atomic) == (atomic * snapshot.prices[c]) \div Denom

(***************************************************************************)
(* quoteSign: the gate comes first, then getPricing is awaited, then the   *)
(* prices are read.                                                        *)
(***************************************************************************)
QuoteStart ==
    /\ ~quote.asked /\ PricesFresh
    /\ quote' = [asked |-> TRUE, micro |-> Unpriced]
    /\ UNCHANGED <<clock, snapshot>>

Fee(c, atomic) == IF atomic = 0 THEN 0 ELSE microUsdFromAtomic(c, atomic)

ikaSuiToMicroUsd == Fee(Sui, FeeSui) + Fee(Ika, FeeIka)

QuoteReply ==
    /\ quote.asked
    /\ quote' = [asked |-> FALSE, micro |-> ikaSuiToMicroUsd]
    /\ UNCHANGED <<clock, snapshot>>

\* getPricing throws, for whatever reason: nothing is quoted.
QuoteFails ==
    /\ quote.asked
    /\ quote' = NoQuote
    /\ UNCHANGED <<clock, snapshot>>

PriceTypeOK ==
    /\ clock \in Nat
    /\ snapshot \in [prices : [Coins -> Nat], lastFeedSuccessAt : Nat,
                     source : {"feed", "fallback", "mixed"}]
    /\ quote \in [asked : BOOLEAN, micro : Nat]
=============================================================================
