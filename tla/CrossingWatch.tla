---------------------------- MODULE CrossingWatch ----------------------------
(***************************************************************************)
(* The two loops of the demo runner that wait for a downward crossing on    *)
(* the public trade stream: stage D4 (_run_automatic_perp_cycle), which     *)
(* places its level a tick below the first trade and hands every later one  *)
(* to a OneLevelCoordinator, and stage D6 (_await_d6_recovery_crossing),     *)
(* which keeps a segment of its own for a fixed level.  Both refresh the    *)
(* option quotes between a trade's arrival and its evaluation, so a trade   *)
(* grows older while it is being handled.  Times are in units of the ages   *)
(* the health check compares.                                               *)
(***************************************************************************)
EXTENDS TriggerDecisions

CONSTANTS
    WatchPrices,      \* prices of a trade
    Tick,             \* tick_size: D4's level is one tick below the first trade
    FixedEntry,       \* D6's entry price
    MaxTradeAge,      \* maximum_market_data_age_ms
    RefreshAge,       \* quotes older than this are read again (5 s)
    MaxQuoteAge,      \* max_option_quote_age_seconds (10 s)
    MaxWatchGeneration, MaxTrades   \* bounds: reconnections, observed trades

NoPrice == 0
NoGeneration == 0

VARIABLES
    stage,            \* "D4" or "D6"
    watchPhase,       \* first, watching, crossed (the loop returned) or refused
    entry,            \* the level's entry price
    watch,            \* [previous, segment, armed] of the loop or its coordinator
    quoteAge,         \* age of the older of the two option quotes
    streamGeneration, \* generation of the connection behind the stream
    trades,           \* trades taken from the stream
    seen,             \* history: the trade handled before this one
    crossing          \* history: what the loop returned with

watchVars == <<stage, watchPhase, entry, watch, quoteAge, streamGeneration, trades, seen, crossing>>

NoSegment == [previous |-> NoPrice, segment |-> NoGeneration, armed |-> FALSE]
NoTrade == [price |-> NoPrice, generation |-> NoGeneration, healthy |-> FALSE]

WatchInit ==
    /\ stage \in {"D4", "D6"}
    /\ watchPhase = IF stage = "D4" THEN "first" ELSE "watching"
    /\ entry = IF stage = "D4" THEN NoPrice ELSE FixedEntry
    /\ watch = NoSegment
    /\ quoteAge = 0
    /\ streamGeneration = 1
    /\ trades = 0
    /\ seen = NoTrade
    /\ crossing = [from |-> NoTrade, to |-> NoTrade, tradeAge |-> 0, quoteAge |-> 0]

GiveUp ==
    /\ watchPhase' = "refused"
    /\ UNCHANGED <<stage, entry, watch, quoteAge, streamGeneration, trades, seen, crossing>>

\* _demo_market_health: connection, instrument and clock are given, the book is not required.
Healthy(tradeAge, age) == tradeAge \in 0..MaxTradeAge /\ age \in 0..MaxQuoteAge

---------------------------------------------------------------------------
\* D4's first trade fixes the level and must arm a clean segment.
FirstTrade(price, tradeAge) ==
    /\ watchPhase = "first"
    /\ trades' = trades + 1
    /\ LET clean == price - Tick > 0 /\ Healthy(tradeAge, quoteAge)
       IN IF clean
          THEN /\ watchPhase' = "watching"
               /\ entry' = price - Tick
               /\ watch' = [previous |-> price, segment |-> streamGeneration, armed |-> TRUE]
               /\ seen' = [price |-> price, generation |-> streamGeneration, healthy |-> TRUE]
          ELSE watchPhase' = "refused" /\ UNCHANGED <<entry, watch, seen>>
    /\ UNCHANGED <<stage, quoteAge, streamGeneration, crossing>>

\* The first trade does not come within 20 s, or the level is not crossed within the
\* stage's time (60 s, 2 h); a failed clock synchronization or a wallet without
\* equity ends the loop too.
WatchTimeout == watchPhase \in {"first", "watching"} /\ GiveUp

\* The read of the option quotes: whether it is needed.
QuotesNeedRefresh == quoteAge > RefreshAge

\* It times out: D6 forgets its segment and goes on, D4 gives up.
RefreshTimesOut ==
    /\ watchPhase = "watching" /\ QuotesNeedRefresh
    /\ trades < MaxTrades
    /\ \/ /\ stage = "D6"
          /\ watch' = NoSegment
          /\ trades' = trades + 1
          /\ seen' = NoTrade
          /\ UNCHANGED <<stage, watchPhase, entry, quoteAge, streamGeneration, crossing>>
       \/ stage = "D4" /\ GiveUp

\* A symbol of the spread is missing from the chain that was read.
QuoteMissing == watchPhase = "watching" /\ QuotesNeedRefresh /\ GiveUp

\* The segment after a healthy trade of generation g, and whether it crosses.
Fresh(g) == watch.segment # g
Arms(price) == watch.armed \/ price >= entry
Crosses(price, g) ==
    ~Fresh(g) /\ Arms(price) /\ watch.previous > entry /\ price <= entry
Continues(price, g) ==
    [previous |-> price, segment |-> g,
     armed |-> IF Fresh(g) THEN price >= entry
               ELSE Arms(price) /\ ~(stage = "D4" /\ Crosses(price, g))]

\* What an unhealthy trade leaves: D6 starts again, D4's coordinator returns before
\* it looks at its segment.
AfterUnhealthy == IF stage = "D6" THEN NoSegment ELSE watch

\* A trade of the stream: quotes are read again when needed, which takes `took` and
\* answers with quotes of age `answered`; then health is evaluated, and a healthy
\* trade continues, starts or completes a segment.  D4's gate, level, spread,
\* rounding and risk checks may refuse the entry (verdict), and it then goes on.
Trade(price, tradeAge, took, answered, verdict) ==
    LET g     == streamGeneration
        quote == IF QuotesNeedRefresh THEN answered ELSE quoteAge
        age   == IF QuotesNeedRefresh THEN tradeAge + took ELSE tradeAge
        ok    == Healthy(age, quote)
        done  == ok /\ Crosses(price, g) /\ (stage = "D4" => verdict)
        this  == [price |-> price, generation |-> g, healthy |-> ok]
    IN /\ watchPhase = "watching"
       /\ trades < MaxTrades
       /\ trades' = trades + 1
       /\ quoteAge' = quote
       /\ watch' = IF ok THEN Continues(price, g) ELSE AfterUnhealthy
       /\ watchPhase' = IF done THEN "crossed" ELSE watchPhase
       /\ seen' = this
       /\ crossing' = IF done
                      THEN [from |-> seen, to |-> this, tradeAge |-> age, quoteAge |-> quote]
                      ELSE crossing
       /\ UNCHANGED <<stage, entry, streamGeneration>>

\* Time passes between trades.
QuotesAge ==
    /\ watchPhase \in {"first", "watching"} /\ quoteAge <= MaxQuoteAge
    /\ quoteAge' = quoteAge + 1
    /\ UNCHANGED <<stage, watchPhase, entry, watch, streamGeneration, trades, seen, crossing>>

\* The stream reconnects under the loop.
StreamReconnects ==
    /\ watchPhase \in {"first", "watching"} /\ streamGeneration < MaxWatchGeneration
    /\ streamGeneration' = streamGeneration + 1
    /\ UNCHANGED <<stage, watchPhase, entry, watch, quoteAge, trades, seen, crossing>>

WatchNext ==
    \/ \E price \in WatchPrices, tradeAge \in 0..MaxTradeAge + 1 : FirstTrade(price, tradeAge)
    \/ \E price \in WatchPrices, tradeAge \in 0..MaxTradeAge + 1, took \in 0..1,
          answered \in 0..MaxQuoteAge + 1, verdict \in BOOLEAN :
          Trade(price, tradeAge, took, answered, verdict)
    \/ WatchTimeout \/ RefreshTimesOut \/ QuoteMissing \/ QuotesAge \/ StreamReconnects

WatchSpec == WatchInit /\ [][WatchNext]_watchVars

---------------------------------------------------------------------------
\* The loop returns with a trade only if that trade crossed the level and was, with
\* the option quotes, fresh at the moment it was evaluated, after the quotes were
\* read.  In D6 the trade handled just before was healthy, above the level and of
\* the same connection: no gap (stale trade, failed read, reconnection) lies between
\* the two.  In D4 the level lies below the first trade, and a trade handled just
\* before that was healthy and of the same connection was above the level.
WatchedCrossing ==
    watchPhase = "crossed" =>
        LET from == crossing.from
            to == crossing.to
        IN /\ to.price <= entry /\ to.healthy
           /\ crossing.tradeAge \in 0..MaxTradeAge /\ crossing.quoteAge \in 0..MaxQuoteAge
           /\ stage = "D6" => /\ from.healthy /\ from.price > entry
                              /\ from.generation = to.generation
           /\ stage = "D4" => /\ trades > 1
                              /\ from.healthy /\ from.generation = to.generation
                                    => from.price > entry

\* Whoever infers a crossing, the shadow, the coordinator or a loop of the demo
\* runner, infers one that happened: between two prices of one connection, without
\* a gap in the loops, and decided once.
CrossingsAreGenuine == SegmentsAreNotJoined /\ DecidedOnce /\ WatchedCrossing
=============================================================================
