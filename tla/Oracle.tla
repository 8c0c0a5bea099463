------------------------------- MODULE Oracle -------------------------------
(***************************************************************************)
(* Price sources and their aggregation for one market                      *)
(* (crates/oracle/src/lib.rs): the MockOracle, the SimulatedOracle with    *)
(* its history, feeds outside the repository that implement PriceSource,   *)
(* and the PriceAggregator that takes the median of what is fresh.         *)
(*                                                                         *)
(* A source that has been added is owned by the aggregator: the mock and   *)
(* the simulated oracle do not change any more, a feed goes on answering.  *)
(* Time is the wall clock in units of milliseconds; it may be set back.    *)
(* The random walk of a simulated price is a choice; its clamp is not.     *)
(***************************************************************************)
EXTENDS Integers, Sequences, FiniteSets, SequencesExt

CONSTANTS
    Feeds,        \* sources outside the repository
    Prices,
    MaxTime,      \* bound on the clock
    MaxAge,       \* max_price_age_ms
    Anchor,       \* config.anchor_price
    Low, High,    \* the anchor minus and plus max_deviation_pct
    MaxHistory,   \* max_history
    MaxTicks,     \* bound on the ticks of the simulated oracle
    NoPrice       \* PriceNotAvailable

Times   == 0 .. MaxTime
Sources == Feeds \cup {"mock", "simulated"}

OraclePrice == [price : Prices, timestamp : Times]

ASSUME PricesAssumption == Prices \subseteq Nat /\ NoPrice \notin OraclePrice
ASSUME BandAssumption   ==
    /\ {Anchor, Low, High} \subseteq Prices
    /\ Low <= Anchor /\ Anchor <= High
ASSUME BoundsAssumption ==
    /\ {MaxTime, MaxAge, MaxTicks} \subseteq Nat
    /\ MaxHistory \in Nat \ {0}

VARIABLES
    now,      \* current_timestamp
    quote,    \* source -> what get_price answers, or NoPrice
    sources,  \* the sources of the aggregator, in the order they were added
    history,  \* the simulated oracle's history, oldest first
    ticked    \* history: every price of the simulated oracle, in order

vars == <<now, quote, sources, history, ticked>>

Owned(s) == s \in ToSet(sources)

-----------------------------------------------------------------------------
(* The simulated oracle *)

Clamp(p) == IF p < Low THEN Low ELSE IF p > High THEN High ELSE p

\* tick: the new price goes to the back, and the oldest is dropped.
PushedNewestLost(p) == SubSeq(Append(history, p), 1, MaxHistory)  \* mutant
Pushed(p) ==
    LET all == Append(history, p)
    IN  SubSeq(all, IF Len(all) > MaxHistory THEN Len(all) - MaxHistory + 1 ELSE 1, Len(all))

Tick ==
    /\ ~Owned("simulated")
    /\ Len(ticked) <= MaxTicks
    /\ \E moved \in Prices :
          /\ quote' = [quote EXCEPT !["simulated"] = [price |-> Clamp(moved), timestamp |-> now]]
          /\ history' = Pushed(Clamp(moved))
          /\ ticked' = Append(ticked, Clamp(moved))
    /\ UNCHANGED <<now, sources>>

\* set_price, for tests: the history is not told.
SetSimulated(p) ==
    /\ ~Owned("simulated")
    /\ quote' = [quote EXCEPT !["simulated"] = [price |-> p, timestamp |-> now]]
    /\ UNCHANGED <<now, sources, history, ticked>>

Smaller(i, j) == IF i < j THEN i ELSE j

\* get_history: newest first.
GetHistory(limit) == SubSeq(Reverse(history), 1, Smaller(limit, Len(history)))

-----------------------------------------------------------------------------
(* The mock oracle *)

\* set_price takes any timestamp.
SetMock(p, t) ==
    /\ ~Owned("mock")
    /\ quote' = [quote EXCEPT !["mock"] = [price |-> p, timestamp |-> t]]
    /\ UNCHANGED <<now, sources, history, ticked>>

\* refresh_timestamps: an old price becomes a new one.
RefreshTimestamps ==
    /\ ~Owned("mock")
    /\ quote["mock"] # NoPrice
    /\ quote' = [quote EXCEPT !["mock"].timestamp = now]
    /\ UNCHANGED <<now, sources, history, ticked>>

-----------------------------------------------------------------------------
(* Feeds and the clock *)

\* A feed answers any price with any timestamp, the future included, or none.
Publish(f, q) ==
    /\ quote' = [quote EXCEPT ![f] = q]
    /\ UNCHANGED <<now, sources, history, ticked>>

SetClock(t) ==
    /\ now' = t
    /\ UNCHANGED <<quote, sources, history, ticked>>

-----------------------------------------------------------------------------
(* The aggregator *)

AddSource(s) ==
    /\ ~Owned(s)
    /\ sources' = Append(sources, s)
    /\ UNCHANGED <<now, quote, history, ticked>>

\* saturating_sub: a timestamp from the future has no age.
Age(t) == IF t <= now THEN now - t ELSE 0

IsFreshAlways(q) == q # NoPrice                              \* mutant
IsFresh(q) == q # NoPrice /\ Age(q.timestamp) <= MaxAge

FreshSources == {s \in ToSet(sources) : IsFresh(quote[s])}

\* The prices of the fresh sources are collected and sorted.
Ascending(fresh) ==
    CHOOSE order \in [1 .. Cardinality(fresh) -> fresh] :
        /\ \A i, j \in DOMAIN order : i < j => quote[order[i]].price <= quote[order[j]].price
        /\ IsInjective(order)

\* get_aggregated_price: of two in the middle it is the upper one.
AggregatedPrice ==
    LET count == Cardinality(FreshSources)
    IN  IF count = 0 THEN NoPrice
        ELSE [price     |-> quote[Ascending(FreshSources)[(count \div 2) + 1]].price,
              timestamp |-> now]

-----------------------------------------------------------------------------

Init ==
    /\ now \in Times
    /\ quote = [s \in Sources |-> IF s = "simulated"
                                  THEN [price |-> Anchor, timestamp |-> now] ELSE NoPrice]
    /\ sources = <<>>
    /\ history = <<Anchor>>
    /\ ticked = <<Anchor>>

Next ==
    \/ Tick
    \/ RefreshTimestamps
    \/ \E p \in Prices : SetSimulated(p) \/ \E t \in Times : SetMock(p, t)
    \/ \E f \in Feeds : \E q \in OraclePrice \cup {NoPrice} : Publish(f, q)
    \/ \E t \in Times : SetClock(t)
    \/ \E s \in Sources : AddSource(s)

Spec == Init /\ [][Next]_vars

-----------------------------------------------------------------------------
(* What holds *)

\* The fresh sources, by what is true of their quotes: the aggregator may not
\* have counted them right.
Fresh ==
    {s \in ToSet(sources) :
        quote[s] # NoPrice /\ now - quote[s].timestamp <= MaxAge}

\* Median of all sources, "for robustness": when more than half of the fresh
\* sources are honest, the aggregated price lies between two prices that they
\* answered - whatever the others answer and claim about the time, and whatever
\* stale sources still say.
MedianIsHonest ==
    LET answer == AggregatedPrice
    IN  \A honest \in SUBSET Fresh :
            2 * Cardinality(honest) > Cardinality(Fresh) =>
                /\ answer # NoPrice
                /\ \E s, u \in honest : /\ quote[s].price <= answer.price
                                        /\ answer.price <= quote[u].price

\* get_history answers the latest prices of the walk, newest first and not more
\* than the history may hold, all within the band around the anchor - also after
\* set_price has put the price of the moment outside of it.
HistoryIsRecent ==
    \A limit \in 0 .. MaxHistory + 1 :
        LET got == GetHistory(limit)
        IN  /\ Len(got) = Smaller(limit, Smaller(MaxHistory, Len(ticked)))
            /\ \A i \in DOMAIN got :
                  /\ got[i] = ticked[Len(ticked) - i + 1]
                  /\ Low <= got[i] /\ got[i] <= High
=============================================================================
