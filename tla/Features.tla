------------------------------ MODULE Features ------------------------------
(***************************************************************************)
(* The feature engine (internal/features) for one symbol: VWAP, trade      *)
(* imbalance, volatility and momentum over trades, spread over ticks.       *)
(*                                                                         *)
(* Two exchanges may feed the same symbol with different lags, so trades    *)
(* arrive with timestamps up to MaxLate behind the newest one.  Prices,     *)
(* quantities and times are whole numbers; the logarithms and the           *)
(* annualization of volatility are left out, its window of prices is kept.  *)
(* Every calculator locks itself, so a trade is one step of each.           *)
(***************************************************************************)
EXTENDS Window, SequencesExt, Functions

CONSTANTS
    VwapWindow, ImbWindow,     \* the windows of NewVWAP and NewImbalance
    VwapCap, ImbCap,           \* defaultVWAPCapacity, defaultImbalanceCapacity
    VolCap,                    \* capacity of NewVolatility
    Lookback, Interval,        \* NewMomentum
    Trades,                    \* bound: [price, qty, side] of a trade
    Quotes,                    \* bound: [bid, ask] of a tick
    Advances, MaxLate,         \* bounds: how far time moves on, how late a trade is
    MaxEvents                  \* bound: trades and ticks

ASSUME FeaturesAssumption ==
    /\ {VwapCap, ImbCap} \subseteq Nat \ {0}
    /\ {VolCap, Lookback} \subseteq Nat \ {0, 1}  \* the constructors raise 0 and 1
    /\ {VwapWindow, ImbWindow, Interval, MaxLate, MaxEvents} \subseteq Nat
    /\ Advances \subseteq Nat
    /\ \A t \in Trades : t.price \in Nat /\ t.qty \in Nat

VARIABLES
    vwap,      \* [ring, sumPQ, sumQ]
    imb,       \* [ring, buyVol, selVol]
    vol,       \* the ring of prices
    mom,       \* [ring, lastSamp]
    spread,    \* [mid, bps, ema]
    newest,    \* the newest timestamp fed
    fed        \* what was fed, in order of arrival: the trades, those of a known
               \* side, the prices above zero; and how many events
fvars == <<vwap, imb, vol, mom, spread, newest, fed>>

Never == -1
NothingFed == [trades |-> <<>>, sided |-> <<>>, prices |-> <<>>, events |-> 0]
NoTrade == [price |-> 0, qty |-> 0, side |-> "none", ts |-> 0]

FInit ==
    /\ vwap = [ring |-> Empty(VwapCap, NoTrade), sumPQ |-> 0, sumQ |-> 0]
    /\ imb = [ring |-> Empty(ImbCap, NoTrade), buyVol |-> 0, selVol |-> 0]
    /\ vol = Empty(VolCap, 0)
    /\ mom = [ring |-> Empty(Lookback, [price |-> 0, ts |-> 0]), lastSamp |-> Never]
    /\ spread = [mid |-> 0, bps |-> 0, ema |-> 0, initialized |-> FALSE]
    /\ newest = MaxLate /\ fed = NothingFed

\* What an entry adds to the running sum named part.
Amount(part, e) ==
    CASE part = "PQ"  -> e.price * e.qty
      [] part = "Q"   -> e.qty
      [] part = "buy" -> IF e.side = "buy" THEN e.qty ELSE 0
      [] part = "sell" -> IF e.side = "sell" THEN e.qty ELSE 0

\* That of the n oldest entries.
SumOldest(r, n, part) ==
    SumFunctionOnSet([k \in 0 .. n - 1 |-> Amount(part, Entry(r, k))], 0 .. n - 1)

AtLeastZero(x) == IF x < 0 THEN 0 ELSE x

\* Mutant: the entry that a full buffer overwrites stays in the sum.
SumAfterEviction(r, sum, cutoff, t, part) ==
    AtLeastZero(sum - SumOldest(r, Expired(r, cutoff), part)) + Amount(part, t)

\* A running sum after t has entered: less what expired, never below zero
\* then, less the entry that t overwrites in a buffer still full, plus t.
SumAfter(r, sum, cutoff, t, part) ==
    LET kept == DropExpired(r, cutoff)
    IN  AtLeastZero(sum - SumOldest(r, Expired(r, cutoff), part))
        - (IF Full(kept) THEN Amount(part, Entry(kept, 0)) ELSE 0) + Amount(part, t)

VwapOnTrade(t) ==
    LET cutoff == t.ts - VwapWindow
    IN  [ring  |-> Push(DropExpired(vwap.ring, cutoff), t),
         sumPQ |-> SumAfter(vwap.ring, vwap.sumPQ, cutoff, t, "PQ"),
         sumQ  |-> SumAfter(vwap.ring, vwap.sumQ, cutoff, t, "Q")]

\* Trades of unknown side neither enter nor evict.
ImbalanceOnTrade(t) ==
    LET cutoff == t.ts - ImbWindow
    IN  IF t.side \notin {"buy", "sell"} THEN imb
        ELSE [ring   |-> Push(DropExpired(imb.ring, cutoff), t),
              buyVol |-> SumAfter(imb.ring, imb.buyVol, cutoff, t, "buy"),
              selVol |-> SumAfter(imb.ring, imb.selVol, cutoff, t, "sell")]

VolatilityOnTrade(t) == IF t.price <= 0 THEN vol ELSE Push(vol, t.price)

\* Within one interval of the last sample the latest sample is replaced.
MomentumOnTrade(t) ==
    LET e == [price |-> t.price, ts |-> t.ts]
        latest == Slot(mom.ring, mom.ring.count - 1)
    IN  IF t.price <= 0 THEN mom
        ELSE IF mom.lastSamp # Never /\ t.ts - mom.lastSamp < Interval
        THEN [mom EXCEPT !.ring.buf[latest] = e]
        ELSE [ring |-> Push(mom.ring, e), lastSamp |-> t.ts]

SpreadOnTick(q) ==
    LET mid == (q.bid + q.ask) \div 2
        bps == ((q.ask - q.bid) * 10000) \div mid
    IN  IF q.bid <= 0 \/ q.ask <= 0 \/ q.ask < q.bid THEN spread
        ELSE [mid |-> mid, bps |-> bps, initialized |-> TRUE,
              ema |-> IF spread.initialized THEN (bps + 9 * spread.ema) \div 10 ELSE bps]

\* Engine.ProcessTrade: every calculator sees the trade.
ProcessTrade(t) ==
    /\ vwap' = VwapOnTrade(t)
    /\ imb' = ImbalanceOnTrade(t)
    /\ vol' = VolatilityOnTrade(t)
    /\ mom' = MomentumOnTrade(t)
    /\ UNCHANGED spread
    /\ fed' = [trades |-> Append(fed.trades, t), events |-> fed.events + 1,
               sided |-> IF t.side \in {"buy", "sell"} THEN Append(fed.sided, t) ELSE fed.sided,
               prices |-> IF t.price > 0 THEN Append(fed.prices, t.price) ELSE fed.prices]
    /\ newest' = Max({newest, t.ts})

ProcessTick(q) ==
    /\ spread' = SpreadOnTick(q)
    /\ UNCHANGED <<vwap, imb, vol, mom, newest>>
    /\ fed' = [fed EXCEPT !.events = @ + 1]

\* Engine.ResetSymbol forgets the symbol in every calculator.
ResetSymbol ==
    /\ fed.events > 0
    /\ vwap' = [ring |-> Empty(VwapCap, NoTrade), sumPQ |-> 0, sumQ |-> 0]
    /\ imb' = [ring |-> Empty(ImbCap, NoTrade), buyVol |-> 0, selVol |-> 0]
    /\ vol' = Empty(VolCap, 0)
    /\ mom' = [ring |-> Empty(Lookback, [price |-> 0, ts |-> 0]), lastSamp |-> Never]
    /\ spread' = [mid |-> 0, bps |-> 0, ema |-> 0, initialized |-> FALSE]
    /\ fed' = NothingFed
    /\ newest' = MaxLate          \* nothing kept refers to earlier times

Arrives(t, ts) == [price |-> t.price, qty |-> t.qty, side |-> t.side, ts |-> ts]

FNext ==
    \/ /\ fed.events < MaxEvents
       /\ \/ \E t \in Trades, a \in Advances : ProcessTrade(Arrives(t, newest + a))
          \/ \E t \in Trades, l \in 1 .. MaxLate : ProcessTrade(Arrives(t, newest - l))
          \/ \E q \in Quotes : ProcessTick(q)
    \/ ResetSymbol

FSpec == FInit /\ [][FNext]_fvars

-----------------------------------------------------------------------------
(* Properties                                                              *)

Suffix(s, n) == SubSeq(s, Len(s) - n + 1, Len(s))

SumsMatchEntries ==
    /\ vwap.sumPQ = SumOldest(vwap.ring, vwap.ring.count, "PQ")
    /\ vwap.sumQ = SumOldest(vwap.ring, vwap.ring.count, "Q")
    /\ imb.buyVol = SumOldest(imb.ring, imb.ring.count, "buy")
    /\ imb.selVol = SumOldest(imb.ring, imb.ring.count, "sell")

WindowsAreRecent ==
    /\ Entries(vwap.ring) = Suffix(fed.trades, vwap.ring.count)
    /\ Entries(imb.ring) = Suffix(fed.sided, imb.ring.count)
    /\ Entries(vol) = Suffix(fed.prices, Min({VolCap, Len(fed.prices)}))
    /\ fed.prices # <<>> => Entry(mom.ring, mom.ring.count - 1).price = Last(fed.prices)

(* Every window is the most recent part of what was fed, and the running    *)
(* sums VWAP and imbalance divide are the sums over it, after any mix of    *)
(* evictions, overwrites in a full buffer and late trades (vwap.go and      *)
(* imbalance.go OnTrade): an entry is taken out exactly once, the buffers    *)
(* lose or reorder nothing when they wrap around, and the guard against      *)
(* negative sums never hides a difference.                                  *)
FeaturesExact == WindowsAreRecent /\ SumsMatchEntries
=============================================================================
