---------------------------- MODULE PaperProofs ----------------------------
(* Trading without an exchange: the paper broker, for any number of           *)
(* submitters and intents, and the books of a backtest, for any fills.  And   *)
(* the circuit breaker of the RPC client, for any number of callers.         *)
EXTENDS PaperBroker, Backtest, SolanaRpc, TLAPS

-----------------------------------------------------------------------------
(* The paper broker                                                        *)

States == {"none", "ACKED", "FILLED", "CANCELLED"}

Asleep == UNION {asleep[s] : s \in Submitters}

\* An intent is in one place at a time, and nobody has an intent the broker
\* has not seen.
BrokerInv ==
    /\ orderState \in [OrderIntents -> States]
    /\ recorded \in [OrderIntents -> Nat]
    /\ asleep \in [Submitters -> SUBSET OrderIntents]
    /\ \A s, t \in Submitters : s # t => asleep[s] \cap asleep[t] = {}
    /\ \A s \in Submitters : \A i, j \in asleep[s] : i = j
    /\ \A s \in Submitters : asleep[s] \cap (resting \cup abandoned) = {}
    /\ resting \cap abandoned = {}
    /\ \A i \in OrderIntents : i \notin seen => orderState[i] = "none"
    /\ \A i \in OrderIntents :
          recorded[i] = IF orderState[i] = "FILLED" THEN 1 ELSE 0
    /\ resting \cup abandoned \subseteq OrderIntents
    /\ \A i \in OrderIntents :
          orderState[i] = "ACKED"
              <=> \/ i \in resting \/ i \in abandoned
                  \/ \E s \in Submitters : i \in asleep[s]

(* The invariant says what BrokerAgrees says of the sets.                   *)
LEMMA InvAgrees == BrokerInv => BrokerAgrees
  BY DEF BrokerInv, BrokerAgrees

(* The broker starts without orders.                                       *)
LEMMA BrokerInit == PInit => BrokerInv
  BY DEF PInit, BrokerInv, States

(* No operation, with or without a delay, takes an intent twice or loses it. *)
LEMMA BrokerStep == BrokerInv /\ [PNext]_pvars => BrokerInv'
<1> SUFFICES ASSUME BrokerInv, [PNext]_pvars PROVE BrokerInv'
  OBVIOUS
<1> USE DEF BrokerInv, States
<1>1. ASSUME NEW s \in Submitters, NEW i \in OrderIntents, SubmitOrder(s, i)
      PROVE BrokerInv'
  <2>1. orderState[i] = "none" /\ recorded[i] = 0
    BY <1>1 DEF SubmitOrder, Fresh
  <2>2. i \notin resting \cup abandoned /\ \A t \in Submitters : i \notin asleep[t]
    BY <2>1
  <2>3. CASE i \in Market /\ ~delayed /\ Fill(i) /\ UNCHANGED <<resting, asleep>>
    BY <1>1, <2>1, <2>2, <2>3 DEF SubmitOrder, Fill
  <2>4. CASE /\ i \in Market /\ delayed
             /\ orderState' = [orderState EXCEPT ![i] = "ACKED"]
             /\ asleep' = [asleep EXCEPT ![s] = {i}]
             /\ UNCHANGED <<resting, recorded>>
    BY <1>1, <2>1, <2>2, <2>4 DEF SubmitOrder
  <2>5. CASE /\ i \notin Market
             /\ orderState' = [orderState EXCEPT ![i] = "ACKED"]
             /\ resting' = resting \cup {i}
             /\ UNCHANGED <<asleep, recorded>>
    BY <1>1, <2>1, <2>2, <2>5 DEF SubmitOrder
  <2> QED
    BY <1>1, <2>3, <2>4, <2>5 DEF SubmitOrder
<1>2. ASSUME NEW s \in Submitters, NEW i \in OrderIntents, ExecuteMarketFill(s, i)
      PROVE BrokerInv'
  BY <1>2 DEF ExecuteMarketFill, Fill
<1>3. ASSUME NEW s \in Submitters, NEW i \in OrderIntents, GiveUp(s, i)
      PROVE BrokerInv'
  BY <1>3 DEF GiveUp
<1>4. ASSUME NEW i \in OrderIntents, SimulateFill(i) PROVE BrokerInv'
  BY <1>4 DEF SimulateFill, Fill
<1>5. ASSUME NEW i \in OrderIntents, CancelOrder(i) PROVE BrokerInv'
  BY <1>5 DEF CancelOrder
<1>6. CASE UNCHANGED pvars
  BY <1>6 DEF pvars
<1> QED
  BY <1>1, <1>2, <1>3, <1>4, <1>5, <1>6 DEF PNext

(* Each intent is executed at most once, and an acknowledged order is always *)
(* in exactly one of the three places (paper_broker.go SubmitOrder).        *)
THEOREM BrokerKeepsOrders == PSpec => []BrokerAgrees
  BY InvAgrees, BrokerInit, BrokerStep, PTL DEF PSpec

-----------------------------------------------------------------------------
(* The backtest                                                            *)

BooksInv ==
    /\ book \in [qty : Int, avg : Int, pnl : Int]
    /\ entry \in [qty : Int, price : Int, fee : Nat]
    /\ pnl \in Int /\ fees \in Int /\ charged \in Int
    /\ entry.qty = 0 => entry.fee = 0
    /\ TwoBooksAgree

(* Averages and profits of whole numbers are whole numbers.                 *)
LEMMA WeightedInt ==
    ASSUME NEW n \in Int, NEW m \in Int, NEW p \in Int, NEW q \in Int,
           SameDirection(n, m)
    PROVE  Weighted(Magnitude(n), p, Magnitude(m), q) \in Int
<1>1. /\ Magnitude(n) \in Nat \ {0} /\ Magnitude(m) \in Nat \ {0}
  BY DEF SameDirection, Magnitude
<1>2. Magnitude(n) + Magnitude(m) \in Nat \ {0}
  BY <1>1
<1>3. Magnitude(n) * p + Magnitude(m) * q \in Int
  BY <1>1
<1> QED
  BY <1>2, <1>3 DEF Weighted

\* What a fill earns is an integer.
LEMMA EarnedInt ==
    ASSUME NEW a \in Int, NEW e \in Int, NEW n \in Int, NEW p \in Int, NEW pos,
           pos.qty = a, pos.avg = e
    PROVE  Earned(pos, n, p) \in Int
<1> DEFINE closed == IF Magnitude(n) < Magnitude(a) THEN Magnitude(n) ELSE Magnitude(a)
<1>1. closed \in Int /\ p - e \in Int /\ e - p \in Int
  BY DEF Magnitude
<1> HIDE DEF closed
<1>2. (p - e) * closed \in Int /\ (e - p) * closed \in Int
  BY <1>1
<1> QED
  BY <1>2 DEF Earned, closed

(* A fill does the same to both books.                                      *)
LEMMA FillKeepsBooks ==
    ASSUME BooksInv, NEW n \in Sizes, NEW ref \in RefPrices, BookFill(n, ref)
    PROVE  BooksInv'
<1> DEFINE p == FillPrice(n, ref)
<1>1. n \in Int /\ n # 0 /\ p \in Int /\ Fee \in Nat
  BY BacktestAssumption DEF FillPrice
<1>2. /\ fees' = fees + Fee
      /\ book' = Filled(book, n, p)
      /\ entry' = EntryAfterFill(n, p)
      /\ pnl' = pnl + TradeProfit(n, p) - TradeFees(n)
      /\ charged' = charged + TradeFees(n)
  BY DEF BookFill
<1> HIDE DEF p
<1>3. /\ book.qty \in Int /\ book.avg \in Int /\ book.pnl \in Int
      /\ entry.qty \in Int /\ entry.price \in Int /\ entry.fee \in Nat
      /\ pnl \in Int /\ fees \in Int /\ charged \in Int
      /\ entry.qty = book.qty /\ (book.qty # 0 => entry.price = book.avg)
      /\ pnl + charged = book.pnl /\ charged + entry.fee >= fees
      /\ entry.qty = 0 => entry.fee = 0
  BY DEF BooksInv, TwoBooksAgree
<1>4. CASE book.qty = 0
  <2>1. /\ book' \in [qty : Int, avg : Int, pnl : Int]
        /\ book'.qty = n /\ book'.avg = p /\ book'.pnl = book.pnl
    BY <1>1, <1>2, <1>4 DEF Filled, BooksInv
  <2>2. /\ entry' = [qty |-> n, price |-> p, fee |-> Fee]
        /\ pnl' = pnl /\ charged' = charged
    BY <1>1, <1>2, <1>3, <1>4 DEF EntryAfterFill, TradeProfit, TradeFees
  <2> QED
    BY <1>1, <1>2, <1>3, <1>4, <2>1, <2>2 DEF BooksInv, TwoBooksAgree
<1>5. CASE book.qty # 0 /\ SameDirection(book.qty, n)
  <2> DEFINE avg == Weighted(Magnitude(book.qty), book.avg, Magnitude(n), p)
  <2>2. /\ entry' = [qty |-> entry.qty + n, price |-> avg, fee |-> entry.fee + Fee]
        /\ pnl' = pnl /\ charged' = charged
    BY <1>1, <1>2, <1>3, <1>5 DEF EntryAfterFill, TradeProfit, TradeFees
  <2>3. avg \in Int
    BY <1>1, <1>3, <1>5, WeightedInt
  <2>4. book.qty + n # 0
    BY <1>1, <1>3, <1>5 DEF SameDirection
  <2>5. book' = [book EXCEPT !.qty = book.qty + n, !.avg = avg]
    BY <1>2, <1>5 DEF Filled
  <2> HIDE DEF avg
  <2>1. /\ book' \in [qty : Int, avg : Int, pnl : Int]
        /\ book'.qty = book.qty + n /\ book'.avg = avg /\ book'.pnl = book.pnl
    <3>1. book.qty + n \in Int /\ book \in [qty : Int, avg : Int, pnl : Int]
      BY <1>1, <1>3 DEF BooksInv
    <3>2. book' = [qty |-> book.qty + n, avg |-> avg, pnl |-> book.pnl]
      BY <2>5, <3>1
    <3> QED
      BY <1>3, <2>3, <3>1, <3>2
  <2> QED
    BY <1>1, <1>2, <1>3, <1>5, <2>1, <2>2, <2>3, <2>4 DEF BooksInv, TwoBooksAgree
<1>6. CASE book.qty # 0 /\ ~SameDirection(book.qty, n)
  <2> DEFINE profit == Earned([qty |-> entry.qty, avg |-> entry.price], n, p)
             after == EntryAfter(book, n, p)
  <2>1. Earned(book, n, p) = profit
    BY <1>3, <1>6 DEF Earned
  <2>2. book' = [qty |-> book.qty + n, avg |-> after, pnl |-> book.pnl + profit]
    BY <1>2, <1>6, <2>1 DEF Filled
  <2>3. pnl' = pnl + profit - (entry.fee + Fee) /\ charged' = charged + entry.fee + Fee
    BY <1>1, <1>2, <1>3, <1>6 DEF TradeProfit, TradeFees
  <2>4. profit \in Int
    BY <1>1, <1>3, EarnedInt
  <2>5. /\ after \in Int
        /\ entry' \in [qty : Int, price : Int, fee : Nat]
        /\ entry'.qty = book.qty + n
        /\ book.qty + n # 0 => entry'.price = after
        /\ book.qty + n = 0 => entry'.fee = 0
    <3>1. CASE Magnitude(n) < Magnitude(book.qty)
      <4>1. entry' = [entry EXCEPT !.qty = @ + n]
        BY <1>1, <1>2, <1>3, <1>6, <3>1 DEF EntryAfterFill
      <4>2. book.qty + n # 0 /\ SameDirection(book.qty, book.qty + n)
        BY <1>1, <1>3, <1>6, <3>1 DEF Magnitude, SameDirection
      <4>3. after = book.avg
        BY <4>2 DEF EntryAfter
      <4> QED
        BY <1>1, <1>3, <1>6, <4>1, <4>2, <4>3 DEF BooksInv
    <3>2. CASE n + book.qty = 0
      <4>1. entry' = NoEntry
        BY <1>1, <1>2, <1>3, <1>6, <3>2 DEF EntryAfterFill, Magnitude
      <4>2. after = 0
        BY <1>1, <1>3, <3>2 DEF EntryAfter, SameDirection
      <4> QED
        BY <1>1, <1>3, <3>2, <4>1, <4>2 DEF NoEntry
    <3>3. CASE ~(Magnitude(n) < Magnitude(book.qty)) /\ n + book.qty # 0
      <4>1. entry' = [qty |-> n + entry.qty, price |-> p, fee |-> 0]
        BY <1>1, <1>2, <1>3, <1>6, <3>3 DEF EntryAfterFill
      <4>2. ~SameDirection(book.qty, book.qty + n)
        BY <1>1, <1>3, <1>6, <3>3 DEF Magnitude, SameDirection
      <4>3. after = p
        BY <1>1, <1>3, <3>3, <4>2 DEF EntryAfter
      <4> QED
        BY <1>1, <1>3, <4>1, <4>3
    <3> QED
      BY <3>1, <3>2, <3>3
  <2> HIDE DEF profit, after
  <2> QED
    BY <1>1, <1>2, <1>3, <2>2, <2>3, <2>4, <2>5 DEF BooksInv, TwoBooksAgree
<1> QED
  BY <1>4, <1>5, <1>6

(* The position manager's arithmetic and the entry of the trade records agree *)
(* after any sequence of fills of any sizes and prices (runner.go             *)
(* recordTradeEntry, position.go applyFillToPosition).                       *)
THEOREM BacktestBooksAgree == BSpec => []TwoBooksAgree
<1>1. BInit => BooksInv
  BY DEF BInit, BooksInv, TwoBooksAgree, Flat, NoEntry
<1>2. BooksInv /\ [BNext]_bvars => BooksInv'
  <2> SUFFICES ASSUME BooksInv, [BNext]_bvars PROVE BooksInv'
    OBVIOUS
  <2>1. CASE UNCHANGED accountVars
    BY <2>1 DEF accountVars, BooksInv, TwoBooksAgree
  <2>2. \/ UNCHANGED accountVars
        \/ \E n \in Sizes, ref \in RefPrices : BookFill(n, ref)
    BY DEF BNext, NextEvent, FireTimer, Dispatch, ExecuteSignal, bvars
  <2> QED
    BY <2>1, <2>2, FillKeepsBooks
<1>3. BooksInv => TwoBooksAgree
  BY DEF BooksInv
<1> QED
  BY <1>1, <1>2, <1>3, PTL DEF BSpec

-----------------------------------------------------------------------------
(* The circuit breaker of the RPC client                                   *)

\* OpenIsTemporary needs to know nothing but that the breaker is a Boolean:
\* only the caller that finds it closed starts a resetter, and only the
\* resetter closes it.
BreakerInv == open \in BOOLEAN /\ OpenIsTemporary

(* The client starts with a closed breaker and without a resetter.         *)
LEMMA BreakerInit == CInit => BreakerInv
  BY DEF CInit, BreakerInv, OpenIsTemporary

(* No step of a caller, of the refill or of a resetter breaks the pairing of *)
(* the open breaker with its resetter.                                      *)
LEMMA BreakerStep == BreakerInv /\ [CNext]_rpcVars => BreakerInv'
<1> SUFFICES ASSUME BreakerInv, [CNext]_rpcVars PROVE BreakerInv'
  OBVIOUS
<1> USE DEF BreakerInv, OpenIsTemporary
<1>1. ASSUME NEW c \in Callers, Request(c) PROVE BreakerInv'
  BY <1>1 DEF Request, breakerVars
<1>2. ASSUME NEW c \in Callers, Call(c) PROVE BreakerInv'
  <2>1. CASE Trip(c)
    BY <2>1 DEF Trip
  <2>2. CASE Answered(c) \/ Failed(c)
    BY <2>2 DEF Answered, Failed
  <2>3. CASE CheckBreaker(c) \/ AcquireToken(c) \/ ContextEnds(c) \/ RateLimited(c)
             \/ LimitEnds(c) \/ BackoffEnds(c)
    BY <2>3 DEF CheckBreaker, AcquireToken, ContextEnds, RateLimited, LimitEnds,
                BackoffEnds, breakerVars
  <2> QED
    BY <1>2, <2>1, <2>2, <2>3 DEF Call
<1>3. CASE Refill \/ CloseClient
  BY <1>3 DEF Refill, CloseClient, breakerVars
<1>4. CASE CooldownEnds
  <2>1. open = TRUE /\ sleeping = 1
    BY <1>4 DEF CooldownEnds
  <2>2. open' = FALSE /\ sleeping' = 0
    BY <1>4, <2>1 DEF CooldownEnds
  <2> QED
    BY <2>2
<1>5. CASE ZeroErrors
  BY <1>5 DEF ZeroErrors
<1>6. CASE UNCHANGED rpcVars
  BY <1>6 DEF rpcVars
<1> QED
  BY <1>1, <1>2, <1>3, <1>4, <1>5, <1>6 DEF CNext

(* However many callers fail at once and whatever is still in flight, an open *)
(* breaker has exactly one resetter (live_rpc.go recordError).              *)
THEOREM BreakerRecovers == CSpec => []OpenIsTemporary
<1>1. BreakerInv => OpenIsTemporary
  BY DEF BreakerInv
<1> QED
  BY <1>1, BreakerInit, BreakerStep, PTL DEF CSpec
=============================================================================
