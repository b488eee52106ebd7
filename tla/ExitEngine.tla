----------------------------- MODULE ExitEngine -----------------------------
(***************************************************************************)
(* The exit engine of one position: internal/sniper/exits.go (Evaluate and   *)
(* ApplyDecision) as UpdatePrice and the sell goroutines of sniper.go use it. *)
(*                                                                         *)
(* FeedPrices are whole numbers, multipliers and percentages whole percents.    *)
(* RemainingPct and token amounts are counted in Whole-ths of the original  *)
(* position; with the default levels (75%, 50%, 25%) and Whole = 512 that is *)
(* exact, as the float64 and decimal arithmetic of the code is; a warning    *)
(* sell (csm.go, the onWarning callback of executeBuy) is rounded down.      *)
(*                                                                         *)
(* One full sell runs at a time here: how full sells collide is in Sniper.    *)
(***************************************************************************)
EXTENDS Integers, Sequences, FiniteSets, FiniteSetsExt

CONSTANTS
    TPLevels,        \* <<[multiplier |-> 150, sellPct |-> 25], ...>>
    TimedExits,      \* <<[after |-> 240, sellPct |-> 50], ...>>
    StopLossPct,     \* 0 switches the stop loss off
    TrailingPct,     \* 0 when TrailingStopEnabled is false
    EntryPrice,           \* EntryPriceUSD
    FeedPrices, Minutes,    \* what the feed may say and when (minutes since OpenedAt)
    Whole,           \* the original amount
    WarnReasons,     \* the warnings that are enabled: liquidity, holders
    WarnPcts,        \* the percentages of AmountToken a warning may sell
    MaxSellRetries

TPs == DOMAIN TPLevels
Timeds == DOMAIN TimedExits

ASSUME ExitAssumption ==
    /\ TPLevels \in Seq([multiplier : Nat, sellPct : 1 .. 100])
    /\ TimedExits \in Seq([after : Nat, sellPct : 1 .. 100])
    /\ StopLossPct \in 0 .. 100 /\ TrailingPct \in 0 .. 100
    /\ EntryPrice \in Nat \ {0} /\ FeedPrices \subseteq Nat /\ Minutes \subseteq Nat
    /\ WarnPcts \subseteq 25 .. 50
    /\ Whole \in Nat \ {0} /\ MaxSellRetries \in Nat \ {0}

VARIABLES
    status,      \* Position.Status
    high,        \* HighestPrice
    age,         \* time.Since(OpenedAt)
    tpHit,       \* the set of levels marked in TPLevelsHit
    timedHit,    \* the set of exits marked in TimedExitsHit
    remaining,   \* RemainingPct
    held,        \* AmountToken
    selling,     \* the partial sells of the tracker under way: reason and tokens
    retries,     \* SellRetries
    overdue,     \* price updates after the last deadline that left the position
                 \* OPEN although the tracker had something to sell
    warned,      \* CSM.warningFired
    warning,     \* tokens of the warning sell the monitor has under way, 0 if none
    panicking,   \* the monitor has the full sell of a panic under way
    warnedSold   \* what warning sells took from AmountToken, past the tracker

quote == <<high, age>>
tracker == <<tpHit, timedHit, remaining>>
monitor == <<warned, warning, panicking, warnedSold>>
exitVars == <<status, quote, tracker, held, selling, retries, overdue, monitor>>

XInit ==
    /\ status = "OPEN"
    /\ high = EntryPrice /\ age = 0
    /\ tpHit = {} /\ timedHit = {} /\ remaining = Whole
    /\ held = Whole /\ selling = {} /\ retries = 0 /\ overdue = 0
    /\ warned = {} /\ warning = 0 /\ panicking = FALSE /\ warnedSold = 0

-----------------------------------------------------------------------------
(* Evaluate: which exits are due at price c, highest price h, age t         *)

\* checkStopLoss
StopLossDue(c) == StopLossPct > 0 /\ c * 100 <= EntryPrice * (100 - StopLossPct)

\* checkMultiTP: the levels not yet hit that the price has reached.
DueLevels(c) == {i \in TPs \ tpHit : c * 100 >= EntryPrice * TPLevels[i].multiplier}

\* checkTrailingStop: only after a level was hit, only in profit.
TrailingDue(c, h) ==
    /\ TrailingPct > 0 /\ tpHit # {}
    /\ c * 100 <= h * (100 - TrailingPct) /\ c > EntryPrice

\* Mutant: later than the deadline only.
DueTimedLater(t) == {i \in Timeds \ timedHit : t > TimedExits[i].after}

\* checkTimedExits
DueTimed(t) == {i \in Timeds \ timedHit : t >= TimedExits[i].after}

\* timedExitReason: exits of one bucket share their reason, and ApplyDecision
\* marks exits by reason.
Bucket(minutes) ==
    IF minutes >= 1440 THEN 3 ELSE IF minutes >= 720 THEN 2
    ELSE IF minutes >= 240 THEN 1 ELSE 0
SameReason(i) ==
    {j \in Timeds : Bucket(TimedExits[j].after) = Bucket(TimedExits[i].after)}

\* Among the levels and among the exits of a day one sells everything, and it
\* shares its reason with no other (DefaultExitConfig, of which main changes the
\* stop loss and the trailing stop only).
ASSUME ClosesInTheEnd ==
    /\ \E i \in TPs : TPLevels[i].sellPct = 100
    /\ \E i \in Timeds : /\ TimedExits[i].sellPct = 100 /\ TimedExits[i].after <= 1440
                          /\ SameReason(i) = {i}

\* The loops of checkMultiTP and checkTimedExits return at the first one due.
FirstDue(S) == Min(S)

\* What a sell of pct percent leaves, and whether it is a full close: it sells
\* everything or leaves less than one percent of the original.
Left(pct) == (remaining * (100 - pct)) \div 100
IsFullClose(pct) == pct >= 100 \/ Left(pct) * 100 < Whole

-----------------------------------------------------------------------------
(* ApplyDecision, and the goroutine that UpdatePrice starts                *)

FullExit ==
    /\ status' = "CLOSING" /\ remaining' = 0
    /\ UNCHANGED <<tpHit, timedHit, selling>>

\* Mutant: the tracker is not reduced.
PartialExitUncounted(reason, pct, tps, timeds) ==
    /\ remaining' = remaining
    /\ tpHit' = tpHit \cup tps /\ timedHit' = timedHit \cup timeds
    /\ selling' = selling \cup {[reason |-> reason, tokens |-> remaining - Left(pct)]}
    /\ UNCHANGED status

PartialExit(reason, pct, tps, timeds) ==
    /\ remaining' = Left(pct)
    /\ tpHit' = tpHit \cup tps /\ timedHit' = timedHit \cup timeds
    /\ selling' = selling \cup {[reason |-> reason, tokens |-> remaining - Left(pct)]}
    /\ UNCHANGED status

Exit(reason, pct, tps, timeds) ==
    IF IsFullClose(pct) THEN FullExit ELSE PartialExit(reason, pct, tps, timeds)

NoExit == UNCHANGED <<status, tracker, selling>>

\* The first exit in the order stop loss, take profit, trailing stop, time.
EvaluateExits(c, h, t) ==
    \/ remaining = 0 /\ NoExit
    \/ /\ remaining > 0
       /\ \/ StopLossDue(c) /\ FullExit
          \/ /\ ~StopLossDue(c)
             /\ \/ /\ DueLevels(c) # {}
                   /\ LET i == FirstDue(DueLevels(c)) IN
                      Exit(<<"TP", i>>, TPLevels[i].sellPct, {i}, {})
                \/ /\ DueLevels(c) = {}
                   /\ \/ TrailingDue(c, h) /\ FullExit
                      \/ /\ ~TrailingDue(c, h)
                         /\ \/ /\ DueTimed(t) # {}
                               /\ LET i == FirstDue(DueTimed(t)) IN
                                  Exit(<<"TIMED", i>>, TimedExits[i].sellPct, {}, SameReason(i))
                            \/ DueTimed(t) = {} /\ NoExit

\* UpdatePrice for a position with a tracker.
UpdatePrice(c, t) ==
    /\ status = "OPEN" /\ t >= age
    /\ age' = t
    /\ high' = IF c > high THEN c ELSE high
    /\ EvaluateExits(c, high', t)
    /\ overdue' = IF t >= 1440 /\ status' = "OPEN" /\ remaining > 0 THEN overdue + 1 ELSE overdue
    /\ UNCHANGED <<held, retries, monitor>>

-----------------------------------------------------------------------------
(* The sells                                                               *)

\* Told to sell n tokens, executePartialSell sells what AmountToken has of them.
Sale(n) == IF held > n THEN n ELSE held

\* A failed partial sell is logged and nothing else.
PartialSellEnds(sell, ok) ==
    /\ sell \in selling
    /\ selling' = selling \ {sell}
    /\ held' = IF ok THEN held - Sale(sell.tokens) ELSE held
    /\ UNCHANGED <<status, quote, tracker, retries, overdue, monitor>>

\* executeSell sells AmountToken and leaves it as it is; the tracker keeps what
\* ApplyDecision wrote.
FullSellEnds(ok) ==
    /\ status = "CLOSING" /\ panicking' = FALSE
    /\ \/ ok /\ status' = "CLOSED" /\ UNCHANGED retries
       \/ /\ ~ok /\ retries' = retries + 1
          /\ status' = IF retries' >= MaxSellRetries THEN "FAILED" ELSE "OPEN"
    /\ UNCHANGED <<quote, tracker, selling, held, overdue, warned, warning, warnedSold>>

-----------------------------------------------------------------------------
(* The monitor, one goroutine, which sells past the tracker                *)

\* onPanic
Panic ==
    /\ status = "OPEN" /\ warning = 0
    /\ status' = "CLOSING" /\ panicking' = TRUE
    /\ UNCHANGED <<quote, tracker, held, selling, retries, overdue, warned, warning,
                   warnedSold>>

\* onWarning, once for each reason and whatever the status is by then.
Warn(reason, pct) ==
    /\ reason \notin warned /\ warning = 0 /\ ~panicking
    /\ warned' = warned \cup {reason}
    /\ warning' = (held * pct) \div 100
    /\ UNCHANGED <<status, quote, tracker, held, selling, retries, overdue, panicking,
                   warnedSold>>

WarnSellEnds(ok) ==
    /\ warning > 0 /\ warning' = 0
    /\ \/ ok /\ held' = held - Sale(warning) /\ warnedSold' = warnedSold + Sale(warning)
       \/ ~ok /\ UNCHANGED <<held, warnedSold>>
    /\ UNCHANGED <<status, quote, tracker, selling, retries, overdue, warned, panicking>>

MonitorSells ==
    \/ Panic
    \/ \E reason \in WarnReasons, pct \in WarnPcts : Warn(reason, pct)
    \/ \E ok \in BOOLEAN : WarnSellEnds(ok)

XNext ==
    \/ \E c \in FeedPrices, t \in Minutes : UpdatePrice(c, t)
    \/ \E sell \in selling, ok \in BOOLEAN : PartialSellEnds(sell, ok)
    \/ \E ok \in BOOLEAN : FullSellEnds(ok)
    \/ MonitorSells

XSpec == XInit /\ [][XNext]_exitVars

-----------------------------------------------------------------------------
(* Properties                                                              *)

Committed == [sell \in selling |-> sell.tokens]

\* The tracker and the position drift apart by what warnings sold and by nothing
\* else: its partial sells under way and what it still wants to sell are covered
\* by the tokens of the position and those that warnings took, whichever of the
\* overlapping sells fail, end late or are capped (exits.go ApplyDecision
\* reduces the tracker before the sell, executePartialSell the amount after it).
SalesCovered ==
    remaining + SumFunctionOnSet(Committed, selling) <= held + warnedSold

\* After 24 hours UpdatePrice has a full exit decided within as many updates of
\* the position as there are exits that sell a part of it, however late and in
\* which steps the price came: one update takes one exit.  What then becomes of
\* the full sell is another matter: if it fails, the position stays OPEN with
\* nothing remaining, and no later update sells it (Evaluate, exits.go:111).
OverdueBounded == overdue <= Len(TPLevels) + Len(TimedExits) - 2
=============================================================================
