------------------------------ MODULE Scoring ------------------------------
(***************************************************************************)
(* What the hunter decides about a token: the sanitizer                     *)
(* (internal/scanner/sanitizer.go), the safety analysis (analyzer.go), the   *)
(* simulated sale (sellsim.go), the five-dimensional score (scoring.go) and  *)
(* what the advanced analyses add to it (ScoreImpact of liquidity,           *)
(* narrative, correlation and copytrade), as the stages of the pipeline in   *)
(* cmd/nexus-hunter/main.go use them.                                       *)
(*                                                                         *)
(* A token is a record of what speaks for it; `signs' is what is known       *)
(* against it, and grows.  The algorithms are operators of the two.  They     *)
(* compute with floating point numbers; here a dimension is in thousandths   *)
(* of a point and a weight in percent, in which all results are exact.       *)
(***************************************************************************)
EXTENDS Integers, Sequences, FiniteSets, FiniteSetsExt, Functions

CONSTANTS
    Tokens,         \* records, see TokenFields
    RugSigns,       \* a subset of AllSigns
    Weights,        \* SetWeights: records of percentages
    DefaultWeights,
    MinSafetyScore, MinTotalScore, StrongBuyScore,
    BuySOL,         \* cfg.Hunter.MaxBuySOL
    MinPoolUSD,     \* cfg.Hunter.MinLiquidityUSD
    MinPoolSOL,     \* the sanitizer's MinQuoteReserveSOL: 1
    MaxSigns        \* bound: signs against one token

TokenFields == {"quote", "liquidityUSD", "lp", "age", "info", "holders",
    "entity", "clean", "insiderHops", "cleanFunder", "social", "whales",
    "growth", "phase", "copy"}
AllSigns == {"blacklisted", "scam_name", "busy_deployer",
    "mintable", "freezable", "lp_unlocked", "over40", "over50", "one_holder",
    "creator_heavy", "drained", "thin", "hops2", "hops1", "serial", "wash", "sybil",
    "funder_rugger", "funder_wash", "big_cluster", "resembles_honeypot",
    "matches_honeypot", "bleed", "pumped", "precursor", "rotation", "serial_launches",
    "distraction", "critical_cluster"}

ASSUME ScoringAssumption ==
    /\ \A t \in Tokens : DOMAIN t = TokenFields
    \* an empty pool, or one with next to nothing in it, is a sign
    /\ \A t \in Tokens : t.quote \in Nat \ {0} /\ IsFiniteSet(t.whales)
    /\ \A t \in Tokens : t.copy.tier \in Nat /\ t.copy.confidence \in Nat
    /\ RugSigns \subseteq AllSigns
    /\ DefaultWeights \in Weights
    /\ \A w \in Weights : w \in [{"safety", "entity", "social", "onchain", "timing"} -> Nat]
    /\ {BuySOL, MinPoolSOL} \subseteq Nat
    /\ {MinSafetyScore, MinTotalScore, StrongBuyScore} \subseteq Int

VARIABLES token, signs, weights
scoringVars == <<token, signs, weights>>

-----------------------------------------------------------------------------
(* The analyzer: whole points, negative for what is missing or wrong        *)

ClampTo(top, x) == IF x < 0 THEN 0 ELSE IF x > top THEN top ELSE x

\* The points of the first limit that x exceeds.
Above(limits, x) ==
    LET hit == {i \in DOMAIN limits : x > limits[i][1]}
    IN  IF hit = {} THEN 0 ELSE limits[Min(hit)][2]

\* Token info that could not be fetched hides both authorities.
AuthorityPoints(t, s) ==
    IF ~t.info THEN -10
    ELSE (IF "mintable" \in s THEN -15 ELSE 15) + (IF "freezable" \in s THEN -25 ELSE 10)

LiquidityPoints(t) ==
    IF t.liquidityUSD <= 2000 THEN -10
    ELSE Above(<< <<50000, 15>>, <<10000, 10>> >>, t.liquidityUSD)

LPPoints(t, s) ==
    IF "lp_unlocked" \in s THEN -10 ELSE IF t.lp = "burned" THEN 20 ELSE 15

\* RPC failure: holders cannot be checked at all.
HolderPoints(t, s) ==
    IF ~t.holders THEN -5
    ELSE (IF "over50" \in s THEN -20 ELSE 10)
         + (IF "one_holder" \in s THEN -15 ELSE 0)
         + (IF "creator_heavy" \in s THEN -10 ELSE 0)

AgePoints(t) == IF t.age < 2 THEN 5 ELSE IF t.age < 10 THEN 0 ELSE -5

AnalysisScore(t, s) ==
    ClampTo(100, 50 + AuthorityPoints(t, s) + LiquidityPoints(t) + LPPoints(t, s)
                    + HolderPoints(t, s) + AgePoints(t))

Verdict(t, s) ==
    IF t.info /\ "freezable" \in s THEN "HONEYPOT"
    ELSE IF t.holders /\ "over50" \in s /\ AnalysisScore(t, s) < 30 THEN "RUG"
    ELSE IF AnalysisScore(t, s) >= MinSafetyScore THEN "BUY"
    ELSE IF AnalysisScore(t, s) >= 25 THEN "WAIT" ELSE "SKIP"

-----------------------------------------------------------------------------
(* SimulatePreBuy: buy, then sell what was bought, in a constant product     *)
(* pool with a fee of 1/400.  The token reserve cancels out.                 *)

QuoteReserve(t, s) ==
    IF "drained" \in s THEN 0 ELSE IF "thin" \in s THEN 1 ELSE t.quote

EffectiveBuy == 399 * BuySOL
QuoteAfter(t, s) == 400 * QuoteReserve(t, s) + EffectiveBuy

\* A sale that would take more than 90% of the quote reserve is no sale.
CanSell(t, s) ==
    /\ QuoteReserve(t, s) # 0
    /\ 10 * (399 * EffectiveBuy) <= 9 * (400 * QuoteAfter(t, s) + 399 * EffectiveBuy)

\* EstimatedTaxPct > 10: what the price impact exceeds 50% by.
TaxTooHigh(t, s) == 100 * EffectiveBuy > 60 * QuoteAfter(t, s)

\* Stage 5: the price impact of the purchase itself.
BuyMovesPrice(t, s) ==
    QuoteReserve(t, s) # 0 /\ 100 * BuySOL > 10 * QuoteReserve(t, s)

-----------------------------------------------------------------------------
(* ScoreImpact of the advanced analyses: thousandths of a point              *)

Milli == 1000

FlowImpact(t, s) ==
    Milli * (IF "pumped" \in s THEN -15
             ELSE IF "bleed" \in s THEN -10
             ELSE CASE t.growth = "accelerating" -> 15
                    [] t.growth = "steady"       -> 5
                    [] OTHER                     -> 0)

NarrativeImpact(t) ==
    Milli * (CASE t.phase = "EMERGING"  -> 15
               [] t.phase = "GROWING"   -> 10
               [] t.phase = "DECLINING" -> -15
               [] t.phase = "DEAD"      -> -25
               [] OTHER                 -> 0)

\* Serial launches replace the pattern of a rotation.
CrossTokenImpact(s) ==
    Milli * (IF "serial_launches" \in s THEN -25
             ELSE IF "rotation" \in s THEN -40
             ELSE IF "distraction" \in s THEN -10 ELSE 0)

\* Signal, tier (in tenths) and confidence (in percent) of a copied wallet.
CopyImpact(t) ==
    LET base == CASE t.copy.signal = "FIRST_MOVE" -> 20
                  [] t.copy.signal = "ACCUMULATE" -> 15
                  [] t.copy.signal = "BUY"        -> 10
                  [] t.copy.signal = "SELL"       -> -15
                  [] t.copy.signal = "DUMP"       -> -30
                  [] OTHER                        -> 0
    IN  base * t.copy.tier * t.copy.confidence

HoneypotImpact(s) == IF "resembles_honeypot" \in s THEN -20 * Milli ELSE 0

-----------------------------------------------------------------------------
(* The five dimensions                                                     *)

\* v32InstantKill and the kills of scoreSafety.
InstantKill(t, s) ==
    \/ s \cap {"matches_honeypot", "precursor", "critical_cluster"} # {}
    \/ ~CanSell(t, s) \/ TaxTooHigh(t, s)
    \/ Verdict(t, s) = "HONEYPOT"

Dimension(points) == ClampTo(100 * Milli, points)

SafetyScore(t, s) ==
    Dimension(Milli * ClampTo(100, AnalysisScore(t, s) + 15)
              + FlowImpact(t, s) + HoneypotImpact(s))

\* Mutant: the test for one hop is gone, and only two hops are penalised.
RuggerNextDoorUnseen(s) == s \cap {"serial"} # {}
RuggerNextDoor(s) == s \cap {"hops1", "serial"} # {}

HopPoints(t, s) ==
    (IF "hops2" \in s /\ "hops1" \notin s THEN -40 ELSE 0)
    + (CASE t.insiderHops = 1 -> 25 [] t.insiderHops = 2 -> 10 [] OTHER -> 0)

LabelPoints(t, s) ==
    (IF t.clean THEN 30 ELSE 0)
    - (IF "wash" \in s THEN 30 ELSE 0) - (IF "sybil" \in s THEN 20 ELSE 0)
    + (IF t.cleanFunder THEN 15 ELSE 0)
    - (IF "funder_rugger" \in s THEN 25 ELSE 0) - (IF "funder_wash" \in s THEN 15 ELSE 0)
    - (IF "big_cluster" \in s THEN 20 ELSE 0)

EntityScore(t, s) ==
    Dimension(CrossTokenImpact(s) +
        Milli * (IF ~t.entity THEN 50
                 ELSE IF RuggerNextDoor(s) THEN 0
                 ELSE ClampTo(100, 50 + HopPoints(t, s) + LabelPoints(t, s))))

\* No social data scores 30.  Two sources multiply by 13/10, a negative
\* sentiment by 1/2: 50 * 20 thousandths.
SocialScore(t) ==
    IF t.social = {} THEN 30 * Milli
    ELSE LET d == CHOOSE d \in t.social : TRUE
             points == Above(<< <<10, 25>>, <<5, 18>>, <<1, 10>> >>, d.telegram)
                       + Above(<< <<50, 20>>, <<20, 15>>, <<5, 8>> >>, d.twitter)
                       + Above(<< <<10, 15>>, <<3, 8>> >>, d.discord)
                       + Above(<< <<2, 15>>, <<1, 10>>, <<0, 5>> >>, d.sources)
                       + (IF d.kol THEN 15 ELSE 0)
             loud == Cardinality({c \in {<<"t", d.telegram, 1>>, <<"x", d.twitter, 5>>,
                                         <<"d", d.discord, 3>>} : c[2] > c[3]})
         IN  Dimension(50 * points * (IF loud >= 2 THEN 13 ELSE 10)
                                   * (IF d.negative THEN 1 ELSE 2))

WhalePoints(t) ==
    LET points == [w \in t.whales |->
                      CASE w = "WHALE_BUY"            -> 30
                        [] w = "SMART_MONEY_BUY"      -> 25
                        [] w = "KOL_BUY"              -> 20
                        [] w = "FRESH_WALLET_BIG_BUY" -> 10
                        [] w = "WHALE_SELL"           -> -40
                        [] OTHER                      -> 0]
    IN  SumFunctionOnSet(points, t.whales)

\* The share of the top ten holders is bad above 50%, and good below 40%; ten
\* holders are never more than the 50 that would count.
OnChainScore(t, s) ==
    Dimension(CopyImpact(t) +
        Milli * ClampTo(100, 30 + WhalePoints(t)
            + (IF t.holders /\ s \cap {"over40", "over50"} = {} THEN 15 ELSE 0)
            + Above(<< <<50000, 15>>, <<10000, 10>> >>, t.liquidityUSD)))

TimingScore(t) ==
    LET mcap == 2 * t.liquidityUSD
        old == IF t.age < 5 THEN 30 ELSE IF t.age < 30 THEN 20
               ELSE IF t.age < 120 THEN 10 ELSE 0
        small == IF mcap < 50000 THEN 25 ELSE IF mcap < 500000 THEN 15
                 ELSE IF mcap < 5000000 THEN 5 ELSE 0
    IN  Dimension(NarrativeImpact(t) + Milli * ClampTo(100, 30 + old + small))

-----------------------------------------------------------------------------
(* The total and the decision                                               *)

HasSocial(t) == \E d \in t.social : d.telegram > 1

\* In the order of the scenarios.  The last one, for a rugger in the
\* neighbourhood, is never reached: with social data C or E comes first.
CorrelationBonus(t, s) ==
    LET chain == OnChainScore(t, s) > 50 * Milli
    IN  IF chain /\ t.whales # {} /\ HasSocial(t) /\ EntityScore(t, s) > 60 * Milli THEN 20
        ELSE IF t.entity /\ t.insiderHops > 0 /\ HasSocial(t) THEN 15
        ELSE IF HasSocial(t) THEN (IF chain THEN 10 ELSE -10)
        ELSE 0

Total(t, s, w) ==
    IF InstantKill(t, s) THEN 0
    ELSE ClampTo(10000 * Milli,
            SafetyScore(t, s) * w.safety + EntityScore(t, s) * w.entity
            + SocialScore(t) * w.social + OnChainScore(t, s) * w.onchain
            + TimingScore(t) * w.timing + 100 * Milli * CorrelationBonus(t, s))

Recommendation(t, s, w) ==
    LET total == Total(t, s, w)
    IN  IF InstantKill(t, s) THEN "SKIP"
        ELSE IF total >= 100 * Milli * StrongBuyScore THEN "STRONG_BUY"
        ELSE IF total >= 100 * Milli * MinTotalScore THEN "BUY"
        ELSE IF total >= 100 * Milli * 45 THEN "WAIT" ELSE "SKIP"

\* Stage 0, Check of the sanitizer: what it says of the same evidence.  Module
\* Sanitizer has its filters step by step, and the history of the deployer.
IsClean(t, s) ==
    /\ s \cap {"blacklisted", "busy_deployer"} = {}
    /\ t.info => s \cap {"scam_name", "freezable"} = {}
    /\ t.liquidityUSD >= MinPoolUSD /\ QuoteReserve(t, s) >= MinPoolSOL
    /\ t.entity => s \cap {"hops1", "big_cluster", "wash"} = {}

\* The stages 0, 4 and 5, and the verdict that OnDiscovery of the sniper asks for.
IsBought(t, s, w) ==
    /\ IsClean(t, s)
    /\ Recommendation(t, s, w) \in {"BUY", "STRONG_BUY"}
    /\ ~BuyMovesPrice(t, s)
    /\ AnalysisScore(t, s) >= MinSafetyScore /\ Verdict(t, s) = "BUY"

-----------------------------------------------------------------------------
(* What changes: the evidence and the weights                               *)

ScoringInit == token \in Tokens /\ signs = {} /\ weights = DefaultWeights

RugSignAppears(r) ==
    /\ r \notin signs /\ Cardinality(signs) < MaxSigns
    /\ signs' = signs \cup {r}
    /\ UNCHANGED <<token, weights>>

\* The adaptive weights, recalculated from trades that were closed.
SetWeights(w) == weights' = w /\ UNCHANGED <<token, signs>>

ScoringNext ==
    \/ \E r \in RugSigns : RugSignAppears(r)
    \/ \E w \in Weights : SetWeights(w)

ScoringSpec == ScoringInit /\ [][ScoringNext]_scoringVars

-----------------------------------------------------------------------------
(* Properties                                                              *)

(* One more thing known against a token never raises its total, nor lifts a   *)
(* kill, nor turns it into a purchase, whatever the weights: through clamps,  *)
(* early returns, replaced patterns and bonuses of the sanitizer, the analyzer *)
(* and scoring.go.                                                          *)
(* The exception is a cluster in rotation that launches once more: the serial *)
(* pattern, which correlation calls the more severe one, costs 15 points of   *)
(* the entity dimension less.                                                *)
RugSignsNeverHelp ==
    [][ \A r \in signs' \ signs :
            \/ r = "serial_launches" /\ "rotation" \in signs
            \/ /\ Total(token, signs', weights) <= Total(token, signs, weights)
               /\ InstantKill(token, signs) => InstantKill(token, signs')
               /\ IsBought(token, signs', weights) => IsBought(token, signs, weights)
      ]_scoringVars
=============================================================================
