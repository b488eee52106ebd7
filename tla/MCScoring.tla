----------------------------- MODULE MCScoring -----------------------------
(* Tokens and weights for module Scoring.                                   *)
EXTENDS Scoring

NoCopy == [signal |-> "NONE", tier |-> 10, confidence |-> 0]
Loud == [telegram |-> 12, twitter |-> 30, discord |-> 5, sources |-> 3,
         kol |-> TRUE, negative |-> FALSE]

\* What the hunter sees of a good token: no social data, no whales.
Hunted == [quote |-> 50, liquidityUSD |-> 60000, lp |-> "burned", age |-> 1,
    info |-> TRUE, holders |-> TRUE, entity |-> TRUE, clean |-> TRUE,
    insiderHops |-> -1, cleanFunder |-> TRUE, social |-> {}, whales |-> {},
    growth |-> "steady", phase |-> "EMERGING",
    copy |-> [signal |-> "FIRST_MOVE", tier |-> 13, confidence |-> 80]]

MCTokens == {
    Hunted,
    [Hunted EXCEPT !.info = FALSE, !.holders = FALSE, !.copy = NoCopy],
    [Hunted EXCEPT !.entity = FALSE, !.lp = "locked", !.age = 20, !.phase = "PEAK"],
    [Hunted EXCEPT !.social = {Loud}, !.whales = {"WHALE_BUY"}, !.clean = FALSE,
        !.insiderHops = 1, !.copy = NoCopy, !.growth = "none", !.liquidityUSD = 20000],
    [Hunted EXCEPT !.social = {Loud}, !.whales = {"KOL_BUY", "WHALE_SELL"},
        !.insiderHops = 2, !.growth = "accelerating", !.liquidityUSD = 8000],
    [Hunted EXCEPT !.social = {[Loud EXCEPT !.negative = TRUE, !.discord = 1,
                                            !.twitter = 3]},
        !.cleanFunder = FALSE, !.phase = "DECLINING", !.age = 200,
        !.liquidityUSD = 1500,
        !.copy = [signal |-> "SELL", tier |-> 7, confidence |-> 50]] }

MCDefaultWeights ==
    [safety |-> 30, entity |-> 15, social |-> 20, onchain |-> 20, timing |-> 15]
MCWeights == { MCDefaultWeights,
    [safety |-> 20, entity |-> 40, social |-> 10, onchain |-> 25, timing |-> 5],
    [safety |-> 45, entity |-> 5, social |-> 20, onchain |-> 15, timing |-> 15] }
MCRugSigns == AllSigns
=============================================================================
