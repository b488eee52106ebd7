---------------------------- MODULE SniperProofs ----------------------------
(***************************************************************************)
(* Theorems about Sniper for every number of positions, scanners, workers    *)
(* and closers, every limit and every behaviour of the swaps.                *)
(***************************************************************************)
EXTENDS Sniper, FiniteSetTheorems, TLAPS

(* A warning never asks for more than the position holds. *)
LEMMA WarnShareType ==
    ASSUME NEW a \in Nat, NEW n \in WarnShare(a)
    PROVE  n \in 0 .. a
<1>1. n \in Int /\ a \div 4 <= n /\ n <= (a + 1) \div 2 BY DEF WarnShare
<1>2. a \div 4 >= 0 /\ (a + 1) \div 2 <= a
    <2>1. CASE a = 0 BY <2>1
    <2>2. CASE a > 0 BY <2>2
    <2> QED BY <2>1, <2>2
<1> QED BY <1>1, <1>2

(* The type invariant (TypeOK): every critical section of the engine leaves   *)
(* every field of Engine, Position, ExitTracker and CSM in its range; in      *)
(* particular concurrent partial sells never make AmountToken negative.       *)
THEOREM TypeCorrect == Spec => []TypeOK
<1> USE SniperAssumption
<1>1. Init => TypeOK
    <2> SUFFICES ASSUME Init PROVE TypeOK
        OBVIOUS
    <2>1. /\ status \in [Positions -> Statuses] /\ amount \in [Positions -> 0 .. BuyTokens]
          /\ retries \in [Positions -> Nat] /\ mark \in [Positions -> Losses \cup {0}]
          /\ closes \in [Positions -> Nat] /\ remaining \in [Positions -> 0 .. BuyTokens]
        BY DEF Init, Statuses
    <2>2. /\ csm \in [Positions -> Checks \cup {"none", "watch", "done"}]
          /\ warned \in [Positions -> SUBSET Checks]
          /\ wallet \in [Mints -> Nat] /\ sold \in [Positions -> Nat]
        BY DEF Init, Checks
    <2>3. /\ dpc \in [Dexes -> DiscoverStages]
          /\ dpos \in [Dexes -> Positions \cup {NoPos}]
          /\ \A d \in Dexes : dpc[d] = "idle"
        BY DEF Init, DiscoverStages
    <2>4. /\ spc \in [Sellers -> SellerStages]
          /\ spos \in [Sellers -> Positions \cup {NoPos}]
          /\ samt \in [Sellers -> 0 .. BuyTokens]
          /\ \A s \in Sellers : spc[s] = "idle"
        BY DEF Init, SellerStages, SellStages
    <2>5. /\ fpc \in [Closers -> {"idle", "closing", "done"}]
          /\ todo \in [Closers -> SUBSET Positions]
        BY DEF Init
    <2>6. /\ tracked = {} /\ cancelable = {} /\ cancelled = {} /\ drawn = {}
          /\ spent = 0 /\ loss = 0 /\ dayOver = FALSE
          /\ paid = 0 /\ days \in 0 .. MaxDays /\ rootDone = FALSE
        BY DEF Init
    <2> QED BY <2>1, <2>2, <2>3, <2>4, <2>5, <2>6 DEF TypeOK
<1>2. TypeOK /\ [Next]_vars => TypeOK'
    <2> SUFFICES ASSUME TypeOK, [Next]_vars PROVE TypeOK'
        OBVIOUS
    <2>0. \A p \in Positions : mark[p] \in Nat
        <3>1. mark \in [Positions -> Losses \cup {0}] BY DEF TypeOK
        <3>2. Losses \cup {0} \subseteq Nat OBVIOUS
        <3> QED BY <3>1, <3>2
    <2> USE DEF TypeOK, vars, posVars, exitVars, csmVars, budgetVars, discVars,
                sellVars, forceVars, chainVars, envVars
    <2> USE DEF Statuses, Checks, SellerStages, SellStages, DiscoverStages, Sellers
    <2>1. ASSUME NEW d \in Dexes, NEW p \in Positions, Reserve(d, p) PROVE TypeOK'
        <3>1. SpentNow \in Nat /\ LossNow \in Nat /\ paid' \in Nat /\ dayOver' \in BOOLEAN
            BY <2>1 DEF Reserve, SpentNow, LossNow
        <3>2. CASE spent' = SpentNow /\ UNCHANGED discVars
            BY <2>1, <3>1, <3>2, SMTT(60) DEF Reserve
        <3>3. CASE /\ spent' = SpentNow + MaxBuy
                   /\ dpc' = [dpc EXCEPT ![d] = "reserved"]
                   /\ dpos' = [dpos EXCEPT ![d] = p] /\ UNCHANGED drawn
            BY <2>1, <3>1, <3>3 DEF Reserve
        <3> QED BY <2>1, <3>2, <3>3 DEF Reserve
    <2>2. ASSUME NEW d \in Dexes, CheckLimits(d) PROVE TypeOK'
        BY <2>2, SMTT(30) DEF CheckLimits
    <2>3. ASSUME NEW d \in Dexes, NEW o \in AllOutcomes, BuyReturns(d, o) PROVE TypeOK'
        BY <2>3, SMTT(60) DEF BuyReturns, Refunded
    <2>4. ASSUME NEW d \in Dexes, Insert(d) PROVE TypeOK'
        BY <2>4 DEF Insert
    <2>5. ASSUME NEW d \in Dexes, RegisterCsm(d) PROVE TypeOK'
        BY <2>5 DEF RegisterCsm
    <2>6. ASSUME NEW s \in Sellers, EnterSell(s) PROVE TypeOK'
        BY <2>6, SMTT(60) DEF EnterSell, Return
    <2>7. ASSUME NEW s \in Sellers, SubmitSell(s) PROVE TypeOK'
        BY <2>7 DEF SubmitSell
    <2>8. ASSUME NEW s \in Sellers, SubmitPartial(s) PROVE TypeOK'
        BY <2>8, SMTT(60) DEF SubmitPartial, Return
    <2>9. ASSUME NEW s \in Sellers, NEW o \in AllOutcomes, ConfirmSell(s, o) PROVE TypeOK'
        BY <2>9 DEF ConfirmSell, SwapReturns
    <2>10. ASSUME NEW s \in Sellers, NEW o \in AllOutcomes, ConfirmPartial(s, o) PROVE TypeOK'
        BY <2>10, SMTT(60) DEF ConfirmPartial, SwapReturns, Return
    <2>11. ASSUME NEW s \in Sellers, SettleFailed(s) PROVE TypeOK'
        BY <2>11 DEF SettleFailed, StatusAfterFailure, Return
    <2>12. ASSUME NEW s \in Sellers, SettleSold(s) PROVE TypeOK'
        <3>0. spos[s] \in Positions
            BY <2>12 DEF SettleSold
        <3>1. spos[s] \in Positions /\ mark[spos[s]] \in Nat
            BY <2>0, <3>0
        <3>2. loss' \in Nat /\ cancelled' \subseteq Positions /\ cancelable' \subseteq Positions
            BY <2>12, <3>1 DEF SettleSold
        <3>3. /\ status' \in [Positions -> Statuses] /\ closes' \in [Positions -> Nat]
              /\ remaining' \in [Positions -> 0 .. BuyTokens] /\ tracked' \subseteq Positions
            BY <2>12, <3>1 DEF SettleSold
        <3>4. /\ spc' \in [Sellers -> SellerStages] /\ samt' \in [Sellers -> 0 .. BuyTokens]
              /\ spos' \in [Sellers -> Positions \cup {NoPos}]
              /\ \A t \in Sellers : spc'[t] # "idle" => spos'[t] \in Positions
            BY <2>12 DEF SettleSold, Return
        <3> QED BY <2>12, <3>2, <3>3, <3>4 DEF SettleSold
    <2>13. ASSUME NEW s \in Sellers, SettlePartial(s) PROVE TypeOK'
        BY <2>13 DEF SettlePartial, LessSold, Return
    <2>14. ASSUME NEW m \in Mints, NEW l \in Losses, PriceOnly(m, l) PROVE TypeOK'
        BY <2>14 DEF PriceOnly
    <2>15. ASSUME NEW w \in Workers, NEW q \in Positions, NEW l \in Losses,
                  PriceFullExit(w, q, l)
           PROVE TypeOK'
        BY <2>15 DEF PriceFullExit, PriceUpdates, CallSell
    <2>16. ASSUME NEW w \in Workers, NEW q \in Positions, NEW l \in Losses,
                  NEW n \in 1 .. BuyTokens, PricePartialExit(w, q, l, n)
           PROVE TypeOK'
        BY <2>16 DEF PricePartialExit, PriceUpdates, CallPartialSell
    <2>17. ASSUME NEW p \in Positions, CsmTick(p) PROVE TypeOK'
        BY <2>17 DEF CsmTick
    <2>18. ASSUME NEW p \in Positions, CsmStop(p) PROVE TypeOK'
        BY <2>18 DEF CsmStop
    <2>19. ASSUME NEW p \in Positions, CsmQuiet(p) PROVE TypeOK'
        BY <2>19 DEF CsmQuiet, CheckEnds, NextCheck
    <2>20. ASSUME NEW p \in Positions, CsmPanic(p) PROVE TypeOK'
        BY <2>20 DEF CsmPanic, CheckEnds, NextCheck, CallSell
    <2>21. ASSUME NEW p \in Positions, NEW n \in WarnShare(amount[p]), CsmWarn(p, n)
           PROVE TypeOK'
        <3>1. n \in 0 .. BuyTokens BY WarnShareType
        <3> QED BY <2>21, <3>1 DEF CsmWarn, CheckEnds, NextCheck, CallPartialSell
    <2>22. ASSUME NEW f \in Closers, ForceClose(f) PROVE TypeOK'
        BY <2>22 DEF ForceClose, OpenPositions
    <2>23. ASSUME NEW f \in Closers, NEW p \in Positions, ForceNext(f, p) PROVE TypeOK'
        BY <2>23 DEF ForceNext, CallSell
    <2>24. ASSUME NEW f \in Closers, ForceDone(f) PROVE TypeOK'
        BY <2>24 DEF ForceDone
    <2>25. CASE NewDay BY <2>25 DEF NewDay
    <2>26. CASE CancelRoot BY <2>26 DEF CancelRoot
    <2>27. CASE UNCHANGED vars BY <2>27
    <2> QED
        BY <2>1, <2>2, <2>3, <2>4, <2>5, <2>6, <2>7, <2>8, <2>9, <2>10, <2>11,
           <2>12, <2>13, <2>14, <2>15, <2>16, <2>17, <2>18, <2>19, <2>20,
           <2>21, <2>22, <2>23, <2>24, <2>25, <2>26, <2>27
        DEF Next, Discover, SellerStep, Price, CsmStep, CloserStep
<1> QED BY <1>1, <1>2, PTL DEF Spec

-----------------------------------------------------------------------------
(* Sales: ClosingIsOwned and NoRetryLeft                                   *)

sale == <<status, retries, spc, spos, csm, todo, drawn, dpc, dpos>>

(* The only steps that touch what the theorems on sales talk about. *)
LEMMA SaleSteps ==
    ASSUME [Next]_vars
    PROVE  \/ UNCHANGED sale
           \/ \E d \in Dexes : Discover(d)
           \/ \E s \in Sellers : SellerStep(s)
           \/ \E w \in Workers, q \in Positions, l \in Losses : PriceFullExit(w, q, l)
           \/ \E w \in Workers, q \in Positions, l \in Losses, n \in 1 .. BuyTokens :
                 PricePartialExit(w, q, l, n)
           \/ \E p \in Positions : CsmStep(p)
           \/ \E f \in Closers : CloserStep(f)
    BY DEF Next, Price, PriceOnly, NewDay, CancelRoot, vars, posVars, exitVars, csmVars,
           budgetVars, discVars, sellVars, forceVars, chainVars, envVars, sale

Selling(p, s) == spos[s] = p /\ spc[s] \in SellStages \cup {"sell"}

(* A position is CLOSING only while a goroutine works on its full sell         *)
(* (ClosingIsOwned), for any number of concurrent sellers: executeSell and     *)
(* UpdatePrice set CLOSING for a goroutine that exists, and the only steps by  *)
(* which that goroutine stops working on the sale change the status.           *)
THEOREM ClosingOwned == Spec => []ClosingIsOwned
<1> USE SniperAssumption
<1>1. Init => ClosingIsOwned
    BY DEF Init, ClosingIsOwned
<1>2. TypeOK /\ ClosingIsOwned /\ [Next]_vars => ClosingIsOwned'
    <2> SUFFICES ASSUME TypeOK, ClosingIsOwned, [Next]_vars,
                        NEW p \in Positions, status'[p] = "CLOSING"
                 PROVE  \E s \in Sellers : Selling(p, s)'
        BY DEF ClosingIsOwned, Selling
    <2>1. status[p] = "CLOSING" => \E s \in Sellers : Selling(p, s)
        BY DEF ClosingIsOwned, Selling
    <2>t. /\ status \in [Positions -> Statuses]
          /\ spc \in [Sellers -> SellerStages]
          /\ spos \in [Sellers -> Positions \cup {NoPos}]
        BY DEF TypeOK
    <2>2. ASSUME UNCHANGED <<status, spc, spos>> PROVE \E s \in Sellers : Selling(p, s)'
        BY <2>1, <2>2 DEF Selling
    <2>3. ASSUME NEW d \in Dexes, Discover(d) PROVE \E s \in Sellers : Selling(p, s)'
        <3>1. UNCHANGED <<spc, spos>>
            BY <2>3 DEF Discover, Reserve, CheckLimits, BuyReturns, Insert, RegisterCsm, sellVars
        <3>2. status[p] = "CLOSING"
            BY <2>3, <2>t DEF Discover, Reserve, CheckLimits, BuyReturns, Insert,
                              RegisterCsm, posVars
        <3> QED BY <2>1, <3>1, <3>2 DEF Selling
    <2>4. ASSUME NEW t \in Sellers, SellerStep(t) PROVE \E s \in Sellers : Selling(p, s)'
        <3>1. CASE EnterSell(t)
            <4>1. CASE spos[t] = p
                BY <2>t, <3>1, <4>1 DEF EnterSell, Selling, SellStages, MaySell, Final, Return
            <4>2. CASE spos[t] # p
                <5>1. status[p] = "CLOSING" BY <2>t, <3>1, <4>2 DEF EnterSell
                <5>2. PICK s \in Sellers : Selling(p, s) BY <2>1, <5>1
                <5>3. s # t BY <4>2, <5>2 DEF Selling
                <5> QED BY <2>t, <3>1, <5>2, <5>3 DEF EnterSell, Selling, Return
            <4> QED BY <4>1, <4>2
        <3>2. CASE SettleFailed(t) \/ SettleSold(t)
            <4>1. spos[t] # p /\ status[p] = "CLOSING"
                BY <2>t, <3>2 DEF SettleFailed, SettleSold, StatusAfterFailure
            <4>2. PICK s \in Sellers : Selling(p, s) BY <2>1, <4>1
            <4>3. s # t BY <4>1, <4>2 DEF Selling
            <4> QED BY <2>t, <3>2, <4>2, <4>3 DEF SettleFailed, SettleSold, Selling, Return
        <3>3. CASE SubmitSell(t) \/ \E o \in AllOutcomes : ConfirmSell(t, o)
            <4>1. /\ status[p] = "CLOSING" /\ UNCHANGED spos
                  /\ \A s \in Sellers : s # t => spc'[s] = spc[s]
                  /\ spc'[t] \in SellStages
                BY <2>t, <3>3 DEF SubmitSell, ConfirmSell, SwapReturns, posVars, SellStages
            <4> QED BY <2>1, <4>1 DEF Selling
        <3>4. CASE SubmitPartial(t) \/ SettlePartial(t)
                   \/ \E o \in AllOutcomes : ConfirmPartial(t, o)
            <4>1. /\ status[p] = "CLOSING"
                  /\ \A s \in Sellers : s # t => spc'[s] = spc[s] /\ spos'[s] = spos[s]
                  /\ spc[t] \notin SellStages \cup {"sell"}
                BY <2>t, <3>4 DEF SubmitPartial, SettlePartial, ConfirmPartial, SwapReturns,
                                  Return, posVars, SellStages
            <4>2. PICK s \in Sellers : Selling(p, s) BY <2>1, <4>1
            <4> QED BY <4>1, <4>2 DEF Selling
        <3> QED BY <2>4, <3>1, <3>2, <3>3, <3>4 DEF SellerStep
    <2>5. ASSUME NEW w \in Workers, NEW q \in Positions, NEW l \in Losses,
                 PriceFullExit(w, q, l)
          PROVE  \E s \in Sellers : Selling(p, s)'
        <3>1. w \in Sellers BY DEF Sellers
        <3>2. CASE q = p
            BY <2>t, <2>5, <3>1, <3>2 DEF PriceFullExit, CallSell, Selling
        <3>3. CASE q # p
            <4>1. status[p] = "CLOSING" BY <2>t, <2>5, <3>3 DEF PriceFullExit
            <4>2. PICK s \in Sellers : Selling(p, s) BY <2>1, <4>1
            <4>3. s # w BY <2>5, <4>2 DEF PriceFullExit, Selling, SellStages
            <4> QED BY <2>t, <2>5, <4>2, <4>3 DEF PriceFullExit, CallSell, Selling
        <3> QED BY <3>2, <3>3
    <2>6. ASSUME NEW t \in Sellers, spc[t] = "idle", UNCHANGED status,
                 \A s \in Sellers : s # t => spc'[s] = spc[s] /\ spos'[s] = spos[s]
          PROVE  \E s \in Sellers : Selling(p, s)'
        <3>1. PICK s \in Sellers : Selling(p, s) BY <2>1, <2>6
        <3>2. s # t BY <2>6, <3>1 DEF Selling, SellStages
        <3> QED BY <2>6, <3>1, <3>2 DEF Selling
    <2>7. ASSUME NEW w \in Workers, NEW q \in Positions, NEW l \in Losses,
                 NEW n \in 1 .. BuyTokens, PricePartialExit(w, q, l, n)
          PROVE  \E s \in Sellers : Selling(p, s)'
        <3>1. w \in Sellers /\ spc[w] = "idle" /\ UNCHANGED status
            BY <2>7 DEF PricePartialExit, Sellers
        <3>2. \A s \in Sellers : s # w => spc'[s] = spc[s] /\ spos'[s] = spos[s]
            BY <2>t, <2>7, <3>1 DEF PricePartialExit, CallPartialSell
        <3> QED BY <2>6, <3>1, <3>2
    <2>8. ASSUME NEW c \in Positions, CsmStep(c) PROVE \E s \in Sellers : Selling(p, s)'
        <3>1. CASE CsmTick(c) \/ CsmStop(c) \/ CsmQuiet(c)
            BY <2>2, <3>1 DEF CsmTick, CsmStop, CsmQuiet, CheckEnds, posVars, sellVars
        <3>2. CASE CsmPanic(c) \/ \E n \in WarnShare(amount[c]) : CsmWarn(c, n)
            <4>1. c \in Sellers /\ spc[c] = "idle" /\ UNCHANGED status
                BY <3>2 DEF CsmPanic, CsmWarn, CheckEnds, posVars, Sellers
            <4>2. \A s \in Sellers : s # c => spc'[s] = spc[s] /\ spos'[s] = spos[s]
                BY <2>t, <3>2, <4>1 DEF CsmPanic, CsmWarn, CallSell, CallPartialSell
            <4> QED BY <2>6, <4>1, <4>2
        <3> QED BY <2>8, <3>1, <3>2 DEF CsmStep
    <2>9. ASSUME NEW f \in Closers, CloserStep(f) PROVE \E s \in Sellers : Selling(p, s)'
        <3>1. CASE ForceClose(f) \/ ForceDone(f)
            BY <2>2, <3>1 DEF ForceClose, ForceDone, posVars, sellVars
        <3>2. CASE \E q \in Positions : ForceNext(f, q)
            <4>1. f \in Sellers /\ spc[f] = "idle" /\ UNCHANGED status
                BY <3>2 DEF ForceNext, posVars, Sellers
            <4>2. \A s \in Sellers : s # f => spc'[s] = spc[s] /\ spos'[s] = spos[s]
                BY <2>t, <3>2, <4>1 DEF ForceNext, CallSell
            <4> QED BY <2>6, <4>1, <4>2
        <3> QED BY <2>9, <3>1, <3>2 DEF CloserStep
    <2> QED
        BY SaleSteps, <2>2, <2>3, <2>4, <2>5, <2>7, <2>8, <2>9 DEF sale
<1> QED BY <1>1, <1>2, TypeCorrect, PTL DEF Spec

-----------------------------------------------------------------------------
(* Retries: NoRetryLeft                                                    *)

Stored(p) == status[p] # "NONE"

(* A position that is not stored has failed no sell, and its id is not drawn  *)
(* unless a scanner is buying it.                                            *)
FreshUntried == \A p \in Positions : ~Stored(p) => retries[p] = 0
StoredDrawn == \A p \in Positions : Stored(p) => p \in drawn

(* Whoever sells, watches or is going to close a position, it is stored.     *)
SoldStored == \A s \in Sellers : spc[s] # "idle" => Stored(spos[s])
WatchedStored == \A p \in Positions : csm[p] # "none" => Stored(p)
ListedStored == \A f \in Closers : \A p \in todo[f] : Stored(p)

(* Scanners buy different positions, which are stored from Insert on.        *)
BuysDrawn ==
    \A d \in Dexes :
        /\ dpc[d] \in {"reserved", "buying", "bought"} => ~Stored(dpos[d])
        /\ dpc[d] \in {"buying", "bought", "inserted"} => dpos[d] \in drawn
        /\ dpc[d] = "inserted" => Stored(dpos[d])
BuysApart ==
    \A d, e \in Dexes :
        d # e /\ dpc[d] # "idle" /\ dpc[e] # "idle" => dpos[d] # dpos[e]

SaleInv ==
    /\ FreshUntried /\ StoredDrawn
    /\ SoldStored /\ WatchedStored /\ ListedStored
    /\ BuysDrawn /\ BuysApart
    /\ NoRetryLeft

\* Sales, in every state.
LEMMA SalesInvariant == Spec => []SaleInv
<1> USE SniperAssumption
<1>1. Init => SaleInv
    BY DEF Init, SaleInv, FreshUntried, StoredDrawn, SoldStored, WatchedStored,
           ListedStored, BuysDrawn, BuysApart, NoRetryLeft, Stored
<1>2. TypeOK /\ SaleInv /\ [Next]_vars => SaleInv'
    <2> SUFFICES ASSUME TypeOK, SaleInv, [Next]_vars PROVE SaleInv'
        OBVIOUS
    <2>t. /\ status \in [Positions -> Statuses] /\ retries \in [Positions -> Nat]
          /\ csm \in [Positions -> Checks \cup {"none", "watch", "done"}]
          /\ drawn \subseteq Positions
          /\ dpc \in [Dexes -> DiscoverStages] /\ dpos \in [Dexes -> Positions \cup {NoPos}]
          /\ \A d \in Dexes : dpc[d] # "idle" => dpos[d] \in Positions
          /\ spc \in [Sellers -> SellerStages] /\ spos \in [Sellers -> Positions \cup {NoPos}]
          /\ \A s \in Sellers : spc[s] # "idle" => spos[s] \in Positions
          /\ todo \in [Closers -> SUBSET Positions]
        BY DEF TypeOK
    <2> USE DEF SaleInv, FreshUntried, StoredDrawn, SoldStored, WatchedStored,
                ListedStored, BuysDrawn, BuysApart, NoRetryLeft, Stored
    <2>1. CASE UNCHANGED sale
        BY <2>1 DEF sale
    <2>2. ASSUME NEW d \in Dexes, Discover(d) PROVE SaleInv'
        <3>1. UNCHANGED <<spc, spos, todo, retries>>
            BY <2>2 DEF Discover, Reserve, CheckLimits, BuyReturns, Insert, RegisterCsm,
                        sellVars, forceVars, posVars
        <3>2. ASSUME NEW p \in Positions, Reserve(d, p) PROVE SaleInv'
            BY <2>t, <3>1, <3>2 DEF Reserve, Unused, posVars, csmVars, discVars
        <3>3. CASE CheckLimits(d)
            BY <2>t, <3>1, <3>3 DEF CheckLimits, posVars, csmVars
        <3>4. ASSUME NEW o \in AllOutcomes, BuyReturns(d, o) PROVE SaleInv'
            BY <2>t, <3>1, <3>4 DEF BuyReturns, posVars, csmVars
        <3>5. CASE Insert(d)
            BY <2>t, <3>1, <3>5 DEF Insert, csmVars
        <3>6. CASE RegisterCsm(d)
            BY <2>t, <3>1, <3>6 DEF RegisterCsm, posVars
        <3> QED BY <2>2, <3>2, <3>3, <3>4, <3>5, <3>6 DEF Discover
    <2>3. ASSUME NEW s \in Sellers, SellerStep(s) PROVE SaleInv'
        <3>1. UNCHANGED <<csm, todo, drawn, dpc, dpos>>
            BY <2>3 DEF SellerStep, EnterSell, SubmitSell, SubmitPartial, ConfirmSell,
                        ConfirmPartial, SwapReturns, SettleFailed, SettleSold, SettlePartial,
                        csmVars, discVars, forceVars
        <3>2. spos[s] \in Positions /\ Stored(spos[s])
            BY <2>3, <2>t DEF SellerStep, EnterSell, SubmitSell, SubmitPartial, ConfirmSell,
                        ConfirmPartial, SettleFailed, SettleSold, SettlePartial
        <3>3. CASE EnterSell(s)
            BY <2>t, <3>1, <3>2, <3>3 DEF EnterSell, Return, MaySell, Final, Statuses
        <3>4. CASE SettleFailed(s)
            BY <2>t, <3>1, <3>2, <3>4 DEF SettleFailed, Return, StatusAfterFailure
        <3>5. CASE SettleSold(s)
            BY <2>t, <3>1, <3>2, <3>5 DEF SettleSold, Return
        <3>6. CASE SubmitSell(s) \/ SubmitPartial(s) \/ SettlePartial(s)
                   \/ (\E o \in AllOutcomes : ConfirmSell(s, o))
                   \/ (\E o \in AllOutcomes : ConfirmPartial(s, o))
            <4>1. UNCHANGED <<status, retries>> /\ spc[s] # "idle"
                BY <3>6 DEF SubmitSell, SubmitPartial, ConfirmSell, ConfirmPartial,
                            SwapReturns, SettlePartial, posVars
            <4>2. \A r \in Sellers : spc'[r] # "idle" => spc[r] # "idle" /\ spos'[r] = spos[r]
                BY <2>t, <3>6 DEF SubmitSell, SubmitPartial, ConfirmSell, ConfirmPartial,
                            SettlePartial, Return
            <4> QED BY <2>t, <3>1, <4>1, <4>2
        <3> QED BY <2>3, <3>3, <3>4, <3>5, <3>6 DEF SellerStep
    <2>4. ASSUME NEW w \in Workers, NEW q \in Positions, NEW l \in Losses,
                 PriceFullExit(w, q, l)
          PROVE  SaleInv'
        BY <2>t, <2>4 DEF PriceFullExit, OpenPositions, CallSell, Sellers, csmVars, discVars,
                          forceVars
    <2>5. ASSUME NEW w \in Workers, NEW q \in Positions, NEW l \in Losses,
                 NEW n \in 1 .. BuyTokens, PricePartialExit(w, q, l, n)
          PROVE  SaleInv'
        BY <2>t, <2>5 DEF PricePartialExit, OpenPositions, CallPartialSell, Sellers, csmVars,
                          discVars, forceVars
    <2>6. ASSUME NEW c \in Positions, CsmStep(c) PROVE SaleInv'
        <3>1. CASE CsmTick(c) \/ CsmStop(c) \/ CsmQuiet(c)
            BY <2>t, <3>1 DEF CsmTick, CsmStop, CsmQuiet, CheckEnds, NextCheck, Checks,
                              posVars, sellVars, discVars, forceVars
        <3>2. CASE CsmPanic(c) \/ \E n \in WarnShare(amount[c]) : CsmWarn(c, n)
            BY <2>t, <3>2 DEF CsmPanic, CsmWarn, CheckEnds, NextCheck, Checks, CallSell,
                              CallPartialSell, Sellers, posVars, discVars, forceVars
        <3> QED BY <2>6, <3>1, <3>2 DEF CsmStep
    <2>7. ASSUME NEW f \in Closers, CloserStep(f) PROVE SaleInv'
        <3>1. CASE ForceClose(f)
            BY <2>t, <3>1 DEF ForceClose, OpenPositions, posVars, discVars, sellVars
        <3>2. ASSUME NEW p \in Positions, ForceNext(f, p) PROVE SaleInv'
            BY <2>t, <3>2 DEF ForceNext, CallSell, Sellers, posVars, discVars, csmVars
        <3>3. CASE ForceDone(f)
            BY <2>t, <3>3 DEF ForceDone, posVars, discVars, csmVars, sellVars
        <3> QED BY <2>7, <3>1, <3>2, <3>3 DEF CloserStep
    <2> QED
        BY SaleSteps, <2>1, <2>2, <2>3, <2>4, <2>5, <2>6, <2>7
<1> QED BY <1>1, <1>2, TypeCorrect, PTL DEF Spec

(* However many failing sells of a position run at the same time, it is never *)
(* OPEN or CLOSING with MaxSellRetries failures behind it (NoRetryLeft): each *)
(* failure is counted and judged in one critical section of executeSell, and   *)
(* nothing but Insert, which needs an unused id, makes a position OPEN anew.   *)
THEOREM RetriesBounded == Spec => []NoRetryLeft
<1>1. SaleInv => NoRetryLeft
    BY DEF SaleInv
<1> QED BY <1>1, SalesInvariant, PTL

-----------------------------------------------------------------------------
(* The position limit: OpenBound                                           *)

Bought == {d \in Dexes : dpc[d] = "bought"}

(* In a dry run nobody waits for a swap.                                     *)
NoSwaps ==
    DryRun => /\ \A s \in Sellers : spc[s] \notin {"submit", "confirm", "failed"}
              /\ \A d \in Dexes : dpc[d] # "buying"

(* The positions that are about to be stored count as well.                  *)
OpenAndBought ==
    DryRun => Cardinality(OpenPositions) + Cardinality(Bought)
                  <= MaxPositions + Cardinality(Dexes) - 1

LimitInv == NoSwaps /\ OpenAndBought

(* All sets counted here are finite.                                         *)
LEMMA LimitSets ==
           /\ IsFiniteSet(OpenPositions) /\ IsFiniteSet(Bought)
           /\ Cardinality(OpenPositions) \in Nat /\ Cardinality(Bought) \in Nat
           /\ Cardinality(Dexes) \in Nat /\ Cardinality(Bought) <= Cardinality(Dexes)
<1>1. IsFiniteSet(Positions) /\ IsFiniteSet(Dexes)
    BY SniperAssumption
<1>2. OpenPositions \subseteq Positions /\ Bought \subseteq Dexes
    BY DEF OpenPositions, Bought
<1> QED BY <1>1, <1>2, FS_Subset, FS_CardinalityType

\* The limits, in every state.
LEMMA LimitInvariant == Spec => []LimitInv
<1> USE SniperAssumption
<1>1. Init => LimitInv
    <2> SUFFICES ASSUME Init PROVE LimitInv
        OBVIOUS
    <2>1. OpenPositions = {} /\ Bought = {}
        BY DEF Init, OpenPositions, Bought
    <2>2. Cardinality(OpenPositions) = 0 /\ Cardinality(Bought) = 0
        BY <2>1, FS_EmptySet
    <2>3. NoSwaps
        BY DEF Init, NoSwaps
    <2> QED BY <2>2, <2>3, LimitSets DEF LimitInv, OpenAndBought
<1>2. TypeOK /\ LimitInv /\ [Next]_vars => LimitInv'
    <2> SUFFICES ASSUME TypeOK, LimitInv, [Next]_vars, DryRun PROVE LimitInv'
        BY DEF LimitInv, NoSwaps, OpenAndBought
    <2>t. /\ status \in [Positions -> Statuses]
          /\ dpc \in [Dexes -> DiscoverStages]
          /\ \A d \in Dexes : dpc[d] # "idle" => dpos[d] \in Positions
          /\ spc \in [Sellers -> SellerStages]
        BY DEF TypeOK
    <2>i. /\ \A s \in Sellers : spc[s] \notin {"submit", "confirm", "failed"}
          /\ \A d \in Dexes : dpc[d] # "buying"
          /\ Cardinality(OpenPositions) + Cardinality(Bought)
                 <= MaxPositions + Cardinality(Dexes) - 1
        BY DEF LimitInv, NoSwaps, OpenAndBought
    <2>n. /\ Cardinality(OpenPositions) \in Nat /\ Cardinality(Bought) \in Nat
          /\ Cardinality(Dexes) \in Nat
          /\ IsFiniteSet(OpenPositions) /\ IsFiniteSet(Bought)
        BY LimitSets
    <2>1. ASSUME OpenPositions' \subseteq OpenPositions, Bought' \subseteq Bought, NoSwaps'
          PROVE  LimitInv'
        <3>1. /\ Cardinality(OpenPositions') \in Nat /\ Cardinality(Bought') \in Nat
              /\ Cardinality(OpenPositions') <= Cardinality(OpenPositions)
              /\ Cardinality(Bought') <= Cardinality(Bought)
            BY <2>1, <2>n, FS_Subset, FS_CardinalityType
        <3> QED BY <2>i, <2>n, <2>1, <3>1 DEF LimitInv, OpenAndBought
    <2>2. ASSUME NEW d \in Dexes, CheckLimits(d) PROVE LimitInv'
        <3>1. UNCHANGED <<status, spc>> /\ NoSwaps'
            BY <2>t, <2>i, <2>2 DEF CheckLimits, posVars, sellVars, NoSwaps
        <3>2. OpenPositions' = OpenPositions
            BY <3>1 DEF OpenPositions
        <3>3. CASE ~LimitReached
            <4>1. Cardinality(OpenPositions) <= MaxPositions - 1
                BY <2>n, <3>3 DEF LimitReached
            <4>2. Bought' \subseteq Dexes
                BY DEF Bought
            <4>3. Cardinality(Bought') \in Nat /\ Cardinality(Bought') <= Cardinality(Dexes)
                BY <4>2, SniperAssumption, FS_Subset, FS_CardinalityType
            <4> QED BY <2>n, <3>1, <3>2, <4>1, <4>3 DEF LimitInv, OpenAndBought
        <3>4. CASE LimitReached
            <4>1. Bought' \subseteq Bought
                BY <2>t, <2>2, <3>4 DEF CheckLimits, Bought
            <4> QED BY <2>1, <3>1, <3>2, <4>1
        <3> QED BY <3>3, <3>4
    <2>3. ASSUME NEW d \in Dexes, Insert(d) PROVE LimitInv'
        <3>1. UNCHANGED spc /\ NoSwaps' /\ dpos[d] \in Positions /\ d \in Bought
            BY <2>i, <2>t, <2>3 DEF Insert, sellVars, NoSwaps, Bought
        <3>2. OpenPositions' = OpenPositions \cup {dpos[d]} /\ Bought' = Bought \ {d}
            BY <2>t, <2>3, <3>1 DEF Insert, OpenPositions, Bought
        <3>3. /\ Cardinality(OpenPositions') \in Nat
              /\ Cardinality(OpenPositions') <= Cardinality(OpenPositions) + 1
            <4>1. Cardinality(OpenPositions \cup {dpos[d]}) =
                      IF dpos[d] \in OpenPositions THEN Cardinality(OpenPositions)
                      ELSE Cardinality(OpenPositions) + 1
                BY <2>n, FS_AddElement
            <4> QED BY <2>n, <3>2, <4>1
        <3>4. Cardinality(Bought') = Cardinality(Bought) - 1
            BY <2>n, <3>1, <3>2, FS_RemoveElement
        <3> QED BY <2>i, <2>n, <3>1, <3>3, <3>4 DEF LimitInv, OpenAndBought
    <2>4. ASSUME NEW d \in Dexes,
                 (\E p \in Positions : Reserve(d, p)) \/ RegisterCsm(d)
          PROVE  LimitInv'
        <3>1. UNCHANGED <<status, spc>> /\ NoSwaps'
            BY <2>t, <2>i, <2>4 DEF Reserve, RegisterCsm, posVars, sellVars, discVars, NoSwaps
        <3>2. Bought' \subseteq Bought
            BY <2>t, <2>4 DEF Reserve, RegisterCsm, Bought, discVars
        <3> QED BY <2>1, <3>1, <3>2 DEF OpenPositions
    <2>5. ASSUME NEW d \in Dexes, NEW o \in AllOutcomes, BuyReturns(d, o) PROVE FALSE
        BY <2>i, <2>5 DEF BuyReturns
    <2>6. ASSUME UNCHANGED dpc, OpenPositions' \subseteq OpenPositions,
                 \A s \in Sellers : spc'[s] \notin {"submit", "confirm", "failed"}
          PROVE  LimitInv'
        BY <2>i, <2>1, <2>6 DEF Bought, NoSwaps
    <2>7. ASSUME NEW s \in Sellers, SellerStep(s) PROVE LimitInv'
        <3>1. spc[s] \in {"sell", "sold", "partial", "psold", "pconfirm"} /\ UNCHANGED dpc
            BY <2>7, <2>i DEF SellerStep, EnterSell, SubmitSell, SubmitPartial, ConfirmSell,
                        ConfirmPartial, SwapReturns, SettleFailed, SettleSold, SettlePartial,
                        discVars
        <3>2. OpenPositions' \subseteq OpenPositions
            BY <2>t, <2>7, <3>1 DEF SellerStep, EnterSell, SubmitSell, SubmitPartial,
                        ConfirmSell, ConfirmPartial, SwapReturns, SettleFailed, SettleSold,
                        SettlePartial, posVars, OpenPositions
        <3>3. \A r \in Sellers : spc'[r] \notin {"submit", "confirm", "failed"}
            BY <2>t, <2>i, <2>7, <3>1 DEF SellerStep, EnterSell, SubmitSell, SubmitPartial,
                        ConfirmSell, ConfirmPartial, SettleFailed, SettleSold, SettlePartial,
                        Return
        <3> QED BY <2>6, <3>1, <3>2, <3>3
    <2>8. ASSUME Price PROVE LimitInv'
        <3>1. UNCHANGED dpc /\ OpenPositions' \subseteq OpenPositions
            BY <2>t, <2>8 DEF Price, PriceOnly, PriceFullExit, PricePartialExit, discVars,
                        OpenPositions
        <3>2. \A r \in Sellers : spc'[r] \notin {"submit", "confirm", "failed"}
            BY <2>t, <2>i, <2>8 DEF Price, PriceOnly, PriceFullExit, PricePartialExit, CallSell,
                        CallPartialSell, sellVars, Sellers
        <3> QED BY <2>6, <3>1, <3>2
    <2>9. ASSUME NEW c \in Positions, CsmStep(c) PROVE LimitInv'
        <3>1. UNCHANGED <<dpc, status>>
            BY <2>9 DEF CsmStep, CsmTick, CsmStop, CsmQuiet, CsmPanic, CsmWarn, CheckEnds,
                        discVars, posVars
        <3>2. \A r \in Sellers : spc'[r] \notin {"submit", "confirm", "failed"}
            BY <2>t, <2>i, <2>9 DEF CsmStep, CsmTick, CsmStop, CsmQuiet, CsmPanic, CsmWarn,
                        CallSell, CallPartialSell, sellVars, Sellers
        <3> QED BY <2>6, <3>1, <3>2 DEF OpenPositions
    <2>10. ASSUME NEW f \in Closers, CloserStep(f) PROVE LimitInv'
        <3>1. UNCHANGED <<dpc, status>>
            BY <2>10 DEF CloserStep, ForceClose, ForceNext, ForceDone, discVars, posVars
        <3>2. \A r \in Sellers : spc'[r] \notin {"submit", "confirm", "failed"}
            BY <2>t, <2>i, <2>10 DEF CloserStep, ForceClose, ForceNext, ForceDone, CallSell,
                        sellVars, Sellers
        <3> QED BY <2>6, <3>1, <3>2 DEF OpenPositions
    <2>11. CASE NewDay \/ CancelRoot \/ UNCHANGED vars
        <3>1. UNCHANGED <<dpc, status, spc>>
            BY <2>11 DEF NewDay, CancelRoot, vars, discVars, posVars, sellVars
        <3> QED BY <2>i, <2>6, <3>1 DEF OpenPositions
    <2> QED
        BY <2>2, <2>3, <2>4, <2>5, <2>7, <2>8, <2>9, <2>10, <2>11 DEF Next, Discover
<1> QED BY <1>1, <1>2, TypeCorrect, PTL DEF Spec

(* Two scanners that both passed the position check of OnDiscovery both store *)
(* their position, but in a dry run the limit is exceeded by less than the    *)
(* number of scanners (OpenBound): whoever passes the check last counts what  *)
(* is open and each scanner has at most one purchase under way.               *)
THEOREM OpenBounded == Spec => []OpenBound
<1> USE SniperAssumption
<1>1. LimitInv => OpenBound
    <2> SUFFICES ASSUME LimitInv, DryRun
                 PROVE  Cardinality(OpenPositions) <= MaxPositions + Cardinality(Dexes) - 1
        BY DEF OpenBound
    <2> QED BY LimitSets DEF LimitInv, OpenAndBought
<1> QED BY <1>1, LimitInvariant, PTL

-----------------------------------------------------------------------------
(* The daily budget: DailySpendCap                                         *)

(* The scanners that have reserved budget and not yet paid.                  *)
Owed == {d \in Dexes : dpc[d] \in {"reserved", "buying"}}

(* What was paid and what may still be paid is covered by dailySpentSOL.      *)
Covered ==
    /\ paid + MaxBuy * Cardinality(Owed) <= spent
    /\ spent <= MaxDailySpend

OneDay == ~dayOver /\ days = 0 /\ ~rootDone

\* A product grows by its factor.
LEMMA Products ==
    ASSUME NEW k \in Nat, NEW m \in Nat, NEW n \in Nat
    PROVE  /\ k * n \in Nat
           /\ k * (n + 1) = k * n + k
           /\ m <= n => k * m <= k * n
<1>1. k * n \in Nat /\ k * (n + 1) = k * n + k
    OBVIOUS
<1>2. ASSUME m <= n PROVE k * m <= k * n
    <2>1. PICK j \in Nat : n = m + j
        BY <1>2, n = m + (n - m), n - m \in Nat
    <2>2. k * n = k * m + k * j
        BY <2>1
    <2>3. k * j \in Nat /\ k * m \in Nat
        OBVIOUS
    <2> QED BY <2>2, <2>3
<1> QED BY <1>1, <1>2

(* reserveDailyBudget and refundDailyBudget keep what buys take from the       *)
(* wallet within MaxDailySpendSOL, for any number of scanners: within one day, *)
(* while no shutdown cuts a purchase short and no purchase that landed is       *)
(* reported as an error.  (Each of these lets the code pass the limit.)         *)
THEOREM SpendCapped ==
    ASSUME MaxDays = 0, ShutdownAllowed = FALSE, "unanswered" \notin BuyOutcomes
    PROVE  Spec => []DailySpendCap
<1> USE SniperAssumption
<1>0. Cardinality(Owed) \in Nat /\ IsFiniteSet(Owed) /\ MaxBuy \in Nat
    BY FS_Subset, FS_CardinalityType DEF Owed
<1>1. Init => OneDay /\ Covered
    <2> SUFFICES ASSUME Init PROVE OneDay /\ Covered
        OBVIOUS
    <2>1. Owed = {}
        BY DEF Init, Owed
    <2>2. Cardinality(Owed) = 0
        BY <2>1, FS_EmptySet
    <2> QED BY <2>2 DEF Init, OneDay, Covered
<1>2. TypeOK /\ OneDay /\ Covered /\ [Next]_vars => (OneDay /\ Covered)'
    <2> SUFFICES ASSUME TypeOK, OneDay, Covered, [Next]_vars PROVE (OneDay /\ Covered)'
        OBVIOUS
    <2>t. /\ spent \in Nat /\ paid \in Nat /\ MaxDailySpend \in Nat
          /\ dpc \in [Dexes -> DiscoverStages]
        BY DEF TypeOK
    <2>1. ASSUME UNCHANGED <<dayOver, days, rootDone, paid, spent>>, Owed' \subseteq Owed
          PROVE  (OneDay /\ Covered)'
        <3>1. Cardinality(Owed') \in Nat /\ Cardinality(Owed') <= Cardinality(Owed)
            BY <1>0, <2>1, FS_Subset, FS_CardinalityType
        <3>2. /\ MaxBuy * Cardinality(Owed') <= MaxBuy * Cardinality(Owed)
              /\ MaxBuy * Cardinality(Owed') \in Nat /\ MaxBuy * Cardinality(Owed) \in Nat
            BY <1>0, <3>1, Products
        <3>3. paid + MaxBuy * Cardinality(Owed') <= spent
            BY <2>t, <3>2 DEF Covered
        <3> QED BY <2>1, <3>3 DEF OneDay, Covered
    <2>2. ASSUME NEW d \in Dexes, NEW p \in Positions, Reserve(d, p)
          PROVE  (OneDay /\ Covered)'
        <3>1. /\ OneDay' /\ UNCHANGED paid /\ SpentNow = spent
              /\ dpc[d] = "idle"
            BY <2>2 DEF Reserve, OneDay, SpentNow, envVars
        <3>2. CASE /\ BudgetAllows(SpentNow, LossNow) /\ spent' = SpentNow + MaxBuy
                   /\ dpc' = [dpc EXCEPT ![d] = "reserved"]
            <4>1. Owed' = Owed \cup {d} /\ d \notin Owed
                BY <2>t, <3>1, <3>2 DEF Owed
            <4>2. Cardinality(Owed \cup {d}) = Cardinality(Owed) + 1
                BY <1>0, <4>1, FS_AddElement
            <4>3. MaxBuy * Cardinality(Owed') = MaxBuy * Cardinality(Owed) + MaxBuy
                BY <1>0, <4>1, <4>2, Products
            <4>4. MaxBuy * Cardinality(Owed) \in Nat
                BY <1>0, Products
            <4>5. spent' <= MaxDailySpend /\ spent' = spent + MaxBuy
                BY <2>t, <3>1, <3>2 DEF BudgetAllows
            <4>6. paid' + MaxBuy * Cardinality(Owed') <= spent'
                BY <1>0, <2>t, <3>1, <4>3, <4>4, <4>5 DEF Covered
            <4> QED BY <3>1, <4>5, <4>6 DEF Covered
        <3>3. CASE spent' = SpentNow /\ UNCHANGED discVars
            BY <3>1, <3>3 DEF Covered, Owed, discVars
        <3> QED BY <2>2, <3>2, <3>3 DEF Reserve
    <2>3. ASSUME NEW d \in Dexes, CheckLimits(d) PROVE (OneDay /\ Covered)'
        <3>1. Owed' \subseteq Owed
            BY <2>t, <2>3 DEF CheckLimits, Owed
        <3> QED BY <2>1, <2>3, <3>1 DEF CheckLimits, budgetVars, chainVars, envVars
    <2>4. ASSUME NEW d \in Dexes, NEW o \in AllOutcomes, BuyReturns(d, o)
          PROVE  (OneDay /\ Covered)'
        <3>1. OneDay' /\ d \in Owed /\ o \in {"landed", "failed", "pending"}
            BY <2>4 DEF BuyReturns, OneDay, Owed, Possible, envVars, AllOutcomes
        <3>2. Owed' = Owed \ {d}
            BY <2>t, <2>4 DEF BuyReturns, Owed
        <3>3. Cardinality(Owed \ {d}) = Cardinality(Owed) - 1
            BY <1>0, <3>1, FS_RemoveElement
        <3>4. Cardinality(Owed) - 1 \in Nat
            <4>1. Cardinality(Owed \ {d}) \in Nat
                BY <1>0, FS_RemoveElement, FS_CardinalityType
            <4> QED BY <3>3, <4>1
        <3>5. /\ MaxBuy * Cardinality(Owed) = MaxBuy * Cardinality(Owed') + MaxBuy
              /\ MaxBuy * Cardinality(Owed') \in Nat
            <4> DEFINE n == Cardinality(Owed) - 1
            <4>1. n \in Nat /\ n + 1 = Cardinality(Owed) /\ n = Cardinality(Owed')
                BY <1>0, <3>2, <3>3, <3>4
            <4> HIDE DEF n
            <4>2. MaxBuy * (n + 1) = MaxBuy * n + MaxBuy /\ MaxBuy * n \in Nat
                BY <1>0, <4>1, Products
            <4> QED BY <4>1, <4>2
        <3>6. CASE Reported(o)
            <4>1. spent' = spent /\ paid' \in Nat /\ paid' <= paid + MaxBuy
                BY <1>0, <2>t, <2>4, <3>6 DEF BuyReturns, chainVars
            <4>2. paid' + MaxBuy * Cardinality(Owed') <= spent'
                BY <1>0, <2>t, <3>5, <4>1 DEF Covered
            <4> QED BY <3>1, <4>1, <4>2 DEF Covered
        <3>7. CASE ~Reported(o)
            <4>1. o = "failed"
                BY <3>1, <3>7 DEF Reported
            <4>2. paid' = paid /\ spent' = Refunded(spent)
                BY <2>4, <3>7, <4>1 DEF BuyReturns, Executes, chainVars
            <4>3. spent' \in Nat /\ spent' <= spent /\ spent - MaxBuy <= spent'
                BY <1>0, <2>t, <4>2 DEF Refunded
            <4>4. paid' + MaxBuy * Cardinality(Owed') <= spent'
                BY <1>0, <2>t, <3>5, <4>2, <4>3 DEF Covered
            <4>5. spent' <= MaxDailySpend
                BY <2>t, <4>3 DEF Covered
            <4> QED BY <3>1, <4>4, <4>5 DEF Covered
        <3> QED BY <3>6, <3>7
    <2>5. ASSUME NEW d \in Dexes, Insert(d) \/ RegisterCsm(d) PROVE (OneDay /\ Covered)'
        <3>1. Owed' \subseteq Owed
            BY <2>t, <2>5 DEF Insert, RegisterCsm, Owed
        <3> QED BY <2>1, <2>5, <3>1 DEF Insert, RegisterCsm, budgetVars, chainVars, envVars
    <2>6. ASSUME UNCHANGED <<dayOver, days, rootDone, paid, spent, dpc>>
          PROVE  (OneDay /\ Covered)'
        BY <2>1, <2>6 DEF Owed
    <2>7. ASSUME NEW s \in Sellers, SellerStep(s) PROVE (OneDay /\ Covered)'
        BY <2>6, <2>7 DEF SellerStep, EnterSell, SubmitSell, SubmitPartial, ConfirmSell,
                ConfirmPartial, SwapReturns, SettleFailed, SettleSold, SettlePartial,
                budgetVars, discVars, chainVars, envVars
    <2>8. ASSUME Price PROVE (OneDay /\ Covered)'
        BY <2>6, <2>8 DEF Price, PriceOnly, PriceFullExit, PricePartialExit, budgetVars,
                discVars, chainVars, envVars
    <2>9. ASSUME NEW c \in Positions, CsmStep(c) PROVE (OneDay /\ Covered)'
        BY <2>6, <2>9 DEF CsmStep, CsmTick, CsmStop, CsmQuiet, CsmPanic, CsmWarn, CheckEnds,
                budgetVars, discVars, chainVars, envVars
    <2>10. ASSUME NEW f \in Closers, CloserStep(f) PROVE (OneDay /\ Covered)'
        BY <2>6, <2>10 DEF CloserStep, ForceClose, ForceNext, ForceDone, budgetVars, discVars,
                chainVars, envVars
    <2>11. ASSUME NewDay \/ CancelRoot PROVE FALSE
        BY <2>11 DEF NewDay, CancelRoot, OneDay
    <2>12. CASE UNCHANGED vars
        BY <2>6, <2>12 DEF vars, budgetVars, discVars, chainVars, envVars
    <2> QED
        BY <2>2, <2>3, <2>4, <2>5, <2>7, <2>8, <2>9, <2>10, <2>11, <2>12 DEF Next, Discover
<1>3. TypeOK /\ Covered => DailySpendCap
    <2> SUFFICES ASSUME TypeOK, Covered PROVE paid <= MaxDailySpend
        BY DEF DailySpendCap
    <2>1. MaxBuy * Cardinality(Owed) \in Nat
        BY <1>0, Products
    <2> QED BY <2>1 DEF TypeOK, Covered
<1> QED BY <1>1, <1>2, <1>3, TypeCorrect, PTL DEF Spec

-----------------------------------------------------------------------------
(* Closing once: ClosedIsFinal                                             *)

(* Outside a failed swap no step takes a position out of CLOSED: a second      *)
(* sell of it is turned away by executeSell or closes it again, and a new      *)
(* purchase stores another id.                                               *)
LEMMA OnlyFailureReopens ==
    ASSUME TypeOK, SaleInv, [Next]_vars, \A s \in Sellers : spc[s] # "failed",
           NEW p \in Positions, status[p] = "CLOSED"
    PROVE  status'[p] = "CLOSED"
<1>t. /\ status \in [Positions -> Statuses]
      /\ \A d \in Dexes : dpc[d] # "idle" => dpos[d] \in Positions
      /\ \A s \in Sellers : spc[s] # "idle" => spos[s] \in Positions
    BY DEF TypeOK
<1>1. ASSUME NEW d \in Dexes, Discover(d) PROVE status'[p] = "CLOSED"
    <2>1. CASE Insert(d)
        <3>1. dpos[d] # p
            BY <2>1 DEF Insert, SaleInv, BuysDrawn, Stored
        <3> QED BY <1>t, <2>1, <3>1 DEF Insert
    <2>2. CASE ~Insert(d)
        BY <1>1, <2>2 DEF Discover, Reserve, CheckLimits, BuyReturns, RegisterCsm, posVars
    <2> QED BY <2>1, <2>2
<1>2. ASSUME NEW s \in Sellers, SellerStep(s) PROVE status'[p] = "CLOSED"
    <2>1. CASE EnterSell(s)
        BY <1>t, <2>1 DEF EnterSell, MaySell, Final
    <2>2. CASE SettleSold(s)
        BY <1>t, <2>2 DEF SettleSold
    <2>3. CASE ~EnterSell(s) /\ ~SettleSold(s)
        BY <1>2, <2>3 DEF SellerStep, SubmitSell, SubmitPartial, ConfirmSell, ConfirmPartial,
                          SwapReturns, SettleFailed, SettlePartial, posVars
    <2> QED BY <2>1, <2>2, <2>3
<1>3. CASE Price
    BY <1>t, <1>3 DEF Price, PriceOnly, PriceFullExit, PricePartialExit, OpenPositions
<1>4. ASSUME NEW c \in Positions, CsmStep(c) PROVE status'[p] = "CLOSED"
    BY <1>4 DEF CsmStep, CsmTick, CsmStop, CsmQuiet, CsmPanic, CsmWarn, CheckEnds, posVars
<1>5. ASSUME NEW f \in Closers, CloserStep(f) PROVE status'[p] = "CLOSED"
    BY <1>5 DEF CloserStep, ForceClose, ForceNext, ForceDone, posVars
<1>6. CASE NewDay \/ CancelRoot \/ UNCHANGED vars
    BY <1>6 DEF NewDay, CancelRoot, vars, posVars
<1> QED
    BY <1>1, <1>2, <1>3, <1>4, <1>5, <1>6 DEF Next

(* In a dry run a position that was closed stays closed (ClosedIsFinal), for   *)
(* any number of goroutines that sell it at the same time: they may close it   *)
(* twice, but only a failed swap opens it again (executeSell), and a dry run   *)
(* waits for none.                                                          *)
THEOREM ClosedStays ==
    ASSUME DryRun
    PROVE  Spec => ClosedIsFinal
<1>1. TypeOK /\ SaleInv /\ LimitInv /\ [Next]_vars
        => [\A p \in Positions : status[p] = "CLOSED" => status'[p] = "CLOSED"]_vars
    <2> SUFFICES ASSUME TypeOK, SaleInv, LimitInv, [Next]_vars,
                        NEW p \in Positions, status[p] = "CLOSED"
                 PROVE  status'[p] = "CLOSED"
        OBVIOUS
    <2>1. \A s \in Sellers : spc[s] # "failed"
        BY DEF LimitInv, NoSwaps
    <2> QED BY <2>1, OnlyFailureReopens
<1> QED BY <1>1, TypeCorrect, SalesInvariant, LimitInvariant, PTL DEF Spec, ClosedIsFinal

-----------------------------------------------------------------------------
(* One seller: MonitoredWhileOpen and PositionLifecycle                     *)

(* The monitor sells nothing but its own position, which is CLOSING exactly    *)
(* while it does, and it is cancelled or ends only after the position has.     *)
Monitored(p) ==
    /\ spc[p] # "idle" => spos[p] = p /\ csm[p] \notin {"none", "done"}
    /\ status[p] = "CLOSING" <=> spc[p] \in SellStages
    /\ p \in cancelled => status[p] = "CLOSED"
    /\ csm[p] = "done" => status[p] \in Final

SoloInv == ~rootDone /\ \A p \in Positions : Monitored(p)

\* A sniper that trades alone, in every state.
LEMMA SoloInvariant ==
    ASSUME Workers = {}, Closers = {}, ShutdownAllowed = FALSE
    PROVE  Spec => []SoloInv
<1> USE SniperAssumption
<1>0. Sellers = Positions
    BY DEF Sellers
<1>1. Init => SoloInv
    BY <1>0 DEF Init, SoloInv, Monitored, SellStages
<1>2. TypeOK /\ SaleInv /\ SoloInv /\ [Next]_vars => SoloInv'
    <2> SUFFICES ASSUME TypeOK, SaleInv, SoloInv, [Next]_vars PROVE SoloInv'
        OBVIOUS
    <2>t. /\ status \in [Positions -> Statuses]
          /\ csm \in [Positions -> Checks \cup {"none", "watch", "done"}]
          /\ \A d \in Dexes : dpc[d] # "idle" => dpos[d] \in Positions
          /\ spc \in [Positions -> SellerStages]
          /\ spos \in [Positions -> Positions \cup {NoPos}]
        BY <1>0 DEF TypeOK
    <2>s. \A p \in Positions : Monitored(p)
        BY DEF SoloInv
    <2>r. ~rootDone /\ ~rootDone'
        BY SMTT(60) DEF SoloInv, Next, Discover, Reserve, CheckLimits, BuyReturns, Insert, RegisterCsm,
               SellerStep, EnterSell, SubmitSell, SubmitPartial, ConfirmSell, ConfirmPartial,
               SwapReturns, SettleFailed, SettleSold, SettlePartial, Price, PriceOnly,
               PriceFullExit, PricePartialExit, CsmStep, CsmTick, CsmStop, CsmQuiet, CsmPanic,
               CsmWarn, CheckEnds, CloserStep, NewDay, CancelRoot, vars, envVars
    <2>1. ASSUME NEW d \in Dexes, Discover(d), NEW p \in Positions PROVE Monitored(p)'
        <3>1. UNCHANGED <<spc, spos, cancelled>>
            BY <2>1 DEF Discover, Reserve, CheckLimits, BuyReturns, Insert, RegisterCsm,
                        sellVars, csmVars
        <3>2. CASE Insert(d)
            <4>1. UNCHANGED csm /\ status' = [status EXCEPT ![dpos[d]] = "OPEN"]
                BY <3>2 DEF Insert, csmVars
            <4>2. status[dpos[d]] = "NONE" /\ dpos[d] \in Positions
                BY <2>t, <3>2 DEF Insert, SaleInv, BuysDrawn, Stored
            <4>3. CASE p = dpos[d]
                <5>1. spc[p] \notin SellStages /\ p \notin cancelled /\ csm[p] # "done"
                    BY <2>s, <4>2, <4>3 DEF Monitored, Final
                <5>2. status'[p] = "OPEN"
                    BY <2>t, <4>1, <4>2, <4>3
                <5> QED BY <2>s, <3>1, <4>1, <5>1, <5>2 DEF Monitored
            <4>4. CASE p # dpos[d]
                BY <2>s, <2>t, <3>1, <4>1, <4>4 DEF Monitored
            <4> QED BY <4>3, <4>4
        <3>3. CASE RegisterCsm(d)
            BY <2>s, <2>t, <3>1, <3>3 DEF RegisterCsm, Monitored, posVars
        <3>4. CASE (\E q \in Positions : Reserve(d, q)) \/ CheckLimits(d)
                   \/ \E o \in AllOutcomes : BuyReturns(d, o)
            BY <2>s, <3>1, <3>4 DEF Reserve, CheckLimits, BuyReturns, Monitored, posVars, csmVars
        <3> QED BY <2>1, <3>2, <3>3, <3>4 DEF Discover
    <2>2. ASSUME NEW s \in Positions, SellerStep(s), NEW p \in Positions PROVE Monitored(p)'
        <3>0. UNCHANGED csm /\ spos[s] = s /\ spc[s] # "idle"
            BY <2>2, <2>s DEF Monitored, SellerStep, EnterSell, SubmitSell, SubmitPartial, ConfirmSell,
                        ConfirmPartial, SwapReturns, SettleFailed, SettleSold, SettlePartial, csmVars
        <3>1. CASE p # s
            <4>1. /\ spc'[p] = spc[p] /\ spos'[p] = spos[p] /\ status'[p] = status[p]
                  /\ p \in cancelled' => p \in cancelled
                BY <2>2, <2>t, <3>0, <3>1 DEF SellerStep, EnterSell, SubmitSell, SubmitPartial,
                        ConfirmSell, ConfirmPartial, SwapReturns, SettleFailed, SettleSold,
                        SettlePartial, Return, csmVars, posVars
            <4> QED BY <2>s, <3>0, <4>1 DEF Monitored
        <3>2. CASE p = s
            <4>1. /\ csm[s] \notin {"none", "done"} /\ Monitored(s)
                BY <2>s, <3>0 DEF Monitored
            <4>2. CASE EnterSell(s)
                BY <2>t, <3>0, <3>2, <4>1, <4>2 DEF EnterSell, Monitored, MaySell, Final, Return,
                        SellStages, csmVars, Statuses
            <4>3. CASE SubmitSell(s) \/ \E o \in AllOutcomes : ConfirmSell(s, o)
                BY <2>t, <3>0, <3>2, <4>1, <4>3 DEF SubmitSell, ConfirmSell, SwapReturns, Monitored,
                        SellStages, csmVars, posVars
            <4>4. CASE SubmitPartial(s) \/ SettlePartial(s)
                       \/ \E o \in AllOutcomes : ConfirmPartial(s, o)
                BY <2>t, <3>0, <3>2, <4>1, <4>4 DEF SubmitPartial, SettlePartial, ConfirmPartial,
                        SwapReturns, Return, Monitored, SellStages, csmVars, posVars
            <4>5. CASE SettleFailed(s)
                BY <2>t, <3>0, <3>2, <4>1, <4>5 DEF SettleFailed, StatusAfterFailure, Return,
                        Monitored, SellStages, csmVars
            <4>6. CASE SettleSold(s)
                BY <2>t, <3>0, <3>2, <4>1, <4>6 DEF SettleSold, Return, Monitored, SellStages, Final
            <4> QED BY <2>2, <4>2, <4>3, <4>4, <4>5, <4>6 DEF SellerStep
        <3> QED BY <3>1, <3>2
    <2>3. ASSUME NEW c \in Positions, CsmStep(c), NEW p \in Positions PROVE Monitored(p)'
        <3>1. UNCHANGED <<status, cancelled>> /\ spc[c] = "idle" /\ csm[c] # "none"
            BY <2>3 DEF CsmStep, CsmTick, CsmStop, CsmQuiet, CsmPanic, CsmWarn, CheckEnds, posVars,
                        Checks
        <3>2. \A q \in Positions : q # c =>
                csm'[q] = csm[q] /\ spc'[q] = spc[q] /\ spos'[q] = spos[q]
            BY <2>3, <2>t DEF CsmStep, CsmTick, CsmStop, CsmQuiet, CsmPanic, CsmWarn, CheckEnds,
                        CallSell, CallPartialSell, sellVars
        <3>3. status[c] \notin {"NONE", "CLOSING"}
            BY <2>s, <3>1 DEF Monitored, SellStages, SaleInv, WatchedStored, Stored
        <3>4. CASE p # c
            BY <2>s, <3>1, <3>2, <3>4 DEF Monitored
        <3>5. CASE p = c /\ CsmTick(c)
            BY <2>s, <2>t, <3>1, <3>3, <3>5 DEF CsmTick, Monitored, Statuses, Final, sellVars
        <3>6. CASE p = c /\ CsmStop(c)
            BY <2>s, <2>t, <2>r, <3>1, <3>6 DEF CsmStop, ContextDone, Monitored, Final, sellVars
        <3>7. CASE p = c /\ (CsmQuiet(c) \/ CsmPanic(c)
                              \/ \E n \in WarnShare(amount[c]) : CsmWarn(c, n))
            <4>1. csm'[c] \notin {"none", "done"}
                BY <2>t, <3>7 DEF CsmQuiet, CsmPanic, CsmWarn, CheckEnds, NextCheck, Checks
            <4>2. \/ UNCHANGED <<spc, spos>>
                  \/ spc'[c] \in {"sell", "partial"} /\ spos'[c] = c
                BY <2>t, <3>7 DEF CsmQuiet, CsmPanic, CsmWarn, CallSell, CallPartialSell, sellVars
            <4> QED BY <2>s, <3>1, <3>3, <3>7, <4>1, <4>2 DEF Monitored, SellStages
        <3> QED BY <2>3, <3>4, <3>5, <3>6, <3>7 DEF CsmStep
    <2>4. ASSUME UNCHANGED <<status, spc, spos, csm, cancelled>>, NEW p \in Positions
          PROVE  Monitored(p)'
        BY <2>4, <2>s DEF Monitored
    <2>5. CASE Price
        BY <2>r, <2>4, <2>5 DEF Price, PriceOnly, sellVars, csmVars, SoloInv
    <2>6. CASE NewDay \/ UNCHANGED vars
        BY <2>r, <2>4, <2>6 DEF NewDay, vars, posVars, sellVars, csmVars, SoloInv
    <2>7. ~CancelRoot
        BY DEF CancelRoot
    <2> QED
        BY <1>0, <2>r, <2>1, <2>2, <2>3, <2>5, <2>6, <2>7 DEF Next, SoloInv
<1> QED BY <1>1, <1>2, TypeCorrect, SalesInvariant, PTL DEF Spec

(* Where the monitor of a position is its only seller and nobody shuts the     *)
(* process down, an OPEN position has its monitor (MonitoredWhileOpen), also   *)
(* after sells that failed: Run reads Status between its own sells only, so it *)
(* never finds CLOSING.                                                     *)
THEOREM MonitorStays ==
    ASSUME Workers = {}, Closers = {}, ShutdownAllowed = FALSE
    PROVE  Spec => []MonitoredWhileOpen
<1>1. SoloInv => MonitoredWhileOpen
    BY DEF SoloInv, Monitored, MonitoredWhileOpen, Final
<1> QED BY <1>1, SoloInvariant, PTL

(* Within one day no reservation resets the daily loss.                      *)
LEMMA SameDay ==
    ASSUME MaxDays = 0
    PROVE  Spec => []~dayOver
<1>1. Init => ~dayOver
    BY DEF Init
<1>2. TypeOK /\ ~dayOver /\ [Next]_vars => ~dayOver'
    <2> SUFFICES ASSUME TypeOK, ~dayOver, [Next]_vars PROVE ~dayOver'
        OBVIOUS
    <2>1. ~NewDay
        BY DEF NewDay, TypeOK
    <2>2. CASE \E d \in Dexes : Discover(d)
        BY <2>2 DEF Discover, Reserve, CheckLimits, BuyReturns, Insert, RegisterCsm, budgetVars
    <2>3. CASE \E s \in Sellers : SellerStep(s)
        BY <2>3 DEF SellerStep, EnterSell, SubmitSell, SubmitPartial, ConfirmSell, ConfirmPartial,
               SwapReturns, SettleFailed, SettleSold, SettlePartial, budgetVars
    <2>4. CASE Price \/ (\E p \in Positions : CsmStep(p)) \/ \E f \in Closers : CloserStep(f)
        BY <2>4 DEF Price, PriceOnly, PriceFullExit, PricePartialExit, CsmStep, CsmTick, CsmStop,
               CsmQuiet, CsmPanic, CsmWarn, CheckEnds, CloserStep, ForceClose, ForceNext,
               ForceDone, budgetVars
    <2>5. CASE CancelRoot \/ UNCHANGED vars
        BY <2>5 DEF CancelRoot, vars, budgetVars
    <2> QED BY <2>1, <2>2, <2>3, <2>4, <2>5 DEF Next
<1> QED BY <1>1, <1>2, TypeCorrect, PTL DEF Spec

(* In the same setting, and within one day, the engine implements              *)
(* PositionLifecycle as far as safety goes: every step of its goroutines       *)
(* opens, begins, closes or fails one position as the abstract specification   *)
(* allows, or leaves alone what it shows.                                    *)
THEOREM LifecycleImplemented ==
    ASSUME Workers = {}, Closers = {}, ShutdownAllowed = FALSE, MaxDays = 0
    PROVE  Spec => Lifecycle!Init /\ [][Lifecycle!Next]_(Lifecycle!vars)
<1> USE SniperAssumption
<1>0. Sellers = Positions
    BY DEF Sellers
<1>1. Init => Lifecycle!Init
    BY DEF Init, Lifecycle!Init
<1>2. TypeOK /\ SaleInv /\ SoloInv /\ ~dayOver /\ [Next]_vars
        => [Lifecycle!Next]_(Lifecycle!vars)
    <2> DEFINE shown == <<status, retries, closes, loss>>
    <2> SUFFICES ASSUME TypeOK, SaleInv, SoloInv, ~dayOver, [Next]_vars
                 PROVE  Lifecycle!Next \/ UNCHANGED shown
        BY DEF Lifecycle!vars
    <2>t. /\ status \in [Positions -> Statuses] /\ retries \in [Positions -> Nat]
          /\ mark \in [Positions -> Losses \cup {0}]
          /\ \A d \in Dexes : dpc[d] # "idle" => dpos[d] \in Positions
        BY DEF TypeOK
    <2>s. \A p \in Positions : Monitored(p)
        BY DEF SoloInv
    <2>1. ASSUME NEW d \in Dexes, Insert(d) PROVE Lifecycle!Next
        <3>1. dpos[d] \in Positions /\ status[dpos[d]] = "NONE"
            BY <2>t, <2>1 DEF Insert, SaleInv, BuysDrawn, Stored
        <3>2. Lifecycle!Open(dpos[d])
            BY <2>1, <3>1 DEF Insert, Lifecycle!Open, Lifecycle!Move, budgetVars
        <3> QED BY <3>1, <3>2 DEF Lifecycle!Next
    <2>2. ASSUME NEW d \in Dexes, Discover(d), ~Insert(d) PROVE UNCHANGED shown
        BY <2>2 DEF Discover, Reserve, LossNow, CheckLimits, BuyReturns, RegisterCsm, posVars,
                    budgetVars
    <2>3. ASSUME NEW s \in Positions, SellerStep(s) PROVE Lifecycle!Next \/ UNCHANGED shown
        <3>0. spos[s] = s /\ (status[s] = "CLOSING" <=> spc[s] \in SellStages)
            BY <2>3, <2>s DEF Monitored, SellerStep, EnterSell, SubmitSell, SubmitPartial,
                        ConfirmSell, ConfirmPartial, SettleFailed, SettleSold, SettlePartial
        <3>1. CASE EnterSell(s) /\ MaySell(s)
            <4>1. status[s] = "OPEN"
                <5>1. spc[s] = "sell"
                    BY <3>1 DEF EnterSell
                <5>2. status[s] # "NONE" /\ status[s] # "CLOSING"
                    BY <1>0, <3>0, <5>1 DEF SaleInv, SoldStored, Stored, SellStages
                <5> QED BY <2>t, <3>1, <5>2 DEF MaySell, Final, Statuses
            <4>2. Lifecycle!Begin(s)
                BY <3>0, <3>1, <4>1 DEF EnterSell, Lifecycle!Begin, Lifecycle!Move, budgetVars
            <4> QED BY <4>2 DEF Lifecycle!Next
        <3>2. CASE SettleFailed(s)
            <4>1. status[s] = "CLOSING" /\ retries[s] < MaxSellRetries /\ retries[s] \in Nat
                BY <2>t, <3>0, <3>2 DEF SettleFailed, SellStages, SaleInv, NoRetryLeft
            <4>2. /\ status' = [status EXCEPT ![s] = StatusAfterFailure(retries[s] + 1)]
                  /\ retries' = [retries EXCEPT ![s] = @ + 1]
                  /\ UNCHANGED <<closes, loss>>
                BY <3>0, <3>2 DEF SettleFailed, budgetVars
            <4>3. CASE retries[s] + 1 = MaxSellRetries
                <5>1. StatusAfterFailure(retries[s] + 1) = "FAILED"
                    BY <4>1, <4>3 DEF StatusAfterFailure
                <5> QED BY <4>1, <4>2, <4>3, <5>1 DEF Lifecycle!Fail, Lifecycle!Move, Lifecycle!Next
            <4>4. CASE retries[s] + 1 < MaxSellRetries
                <5>1. StatusAfterFailure(retries[s] + 1) = "OPEN"
                    BY <4>1, <4>4 DEF StatusAfterFailure
                <5> QED BY <4>1, <4>2, <4>4, <5>1 DEF Lifecycle!Fail, Lifecycle!Move, Lifecycle!Next
            <4> QED BY <4>1, <4>3, <4>4
        <3>3. CASE SettleSold(s)
            <4>1. status[s] = "CLOSING" /\ mark[s] \in Losses \cup {0}
                BY <2>t, <3>0, <3>3 DEF SettleSold, SellStages
            <4>2. Lifecycle!Close(s)
                BY <3>0, <3>3, <4>1 DEF SettleSold, Lifecycle!Close, Lifecycle!Move
            <4> QED BY <4>2 DEF Lifecycle!Next
        <3>4. CASE \/ EnterSell(s) /\ ~MaySell(s)
                   \/ SubmitSell(s) \/ SubmitPartial(s) \/ SettlePartial(s)
                   \/ (\E o \in AllOutcomes : ConfirmSell(s, o))
                   \/ (\E o \in AllOutcomes : ConfirmPartial(s, o))
            BY <3>0, <3>4 DEF EnterSell, SubmitSell, SubmitPartial, ConfirmSell, ConfirmPartial,
                        SwapReturns, SettlePartial, posVars, budgetVars
        <3> QED BY <2>3, <3>1, <3>2, <3>3, <3>4 DEF SellerStep
    <2>4. ASSUME NEW c \in Positions, CsmStep(c) PROVE UNCHANGED shown
        BY <2>4 DEF CsmStep, CsmTick, CsmStop, CsmQuiet, CsmPanic, CsmWarn, CheckEnds, posVars,
                    budgetVars
    <2>5. CASE Price
        BY <2>5 DEF Price, PriceOnly, budgetVars
    <2>6. CASE NewDay \/ CancelRoot \/ UNCHANGED vars
        BY <2>6 DEF NewDay, CancelRoot, vars, posVars, budgetVars
    <2> QED
        BY <1>0, <2>1, <2>2, <2>3, <2>4, <2>5, <2>6 DEF Next
<1> QED
    BY <1>1, <1>2, TypeCorrect, SalesInvariant, SoloInvariant, SameDay, PTL DEF Spec

-----------------------------------------------------------------------------
(* What is closed is sold: ClosedMeansSold                                 *)

(* The tokens that left the wallet in partial sells which still have to be     *)
(* subtracted from the position, one element for each token.                 *)
Unbooked(p) ==
    {t \in Sellers \X (1 .. BuyTokens) :
        spc[t[1]] = "psold" /\ spos[t[1]] = p /\ t[2] <= samt[t[1]]}

(* The tokens of one seller are as many as it sold.                          *)
LEMMA Block ==
    ASSUME NEW s, NEW n \in Nat
    PROVE  IsFiniteSet({s} \X (1 .. n)) /\ Cardinality({s} \X (1 .. n)) = n
<1>1. IsFiniteSet(1 .. n) /\ Cardinality(1 .. n) = n
    BY FS_Interval
<1>2. IsFiniteSet({s}) /\ Cardinality({s}) = 1
    BY FS_Singleton
<1>3. /\ IsFiniteSet({s} \X (1 .. n))
      /\ Cardinality({s} \X (1 .. n)) = Cardinality({s}) * Cardinality(1 .. n)
    BY <1>1, <1>2, FS_Product
<1> QED BY <1>1, <1>2, <1>3

(* What was sold of a stored position and what it still counts make up what it *)
(* was bought with, and what is unbooked comes on top.                        *)
Covers ==
    \A p \in Positions :
        Stored(p) => BuyTokens + Cardinality(Unbooked(p)) <= amount[p] + sold[p]
(* A full sell asks for everything that was not sold yet, until it has got it. *)
SellsAll ==
    /\ \A s \in Sellers : spc[s] = "confirm" => BuyTokens <= samt[s] + sold[spos[s]]
    /\ \A s \in Sellers : spc[s] = "sold" => BuyTokens <= sold[spos[s]]
    /\ \A p \in Positions : status[p] = "CLOSED" => BuyTokens <= sold[p]

SoldInv == Covers /\ SellsAll

FiniteSellers == IsFiniteSet(Workers) /\ IsFiniteSet(Closers)

\* Finitely many sales of a position are yet to be booked.
LEMMA UnbookedFinite ==
    ASSUME FiniteSellers, NEW p
    PROVE  /\ IsFiniteSet(Unbooked(p)) /\ Cardinality(Unbooked(p)) \in Nat
           /\ IsFiniteSet(Unbooked(p)') /\ Cardinality(Unbooked(p)') \in Nat
<1>1. IsFiniteSet(Sellers)
    BY FS_Union, SniperAssumption DEF Sellers, FiniteSellers
<1>2. IsFiniteSet(1 .. BuyTokens)
    BY FS_Interval, SniperAssumption
<1>3. IsFiniteSet(Sellers \X (1 .. BuyTokens))
    BY <1>1, <1>2, FS_Product
<1>4. /\ Unbooked(p) \subseteq Sellers \X (1 .. BuyTokens)
      /\ Unbooked(p)' \subseteq Sellers \X (1 .. BuyTokens)
    BY DEF Unbooked
<1> QED BY <1>3, <1>4, FS_Subset, FS_CardinalityType

(* A position that nobody sells a part of has nothing unbooked.               *)
LEMMA NothingUnbooked ==
    ASSUME SaleInv, NEW p \in Positions, ~Stored(p)
    PROVE  Cardinality(Unbooked(p)) = 0
<1>1. Unbooked(p) = {}
    BY DEF Unbooked, SaleInv, SoldStored
<1> QED BY <1>1, FS_EmptySet

(* Steps of scanners: only a new position changes an amount, and its amount is *)
(* what it was bought with.                                                  *)
LEMMA SoldDiscover ==
    ASSUME TypeOK, SaleInv, SoldInv, FiniteSellers,
           NEW d \in Dexes, Discover(d)
    PROVE  SoldInv'
<1> USE SniperAssumption
<1>t. /\ status \in [Positions -> Statuses] /\ amount \in [Positions -> 0 .. BuyTokens]
      /\ \A e \in Dexes : dpc[e] # "idle" => dpos[e] \in Positions
      /\ \A s \in Sellers : spc[s] # "idle" => spos[s] \in Positions
      /\ sold \in [Positions -> Nat]
    BY DEF TypeOK
<1>s. /\ UNCHANGED <<spc, spos, samt, sold>>
      /\ \A p \in Positions : Unbooked(p)' = Unbooked(p)
    BY DEF Discover, Reserve, CheckLimits, BuyReturns, Insert, RegisterCsm, sellVars, chainVars,
           Unbooked
<1>1. CASE Insert(d)
    <2> DEFINE p == dpos[d]
    <2>1. p \in Positions /\ ~Stored(p)
        BY <1>t, <1>1 DEF Insert, SaleInv, BuysDrawn
    <2>2. /\ \A q \in Positions : q # p => amount'[q] = amount[q] /\ status'[q] = status[q]
          /\ amount'[p] = BuyTokens /\ status'[p] = "OPEN"
        BY <1>t, <1>1, <2>1 DEF Insert
    <2>3. Covers'
        <3>1. Cardinality(Unbooked(p)) = 0 /\ sold[p] \in Nat
            BY <1>t, <2>1, NothingUnbooked
        <3>2. BuyTokens + Cardinality(Unbooked(p)) <= amount'[p] + sold[p]
            BY <2>2, <3>1
        <3> QED BY <1>s, <2>1, <2>2, <3>2 DEF SoldInv, Covers, Stored
    <2>4. SellsAll'
        BY <1>s, <2>2 DEF SoldInv, SellsAll
    <2> QED BY <2>3, <2>4 DEF SoldInv
<1>2. CASE ~Insert(d)
    <2>1. UNCHANGED <<status, amount>>
        BY <1>2 DEF Discover, Reserve, CheckLimits, BuyReturns, RegisterCsm, posVars
    <2> QED BY <1>s, <2>1 DEF SoldInv, Covers, SellsAll, Stored
<1> QED BY <1>1, <1>2

(* Only a seller that enters or leaves "psold" changes what is unbooked.      *)
LEMMA UnbookedStays ==
    ASSUME NEW s \in Sellers, spc[s] # "psold", spc'[s] # "psold",
           \A r \in Sellers : r # s => /\ spc'[r] = spc[r] /\ spos'[r] = spos[r]
                                       /\ samt'[r] = samt[r]
    PROVE  \A p : Unbooked(p)' = Unbooked(p)
BY DEF Unbooked

(* What a swap reports as landed was sold; nothing is ever unsold.             *)
LEMMA SwapSells ==
    ASSUME TypeOK, NEW s \in Sellers, spos[s] \in Positions, NEW o \in AllOutcomes,
           SwapReturns(s, o)
    PROVE  /\ \A q \in Positions : sold[q] \in Nat /\ sold'[q] \in Nat /\ sold[q] <= sold'[q]
           /\ \A q \in Positions : q # spos[s] => sold'[q] = sold[q]
           /\ o = "landed" => sold'[spos[s]] = sold[spos[s]] + samt[s]
<1>1. sold \in [Positions -> Nat] /\ samt[s] \in Nat
    BY SniperAssumption DEF TypeOK
<1>2. CASE Executes(o)
    <2>1. sold' = [sold EXCEPT ![spos[s]] = @ + samt[s]]
        BY <1>2 DEF SwapReturns
    <2> QED BY <1>1, <2>1
<1>3. CASE ~Executes(o)
    <2>1. sold' = sold /\ o # "landed"
        BY <1>3 DEF SwapReturns, Executes
    <2> QED BY <1>1, <2>1
<1> QED BY <1>2, <1>3

(* Steps of sellers: a full sell that lands sells the rest, a partial one       *)
(* moves tokens to the unbooked and from there off the position's amount.      *)
LEMMA SoldSeller ==
    ASSUME TypeOK, SaleInv, SoldInv, FiniteSellers, ~DryRun,
           "pending" \notin SellOutcomes,
           NEW s \in Sellers, SellerStep(s)
    PROVE  SoldInv'
<1> USE SniperAssumption
<1>t. /\ status \in [Positions -> Statuses] /\ amount \in [Positions -> 0 .. BuyTokens]
      /\ \A r \in Sellers : spc[r] # "idle" => spos[r] \in Positions
      /\ spc \in [Sellers -> SellerStages] /\ spos \in [Sellers -> Positions \cup {NoPos}]
      /\ samt \in [Sellers -> 0 .. BuyTokens]
      /\ sold \in [Positions -> Nat]
    BY DEF TypeOK
<1>q. spos[s] \in Positions /\ Stored(spos[s]) /\ spc[s] # "idle"
    BY <1>t DEF SaleInv, SoldStored, SellerStep, EnterSell, SubmitSell, SubmitPartial,
           ConfirmSell, ConfirmPartial, SettleFailed, SettleSold, SettlePartial
<1>r. PICK p \in Positions : p = spos[s]
    BY <1>q
<1>p. spos[s] = p /\ p \in Positions /\ Stored(p) /\ spc[s] # "idle"
    BY <1>t, <1>q, <1>r
<1>o. \A r \in Sellers : r # s => spc'[r] = spc[r] /\ spos'[r] = spos[r] /\ samt'[r] = samt[r]
    BY <1>t DEF SellerStep, EnterSell, SubmitSell, SubmitPartial, ConfirmSell, ConfirmPartial,
           SettleFailed, SettleSold, SettlePartial, Return
<1>n. \A q \in Positions : Cardinality(Unbooked(q)) \in Nat /\ Cardinality(Unbooked(q)') \in Nat
    BY UnbookedFinite
<1>c. Covers /\ SellsAll
    BY DEF SoldInv
<1>1. CASE EnterSell(s)
    <2>1. UNCHANGED <<amount, sold>> /\ spc'[s] \in {"submit", "idle"} /\ spc[s] = "sell"
        BY <1>p, <1>t, <1>1 DEF EnterSell, Return, chainVars
    <2>2. \A q \in Positions : /\ Stored(q)' <=> Stored(q)
                               /\ status'[q] = "CLOSED" => status[q] = "CLOSED"
        BY <1>t, <1>p, <1>1 DEF EnterSell, Stored
    <2>3. \A q \in Positions : Unbooked(q)' = Unbooked(q)
        BY <1>o, <2>1, UnbookedStays
    <2> QED BY <1>p, <1>c, <1>o, <2>1, <2>2, <2>3 DEF SoldInv, Covers, SellsAll
<1>2. CASE SubmitSell(s)
    <2>1. /\ UNCHANGED <<amount, sold, status, spos>> /\ spc'[s] \in {"failed", "confirm"}
          /\ spc[s] = "submit" /\ samt'[s] = amount[p]
        BY <1>p, <1>t, <1>2 DEF SubmitSell, chainVars, posVars
    <2>2. \A q \in Positions : Unbooked(q)' = Unbooked(q)
        BY <1>o, <2>1, UnbookedStays
    <2>3. BuyTokens <= amount[p] + sold[p]
        <3>1. sold[p] \in Nat /\ amount[p] \in Nat
            BY <1>t, <1>p
        <3>2. BuyTokens + Cardinality(Unbooked(p)) <= amount[p] + sold[p]
            BY <1>c, <1>p DEF Covers
        <3> QED BY <1>n, <1>p, <3>1, <3>2
    <2> QED BY <1>p, <1>c, <1>o, <2>1, <2>2, <2>3 DEF SoldInv, Covers, SellsAll, Stored
<1>3. CASE SubmitPartial(s) \/ SettleFailed(s)
    <2>1. /\ UNCHANGED <<amount, sold>> /\ spc'[s] \in {"idle", "pconfirm"}
          /\ spc[s] \in {"partial", "failed"}
        BY <1>p, <1>t, <1>3 DEF SubmitPartial, SettleFailed, Return, chainVars, posVars
    <2>2. \A q \in Positions : /\ Stored(q)' <=> Stored(q)
                               /\ status'[q] = "CLOSED" => status[q] = "CLOSED"
        BY <1>t, <1>p, <1>3 DEF SubmitPartial, SettleFailed, StatusAfterFailure, Stored, posVars
    <2>3. \A q \in Positions : Unbooked(q)' = Unbooked(q)
        BY <1>o, <2>1, UnbookedStays
    <2> QED BY <1>p, <1>c, <1>o, <2>1, <2>2, <2>3 DEF SoldInv, Covers, SellsAll
<1>4. CASE SettleSold(s)
    <2>1. /\ UNCHANGED <<amount, sold>> /\ spc'[s] = "idle" /\ spc[s] = "sold"
          /\ status' = [status EXCEPT ![p] = "CLOSED"]
        BY <1>p, <1>t, <1>4 DEF SettleSold, Return, chainVars
    <2>2. \A q \in Positions : /\ Stored(q)' <=> Stored(q)
                               /\ q # p => status'[q] = status[q]
        BY <1>t, <1>p, <2>1 DEF Stored
    <2>3. \A q \in Positions : Unbooked(q)' = Unbooked(q)
        BY <1>o, <2>1, UnbookedStays
    <2>4. BuyTokens <= sold[p]
        BY <1>p, <1>c, <2>1 DEF SellsAll
    <2> QED BY <1>p, <1>c, <1>o, <2>1, <2>2, <2>3, <2>4 DEF SoldInv, Covers, SellsAll
<1>5. ASSUME NEW o \in AllOutcomes, ConfirmSell(s, o) PROVE SoldInv'
    <2>1. UNCHANGED <<amount, status, spos, samt>> /\ spc[s] = "confirm"
        BY <1>p, <1>5 DEF ConfirmSell, SwapReturns, posVars
    <2>2. spc'[s] \in {"sold", "failed"} /\ (spc'[s] = "sold" => o = "landed")
        BY <1>p, <1>t, <1>5 DEF ConfirmSell, SwapReturns, Reported, Executes, Possible, AllOutcomes
    <2>3. \A q \in Positions : Unbooked(q)' = Unbooked(q)
        BY <1>o, <2>1, <2>2, UnbookedStays
    <2>4. /\ \A q \in Positions : sold[q] \in Nat /\ sold'[q] \in Nat /\ sold[q] <= sold'[q]
          /\ o = "landed" => sold'[p] = sold[p] + samt[s]
        BY <1>p, <1>5, SwapSells DEF ConfirmSell
    <2>5. samt[s] \in Nat /\ BuyTokens <= samt[s] + sold[p]
        BY <1>t, <1>c, <1>p, <2>1 DEF SellsAll
    <2>6. Covers'
        <3> SUFFICES ASSUME NEW q \in Positions, Stored(q)
                     PROVE  BuyTokens + Cardinality(Unbooked(q)) <= amount[q] + sold'[q]
            BY <1>p, <2>1, <2>3 DEF Covers, Stored
        <3>1. BuyTokens + Cardinality(Unbooked(q)) <= amount[q] + sold[q]
            BY <1>p, <1>c DEF Covers
        <3>2. amount[q] \in Nat /\ Cardinality(Unbooked(q)) \in Nat
            BY <1>p, <1>t, <1>n
        <3>3. sold[q] \in Nat /\ sold'[q] \in Nat /\ sold[q] <= sold'[q]
            BY <2>4
        <3> QED BY <1>p, <3>1, <3>2, <3>3
    <2>7. SellsAll'
        <3>1. ASSUME NEW r \in Sellers, spc'[r] = "confirm"
              PROVE  BuyTokens <= samt'[r] + sold'[spos'[r]]
            <4>1. r # s /\ spc[r] = "confirm" /\ spos'[r] = spos[r] /\ samt'[r] = samt[r]
                  /\ spos[r] \in Positions /\ samt[r] \in Nat
                BY <1>t, <1>o, <2>2, <3>1
            <4>2. BuyTokens <= samt[r] + sold[spos[r]]
                BY <1>c, <4>1 DEF SellsAll
            <4>3. /\ sold[spos[r]] \in Nat /\ sold'[spos[r]] \in Nat
                  /\ sold[spos[r]] <= sold'[spos[r]]
                BY <2>4, <4>1
            <4> QED BY <4>1, <4>2, <4>3
        <3>2. ASSUME NEW r \in Sellers, spc'[r] = "sold"
              PROVE  BuyTokens <= sold'[spos'[r]]
            <4>1. CASE r = s
                BY <1>p, <2>1, <2>2, <2>4, <2>5, <3>2, <4>1
            <4>2. CASE r # s
                <5>1. spc[r] = "sold" /\ spos'[r] = spos[r] /\ spos[r] \in Positions
                    BY <1>t, <1>o, <3>2, <4>2
                <5>2. BuyTokens <= sold[spos[r]]
                    BY <1>c, <5>1 DEF SellsAll
                <5> QED BY <2>4, <5>1, <5>2
            <4> QED BY <4>1, <4>2
        <3>3. ASSUME NEW q \in Positions, status[q] = "CLOSED" PROVE BuyTokens <= sold'[q]
            <4>1. BuyTokens <= sold[q]
                BY <1>c, <3>3 DEF SellsAll
            <4> QED BY <2>4, <4>1
        <3> QED BY <2>1, <3>1, <3>2, <3>3 DEF SellsAll
    <2> QED BY <2>6, <2>7 DEF SoldInv
<1>6. ASSUME NEW o \in AllOutcomes, ConfirmPartial(s, o) PROVE SoldInv'
    <2> DEFINE n == samt[s]
    <2>1. UNCHANGED <<amount, status>> /\ spc[s] = "pconfirm" /\ n \in Nat /\ n \in 0 .. BuyTokens
        BY <1>p, <1>t, <1>6 DEF ConfirmPartial, SwapReturns, posVars
    <2>2. \/ spc'[s] = "psold" /\ o = "landed" /\ UNCHANGED <<spos, samt>>
          \/ spc'[s] = "idle"
        BY <1>p, <1>t, <1>6 DEF ConfirmPartial, SwapReturns, Reported, Executes, Possible, AllOutcomes,
               Return
    <2>3. /\ \A q \in Positions : sold[q] \in Nat /\ sold'[q] \in Nat /\ sold[q] <= sold'[q]
          /\ \A q \in Positions : q # p => sold'[q] = sold[q]
          /\ o = "landed" => sold'[p] = sold[p] + n
        BY <1>p, <1>6, SwapSells DEF ConfirmPartial
    <2>4. Covers'
        <3> SUFFICES ASSUME NEW q \in Positions, Stored(q)
                     PROVE  BuyTokens + Cardinality(Unbooked(q)') <= amount[q] + sold'[q]
            BY <1>p, <2>1 DEF Covers, Stored
        <3>c. BuyTokens + Cardinality(Unbooked(q)) <= amount[q] + sold[q]
            BY <1>c DEF Covers
        <3>n. /\ amount[q] \in Nat /\ sold[q] \in Nat /\ sold'[q] \in Nat /\ sold[q] <= sold'[q]
              /\ Cardinality(Unbooked(q)) \in Nat
            BY <1>t, <1>n, <2>3
        <3>1. CASE spc'[s] = "idle"
            <4>1. Unbooked(q)' = Unbooked(q)
                BY <1>o, <2>1, <3>1, UnbookedStays
            <4> QED BY <3>c, <3>n, <4>1
        <3>2. CASE spc'[s] = "psold" /\ q # p /\ UNCHANGED <<spos, samt>>
            <4>1. Unbooked(q)' = Unbooked(q)
                BY <1>p, <1>o, <2>1, <3>2 DEF Unbooked
            <4> QED BY <3>c, <3>n, <4>1
        <3>3. CASE spc'[s] = "psold" /\ q = p /\ o = "landed" /\ UNCHANGED <<spos, samt>>
            <4>2. /\ Unbooked(p)' = Unbooked(p) \cup ({s} \X (1 .. n))
                  /\ Unbooked(p) \cap ({s} \X (1 .. n)) = {}
                BY <1>p, <1>o, <2>1, <3>3 DEF Unbooked
            <4>3. Cardinality(Unbooked(p)') = Cardinality(Unbooked(p)) + n
                <5>1. IsFiniteSet(Unbooked(p)) /\ IsFiniteSet({s} \X (1 .. n))
                      /\ Cardinality({s} \X (1 .. n)) = n
                    BY <1>p, <2>1, UnbookedFinite, Block
                <5>2. Cardinality(Unbooked(p) \cup ({s} \X (1 .. n))) =
                          Cardinality(Unbooked(p)) + n - Cardinality({})
                    BY <4>2, <5>1, FS_Union
                <5> QED BY <1>n, <1>p, <2>1, <4>2, <5>2, FS_EmptySet
            <4>4. sold'[p] = sold[p] + n /\ n \in Nat
                BY <2>1, <2>3, <3>3
            <4> HIDE DEF n
            <4> QED BY <3>c, <3>n, <3>3, <4>3, <4>4
        <3> QED BY <2>2, <3>1, <3>2, <3>3
    <2>5. SellsAll'
        <3>1. ASSUME NEW r \in Sellers, spc'[r] \in {"confirm", "sold"}
              PROVE  /\ spos'[r] = spos[r] /\ spc'[r] = spc[r] /\ samt'[r] = samt[r]
                     /\ spos[r] \in Positions /\ samt[r] \in Nat
                     /\ sold[spos[r]] \in Nat /\ sold'[spos[r]] \in Nat
                     /\ sold[spos[r]] <= sold'[spos[r]]
            <4>1. r # s
                BY <1>p, <2>2, <3>1
            <4>2. spos[r] \in Positions /\ spc'[r] = spc[r] /\ spos'[r] = spos[r] /\ samt'[r] = samt[r]
                BY <1>p, <1>o, <1>t, <3>1, <4>1
            <4> QED BY <1>t, <2>3, <4>2
        <3>2. ASSUME NEW r \in Sellers, spc'[r] = "confirm"
              PROVE  BuyTokens <= samt'[r] + sold'[spos'[r]]
            <4>1. spc[r] = "confirm"
                BY <3>1, <3>2
            <4>2. BuyTokens <= samt[r] + sold[spos[r]]
                BY <1>c, <4>1 DEF SellsAll
            <4> QED BY <3>1, <3>2, <4>2
        <3>3. ASSUME NEW r \in Sellers, spc'[r] = "sold"
              PROVE  BuyTokens <= sold'[spos'[r]]
            <4>1. spc[r] = "sold"
                BY <3>1, <3>3
            <4>2. BuyTokens <= sold[spos[r]]
                BY <1>c, <4>1 DEF SellsAll
            <4> QED BY <3>1, <3>3, <4>2
        <3>4. ASSUME NEW q \in Positions, status[q] = "CLOSED" PROVE BuyTokens <= sold'[q]
            <4>1. BuyTokens <= sold[q]
                BY <1>c, <3>4 DEF SellsAll
            <4> QED BY <2>3, <4>1
        <3> QED BY <2>1, <3>2, <3>3, <3>4 DEF SellsAll
    <2> QED BY <2>4, <2>5 DEF SoldInv
<1>7. CASE SettlePartial(s)
    <2> DEFINE n == samt[s]
    <2>1. /\ UNCHANGED <<status, sold>> /\ spc[s] = "psold" /\ spc'[s] = "idle"
          /\ n \in Nat /\ n \in 0 .. BuyTokens
          /\ amount' = [amount EXCEPT ![p] = LessSold(@, n)]
        BY <1>p, <1>t, <1>7 DEF SettlePartial, Return, chainVars
    <2>2. \A q \in Positions : q # p => Unbooked(q)' = Unbooked(q) /\ amount'[q] = amount[q]
        BY <1>p, <1>t, <1>o, <2>1 DEF Unbooked
    <2>3. /\ Unbooked(p)' = Unbooked(p) \ ({s} \X (1 .. n))
          /\ {s} \X (1 .. n) \subseteq Unbooked(p)
        <3>1. {s} \X (1 .. n) \subseteq Unbooked(p)
            BY <1>p, <2>1 DEF Unbooked
        <3>2. \A t \in Unbooked(p)' : t \in Unbooked(p) /\ t[1] # s
            BY <1>p, <1>o, <2>1 DEF Unbooked
        <3>3. \A t \in Unbooked(p) : t[1] # s => t \in Unbooked(p)'
            BY <1>p, <1>o DEF Unbooked
        <3>4. \A t \in Unbooked(p) : t[1] = s => t \in {s} \X (1 .. n)
            BY DEF Unbooked
        <3>5. \A t \in {s} \X (1 .. n) : t[1] = s
            OBVIOUS
        <3> QED BY <1>p, <3>1, <3>2, <3>3, <3>4, <3>5
    <2>4. Cardinality(Unbooked(p)') = Cardinality(Unbooked(p)) - n
        <3> DEFINE block == {s} \X (1 .. n)
        <3>1. IsFiniteSet(Unbooked(p)) /\ Cardinality(block) = n
            BY <1>p, <2>1, UnbookedFinite, Block
        <3>2. Unbooked(p) \cap block = block
            BY <1>p, <2>3
        <3>3. Cardinality(Unbooked(p) \ block) =
                  Cardinality(Unbooked(p)) - Cardinality(Unbooked(p) \cap block)
            BY <3>1, FS_Difference
        <3> QED BY <1>p, <2>3, <3>1, <3>2, <3>3
    <2>5. /\ sold[p] \in Nat /\ amount[p] \in Nat
          /\ Cardinality(Unbooked(p)) \in Nat /\ Cardinality(Unbooked(p)') \in Nat
        BY <1>t, <1>n, <1>p
    <2>6. BuyTokens + Cardinality(Unbooked(p)) <= amount[p] + sold[p]
        BY <1>c, <1>p DEF Covers
    <2>n. n \in Nat
        BY <1>p, <2>1
    <2>7. amount'[p] >= amount[p] - n /\ amount'[p] \in Nat
        BY <1>t, <1>p, <2>1, <2>5 DEF LessSold
    <2>8. BuyTokens + Cardinality(Unbooked(p)') <= amount'[p] + sold[p]
        <3> HIDE DEF n
        <3> QED BY <2>n, <2>4, <2>5, <2>6, <2>7
    <2> QED BY <1>c, <1>o, <1>p, <2>1, <2>2, <2>8 DEF SoldInv, Covers, SellsAll, Stored
<1> QED BY <1>1, <1>2, <1>3, <1>4, <1>5, <1>6, <1>7 DEF SellerStep

(* What is closed has been sold (ClosedMeansSold): with any number of workers, *)
(* monitors and calls of ForceClose, whose full and partial sells of a          *)
(* position overlap, fail, or land and are reported as errors, and whatever     *)
(* number of tokens the buys delivered.  A full sell works from the amount it   *)
(* read before its swap; that amount is never less than what was recorded at   *)
(* the purchase and not sold yet, so with a swap that lands all of it is sold.  *)
(* No swap is reported while it is pending (which the code takes for a         *)
(* success).                                                               *)
THEOREM ClosedSold ==
    ASSUME FiniteSellers, "pending" \notin SellOutcomes
    PROVE  Spec => []ClosedMeansSold
<1> USE SniperAssumption
<1>1. CASE DryRun
    <2>1. ClosedMeansSold
        BY <1>1 DEF ClosedMeansSold
    <2> QED BY <2>1, PTL
<1>2. CASE ~DryRun
    <2>1. Init => SoldInv
        <3> SUFFICES ASSUME Init PROVE SoldInv
            OBVIOUS
        <3>1. \A p \in Positions : ~Stored(p) /\ status[p] # "CLOSED"
            BY DEF Init, Stored
        <3>2. \A s \in Sellers : spc[s] = "idle"
            BY DEF Init
        <3> QED BY <3>1, <3>2 DEF SoldInv, Covers, SellsAll
    <2>2. TypeOK /\ SaleInv /\ SoldInv /\ [Next]_vars => SoldInv'
        <3> SUFFICES ASSUME TypeOK, SaleInv, SoldInv, [Next]_vars PROVE SoldInv'
            OBVIOUS
        <3>t. /\ status \in [Positions -> Statuses]
              /\ spc \in [Sellers -> SellerStages] /\ spos \in [Sellers -> Positions \cup {NoPos}]
              /\ samt \in [Sellers -> 0 .. BuyTokens]
            BY DEF TypeOK
        <3>1. ASSUME UNCHANGED <<amount, sold>>,
                     \A p \in Positions : /\ Stored(p)' <=> Stored(p)
                                          /\ status'[p] = "CLOSED" => status[p] = "CLOSED",
                     \A s \in Sellers :
                         \/ spc'[s] = spc[s] /\ spos'[s] = spos[s] /\ samt'[s] = samt[s]
                         \/ spc[s] = "idle" /\ spc'[s] \in {"sell", "partial"}
              PROVE  SoldInv'
            <4>1. \A p : Unbooked(p)' = Unbooked(p)
                BY <3>1 DEF Unbooked
            <4> QED BY <3>1, <4>1 DEF SoldInv, Covers, SellsAll
        <3>2. CASE Price
            BY <3>t, <3>1, <3>2 DEF Price, PriceOnly, PriceFullExit, PricePartialExit, CallSell,
                   CallPartialSell, OpenPositions, Stored, sellVars, chainVars, Sellers
        <3>3. ASSUME NEW c \in Positions, CsmStep(c) PROVE SoldInv'
            <4>1. UNCHANGED <<amount, status, sold>>
                BY <3>3 DEF CsmStep, CsmTick, CsmStop, CsmQuiet, CsmPanic, CsmWarn, CheckEnds,
                       posVars, chainVars
            <4>2. \A s \in Sellers :
                         \/ spc'[s] = spc[s] /\ spos'[s] = spos[s] /\ samt'[s] = samt[s]
                         \/ spc[s] = "idle" /\ spc'[s] \in {"sell", "partial"}
                BY <3>t, <3>3 DEF CsmStep, CsmTick, CsmStop, CsmQuiet, CsmPanic, CsmWarn, CheckEnds,
                       CallSell, CallPartialSell, sellVars, Sellers
            <4> QED BY <3>1, <4>1, <4>2 DEF Stored
        <3>4. ASSUME NEW f \in Closers, CloserStep(f) PROVE SoldInv'
            <4>1. UNCHANGED <<amount, status, sold>>
                BY <3>4 DEF CloserStep, ForceClose, ForceNext, ForceDone, posVars, chainVars
            <4>2. \A s \in Sellers :
                         \/ spc'[s] = spc[s] /\ spos'[s] = spos[s] /\ samt'[s] = samt[s]
                         \/ spc[s] = "idle" /\ spc'[s] \in {"sell", "partial"}
                BY <3>t, <3>4 DEF CloserStep, ForceClose, ForceNext, ForceDone, CallSell, sellVars,
                       Sellers
            <4> QED BY <3>1, <4>1, <4>2 DEF Stored
        <3>5. CASE NewDay \/ CancelRoot \/ UNCHANGED vars
            BY <3>1, <3>5 DEF NewDay, CancelRoot, vars, posVars, sellVars, chainVars, Stored
        <3> QED BY <1>2, <3>2, <3>3, <3>4, <3>5, SoldDiscover, SoldSeller DEF Next
    <2>3. TypeOK /\ SoldInv => ClosedMeansSold
        BY DEF SoldInv, SellsAll, ClosedMeansSold, TypeOK
    <2> QED BY <2>1, <2>2, <2>3, TypeCorrect, SalesInvariant, PTL DEF Spec
<1> QED BY <1>1, <1>2
=============================================================================
