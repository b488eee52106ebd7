------------------------- MODULE PositionLifecycle -------------------------
(***************************************************************************)
(* What a position of the sniper promises its reader (PositionStatus and    *)
(* the onPositionClose callback of sniper.go), whoever sells it and however *)
(* often the swap fails: it is opened once, sold by attempts that each come *)
(* to an end, and closed once, with one report and one booked loss, or      *)
(* given up after MaxSellRetries failed attempts.                           *)
(***************************************************************************)
EXTENDS Integers

CONSTANTS Positions, Losses, MaxSellRetries

VARIABLES
    status,    \* what Position.Status shows
    attempts,  \* failed attempts to sell
    reports,   \* calls of onPositionClose
    booked     \* the daily loss

vars == <<status, attempts, reports, booked>>

Init ==
    /\ status = [p \in Positions |-> "NONE"]
    /\ attempts = [p \in Positions |-> 0]
    /\ reports = [p \in Positions |-> 0]
    /\ booked = 0

Move(p, from, to) ==
    /\ status[p] = from
    /\ status' = [status EXCEPT ![p] = to]

Open(p) == Move(p, "NONE", "OPEN") /\ UNCHANGED <<attempts, reports, booked>>

Begin(p) == Move(p, "OPEN", "CLOSING") /\ UNCHANGED <<attempts, reports, booked>>

Close(p) ==
    /\ Move(p, "CLOSING", "CLOSED")
    /\ reports' = [reports EXCEPT ![p] = @ + 1]
    /\ \E l \in Losses \cup {0} : booked' = booked + l
    /\ UNCHANGED attempts

Fail(p) ==
    /\ \/ attempts[p] + 1 < MaxSellRetries /\ Move(p, "CLOSING", "OPEN")
       \/ attempts[p] + 1 = MaxSellRetries /\ Move(p, "CLOSING", "FAILED")
    /\ attempts' = [attempts EXCEPT ![p] = @ + 1]
    /\ UNCHANGED <<reports, booked>>

Next == \E p \in Positions : Open(p) \/ Begin(p) \/ Close(p) \/ Fail(p)

Spec ==
    /\ Init /\ [][Next]_vars
    /\ \A p \in Positions : WF_vars(Close(p) \/ Fail(p))
=============================================================================
