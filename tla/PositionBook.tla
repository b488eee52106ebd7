---------------------------- MODULE PositionBook ----------------------------
(***************************************************************************)
(* The arithmetic of the position manager (execution/position.go): what a    *)
(* fill does to a position.  A position is a signed quantity, the average    *)
(* price at which it was entered and the profit realized so far.  Fees,      *)
(* timestamps and the trade count are left out.                              *)
(*                                                                         *)
(* The code divides decimals; here prices are integers in a unit so small    *)
(* that the divisions of an instance leave no remainder.                     *)
(***************************************************************************)
EXTENDS Integers

Flat == [qty |-> 0, avg |-> 0, pnl |-> 0]

Magnitude(n) == IF n < 0 THEN -n ELSE n

\* The average price of n at price p together with m at price q (AvgEntry of a
\* position, AvgFillPrice of an order).
Weighted(n, p, m, q) == (n * p + m * q) \div (n + m)

SameDirection(a, b) == (a > 0 /\ b > 0) \/ (a < 0 /\ b < 0)

\* What the part of the position pos that a fill of n at price p closes has earned.
Earned(pos, n, p) ==
    LET a == Magnitude(pos.qty)
        b == Magnitude(n)
        closed == IF b < a THEN b ELSE a
    IN  IF pos.qty > 0 THEN (p - pos.avg) * closed ELSE (pos.avg - p) * closed

\* Mutant: a flipped position keeps its average entry.
EntryKept(pos, n, p) == IF pos.qty + n = 0 THEN 0 ELSE pos.avg

\* Average entry after a fill in the other direction: of nothing, of what is
\* beyond the old position, or of what is left of it.
EntryAfter(pos, n, p) ==
    CASE pos.qty + n = 0 -> 0
      [] SameDirection(pos.qty, pos.qty + n) -> pos.avg
      [] OTHER -> p

\* applyFillToPosition, n is negative for a sell.
Filled(pos, n, p) ==
    IF pos.qty = 0 THEN
        [pos EXCEPT !.qty = n, !.avg = p]
    ELSE IF SameDirection(pos.qty, n) THEN
        [pos EXCEPT !.qty = @ + n,
                    !.avg = Weighted(Magnitude(pos.qty), pos.avg, Magnitude(n), p)]
    ELSE
        [qty |-> pos.qty + n, avg |-> EntryAfter(pos, n, p), pnl |-> pos.pnl + Earned(pos, n, p)]

\* What a position has cost so far: its entry less what it earned.
Cost(pos) == pos.qty * pos.avg - pos.pnl

\* The average leaves no remainder.
Divides(n, p, m, q) == Weighted(n, p, m, q) * (n + m) = n * p + m * q

\* Neither does the one that a fill computes, when it adds to the position.
Even(pos, n, p) ==
    SameDirection(pos.qty, n) => Divides(Magnitude(pos.qty), pos.avg, Magnitude(n), p)
=============================================================================
