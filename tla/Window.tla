------------------------------- MODULE Window -------------------------------
(***************************************************************************)
(* The circular buffers of the feature calculators (internal/features): a  *)
(* fixed array, the next write position and the number of valid entries.    *)
(***************************************************************************)
EXTENDS Integers, Sequences, FiniteSetsExt

Empty(cap, filler) ==
    [buf |-> [i \in 0 .. cap - 1 |-> filler], head |-> 0, count |-> 0]

Cap(r) == Cardinality(DOMAIN r.buf)

\* The slot of the k-th oldest valid entry, k counted from 0.
Slot(r, k) == (r.head - r.count + k + Cap(r)) % Cap(r)
Entry(r, k) == r.buf[Slot(r, k)]

\* The valid entries, oldest first.
Entries(r) == [k \in 1 .. r.count |-> Entry(r, k - 1)]

Full(r) == r.count = Cap(r)

\* Write at head; in a full buffer this overwrites the oldest entry.
Push(r, e) ==
    [buf |-> [r.buf EXCEPT ![r.head] = e],
     head |-> (r.head + 1) % Cap(r),
     count |-> IF Full(r) THEN r.count ELSE r.count + 1]

\* How many entries an eviction from the tail drops: it stops at the first
\* entry that is recent enough, whatever lies behind it.
Expired(r, cutoff) ==
    Min({k \in 0 .. r.count : k = r.count \/ Entry(r, k).ts >= cutoff})

DropExpired(r, cutoff) == [r EXCEPT !.count = @ - Expired(r, cutoff)]
=============================================================================
