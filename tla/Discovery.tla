----------------------------- MODULE Discovery -----------------------------
(***************************************************************************)
(* The token scanner: internal/scanner/scanner.go.  One goroutine for each  *)
(* DEX takes pools from its subscription, or from polls when there is none   *)
(* or it has ended; another one forgets old pools.  They share seenPools,    *)
(* and handle a pool in steps: only the look into seenPools and the entry    *)
(* are one critical section.                                                *)
(*                                                                         *)
(* What subscriptions and polls return is external: any pool that exists,    *)
(* any number of times.  Where a pool came from makes no difference to what   *)
(* is done with it, and a goroutine that ends takes no more steps: neither    *)
(* is represented.  Reserves only decide whether a pool is rejected.          *)
(***************************************************************************)
EXTENDS Integers, FiniteSets

CONSTANTS
    Pools,
    MonitorDEXes,
    MaxTrackedPools,
    MaxTokenAge,
    LastMinute      \* bound: time

ASSUME DiscoveryAssumption ==
    /\ IsFiniteSet(Pools)
    /\ MaxTrackedPools \in Nat \ {0} /\ MaxTokenAge \in Nat /\ LastMinute \in Nat

VARIABLES
    minute,
    createdAt,      \* per pool; its DEX reports it from then on
    handling,       \* per DEX: {} or the pool it handles, with its step
    seenAt,         \* seenPools: the pools tracked, with the time of their entry
    toDelete,       \* cleanupLoop: the keys collected, {} while it waits
    entered,        \* history: pools entered, and not displaced since
    repeated        \* history: pools discovered through an entry that
                    \* followed another one without being displaced
dvars == <<minute, createdAt, handling, seenAt, toDelete, entered, repeated>>

DInit ==
    /\ minute = 0 /\ createdAt \in [Pools -> 0 .. 1]
    /\ handling = [d \in MonitorDEXes |-> {}]
    /\ seenAt = <<>> /\ toDelete = {}
    /\ entered = {} /\ repeated = {}

Tracked == DOMAIN seenAt
Oldest == {p \in Tracked : \A q \in Tracked : seenAt[p] <= seenAt[q]}

-----------------------------------------------------------------------------
(* handlePool, in the goroutine of a DEX                                    *)

Idle(d) == handling[d] = {}
\* again: the entry followed another one.
InHand(p, step, again) == {[pool |-> p, step |-> step, again |-> again]}

\* One critical section: a pool that is tracked is dropped, a new one is
\* entered, in place of the oldest when the map is full.
EnterPool(d, p) ==
    /\ Idle(d) /\ createdAt[p] <= minute
    /\ p \notin Tracked
    /\ \E out \in IF Cardinality(Tracked) >= MaxTrackedPools
                  THEN {{q} : q \in Oldest} ELSE {{}} :
          /\ seenAt' = [q \in (Tracked \ out) \cup {p} |->
                           IF q = p THEN minute ELSE seenAt[q]]
          /\ entered' = (entered \ out) \cup {p}
    /\ handling' = [handling EXCEPT ![d] = InHand(p, "filter", p \in entered)]
    /\ UNCHANGED <<minute, createdAt, toDelete, repeated>>

\* Mutant: the age of a token is not looked at.
TooOldNever(p) == p \notin Pools
TooOld(p) == minute - createdAt[p] > MaxTokenAge

\* Liquidity, quote reserve, age.
RejectPool(d) ==
    /\ \E h \in handling[d] : h.step = "filter"
    /\ handling' = [handling EXCEPT ![d] = {}]
    /\ UNCHANGED <<minute, createdAt, seenAt, toDelete, entered, repeated>>
PassPool(d) ==
    /\ \E h \in handling[d] :
          /\ h.step = "filter" /\ ~TooOld(h.pool)
          /\ handling' = [handling EXCEPT ![d] = InHand(h.pool, "info", h.again)]
    /\ UNCHANGED <<minute, createdAt, seenAt, toDelete, entered, repeated>>

\* GetTokenInfo returns, with or without an answer; the callback (the pipeline
\* of module Hunter) runs in the goroutine of the DEX.
EmitDiscovery(d) ==
    /\ \E h \in handling[d] :
          /\ h.step = "info"
          /\ repeated' = IF h.again THEN repeated \cup {h.pool} ELSE repeated
    /\ handling' = [handling EXCEPT ![d] = {}]
    /\ UNCHANGED <<minute, createdAt, seenAt, toDelete, entered>>

-----------------------------------------------------------------------------
(* cleanupLoop, and time                                                    *)

Expirable == {p \in Tracked : minute - seenAt[p] > 2 * MaxTokenAge}

\* The keys are collected under the read lock and deleted under the write
\* lock, whatever has happened to them in between.
CollectExpired ==
    /\ toDelete = {} /\ Expirable # {}
    /\ toDelete' = Expirable
    /\ UNCHANGED <<minute, createdAt, handling, seenAt, entered, repeated>>
DeleteExpired ==
    /\ toDelete # {}
    /\ toDelete' = {}
    /\ seenAt' = [p \in Tracked \ toDelete |-> seenAt[p]]
    /\ UNCHANGED <<minute, createdAt, handling, entered, repeated>>

MinutePasses ==
    /\ minute < LastMinute
    /\ minute' = minute + 1
    /\ UNCHANGED <<createdAt, handling, seenAt, toDelete, entered, repeated>>

DNext ==
    \/ \E d \in MonitorDEXes :
          \/ RejectPool(d) \/ PassPool(d) \/ EmitDiscovery(d)
          \/ \E p \in Pools : EnterPool(d, p)
    \/ CollectExpired \/ DeleteExpired \/ MinutePasses

DSpec == DInit /\ [][DNext]_dvars

-----------------------------------------------------------------------------
(* Properties                                                              *)

(* A pool is discovered once, however many DEXes, subscriptions and polls     *)
(* report it at the same time, unless the full map had to displace it.        *)
(* cleanupLoop also deletes an entry that was made after it had collected the  *)
(* key, and pools come back after it; but what it deletes belongs to a token   *)
(* that the age filter rejects from then on (scanner.go handlePool and         *)
(* cleanupLoop).                                                            *)
AcceptedOnce == repeated = {}
=============================================================================
