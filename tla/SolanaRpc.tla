------------------------------ MODULE SolanaRpc ------------------------------
(***************************************************************************)
(* The client of the Solana RPC endpoint: solana/live_rpc.go.               *)
(*                                                                         *)
(* A request is one RPC, or two in a row; an RPC passes the circuit breaker  *)
(* and the token bucket once and is then sent up to MaxRetries + 1 times.    *)
(* The counters are atomics and there is no lock: every load, store, add and *)
(* compare-and-swap is a step.  The endpoint (external) answers, fails, or   *)
(* says 429.  Payloads and statistics are left out.                         *)
(***************************************************************************)
EXTENDS Integers, FiniteSets

CONSTANTS
    Callers,
    Threshold,      \* circuitBreakerThreshold
    MaxRetries,
    BucketSize,         \* size of the token bucket
    MaxRequests     \* bound: requests ever made

ASSUME RpcAssumption ==
    /\ IsFiniteSet(Callers)
    /\ Threshold \in Nat \ {0} /\ MaxRetries \in Nat /\ BucketSize \in Nat \ {0}
    /\ MaxRequests \in Nat

VARIABLES
    open,       \* circuitOpen
    errors,     \* consecutiveErrors
    tokens,     \* in the limiter
    shut,       \* limiterCtx is cancelled
    sleeping, zeroing,  \* resetters in their cooldown, and before their second store
    pc, attempt,        \* per caller: its step in call, the attempt
    trips,      \* per caller: RPCs its request still has to make
    requests
rpcVars == <<open, errors, tokens, shut, sleeping, zeroing, pc, attempt, trips, requests>>
breakerVars == <<open, errors, sleeping, zeroing>>
bucketVars == <<tokens, shut>>

CInit ==
    /\ open = FALSE /\ errors = 0 /\ sleeping = 0 /\ zeroing = 0
    /\ tokens = BucketSize /\ shut = FALSE
    /\ pc = [c \in Callers |-> "idle"]
    /\ attempt = [c \in Callers |-> 0]
    /\ trips = [c \in Callers |-> 0] /\ requests = 0

\* GetPoolInfo, SendTransaction, GetTransactionStatus and the like.
SingleTrip == 1
\* GetTopHolders asks for the supply as well, GetWalletBalance for the tokens.
DoubleTrip == 2

StepTo(c, from, to) == pc[c] = from /\ pc' = [pc EXCEPT ![c] = to]

Request(c) ==
    /\ requests < MaxRequests
    /\ requests' = requests + 1
    /\ StepTo(c, "idle", "breaker")
    /\ trips' = [trips EXCEPT ![c] = SingleTrip] \/ trips' = [trips EXCEPT ![c] = DoubleTrip]
    /\ UNCHANGED <<attempt, breakerVars, bucketVars>>

-----------------------------------------------------------------------------
(* call                                                                    *)

CheckBreaker(c) ==
    /\ StepTo(c, "breaker", IF open THEN "idle" ELSE "token")
    /\ UNCHANGED <<attempt, trips, requests, breakerVars, bucketVars>>

AcquireToken(c) ==
    /\ tokens > 0
    /\ tokens' = tokens - 1
    /\ StepTo(c, "token", "send")
    /\ attempt' = [attempt EXCEPT ![c] = 0]
    /\ UNCHANGED <<shut, trips, requests, breakerVars>>

\* Every wait ends with the context of the caller.
ContextEnds(c) ==
    /\ pc[c] \in {"token", "backoff", "limited"}
    /\ pc' = [pc EXCEPT ![c] = "idle"]
    /\ UNCHANGED <<attempt, trips, requests, breakerVars, bucketVars>>

\* resetErrors, for a result and for an error the endpoint reports; a result
\* may be followed by the second RPC of the request.
Answered(c) ==
    /\ errors' = 0
    /\ \/ /\ trips[c] > 1
          /\ StepTo(c, "send", "breaker")
          /\ trips' = [trips EXCEPT ![c] = @ - 1]
       \/ StepTo(c, "send", "idle") /\ UNCHANGED trips
    /\ UNCHANGED <<attempt, requests, open, sleeping, zeroing, bucketVars>>

\* The for loop: a further attempt waits first and takes no token.
Retry(c, from) ==
    /\ StepTo(c, from, IF attempt[c] < MaxRetries THEN "backoff" ELSE "idle")
    /\ attempt' = [attempt EXCEPT ![c] = IF @ < MaxRetries THEN @ + 1 ELSE @]
    /\ UNCHANGED <<trips, requests, bucketVars>>

\* recordError: the new count decides whether to trip the breaker ...
Failed(c) ==
    /\ errors' = errors + 1
    /\ \/ errors' < Threshold /\ Retry(c, "send")
       \/ errors' >= Threshold /\ StepTo(c, "send", "trip")
          /\ UNCHANGED <<attempt, trips, requests, bucketVars>>
    /\ UNCHANGED <<open, sleeping, zeroing>>
\* Mutant: the breaker is set without a look at it.
TripAlways(c) ==
    /\ Retry(c, "trip")
    /\ open' = TRUE /\ sleeping' = sleeping + 1
    /\ UNCHANGED <<errors, zeroing>>
\* ... and whoever finds it closed opens it and starts a resetter.
Trip(c) ==
    /\ Retry(c, "trip")
    /\ open' = TRUE
    /\ sleeping' = IF open THEN sleeping ELSE sleeping + 1
    /\ UNCHANGED <<errors, zeroing>>

\* 429 is no error for the breaker and has a wait of its own.
RateLimited(c) ==
    /\ StepTo(c, "send", "limited")
    /\ UNCHANGED <<attempt, trips, requests, breakerVars, bucketVars>>
LimitEnds(c) == Retry(c, "limited") /\ UNCHANGED breakerVars
BackoffEnds(c) ==
    /\ StepTo(c, "backoff", "send")
    /\ UNCHANGED <<attempt, trips, requests, breakerVars, bucketVars>>

Call(c) ==
    \/ CheckBreaker(c) \/ AcquireToken(c) \/ ContextEnds(c)
    \/ Answered(c) \/ Failed(c) \/ Trip(c)
    \/ RateLimited(c) \/ LimitEnds(c) \/ BackoffEnds(c)

-----------------------------------------------------------------------------
(* The goroutines of the client                                            *)

callerVars == <<pc, attempt, trips, requests>>

\* After Close no token comes back: callers wait for their contexts.
Refill ==
    /\ ~shut /\ tokens < BucketSize
    /\ tokens' = tokens + 1
    /\ UNCHANGED <<shut, breakerVars, callerVars>>
CloseClient ==
    /\ ~shut
    /\ shut' = TRUE
    /\ UNCHANGED <<tokens, breakerVars, callerVars>>

\* The cooldown ends: two stores.
CooldownEnds ==
    /\ sleeping > 0
    /\ open' = FALSE
    /\ sleeping' = sleeping - 1 /\ zeroing' = zeroing + 1
    /\ UNCHANGED <<errors, bucketVars, callerVars>>
ZeroErrors ==
    /\ zeroing > 0
    /\ errors' = 0
    /\ zeroing' = zeroing - 1
    /\ UNCHANGED <<open, sleeping, bucketVars, callerVars>>

CNext ==
    \/ \E c \in Callers : Request(c) \/ Call(c)
    \/ Refill \/ CloseClient \/ CooldownEnds \/ ZeroErrors

CSpec == CInit /\ [][CNext]_rpcVars

-----------------------------------------------------------------------------
(* Properties                                                              *)

(* An open breaker has exactly one goroutine that will close it, a closed  *)
(* one has none: whatever retries are still in flight, it neither stays open *)
(* for good nor is closed by the cooldown of an earlier opening            *)
(* (live_rpc.go recordError).                                               *)
OpenIsTemporary == sleeping = IF open THEN 1 ELSE 0
=============================================================================
