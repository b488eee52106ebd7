-------------------------------- MODULE Intel --------------------------------
(***************************************************************************)
(* The nexus-intel process: trigger engine, Brain, topic registry and       *)
(* service of internal/intel, the ClickHouse writer of the events, and the  *)
(* start and shutdown of cmd/nexus-intel/main.go.                           *)
(*                                                                         *)
(* Handlers are the goroutines that run triggers: callers of OnVolatility,  *)
(* OnPrice, OnCascade and OnStrategyRequest, and the scheduler.  Each runs  *)
(* one trigger at a time, a step per critical section of ProcessTrigger.    *)
(* Nothing waits for them at shutdown.                                      *)
(*                                                                         *)
(* One topic and one asset; an answer is a content, what ContentHash tells  *)
(* apart.  The writer is module BatchWriter once more, here with a flush in  *)
(* one step and its rows counted.  Left out: texts, confidences, costs, and *)
(* the ROI tracker, which only records what it is given.                    *)
(***************************************************************************)
EXTENDS Integers, FiniteSets

CONSTANTS
    Handlers,
    Scheduler,      \* the handler that runs StartScheduler
    Waited,         \* goroutines of main's WaitGroup: health, alerts, consumer, http
    Calendar,       \* the scheduled events
    Providers,      \* registered LLM providers
    Preferred,      \* the topic's DefaultProvider
    Contents,       \* bound: different answers
    VolWindow,      \* VolWindowSize
    CascadeDepths,  \* bound: depths OnCascade is called with
    MaxCascadeDepth,
    MaxPerHour,     \* MaxEventsPerHourNormal
    MaxQueries,     \* MaxQueriesPerDay of the topic
    MinResults,     \* results before a breaker may open: 5
    IntelBatchSize,      \* of the writer
    MaxTriggers,    \* bound: triggers fired
    MaxTurns        \* bound: steps of time

ASSUME IntelAssumption ==
    /\ IsFiniteSet(Handlers) /\ Scheduler \in Handlers
    /\ "alerts" \in Waited
    /\ MaxPerHour \in Nat \ {0} /\ MaxQueries \in Nat \ {0}
    /\ MinResults \in Nat \ {0} /\ VolWindow \in Nat \ {0}
    /\ IntelBatchSize \in Nat \ {0}
    /\ MaxCascadeDepth \in Nat /\ MaxTriggers \in Nat /\ MaxTurns \in Nat

VARIABLES
    samples, priced, hot,   \* symbolState: samples kept, hasPrice, in cooldown
    fired, toFire,          \* calendar: marked Fired, taken by checkSchedule
    triggers,               \* triggersEmitted
    hpc, prov, answer,      \* per handler: step, provider, content
    hourCount, hourOver,    \* eventsThisHour; hourStart is not the current hour
    queries, dayOver,       \* QueriesUsed; LastResetDay is not today
    breaker,                \* per provider: errors, total, open, cooling
    recent,                 \* recentEvents
    turns,                  \* steps of time so far
    buffered, writerClosed,       \* the writer: rows in intelBuf, closed
    interrupted,                \* the context of the process is cancelled
    proc, running           \* the main goroutine and those it waits for
trigVars == <<samples, priced, hot, fired, toFire, triggers>>
handlerVars == <<hpc, prov, answer>>
limitVars == <<hourCount, hourOver, queries, dayOver, breaker, recent>>
writerVars == <<buffered, writerClosed>>
procVars == <<interrupted, proc, running>>
ivars == <<trigVars, handlerVars, limitVars, turns, writerVars, procVars>>

None == "none"

IInit ==
    /\ samples = 0 /\ priced = FALSE /\ hot = FALSE
    /\ fired = {} /\ toFire = {} /\ triggers = 0
    /\ hpc = [h \in Handlers |-> "idle"]
    /\ prov = [h \in Handlers |-> None]
    /\ answer = [h \in Handlers |-> None]
    /\ hourCount = 0 /\ hourOver = FALSE /\ queries = 0 /\ dayOver = FALSE
    /\ breaker = [p \in Providers |->
                    [errors |-> 0, total |-> 0, open |-> FALSE, cooling |-> FALSE]]
    /\ recent = {}
    /\ turns = 0 /\ buffered = 0 /\ writerClosed = FALSE
    /\ interrupted = FALSE /\ proc = "boot" /\ running = {}

\* A handler moves from one step to another.
Move(h, from, to) == hpc[h] = from /\ hpc' = [hpc EXCEPT ![h] = to]

-----------------------------------------------------------------------------
(* The trigger engine                                                      *)

FireTrigger(h) ==
    /\ triggers < MaxTriggers
    /\ triggers' = triggers + 1
    /\ Move(h, "idle", "rate")
    /\ UNCHANGED <<prov, answer>>

\* A sample enters the window; a spike needs half a window, and a mean of at
\* least one other sample.  The cooldown is taken before the trigger runs.
OnVolatility(h) ==
    /\ hpc[h] = "idle" /\ h # Scheduler
    /\ samples' = IF samples < VolWindow THEN samples + 1 ELSE samples
    /\ \/ UNCHANGED <<hot, triggers, handlerVars>>
       \/ /\ samples' >= 2 /\ samples' >= VolWindow \div 2 /\ ~hot
          /\ hot' = TRUE
          /\ FireTrigger(h)
    /\ UNCHANGED <<priced, fired, toFire>>

\* The first price is only remembered; gaps share the cooldown with spikes.
OnPrice(h) ==
    /\ hpc[h] = "idle" /\ h # Scheduler
    /\ priced' = TRUE
    /\ \/ UNCHANGED <<hot, triggers, handlerVars>>
       \/ /\ priced /\ ~hot
          /\ hot' = TRUE
          /\ FireTrigger(h)
    /\ UNCHANGED <<samples, fired, toFire>>

OnCascade(h) ==
    /\ h # Scheduler
    /\ \E depth \in CascadeDepths : depth < MaxCascadeDepth
    /\ FireTrigger(h)
    /\ UNCHANGED <<samples, priced, hot, fired, toFire>>
OnStrategyRequest(h) ==
    /\ h # Scheduler
    /\ FireTrigger(h)
    /\ UNCHANGED <<samples, priced, hot, fired, toFire>>

\* checkSchedule marks every event that is due and fires them one by one.
CheckSchedule ==
    /\ hpc[Scheduler] = "idle" /\ toFire = {} /\ ~interrupted
    /\ toFire' \in SUBSET (Calendar \ fired) \ {{}}
    /\ fired' = fired \cup toFire'
    /\ UNCHANGED <<samples, priced, hot, triggers, handlerVars>>
FireScheduled ==
    /\ \E c \in toFire : toFire' = toFire \ {c}
    /\ FireTrigger(Scheduler)
    /\ UNCHANGED <<samples, priced, hot, fired>>

Trigger ==
    /\ \/ \E h \in Handlers : \/ OnVolatility(h) \/ OnPrice(h)
                              \/ OnCascade(h) \/ OnStrategyRequest(h)
       \/ CheckSchedule \/ FireScheduled
    /\ UNCHANGED <<limitVars, turns, writerVars, procVars>>

-----------------------------------------------------------------------------
(* Brain.ProcessTrigger                                                    *)

OnlyHandlers == UNCHANGED <<trigVars, turns, writerVars, procVars>>

\* checkRateLimitLocked: a new hour starts at zero.  Nothing is reserved.
CheckRate(h) ==
    LET count == IF hourOver THEN 0 ELSE hourCount
    IN  /\ hourCount' = count /\ hourOver' = FALSE
        /\ Move(h, "rate", IF count < MaxPerHour THEN "budget" ELSE "idle")
        /\ UNCHANGED <<prov, answer, queries, dayOver, breaker, recent>>
        /\ OnlyHandlers

\* maybeResetLocked, in CanQuery and RecordQuery.
QueriesToday == IF dayOver THEN 0 ELSE queries

\* Mutant: the limit is compared with <=.
UnderDayLimitLoose(n) == n <= MaxQueries
UnderDayLimit(n) == n < MaxQueries

CanQuery(h) ==
    /\ queries' = QueriesToday /\ dayOver' = FALSE
    /\ \/ Move(h, "budget", IF UnderDayLimit(queries') THEN "select" ELSE "idle")
       \/ Move(h, "budget", "idle")      \* CostUsedUSD reached CostBudgetUSD
    /\ UNCHANGED <<prov, answer, hourCount, hourOver, breaker, recent>>
    /\ OnlyHandlers

\* checkCircuitBreakerLocked: closed, or the cooldown of an open one is over.
Healthy(p) == ~breaker[p].open \/ ~breaker[p].cooling

\* The preferred provider when it is healthy, else any healthy one; an open
\* breaker whose cooldown is over is closed and forgets its counts.
SelectProvider(h) ==
    /\ \/ \E p \in Providers :
             /\ Healthy(p)
             /\ p = Preferred \/ Preferred \notin Providers \/ ~Healthy(Preferred)
             /\ prov' = [prov EXCEPT ![h] = p]
             /\ breaker' = IF breaker[p].open
                           THEN [breaker EXCEPT ![p].open = FALSE, ![p].errors = 0,
                                                ![p].total = 0]
                           ELSE breaker
             /\ Move(h, "select", "query")
       \/ /\ ~\E p \in Providers : Healthy(p)
          /\ Move(h, "select", "idle")
          /\ UNCHANGED <<prov, breaker>>
    /\ UNCHANGED <<answer, hourCount, hourOver, queries, dayOver, recent>>
    /\ OnlyHandlers

\* recordResult, with the counts since the breaker last closed.
Recorded(b, success) ==
    LET total == b.total + 1
        errors == IF success THEN b.errors ELSE b.errors + 1
        opens == ~b.open /\ total >= MinResults /\ 2 * errors >= total
    IN  [total |-> total, errors |-> errors,
         open |-> b.open \/ opens, cooling |-> b.cooling \/ opens]

\* Query is a network call of any length; then recordResult.
Query(h) ==
    /\ \E success \in BOOLEAN :
          /\ Move(h, "query", IF success THEN "charge" ELSE "idle")
          /\ breaker' = [breaker EXCEPT ![prov[h]] = Recorded(@, success)]
          /\ IF success THEN \E c \in Contents : answer' = [answer EXCEPT ![h] = c]
             ELSE UNCHANGED answer
    /\ prov' = [prov EXCEPT ![h] = None]
    /\ UNCHANGED <<hourCount, hourOver, queries, dayOver, recent>>
    /\ OnlyHandlers

\* RecordQuery, then responseToEvent and Validate, which may refuse the event.
RecordQuery(h) ==
    /\ queries' = QueriesToday + 1 /\ dayOver' = FALSE
    /\ \/ Move(h, "charge", "dedup") \/ Move(h, "charge", "idle")
    /\ UNCHANGED <<prov, answer, hourCount, hourOver, breaker, recent>>
    /\ OnlyHandlers

\* isDuplicateLocked and the entry of the content, one critical section.  The
\* event is counted in whatever hour the query began; PublishJSON may fail.
Dedup(h) ==
    /\ \/ /\ answer[h] \in recent
          /\ Move(h, "dedup", "idle")
          /\ UNCHANGED <<hourCount, recent>>
       \/ /\ answer[h] \notin recent
          /\ Move(h, "dedup", "write")
          /\ recent' = recent \cup {answer[h]}
          /\ hourCount' = hourCount + 1
    /\ answer' = [answer EXCEPT ![h] = None]
    /\ UNCHANGED <<prov, hourOver, queries, dayOver, breaker>>
    /\ OnlyHandlers

ProcessTrigger(h) ==
    \/ CheckRate(h) \/ CanQuery(h) \/ SelectProvider(h) \/ Query(h)
    \/ RecordQuery(h) \/ Dedup(h)

-----------------------------------------------------------------------------
(* IntelService.handleTrigger after ProcessTrigger: the row of the event,   *)
(* and the callback of the strategies                                       *)

\* A closed writer refuses, which is only logged.
WriteIntelEvent(h) ==
    /\ \/ /\ writerClosed
          /\ Move(h, "write", "idle")
          /\ UNCHANGED buffered
       \/ /\ ~writerClosed
          /\ buffered' = buffered + 1
          /\ Move(h, "write", IF buffered' >= IntelBatchSize THEN "flush" ELSE "idle")
    /\ UNCHANGED <<writerClosed, prov, answer, trigVars, limitVars, turns, procVars>>

\* Flush by the handler that filled the buffer, or by the ticker.
FlushIntel(h) ==
    /\ Move(h, "flush", "idle")
    /\ buffered' = 0
    /\ UNCHANGED <<writerClosed, prov, answer, trigVars, limitVars, turns, procVars>>
FlushPeriodic ==
    /\ proc = "serving" /\ buffered > 0
    /\ buffered' = 0
    /\ UNCHANGED <<writerClosed, trigVars, handlerVars, limitVars, turns, procVars>>

HandleTrigger(h) == ProcessTrigger(h) \/ WriteIntelEvent(h) \/ FlushIntel(h)

-----------------------------------------------------------------------------
(* Time, and cmd/nexus-intel/main.go                                       *)

\* Hours, days, cooldowns and the dedup window end.
TimePasses ==
    /\ turns < MaxTurns
    /\ turns' = turns + 1
    /\ \/ hourOver' = TRUE /\ UNCHANGED <<hot, dayOver, breaker, recent>>
       \/ dayOver' = TRUE /\ UNCHANGED <<hot, hourOver, breaker, recent>>
       \/ hot' = FALSE /\ UNCHANGED <<hourOver, dayOver, breaker, recent>>
       \/ \E p \in Providers :
             /\ breaker[p].cooling
             /\ breaker' = [breaker EXCEPT ![p].cooling = FALSE]
             /\ UNCHANGED <<hot, hourOver, dayOver, recent>>
       \/ \E c \in recent :
             /\ recent' = recent \ {c}
             /\ UNCHANGED <<hot, hourOver, dayOver, breaker>>
    /\ UNCHANGED <<hourCount, queries, samples, priced, fired, toFire, triggers>>
    /\ UNCHANGED <<handlerVars, writerVars, procVars>>

OnlyProc == UNCHANGED <<trigVars, handlerVars, limitVars, turns, writerVars>>

\* The service and the writer start in main, before the goroutines it waits for.
Serve ==
    /\ proc = "boot"
    /\ proc' = "serving" /\ running' = Waited
    /\ UNCHANGED interrupted /\ OnlyProc
Interrupt ==
    /\ proc = "serving" /\ ~interrupted
    /\ interrupted' = TRUE
    /\ UNCHANGED <<proc, running>> /\ OnlyProc

Leaves(g) ==
    /\ interrupted /\ g \in running
    /\ running' = running \ {g}
    /\ UNCHANGED <<interrupted, proc>> /\ OnlyProc

\* Shutdown: service, health monitor and writer.  Close waits for the last
\* flush of the background goroutine, refuses rows, and flushes once more.
CloseIntelWriter ==
    /\ \/ proc = "serving" /\ interrupted /\ proc' = "closing" /\ writerClosed' = TRUE /\ UNCHANGED buffered
       \/ proc = "closing" /\ proc' = "waiting" /\ buffered' = 0 /\ UNCHANGED writerClosed
    /\ UNCHANGED <<interrupted, running, trigVars, handlerVars, limitVars, turns>>

\* wg.Wait, and main returns.
Exit ==
    /\ proc = "waiting" /\ running = {}
    /\ proc' = "exited"
    /\ UNCHANGED <<interrupted, running>> /\ OnlyProc
Shutdown == CloseIntelWriter \/ Exit

\* Nothing runs before main is up, and nothing after it has returned.
INext ==
    /\ proc # "exited"
    /\ \/ Serve \/ Interrupt \/ Shutdown
       \/ \E g \in Waited : Leaves(g)
       \/ /\ proc # "boot"
          /\ \/ Trigger \/ TimePasses \/ FlushPeriodic
             \/ \E h \in Handlers : HandleTrigger(h)

ISpec == IInit /\ [][INext]_ivars

-----------------------------------------------------------------------------
(* Properties                                                              *)

(* The hourly event limit and the daily query limit are read before the     *)
(* query and counted after it (brain.go ProcessTrigger, taxonomy.go         *)
(* CanQuery): handlers that pass together overshoot, but never by more      *)
(* than all of them but one, also across the turn of an hour or a day.      *)
OvershootBounded ==
    /\ hourCount <= MaxPerHour + Cardinality(Handlers) - 1
    /\ queries <= MaxQueries + Cardinality(Handlers) - 1
=============================================================================
