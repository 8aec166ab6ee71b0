------------------------------- MODULE Limiter -------------------------------
(***************************************************************************)
(* The parent-side limiter of `bi serve`: SubprocessConverter.acquire, the  *)
(* release closure it returns and observeQueueDepth                         *)
(* (internal/server/subprocess.go).                                         *)
(*                                                                          *)
(* Every HTTP request runs one call of SubprocessConverter.Run on its own   *)
(* goroutine.  A call sends a token into the buffered channel `admission`   *)
(* (or is refused at once), then one into `workers` (or waits), converts,   *)
(* and takes both tokens back.  A channel is the number of tokens in it.    *)
(* What happens while a call holds its worker token is module Subprocess.   *)
(*                                                                          *)
(* The gauge bi_queue_depth is set by whichever call observed last:         *)
(* observeQueueDepth reads len(admission), len(workers) and sets the gauge  *)
(* in three steps that any other call may separate (`scan`).                *)
(***************************************************************************)
EXTENDS Integers, FiniteSets

CONSTANTS
  Calls,       \* the calls of Run, one per HTTP request
  Workers,     \* SubprocessConverter.Workers; <= 0 switches the limiter off
  QueueDepth,  \* SubprocessConverter.QueueDepth; negative counts as 0
  Metered,     \* Metrics # nil
  TimeoutSet   \* Timeout > 0

ASSUME LimiterAssumption ==
  /\ IsFiniteSet(Calls)
  /\ Workers \in Int
  /\ QueueDepth \in Int
  /\ Metered \in BOOLEAN
  /\ TimeoutSet \in BOOLEAN

VARIABLES
  pc,         \* where each call is in acquire / hold / release
  ctx,        \* state of each call's runCtx
  err,        \* the error acquire returned to each call
  admission,  \* tokens in limit.admission
  workers,    \* tokens in limit.workers
  busyGauge,  \* bi_worker_busy
  queueGauge, \* bi_queue_depth
  scan,       \* which step of observeQueueDepth each call is in
  seen        \* the local value observeQueueDepth computed so far

chans == <<admission, workers>>
gauges == <<busyGauge, queueGauge>>
observing == <<scan, seen>>
vars == <<pc, ctx, err, chans, gauges, observing>>

-----------------------------------------------------------------------------
PC == {"idle", "admit", "queued", "granted", "held", "unbusy", "drop",
       "leave", "done"}
CtxState == {"live", "canceled", "expired"}
Errors == {"none", "canceled", "expired", "queue-full"}
ScanState == {"off", "admission", "workers", "set"}

\* acquire returns a no-op release: nothing is limited.
Unlimited == Workers <= 0

\* Fault: the admission channel has no room for the queue.
AdmissionCapNoQueue == Workers

\* limitOnce: the capacity of the admission channel.
AdmissionCap == Workers + (IF QueueDepth < 0 THEN 0 ELSE QueueDepth)

\* The calls that own a token of each channel, read off the program counters.
AdmissionHolders ==
  {c \in Calls : pc[c] \in {"queued", "granted", "held", "unbusy", "drop", "leave"}}
WorkerHolders == {c \in Calls : pc[c] \in {"granted", "held", "unbusy", "drop"}}

Done(c) == ctx[c] # "live"
Goto(c, there) == pc' = [pc EXCEPT ![c] = there]

\* A call's own code runs only when it is not inside observeQueueDepth.
At(c, here) == pc[c] = here /\ scan[c] = "off"

\* The call to observeQueueDepth, which returns at once without metrics.
BeginObserve(c) ==
  /\ scan' = [scan EXCEPT ![c] = IF Metered THEN "admission" ELSE "off"]
  /\ UNCHANGED seen

-----------------------------------------------------------------------------
Init ==
  /\ pc = [c \in Calls |-> "idle"]
  /\ ctx = [c \in Calls |-> "live"]
  /\ err = [c \in Calls |-> "none"]
  /\ admission = 0
  /\ workers = 0
  /\ busyGauge = 0
  /\ queueGauge = 0
  /\ scan = [c \in Calls |-> "off"]
  /\ seen = [c \in Calls |-> 0]

\* A request reaches Run, which derives runCtx and calls acquire.
Start(c) ==
  /\ At(c, "idle")
  /\ Goto(c, "admit")
  /\ UNCHANGED <<ctx, err, chans, gauges, observing>>

\* First select, send case.  Workers <= 0: acquire succeeds without touching a
\* channel.
Admit(c) ==
  /\ At(c, "admit")
  /\ IF Unlimited
       THEN Goto(c, "held") /\ UNCHANGED <<admission, observing>>
       ELSE /\ admission < AdmissionCap
            /\ admission' = admission + 1
            /\ Goto(c, "queued")
            /\ BeginObserve(c)
  /\ UNCHANGED <<ctx, err, workers, gauges>>

\* First select, ctx.Done() case; Go picks any ready case.
AdmitCanceled(c) ==
  /\ ~Unlimited
  /\ At(c, "admit")
  /\ Done(c)
  /\ err' = [err EXCEPT ![c] = ctx[c]]
  /\ Goto(c, "done")
  /\ UNCHANGED <<ctx, chans, gauges, observing>>

\* First select, default case: no other case is ready.
Refuse(c) ==
  /\ ~Unlimited
  /\ At(c, "admit")
  /\ admission >= AdmissionCap
  /\ ~Done(c)
  /\ err' = [err EXCEPT ![c] = "queue-full"]
  /\ Goto(c, "done")
  /\ UNCHANGED <<ctx, chans, gauges, observing>>

\* Fault: the workers channel is larger than Workers.
GrantUnbounded(c) ==
  /\ At(c, "queued")
  /\ workers' = workers + 1
  /\ Goto(c, "granted")
  /\ UNCHANGED <<ctx, err, admission, gauges, observing>>

\* Second select, send case: acquiredWorker = true.
Grant(c) ==
  /\ At(c, "queued")
  /\ workers < Workers
  /\ workers' = workers + 1
  /\ Goto(c, "granted")
  /\ UNCHANGED <<ctx, err, admission, gauges, observing>>

\* WorkerBusy(1), QueueWait, observeQueueDepth; acquire returns release.
MarkBusy(c) ==
  /\ At(c, "granted")
  /\ busyGauge' = IF Metered THEN busyGauge + 1 ELSE busyGauge
  /\ Goto(c, "held")
  /\ BeginObserve(c)
  /\ UNCHANGED <<ctx, err, chans, queueGauge>>

\* Fault: the canceled waiter returns without release().
WaitCanceledLeaky(c) ==
  /\ At(c, "queued")
  /\ Done(c)
  /\ err' = [err EXCEPT ![c] = ctx[c]]
  /\ Goto(c, "done")
  /\ UNCHANGED <<ctx, chans, gauges, observing>>

\* Second select, ctx.Done() case: release() with acquiredWorker = false.
WaitCanceled(c) ==
  /\ At(c, "queued")
  /\ Done(c)
  /\ err' = [err EXCEPT ![c] = ctx[c]]
  /\ Goto(c, "leave")
  /\ UNCHANGED <<ctx, chans, gauges, observing>>

\* Run returns from the conversion; the deferred release runs.
Finish(c) ==
  /\ At(c, "held")
  /\ Goto(c, IF Unlimited THEN "done" ELSE "unbusy")
  /\ UNCHANGED <<ctx, err, chans, gauges, observing>>

\* Fault: WorkerBusy(-1) is missing.
MarkIdleForgotten(c) ==
  /\ At(c, "unbusy")
  /\ Goto(c, "drop")
  /\ UNCHANGED <<ctx, err, chans, gauges, observing>>

\* release: WorkerBusy(-1).
MarkIdle(c) ==
  /\ At(c, "unbusy")
  /\ busyGauge' = IF Metered THEN busyGauge - 1 ELSE busyGauge
  /\ Goto(c, "drop")
  /\ UNCHANGED <<ctx, err, chans, queueGauge, observing>>

\* Fault: <-workers is missing.
DropWorkerForgotten(c) ==
  /\ At(c, "drop")
  /\ Goto(c, "leave")
  /\ UNCHANGED <<ctx, err, chans, gauges, observing>>

\* release: <-workers.  The receive blocks on an empty channel.
DropWorker(c) ==
  /\ At(c, "drop")
  /\ workers > 0
  /\ workers' = workers - 1
  /\ Goto(c, "leave")
  /\ UNCHANGED <<ctx, err, admission, gauges, observing>>

\* release: <-admission, then the last observeQueueDepth; Run returns.
Leave(c) ==
  /\ At(c, "leave")
  /\ admission > 0
  /\ admission' = admission - 1
  /\ Goto(c, "done")
  /\ BeginObserve(c)
  /\ UNCHANGED <<ctx, err, workers, gauges>>

-----------------------------------------------------------------------------
\* observeQueueDepth, first operand: len(s.limit.admission).
ReadAdmission(c) ==
  /\ scan[c] = "admission"
  /\ seen' = [seen EXCEPT ![c] = admission]
  /\ scan' = [scan EXCEPT ![c] = "workers"]
  /\ UNCHANGED <<pc, ctx, err, chans, gauges>>

\* Fault: the difference is not clamped.
DepthUnclamped(a, w) == a - w

\* The length shown: len(admission) - len(workers), at least 0.
Depth(a, w) == IF a < w THEN 0 ELSE a - w

\* Second operand: len(s.limit.workers).
ReadWorkers(c) ==
  /\ scan[c] = "workers"
  /\ seen' = [seen EXCEPT ![c] = Depth(seen[c], workers)]
  /\ scan' = [scan EXCEPT ![c] = "set"]
  /\ UNCHANGED <<pc, ctx, err, chans, gauges>>

\* Metrics.QueueDepth(depth): the gauge is set, not added to.
SetDepth(c) ==
  /\ scan[c] = "set"
  /\ queueGauge' = seen[c]
  /\ seen' = [seen EXCEPT ![c] = 0]
  /\ scan' = [scan EXCEPT ![c] = "off"]
  /\ UNCHANGED <<pc, ctx, err, chans, busyGauge>>

-----------------------------------------------------------------------------
\* runCtx ends: the client goes away and net/http cancels the request's context,
\* or the deadline of context.WithTimeout(ctx, s.Timeout) passes.
ContextEnds(c, why) ==
  /\ why = "expired" => TimeoutSet
  /\ pc[c] \notin {"idle", "done"}
  /\ ctx[c] = "live"
  /\ ctx' = [ctx EXCEPT ![c] = why]
  /\ UNCHANGED <<pc, err, chans, gauges, observing>>

\* The steps of a call's goroutine that Run takes by itself.
Advance(c) ==
  \/ Admit(c) \/ AdmitCanceled(c) \/ Refuse(c)
  \/ Grant(c) \/ MarkBusy(c) \/ WaitCanceled(c)
  \/ MarkIdle(c) \/ DropWorker(c) \/ Leave(c)
  \/ ReadAdmission(c) \/ ReadWorkers(c) \/ SetDepth(c)

Terminated ==
  /\ \A c \in Calls : At(c, "done")
  /\ UNCHANGED vars

Next ==
  \/ \E c \in Calls :
        \/ Start(c) \/ Advance(c) \/ Finish(c)
        \/ \E why \in {"canceled", "expired"} : ContextEnds(c, why)
  \/ Terminated

Spec == Init /\ [][Next]_vars

\* A runnable goroutine runs, and a conversion that holds a worker ends.
Fairness == \A c \in Calls : WF_vars(Advance(c)) /\ WF_vars(Finish(c))
FairSpec == Spec /\ Fairness

-----------------------------------------------------------------------------
TypeOK ==
  /\ pc \in [Calls -> PC]
  /\ ctx \in [Calls -> CtxState]
  /\ err \in [Calls -> Errors]
  /\ admission \in Nat
  /\ workers \in Nat
  /\ busyGauge \in Int
  /\ queueGauge \in Int
  /\ scan \in [Calls -> ScanState]
  /\ seen \in [Calls -> Int]

\* Every token in a channel belongs to exactly one call that will take it
\* back, whatever path the call took through acquire: nothing leaks capacity
\* and no deferred release blocks on an empty channel.
TokensMatch ==
  ~Unlimited =>
    /\ admission = Cardinality(AdmissionHolders)
    /\ workers = Cardinality(WorkerHolders)

\* At most Workers calls convert at once.
AtMostWorkersConvert == ~Unlimited => Cardinality(WorkerHolders) <= Workers

\* The queue length that bi_queue_depth shows is one the limiter can have:
\* never negative, though the two channel lengths are read at different times
\* (a call may pass both channels between the reads), and never above the
\* admission capacity.
QueueGaugeInRange ==
  /\ queueGauge >= 0
  /\ queueGauge <= AdmissionCap \/ Unlimited

\* bi_worker_busy never counts a worker whose token is not taken: WorkerBusy(1)
\* comes after the send and WorkerBusy(-1) before the receive, and neither comes
\* when the limiter is off.
BusyNeverAboveTokens == busyGauge >= 0 /\ busyGauge <= workers

\* A request is refused with ErrQueueFull only while Workers + QueueDepth other
\* requests are inside the limiter.
RefusedOnlyWhenFull ==
  [][\A c \in Calls :
       err[c] # "queue-full" /\ err'[c] = "queue-full" =>
         Cardinality(AdmissionHolders \ {c}) = Workers + (IF QueueDepth < 0 THEN 0 ELSE QueueDepth)
    ]_vars

\* Every call that entered acquire returns from Run.
EveryCallReturns == \A c \in Calls : pc[c] # "idle" ~> At(c, "done")
=============================================================================
