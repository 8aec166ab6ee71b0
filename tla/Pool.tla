-------------------------------- MODULE Pool ---------------------------------
(***************************************************************************)
(* worker.Pool (internal/worker/pool.go): the in-process converter that     *)
(* `bi convert` drives.  Callers enqueue a job under closeMu and wait for   *)
(* its outcome or for their context; worker goroutines range over the       *)
(* queue; Close shuts the pool down while it holds closeMu.                 *)
(*                                                                          *)
(* Every call of Run has a context of its own, made by WithTimeout, and a   *)
(* result channel with room for one outcome.  Conversions run inside LOK    *)
(* and cannot be interrupted; execute looks at the context when it starts.  *)
(***************************************************************************)
EXTENDS Integers, Sequences, FiniteSets

CONSTANTS
  Callers,    \* calls of Run
  Threads,    \* cfg.Workers goroutines
  Closers,    \* calls of Close
  QueueDepth, \* capacity of the queue
  NoOne       \* closeMu is free

ASSUME PoolAssumption ==
  /\ Threads # {}
  /\ QueueDepth \in Nat \ {0}
  /\ NoOne \notin Callers \cup Closers
  /\ Callers \cap Closers = {}

VARIABLES
  pc,       \* where each call of Run is
  ctx,      \* timeoutCtx of each call
  answer,   \* what Run returned
  file,     \* the job's output file exists
  out,      \* the call's result channel: empty or one outcome
  wpc,      \* where each worker goroutine is
  env,      \* the call whose envelope each worker holds
  made,     \* the outcome each worker is about to deliver
  queue,    \* p.queue
  qClosed,  \* close(p.queue) happened
  closed,   \* p.closed
  closeMu,  \* who holds p.closeMu
  closeErr, \* p.closeErr: "zero" until office.Close returned
  office,   \* how often office.Close ran
  kpc,      \* where each call of Close is
  ret       \* what each call of Close returned

callVars == <<pc, ctx, answer>>
workVars == <<wpc, env, made>>
closeVars == <<closed, closeErr, office, kpc, ret>>
vars == <<callVars, file, out, workVars, queue, qClosed, closeMu, closeVars>>

-----------------------------------------------------------------------------
Outcomes == {"file", "error"}
Answers == {"none", "ok", "error", "ctx", "queue-full", "pool-closed"}

Set(f, x, v) == [f EXCEPT ![x] = v]
Goto(c, from, to) == pc[c] = from /\ pc' = Set(pc, c, to)
KGoto(k, from, to) == kpc[k] = from /\ kpc' = Set(kpc, k, to)
Return(c, a) == answer' = Set(answer, c, a)

\* A job whose outcome some worker or the queue still owes.
Pending(c) == (\E i \in DOMAIN queue : queue[i] = c) \/ \E w \in Threads : env[w] = c

Init ==
  /\ pc = [c \in Callers |-> "idle"]
  /\ ctx = [c \in Callers |-> "live"]
  /\ answer = [c \in Callers |-> "none"]
  /\ file = [c \in Callers |-> FALSE]
  /\ out = [c \in Callers |-> "empty"]
  /\ wpc = [w \in Threads |-> "range"]
  /\ env = [w \in Threads |-> NoOne]
  /\ made = [w \in Threads |-> "empty"]
  /\ queue = <<>>
  /\ qClosed = FALSE
  /\ closed = FALSE
  /\ closeMu = NoOne
  /\ closeErr = "zero"
  /\ office = 0
  /\ kpc = [k \in Closers |-> "idle"]
  /\ ret = [k \in Closers |-> "none"]

-----------------------------------------------------------------------------
\* Run makes its context and channel and asks for closeMu.
Call(c) ==
  /\ Goto(c, "idle", "lock")
  /\ UNCHANGED <<ctx, answer, file, out, workVars, queue, qClosed, closeMu, closeVars>>

Lock(c) ==
  /\ Goto(c, "lock", "check")
  /\ closeMu = NoOne
  /\ closeMu' = c
  /\ UNCHANGED <<ctx, answer, file, out, workVars, queue, qClosed, closeVars>>

\* Fault: closeMu is released between the check of closed and the send.
CheckUnlocks(c) ==
  /\ closeMu' = NoOne
  /\ \/ closed /\ Goto(c, "check", "done") /\ Return(c, "pool-closed")
     \/ ~closed /\ Goto(c, "check", "send") /\ UNCHANGED answer
  /\ UNCHANGED <<ctx, file, out, workVars, queue, qClosed, closeVars>>

\* if p.closed: unlock and return ErrPoolClosed.
Check(c) ==
  /\ \/ /\ closed
        /\ Goto(c, "check", "done")
        /\ Return(c, "pool-closed")
        /\ closeMu' = NoOne
     \/ /\ ~closed
        /\ Goto(c, "check", "send")
        /\ UNCHANGED <<answer, closeMu>>
  /\ UNCHANGED <<ctx, file, out, workVars, queue, qClosed, closeVars>>

\* The non-blocking send, then unlock.
Send(c) ==
  /\ closeMu' = NoOne
  /\ \/ /\ Len(queue) < QueueDepth
        /\ Goto(c, "send", "wait")
        /\ queue' = Append(queue, c)
        /\ UNCHANGED answer
     \/ /\ Len(queue) >= QueueDepth
        /\ Goto(c, "send", "done")
        /\ Return(c, "queue-full")
        /\ UNCHANGED queue
  /\ UNCHANGED <<ctx, file, out, workVars, qClosed, closeVars>>

\* Second select, result case; the deferred cancel ends timeoutCtx.
TakeOutcome(c) ==
  /\ out[c] # "empty"
  /\ Goto(c, "wait", "done")
  /\ Return(c, IF out[c] = "file" THEN "ok" ELSE "error")
  /\ out' = Set(out, c, "empty")
  /\ ctx' = Set(ctx, c, "done")
  /\ UNCHANGED <<file, workVars, queue, qClosed, closeMu, closeVars>>

\* Fault: Run waits for the outcome alone.
GiveUpNever(c) == FALSE /\ UNCHANGED vars

\* Second select, ctx.Done() case: any case that is ready may be chosen.
GiveUp(c) ==
  /\ ctx[c] = "done"
  /\ Goto(c, "wait", "done")
  /\ Return(c, "ctx")
  /\ UNCHANGED <<ctx, file, out, workVars, queue, qClosed, closeMu, closeVars>>

\* ConvertTimeout passes, or the caller's own context is canceled.
Expire(c) ==
  /\ pc[c] \notin {"idle", "done"}
  /\ ctx[c] = "live"
  /\ ctx' = Set(ctx, c, "done")
  /\ UNCHANGED <<pc, answer, file, out, workVars, queue, qClosed, closeMu, closeVars>>

\* The caller of a successful Run moves the file away (runConvert).
Consume(c) ==
  /\ pc[c] = "done"
  /\ answer[c] = "ok"
  /\ file[c]
  /\ file' = Set(file, c, FALSE)
  /\ UNCHANGED <<callVars, out, workVars, queue, qClosed, closeMu, closeVars>>

-----------------------------------------------------------------------------
\* range p.queue receives an envelope.
Receive(w) ==
  /\ wpc[w] = "range"
  /\ queue # <<>>
  /\ env' = Set(env, w, Head(queue))
  /\ queue' = Tail(queue)
  /\ wpc' = Set(wpc, w, "execute")
  /\ UNCHANGED <<callVars, file, out, made, qClosed, closeMu, closeVars>>

\* Fault: the worker leaves as soon as the queue is closed.
ExitUndrained(w) ==
  /\ wpc[w] = "range"
  /\ qClosed
  /\ wpc' = Set(wpc, w, "exited")
  /\ UNCHANGED <<callVars, file, out, env, made, queue, qClosed, closeMu, closeVars>>

\* The queue is closed and drained: workers.Done().
Exit(w) ==
  /\ wpc[w] = "range"
  /\ queue = <<>>
  /\ qClosed
  /\ wpc' = Set(wpc, w, "exited")
  /\ UNCHANGED <<callVars, file, out, env, made, queue, qClosed, closeMu, closeVars>>

\* execute: every format returns ctx.Err() first thing if there is one.
Execute(w) ==
  /\ wpc[w] = "execute"
  /\ \/ /\ ctx[env[w]] = "done"
        /\ made' = Set(made, w, "error")
        /\ wpc' = Set(wpc, w, "post")
     \/ /\ ctx[env[w]] = "live"
        /\ wpc' = Set(wpc, w, "inside")
        /\ UNCHANGED made
  /\ UNCHANGED <<callVars, file, out, env, queue, qClosed, closeMu, closeVars>>

\* The conversion inside LOK ends: with a temp file, or with an error and
\* nothing left behind.
Convert(w) ==
  /\ wpc[w] = "inside"
  /\ \E o \in Outcomes :
       /\ made' = Set(made, w, o)
       /\ file' = Set(file, env[w], o = "file")
  /\ wpc' = Set(wpc, w, "post")
  /\ UNCHANGED <<callVars, out, env, queue, qClosed, closeMu, closeVars>>

NextJob(w) ==
  /\ wpc' = Set(wpc, w, "range")
  /\ env' = Set(env, w, NoOne)
  /\ made' = Set(made, w, "empty")

\* Fault: the file is removed although the outcome was sent.
PostRemovesAfterSend(w) ==
  /\ wpc[w] = "post"
  /\ out' = Set(out, env[w], made[w])
  /\ file' = IF ctx[env[w]] = "done" THEN Set(file, env[w], FALSE) ELSE file
  /\ NextJob(w)
  /\ UNCHANGED <<callVars, queue, qClosed, closeMu, closeVars>>

\* Fault: the outcome of a job whose caller went away is never given up.
PostNever(w) ==
  /\ wpc[w] = "post"
  /\ pc[env[w]] = "wait"
  /\ out' = Set(out, env[w], made[w])
  /\ NextJob(w)
  /\ UNCHANGED <<callVars, file, queue, qClosed, closeMu, closeVars>>

\* Fault: the file of a dropped outcome is left to the caller.
PostDropsOnly(w) ==
  /\ wpc[w] = "post"
  /\ out' = Set(out, env[w], made[w]) \/ (ctx[env[w]] = "done" /\ UNCHANGED out)
  /\ NextJob(w)
  /\ UNCHANGED <<callVars, file, queue, qClosed, closeMu, closeVars>>

\* The worker's select: send the outcome, or drop it if the context is done.
Post(w) ==
  /\ wpc[w] = "post"
  /\ \/ /\ out' = Set(out, env[w], made[w])
        /\ UNCHANGED file
     \/ /\ ctx[env[w]] = "done"
        /\ file' = Set(file, env[w], FALSE)
        /\ UNCHANGED out
  /\ NextJob(w)
  /\ UNCHANGED <<callVars, queue, qClosed, closeMu, closeVars>>

-----------------------------------------------------------------------------
\* Close locks closeMu.
CloseLock(k) ==
  /\ KGoto(k, "idle", "check")
  /\ closeMu = NoOne
  /\ closeMu' = k
  /\ UNCHANGED <<callVars, file, out, workVars, queue, qClosed, closed, closeErr, office, ret>>

\* Fault: the lock is released once closed is set.
CloseCheckUnlocks(k) ==
  /\ closeMu' = NoOne
  /\ \/ closed /\ KGoto(k, "check", "done") /\ ret' = Set(ret, k, closeErr)
        /\ UNCHANGED <<closed, qClosed>>
     \/ ~closed /\ KGoto(k, "check", "drain") /\ closed' = TRUE /\ qClosed' = TRUE
        /\ UNCHANGED ret
  /\ UNCHANGED <<callVars, file, out, workVars, queue, closeErr, office>>

\* if p.closed: return p.closeErr; else set closed and close the queue.
CloseCheck(k) ==
  /\ \/ /\ closed
        /\ KGoto(k, "check", "done")
        /\ ret' = Set(ret, k, closeErr)
        /\ closeMu' = NoOne
        /\ UNCHANGED <<closed, qClosed>>
     \/ /\ ~closed
        /\ KGoto(k, "check", "drain")
        /\ closed' = TRUE
        /\ qClosed' = TRUE
        /\ UNCHANGED <<ret, closeMu>>
  /\ UNCHANGED <<callVars, file, out, workVars, queue, closeErr, office>>

\* Fault: Close does not wait for the workers.
WorkersNotAwaited(k) ==
  /\ KGoto(k, "drain", "office")
  /\ UNCHANGED <<callVars, file, out, workVars, queue, qClosed, closeMu,
                 closed, closeErr, office, ret>>

\* p.workers.Wait()
WorkersWait(k) ==
  /\ KGoto(k, "drain", "office")
  /\ \A w \in Threads : wpc[w] = "exited"
  /\ UNCHANGED <<callVars, file, out, workVars, queue, qClosed, closeMu,
                 closed, closeErr, office, ret>>

\* p.closeErr = p.office.Close(); return it and unlock.
CloseOffice(k) ==
  /\ KGoto(k, "office", "done")
  /\ office' = office + 1
  /\ closeErr' = "office"
  /\ ret' = Set(ret, k, "office")
  /\ closeMu' = NoOne
  /\ UNCHANGED <<callVars, file, out, workVars, queue, qClosed, closed>>

-----------------------------------------------------------------------------
RunStep(c) == Lock(c) \/ Check(c) \/ Send(c) \/ TakeOutcome(c) \/ GiveUp(c)
WorkerStep(w) == Receive(w) \/ Exit(w) \/ Execute(w) \/ Post(w)
CloseStep(k) == CloseCheck(k) \/ WorkersWait(k) \/ CloseOffice(k)

Terminated ==
  /\ \A c \in Callers : pc[c] = "done" /\ (answer[c] = "ok" => ~file[c])
  /\ \A k \in Closers : kpc[k] = "done"
  /\ \A w \in Threads : wpc[w] = "exited"
  /\ UNCHANGED vars

Next ==
  \/ \E c \in Callers : Call(c) \/ RunStep(c) \/ Expire(c) \/ Consume(c)
  \/ \E w \in Threads : WorkerStep(w) \/ Convert(w)
  \/ \E k \in Closers : CloseLock(k) \/ CloseStep(k)
  \/ Terminated

Spec == Init /\ [][Next]_vars

\* Goroutines run and every context ends (ConvertTimeout > 0); nothing is
\* assumed of a conversion inside LOK, and nobody has to call Close.
FairSpec ==
  /\ Spec
  /\ \A c \in Callers : WF_vars(RunStep(c)) /\ WF_vars(Expire(c)) /\ WF_vars(Consume(c))
  /\ \A w \in Threads : WF_vars(WorkerStep(w))
  /\ \A k \in Closers : WF_vars(CloseStep(k))

LOKReturns == \A w \in Threads : WF_vars(Convert(w))

-----------------------------------------------------------------------------
TypeOK ==
  /\ pc \in [Callers -> {"idle", "lock", "check", "send", "wait", "done"}]
  /\ ctx \in [Callers -> {"live", "done"}]
  /\ answer \in [Callers -> Answers]
  /\ file \in [Callers -> BOOLEAN]
  /\ out \in [Callers -> Outcomes \cup {"empty"}]
  /\ wpc \in [Threads -> {"range", "execute", "inside", "post", "exited"}]
  /\ env \in [Threads -> Callers \cup {NoOne}]
  /\ made \in [Threads -> Outcomes \cup {"empty"}]
  /\ queue \in Seq(Callers)
  /\ qClosed \in BOOLEAN
  /\ closed \in BOOLEAN
  /\ closeMu \in Callers \cup Closers \cup {NoOne}
  /\ closeErr \in {"zero", "office"}
  /\ office \in Nat
  /\ kpc \in [Closers -> {"idle", "check", "drain", "office", "done"}]
  /\ ret \in [Closers -> {"none", "zero", "office"}]

\* A call about to send holds closeMu and finds the queue open: no send on a
\* closed channel, however Run and Close interleave (pool.go:182-184).
NoSendOnClosedQueue ==
  \A c \in Callers : pc[c] = "send" => ~qClosed /\ closeMu = c

\* office.Close runs at most once, and only when every worker goroutine is out
\* of LOK and no accepted job is left in the queue.
OfficeClosedLast ==
  /\ office <= 1
  /\ office = 1 =>
       /\ queue = <<>>
       /\ \A w \in Threads : wpc[w] = "exited"

\* Every Close returns what office.Close returned, a racing second one included
\* (pool.go:137-140).
CloseReturnsOfficeErr ==
  \A k \in Closers : kpc[k] = "done" => ret[k] = "office"

\* Run hands over the file it names: when it answers "ok", the output file is
\* there, whatever the worker did with the outcomes of other calls.
AnswerHasFile ==
  [][\A c \in Callers : answer[c] # "ok" /\ answer'[c] = "ok" => file'[c]]_vars

\* The comment on Result.OutPath: "caller os.Removes after streaming"; a call
\* that was not answered "ok" has no path to remove, so once no worker owes its
\* outcome no file of it may be left.
NoOrphanFile ==
  \A c \in Callers :
    pc[c] = "done" /\ answer[c] # "ok" /\ ~Pending(c) => ~file[c]

\* The one way to leave a file: the call's context ended, and both selects raced,
\* the worker sending the outcome that Run no longer receives.
OrphanIsInChannel ==
  \A c \in Callers :
    pc[c] = "done" /\ answer[c] # "ok" /\ ~Pending(c) /\ file[c] =>
      answer[c] = "ctx" /\ out[c] = "file"

\* A call whose job was accepted returns by its deadline, though LOK hangs.
AcceptedCallReturns == \A c \in Callers : pc[c] = "wait" ~> pc[c] = "done"

\* If LOK returns from every conversion, a Close that has begun drains the
\* queue and returns.
CloseCompletes ==
  LOKReturns => \A k \in Closers : kpc[k] = "check" ~> kpc[k] = "done"

-----------------------------------------------------------------------------
\* The Converter that bi convert sees.  A job counts as being converted from
\* Execute until its call is answered; one whose outcome was dropped has failed,
\* as there is only the end of its context left for Run to receive.  The number of
\* conversions is that of the goroutines, so no bound is asked of it.
TakenUp(c) == \E w \in Threads : env[w] = c /\ wpc[w] \in {"inside", "post"}

Phase(c) ==
  CASE pc[c] = "idle" -> "new"
    [] pc[c] \in {"lock", "check", "send"} -> "waiting"
    [] pc[c] = "wait" /\ (out[c] # "empty" \/ TakenUp(c)) -> "converting"
    [] pc[c] = "wait" /\ out[c] = "empty" /\ ~TakenUp(c) ->
         IF Pending(c) THEN "waiting" ELSE "failed"
    [] pc[c] = "done" -> IF answer[c] = "ok" THEN "ok" ELSE "failed"

phases == [c \in Callers |-> Phase(c)]
handedOver == {c \in Callers : answer[c] = "ok" /\ file[c]}

Contract == INSTANCE ConverterContract
  WITH Calls <- Callers, Workers <- 0, status <- phases, kept <- handedOver

\* worker.Converter (internal/worker/types.go) promises the same of the pool as of
\* SubprocessConverter: a call waits, is converted, is answered once, and the file
\* of a successful one is the caller's until it takes it; nothing is handed over
\* for a call that failed or was given up, and none comes back.
KeepsContract == Contract!Spec
=============================================================================
