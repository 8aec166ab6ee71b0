----------------------------- MODULE Subprocess ------------------------------
(***************************************************************************)
(* SubprocessConverter.Run (internal/server/subprocess.go): one child       *)
(* process `bi convert` per request, between acquire and release.           *)
(*                                                                          *)
(* The limiter is module Limiter, on the same variables: while pc[c] =      *)
(* "held" the call walks through `stage`.  Around it act                    *)
(*   - the child (cmd/bi/convert.go), which writes the output file, prints  *)
(*     one JSON line and exits, and may crash, hang, print something else   *)
(*     last or leave a descendant process behind;                           *)
(*   - os/exec: the goroutine that runs cmd.Cancel when runCtx is done, and *)
(*     the WaitDelay timer;                                                 *)
(*   - the HTTP handler (handleConversion), which streams the output of a   *)
(*     successful call and removes it.                                      *)
(***************************************************************************)
EXTENDS Integers, FiniteSets

CONSTANTS Calls, Workers, QueueDepth, Metered, TimeoutSet

ASSUME SubprocessAssumption ==
  /\ IsFiniteSet(Calls)
  /\ Workers \in Int
  /\ QueueDepth \in Int
  /\ Metered \in BOOLEAN
  /\ TimeoutSet \in BOOLEAN

VARIABLES
  pc, ctx, err, admission, workers, busyGauge, queueGauge, scan, seen,
  stage,    \* where the call is between acquire and release
  outFile,  \* the file at outPath exists
  procTmp,  \* the child's private TMPDIR exists
  child,    \* the process the call started
  stray,    \* a descendant of the child is alive and holds its stdout
  line,     \* what the last line of the child's stdout parses to
  killed,   \* cmd.Cancel ran and returned nil
  runErr,   \* what cmd.Run returned to the call is not nil
  result    \* what Run returned after acquire succeeded

L == INSTANCE Limiter

limiterVars ==
  <<pc, ctx, err, admission, workers, busyGauge, queueGauge, scan, seen>>
files == <<outFile, procTmp>>
process == <<child, stray, line>>
runVars == <<stage, files, process, killed, runErr, result>>
vars == <<limiterVars, runVars>>

-----------------------------------------------------------------------------
Stage == {"none", "temp", "spawn", "running", "reaped", "drain", "outcome",
          "cleanup", "finished", "served"}
ChildState == {"none", "running", "exit0", "exit1", "killed"} \* none: reaped, too
Line == {"unparsable", "ok", "error", "timeout"}
Result == {"none", "ok", "worker-error", "internal", "canceled", "expired"}

\* What Run returned: acquire's error or the outcome of the conversion.
Returned(c) == pc[c] = "done"
Answer(c) == IF err[c] # "none" THEN err[c] ELSE result[c]

\* The child or a descendant of it is running.
Alive(c) == child[c] = "running" \/ stray[c]

In(c, s) == pc[c] = "held" /\ scan[c] = "off" /\ stage[c] = s
To(c, s) == stage' = [stage EXCEPT ![c] = s]
Set(f, c, v) == [f EXCEPT ![c] = v]

Init ==
  /\ L!Init
  /\ stage = [c \in Calls |-> "none"]
  /\ outFile = [c \in Calls |-> FALSE]
  /\ procTmp = [c \in Calls |-> FALSE]
  /\ child = [c \in Calls |-> "none"]
  /\ stray = [c \in Calls |-> FALSE]
  /\ line = [c \in Calls |-> "unparsable"]
  /\ killed = [c \in Calls |-> FALSE]
  /\ runErr = [c \in Calls |-> FALSE]
  /\ result = [c \in Calls |-> "none"]

-----------------------------------------------------------------------------
\* outputTempPath: create a file for its unique name and remove it.  An error
\* is Run's error, with nothing to clean up.
OutputTempPath(c) ==
  /\ In(c, "none")
  /\ \/ /\ To(c, "temp")
        /\ UNCHANGED result
     \/ /\ To(c, "finished")
        /\ result' = Set(result, c, "internal")
  /\ UNCHANGED <<limiterVars, files, process, killed, runErr>>

\* os.MkdirTemp for the child's TMPDIR; RemoveAll is deferred if it succeeds.
MkdirTemp(c) ==
  /\ In(c, "temp")
  /\ \/ /\ procTmp' = Set(procTmp, c, TRUE)
        /\ To(c, "spawn")
        /\ UNCHANGED result
     \/ /\ To(c, "finished")
        /\ result' = Set(result, c, "internal")
        /\ UNCHANGED procTmp
  /\ UNCHANGED <<limiterVars, outFile, process, killed, runErr>>

\* cmd.Start: refuses a context that is done, may fail to fork, or leaves a
\* child running in a session of its own.
Spawn(c) ==
  /\ In(c, "spawn")
  /\ \/ /\ ~L!Done(c)
        /\ child' = Set(child, c, "running")
        /\ To(c, "running")
        /\ UNCHANGED runErr
     \/ /\ runErr' = Set(runErr, c, TRUE)
        /\ To(c, "outcome")
        /\ UNCHANGED child
  /\ UNCHANGED <<limiterVars, files, stray, line, killed, result>>

-----------------------------------------------------------------------------
\* The child forks a helper process, which inherits its stdout.
ChildForks(c) ==
  /\ child[c] = "running"
  /\ ~stray[c]
  /\ stray' = Set(stray, c, TRUE)
  /\ UNCHANGED <<limiterVars, stage, files, child, line, killed, runErr, result>>

\* The child renames or copies its result to -out; a copy can break off, so
\* the file may exist before any line is printed, and stay when the child fails.
ChildWrites(c) ==
  /\ child[c] = "running"
  /\ line[c] = "unparsable"
  /\ outFile' = Set(outFile, c, TRUE)
  /\ UNCHANGED <<limiterVars, stage, procTmp, process, killed, runErr, result>>

\* The child prints its result line: the success line only after the output
\* is in place; failConvert's line ("timeout" for its own deadline) any time.
ChildPrints(c) ==
  /\ child[c] = "running"
  /\ line[c] = "unparsable"
  /\ \E l \in Line \ {"unparsable"} :
       /\ l = "ok" => outFile[c]
       /\ line' = Set(line, c, l)
  /\ UNCHANGED <<limiterVars, stage, files, child, stray, killed, runErr, result>>

\* os.Exit(0) after the success line, os.Exit(1) after an error line, or a
\* crash at any time; native code that still prints on its way down makes the
\* last line something else.
ChildExits(c) ==
  /\ child[c] = "running"
  /\ \E code \in {"exit0", "exit1"}, l \in {line[c], "unparsable"} :
       /\ code = "exit0" => line[c] = "ok"
       /\ child' = Set(child, c, code)
       /\ line' = Set(line, c, l)
  /\ UNCHANGED <<limiterVars, stage, files, stray, killed, runErr, result>>

\* A descendant ends by itself.
StrayExits(c) ==
  /\ stray[c]
  /\ stray' = Set(stray, c, FALSE)
  /\ UNCHANGED <<limiterVars, stage, files, child, line, killed, runErr, result>>

-----------------------------------------------------------------------------
\* Fault: Cancel kills the child but not its process group.
KillLeaderOnly(c) ==
  /\ stage[c] \in {"running", "reaped"}
  /\ L!Done(c)
  /\ ~killed[c]
  /\ stage[c] = "reaped" => stray[c]
  /\ killed' = Set(killed, c, TRUE)
  /\ child' = IF child[c] = "running" THEN Set(child, c, "killed") ELSE child
  /\ UNCHANGED <<limiterVars, stage, files, stray, line, runErr, result>>

\* Fault: only the deadline kills, a client that went away does not.
KillOnExpiryOnly(c) ==
  /\ stage[c] \in {"running", "reaped"}
  /\ ctx[c] = "expired"
  /\ ~killed[c]
  /\ stage[c] = "reaped" => stray[c]
  /\ killed' = Set(killed, c, TRUE)
  /\ child' = IF child[c] = "running" THEN Set(child, c, "killed") ELSE child
  /\ stray' = Set(stray, c, FALSE)
  /\ UNCHANGED <<limiterVars, stage, files, line, runErr, result>>

\* runCtx is done before Wait took the watcher's result: cmd.Cancel sends
\* SIGKILL to the process group of the child.  A leader not reaped yet is still
\* in the group, so the kill succeeds even after it exited.
Kill(c) ==
  /\ stage[c] \in {"running", "reaped"}
  /\ L!Done(c)
  /\ ~killed[c]
  /\ stage[c] = "reaped" => stray[c]
  /\ killed' = Set(killed, c, TRUE)
  /\ child' = IF child[c] = "running" THEN Set(child, c, "killed") ELSE child
  /\ stray' = Set(stray, c, FALSE)
  /\ UNCHANGED <<limiterVars, stage, files, line, runErr, result>>

\* Fault: a done context ends the wait, the child exited or not.
ReapOnDone(c) ==
  /\ In(c, "running")
  /\ child[c] # "running" \/ L!Done(c)
  /\ runErr' = Set(runErr, c, child[c] # "exit0")
  /\ To(c, "reaped")
  /\ UNCHANGED <<limiterVars, files, process, killed, result>>

\* Process.Wait returns: the leader is reaped.
Reap(c) ==
  /\ In(c, "running")
  /\ child[c] \in {"exit0", "exit1", "killed"}
  /\ runErr' = Set(runErr, c, child[c] # "exit0")
  /\ child' = Set(child, c, "none")
  /\ To(c, "reaped")
  /\ UNCHANGED <<limiterVars, files, stray, line, killed, result>>

\* Wait receives the watcher's result: ctx.Err() if Cancel succeeded.
HandOver(c) ==
  /\ In(c, "reaped")
  /\ runErr' = Set(runErr, c, runErr[c] \/ killed[c])
  /\ To(c, "drain")
  /\ UNCHANGED <<limiterVars, files, process, killed, result>>

\* The goroutines that copy stdout and stderr end, or WaitDelay passes first.
Drained(c) ==
  /\ In(c, "drain")
  /\ ~stray[c]
  /\ To(c, "outcome")
  /\ UNCHANGED <<limiterVars, files, process, killed, runErr, result>>

WaitDelay(c) ==
  /\ In(c, "drain")
  /\ stray[c]
  /\ runErr' = Set(runErr, c, TRUE)
  /\ To(c, "outcome")
  /\ UNCHANGED <<limiterVars, files, process, killed, result>>

-----------------------------------------------------------------------------
\* The error Run returns for what the child printed (classifySubprocessErr),
\* or, without an error line, for the context or the failed run.
Failure(c) ==
  CASE line[c] = "error" -> "worker-error"
    [] line[c] = "timeout" -> "expired"
    [] OTHER -> IF L!Done(c) THEN ctx[c] ELSE "internal"

\* Fault: a success line counts whatever cmd.Run returned.
FailsIgnoringExit(c) == line[c] # "ok"

Fails(c) == line[c] = "unparsable" \/ runErr[c]

\* Fault: only the branch of an unparsable line removes the output.
OutcomeKeepsFile(c) ==
  /\ In(c, "outcome")
  /\ result' = Set(result, c, IF Fails(c) THEN Failure(c) ELSE "ok")
  /\ outFile' = Set(outFile, c, outFile[c] /\ (line[c] = "unparsable" => ~Fails(c)))
  /\ To(c, "cleanup")
  /\ UNCHANGED <<limiterVars, procTmp, process, killed, runErr>>

\* Fault: the output is removed with the scratch directory.
OutcomeRemovesAlways(c) ==
  /\ In(c, "outcome")
  /\ result' = Set(result, c, IF Fails(c) THEN Failure(c) ELSE "ok")
  /\ outFile' = Set(outFile, c, FALSE)
  /\ To(c, "cleanup")
  /\ UNCHANGED <<limiterVars, procTmp, process, killed, runErr>>

\* lastJSONLine and the returns of Run that follow cmd.Run.
Outcome(c) ==
  /\ In(c, "outcome")
  /\ result' = Set(result, c, IF Fails(c) THEN Failure(c) ELSE "ok")
  /\ outFile' = Set(outFile, c, outFile[c] /\ ~Fails(c))
  /\ To(c, "cleanup")
  /\ UNCHANGED <<limiterVars, procTmp, process, killed, runErr>>

\* Fault: the RemoveAll is missing.
RemoveProcTmpForgotten(c) ==
  /\ In(c, "cleanup")
  /\ To(c, "finished")
  /\ UNCHANGED <<limiterVars, files, process, killed, runErr, result>>

\* Deferred os.RemoveAll(procTmp).
RemoveProcTmp(c) ==
  /\ In(c, "cleanup")
  /\ procTmp' = Set(procTmp, c, FALSE)
  /\ To(c, "finished")
  /\ UNCHANGED <<limiterVars, outFile, process, killed, runErr, result>>

\* Deferred release(); cmd and its buffers are Run's locals and end with it.
Finish(c) ==
  /\ stage[c] = "finished"
  /\ L!Finish(c)
  /\ line' = Set(line, c, "unparsable")
  /\ killed' = Set(killed, c, FALSE)
  /\ runErr' = Set(runErr, c, FALSE)
  /\ UNCHANGED <<stage, files, child, stray, result>>

\* handleConversion streams the output; its deferred os.Remove runs even when
\* the client is gone.
Serve(c) ==
  /\ Returned(c)
  /\ Answer(c) = "ok"
  /\ stage[c] = "finished"
  /\ outFile' = Set(outFile, c, FALSE)
  /\ To(c, "served")
  /\ UNCHANGED <<limiterVars, procTmp, process, killed, runErr, result>>

-----------------------------------------------------------------------------
Limit(c) ==
  /\ \/ L!Start(c) \/ L!Advance(c)
     \/ \E why \in {"canceled", "expired"} : L!ContextEnds(c, why)
  /\ UNCHANGED runVars

\* The steps of Run between acquire and release, and of os/exec for it.
Convert(c) ==
  \/ OutputTempPath(c) \/ MkdirTemp(c) \/ Spawn(c)
  \/ Reap(c) \/ HandOver(c) \/ Drained(c) \/ WaitDelay(c)
  \/ Outcome(c) \/ RemoveProcTmp(c) \/ Finish(c)

ChildStep(c) ==
  \/ ChildForks(c) \/ ChildWrites(c) \/ ChildPrints(c) \/ ChildExits(c)
  \/ StrayExits(c)

Terminated ==
  /\ \A c \in Calls : L!At(c, "done") /\ (Answer(c) = "ok" => stage[c] = "served")
  /\ UNCHANGED vars

Next ==
  \/ \E c \in Calls :
        Limit(c) \/ Convert(c) \/ ChildStep(c) \/ Kill(c) \/ Serve(c)
  \/ Terminated

Spec == Init /\ [][Next]_vars

\* Goroutines run, the watcher and the timers fire, a deadline passes; nothing
\* is assumed of the child, which may hang, nor of its descendants.
Fairness ==
  \A c \in Calls :
    /\ WF_vars(L!Advance(c) /\ UNCHANGED runVars)
    /\ WF_vars(Convert(c))
    /\ WF_vars(Kill(c))
    /\ WF_vars(Serve(c))
    /\ WF_vars(L!ContextEnds(c, "expired") /\ UNCHANGED runVars)
FairSpec == Spec /\ Fairness

-----------------------------------------------------------------------------
TypeOK ==
  /\ stage \in [Calls -> Stage]
  /\ outFile \in [Calls -> BOOLEAN]
  /\ procTmp \in [Calls -> BOOLEAN]
  /\ child \in [Calls -> ChildState]
  /\ stray \in [Calls -> BOOLEAN]
  /\ line \in [Calls -> Line]
  /\ killed \in [Calls -> BOOLEAN]
  /\ runErr \in [Calls -> BOOLEAN]
  /\ result \in [Calls -> Result]

\* No output file outlives its call unless the call answered "ok", whatever
\* the child left behind when it failed, crashed or was killed: the file of
\* every other answer is gone when Run returns.
NoOrphanOutput ==
  \A c \in Calls : Returned(c) /\ outFile[c] => Answer(c) = "ok"

\* A successful answer names a file the child finished writing, and that file
\* stays until the handler has streamed it.
OkHasOutput ==
  \A c \in Calls :
    Returned(c) /\ Answer(c) = "ok" /\ stage[c] # "served" => outFile[c]

\* The child's scratch directory lives only while the call holds its worker.
ScratchOnlyWhileHeld == \A c \in Calls : procTmp[c] => pc[c] = "held"

\* The child process itself is gone before the worker slot is given back, so
\* at most Workers children run at once.
ChildrenWithinWorkers ==
  /\ \A c \in Calls : child[c] = "running" => pc[c] = "held"
  /\ Workers > 0 => Cardinality({c \in Calls : child[c] = "running"}) <= Workers

\* Once a cancellation killed the child, no process of its group is left while
\* Run still works on the call, descendants included.
KilledGroupIsGone == \A c \in Calls : killed[c] => ~Alive(c)

\* A call whose child was killed is never answered "ok", even when the child had
\* printed its success line or had exited 0 before it was reaped; and an answer
\* that blames the context is one whose context is done or whose child timed out.
AnswerMatchesFate ==
  \A c \in Calls :
    /\ killed[c] => result[c] # "ok"
    /\ result[c] = "canceled" => ctx[c] = "canceled"
    /\ result[c] = "expired" /\ pc[c] = "held" =>
         ctx[c] = "expired" \/ line[c] = "timeout"

\* Seen from the handlers, a call waits until it owns a worker token, converts
\* until it gave the token back and is answered from then on.
Phase(c) ==
  CASE pc[c] = "idle" -> "new"
    [] pc[c] \in {"admit", "queued"} -> "waiting"
    [] pc[c] \in {"granted", "held", "unbusy", "drop"} -> "converting"
    [] OTHER -> IF Answer(c) = "ok" THEN "ok" ELSE "failed"

phases == [c \in Calls |-> Phase(c)]
handedOver == {c \in Calls : pc[c] \in {"leave", "done"} /\ outFile[c]}

Contract == INSTANCE ConverterContract WITH status <- phases, kept <- handedOver

\* Run keeps the contract of worker.Converter: bounded parallelism, one answer
\* per call, an output file handed over with a successful answer and with no
\* other.
KeepsContract == Contract!Spec

\* And it keeps it in time: although the child may hang, every call is answered, and
\* every file handed over is removed, that for a client that went away included.
AnswersEveryCall == Contract!FairSpec
=============================================================================
