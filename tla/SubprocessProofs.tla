--------------------------- MODULE SubprocessProofs ---------------------------
(***************************************************************************)
(* Theorems about module Subprocess, for every set of calls, every size of  *)
(* the limiter and with or without a deadline:                              *)
(*   - its limiter is module Limiter, so the theorems of LimiterProofs hold *)
(*     here (ImplementsLimiter, LimiterInvariant);                          *)
(*   - the safety invariants about files, children and answers, from the    *)
(*     inductive invariant IInv;                                            *)
(*   - Run keeps the contract of ConverterContract (ImplementsContract).    *)
(***************************************************************************)
EXTENDS Subprocess, FiniteSetTheorems, TLAPS

LP == INSTANCE LimiterProofs

-----------------------------------------------------------------------------
\* The limiter inside Run.  L and LP!L are instances of one module on the same
\* variables: their definitions expand to the same formulas.

\* The two instances have the same initial states.
LEMMA SameInit == L!Init => LP!Init
BY DEF L!Init, LP!Init

\* The two instances have the same steps.
LEMMA SameStep == [L!Next]_(L!vars) => [LP!Next]_(LP!vars)
BY DEF L!Next, L!vars, L!chans, L!gauges, L!observing,
       L!Start, L!Advance, L!Finish, L!ContextEnds, L!Admit,
       L!AdmitCanceled, L!Refuse, L!Grant, L!MarkBusy, L!WaitCanceled, L!MarkIdle,
       L!DropWorker, L!Leave, L!ReadAdmission, L!ReadWorkers, L!SetDepth, L!Depth,
       L!AdmissionCap, L!Unlimited, L!At, L!Goto, L!Done, L!BeginObserve,
       L!Terminated,
       LP!Next, LP!vars, LP!chans, LP!gauges, LP!observing,
       LP!Start, LP!Advance, LP!Finish, LP!ContextEnds, LP!Admit,
       LP!AdmitCanceled, LP!Refuse, LP!Grant, LP!MarkBusy, LP!WaitCanceled,
       LP!MarkIdle, LP!DropWorker, LP!Leave, LP!ReadAdmission, LP!ReadWorkers,
       LP!SetDepth, LP!Depth, LP!AdmissionCap, LP!Unlimited, LP!At, LP!Goto,
       LP!Done, LP!BeginObserve, LP!Terminated

\* The two instances count a set of calls alike.
LEMMA SameCardinality == \A S : LP!Cardinality(S) = Cardinality(S)
BY DEF LP!Cardinality, Cardinality

\* Every step of Run, of the child and of the handler is a step of the limiter
\* or leaves its variables alone.
LEMMA LimiterStep == [Next]_vars => [L!Next]_(L!vars)
<1> SUFFICES ASSUME [Next]_vars PROVE [L!Next]_(L!vars)
  OBVIOUS
<1> USE DEF limiterVars, L!vars, L!chans, L!gauges, L!observing
<1>1. CASE UNCHANGED vars
  BY <1>1 DEF vars
<1>2. ASSUME NEW c \in Calls, Limit(c) PROVE L!Next
  BY <1>2 DEF Limit, L!Next
<1>3. ASSUME NEW c \in Calls, Finish(c) PROVE L!Next
  BY <1>3 DEF Finish, L!Next
<1>4. ASSUME NEW c \in Calls,
             \/ OutputTempPath(c) \/ MkdirTemp(c) \/ Spawn(c)
             \/ Reap(c) \/ HandOver(c) \/ Drained(c) \/ WaitDelay(c)
             \/ Outcome(c) \/ RemoveProcTmp(c) \/ ChildStep(c) \/ Kill(c) \/ Serve(c)
      PROVE  UNCHANGED limiterVars
  BY <1>4 DEF OutputTempPath, MkdirTemp, Spawn, Reap, HandOver, Drained, WaitDelay,
      Outcome, RemoveProcTmp, ChildStep, ChildForks, ChildWrites, ChildPrints,
      ChildExits, StrayExits, Kill, Serve
<1> QED BY <1>1, <1>2, <1>3, <1>4 DEF Next, Convert, Terminated, vars

\* The limiter of Run behaves as module Limiter says, whatever the children, the
\* timers and the handlers around it do.
THEOREM ImplementsLimiter == Spec => L!Spec
<1>1. Init => L!Init
  BY DEF Init
<1> QED BY <1>1, LimiterStep, PTL DEF Spec, L!Spec

\* The inductive invariant of LimiterProofs holds inside Run.
THEOREM LimiterInvariant == Spec => []LP!IInv
<1>0. LP!LimiterAssumption
  BY SubprocessAssumption
     DEF SubprocessAssumption, LP!LimiterAssumption, IsFiniteSet, LP!IsFiniteSet
<1>1. LP!Spec => []LP!IInv
  BY <1>0, LP!Inductive
<1>2. L!Spec => LP!Spec
  BY SameInit, SameStep, PTL DEF L!Spec, LP!Spec
<1> QED BY <1>1, <1>2, ImplementsLimiter, PTL

-----------------------------------------------------------------------------
\* What the rest of this module uses of the limiter: its types, and that its
\* worker tokens are the calls between Grant and DropWorker, at most Workers.
Converting == {c \in Calls : pc[c] \in {"granted", "held", "unbusy", "drop"}}

LimiterFacts ==
  /\ pc \in [Calls -> L!PC]
  /\ ctx \in [Calls -> L!CtxState]
  /\ err \in [Calls -> L!Errors]
  /\ Workers > 0 => workers = Cardinality(Converting) /\ workers <= Workers

\* What the proofs below need of the limiter follows from its invariant.
LEMMA FromLimiter == LP!IInv => LimiterFacts
<1> SUFFICES ASSUME LP!IInv PROVE LimiterFacts
  OBVIOUS
<1>1. LP!TypeOK /\ LP!TokenInv
  BY DEF LP!IInv
<1>2. LP!WorkerHolders = Converting
  BY DEF LP!WorkerHolders, Converting
<1> QED BY <1>1, <1>2, SameCardinality, SubprocessAssumption
     DEF SubprocessAssumption, LimiterFacts, LP!TypeOK, LP!TokenInv, LP!Unlimited,
         LP!PC, L!PC, LP!CtxState, L!CtxState, LP!Errors, L!Errors

-----------------------------------------------------------------------------
\* How the stage of a call, its place in the limiter and its files belong
\* together.  Before the child is spawned and after the outcome is known the
\* output file is determined; in between it is not.
Before == {"none", "temp", "spawn"}
After == {"cleanup", "finished"}

StageInv(c) ==
  /\ pc[c] \in {"idle", "admit", "queued", "granted"} => stage[c] = "none"
  /\ pc[c] = "held" => stage[c] # "served"
  /\ pc[c] \in {"unbusy", "drop"} => stage[c] = "finished"
  /\ pc[c] \in {"leave", "done"} =>
       \/ err[c] # "none" /\ stage[c] = "none"
       \/ err[c] = "none" /\ stage[c] \in {"finished", "served"}
  /\ pc[c] \notin {"leave", "done"} => err[c] = "none"

FileInv(c) ==
  /\ stage[c] \in Before => ~outFile[c] /\ result[c] = "none"
  /\ stage[c] \in Before => line[c] = "unparsable"
  /\ stage[c] \in {"running", "reaped", "drain", "outcome"} /\ line[c] = "ok" => outFile[c]
  /\ stage[c] \in After => (outFile[c] <=> result[c] = "ok")
  /\ stage[c] = "served" => ~outFile[c] /\ result[c] = "ok"
  /\ stage[c] \notin After \cup {"served"} => result[c] = "none"
  /\ procTmp[c] => pc[c] = "held" /\ stage[c] \notin {"none", "temp", "finished"}

ChildInv(c) ==
  /\ child[c] = "running" => pc[c] = "held" /\ stage[c] = "running"
  /\ child[c] = "exit0" => line[c] \in {"ok", "unparsable"}
  /\ stage[c] \in {"reaped", "drain", "outcome"} /\ ~runErr[c] =>
       line[c] \in {"ok", "unparsable"}
  /\ killed[c] => child[c] # "running" /\ ~stray[c]
  /\ stage[c] \in Before => ~killed[c]
  /\ stage[c] \in {"drain", "outcome"} /\ killed[c] => runErr[c]
  /\ stage[c] \in Before \cup {"running"} => ~runErr[c]

FateInv(c) ==
  /\ killed[c] => result[c] # "ok"
  /\ result[c] = "canceled" => ctx[c] = "canceled"
  /\ result[c] = "expired" /\ pc[c] = "held" =>
       ctx[c] = "expired" \/ line[c] = "timeout"

CallInv(c) == StageInv(c) /\ FileInv(c) /\ ChildInv(c) /\ FateInv(c)
IInv == TypeOK /\ \A c \in Calls : CallInv(c)

\* The initial states satisfy the invariant.
LEMMA InitInv == Init => IInv
BY DEF Init, L!Init, IInv, TypeOK, Stage, ChildState, Line, Result, CallInv,
       StageInv, FileInv, ChildInv, FateInv, Before, After

\* A call none of whose variables change keeps its invariant.
Frozen(c) ==
  /\ pc'[c] = pc[c] /\ ctx'[c] = ctx[c] /\ err'[c] = err[c]
  /\ stage'[c] = stage[c] /\ outFile'[c] = outFile[c] /\ procTmp'[c] = procTmp[c]
  /\ child'[c] = child[c] /\ stray'[c] = stray[c] /\ line'[c] = line[c]
  /\ killed'[c] = killed[c] /\ runErr'[c] = runErr[c] /\ result'[c] = result[c]

\* A call whose part of the state stays the same keeps its invariant.
LEMMA FrozenInv == ASSUME NEW c \in Calls, CallInv(c), Frozen(c) PROVE CallInv(c)'
BY DEF Frozen, CallInv, StageInv, FileInv, ChildInv, FateInv, Before, After

\* A step of the limiter moves pc, ctx and err of one call, never the files or
\* the child, in one of ten ways.
Moves(c, from, to) == pc[c] = from /\ pc'[c] = to
Kept(c) == err'[c] = err[c]
Refused(c) == err'[c] \in {"canceled", "expired", "queue-full"}

\* A limiter step moves one call, and one that refuses it sets its error.
LEMMA LimitMoves ==
  ASSUME LimiterFacts, NEW c \in Calls, Limit(c)
  PROVE  /\ UNCHANGED runVars
         /\ \A d \in Calls \ {c} : Frozen(d)
         /\ pc'[c] # pc[c] => ctx'[c] = ctx[c]
         /\ ctx'[c] = ctx[c] \/ ctx[c] = "live"
         /\ \/ pc'[c] = pc[c] /\ Kept(c)
            \/ Moves(c, "idle", "admit") /\ Kept(c)
            \/ Moves(c, "admit", "queued") /\ Kept(c)
            \/ Moves(c, "admit", "held") /\ Kept(c) /\ Workers <= 0
            \/ Moves(c, "admit", "done") /\ Refused(c)
            \/ Moves(c, "queued", "granted") /\ Kept(c) /\ workers < Workers
            \/ Moves(c, "queued", "leave") /\ Refused(c)
            \/ Moves(c, "granted", "held") /\ Kept(c)
            \/ Moves(c, "unbusy", "drop") /\ Kept(c)
            \/ Moves(c, "drop", "leave") /\ Kept(c)
            \/ Moves(c, "leave", "done") /\ Kept(c)
<1> USE DEF Limit, LimiterFacts, L!Start, L!Advance,
     L!ContextEnds, L!Admit, L!AdmitCanceled, L!Refuse, L!Grant,
     L!MarkBusy, L!WaitCanceled, L!MarkIdle, L!DropWorker, L!Leave,
     L!ReadAdmission, L!ReadWorkers, L!SetDepth, L!Goto
<1>1. UNCHANGED runVars
  OBVIOUS
<1>2. \A d \in Calls \ {c} : Frozen(d)
  BY <1>1 DEF Frozen, runVars, files, process
<1>3. pc'[c] # pc[c] => ctx'[c] = ctx[c]
  OBVIOUS
<1>4. ctx'[c] = ctx[c] \/ ctx[c] = "live"
  OBVIOUS
<1>5. \/ pc'[c] = pc[c] /\ Kept(c)
      \/ Moves(c, "idle", "admit") /\ Kept(c)
      \/ Moves(c, "admit", "queued") /\ Kept(c)
      \/ Moves(c, "admit", "held") /\ Kept(c) /\ Workers <= 0
      \/ Moves(c, "admit", "done") /\ Refused(c)
      \/ Moves(c, "queued", "granted") /\ Kept(c) /\ workers < Workers
      \/ Moves(c, "queued", "leave") /\ Refused(c)
      \/ Moves(c, "granted", "held") /\ Kept(c)
      \/ Moves(c, "unbusy", "drop") /\ Kept(c)
      \/ Moves(c, "drop", "leave") /\ Kept(c)
      \/ Moves(c, "leave", "done") /\ Kept(c)
  BY DEF Moves, Kept, Refused, L!At, L!Done, L!Unlimited, L!CtxState, L!chans, L!gauges,
     L!observing
<1> QED BY <1>1, <1>2, <1>3, <1>4, <1>5

\* The limiter steps of Run preserve the invariant.
LEMMA LimitStep ==
  ASSUME LimiterFacts, IInv, NEW c \in Calls, Limit(c)
  PROVE  IInv'
<1> USE DEF IInv
<1>1. UNCHANGED <<stage, outFile, procTmp, child, stray, line, killed, runErr, result>>
  BY LimitMoves DEF runVars, files, process
<1>2. TypeOK'
  BY <1>1 DEF TypeOK
<1>3. \A d \in Calls \ {c} : Frozen(d)
  BY LimitMoves
<1>4. CallInv(c)'
  BY <1>1, LimitMoves DEF Moves, Kept, Refused, CallInv, StageInv, FileInv, ChildInv,
     FateInv, Before, After
<1> QED BY <1>2, <1>3, <1>4, FrozenInv

\* The steps of Run while the call holds its worker.
LEMMA ConvertStep ==
  ASSUME LimiterFacts, IInv, NEW c \in Calls, Convert(c)
  PROVE  IInv'
<1> USE DEF IInv, In, To, Set
<1>0. Failure(c) \in Result /\ (Fails(c) \/ ~Fails(c))
  BY DEF Failure, L!Done, LimiterFacts, L!CtxState, TypeOK, Line, Result
<1>1. TypeOK'
  <2> USE DEF TypeOK, files, process, limiterVars, Stage, ChildState, Line, Result
  <2>1. CASE OutputTempPath(c)
    BY <2>1 DEF OutputTempPath
  <2>2. CASE MkdirTemp(c)
    BY <2>2 DEF MkdirTemp
  <2>3. CASE Spawn(c)
    BY <2>3 DEF Spawn
  <2>4. CASE Reap(c)
    BY <2>4 DEF Reap
  <2>5. CASE HandOver(c)
    BY <2>5 DEF HandOver
  <2>6. CASE Drained(c)
    BY <2>6 DEF Drained
  <2>7. CASE WaitDelay(c)
    BY <2>7 DEF WaitDelay
  <2>8. CASE Outcome(c)
    BY <1>0, <2>8 DEF Outcome
  <2>9. CASE RemoveProcTmp(c)
    BY <2>9 DEF RemoveProcTmp
  <2>10. CASE Finish(c)
    BY <2>10 DEF Finish
  <2> QED BY <2>1, <2>2, <2>3, <2>4, <2>5, <2>6, <2>7, <2>8, <2>9, <2>10 DEF Convert
<1>2. \A d \in Calls \ {c} : Frozen(d)
  BY DEF Convert, TypeOK, LimiterFacts, Frozen, files, process, limiterVars,
     OutputTempPath, MkdirTemp, Spawn, Reap, HandOver, Drained, WaitDelay, Outcome,
     RemoveProcTmp, Finish, L!Finish, L!Goto
<1>3. CallInv(c)'
  <2> USE DEF TypeOK, files, process, limiterVars, CallInv, StageInv, FileInv,
              ChildInv, FateInv, Before, After
  <2>1. CASE OutputTempPath(c)
    BY <2>1 DEF OutputTempPath
  <2>2. CASE MkdirTemp(c)
    BY <2>2 DEF MkdirTemp
  <2>3. CASE Spawn(c)
    BY <2>3 DEF Spawn
  <2>4. CASE Reap(c)
    BY <2>4 DEF Reap
  <2>5. CASE HandOver(c)
    BY <2>5 DEF HandOver
  <2>6. CASE Drained(c)
    BY <2>6 DEF Drained
  <2>7. CASE WaitDelay(c)
    BY <2>7 DEF WaitDelay
  <2>8. CASE Outcome(c)
    <3>1. CASE Fails(c)
      <4>1. /\ Failure(c) \in {"worker-error", "internal", "canceled", "expired"}
            /\ Failure(c) = "canceled" => ctx[c] = "canceled"
            /\ Failure(c) = "expired" => ctx[c] = "expired" \/ line[c] = "timeout"
        BY DEF Failure, L!Done, LimiterFacts, L!CtxState, Line
      <4>2. result'[c] = Failure(c) /\ ~outFile'[c] /\ stage'[c] = "cleanup"
        BY <2>8, <3>1 DEF Outcome
      <4> QED BY <4>1, <4>2, <2>8 DEF Outcome
    <3>2. CASE ~Fails(c)
      <4>1. line[c] = "ok" /\ ~runErr[c] /\ stage[c] = "outcome" /\ ~killed[c] /\ outFile[c]
        BY <2>8, <3>2 DEF Outcome, Fails, Failure
      <4>2. result'[c] = "ok" /\ outFile'[c] /\ stage'[c] = "cleanup"
        BY <2>8, <3>2, <4>1 DEF Outcome
      <4> QED BY <4>1, <4>2, <2>8 DEF Outcome
    <3> QED BY <3>1, <3>2
  <2>9. CASE RemoveProcTmp(c)
    BY <2>9 DEF RemoveProcTmp
  <2>10. CASE Finish(c)
    BY <2>10 DEF Finish, L!Finish, L!At, L!Goto, L!Unlimited, LimiterFacts, L!PC
  <2> QED BY <2>1, <2>2, <2>3, <2>4, <2>5, <2>6, <2>7, <2>8, <2>9, <2>10 DEF Convert
<1> QED BY <1>1, <1>2, <1>3, FrozenInv

\* The child and its descendants, the kill and the handler.
LEMMA OutsideStep ==
  ASSUME LimiterFacts, IInv, NEW c \in Calls, ChildStep(c) \/ Kill(c) \/ Serve(c)
  PROVE  IInv'
<1> USE DEF IInv, To, Set
<1>1. TypeOK'
  <2> USE DEF TypeOK, files, process, limiterVars, Stage, ChildState, Line
  <2>1. CASE ChildForks(c)
    BY <2>1 DEF ChildForks
  <2>2. CASE ChildWrites(c)
    BY <2>2 DEF ChildWrites
  <2>3. CASE ChildPrints(c)
    BY <2>3 DEF ChildPrints
  <2>4. CASE ChildExits(c)
    BY <2>4 DEF ChildExits
  <2>5. CASE StrayExits(c)
    BY <2>5 DEF StrayExits
  <2>6. CASE Kill(c)
    BY <2>6 DEF Kill
  <2>7. CASE Serve(c)
    BY <2>7 DEF Serve
  <2> QED BY <2>1, <2>2, <2>3, <2>4, <2>5, <2>6, <2>7 DEF ChildStep
<1>2. \A d \in Calls \ {c} : Frozen(d)
  BY DEF TypeOK, Frozen, files, process, limiterVars, ChildStep, ChildForks,
     ChildWrites, ChildPrints, ChildExits, StrayExits, Kill, Serve
<1>3. CallInv(c)'
  <2> USE DEF TypeOK, files, process, limiterVars, CallInv, StageInv, FileInv,
              ChildInv, FateInv, Before, After
  <2>1. CASE ChildForks(c)
    BY <2>1 DEF ChildForks
  <2>2. CASE ChildWrites(c)
    BY <2>2 DEF ChildWrites
  <2>3. CASE ChildPrints(c)
    BY <2>3 DEF ChildPrints
  <2>4. CASE ChildExits(c)
    BY <2>4 DEF ChildExits
  <2>5. CASE StrayExits(c)
    BY <2>5 DEF StrayExits
  <2>6. CASE Kill(c)
    BY <2>6 DEF Kill
  <2>7. CASE Serve(c)
    BY <2>7 DEF Serve, Returned, Answer
  <2> QED BY <2>1, <2>2, <2>3, <2>4, <2>5, <2>6, <2>7 DEF ChildStep
<1> QED BY <1>1, <1>2, <1>3, FrozenInv

\* The invariant of Run is inductive relative to that of the limiter.
THEOREM Inductive == Spec => [](LimiterFacts /\ IInv)
<1>1. LimiterFacts /\ IInv /\ [Next]_vars => IInv'
  <2> SUFFICES ASSUME LimiterFacts, IInv, [Next]_vars PROVE IInv'
    OBVIOUS
  <2>1. ASSUME UNCHANGED vars PROVE IInv'
    BY <2>1, FrozenInv DEF IInv, TypeOK, Frozen, vars, limiterVars, runVars, files, process
  <2> QED BY <2>1, LimitStep, ConvertStep, OutsideStep DEF Next, Terminated
<1> QED BY InitInv, <1>1, LimiterInvariant, FromLimiter, PTL DEF Spec

\* The variables about children and files keep their types.
THEOREM Typing == Spec => []TypeOK
<1>1. IInv => TypeOK
  BY DEF IInv
<1> QED BY <1>1, Inductive, PTL

\* No call that answered with an error leaves an output file behind, whatever
\* its child wrote before it failed, crashed or was killed.
THEOREM NoFileOutlivesFailure == Spec => []NoOrphanOutput
<1>1. IInv => NoOrphanOutput
  BY DEF IInv, CallInv, StageInv, FileInv, Before, After, NoOrphanOutput, Returned, Answer
<1> QED BY <1>1, Inductive, PTL

\* A successful call owns its output file until the handler has streamed it.
THEOREM SuccessHasFile == Spec => []OkHasOutput
<1>1. LimiterFacts /\ IInv => OkHasOutput
  BY DEF IInv, CallInv, StageInv, FileInv, Before, After, OkHasOutput, Returned, Answer,
     LimiterFacts, L!Errors
<1> QED BY <1>1, Inductive, PTL

\* A call that has left Run has no scratch directory left.
THEOREM ScratchIsTransient == Spec => []ScratchOnlyWhileHeld
<1>1. IInv => ScratchOnlyWhileHeld
  BY DEF IInv, CallInv, FileInv, ScratchOnlyWhileHeld
<1> QED BY <1>1, Inductive, PTL

\* At most Workers child processes run at once: a running child belongs to a
\* call that holds a worker token, and there are at most Workers of those.
THEOREM BoundedChildren == Spec => []ChildrenWithinWorkers
<1>1. ASSUME LimiterFacts, IInv PROVE ChildrenWithinWorkers
  <2>1. \A c \in Calls : child[c] = "running" => pc[c] = "held"
    BY <1>1 DEF IInv, CallInv, ChildInv
  <2>2. ASSUME Workers > 0
        PROVE  Cardinality({c \in Calls : child[c] = "running"}) <= Workers
    <3> DEFINE Running == {c \in Calls : child[c] = "running"}
    <3>1. Running \subseteq Converting /\ Converting \subseteq Calls
      BY <2>1 DEF Converting
    <3>2. IsFiniteSet(Converting) /\ IsFiniteSet(Running)
      BY <3>1, FS_Subset, SubprocessAssumption DEF SubprocessAssumption
    <3>3. Cardinality(Running) <= Cardinality(Converting)
      BY <3>1, <3>2, FS_Subset
    <3>4. Cardinality(Running) \in Nat /\ Cardinality(Converting) \in Nat
      BY <3>2, FS_CardinalityType
    <3> QED BY <1>1, <2>2, <3>3, <3>4, SubprocessAssumption
         DEF LimiterFacts, SubprocessAssumption
  <2> QED BY <2>1, <2>2 DEF ChildrenWithinWorkers
<1> QED BY <1>1, Inductive, PTL

\* A kill that succeeded left no process of the child's group.
THEOREM KillIsComplete == Spec => []KilledGroupIsGone
<1>1. IInv => KilledGroupIsGone
  BY DEF IInv, CallInv, ChildInv, KilledGroupIsGone, Alive
<1> QED BY <1>1, Inductive, PTL

\* A killed child never answers "ok", and an answer that blames the context has
\* a context, or a child, that ran out.
THEOREM FateDecidesAnswer == Spec => []AnswerMatchesFate
<1>1. IInv => AnswerMatchesFate
  BY DEF IInv, CallInv, FateInv, AnswerMatchesFate
<1> QED BY <1>1, Inductive, PTL
-----------------------------------------------------------------------------
\* The refinement.  Module ConverterContract sees a call only through its phase
\* and through the file it was handed.

\* A call whose part of the state stays the same keeps its phase.
LEMMA PhaseFrozen == ASSUME NEW c \in Calls, Frozen(c) PROVE Phase(c)' = Phase(c)
BY DEF Frozen, Phase, Answer

\* One call changes its phase: what that is for the abstract variables.
LEMMA PhaseMoves ==
  ASSUME NEW c \in Calls, NEW from, NEW to,
         \A d \in Calls \ {c} : Frozen(d), Phase(c) = from, Phase(c)' = to
  PROVE  Contract!Move(c, from, to)
<1>1. \A d \in Calls \ {c} : Phase(d)' = Phase(d)
  BY PhaseFrozen
<1> QED BY <1>1 DEF Contract!Move, phases

\* No phase changes.
LEMMA PhasesStay ==
  ASSUME \A c \in Calls : Phase(c)' = Phase(c)
  PROVE  phases' = phases
BY DEF phases

\* The initial states are initial states of the contract.
LEMMA ContractInit == Init => Contract!Init
BY DEF Init, L!Init, Contract!Init, phases, handedOver, Phase

\* The tokens of the limiter are the abstract bound on conversions.
LEMMA BeginAllowed ==
  ASSUME LimiterFacts, Workers <= 0 \/ workers < Workers
  PROVE  Workers > 0 => Contract!Cardinality(Contract!Converting) < Workers
<1>1. \A S : Contract!Cardinality(S) = Cardinality(S)
  BY DEF Contract!Cardinality, Cardinality
<1>2. Contract!Converting = Converting
  BY DEF Contract!Converting, Converting, phases, Phase
<1> QED BY <1>1, <1>2, SubprocessAssumption DEF LimiterFacts, SubprocessAssumption

\* A call that gives its worker back is answered, with a file exactly when the
\* answer is "ok".
LEMMA AnswerStep ==
  ASSUME IInv, NEW c \in Calls, \A d \in Calls \ {c} : Frozen(d),
         pc[c] \in {"held", "drop"}, pc'[c] \in {"leave", "done"},
         stage[c] = "finished", err'[c] = "none",
         err[c] = "none", UNCHANGED <<outFile, result>>
  PROVE  Contract!Answer(c)
<1>1. Phase(c) = "converting"
  BY DEF Phase
<1>2. outFile[c] <=> result[c] = "ok"
  BY DEF IInv, CallInv, FileInv, After
<1>3. CASE result[c] = "ok"
  <2>1. Phase(c)' = "ok"
    BY <1>3 DEF Phase, Answer
  <2>2. handedOver' = handedOver \cup {c}
    BY <1>2, <1>3 DEF handedOver, Frozen
  <2> QED BY <1>1, <2>1, <2>2, PhaseMoves DEF Contract!Answer, Contract!Succeed
<1>4. CASE result[c] # "ok"
  <2>1. Phase(c)' = "failed"
    BY <1>4 DEF Phase, Answer
  <2>2. handedOver' = handedOver
    BY <1>2, <1>4 DEF handedOver, Frozen
  <2> QED BY <1>1, <2>1, <2>2, PhaseMoves DEF Contract!Answer, Contract!Fail
<1> QED BY <1>3, <1>4

\* A limiter step begins a conversion, ends one, refuses a call or is hidden.
LEMMA LimitRefines ==
  ASSUME LimiterFacts, IInv, NEW c \in Calls, Limit(c)
  PROVE  [Contract!Next]_(Contract!vars)
<1> USE DEF Contract!Next, Contract!vars, Contract!Leave
<1>1. UNCHANGED <<stage, outFile, result>>
  BY LimitMoves DEF runVars, files, process
<1>2. \A d \in Calls \ {c} : Frozen(d)
  BY LimitMoves
<1>3. stage[c] = "none" => ~outFile[c]
  BY DEF IInv, CallInv, FileInv, Before
<1>4. StageInv(c)
  BY DEF IInv, CallInv
<1>5. \/ pc'[c] = pc[c] /\ Kept(c)
      \/ Moves(c, "idle", "admit") /\ Kept(c)
      \/ Moves(c, "admit", "queued") /\ Kept(c)
      \/ Moves(c, "admit", "held") /\ Kept(c) /\ Workers <= 0
      \/ Moves(c, "admit", "done") /\ Refused(c)
      \/ Moves(c, "queued", "granted") /\ Kept(c) /\ workers < Workers
      \/ Moves(c, "queued", "leave") /\ Refused(c)
      \/ Moves(c, "granted", "held") /\ Kept(c)
      \/ Moves(c, "unbusy", "drop") /\ Kept(c)
      \/ Moves(c, "drop", "leave") /\ Kept(c)
      \/ Moves(c, "leave", "done") /\ Kept(c)
  BY LimitMoves
<1>6. CASE \/ pc'[c] = pc[c] /\ Kept(c)
           \/ Moves(c, "admit", "queued") /\ Kept(c)
           \/ Moves(c, "granted", "held") /\ Kept(c)
           \/ Moves(c, "unbusy", "drop") /\ Kept(c)
           \/ Moves(c, "leave", "done") /\ Kept(c)
  <2>1. Phase(c)' = Phase(c)
    BY <1>1, <1>6 DEF Moves, Kept, Phase, Answer
  <2>2. phases' = phases
    BY <1>2, <2>1, PhaseFrozen, PhasesStay
  <2>3. handedOver' = handedOver
    BY <1>1, <1>2, <1>6 DEF Moves, handedOver, Frozen
  <2> QED BY <2>2, <2>3
<1>7. CASE Moves(c, "idle", "admit") /\ Kept(c)
  <2>1. Phase(c) = "new" /\ Phase(c)' = "waiting"
    BY <1>7 DEF Moves, Phase
  <2>2. handedOver' = handedOver
    BY <1>1, <1>2, <1>7 DEF Moves, handedOver, Frozen
  <2> QED BY <1>2, <2>1, <2>2, PhaseMoves DEF Contract!Submit
<1>8. CASE \/ Moves(c, "admit", "held") /\ Kept(c) /\ Workers <= 0
           \/ Moves(c, "queued", "granted") /\ Kept(c) /\ workers < Workers
  <2>1. Phase(c) = "waiting" /\ Phase(c)' = "converting"
    BY <1>8 DEF Moves, Phase
  <2>2. handedOver' = handedOver
    BY <1>1, <1>2, <1>8 DEF Moves, handedOver, Frozen
  <2>3. Workers > 0 => Contract!Cardinality(Contract!Converting) < Workers
    BY <1>8, BeginAllowed
  <2> QED BY <1>2, <2>1, <2>2, <2>3, PhaseMoves DEF Contract!Begin
<1>9. CASE \/ Moves(c, "admit", "done") /\ Refused(c)
           \/ Moves(c, "queued", "leave") /\ Refused(c)
  <2>1. Phase(c) = "waiting" /\ Phase(c)' = "failed"
    BY <1>9 DEF Moves, Refused, Phase, Answer
  <2>2. handedOver' = handedOver
    BY <1>1, <1>2, <1>3, <1>4, <1>9 DEF Moves, handedOver, Frozen, StageInv
  <2> QED BY <1>2, <2>1, <2>2, PhaseMoves DEF Contract!GiveUp
<1>10. CASE Moves(c, "drop", "leave") /\ Kept(c)
  BY <1>1, <1>2, <1>4, <1>10, AnswerStep DEF Moves, Kept, StageInv
<1> QED BY <1>5, <1>6, <1>7, <1>8, <1>9, <1>10

\* Run ends a conversion that got past the limiter: the call is answered.
LEMMA FinishRefines ==
  ASSUME LimiterFacts, IInv, NEW c \in Calls, Finish(c)
  PROVE  [Contract!Next]_(Contract!vars)
<1> USE DEF Contract!Next, Contract!vars
<1>1. UNCHANGED <<outFile, result, err>> /\ pc[c] = "held" /\ stage[c] = "finished"
  BY DEF Finish, files, L!Finish, L!At
<1>2. \A d \in Calls \ {c} : Frozen(d)
  BY DEF Finish, L!Finish, L!Goto, Frozen, files, LimiterFacts, IInv, TypeOK, Set
<1>3. err[c] = "none"
  BY <1>1 DEF IInv, CallInv, StageInv
<1>4. CASE pc'[c] = "unbusy"
  <2>1. Phase(c)' = Phase(c)
    BY <1>1, <1>4 DEF Phase
  <2>2. phases' = phases
    BY <1>2, <2>1, PhaseFrozen, PhasesStay
  <2>3. handedOver' = handedOver
    BY <1>1, <1>2, <1>4 DEF handedOver, Frozen
  <2> QED BY <2>2, <2>3
<1>5. CASE pc'[c] = "done"
  BY <1>1, <1>2, <1>3, <1>5, AnswerStep
<1> QED BY <1>4, <1>5 DEF Finish, L!Finish, L!Goto, LimiterFacts

\* The other steps of Run, and those of the child, cannot be seen.
LEMMA HiddenStep ==
  ASSUME IInv, NEW c \in Calls,
         \/ OutputTempPath(c) \/ MkdirTemp(c) \/ Spawn(c)
         \/ Reap(c) \/ HandOver(c) \/ Drained(c) \/ WaitDelay(c)
         \/ Outcome(c) \/ RemoveProcTmp(c) \/ ChildStep(c) \/ Kill(c)
  PROVE  UNCHANGED Contract!vars
<1>1. UNCHANGED <<pc, err>>
  BY DEF OutputTempPath, MkdirTemp, Spawn, Reap, HandOver, Drained, WaitDelay, Outcome,
     RemoveProcTmp, ChildStep, ChildForks, ChildWrites, ChildPrints, ChildExits,
     StrayExits, Kill, limiterVars
<1>2. /\ \A d \in Calls \ {c} : outFile'[d] = outFile[d] /\ result'[d] = result[d]
      /\ pc[c] # "held" => outFile'[c] = outFile[c] /\ result'[c] = result[c]
  BY DEF OutputTempPath, MkdirTemp, Spawn, Reap, HandOver, Drained, WaitDelay, Outcome,
     RemoveProcTmp, ChildStep, ChildForks, ChildWrites, ChildPrints, ChildExits,
     StrayExits, Kill, files, process, In, Set, IInv, TypeOK, CallInv, ChildInv
<1>3. \A d \in Calls : Phase(d)' = Phase(d)
  BY <1>1, <1>2 DEF Phase, Answer
<1>4. handedOver' = handedOver
  BY <1>1, <1>2 DEF handedOver
<1> QED BY <1>3, <1>4, PhasesStay DEF Contract!vars

\* The handler streams and removes the file it was handed.
LEMMA ServeRefines ==
  ASSUME IInv, NEW c \in Calls, Serve(c)
  PROVE  [Contract!Next]_(Contract!vars)
<1>1. UNCHANGED <<pc, err, result>> /\ outFile' = [outFile EXCEPT ![c] = FALSE]
  BY DEF Serve, limiterVars, Set
<1>2. \A d \in Calls : Phase(d)' = Phase(d)
  BY <1>1 DEF Phase, Answer
<1>3. c \in handedOver
  BY DEF Serve, Returned, Answer, handedOver, IInv, CallInv, StageInv, FileInv, After
<1>4. handedOver' = handedOver \ {c}
  BY <1>1 DEF handedOver, IInv, TypeOK
<1> QED BY <1>2, <1>3, <1>4, PhasesStay DEF Contract!Next, Contract!vars, Contract!Deliver

\* Run implements the contract its callers rely on: at most Workers calls
\* convert at once, each call is answered once, and a call hands over exactly
\* one file with an "ok" and none with an error.
THEOREM ImplementsContract == Spec => KeepsContract
<1>1. LimiterFacts /\ IInv /\ [Next]_vars => [Contract!Next]_(Contract!vars)
  <2> SUFFICES ASSUME LimiterFacts, IInv, [Next]_vars PROVE [Contract!Next]_(Contract!vars)
    OBVIOUS
  <2>1. CASE UNCHANGED vars
    BY <2>1 DEF vars, limiterVars, runVars, files, Contract!vars, phases, handedOver,
       Phase, Answer
  <2>2. ASSUME NEW c \in Calls, Limit(c) PROVE [Contract!Next]_(Contract!vars)
    BY <2>2, LimitRefines
  <2>3. ASSUME NEW c \in Calls, Finish(c) PROVE [Contract!Next]_(Contract!vars)
    BY <2>3, FinishRefines
  <2>4. ASSUME NEW c \in Calls,
               \/ OutputTempPath(c) \/ MkdirTemp(c) \/ Spawn(c)
               \/ Reap(c) \/ HandOver(c) \/ Drained(c) \/ WaitDelay(c)
               \/ Outcome(c) \/ RemoveProcTmp(c) \/ ChildStep(c) \/ Kill(c)
        PROVE  UNCHANGED Contract!vars
    BY <2>4, HiddenStep
  <2>5. ASSUME NEW c \in Calls, Serve(c) PROVE [Contract!Next]_(Contract!vars)
    BY <2>5, ServeRefines
  <2> QED BY <2>1, <2>2, <2>3, <2>4, <2>5 DEF Next, Convert, Terminated
<1> QED BY ContractInit, <1>1, Inductive, PTL DEF Spec, KeepsContract, Contract!Spec
=============================================================================
