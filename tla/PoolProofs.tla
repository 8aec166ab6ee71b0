------------------------------ MODULE PoolProofs ------------------------------
(***************************************************************************)
(* Theorems about module Pool, for every number of callers, workers and     *)
(* closers and every queue depth.  The argument is mutual exclusion: closed,*)
(* close(queue) and the send are all done under closeMu, and Close keeps it *)
(* until the office is closed.                                              *)
(* A result has its file because a job has one owner at a time: the queue,  *)
(* one worker, or the channel its outcome is in.                            *)
(* What a file says about the place of its job gives the rest: the only     *)
(* file nobody owns is in the channel of a call that gave up, and every     *)
(* step is one of ConverterContract or a stutter.                           *)
(***************************************************************************)
EXTENDS Pool, TLAPS

\* closeMu is held exactly by the call that is inside its critical section.
LockInv ==
  /\ \A c \in Callers : pc[c] \in {"check", "send"} <=> closeMu = c
  /\ \A k \in Closers : kpc[k] \in {"check", "drain", "office"} <=> closeMu = k

\* The queue is closed with the pool, and only before it is there a send.
QueueInv ==
  /\ qClosed = closed
  /\ \A c \in Callers : pc[c] = "send" => ~closed
  /\ \A w \in Threads : wpc[w] = "exited" => closed /\ queue = <<>>

\* A closed pool has closed its office, or the Close that will is under way.
OfficeInv ==
  /\ office \in {0, 1}
  /\ office = 1 <=> closeErr = "office"
  /\ office = 1 => closed /\ \A w \in Threads : wpc[w] = "exited"
  /\ \A k \in Closers :
       /\ kpc[k] \in {"drain", "office"} => closed /\ office = 0
       /\ kpc[k] = "office" => \A w \in Threads : wpc[w] = "exited"
       /\ kpc[k] = "done" => ret[k] = "office"
  /\ closed /\ office = 0 =>
       \E k \in Closers : closeMu = k /\ kpc[k] \in {"drain", "office"}

\* A worker that is not idle works on the job of some call.
WorkInv == \A w \in Threads : wpc[w] \in {"execute", "inside", "post"} => env[w] \in Callers

IInv == TypeOK /\ WorkInv /\ LockInv /\ QueueInv /\ OfficeInv

\* The initial states satisfy the invariant.
LEMMA InitInv == Init => IInv
<1> SUFFICES ASSUME Init PROVE IInv
  OBVIOUS
<1> USE PoolAssumption DEF PoolAssumption, Init
<1>1. queue \in Seq(Callers)
  OBVIOUS
<1>2. TypeOK
  BY <1>1 DEF TypeOK, Outcomes, Answers
<1>3. WorkInv /\ LockInv
  BY DEF WorkInv, LockInv
<1>4. QueueInv
  BY DEF QueueInv
<1>5. OfficeInv
  BY DEF OfficeInv
<1> QED BY <1>2, <1>3, <1>4, <1>5 DEF IInv

\* The steps of Run: between Lock and Check or Send the call holds closeMu.
LEMMA RunKeeps ==
  ASSUME IInv, NEW c \in Callers,
         Call(c) \/ RunStep(c) \/ Expire(c) \/ Consume(c)
  PROVE  IInv'
<1> USE PoolAssumption DEF PoolAssumption, IInv, Goto, Set, Return, workVars, closeVars
<1>1. CASE Call(c)
  BY <1>1 DEF Call, TypeOK, WorkInv, LockInv, QueueInv, OfficeInv
<1>2. CASE Lock(c)
  BY <1>2 DEF Lock, TypeOK, WorkInv, LockInv, QueueInv, OfficeInv
<1>3. CASE Check(c)
  BY <1>3 DEF Check, TypeOK, WorkInv, LockInv, QueueInv, OfficeInv, Answers
<1>4. CASE Send(c)
  <2>0. Append(queue, c) \in Seq(Callers)
    BY DEF TypeOK
  <2>1. queue' \in Seq(Callers) /\ answer' \in [Callers -> Answers]
    BY <1>4, <2>0 DEF Send, TypeOK, Answers
  <2>2. pc' \in [Callers -> {"idle", "lock", "check", "send", "wait", "done"}]
    BY <1>4 DEF Send, TypeOK
  <2>3. TypeOK'
    BY <1>4, <2>1, <2>2 DEF Send, TypeOK
  <2>4. WorkInv'
    BY <1>4 DEF Send, WorkInv
  <2>5. LockInv'
    BY <1>4 DEF Send, TypeOK, LockInv
  <2>6. QueueInv'
    BY <1>4 DEF Send, TypeOK, QueueInv
  <2>7. OfficeInv'
    BY <1>4 DEF Send, TypeOK, LockInv, OfficeInv
  <2> QED BY <2>3, <2>4, <2>5, <2>6, <2>7
<1>5. CASE TakeOutcome(c)
  BY <1>5 DEF TakeOutcome, TypeOK, WorkInv, LockInv, QueueInv, OfficeInv, Answers, Outcomes
<1>6. CASE GiveUp(c)
  BY <1>6 DEF GiveUp, TypeOK, WorkInv, LockInv, QueueInv, OfficeInv, Answers
<1>7. CASE Expire(c)
  BY <1>7 DEF Expire, TypeOK, WorkInv, LockInv, QueueInv, OfficeInv
<1>8. CASE Consume(c)
  BY <1>8 DEF Consume, callVars, TypeOK, WorkInv, LockInv, QueueInv, OfficeInv
<1> QED BY <1>1, <1>2, <1>3, <1>4, <1>5, <1>6, <1>7, <1>8 DEF RunStep

\* The worker goroutines: one leaves its loop only from a closed, empty queue.
LEMMA WorkerKeeps ==
  ASSUME IInv, NEW w \in Threads, WorkerStep(w) \/ Convert(w)
  PROVE  IInv'
<1> USE DEF IInv, Set, NextJob, callVars, closeVars
<1>1. CASE Receive(w)
  <2>1. Head(queue) \in Callers /\ Tail(queue) \in Seq(Callers)
    BY <1>1 DEF Receive, TypeOK
  <2> QED BY <1>1, <2>1 DEF Receive, TypeOK, WorkInv, LockInv, QueueInv, OfficeInv
<1>2. CASE Exit(w)
  <2>1. TypeOK' /\ WorkInv' /\ LockInv'
    BY <1>2 DEF Exit, TypeOK, WorkInv, LockInv
  <2>2. QueueInv'
    BY <1>2 DEF Exit, TypeOK, QueueInv
  <2>3. OfficeInv'
    BY <1>2 DEF Exit, TypeOK, OfficeInv
  <2> QED BY <2>1, <2>2, <2>3
<1>3. CASE Execute(w)
  BY <1>3 DEF Execute, TypeOK, WorkInv, LockInv, QueueInv, OfficeInv, Outcomes
<1>4. CASE Convert(w)
  BY <1>4 DEF Convert, TypeOK, WorkInv, LockInv, QueueInv, OfficeInv, Outcomes
<1>5. CASE Post(w)
  <2>1. env[w] \in Callers
    BY <1>5 DEF Post, WorkInv
  <2>2. TypeOK'
    BY <1>5, <2>1 DEF Post, TypeOK, Outcomes
  <2>3. WorkInv' /\ LockInv'
    BY <1>5 DEF Post, TypeOK, WorkInv, LockInv
  <2>4. QueueInv' /\ OfficeInv'
    BY <1>5 DEF Post, TypeOK, QueueInv, OfficeInv
  <2> QED BY <2>2, <2>3, <2>4
<1> QED BY <1>1, <1>2, <1>3, <1>4, <1>5 DEF WorkerStep

\* The steps of Close.
LEMMA CloseKeeps ==
  ASSUME IInv, NEW k \in Closers, CloseLock(k) \/ CloseStep(k)
  PROVE  IInv'
<1> USE PoolAssumption DEF PoolAssumption, IInv, KGoto, Set, callVars, workVars
<1>1. CASE CloseLock(k)
  BY <1>1 DEF CloseLock, TypeOK, WorkInv, LockInv, QueueInv, OfficeInv
<1>2. CASE CloseCheck(k)
  <2>1. TypeOK'
    <3>1. CASE closed
      BY <1>2, <3>1 DEF CloseCheck, TypeOK
    <3>2. CASE ~closed
      BY <1>2, <3>2 DEF CloseCheck, TypeOK
    <3> QED BY <3>1, <3>2
  <2>2. WorkInv' /\ LockInv' /\ QueueInv'
    <3>1. WorkInv'
      BY <1>2 DEF CloseCheck, WorkInv
    <3>2. LockInv'
      BY <1>2 DEF CloseCheck, TypeOK, LockInv
    <3>3. closeMu = k /\ k \notin Callers
      BY <1>2 DEF CloseCheck, LockInv
    <3>4. \A c \in Callers : pc[c] # "send"
      BY <3>3 DEF LockInv
    <3>5. QueueInv'
      <4>1. qClosed' = closed' /\ (closed => closed')
        <5>1. CASE closed
          BY <1>2, <5>1 DEF CloseCheck, QueueInv
        <5>2. CASE ~closed
          BY <1>2, <5>2 DEF CloseCheck, QueueInv
        <5> QED BY <5>1, <5>2
      <4>2. UNCHANGED <<pc, wpc, queue>>
        BY <1>2 DEF CloseCheck
      <4> QED BY <3>4, <4>1, <4>2 DEF QueueInv
    <3> QED BY <3>1, <3>2, <3>5
  <2>3. CASE closed
    <3>1. closeErr = "office"
      BY <1>2, <2>3 DEF CloseCheck, LockInv, OfficeInv
    <3> QED BY <1>2, <2>1, <2>2, <2>3, <3>1 DEF CloseCheck, TypeOK, LockInv, OfficeInv
  <2>4. CASE ~closed
    BY <1>2, <2>1, <2>2, <2>4 DEF CloseCheck, TypeOK, LockInv, OfficeInv
  <2> QED BY <2>3, <2>4
<1>3. CASE WorkersWait(k)
  BY <1>3 DEF WorkersWait, TypeOK, WorkInv, LockInv, QueueInv, OfficeInv
<1>4. CASE CloseOffice(k)
  BY <1>4 DEF CloseOffice, TypeOK, WorkInv, LockInv, QueueInv, OfficeInv
<1> QED BY <1>1, <1>2, <1>3, <1>4 DEF CloseStep

\* The invariant is inductive.
THEOREM Inductive == Spec => []IInv
<1>1. IInv /\ [Next]_vars => IInv'
  <2> SUFFICES ASSUME IInv, [Next]_vars PROVE IInv'
    OBVIOUS
  <2>1. CASE UNCHANGED vars
    BY <2>1 DEF vars, callVars, workVars, closeVars, IInv, TypeOK, WorkInv, LockInv, QueueInv,
       OfficeInv
  <2> QED BY <2>1, RunKeeps, WorkerKeeps, CloseKeeps DEF Next, Terminated
<1> QED BY InitInv, <1>1, PTL DEF Spec

\* Every variable of the pool keeps its type.
THEOREM Typing == Spec => []TypeOK
<1>1. IInv => TypeOK
  BY DEF IInv
<1> QED BY <1>1, Inductive, PTL

\* However Run and Close interleave, no call sends on the closed queue.
THEOREM SendIsSafe == Spec => []NoSendOnClosedQueue
<1>1. IInv => NoSendOnClosedQueue
  BY DEF IInv, LockInv, QueueInv, NoSendOnClosedQueue
<1> QED BY <1>1, Inductive, PTL

\* LibreOffice is closed once, after the last worker left and with no accepted
\* job in the queue.
THEOREM OfficeOutlivesWorkers == Spec => []OfficeClosedLast
<1>1. IInv => OfficeClosedLast
  BY PoolAssumption DEF PoolAssumption, IInv, QueueInv, OfficeInv, OfficeClosedLast
<1> QED BY <1>1, Inductive, PTL

\* A Close that finds the pool closed returns the stored error of the Close
\* that closed it, and never before that error is stored.
THEOREM CloseIsIdempotent == Spec => []CloseReturnsOfficeErr
<1>1. IInv => CloseReturnsOfficeErr
  BY DEF IInv, OfficeInv, CloseReturnsOfficeErr
<1> QED BY <1>1, Inductive, PTL

-----------------------------------------------------------------------------
\* One job, one owner: the envelope of a call is at one place of the queue or with
\* one worker, or its outcome is in the call's channel, or none of these.
NoRepeats(q) == \A i, j \in 1..Len(q) : q[i] = q[j] => i = j
InQueue(c) == \E i \in 1..Len(queue) : queue[i] = c
WithWorker(c) == \E w \in Threads : env[w] = c
Early == {"idle", "lock", "check", "send"}

OwnerInv ==
  /\ NoRepeats(queue)
  /\ \A c \in Callers : InQueue(c) => ~WithWorker(c)
  /\ \A v, w \in Threads : env[v] = env[w] /\ env[v] \in Callers => v = w
  /\ \A c \in Callers :
       /\ pc[c] \in Early \/ out[c] # "empty" \/ answer[c] = "ok" => ~InQueue(c) /\ ~WithWorker(c)
       /\ pc[c] \in Early \/ answer[c] = "ok" => out[c] = "empty"
       /\ answer[c] = "ok" => pc[c] = "done"

\* An outcome that names a file is about a file that is there.
FileInv ==
  /\ \A c \in Callers : out[c] = "file" => file[c]
  /\ \A w \in Threads : wpc[w] = "post" /\ made[w] = "file" => file[env[w]]

\* What Append and Tail do to a queue, place by place.
LEMMA QueueFacts ==
  ASSUME NEW S, NEW q \in Seq(S)
  PROVE  /\ Len(q) \in Nat
         /\ \A e \in S : /\ Len(Append(q, e)) = Len(q) + 1
                          /\ \A i \in 1..Len(q) : Append(q, e)[i] = q[i]
                          /\ Append(q, e)[Len(q) + 1] = e
         /\ q # <<>> => /\ Len(q) > 0 /\ Head(q) = q[1]
                         /\ Len(Tail(q)) = Len(q) - 1
                         /\ \A i \in 1..Len(q) - 1 : Tail(q)[i] = q[i + 1]
  OBVIOUS

\* A call that is nowhere in a queue may join it, and the head of a queue without
\* duplicates is not in its tail.
LEMMA QueueKeepsDistinct ==
  ASSUME NEW S, NEW q \in Seq(S), NoRepeats(q)
  PROVE  /\ \A e \in S : (\A i \in 1..Len(q) : q[i] # e) => NoRepeats(Append(q, e))
         /\ q # <<>> =>
              /\ NoRepeats(Tail(q))
              /\ \A i \in 1..Len(Tail(q)) : Tail(q)[i] # Head(q)
<1>0. Len(q) \in Nat
  BY QueueFacts
<1>1. ASSUME NEW e \in S, \A i \in 1..Len(q) : q[i] # e,
             NEW i \in 1..Len(Append(q, e)), NEW j \in 1..Len(Append(q, e)),
             Append(q, e)[i] = Append(q, e)[j]
      PROVE  i = j
  <2> DEFINE p == Append(q, e)  n == Len(q)
  <2>1. Len(p) = n + 1 /\ p[n + 1] = e /\ \A k \in 1..n : p[k] = q[k]
    BY QueueFacts
  <2> HIDE DEF p, n
  <2>2. n \in Nat /\ i \in 1..n + 1 /\ j \in 1..n + 1 /\ p[i] = p[j]
    BY <1>0, <1>1, <2>1 DEF p, n
  <2>3. (\A k \in 1..n : q[k] # e) /\ \A k, l \in 1..n : q[k] = q[l] => k = l
    BY <1>1 DEF n, NoRepeats
  <2> QED BY <2>1, <2>2, <2>3
<1>2. ASSUME q # <<>>
      PROVE  /\ NoRepeats(Tail(q))
             /\ \A i \in 1..Len(Tail(q)) : Tail(q)[i] # Head(q)
  <2> DEFINE t == Tail(q)  n == Len(q)  h == Head(q)
  <2>1. n > 0 /\ h = q[1] /\ Len(t) = n - 1 /\ \A k \in 1..n - 1 : t[k] = q[k + 1]
    BY <1>2, QueueFacts
  <2> HIDE DEF t, n, h
  <2>2. n \in Nat /\ \A k, l \in 1..n : q[k] = q[l] => k = l
    BY <1>0 DEF n, NoRepeats
  <2>3. \A k \in 1..n - 1 : k + 1 \in 1..n /\ k + 1 # 1
    BY <2>2
  <2>4. /\ \A i, j \in 1..n - 1 : t[i] = t[j] => i = j
        /\ \A i \in 1..n - 1 : t[i] # h
    BY <2>1, <2>2, <2>3
  <2> QED BY <2>1, <2>4 DEF t, h, NoRepeats
<1> QED BY <1>1, <1>2 DEF NoRepeats

LEMMA OwnerRun ==
  ASSUME IInv, OwnerInv, FileInv, NEW c \in Callers, Call(c) \/ RunStep(c) \/ Expire(c) \/ Consume(c)
  PROVE  OwnerInv' /\ FileInv'
<1> USE DEF IInv, TypeOK, Goto, Set, Return, workVars, callVars, Early, OwnerInv, FileInv
<1>1. CASE Send(c)
  <2>1. UNCHANGED <<out, file, env, wpc, made>> /\ pc[c] = "send" /\ pc'[c] \in {"wait", "done"}
        /\ answer'[c] # "ok" /\ \A d \in Callers : d # c => pc'[d] = pc[d] /\ answer'[d] = answer[d]
    BY <1>1 DEF Send
  <2>2. ~InQueue(c) /\ ~WithWorker(c)
    BY <2>1
  <2>3. UNCHANGED queue \/ queue' = Append(queue, c)
    BY <1>1 DEF Send
  <2>4. \A d \in Callers : d # c => (InQueue(d)' => InQueue(d))
    <3>1. CASE UNCHANGED queue
      BY <3>1 DEF InQueue
    <3>2. CASE queue' = Append(queue, c)
      <4>1. /\ Len(queue) \in Nat /\ Len(queue') = Len(queue) + 1
            /\ queue'[Len(queue) + 1] = c /\ \A i \in 1..Len(queue) : queue'[i] = queue[i]
        BY <3>2, QueueFacts
      <4>2. ASSUME NEW d \in Callers, d # c, NEW i \in 1..Len(queue'), queue'[i] = d
            PROVE  i \in 1..Len(queue) /\ queue[i] = d
        BY <4>1, <4>2
      <4> QED BY <4>2 DEF InQueue
    <3> QED BY <2>3, <3>1, <3>2
  <2>5. NoRepeats(queue')
    <3>1. \A i \in 1..Len(queue) : queue[i] # c
      BY <2>2 DEF InQueue
    <3>2. queue \in Seq(Callers) /\ NoRepeats(queue)
      OBVIOUS
    <3>3. NoRepeats(Append(queue, c))
      BY <3>1, <3>2, QueueKeepsDistinct
    <3> QED BY <2>3, <3>2, <3>3
  <2>6. \A d \in Callers : WithWorker(d)' <=> WithWorker(d)
    BY <2>1 DEF WithWorker
  <2>7. out[c] = "empty"
    BY <2>1
  <2>8. FileInv'
    BY <2>1
  <2>9. pc'[c] \notin Early
    BY <2>1
  <2>10. \A d \in Callers :
           /\ InQueue(d)' => ~WithWorker(d)'
           /\ pc'[d] \in Early \/ out'[d] # "empty" \/ answer'[d] = "ok" => ~InQueue(d)' /\ ~WithWorker(d)'
           /\ pc'[d] \in Early \/ answer'[d] = "ok" => out'[d] = "empty"
           /\ answer'[d] = "ok" => pc'[d] = "done"
    <3> TAKE d \in Callers
    <3>1. CASE d = c
      BY <2>1, <2>2, <2>6, <2>7, <2>9, <3>1
    <3>2. CASE d # c
      BY <2>1, <2>4, <2>6, <3>2
    <3> QED BY <3>1, <3>2
  <2> QED BY <2>1, <2>5, <2>8, <2>10
<1>2. CASE Call(c) \/ Lock(c) \/ Check(c) \/ TakeOutcome(c) \/ GiveUp(c) \/ Expire(c) \/ Consume(c)
  <2>1. UNCHANGED <<queue, env, wpc, made>>
    BY <1>2 DEF Call, Lock, Check, TakeOutcome, GiveUp, Expire, Consume
  <2>2. \A d \in Callers : (InQueue(d)' <=> InQueue(d)) /\ (WithWorker(d)' <=> WithWorker(d))
    BY <2>1 DEF InQueue, WithWorker
  <2>3. CASE Consume(c)
    <3>1. UNCHANGED <<pc, out, answer>> /\ answer[c] = "ok" /\ out[c] = "empty"
          /\ file' = [file EXCEPT ![c] = FALSE]
      BY <2>3 DEF Consume
    <3>2. \A w \in Threads : env[w] # c
      BY <3>1 DEF WithWorker
    <3>3. FileInv'
      BY <2>1, <3>1, <3>2
    <3> QED BY <2>1, <2>2, <3>1, <3>3
  <2>4. CASE TakeOutcome(c)
    BY <2>1, <2>2, <2>4 DEF TakeOutcome, Outcomes
  <2>5. CASE Call(c) \/ Lock(c) \/ Check(c) \/ GiveUp(c) \/ Expire(c)
    BY <2>1, <2>2, <2>5 DEF Call, Lock, Check, GiveUp, Expire
  <2> QED BY <1>2, <2>3, <2>4, <2>5
<1> QED BY <1>1, <1>2 DEF RunStep

LEMMA OwnerWorker ==
  ASSUME IInv, OwnerInv, FileInv, NEW w \in Threads, WorkerStep(w) \/ Convert(w)
  PROVE  OwnerInv' /\ FileInv'
<1> USE DEF IInv, TypeOK, Set, NextJob, callVars, Early, OwnerInv, FileInv
<1>1. CASE Receive(w)
  <2>1. UNCHANGED <<pc, answer, out, file, made>> /\ queue # <<>> /\ queue' = Tail(queue)
        /\ env' = [env EXCEPT ![w] = Head(queue)] /\ wpc' = [wpc EXCEPT ![w] = "execute"]
    BY <1>1 DEF Receive
  <2>2. PICK c \in Callers : c = queue[1] /\ c = Head(queue) /\ InQueue(c)
    BY <2>1 DEF InQueue
  <2>3. Len(queue') = Len(queue) - 1 /\ \A i \in 1..Len(queue') : queue'[i] = queue[i + 1]
    BY <2>1, QueueFacts
  <2>4. NoRepeats(queue')
    BY <2>1, QueueKeepsDistinct
  <2>5. ~InQueue(c)'
    BY <2>1, <2>2, QueueKeepsDistinct DEF InQueue
  <2>6. \A d \in Callers : InQueue(d)' => InQueue(d)
    BY <2>3, QueueFacts DEF InQueue
  <2>7. \A d \in Callers : d # c => (WithWorker(d)' => WithWorker(d))
    BY <2>1, <2>2 DEF WithWorker
  <2>8. \A v \in Threads : env[v] # c
    BY <2>2 DEF WithWorker
  <2>9. \A u, v \in Threads : env'[u] = env'[v] /\ env'[u] \in Callers => u = v
    BY <2>1, <2>2, <2>8
  <2>10. FileInv'
    BY <2>1
  <2>11. pc[c] \notin Early /\ out[c] = "empty" /\ answer[c] # "ok"
    BY <2>2
  <2> QED BY <2>1, <2>4, <2>5, <2>6, <2>7, <2>9, <2>10, <2>11
<1>2. CASE Exit(w) \/ Execute(w)
  <2>1. UNCHANGED <<pc, answer, out, file, env, queue>>
    BY <1>2 DEF Exit, Execute
  <2>2. \A d \in Callers : (InQueue(d)' <=> InQueue(d)) /\ (WithWorker(d)' <=> WithWorker(d))
    BY <2>1 DEF InQueue, WithWorker
  <2>3. FileInv'
    BY <1>2, <2>1 DEF Exit, Execute
  <2> QED BY <2>1, <2>2, <2>3
<1>3. CASE Convert(w)
  <2>1. UNCHANGED <<pc, answer, out, env, queue>> /\ env[w] \in Callers
        /\ wpc' = [wpc EXCEPT ![w] = "post"]
    BY <1>3 DEF Convert, WorkInv
  <2>2. PICK o \in Outcomes : /\ made' = [made EXCEPT ![w] = o]
                              /\ file' = [file EXCEPT ![env[w]] = (o = "file")]
    BY <1>3 DEF Convert
  <2>3. \A d \in Callers : (InQueue(d)' <=> InQueue(d)) /\ (WithWorker(d)' <=> WithWorker(d))
    BY <2>1 DEF InQueue, WithWorker
  <2>4. out[env[w]] = "empty"
    BY <2>1 DEF WithWorker
  <2>5. \A v \in Threads : v # w => env[v] # env[w]
    BY <2>1
  <2>6. \A v \in Threads : wpc'[v] = "post" /\ made'[v] = "file" => file'[env'[v]]
    <3> SUFFICES ASSUME NEW v \in Threads, wpc'[v] = "post", made'[v] = "file"
                 PROVE  file'[env'[v]]
      OBVIOUS
    <3>1. CASE v = w
      <4>1. o = "file"
        BY <2>2, <3>1
      <4>2. file'[env[w]] = (o = "file")
        BY <2>1, <2>2, Zenon
      <4>3. env'[v] = env[w]
        BY <2>1, <3>1
      <4> QED BY <4>1, <4>2, <4>3, Zenon
    <3>2. CASE v # w
      <4>1. wpc[v] = "post" /\ made[v] = "file"
        BY <2>1, <2>2, <3>2
      <4>2. env[v] \in Callers /\ file[env[v]]
        BY <4>1 DEF WorkInv
      <4> QED BY <2>1, <2>2, <2>5, <3>2, <4>2
    <3> QED BY <3>1, <3>2
  <2> QED BY <2>1, <2>2, <2>3, <2>4, <2>6
<1>4. CASE Post(w)
  <2>1. UNCHANGED <<pc, answer, queue>> /\ env[w] \in Callers /\ wpc[w] = "post"
        /\ wpc' = [wpc EXCEPT ![w] = "range"] /\ env' = [env EXCEPT ![w] = NoOne]
        /\ made' = [made EXCEPT ![w] = "empty"]
    BY <1>4 DEF Post, WorkInv
  <2> DEFINE c == env[w]
  <2>2. PICK d \in Callers : d = env[w]
    BY <2>1
  <2>3. ~InQueue(d) /\ out[d] = "empty" /\ pc[d] \notin Early /\ answer[d] # "ok"
    BY <2>2 DEF WithWorker
  <2>4. \A v \in Threads : v # w => env[v] # d
    BY <2>2
  <2>5. ~WithWorker(d)' /\ \A x \in Callers : WithWorker(x)' => WithWorker(x)
    BY <2>1, <2>4, PoolAssumption DEF WithWorker, PoolAssumption
  <2>6. \A x \in Callers : InQueue(x)' <=> InQueue(x)
    BY <2>1 DEF InQueue
  <2>7. \A u, v \in Threads : env'[u] = env'[v] /\ env'[u] \in Callers => u = v
    BY <2>1, PoolAssumption DEF PoolAssumption
  <2>8. CASE out' = [out EXCEPT ![d] = made[w]] /\ UNCHANGED file
    <3>1. \A v \in Threads : wpc'[v] = "post" => v # w /\ wpc[v] = "post" /\ env'[v] = env[v]
                                               /\ made'[v] = made[v]
      BY <2>1
    <3>2. made[w] = "file" => file[d]
      BY <2>1, <2>2
    <3>3. FileInv'
      BY <2>8, <3>1, <3>2
    <3> QED BY <2>1, <2>3, <2>5, <2>6, <2>7, <2>8, <3>3
  <2>9. CASE UNCHANGED out /\ file' = [file EXCEPT ![d] = FALSE]
    <3>1. \A v \in Threads : wpc'[v] = "post" => v # w /\ wpc[v] = "post" /\ env'[v] = env[v]
                                               /\ made'[v] = made[v]
      BY <2>1
    <3>2. FileInv'
      BY <2>3, <2>4, <2>9, <3>1 DEF WorkInv
    <3> QED BY <2>1, <2>3, <2>5, <2>6, <2>7, <2>9, <3>2
  <2> QED BY <1>4, <2>2, <2>8, <2>9 DEF Post
<1> QED BY <1>1, <1>2, <1>3, <1>4 DEF WorkerStep

LEMMA OwnerInductive == Spec => [](IInv /\ OwnerInv /\ FileInv)
<1>1. Init => OwnerInv /\ FileInv
  BY PoolAssumption DEF PoolAssumption, Init, OwnerInv, FileInv, NoRepeats, InQueue, WithWorker
<1>2. IInv /\ OwnerInv /\ FileInv /\ [Next]_vars => (OwnerInv /\ FileInv)'
  <2> SUFFICES ASSUME IInv, OwnerInv, FileInv, [Next]_vars PROVE (OwnerInv /\ FileInv)'
    OBVIOUS
  <2>1. ASSUME UNCHANGED <<pc, answer, file, out, wpc, env, made, queue>>
        PROVE  (OwnerInv /\ FileInv)'
    BY <2>1 DEF OwnerInv, FileInv, InQueue, WithWorker
  <2>2. ASSUME NEW k \in Closers, CloseLock(k) \/ CloseStep(k) PROVE (OwnerInv /\ FileInv)'
    BY <2>1, <2>2 DEF CloseLock, CloseStep, CloseCheck, WorkersWait, CloseOffice, callVars, workVars
  <2>3. CASE Terminated \/ UNCHANGED vars
    BY <2>1, <2>3 DEF Terminated, vars, callVars, workVars
  <2> QED BY <2>2, <2>3, OwnerRun, OwnerWorker DEF Next
<1> QED BY <1>1, <1>2, Inductive, PTL DEF Spec

\* For any number of calls and workers: when Run answers with a file, the file is
\* there; no worker removes what it has sent, and no other call's outcome is taken.
THEOREM ResultHasFile == Spec => AnswerHasFile
<1>1. ASSUME IInv, OwnerInv, FileInv, [Next]_vars
      PROVE  [\A c \in Callers : answer[c] # "ok" /\ answer'[c] = "ok" => file'[c]]_vars
  <2> SUFFICES ASSUME NEW c \in Callers, answer[c] # "ok", answer'[c] = "ok" PROVE file'[c]
    OBVIOUS
  <2> USE <1>1
  <2>1. CASE \E d \in Callers : TakeOutcome(d)
    <3>1. PICK d \in Callers : TakeOutcome(d)
      BY <2>1
    <3>2. d = c /\ out[c] = "file" /\ UNCHANGED file
      BY <3>1 DEF TakeOutcome, Return, Set, IInv, TypeOK, Outcomes
    <3>3. file[c]
      BY <3>2 DEF FileInv
    <3> QED BY <3>2, <3>3
  <2>2. ASSUME NEW d \in Callers, Check(d) \/ Send(d) \/ GiveUp(d)
        PROVE  FALSE
    <3> USE DEF Return, Set, IInv, TypeOK
    <3>1. CASE Check(d)
      BY <3>1 DEF Check
    <3>2. CASE Send(d)
      BY <3>2 DEF Send
    <3>3. CASE GiveUp(d)
      BY <3>3 DEF GiveUp
    <3> QED BY <2>2, <3>1, <3>2, <3>3
  <2>3. CASE \E d \in Callers : Call(d) \/ Lock(d) \/ Expire(d) \/ Consume(d)
    BY <2>3 DEF Call, Lock, Expire, Consume, callVars
  <2>4. CASE \E w \in Threads : WorkerStep(w) \/ Convert(w)
    BY <2>4 DEF WorkerStep, Receive, Exit, Execute, Post, Convert, callVars
  <2>5. CASE \E k \in Closers : CloseLock(k) \/ CloseStep(k)
    BY <2>5 DEF CloseLock, CloseStep, CloseCheck, WorkersWait, CloseOffice, callVars
  <2>6. CASE Terminated \/ UNCHANGED vars
    BY <2>6 DEF Terminated, vars, callVars
  <2> QED BY <2>1, <2>2, <2>3, <2>4, <2>5, <2>6 DEF Next, RunStep
<1> QED BY <1>1, OwnerInductive, PTL DEF Spec, AnswerHasFile

-----------------------------------------------------------------------------
\* Where a file may be: with the worker that made it, in the channel, or with the
\* caller it was handed to.  Only a call that was given up leaves anything behind.
Carries(w, c) == env[w] = c /\ wpc[w] = "post" /\ made[w] = "file"

CallLeft(c) ==
  /\ file[c] => answer[c] = "ok" \/ out[c] = "file" \/ \E w \in Threads : Carries(w, c)
  /\ pc[c] = "done" <=> answer[c] # "none"
  /\ answer[c] \in {"error", "queue-full", "pool-closed"} =>
       out[c] = "empty" /\ ~InQueue(c) /\ ~WithWorker(c)

WorkerLeft(w) ==
  /\ wpc[w] \in {"range", "exited"} => env[w] = NoOne
  /\ wpc[w] = "post" => made[w] \in Outcomes

LeftInv == (\A c \in Callers : CallLeft(c)) /\ \A w \in Threads : WorkerLeft(w)

JobInv == IInv /\ OwnerInv /\ FileInv /\ LeftInv

\* What no step of another call or of another call's worker disturbs.
LEMMA LeftStays ==
  ASSUME NEW c \in Callers, CallLeft(c), file'[c] => file[c],
         out'[c] = out[c], answer'[c] = answer[c], pc'[c] = pc[c],
         \A w \in Threads : Carries(w, c) => Carries(w, c)',
         InQueue(c)' => InQueue(c), WithWorker(c)' => WithWorker(c)
  PROVE  CallLeft(c)'
BY DEF CallLeft

LEMMA LeftRun ==
  ASSUME JobInv, NEW c \in Callers, Call(c) \/ RunStep(c) \/ Expire(c) \/ Consume(c)
  PROVE  LeftInv'
<1> USE DEF JobInv, IInv, TypeOK, Goto, Set, Return, workVars, callVars
<1>1. UNCHANGED <<env, wpc, made>>
  BY DEF Call, RunStep, Lock, Check, Send, TakeOutcome, GiveUp, Expire, Consume
<1>2. \A d \in Callers : /\ \A w \in Threads : Carries(w, d)' <=> Carries(w, d)
                         /\ WithWorker(d)' <=> WithWorker(d)
  BY <1>1 DEF Carries, WithWorker
<1>3. \A w \in Threads : WorkerLeft(w)'
  BY <1>1 DEF LeftInv, WorkerLeft
<1>4. \A d \in Callers : d # c => (InQueue(d)' => InQueue(d))
  <2>1. CASE UNCHANGED queue
    BY <2>1 DEF InQueue
  <2>2. CASE queue' = Append(queue, c)
    <3>1. /\ Len(queue) \in Nat /\ Len(queue') = Len(queue) + 1
          /\ queue'[Len(queue) + 1] = c /\ \A i \in 1..Len(queue) : queue'[i] = queue[i]
      BY <2>2, QueueFacts
    <3>2. ASSUME NEW d \in Callers, d # c, NEW i \in 1..Len(queue'), queue'[i] = d
          PROVE  i \in 1..Len(queue) /\ queue[i] = d
      BY <3>1, <3>2
    <3> QED BY <3>2 DEF InQueue
  <2> QED BY <2>1, <2>2 DEF Call, RunStep, Lock, Check, Send, TakeOutcome, GiveUp, Expire, Consume
<1>5. ASSUME NEW d \in Callers, d # c PROVE CallLeft(d)'
  <2>1. pc'[d] = pc[d] /\ out'[d] = out[d] /\ answer'[d] = answer[d] /\ file'[d] = file[d]
    BY <1>5 DEF Call, RunStep, Lock, Check, Send, TakeOutcome, GiveUp, Expire, Consume
  <2> QED BY <1>2, <1>4, <1>5, <2>1, LeftStays DEF LeftInv
<1>6. CallLeft(c)
  BY DEF LeftInv
<1>7. UNCHANGED queue => (InQueue(c)' <=> InQueue(c))
  BY DEF InQueue
<1>8. CASE Call(c) \/ Lock(c) \/ Expire(c) \/ Consume(c)
  <2>1. UNCHANGED <<answer, out, queue>> /\ (file'[c] => file[c])
        /\ (pc'[c] = "done" <=> pc[c] = "done")
    BY <1>8 DEF Call, Lock, Expire, Consume
  <2>2. CallLeft(c)'
    BY <1>2, <1>6, <1>7, <2>1 DEF CallLeft
  <2> QED BY <1>3, <1>5, <2>2 DEF LeftInv
<1>9. CASE Check(c)
  <2>1. pc[c] = "check" /\ out[c] = "empty" /\ ~InQueue(c) /\ ~WithWorker(c) /\ UNCHANGED <<queue, file, out>>
    BY <1>9 DEF Check, OwnerInv, Early
  <2>2. \/ pc'[c] = "done" /\ answer'[c] = "pool-closed"
        \/ pc'[c] = "send" /\ answer'[c] = answer[c]
    <3>1. CASE closed
      BY <1>9, <3>1 DEF Check
    <3>2. CASE ~closed
      BY <1>9, <3>2 DEF Check
    <3> QED BY <3>1, <3>2
  <2>3. CallLeft(c)'
    BY <1>2, <1>6, <1>7, <2>1, <2>2 DEF CallLeft
  <2> QED BY <1>3, <1>5, <2>3 DEF LeftInv
<1>10. CASE Send(c)
  <2>1. pc[c] = "send" /\ out[c] = "empty" /\ ~InQueue(c) /\ ~WithWorker(c) /\ UNCHANGED <<file, out>>
    BY <1>10 DEF Send, OwnerInv, Early
  <2>2. \/ pc'[c] = "done" /\ answer'[c] = "queue-full" /\ UNCHANGED queue
        \/ pc'[c] = "wait" /\ answer'[c] = answer[c]
    BY <1>10 DEF Send
  <2>3. CallLeft(c)'
    BY <1>2, <1>6, <1>7, <2>1, <2>2 DEF CallLeft
  <2> QED BY <1>3, <1>5, <2>3 DEF LeftInv
<1>11. CASE TakeOutcome(c)
  <2>1. /\ pc'[c] = "done" /\ out[c] # "empty" /\ out'[c] = "empty"
        /\ answer'[c] = IF out[c] = "file" THEN "ok" ELSE "error"
        /\ UNCHANGED <<file, queue>> /\ answer[c] # "ok"
    BY <1>11 DEF TakeOutcome, OwnerInv
  <2>2. ~InQueue(c) /\ ~WithWorker(c)
    BY <2>1 DEF OwnerInv
  <2>3. file'[c] => answer'[c] = "ok"
    BY <1>6, <2>1, <2>2 DEF CallLeft, Carries, WithWorker
  <2>4. CallLeft(c)'
    BY <1>2, <1>7, <2>1, <2>2, <2>3 DEF CallLeft
  <2> QED BY <1>3, <1>5, <2>4 DEF LeftInv
<1>12. CASE GiveUp(c)
  <2>1. pc[c] = "wait" /\ pc'[c] = "done" /\ answer'[c] = "ctx" /\ UNCHANGED <<file, out, queue>>
    BY <1>12 DEF GiveUp
  <2>2. CallLeft(c)'
    BY <1>2, <1>6, <2>1 DEF CallLeft
  <2> QED BY <1>3, <1>5, <2>2 DEF LeftInv
<1> QED BY <1>8, <1>9, <1>10, <1>11, <1>12 DEF RunStep

LEMMA LeftWorker ==
  ASSUME JobInv, NEW w \in Threads, WorkerStep(w) \/ Convert(w)
  PROVE  LeftInv'
<1> USE DEF JobInv, IInv, TypeOK, Set, NextJob, callVars
<1>1. UNCHANGED <<pc, answer>>
  BY DEF WorkerStep, Receive, Exit, Execute, Post, Convert
<1>2. ASSUME NEW v \in Threads PROVE WorkerLeft(v)'
  <2>1. WorkerLeft(v) /\ WorkerLeft(w)
    BY DEF LeftInv
  <2>2. CASE v # w
    <3>1. wpc'[v] = wpc[v] /\ env'[v] = env[v] /\ made'[v] = made[v]
      BY <2>2 DEF WorkerStep, Receive, Exit, Execute, Post, Convert
    <3> QED BY <2>1, <3>1 DEF WorkerLeft
  <2>3. CASE v = w
    <3>1. wpc'[w] \in {"range", "exited"} => env'[w] = NoOne
      BY <2>1, <2>3 DEF WorkerStep, Receive, Exit, Execute, Post, Convert, WorkerLeft
    <3>2. wpc'[w] = "post" => made'[w] \in Outcomes
      BY DEF WorkerStep, Receive, Exit, Execute, Post, Convert, Outcomes
    <3> QED BY <2>3, <3>1, <3>2 DEF WorkerLeft
  <2> QED BY <2>2, <2>3
<1>3. CASE Receive(w)
  <2>1. UNCHANGED <<out, file, made>> /\ queue # <<>> /\ queue' = Tail(queue) /\ wpc[w] = "range"
        /\ env' = [env EXCEPT ![w] = Head(queue)] /\ wpc' = [wpc EXCEPT ![w] = "execute"]
    BY <1>3 DEF Receive
  <2>2. /\ Len(queue) \in Nat /\ Len(queue) > 0 /\ Head(queue) = queue[1]
        /\ Len(queue') = Len(queue) - 1
        /\ \A i \in 1..Len(queue) - 1 : queue'[i] = queue[i + 1]
    BY <2>1, QueueFacts
  <2>3. PICK c \in Callers : c = Head(queue) /\ InQueue(c)
    BY <2>2 DEF InQueue
  <2>4. \A d \in Callers : InQueue(d)' => InQueue(d)
    BY <2>2 DEF InQueue
  <2>5. \A v \in Threads, d \in Callers : Carries(v, d) => Carries(v, d)'
    BY <2>1 DEF Carries
  <2>6. ASSUME NEW d \in Callers, d # c PROVE CallLeft(d)'
    <3>1. WithWorker(d)' => WithWorker(d)
      BY <2>1, <2>3, <2>6 DEF WithWorker
    <3> QED BY <1>1, <2>1, <2>4, <2>5, <3>1, LeftStays DEF LeftInv
  <2>7. CallLeft(c)'
    <3>1. answer[c] \notin {"error", "queue-full", "pool-closed"} /\ CallLeft(c)
      BY <2>3 DEF LeftInv, CallLeft
    <3> QED BY <1>1, <2>1, <2>5, <3>1 DEF CallLeft
  <2> QED BY <1>2, <2>6, <2>7 DEF LeftInv
<1>4. CASE Exit(w) \/ Execute(w)
  <2>1. UNCHANGED <<out, file, env, queue>> /\ wpc[w] \in {"range", "execute"}
    BY <1>4 DEF Exit, Execute
  <2>2. \A d \in Callers : (InQueue(d)' <=> InQueue(d)) /\ (WithWorker(d)' <=> WithWorker(d))
    BY <2>1 DEF InQueue, WithWorker
  <2>3. \A v \in Threads, d \in Callers : Carries(v, d) => Carries(v, d)'
    BY <1>4, <2>1 DEF Exit, Execute, Carries
  <2>4. \A d \in Callers : CallLeft(d)'
    BY <1>1, <2>1, <2>2, <2>3, LeftStays DEF LeftInv
  <2> QED BY <1>2, <2>4 DEF LeftInv
<1>5. CASE Convert(w) \/ Post(w)
  <2>1. UNCHANGED queue /\ env[w] \in Callers
    BY <1>5 DEF Convert, Post, WorkInv
  <2>2. PICK c \in Callers : c = env[w]
    BY <2>1
  <2>3. WithWorker(c) /\ out[c] = "empty" /\ answer[c] # "ok" /\ \A v \in Threads : v # w => env[v] # c
    BY <2>2 DEF WithWorker, OwnerInv
  <2>4. \A d \in Callers : (InQueue(d)' <=> InQueue(d)) /\ (WithWorker(d)' => WithWorker(d))
    <3>1. \A v \in Threads : env'[v] \in {env[v], NoOne}
      BY <1>5 DEF Convert, Post
    <3> QED BY <2>1, <3>1, PoolAssumption DEF InQueue, WithWorker, PoolAssumption
  <2>5. ASSUME NEW d \in Callers, d # c PROVE CallLeft(d)'
    <3>1. out'[d] = out[d] /\ file'[d] = file[d]
      BY <1>5, <2>2, <2>5 DEF Convert, Post
    <3>2. \A v \in Threads : Carries(v, d) => Carries(v, d)'
      BY <1>5, <2>2, <2>5 DEF Convert, Post, Carries
    <3> QED BY <1>1, <2>4, <3>1, <3>2, LeftStays DEF LeftInv
  <2>6. answer[c] \notin {"error", "queue-full", "pool-closed"} /\ CallLeft(c)
    BY <2>3 DEF LeftInv, CallLeft
  <2>7. file'[c] => out'[c] = "file" \/ Carries(w, c)'
    <3>1. CASE Convert(w)
      <4>1. PICK o \in Outcomes : /\ made' = [made EXCEPT ![w] = o] /\ wpc' = [wpc EXCEPT ![w] = "post"]
                                  /\ file' = [file EXCEPT ![c] = (o = "file")] /\ UNCHANGED env
        BY <2>2, <3>1 DEF Convert
      <4>2. file'[c] = (o = "file")
        BY <4>1, Zenon
      <4>3. made'[w] = o /\ wpc'[w] = "post" /\ env'[w] = c
        BY <2>2, <4>1
      <4> QED BY <4>2, <4>3, Zenon DEF Carries
    <3>2. CASE Post(w)
      <4>1. CASE out' = [out EXCEPT ![c] = made[w]] /\ UNCHANGED file
        <5>1. file[c] => Carries(w, c)
          BY <2>3, <2>6 DEF CallLeft, Carries
        <5> QED BY <4>1, <5>1 DEF Carries
      <4>2. CASE file' = [file EXCEPT ![c] = FALSE]
        BY <4>2
      <4> QED BY <2>2, <3>2, <4>1, <4>2 DEF Post
    <3> QED BY <1>5, <3>1, <3>2
  <2>8. CallLeft(c)'
    BY <1>1, <2>6, <2>7 DEF CallLeft
  <2> QED BY <1>2, <2>5, <2>8 DEF LeftInv
<1> QED BY <1>3, <1>4, <1>5 DEF WorkerStep

LEMMA JobInductive == Spec => []JobInv
<1>1. Init => LeftInv
  BY PoolAssumption DEF PoolAssumption, Init, LeftInv, CallLeft, WorkerLeft, InQueue, WithWorker
<1>2. JobInv /\ [Next]_vars => LeftInv'
  <2> SUFFICES ASSUME JobInv, [Next]_vars PROVE LeftInv'
    OBVIOUS
  <2>1. ASSUME UNCHANGED <<pc, answer, file, out, wpc, env, made, queue>>
        PROVE  LeftInv'
    BY <2>1 DEF JobInv, LeftInv, CallLeft, WorkerLeft, Carries, InQueue, WithWorker
  <2>2. ASSUME NEW k \in Closers, CloseLock(k) \/ CloseStep(k) PROVE LeftInv'
    BY <2>1, <2>2 DEF CloseLock, CloseStep, CloseCheck, WorkersWait, CloseOffice, callVars, workVars
  <2>3. CASE Terminated \/ UNCHANGED vars
    BY <2>1, <2>3 DEF Terminated, vars, callVars, workVars
  <2> QED BY <2>2, <2>3, LeftRun, LeftWorker DEF Next
<1> QED BY <1>1, <1>2, OwnerInductive, PTL DEF Spec, JobInv

LEMMA PendingIs ==
  ASSUME TypeOK, NEW c \in Callers
  PROVE  Pending(c) <=> InQueue(c) \/ WithWorker(c)
BY DEF TypeOK, Pending, InQueue, WithWorker

\* However many calls and workers: the only files that Pool leaves behind are those
\* whose outcome was sent to a call that had stopped waiting.
THEOREM OnlyOrphans == Spec => []OrphanIsInChannel
<1>1. JobInv => OrphanIsInChannel
  <2> SUFFICES ASSUME JobInv, NEW c \in Callers, pc[c] = "done", answer[c] # "ok", ~Pending(c), file[c]
               PROVE  answer[c] = "ctx" /\ out[c] = "file"
    BY DEF OrphanIsInChannel
  <2>1. ~WithWorker(c)
    BY PendingIs DEF JobInv, IInv
  <2>2. out[c] = "file"
    BY <2>1 DEF JobInv, LeftInv, CallLeft, WorkerLeft, Carries, WithWorker
  <2>3. answer[c] \in Answers /\ answer[c] # "none"
    BY DEF JobInv, IInv, TypeOK, LeftInv, CallLeft
  <2> QED BY <2>2, <2>3 DEF JobInv, LeftInv, CallLeft, Answers
<1> QED BY <1>1, JobInductive, PTL

-----------------------------------------------------------------------------
\* The refinement: ConverterContract sees a call through its phase and its file.
Unmoved(c) ==
  /\ pc'[c] = pc[c] /\ answer'[c] = answer[c] /\ out'[c] = out[c]
  /\ (TakenUp(c)' <=> TakenUp(c)) /\ (Pending(c)' <=> Pending(c))

LEMMA PhaseStays == ASSUME NEW c \in Callers, Unmoved(c) PROVE Phase(c)' = Phase(c)
BY DEF Unmoved, Phase

LEMMA PhasesStay == ASSUME \A c \in Callers : Phase(c)' = Phase(c) PROVE phases' = phases
BY DEF phases

LEMMA PhaseMoves ==
  ASSUME NEW c \in Callers, NEW from, NEW to, Phase(c) = from, Phase(c)' = to,
         \A d \in Callers \ {c} : Unmoved(d)
  PROVE  Contract!Move(c, from, to)
<1>1. \A d \in Callers \ {c} : Phase(d)' = Phase(d)
  BY PhaseStays
<1> QED BY <1>1 DEF Contract!Move, phases

\* What a worker is at concerns no call but its own, and no call at all while it
\* waits for one.
LEMMA WorkersFrozen ==
  ASSUME UNCHANGED <<wpc, env>>
  PROVE  \A d \in Callers : /\ TakenUp(d)' <=> TakenUp(d)
                            /\ WithWorker(d)' <=> WithWorker(d)
BY DEF TakenUp, WithWorker

\* A step that leaves queue and workers alone moves the call it is about.
LEMMA QueueFrozen ==
  ASSUME TypeOK, TypeOK', UNCHANGED <<queue, wpc, env>>
  PROVE  \A d \in Callers : (TakenUp(d)' <=> TakenUp(d)) /\ (Pending(d)' <=> Pending(d))
<1>1. \A d \in Callers : InQueue(d)' <=> InQueue(d)
  BY DEF InQueue
<1>2. \A d \in Callers : Pending(d)' <=> InQueue(d)' \/ WithWorker(d)'
  BY DEF Pending, InQueue, WithWorker, TypeOK
<1> QED BY <1>1, <1>2, WorkersFrozen, PendingIs

\* A call that has got through closeMu without an outcome is not taken up yet.
LEMMA EarlyPhase ==
  ASSUME JobInv, NEW c \in Callers, pc[c] \in Early
  PROVE  out[c] = "empty" /\ ~InQueue(c) /\ ~WithWorker(c) /\ ~TakenUp(c) /\ answer[c] = "none"
BY DEF JobInv, OwnerInv, LeftInv, CallLeft, Early, WithWorker, TakenUp

LEMMA RunRefines ==
  ASSUME JobInv, JobInv', NEW c \in Callers, Call(c) \/ RunStep(c) \/ Expire(c) \/ Consume(c)
  PROVE  [Contract!Next]_(Contract!vars)
<1> USE DEF Goto, Set, Return, workVars, callVars, Contract!Next, Contract!Leave, Contract!Answer
<1>1. TypeOK /\ TypeOK'
  BY DEF JobInv, IInv
<1>2. \A d \in Callers \ {c} : pc'[d] = pc[d] /\ answer'[d] = answer[d] /\ out'[d] = out[d] /\ file'[d] = file[d]
  BY <1>1 DEF Call, RunStep, Lock, Check, Send, TakeOutcome, GiveUp, Expire, Consume, TypeOK
<1>3. UNCHANGED <<wpc, env>>
  BY DEF Call, RunStep, Lock, Check, Send, TakeOutcome, GiveUp, Expire, Consume
<1>4. UNCHANGED queue => (\A d \in Callers : (TakenUp(d)' <=> TakenUp(d)) /\ (Pending(d)' <=> Pending(d)))
  BY <1>1, <1>3, QueueFrozen
<1>5. UNCHANGED queue => \A d \in Callers \ {c} : Unmoved(d)
  BY <1>2, <1>4 DEF Unmoved
<1>6. CASE Lock(c) \/ Expire(c)
  <2>1. UNCHANGED <<queue, answer, out, file>>
    BY <1>6 DEF Lock, Expire
  <2>2. Phase(c)' = Phase(c)
    <3>1. CASE Lock(c)
      BY <1>1, <3>1 DEF Lock, Phase, TypeOK
    <3>2. CASE Expire(c)
      BY <1>4, <2>1, <3>2, PhaseStays DEF Expire, Unmoved
    <3> QED BY <1>6, <3>1, <3>2
  <2>3. phases' = phases /\ handedOver' = handedOver
    BY <1>5, <2>1, <2>2, PhaseStays, PhasesStay DEF handedOver
  <2> QED BY <2>3 DEF Contract!vars
<1>7. CASE Call(c)
  <2>1. UNCHANGED <<queue, answer, out, file>> /\ pc[c] = "idle" /\ pc'[c] = "lock"
    BY <1>1, <1>7 DEF Call, TypeOK
  <2>2. Phase(c) = "new" /\ Phase(c)' = "waiting" /\ handedOver' = handedOver
    BY <2>1 DEF Phase, handedOver
  <2> QED BY <1>5, <2>1, <2>2, PhaseMoves DEF Contract!Submit
<1>8. CASE Check(c) \/ Send(c)
  <2>1. pc[c] \in {"check", "send"} /\ UNCHANGED <<out, file>> /\ Phase(c) = "waiting"
    BY <1>8 DEF Check, Send, Phase
  <2>2. out[c] = "empty" /\ ~WithWorker(c) /\ ~TakenUp(c) /\ answer[c] = "none"
    BY <2>1, EarlyPhase DEF Early
  <2>3. \/ UNCHANGED queue /\ pc'[c] = "done" /\ answer'[c] \in {"pool-closed", "queue-full"}
        \/ UNCHANGED <<queue, answer>> /\ pc'[c] = "send"
        \/ UNCHANGED answer /\ queue' = Append(queue, c) /\ pc'[c] = "wait"
    <3>1. CASE Check(c) /\ closed
      BY <1>1, <3>1 DEF Check, TypeOK
    <3>2. CASE Check(c) /\ ~closed
      BY <1>1, <3>2 DEF Check, TypeOK
    <3>3. CASE Send(c)
      BY <1>1, <3>3 DEF Send, TypeOK
    <3> QED BY <1>8, <3>1, <3>2, <3>3
  <2>4. handedOver' = handedOver
    BY <1>2, <2>1, <2>2, <2>3 DEF handedOver
  <2>5. CASE pc'[c] = "done"
    <3>1. Phase(c)' = "failed" /\ UNCHANGED queue
      BY <2>3, <2>5 DEF Phase
    <3> QED BY <1>5, <2>1, <2>4, <3>1, PhaseMoves DEF Contract!GiveUp
  <2>6. CASE pc'[c] = "send"
    <3>1. Phase(c)' = Phase(c) /\ UNCHANGED queue
      BY <2>1, <2>3, <2>6 DEF Phase
    <3> QED BY <1>5, <2>4, <3>1, PhaseStays, PhasesStay DEF Contract!vars
  <2>7. CASE pc'[c] = "wait"
    <3>1. /\ Len(queue) \in Nat /\ Len(queue') = Len(queue) + 1
          /\ queue'[Len(queue) + 1] = c /\ \A i \in 1..Len(queue) : queue'[i] = queue[i]
      BY <1>1, <2>3, <2>7, QueueFacts DEF TypeOK
    <3>2. InQueue(c)' /\ \A d \in Callers \ {c} : InQueue(d)' <=> InQueue(d)
      BY <3>1 DEF InQueue
    <3>3. \A d \in Callers : Pending(d)' <=> InQueue(d)' \/ WithWorker(d)'
      BY <1>1 DEF Pending, InQueue, WithWorker, TypeOK
    <3>4. \A d \in Callers \ {c} : Unmoved(d)
      BY <1>1, <1>2, <1>3, <3>2, <3>3, WorkersFrozen, PendingIs DEF Unmoved
    <3>5. Phase(c)' = Phase(c)
      <4>1. out'[c] = "empty" /\ ~TakenUp(c)' /\ Pending(c)'
        BY <1>3, <2>1, <2>2, <3>2, <3>3, WorkersFrozen
      <4> QED BY <2>1, <2>7, <4>1 DEF Phase
    <3> QED BY <2>4, <3>4, <3>5, PhaseStays, PhasesStay DEF Contract!vars
  <2> QED BY <2>3, <2>5, <2>6, <2>7
<1>9. CASE TakeOutcome(c)
  <2>1. /\ pc[c] = "wait" /\ out[c] # "empty" /\ pc'[c] = "done" /\ UNCHANGED <<queue, file>>
        /\ answer'[c] = IF out[c] = "file" THEN "ok" ELSE "error"
    BY <1>1, <1>9 DEF TakeOutcome, TypeOK
  <2>2. Phase(c) = "converting" /\ c \notin handedOver
    BY <2>1 DEF Phase, JobInv, OwnerInv, handedOver
  <2>3. CASE out[c] = "file"
    <3>1. file[c]
      BY <2>3 DEF JobInv, FileInv
    <3>2. Phase(c)' = "ok" /\ handedOver' = handedOver \cup {c}
      BY <1>2, <2>1, <2>3, <3>1 DEF Phase, handedOver
    <3> QED BY <1>5, <2>1, <2>2, <3>2, PhaseMoves DEF Contract!Succeed
  <2>4. CASE out[c] # "file"
    <3>1. Phase(c)' = "failed" /\ handedOver' = handedOver
      BY <1>2, <2>1, <2>2, <2>4 DEF Phase, handedOver
    <3> QED BY <1>5, <2>1, <2>2, <3>1, PhaseMoves DEF Contract!Fail
  <2> QED BY <2>3, <2>4
<1>10. CASE GiveUp(c)
  <2>1. pc[c] = "wait" /\ pc'[c] = "done" /\ answer'[c] = "ctx" /\ UNCHANGED <<queue, file>>
    BY <1>1, <1>10 DEF GiveUp, TypeOK
  <2>2. answer[c] # "ok"
    BY <2>1 DEF JobInv, OwnerInv
  <2>3. Phase(c)' = "failed" /\ handedOver' = handedOver
    BY <1>2, <2>1, <2>2 DEF Phase, handedOver
  <2>4. Phase(c) \in {"waiting", "converting", "failed"}
    BY <2>1 DEF Phase
  <2>5. CASE Phase(c) = "failed"
    BY <1>5, <2>1, <2>3, <2>5, PhaseStays, PhasesStay DEF Contract!vars
  <2>6. CASE Phase(c) = "waiting"
    BY <1>5, <2>1, <2>3, <2>6, PhaseMoves DEF Contract!GiveUp
  <2>7. CASE Phase(c) = "converting"
    BY <1>5, <2>1, <2>3, <2>7, PhaseMoves DEF Contract!Fail
  <2> QED BY <2>4, <2>5, <2>6, <2>7
<1>11. CASE Consume(c)
  <2>1. answer[c] = "ok" /\ file[c] /\ UNCHANGED <<pc, answer, out, queue>> /\ ~file'[c]
    BY <1>1, <1>11 DEF Consume, TypeOK
  <2>2. phases' = phases
    BY <1>4, <2>1, PhaseStays, PhasesStay DEF Unmoved
  <2>3. c \in handedOver /\ handedOver' = handedOver \ {c}
    BY <1>2, <2>1 DEF handedOver
  <2> QED BY <2>2, <2>3 DEF Contract!Deliver
<1> QED BY <1>6, <1>7, <1>8, <1>9, <1>10, <1>11 DEF RunStep

LEMMA WorkerRefines ==
  ASSUME JobInv, JobInv', NEW w \in Threads, WorkerStep(w) \/ Convert(w)
  PROVE  [Contract!Next]_(Contract!vars)
<1> USE DEF Set, NextJob, callVars, Contract!Next, Contract!Leave, Contract!Answer
<1>1. TypeOK /\ TypeOK' /\ UNCHANGED <<pc, answer>>
  BY DEF JobInv, IInv, WorkerStep, Receive, Exit, Execute, Post, Convert
<1>2. \A d \in Callers : Pending(d)' <=> InQueue(d)' \/ WithWorker(d)'
  BY <1>1 DEF Pending, InQueue, WithWorker, TypeOK
<1>3. CASE Receive(w)
  <2>1. UNCHANGED <<out, file>> /\ queue # <<>> /\ queue' = Tail(queue) /\ wpc[w] = "range"
        /\ env' = [env EXCEPT ![w] = Head(queue)] /\ wpc' = [wpc EXCEPT ![w] = "execute"]
    BY <1>3 DEF Receive
  <2>2. env[w] = NoOne
    BY <2>1 DEF JobInv, LeftInv, WorkerLeft
  <2>3. /\ Len(queue) \in Nat /\ Len(queue) > 0 /\ Head(queue) = queue[1]
        /\ Len(queue') = Len(queue) - 1
        /\ \A i \in 1..Len(queue) - 1 : queue'[i] = queue[i + 1]
    BY <1>1, <2>1, QueueFacts DEF TypeOK
  <2>4. PICK c \in Callers : c = queue[1] /\ env' = [env EXCEPT ![w] = c]
    <3>1. queue \in Seq(Callers) /\ 1 \in 1..Len(queue)
      BY <1>1, <2>3 DEF TypeOK
    <3>2. queue[1] \in Callers
      BY <3>1, SMT
    <3> QED BY <2>1, <2>3, <3>2, Zenon
  <2>5. \A d \in Callers : TakenUp(d)' <=> TakenUp(d)
    BY <1>1, <2>1, <2>4 DEF TakenUp, TypeOK
  <2>6. \A d \in Callers : InQueue(d) <=> InQueue(d)' \/ d = c
    <3>1. ASSUME NEW d \in Callers, NEW i \in 1..Len(queue), queue[i] = d, d # c
          PROVE  i - 1 \in 1..Len(queue') /\ queue'[i - 1] = d
      BY <2>3, <2>4, <3>1
    <3>2. ASSUME NEW d \in Callers, NEW i \in 1..Len(queue'), queue'[i] = d
          PROVE  i + 1 \in 1..Len(queue) /\ queue[i + 1] = d
      BY <2>3, <3>2
    <3>3. InQueue(c)
      BY <2>3, <2>4 DEF InQueue
    <3>4. \A d \in Callers : InQueue(d)' => InQueue(d)
      BY <3>2 DEF InQueue
    <3>5. \A d \in Callers : d # c /\ InQueue(d) => InQueue(d)'
      BY <3>1 DEF InQueue
    <3> QED BY <3>3, <3>4, <3>5
  <2>7. \A d \in Callers : WithWorker(d)' <=> WithWorker(d) \/ d = c
    BY <1>1, <2>2, <2>4, PoolAssumption DEF WithWorker, TypeOK, PoolAssumption
  <2>8. \A d \in Callers : Pending(d)' <=> Pending(d)
    BY <1>1, <1>2, <2>6, <2>7, PendingIs
  <2>9. \A d \in Callers : Unmoved(d)
    BY <1>1, <2>1, <2>5, <2>8 DEF Unmoved
  <2>10. handedOver' = handedOver
    BY <1>1, <2>1 DEF handedOver
  <2> QED BY <2>9, <2>10, PhaseStays, PhasesStay DEF Contract!vars
<1>4. CASE Exit(w)
  <2>1. UNCHANGED <<out, file, queue, env>> /\ wpc[w] = "range" /\ wpc' = [wpc EXCEPT ![w] = "exited"]
    BY <1>4 DEF Exit
  <2>2. \A d \in Callers : /\ TakenUp(d)' <=> TakenUp(d)
                           /\ InQueue(d)' <=> InQueue(d)
                           /\ WithWorker(d)' <=> WithWorker(d)
    BY <1>1, <2>1 DEF TakenUp, InQueue, WithWorker, TypeOK
  <2>3. \A d \in Callers : Unmoved(d)
    BY <1>1, <1>2, <2>1, <2>2, PendingIs DEF Unmoved
  <2>4. handedOver' = handedOver
    BY <1>1, <2>1 DEF handedOver
  <2> QED BY <2>3, <2>4, PhaseStays, PhasesStay DEF Contract!vars
<1>5. CASE Execute(w) \/ Convert(w) \/ Post(w)
  <2>1. UNCHANGED queue /\ env[w] \in Callers
    BY <1>5 DEF Execute, Convert, Post, JobInv, IInv, WorkInv
  <2>2. PICK c \in Callers : c = env[w]
    BY <2>1
  <2>3. /\ WithWorker(c) /\ out[c] = "empty" /\ answer[c] # "ok" /\ ~InQueue(c)
        /\ pc[c] \in {"wait", "done"}
    BY <1>1, <2>2 DEF WithWorker, JobInv, OwnerInv, Early, TypeOK
  <2>4. \A v \in Threads : v # w => env[v] # c
    BY <2>2 DEF JobInv, OwnerInv
  <2>5. \A d \in Callers : InQueue(d)' <=> InQueue(d)
    BY <2>1 DEF InQueue
  <2>6. \A d \in Callers \ {c} :
          /\ TakenUp(d)' <=> TakenUp(d)
          /\ WithWorker(d)' <=> WithWorker(d)
    <3>1. \A v \in Threads \ {w} : wpc'[v] = wpc[v] /\ env'[v] = env[v]
      BY <1>1, <1>5 DEF Execute, Convert, Post, TypeOK
    <3>2. env'[w] \in {c, NoOne}
      BY <1>1, <1>5, <2>2 DEF Execute, Convert, Post, TypeOK
    <3> QED BY <2>2, <3>1, <3>2, PoolAssumption DEF TakenUp, WithWorker, PoolAssumption
  <2>7. \A d \in Callers \ {c} : out'[d] = out[d] /\ file'[d] = file[d]
    BY <1>1, <1>5, <2>2 DEF Execute, Convert, Post, TypeOK
  <2>8. \A d \in Callers \ {c} : Unmoved(d)
    BY <1>1, <1>2, <2>5, <2>6, <2>7, PendingIs DEF Unmoved
  <2>9. handedOver' = handedOver
    BY <1>1, <2>3, <2>7 DEF handedOver
  <2>10. ASSUME Phase(c)' = Phase(c) PROVE UNCHANGED Contract!vars
    BY <2>8, <2>9, <2>10, PhaseStays, PhasesStay DEF Contract!vars
  <2>11. CASE pc[c] = "done"
    <3>1. Phase(c)' = Phase(c)
      BY <1>1, <2>11 DEF Phase
    <3> QED BY <2>10, <3>1
  <2>12. CASE pc[c] = "wait" /\ Execute(w)
    <3>1. UNCHANGED <<out, env>> /\ wpc[w] = "execute" /\ wpc'[w] \in {"inside", "post"}
      BY <1>1, <2>12 DEF Execute, TypeOK
    <3>2. ~TakenUp(c) /\ TakenUp(c)' /\ Pending(c)
      BY <1>1, <2>2, <2>3, <2>4, <3>1, PendingIs DEF TakenUp
    <3>3. Phase(c) = "waiting" /\ Phase(c)' = "converting"
      BY <1>1, <2>3, <2>12, <3>2 DEF Phase
    <3> QED BY <2>8, <2>9, <3>3, PhaseMoves DEF Contract!Begin
  <2>13. CASE pc[c] = "wait" /\ Convert(w)
    <3>1. UNCHANGED <<out, env>> /\ wpc[w] = "inside" /\ wpc'[w] = "post"
      BY <1>1, <2>13 DEF Convert, TypeOK
    <3>2. TakenUp(c) /\ TakenUp(c)'
      BY <2>2, <3>1 DEF TakenUp
    <3>3. Phase(c) = "converting" /\ Phase(c)' = "converting"
      BY <1>1, <2>13, <3>2 DEF Phase
    <3> QED BY <2>10, <3>3
  <2>14. CASE pc[c] = "wait" /\ Post(w)
    <3>1. wpc[w] = "post" /\ env' = [env EXCEPT ![w] = NoOne] /\ made[w] \in Outcomes
          /\ (out' = [out EXCEPT ![c] = made[w]] \/ UNCHANGED out)
      BY <2>2, <2>14 DEF Post, JobInv, LeftInv, WorkerLeft
    <3>2. TakenUp(c) /\ Phase(c) = "converting"
      BY <2>2, <2>14, <3>1 DEF TakenUp, Phase
    <3>3. ~WithWorker(c)' /\ ~TakenUp(c)' /\ ~Pending(c)'
      <4>1. \A v \in Threads : env'[v] # c
        BY <1>1, <2>4, <3>1, PoolAssumption DEF TypeOK, PoolAssumption
      <4> QED BY <1>2, <2>3, <2>5, <4>1 DEF TakenUp, WithWorker
    <3>4. CASE out' = [out EXCEPT ![c] = made[w]]
      <4>1. out'[c] # "empty"
        BY <1>1, <3>1, <3>4 DEF TypeOK, Outcomes
      <4>2. Phase(c)' = "converting"
        BY <1>1, <2>14, <4>1 DEF Phase
      <4> QED BY <2>10, <3>2, <4>2
    <3>5. CASE UNCHANGED out
      <4>1. Phase(c)' = "failed"
        BY <1>1, <2>3, <2>14, <3>3, <3>5 DEF Phase
      <4> QED BY <2>8, <2>9, <3>2, <4>1, PhaseMoves DEF Contract!Fail
    <3> QED BY <3>1, <3>4, <3>5
  <2> QED BY <1>5, <2>3, <2>11, <2>12, <2>13, <2>14
<1> QED BY <1>3, <1>4, <1>5 DEF WorkerStep

\* Close, and what nobody does, is hidden.
LEMMA CloseRefines ==
  ASSUME UNCHANGED <<pc, answer, file, out, wpc, env, queue>>
  PROVE  UNCHANGED Contract!vars
<1>1. \A d \in Callers : (TakenUp(d)' <=> TakenUp(d)) /\ (Pending(d)' <=> Pending(d))
  BY DEF TakenUp, Pending
<1>2. phases' = phases
  BY <1>1, PhaseStays, PhasesStay DEF Unmoved
<1> QED BY <1>2 DEF Contract!vars, handedOver

\* For any number of calls, goroutines and Closes: bi convert's pool gives its
\* callers what SubprocessConverter gives the handlers (theorem ImplementsContract of
\* SubprocessProofs).
THEOREM PoolKeepsContract == Spec => KeepsContract
<1>1. Init => Contract!Init
  BY DEF Init, Contract!Init, phases, handedOver, Phase
<1>2. JobInv /\ JobInv' /\ [Next]_vars => [Contract!Next]_(Contract!vars)
  <2> SUFFICES ASSUME JobInv, JobInv', [Next]_vars PROVE [Contract!Next]_(Contract!vars)
    OBVIOUS
  <2>1. ASSUME NEW k \in Closers, CloseLock(k) \/ CloseStep(k) PROVE UNCHANGED Contract!vars
    <3>1. UNCHANGED <<pc, answer, file, out, wpc, env, queue>>
      BY <2>1 DEF CloseLock, CloseStep, CloseCheck, WorkersWait, CloseOffice, callVars, workVars
    <3> QED BY <3>1, CloseRefines
  <2>2. CASE Terminated \/ UNCHANGED vars
    <3>1. UNCHANGED <<pc, answer, file, out, wpc, env, queue>>
      BY <2>2 DEF Terminated, vars, callVars, workVars
    <3> QED BY <3>1, CloseRefines
  <2> QED BY <2>1, <2>2, RunRefines, WorkerRefines DEF Next
<1> QED BY <1>1, <1>2, JobInductive, PTL DEF Spec, KeepsContract, Contract!Spec
=============================================================================
