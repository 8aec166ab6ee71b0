---------------------------- MODULE LimiterProofs ----------------------------
(***************************************************************************)
(* Proofs about the limiter for any finite set of calls and any Workers and *)
(* QueueDepth.                                                              *)
(*                                                                          *)
(* IInv is the inductive invariant.  The properties are not inductive:      *)
(* that a channel holds as many tokens as there are holders says nothing    *)
(* about its capacity, the busy gauge is right only if it counts exactly    *)
(* the calls between WorkerBusy(1) and WorkerBusy(-1), and a gauge value is *)
(* in range only if every value on its way through observeQueueDepth is.    *)
(***************************************************************************)
EXTENDS Limiter, FiniteSetTheorems, TLAPS

\* Calls between WorkerBusy(1) and WorkerBusy(-1).
BusyHolders == {c \in Calls : pc[c] \in {"held", "unbusy"}}

\* The channels hold one token per holder and never more than their capacity.
TokenInv ==
  ~Unlimited =>
    /\ admission = Cardinality(AdmissionHolders)
    /\ workers = Cardinality(WorkerHolders)
    /\ admission <= AdmissionCap
    /\ workers <= Workers

\* Without a limit no call touches a channel or a gauge.
BypassInv ==
  Unlimited =>
    /\ \A c \in Calls : pc[c] \in {"idle", "admit", "held", "done"} /\ scan[c] = "off"
    /\ admission = 0 /\ workers = 0 /\ busyGauge = 0

BusyInv ==
  ~Unlimited => busyGauge = IF Metered THEN Cardinality(BusyHolders) ELSE 0

\* Every value on its way to the gauge is a depth the limiter can have.
GaugeInv ==
  /\ queueGauge >= 0
  /\ \A c \in Calls : seen[c] >= 0
  /\ ~Unlimited =>
       /\ queueGauge <= AdmissionCap
       /\ \A c \in Calls : seen[c] <= AdmissionCap

IInv == TypeOK /\ TokenInv /\ BypassInv /\ BusyInv /\ GaugeInv

-----------------------------------------------------------------------------
\* One if x is in S, else zero.
Unit(x, S) == IF x \in S THEN 1 ELSE 0

\* Moving call c from its place to q changes the number of calls in a set S of
\* places by what q counts in S less what the old place counted.
LEMMA CountMove ==
  ASSUME NEW f, NEW P, f \in [Calls -> P], NEW c \in Calls, NEW q, NEW S
  PROVE  LET H == {d \in Calls : f[d] \in S}
             G == {d \in Calls : [f EXCEPT ![c] = q][d] \in S}
         IN  /\ Cardinality(G) = Cardinality(H) + Unit(q, S) - Unit(f[c], S)
             /\ Cardinality(H) \in Nat
<1> DEFINE H == {d \in Calls : f[d] \in S}
           G == {d \in Calls : [f EXCEPT ![c] = q][d] \in S}
<1>1. IsFiniteSet(H) /\ Cardinality(H) \in Nat
  BY FS_Subset, FS_CardinalityType, LimiterAssumption DEF LimiterAssumption
<1>2. ASSUME f[c] \in S <=> q \in S
      PROVE  Cardinality(G) = Cardinality(H) + Unit(q, S) - Unit(f[c], S)
  <2>1. G = H
    BY <1>2
  <2>2. Unit(q, S) = Unit(f[c], S) /\ Unit(q, S) \in Int
    BY <1>2 DEF Unit
  <2>3. Cardinality(G) = Cardinality(H)
    BY <2>1
  <2> HIDE DEF G, H
  <2> QED BY <2>2, <2>3, <1>1
<1>3. ASSUME f[c] \notin S /\ q \in S
      PROVE  Cardinality(G) = Cardinality(H) + Unit(q, S) - Unit(f[c], S)
  <2>1. G = H \cup {c} /\ c \notin H
    BY <1>3
  <2>2. Cardinality(G) = Cardinality(H) + 1
    BY <2>1, <1>1, FS_AddElement
  <2> HIDE DEF G, H
  <2> QED BY <2>2, <1>1, <1>3 DEF Unit
<1>4. ASSUME f[c] \in S /\ q \notin S
      PROVE  Cardinality(G) = Cardinality(H) + Unit(q, S) - Unit(f[c], S)
  <2>1. G = H \ {c} /\ c \in H
    BY <1>4
  <2>2. Cardinality(G) = Cardinality(H) - 1
    BY <2>1, <1>1, FS_RemoveElement
  <2> HIDE DEF G, H
  <2> QED BY <2>2, <1>1, <1>4 DEF Unit
<1> QED BY <1>1, <1>2, <1>3, <1>4

AdmittedPlaces == {"queued", "granted", "held", "unbusy", "drop", "leave"}
WorkingPlaces == {"granted", "held", "unbusy", "drop"}
BusyPlaces == {"held", "unbusy"}

\* What each place of a call counts for the three kinds of holders.
LEMMA Units ==
  /\ Unit("idle", AdmittedPlaces) = 0 /\ Unit("idle", WorkingPlaces) = 0 /\ Unit("idle", BusyPlaces) = 0
  /\ Unit("admit", AdmittedPlaces) = 0 /\ Unit("admit", WorkingPlaces) = 0 /\ Unit("admit", BusyPlaces) = 0
  /\ Unit("queued", AdmittedPlaces) = 1 /\ Unit("queued", WorkingPlaces) = 0 /\ Unit("queued", BusyPlaces) = 0
  /\ Unit("granted", AdmittedPlaces) = 1 /\ Unit("granted", WorkingPlaces) = 1 /\ Unit("granted", BusyPlaces) = 0
  /\ Unit("held", AdmittedPlaces) = 1 /\ Unit("held", WorkingPlaces) = 1 /\ Unit("held", BusyPlaces) = 1
  /\ Unit("unbusy", AdmittedPlaces) = 1 /\ Unit("unbusy", WorkingPlaces) = 1 /\ Unit("unbusy", BusyPlaces) = 1
  /\ Unit("drop", AdmittedPlaces) = 1 /\ Unit("drop", WorkingPlaces) = 1 /\ Unit("drop", BusyPlaces) = 0
  /\ Unit("leave", AdmittedPlaces) = 1 /\ Unit("leave", WorkingPlaces) = 0 /\ Unit("leave", BusyPlaces) = 0
  /\ Unit("done", AdmittedPlaces) = 0 /\ Unit("done", WorkingPlaces) = 0 /\ Unit("done", BusyPlaces) = 0
BY DEF Unit, AdmittedPlaces, WorkingPlaces, BusyPlaces

\* How a step of one call from place p to place q moves the three counts.
LEMMA CountStep ==
  ASSUME pc \in [Calls -> PC], NEW c \in Calls, NEW p, NEW q,
         pc[c] = p, pc' = [pc EXCEPT ![c] = q]
  PROVE  /\ Cardinality(AdmissionHolders)' = Cardinality(AdmissionHolders)
               + Unit(q, AdmittedPlaces) - Unit(p, AdmittedPlaces)
         /\ Cardinality(WorkerHolders)' = Cardinality(WorkerHolders)
               + Unit(q, WorkingPlaces) - Unit(p, WorkingPlaces)
         /\ Cardinality(BusyHolders)' = Cardinality(BusyHolders)
               + Unit(q, BusyPlaces) - Unit(p, BusyPlaces)
<1>1. ASSUME NEW S
      PROVE  Cardinality({d \in Calls : pc'[d] \in S}) =
               Cardinality({d \in Calls : pc[d] \in S}) + Unit(q, S) - Unit(p, S)
  BY CountMove
<1>2. /\ AdmissionHolders = {d \in Calls : pc[d] \in AdmittedPlaces}
      /\ WorkerHolders = {d \in Calls : pc[d] \in WorkingPlaces}
      /\ BusyHolders = {d \in Calls : pc[d] \in BusyPlaces}
      /\ AdmissionHolders' = {d \in Calls : pc'[d] \in AdmittedPlaces}
      /\ WorkerHolders' = {d \in Calls : pc'[d] \in WorkingPlaces}
      /\ BusyHolders' = {d \in Calls : pc'[d] \in BusyPlaces}
  BY DEF AdmissionHolders, WorkerHolders, BusyHolders,
         AdmittedPlaces, WorkingPlaces, BusyPlaces
<1>3. Cardinality(AdmissionHolders)' = Cardinality(AdmissionHolders)
        + Unit(q, AdmittedPlaces) - Unit(p, AdmittedPlaces)
  BY <1>1, <1>2
<1>4. Cardinality(WorkerHolders)' = Cardinality(WorkerHolders)
        + Unit(q, WorkingPlaces) - Unit(p, WorkingPlaces)
  BY <1>1, <1>2
<1>5. Cardinality(BusyHolders)' = Cardinality(BusyHolders)
        + Unit(q, BusyPlaces) - Unit(p, BusyPlaces)
  BY <1>1, <1>2
<1> QED BY <1>3, <1>4, <1>5

\* The number of holders of each kind is a natural number, and busy calls are
\* among the owners of a worker token, which are among the admitted.
LEMMA HolderCounts ==
  /\ Cardinality(AdmissionHolders) \in Nat
  /\ Cardinality(WorkerHolders) \in Nat
  /\ Cardinality(BusyHolders) \in Nat
  /\ Cardinality(BusyHolders) <= Cardinality(WorkerHolders)
<1>1. /\ IsFiniteSet(AdmissionHolders)
      /\ IsFiniteSet(WorkerHolders)
      /\ IsFiniteSet(BusyHolders)
  BY FS_Subset, LimiterAssumption
     DEF LimiterAssumption, AdmissionHolders, WorkerHolders, BusyHolders
<1>2. BusyHolders \subseteq WorkerHolders
  BY DEF BusyHolders, WorkerHolders
<1> QED BY <1>1, <1>2, FS_CardinalityType, FS_Subset

\* The capacity of the admission channel is at least the number of workers.
LEMMA Capacities ==
  /\ AdmissionCap \in Int
  /\ Workers \in Int
  /\ ~Unlimited => AdmissionCap >= Workers /\ Workers > 0
BY LimiterAssumption DEF LimiterAssumption, AdmissionCap, Unlimited
-----------------------------------------------------------------------------
\* The initial states satisfy the invariant.
LEMMA InitInv == Init => IInv
<1> SUFFICES ASSUME Init PROVE IInv
  OBVIOUS
<1>1. TypeOK
  BY DEF Init, TypeOK, PC, CtxState, Errors, ScanState
<1>2. AdmissionHolders = {} /\ WorkerHolders = {} /\ BusyHolders = {}
  BY DEF Init, AdmissionHolders, WorkerHolders, BusyHolders
<1>3. TokenInv /\ BusyInv
  BY <1>2, FS_EmptySet, Capacities DEF Init, TokenInv, BusyInv
<1>4. BypassInv
  BY DEF Init, BypassInv
<1>5. GaugeInv
  BY Capacities DEF Init, GaugeInv
<1> QED BY <1>1, <1>3, <1>4, <1>5 DEF IInv

\* Every step keeps the variables in their types.
LEMMA TypeStep == TypeOK /\ BypassInv /\ [Next]_vars => TypeOK'
<1> SUFFICES ASSUME TypeOK, BypassInv, [Next]_vars PROVE TypeOK'
  OBVIOUS
<1> USE DEF TypeOK, PC, CtxState, Errors, ScanState, At, Goto, BeginObserve, Done,
            chans, gauges, observing
<1>1. CASE UNCHANGED vars
  BY <1>1 DEF vars
<1>2. ASSUME NEW c \in Calls, Start(c) PROVE TypeOK'
  BY <1>2 DEF Start
<1>4. ASSUME NEW c \in Calls, Admit(c) PROVE TypeOK'
  BY <1>4 DEF Admit
<1>5. ASSUME NEW c \in Calls, AdmitCanceled(c) PROVE TypeOK'
  BY <1>5 DEF AdmitCanceled
<1>6. ASSUME NEW c \in Calls, Refuse(c) PROVE TypeOK'
  BY <1>6 DEF Refuse
<1>7. ASSUME NEW c \in Calls, Grant(c) PROVE TypeOK'
  BY <1>7 DEF Grant
<1>8. ASSUME NEW c \in Calls, MarkBusy(c) PROVE TypeOK'
  BY <1>8 DEF MarkBusy
<1>9. ASSUME NEW c \in Calls, WaitCanceled(c) PROVE TypeOK'
  BY <1>9 DEF WaitCanceled
<1>10. ASSUME NEW c \in Calls, Finish(c) PROVE TypeOK'
  BY <1>10 DEF Finish
<1>11. ASSUME NEW c \in Calls, MarkIdle(c) PROVE TypeOK'
  BY <1>11 DEF MarkIdle
<1>12. ASSUME NEW c \in Calls, DropWorker(c) PROVE TypeOK'
  BY <1>12 DEF DropWorker
<1>13. ASSUME NEW c \in Calls, Leave(c) PROVE TypeOK'
  BY <1>13 DEF Leave
<1>14. ASSUME NEW c \in Calls, ReadAdmission(c) PROVE TypeOK'
  BY <1>14 DEF ReadAdmission
<1>15. ASSUME NEW c \in Calls, ReadWorkers(c) PROVE TypeOK'
  BY <1>15 DEF ReadWorkers, Depth
<1>16. ASSUME NEW c \in Calls, SetDepth(c) PROVE TypeOK'
  BY <1>16 DEF SetDepth
<1>17. ASSUME NEW c \in Calls, NEW why \in {"canceled", "expired"}, ContextEnds(c, why)
       PROVE  TypeOK'
  BY <1>17 DEF ContextEnds
<1> QED
  BY <1>1, <1>2, <1>4, <1>5, <1>6, <1>7, <1>8, <1>9, <1>10, <1>11, <1>12,
     <1>13, <1>14, <1>15, <1>16, <1>17 DEF Next, Advance, Terminated

\* The tokens in the channels follow the calls in and out.
LEMMA TokenStep == TypeOK /\ TokenInv /\ [Next]_vars => TokenInv'
<1> SUFFICES ASSUME TypeOK, TokenInv, [Next]_vars, ~Unlimited PROVE TokenInv'
  BY DEF TokenInv, Unlimited
<1> DEFINE nA == Cardinality(AdmissionHolders)
           nW == Cardinality(WorkerHolders)
<1> USE DEF chans, gauges, observing
<1>0. /\ pc \in [Calls -> PC] /\ admission \in Nat /\ workers \in Nat
      /\ admission = nA /\ workers = nW
      /\ admission <= AdmissionCap /\ workers <= Workers
      /\ Workers \in Int /\ AdmissionCap \in Int
  BY Capacities DEF TypeOK, TokenInv
<1>c. ASSUME NEW c \in Calls, NEW p, NEW q, pc[c] = p, pc' = [pc EXCEPT ![c] = q]
      PROVE  /\ nA' = admission + Unit(q, AdmittedPlaces) - Unit(p, AdmittedPlaces)
             /\ nW' = workers + Unit(q, WorkingPlaces) - Unit(p, WorkingPlaces)
  BY <1>c, <1>0, CountStep
<1>u. ASSUME UNCHANGED <<pc, chans>> PROVE TokenInv'
  BY <1>u, <1>0 DEF TokenInv, AdmissionHolders, WorkerHolders
<1>g. ASSUME admission' = nA', workers' = nW', admission' <= AdmissionCap, workers' <= Workers
      PROVE  TokenInv'
  BY <1>g DEF TokenInv
<1> HIDE DEF nA, nW
<1>1. CASE UNCHANGED vars
  BY <1>1, <1>u DEF vars
<1>2. ASSUME NEW c \in Calls, Start(c) PROVE TokenInv'
  <2>1. pc[c] = "idle" /\ pc' = [pc EXCEPT ![c] = "admit"]
    BY <1>2 DEF Start, At, Goto
  <2>2. /\ nA' = admission + Unit("admit", AdmittedPlaces) - Unit("idle", AdmittedPlaces)
        /\ nW' = workers + Unit("admit", WorkingPlaces) - Unit("idle", WorkingPlaces)
    BY <2>1, <1>c
  <2>3. nA' = admission /\ nW' = workers
    BY <2>2, <1>0, Units
  <2> QED BY <2>3, <1>2, <1>g, <1>0 DEF Start
<1>3. ASSUME NEW c \in Calls, Admit(c) PROVE TokenInv'
  <2>1. pc[c] = "admit" /\ pc' = [pc EXCEPT ![c] = "queued"]
    BY <1>3 DEF Admit, At, Goto
  <2>2. /\ nA' = admission + Unit("queued", AdmittedPlaces) - Unit("admit", AdmittedPlaces)
        /\ nW' = workers + Unit("queued", WorkingPlaces) - Unit("admit", WorkingPlaces)
    BY <2>1, <1>c
  <2>3. nA' = admission + 1 /\ nW' = workers
    BY <2>2, <1>0, Units
  <2> QED BY <2>3, <1>3, <1>g, <1>0 DEF Admit
<1>4. ASSUME NEW c \in Calls, AdmitCanceled(c) PROVE TokenInv'
  <2>1. pc[c] = "admit" /\ pc' = [pc EXCEPT ![c] = "done"]
    BY <1>4 DEF AdmitCanceled, At, Goto
  <2>2. /\ nA' = admission + Unit("done", AdmittedPlaces) - Unit("admit", AdmittedPlaces)
        /\ nW' = workers + Unit("done", WorkingPlaces) - Unit("admit", WorkingPlaces)
    BY <2>1, <1>c
  <2>3. nA' = admission /\ nW' = workers
    BY <2>2, <1>0, Units
  <2> QED BY <2>3, <1>4, <1>g, <1>0 DEF AdmitCanceled
<1>5. ASSUME NEW c \in Calls, Refuse(c) PROVE TokenInv'
  <2>1. pc[c] = "admit" /\ pc' = [pc EXCEPT ![c] = "done"]
    BY <1>5 DEF Refuse, At, Goto
  <2>2. /\ nA' = admission + Unit("done", AdmittedPlaces) - Unit("admit", AdmittedPlaces)
        /\ nW' = workers + Unit("done", WorkingPlaces) - Unit("admit", WorkingPlaces)
    BY <2>1, <1>c
  <2>3. nA' = admission /\ nW' = workers
    BY <2>2, <1>0, Units
  <2> QED BY <2>3, <1>5, <1>g, <1>0 DEF Refuse
<1>6. ASSUME NEW c \in Calls, Grant(c) PROVE TokenInv'
  <2>1. pc[c] = "queued" /\ pc' = [pc EXCEPT ![c] = "granted"]
    BY <1>6 DEF Grant, At, Goto
  <2>2. /\ nA' = admission + Unit("granted", AdmittedPlaces) - Unit("queued", AdmittedPlaces)
        /\ nW' = workers + Unit("granted", WorkingPlaces) - Unit("queued", WorkingPlaces)
    BY <2>1, <1>c
  <2>3. nA' = admission /\ nW' = workers + 1
    BY <2>2, <1>0, Units
  <2> QED BY <2>3, <1>6, <1>g, <1>0 DEF Grant
<1>7. ASSUME NEW c \in Calls, MarkBusy(c) PROVE TokenInv'
  <2>1. pc[c] = "granted" /\ pc' = [pc EXCEPT ![c] = "held"]
    BY <1>7 DEF MarkBusy, At, Goto
  <2>2. /\ nA' = admission + Unit("held", AdmittedPlaces) - Unit("granted", AdmittedPlaces)
        /\ nW' = workers + Unit("held", WorkingPlaces) - Unit("granted", WorkingPlaces)
    BY <2>1, <1>c
  <2>3. nA' = admission /\ nW' = workers
    BY <2>2, <1>0, Units
  <2> QED BY <2>3, <1>7, <1>g, <1>0 DEF MarkBusy
<1>8. ASSUME NEW c \in Calls, WaitCanceled(c) PROVE TokenInv'
  <2>1. pc[c] = "queued" /\ pc' = [pc EXCEPT ![c] = "leave"]
    BY <1>8 DEF WaitCanceled, At, Goto
  <2>2. /\ nA' = admission + Unit("leave", AdmittedPlaces) - Unit("queued", AdmittedPlaces)
        /\ nW' = workers + Unit("leave", WorkingPlaces) - Unit("queued", WorkingPlaces)
    BY <2>1, <1>c
  <2>3. nA' = admission /\ nW' = workers
    BY <2>2, <1>0, Units
  <2> QED BY <2>3, <1>8, <1>g, <1>0 DEF WaitCanceled
<1>9. ASSUME NEW c \in Calls, Finish(c) PROVE TokenInv'
  <2>1. pc[c] = "held" /\ pc' = [pc EXCEPT ![c] = "unbusy"]
    BY <1>9 DEF Finish, At, Goto
  <2>2. /\ nA' = admission + Unit("unbusy", AdmittedPlaces) - Unit("held", AdmittedPlaces)
        /\ nW' = workers + Unit("unbusy", WorkingPlaces) - Unit("held", WorkingPlaces)
    BY <2>1, <1>c
  <2>3. nA' = admission /\ nW' = workers
    BY <2>2, <1>0, Units
  <2> QED BY <2>3, <1>9, <1>g, <1>0 DEF Finish
<1>10. ASSUME NEW c \in Calls, MarkIdle(c) PROVE TokenInv'
  <2>1. pc[c] = "unbusy" /\ pc' = [pc EXCEPT ![c] = "drop"]
    BY <1>10 DEF MarkIdle, At, Goto
  <2>2. /\ nA' = admission + Unit("drop", AdmittedPlaces) - Unit("unbusy", AdmittedPlaces)
        /\ nW' = workers + Unit("drop", WorkingPlaces) - Unit("unbusy", WorkingPlaces)
    BY <2>1, <1>c
  <2>3. nA' = admission /\ nW' = workers
    BY <2>2, <1>0, Units
  <2> QED BY <2>3, <1>10, <1>g, <1>0 DEF MarkIdle
<1>11. ASSUME NEW c \in Calls, DropWorker(c) PROVE TokenInv'
  <2>1. pc[c] = "drop" /\ pc' = [pc EXCEPT ![c] = "leave"]
    BY <1>11 DEF DropWorker, At, Goto
  <2>2. /\ nA' = admission + Unit("leave", AdmittedPlaces) - Unit("drop", AdmittedPlaces)
        /\ nW' = workers + Unit("leave", WorkingPlaces) - Unit("drop", WorkingPlaces)
    BY <2>1, <1>c
  <2>3. nA' = admission /\ nW' = workers - 1
    BY <2>2, <1>0, Units
  <2> QED BY <2>3, <1>11, <1>g, <1>0 DEF DropWorker
<1>12. ASSUME NEW c \in Calls, Leave(c) PROVE TokenInv'
  <2>1. pc[c] = "leave" /\ pc' = [pc EXCEPT ![c] = "done"]
    BY <1>12 DEF Leave, At, Goto
  <2>2. /\ nA' = admission + Unit("done", AdmittedPlaces) - Unit("leave", AdmittedPlaces)
        /\ nW' = workers + Unit("done", WorkingPlaces) - Unit("leave", WorkingPlaces)
    BY <2>1, <1>c
  <2>3. nA' = admission - 1 /\ nW' = workers
    BY <2>2, <1>0, Units
  <2> QED BY <2>3, <1>12, <1>g, <1>0 DEF Leave
<1>13. ASSUME NEW c \in Calls,
             \/ ReadAdmission(c) \/ ReadWorkers(c) \/ SetDepth(c)
             \/ \E why \in {"canceled", "expired"} : ContextEnds(c, why)
       PROVE  TokenInv'
  BY <1>13, <1>u DEF ReadAdmission, ReadWorkers, SetDepth, ContextEnds
<1> QED
  BY <1>1, <1>2, <1>3, <1>4, <1>5, <1>6, <1>7, <1>8, <1>9, <1>10, <1>11, <1>12, <1>13
     DEF Next, Advance, Terminated

\* Without a limit a call goes straight from the limiter's door to its end.
LEMMA BypassStep == TypeOK /\ BypassInv /\ [Next]_vars => BypassInv'
<1> SUFFICES ASSUME TypeOK, BypassInv, [Next]_vars, Unlimited PROVE BypassInv'
  BY DEF BypassInv, Unlimited
<1> USE DEF TypeOK, BypassInv, At, Goto, chans, gauges, observing
<1>1. CASE UNCHANGED vars
  BY <1>1 DEF vars
<1>2. ASSUME NEW c \in Calls, Start(c) \/ Admit(c) \/ Finish(c) PROVE BypassInv'
  BY <1>2 DEF Start, Admit, Finish
<1>3. ASSUME NEW c \in Calls, NEW why, ContextEnds(c, why) PROVE BypassInv'
  BY <1>3 DEF ContextEnds
<1>4. ASSUME NEW c \in Calls, Advance(c) PROVE Admit(c)
  BY <1>4 DEF Advance, Admit, AdmitCanceled, Refuse, Grant, MarkBusy, WaitCanceled,
              MarkIdle, DropWorker, Leave, ReadAdmission, ReadWorkers, SetDepth
<1> QED BY <1>1, <1>2, <1>3, <1>4 DEF Next, Terminated

\* The busy gauge follows the calls between WorkerBusy(1) and WorkerBusy(-1).
LEMMA BusyStep == TypeOK /\ BusyInv /\ [Next]_vars => BusyInv'
<1> SUFFICES ASSUME TypeOK, BusyInv, [Next]_vars, ~Unlimited PROVE BusyInv'
  BY DEF BusyInv, Unlimited
<1> DEFINE nB == Cardinality(BusyHolders)
<1> USE DEF chans, gauges, observing
<1>0. /\ pc \in [Calls -> PC] /\ nB \in Nat /\ Metered \in BOOLEAN
      /\ busyGauge = IF Metered THEN nB ELSE 0
  BY HolderCounts, LimiterAssumption DEF TypeOK, BusyInv, LimiterAssumption
<1>c. ASSUME NEW c \in Calls, NEW p, NEW q, pc[c] = p, pc' = [pc EXCEPT ![c] = q]
      PROVE  nB' = nB + Unit(q, BusyPlaces) - Unit(p, BusyPlaces)
  BY <1>c, <1>0, CountStep
<1>u. ASSUME UNCHANGED <<pc, busyGauge>> PROVE BusyInv'
  BY <1>u, <1>0 DEF BusyInv, BusyHolders
<1>g. ASSUME busyGauge' = IF Metered THEN nB' ELSE 0 PROVE BusyInv'
  BY <1>g DEF BusyInv
<1> HIDE DEF nB
<1>1. CASE UNCHANGED vars
  BY <1>1, <1>u DEF vars
<1>2. ASSUME NEW c \in Calls, Start(c) PROVE BusyInv'
  <2>1. pc[c] = "idle" /\ pc' = [pc EXCEPT ![c] = "admit"]
    BY <1>2 DEF Start, At, Goto
  <2>2. nB' = nB + Unit("admit", BusyPlaces) - Unit("idle", BusyPlaces)
    BY <2>1, <1>c
  <2>3. nB' = nB
    BY <2>2, <1>0, Units
  <2> QED BY <2>3, <1>2, <1>g, <1>0 DEF Start
<1>3. ASSUME NEW c \in Calls, Admit(c) PROVE BusyInv'
  <2>1. pc[c] = "admit" /\ pc' = [pc EXCEPT ![c] = "queued"]
    BY <1>3 DEF Admit, At, Goto
  <2>2. nB' = nB + Unit("queued", BusyPlaces) - Unit("admit", BusyPlaces)
    BY <2>1, <1>c
  <2>3. nB' = nB
    BY <2>2, <1>0, Units
  <2> QED BY <2>3, <1>3, <1>g, <1>0 DEF Admit
<1>4. ASSUME NEW c \in Calls, AdmitCanceled(c) PROVE BusyInv'
  <2>1. pc[c] = "admit" /\ pc' = [pc EXCEPT ![c] = "done"]
    BY <1>4 DEF AdmitCanceled, At, Goto
  <2>2. nB' = nB + Unit("done", BusyPlaces) - Unit("admit", BusyPlaces)
    BY <2>1, <1>c
  <2>3. nB' = nB
    BY <2>2, <1>0, Units
  <2> QED BY <2>3, <1>4, <1>g, <1>0 DEF AdmitCanceled
<1>5. ASSUME NEW c \in Calls, Refuse(c) PROVE BusyInv'
  <2>1. pc[c] = "admit" /\ pc' = [pc EXCEPT ![c] = "done"]
    BY <1>5 DEF Refuse, At, Goto
  <2>2. nB' = nB + Unit("done", BusyPlaces) - Unit("admit", BusyPlaces)
    BY <2>1, <1>c
  <2>3. nB' = nB
    BY <2>2, <1>0, Units
  <2> QED BY <2>3, <1>5, <1>g, <1>0 DEF Refuse
<1>6. ASSUME NEW c \in Calls, Grant(c) PROVE BusyInv'
  <2>1. pc[c] = "queued" /\ pc' = [pc EXCEPT ![c] = "granted"]
    BY <1>6 DEF Grant, At, Goto
  <2>2. nB' = nB + Unit("granted", BusyPlaces) - Unit("queued", BusyPlaces)
    BY <2>1, <1>c
  <2>3. nB' = nB
    BY <2>2, <1>0, Units
  <2> QED BY <2>3, <1>6, <1>g, <1>0 DEF Grant
<1>7. ASSUME NEW c \in Calls, WaitCanceled(c) PROVE BusyInv'
  <2>1. pc[c] = "queued" /\ pc' = [pc EXCEPT ![c] = "leave"]
    BY <1>7 DEF WaitCanceled, At, Goto
  <2>2. nB' = nB + Unit("leave", BusyPlaces) - Unit("queued", BusyPlaces)
    BY <2>1, <1>c
  <2>3. nB' = nB
    BY <2>2, <1>0, Units
  <2> QED BY <2>3, <1>7, <1>g, <1>0 DEF WaitCanceled
<1>8. ASSUME NEW c \in Calls, DropWorker(c) PROVE BusyInv'
  <2>1. pc[c] = "drop" /\ pc' = [pc EXCEPT ![c] = "leave"]
    BY <1>8 DEF DropWorker, At, Goto
  <2>2. nB' = nB + Unit("leave", BusyPlaces) - Unit("drop", BusyPlaces)
    BY <2>1, <1>c
  <2>3. nB' = nB
    BY <2>2, <1>0, Units
  <2> QED BY <2>3, <1>8, <1>g, <1>0 DEF DropWorker
<1>9. ASSUME NEW c \in Calls, Leave(c) PROVE BusyInv'
  <2>1. pc[c] = "leave" /\ pc' = [pc EXCEPT ![c] = "done"]
    BY <1>9 DEF Leave, At, Goto
  <2>2. nB' = nB + Unit("done", BusyPlaces) - Unit("leave", BusyPlaces)
    BY <2>1, <1>c
  <2>3. nB' = nB
    BY <2>2, <1>0, Units
  <2> QED BY <2>3, <1>9, <1>g, <1>0 DEF Leave
<1>10. ASSUME NEW c \in Calls, Finish(c) PROVE BusyInv'
  <2>1. pc[c] = "held" /\ pc' = [pc EXCEPT ![c] = "unbusy"]
    BY <1>10 DEF Finish, At, Goto
  <2>2. nB' = nB + Unit("unbusy", BusyPlaces) - Unit("held", BusyPlaces)
    BY <2>1, <1>c
  <2>3. nB' = nB
    BY <2>2, <1>0, Units
  <2> QED BY <2>3, <1>10, <1>g, <1>0 DEF Finish
<1>11. ASSUME NEW c \in Calls, MarkBusy(c) PROVE BusyInv'
  <2>1. pc[c] = "granted" /\ pc' = [pc EXCEPT ![c] = "held"]
    BY <1>11 DEF MarkBusy, At, Goto
  <2>2. nB' = nB + Unit("held", BusyPlaces) - Unit("granted", BusyPlaces)
    BY <2>1, <1>c
  <2>3. nB' = nB + 1
    BY <2>2, <1>0, Units
  <2> QED BY <2>3, <1>11, <1>g, <1>0 DEF MarkBusy
<1>12. ASSUME NEW c \in Calls, MarkIdle(c) PROVE BusyInv'
  <2>1. pc[c] = "unbusy" /\ pc' = [pc EXCEPT ![c] = "drop"]
    BY <1>12 DEF MarkIdle, At, Goto
  <2>2. nB' = nB + Unit("drop", BusyPlaces) - Unit("unbusy", BusyPlaces)
    BY <2>1, <1>c
  <2>3. nB' = nB - 1
    BY <2>2, <1>0, Units
  <2> QED BY <2>3, <1>12, <1>g, <1>0 DEF MarkIdle
<1>13. ASSUME NEW c \in Calls,
             \/ ReadAdmission(c) \/ ReadWorkers(c) \/ SetDepth(c)
             \/ \E why \in {"canceled", "expired"} : ContextEnds(c, why)
       PROVE  BusyInv'
  BY <1>13, <1>u DEF ReadAdmission, ReadWorkers, SetDepth, ContextEnds
<1> QED
  BY <1>1, <1>2, <1>3, <1>4, <1>5, <1>6, <1>7, <1>8, <1>9, <1>10, <1>11, <1>12, <1>13
     DEF Next, Advance, Terminated

\* A depth computed from two lengths in range is in range.
LEMMA DepthInRange ==
  ASSUME NEW a \in Int, NEW w \in Nat, NEW n \in Int, a >= 0
  PROVE  /\ Depth(a, w) \in Int
         /\ Depth(a, w) >= 0
         /\ a <= n => Depth(a, w) <= n
BY DEF Depth

\* Values on their way to the gauge stay in range.
LEMMA GaugeStep == TypeOK /\ TokenInv /\ GaugeInv /\ [Next]_vars => GaugeInv'
<1> SUFFICES ASSUME TypeOK, TokenInv, GaugeInv, [Next]_vars PROVE GaugeInv'
  OBVIOUS
<1> USE DEF chans, gauges, observing
<1>0. /\ seen \in [Calls -> Int] /\ admission \in Nat /\ workers \in Nat
      /\ AdmissionCap \in Int
      /\ ~Unlimited => admission <= AdmissionCap /\ 0 <= AdmissionCap
  BY Capacities DEF TypeOK, TokenInv
<1>u. ASSUME UNCHANGED <<queueGauge, seen>> PROVE GaugeInv'
  BY <1>u DEF GaugeInv, Unlimited, AdmissionCap
<1>s. ASSUME NEW c \in Calls, NEW v \in Int, v >= 0, ~Unlimited => v <= AdmissionCap,
             seen' = [seen EXCEPT ![c] = v], UNCHANGED queueGauge
      PROVE  GaugeInv'
  BY <1>s, <1>0 DEF GaugeInv, Unlimited, AdmissionCap
<1>1. CASE UNCHANGED vars
  BY <1>1, <1>u DEF vars
<1>2. ASSUME NEW c \in Calls,
             \/ Start(c) \/ Admit(c) \/ AdmitCanceled(c) \/ Refuse(c)
             \/ Grant(c) \/ MarkBusy(c) \/ WaitCanceled(c) \/ Finish(c)
             \/ MarkIdle(c) \/ DropWorker(c) \/ Leave(c)
             \/ \E why \in {"canceled", "expired"} : ContextEnds(c, why)
      PROVE  GaugeInv'
  BY <1>2, <1>u DEF Start, Admit, AdmitCanceled, Refuse, Grant, MarkBusy,
     WaitCanceled, Finish, MarkIdle, DropWorker, Leave, ContextEnds, BeginObserve
<1>3. ASSUME NEW c \in Calls, ReadAdmission(c) PROVE GaugeInv'
  <2>1. admission \in Int /\ admission >= 0 /\ (~Unlimited => admission <= AdmissionCap)
    BY <1>0
  <2>2. seen' = [seen EXCEPT ![c] = admission] /\ UNCHANGED queueGauge
    BY <1>3 DEF ReadAdmission
  <2> QED BY <2>1, <2>2, <1>s
<1>4. ASSUME NEW c \in Calls, ReadWorkers(c) PROVE GaugeInv'
  <2>1. seen[c] \in Int /\ seen[c] >= 0 /\ (~Unlimited => seen[c] <= AdmissionCap)
    BY <1>0 DEF GaugeInv
  <2> QED BY <2>1, <1>4, <1>s, <1>0, DepthInRange DEF ReadWorkers
<1>5. ASSUME NEW c \in Calls, SetDepth(c) PROVE GaugeInv'
  BY <1>5, <1>0 DEF SetDepth, GaugeInv, Unlimited, AdmissionCap
<1> QED
  BY <1>1, <1>2, <1>3, <1>4, <1>5 DEF Next, Advance, Terminated

-----------------------------------------------------------------------------
\* The invariant is inductive.
THEOREM Inductive == Spec => []IInv
<1>1. IInv /\ [Next]_vars => IInv'
  BY TypeStep, TokenStep, BypassStep, BusyStep, GaugeStep DEF IInv
<1> QED BY InitInv, <1>1, PTL DEF Spec

\* Every reachable state of the limiter has its variables in their types.
THEOREM Typing == Spec => []TypeOK
<1>1. IInv => TypeOK
  BY DEF IInv
<1> QED BY <1>1, Inductive, PTL

\* Each token belongs to one call that will take it back: neither channel can
\* leak capacity, and a deferred release never finds its channel empty.
THEOREM TokenConservation == Spec => []TokensMatch
<1>1. IInv => TokensMatch
  BY DEF IInv, TokenInv, TokensMatch
<1> QED BY <1>1, Inductive, PTL

\* At most Workers calls hold a worker slot.
THEOREM BoundedParallelism == Spec => []AtMostWorkersConvert
<1>1. IInv => AtMostWorkersConvert
  BY DEF IInv, TokenInv, AtMostWorkersConvert
<1> QED BY <1>1, Inductive, PTL

\* bi_worker_busy lies between 0 and the worker tokens taken.
THEOREM BusyGaugeSound == Spec => []BusyNeverAboveTokens
<1>1. IInv => BusyNeverAboveTokens
  <2>1. CASE Unlimited
    BY <2>1 DEF IInv, BypassInv, BusyNeverAboveTokens
  <2>2. CASE ~Unlimited
    BY <2>2, HolderCounts DEF IInv, BusyInv, TokenInv, BusyNeverAboveTokens
  <2> QED BY <2>1, <2>2
<1> QED BY <1>1, Inductive, PTL

\* bi_queue_depth lies between 0 and the admission capacity, though the two
\* lengths it is computed from are read at different times.
THEOREM QueueGaugeSound == Spec => []QueueGaugeInRange
<1>1. IInv => QueueGaugeInRange
  BY DEF IInv, GaugeInv, QueueGaugeInRange
<1> QED BY <1>1, Inductive, PTL

\* A request is refused only while Workers + QueueDepth others are admitted.
THEOREM RefusalJustified == Spec => RefusedOnlyWhenFull
<1> DEFINE Refused(c) == err[c] # "queue-full" /\ err'[c] = "queue-full"
           Full(c) == Cardinality(AdmissionHolders \ {c}) =
                        Workers + (IF QueueDepth < 0 THEN 0 ELSE QueueDepth)
<1>1. ASSUME IInv, [Next]_vars, NEW c \in Calls, Refused(c) PROVE Full(c)
  <2>1. Refuse(c)
    <3> USE <1>1 DEF IInv, TypeOK, CtxState, chans, gauges, observing
    <3>1. CASE UNCHANGED vars
      BY <3>1 DEF vars
    <3>2. ASSUME NEW d \in Calls, AdmitCanceled(d) \/ WaitCanceled(d) PROVE FALSE
      BY <3>2 DEF AdmitCanceled, WaitCanceled
    <3>3. ASSUME NEW d \in Calls, Refuse(d) PROVE d = c
      BY <3>3 DEF Refuse
    <3>4. ASSUME NEW d \in Calls,
                 \/ Start(d) \/ Admit(d) \/ Grant(d) \/ MarkBusy(d)
                 \/ Finish(d) \/ MarkIdle(d) \/ DropWorker(d) \/ Leave(d)
                 \/ ReadAdmission(d) \/ ReadWorkers(d) \/ SetDepth(d)
                 \/ \E why \in {"canceled", "expired"} : ContextEnds(d, why)
          PROVE  FALSE
      BY <3>4 DEF Start, Admit, Grant, MarkBusy, Finish, MarkIdle, DropWorker,
                  Leave, ReadAdmission, ReadWorkers, SetDepth, ContextEnds
    <3> QED BY <3>1, <3>2, <3>3, <3>4 DEF Next, Advance, Terminated
  <2>2. AdmissionHolders \ {c} = AdmissionHolders
    BY <2>1 DEF Refuse, At, AdmissionHolders
  <2>3. admission = Cardinality(AdmissionHolders) /\ admission <= AdmissionCap
        /\ admission >= AdmissionCap
    BY <1>1, <2>1 DEF IInv, TokenInv, Refuse
  <2>4. Cardinality(AdmissionHolders) = AdmissionCap
    BY <2>3, Capacities, HolderCounts
  <2> QED
    BY <2>2, <2>4 DEF AdmissionCap
<1>2. IInv /\ [Next]_vars => [\A c \in Calls : Refused(c) => Full(c)]_vars
  BY <1>1
<1> QED BY <1>2, Inductive, PTL DEF Spec, RefusedOnlyWhenFull
=============================================================================
