----------------------------- MODULE ReadyzProofs ------------------------------
(***************************************************************************)
(* Theorems about module Readyz, for every number of requests.  Everything  *)
(* rests on the flight: whoever runs the probe is its leader, so probes are *)
(* stored in the order of their numbers and each cleans up after itself.    *)
(* The last theorem says what HealthyMeansReady leaves true.                *)
(***************************************************************************)
EXTENDS Readyz, TLAPS

\* Whoever is inside the shared function leads the flight.
FlightInv == \A r \in Requests : r \in Leading => flight = r

\* Which files exist at each place of a leader.
FileInv ==
  \A r \in Requests :
    /\ temp[r] => pc[r] \in {"run", "sweep"}
    /\ pdf[r] => pc[r] = "sweep" /\ verdict[r] = "nil"

\* The leader's probe is the newest; nothing shown comes from later than it, and
\* nobody is given a verdict older than the one that was cached at the look.
NumberInv ==
  /\ cache.probe <= probes
  /\ \A r \in Requests :
       /\ r \in Leading => source[r] = probes
       /\ seen[r] <= probes
       /\ pc[r] \in {"respond", "done"} => seen[r] <= source[r]

IInv == TypeOK /\ FlightInv /\ FileInv /\ NumberInv

\* Setting one flag leaves a function of flags.
LEMMA SetFlag ==
  ASSUME NEW f \in [Requests -> BOOLEAN], NEW r \in Requests, NEW b \in BOOLEAN
  PROVE  Set(f, r, b) \in [Requests -> BOOLEAN]
BY Zenon DEF Set

\* The initial states satisfy the invariant.
LEMMA InitInv == Init => IInv
<1> SUFFICES ASSUME Init PROVE IInv
  OBVIOUS
<1>1. TypeOK
  BY ReadyzAssumption DEF ReadyzAssumption, Init, TypeOK, Errs
<1>2. FlightInv /\ FileInv /\ NumberInv
  BY DEF Init, FlightInv, FileInv, NumberInv, Leading
<1> QED BY <1>1, <1>2 DEF IInv

\* A request that is not the leader yet: it looks, and joins.
LEMMA ArrivalKeeps ==
  ASSUME IInv, NEW r \in Requests, Look(r) \/ Join(r) \/ HangUp(r)
  PROVE  IInv'
<1> USE ReadyzAssumption DEF ReadyzAssumption, IInv, Goto, Set
<1>1. CASE Look(r)
  BY <1>1 DEF Look, TypeOK, Errs, FlightInv, FileInv, NumberInv, Leading
<1>2. CASE Join(r) /\ flight = NoOne
  <2>1. TypeOK'
    BY <1>2 DEF Join, TypeOK, Errs
  <2>2. FlightInv' /\ FileInv' /\ NumberInv'
    BY <1>2 DEF Join, TypeOK, FlightInv, FileInv, NumberInv, Leading
  <2> QED BY <2>1, <2>2
<1>3. CASE Join(r) /\ flight # NoOne
  BY <1>3 DEF Join, TypeOK, Errs, FlightInv, FileInv, NumberInv, Leading
<1>4. CASE HangUp(r)
  BY <1>4 DEF HangUp, TypeOK, Errs, FlightInv, FileInv, NumberInv, Leading
<1> QED BY <1>1, <1>2, <1>3, <1>4

\* The leader's way through the probe.
LEMMA ProbeKeeps ==
  ASSUME IInv, NEW r \in Requests, Probe(r) \/ Run(r) \/ Sweep(r) \/ Store(r)
  PROVE  IInv'
<1> USE DEF IInv, Goto, Set
<1>1. CASE Probe(r)
  <2>1. pc'[r] \in {"run", "sweep"} /\ verdict'[r] \in Errs /\ ~pdf[r]
    BY <1>1 DEF Probe, TypeOK, Errs, FileInv
  <2>2. TypeOK'
    <3>1. verdict' \in [Requests -> Errs] /\ pc' = Set(pc, r, pc'[r])
      BY <1>1 DEF Probe, TypeOK, Errs
    <3>2. temp' \in [Requests -> BOOLEAN]
      <4>1. temp \in [Requests -> BOOLEAN]
        BY DEF TypeOK
      <4>2. \E b \in BOOLEAN : temp' = [temp EXCEPT ![r] = b]
        BY <1>1 DEF Probe
      <4> QED BY <4>1, <4>2, SetFlag DEF Set
    <3> QED BY <1>1, <2>1, <3>1, <3>2 DEF Probe, TypeOK
  <2>3. FlightInv' /\ NumberInv'
    BY <1>1 DEF Probe, TypeOK, FlightInv, NumberInv, Leading
  <2>4. FileInv'
    BY <1>1, <2>1 DEF Probe, TypeOK, FileInv
  <2> QED BY <2>2, <2>3, <2>4
<1>2. CASE Run(r)
  <2>1. TypeOK'
    <3>1. verdict' \in [Requests -> Errs]
      BY <1>2 DEF Run, TypeOK, Errs
    <3>2. pdf' \in [Requests -> BOOLEAN]
      <4>1. pdf \in [Requests -> BOOLEAN]
        BY DEF TypeOK
      <4>2. pdf' = pdf \/ pdf' = [pdf EXCEPT ![r] = TRUE]
        BY <1>2 DEF Run
      <4> QED BY <4>1, <4>2, SetFlag DEF Set
    <3> QED BY <1>2, <3>1, <3>2 DEF Run, TypeOK
  <2>2. FlightInv' /\ NumberInv'
    BY <1>2 DEF Run, TypeOK, FlightInv, NumberInv, Leading
  <2>3. FileInv'
    BY <1>2 DEF Run, TypeOK, FileInv
  <2> QED BY <2>1, <2>2, <2>3
<1>3. CASE Sweep(r)
  BY <1>3 DEF Sweep, TypeOK, Errs, FlightInv, FileInv, NumberInv, Leading
<1>4. CASE Store(r)
  BY <1>4 DEF Store, Stored, TypeOK, Errs, FlightInv, FileInv, NumberInv, Leading
<1> QED BY <1>1, <1>2, <1>3, <1>4

\* The end of the flight hands the newest verdict to its waiters.
LEMMA EndKeeps ==
  ASSUME IInv, NEW r \in Requests, Finish(r) \/ Respond(r)
  PROVE  IInv'
<1> USE DEF IInv, Goto, Set
<1>1. CASE Finish(r)
  <2>1. \A q \in Leading : q = r
    BY <1>1 DEF Finish, FlightInv, Leading
  <2>2. TypeOK'
    BY <1>1 DEF Finish, Release, TypeOK
  <2>3. FlightInv' /\ FileInv'
    BY <1>1, <2>1 DEF Finish, Release, TypeOK, FlightInv, FileInv, Leading
  <2>4. NumberInv'
    BY <1>1, <2>1 DEF Finish, Release, TypeOK, NumberInv, Leading
  <2> QED BY <2>2, <2>3, <2>4
<1>2. CASE Respond(r)
  BY <1>2 DEF Respond, TypeOK, Errs, FlightInv, FileInv, NumberInv, Leading
<1> QED BY <1>1, <1>2

\* The invariant is inductive.
THEOREM Inductive == Spec => []IInv
<1>1. IInv /\ [Next]_vars => IInv'
  <2> SUFFICES ASSUME IInv, [Next]_vars PROVE IInv'
    OBVIOUS
  <2>1. CASE \E r \in Requests : Look(r) \/ Step(r) \/ Run(r) \/ HangUp(r)
    BY <2>1, ArrivalKeeps, ProbeKeeps, EndKeeps DEF Step
  <2>2. CASE Age
    BY <2>2 DEF Age, IInv, TypeOK, FlightInv, FileInv, NumberInv, Leading
  <2>3. CASE UNCHANGED vars
    BY <2>3 DEF vars, IInv, TypeOK, FlightInv, FileInv, NumberInv, Leading
  <2> QED BY <2>1, <2>2, <2>3 DEF Next, AllAnswered
<1> QED BY InitInv, <1>1, PTL DEF Spec

\* Every variable of the readiness check keeps its type.
THEOREM Typing == Spec => []TypeOK
<1>1. IInv => TypeOK
  BY DEF IInv
<1> QED BY <1>1, Inductive, PTL

\* However many requests miss the cache, one probe converts at a time.
THEOREM HerdIsCollapsed == Spec => []OneProbeInFlight
<1>1. IInv => OneProbeInFlight
  BY DEF IInv, FlightInv, OneProbeInFlight, Leading
<1> QED BY <1>1, Inductive, PTL

\* Outside the shared function no probe file is left, whatever failed inside.
THEOREM ProbeCleansUp == Spec => []ProbeLeavesNoFile
<1>1. IInv => ProbeLeavesNoFile
  BY DEF IInv, FileInv, ProbeLeavesNoFile, Leading
<1> QED BY <1>1, Inductive, PTL

\* Neither the cache nor a request that has seen it goes back to an older probe.
THEOREM VerdictsAdvance == Spec => VerdictsNeverGoBack
<1> DEFINE Forward == /\ cache.probe <= cache'.probe
                      /\ \A r \in Requests : answer[r] # answer'[r] => seen[r] <= source[r]
<1>1. IInv /\ [Next]_vars => [Forward]_vars
  <2> SUFFICES ASSUME IInv, Next PROVE Forward
    OBVIOUS
  <2> USE DEF IInv, Goto, Set
  <2>1. cache.probe <= cache'.probe
    <3>1. CASE \E r \in Requests : Store(r)
      BY <3>1 DEF Store, Stored, TypeOK, NumberInv, Leading
    <3>2. CASE Age
      BY <3>2 DEF Age, TypeOK
    <3>3. CASE UNCHANGED cache
      BY <3>3 DEF TypeOK
    <3> QED BY <3>1, <3>2, <3>3 DEF Next, AllAnswered, Step, vars, Look, Join, Probe,
         Run, Sweep, Finish, Respond, HangUp
  <2>2. ASSUME NEW q \in Requests, answer[q] # answer'[q]
        PROVE  seen[q] <= source[q]
    <3>1. pc[q] = "respond"
      BY <2>2 DEF Next, AllAnswered, Step, vars, Look, Join, Probe, Run, Sweep, Store,
         Finish, Respond, HangUp, Age, TypeOK
    <3> QED BY <3>1 DEF NumberInv
  <2> QED BY <2>1, <2>2
<1> QED BY <1>1, Inductive, PTL DEF Spec, VerdictsNeverGoBack

\* While nobody hangs up and nothing else fails, no error is on its way: neither
\* the cache, nor a probe that has run, nor an answer has one.
AllLive == \A r \in Requests : client[r] = "live"

CleanInv ==
  Healthy /\ AllLive =>
    /\ cache.err = "nil"
    /\ \A r \in Requests :
         /\ pc[r] \in {"sweep", "store", "finish", "respond"} => verdict[r] = "nil"
         /\ answer[r] # 503

\* A request before the flight, or in it up to the conversion.
LEMMA BeforeVerdictClean ==
  ASSUME TypeOK, CleanInv, NEW r \in Requests,
         Look(r) \/ Join(r) \/ Probe(r) \/ Run(r)
  PROVE  CleanInv'
<1> USE DEF Goto, Set, CleanInv, AllLive, TypeOK
<1>1. CASE Look(r)
  BY <1>1 DEF Look
<1>2. CASE Join(r)
  BY <1>2 DEF Join
<1>3. CASE Probe(r)
  BY <1>3 DEF Probe
<1>4. CASE Run(r)
  BY <1>4 DEF Run
<1> QED BY <1>1, <1>2, <1>3, <1>4

\* A verdict on its way to the cache, to the waiters and to the clients.
LEMMA AfterVerdictClean ==
  ASSUME TypeOK, CleanInv, NEW r \in Requests,
         Sweep(r) \/ Store(r) \/ Finish(r) \/ Respond(r) \/ HangUp(r)
  PROVE  CleanInv'
<1> USE DEF Goto, Set, CleanInv, AllLive, TypeOK
<1>1. CASE Sweep(r)
  BY <1>1 DEF Sweep
<1>2. CASE Store(r)
  BY <1>2 DEF Store, Stored
<1>3. CASE Finish(r)
  BY <1>3 DEF Finish, Release
<1>4. CASE Respond(r)
  BY <1>4 DEF Respond
<1>5. CASE HangUp(r)
  BY <1>5 DEF HangUp
<1> QED BY <1>1, <1>2, <1>3, <1>4, <1>5

\* What the run that expects a violation leaves open: on a healthy server a 503 is
\* always the work of a hang-up.  As long as no client has hung up, every request
\* answered reads 200, from the cache, as a leader or as a waiter.
THEOREM NotReadyOnlyAfterHangUp == Spec => [](AllLive => HealthyMeansReady)
<1>1. Init => CleanInv
  BY DEF Init, CleanInv
<1>2. TypeOK /\ CleanInv /\ [Next]_vars => CleanInv'
  <2> SUFFICES ASSUME TypeOK, CleanInv, [Next]_vars PROVE CleanInv'
    OBVIOUS
  <2>1. CASE \E r \in Requests : Look(r) \/ Step(r) \/ Run(r) \/ HangUp(r)
    BY <2>1, BeforeVerdictClean, AfterVerdictClean DEF Step
  <2>2. CASE Age
    BY <2>2 DEF Age, CleanInv, AllLive, TypeOK
  <2>3. CASE UNCHANGED vars
    BY <2>3 DEF vars, CleanInv, AllLive
  <2> QED BY <2>1, <2>2, <2>3 DEF Next, AllAnswered
<1>3. CleanInv => (AllLive => HealthyMeansReady)
  BY DEF CleanInv, AllLive, HealthyMeansReady
<1> QED BY <1>1, <1>2, <1>3, Typing, PTL DEF Spec
=============================================================================
