------------------------------- MODULE Readyz --------------------------------
(***************************************************************************)
(* GET /readyz (internal/server/handler_health.go): a verdict cached for    *)
(* ReadyzTTL, and on a miss one probe conversion of the embedded fixture,   *)
(* shared through singleflight by the requests that missed meanwhile.       *)
(*                                                                          *)
(* The leader's probe runs under the context of the leader's own request.   *)
(* Probes are numbered, so that properties can say which probe an answer    *)
(* comes from; a request leads at most one, which bounds the numbers.       *)
(***************************************************************************)
EXTENDS Integers, FiniteSets

CONSTANTS
  Requests,  \* requests for /readyz
  NoOne,     \* no flight in progress
  Healthy    \* temp files and conversions fail only for a canceled context

ASSUME ReadyzAssumption ==
  /\ NoOne \notin Requests
  /\ Healthy \in BOOLEAN

VARIABLES
  pc,      \* where each request is
  client,  \* r.Context() of each request
  temp,    \* the leader's bi-ready-*.docx exists
  pdf,     \* the probe's converted output exists
  verdict, \* the error each request is to answer with
  source,  \* the probe that verdict comes from
  flight,  \* the leader of the singleflight call in progress
  cache,   \* readyzC: age of last, lastErr, and the probe it comes from
  probes,  \* number of probes begun
  seen,    \* history: the cached probe when each request looked
  answer   \* status each request was answered with

vars == <<pc, client, temp, pdf, verdict, source, flight, cache, probes, seen, answer>>

-----------------------------------------------------------------------------
Set(f, x, v) == [f EXCEPT ![x] = v]
Goto(r, from, to) == pc[r] = from /\ pc' = Set(pc, r, to)

\* Requests inside the function that singleflight runs.
Leading == {r \in Requests : pc[r] \in {"probe", "run", "sweep", "store", "finish"}}

Init ==
  /\ pc = [r \in Requests |-> "idle"]
  /\ client = [r \in Requests |-> "live"]
  /\ temp = [r \in Requests |-> FALSE]
  /\ pdf = [r \in Requests |-> FALSE]
  /\ verdict = [r \in Requests |-> "none"]
  /\ source = [r \in Requests |-> 0]
  /\ flight = NoOne
  /\ cache = [age |-> "zero", err |-> "nil", probe |-> 0]
  /\ probes = 0
  /\ seen = [r \in Requests |-> 0]
  /\ answer = [r \in Requests |-> 0]

\* Under mu: a fresh verdict answers at once, anything else goes to the flight.
Look(r) ==
  /\ pc[r] = "idle"
  /\ seen' = Set(seen, r, cache.probe)
  /\ \/ /\ cache.age = "fresh"
        /\ pc' = Set(pc, r, "respond")
        /\ verdict' = Set(verdict, r, cache.err)
        /\ source' = Set(source, r, cache.probe)
     \/ /\ cache.age # "fresh"
        /\ pc' = Set(pc, r, "join")
        /\ UNCHANGED <<verdict, source>>
  /\ UNCHANGED <<client, temp, pdf, flight, cache, probes, answer>>

\* Fault: every cache miss probes for itself.
JoinAlone(r) ==
  /\ Goto(r, "join", "probe")
  /\ flight' = r
  /\ probes' = probes + 1
  /\ source' = Set(source, r, probes + 1)
  /\ UNCHANGED <<client, temp, pdf, verdict, cache, seen, answer>>

\* flight.Do: lead when nobody does, wait for the leader otherwise.
Join(r) ==
  /\ \/ /\ flight = NoOne
        /\ Goto(r, "join", "probe")
        /\ flight' = r
        /\ probes' = probes + 1
        /\ source' = Set(source, r, probes + 1)
     \/ /\ flight # NoOne
        /\ Goto(r, "join", "wait")
        /\ UNCHANGED <<flight, probes, source>>
  /\ UNCHANGED <<client, temp, pdf, verdict, cache, seen, answer>>

\* os.CreateTemp and Write; either may fail, Write with the file in place.
Probe(r) ==
  /\ \/ /\ Goto(r, "probe", "run")
        /\ temp' = Set(temp, r, TRUE)
        /\ UNCHANGED verdict
     \/ /\ ~Healthy
        /\ Goto(r, "probe", "sweep")
        /\ verdict' = Set(verdict, r, "error")
        /\ \E created \in BOOLEAN : temp' = Set(temp, r, created)
  /\ UNCHANGED <<client, pdf, source, flight, cache, probes, seen, answer>>

\* Conv.Run: an output file, a failure of the conversion, or the error of the
\* leader's own context.
Run(r) ==
  /\ Goto(r, "run", "sweep")
  /\ \/ /\ pdf' = Set(pdf, r, TRUE)
        /\ verdict' = Set(verdict, r, "nil")
     \/ /\ ~Healthy
        /\ verdict' = Set(verdict, r, "error")
        /\ UNCHANGED pdf
     \/ /\ client[r] = "gone"
        /\ verdict' = Set(verdict, r, "canceled")
        /\ UNCHANGED pdf
  /\ UNCHANGED <<client, temp, source, flight, cache, probes, seen, answer>>

\* Fault: the output is left behind when the leader's client has gone.
SweepUnlessGone(r) ==
  /\ Goto(r, "sweep", "store")
  /\ temp' = Set(temp, r, FALSE)
  /\ pdf' = IF client[r] = "live" THEN Set(pdf, r, FALSE) ELSE pdf
  /\ UNCHANGED <<client, verdict, source, flight, cache, probes, seen, answer>>

\* os.Remove of the output of a probe that succeeded, then the deferred one.
Sweep(r) ==
  /\ Goto(r, "sweep", "store")
  /\ temp' = Set(temp, r, FALSE)
  /\ pdf' = IF verdict[r] = "nil" THEN Set(pdf, r, FALSE) ELSE pdf
  /\ UNCHANGED <<client, verdict, source, flight, cache, probes, seen, answer>>

Stored(r) == [age |-> "fresh", err |-> verdict[r], probe |-> source[r]]

\* Under mu: last and lastErr.
Store(r) ==
  /\ Goto(r, "store", "finish")
  /\ cache' = Stored(r)
  /\ UNCHANGED <<client, temp, pdf, verdict, source, flight, probes, seen, answer>>

\* The flight ends: its waiters all get the leader's value.
Release(r) ==
  /\ flight' = NoOne
  /\ LET Given == {q \in Requests : pc[q] = "wait"} \cup {r}
     IN  /\ pc' = [q \in Requests |-> IF q \in Given THEN "respond" ELSE pc[q]]
         /\ verdict' = [q \in Requests |-> IF q \in Given THEN verdict[r] ELSE verdict[q]]
         /\ source' = [q \in Requests |-> IF q \in Given THEN source[r] ELSE source[q]]

\* Fault: the verdict is stored again after the flight ended, by each of its
\* requests for itself.
RespondStores(r) ==
  /\ Goto(r, "respond", "done")
  /\ answer' = Set(answer, r, IF verdict[r] = "nil" THEN 200 ELSE 503)
  /\ cache' = Stored(r)
  /\ UNCHANGED <<client, temp, pdf, verdict, source, flight, probes, seen>>

\* Fault: a leader whose client has gone does not end the flight.
FinishUnlessGone(r) ==
  /\ pc[r] = "finish"
  /\ client[r] = "live"
  /\ Release(r)
  /\ UNCHANGED <<client, temp, pdf, cache, probes, seen, answer>>

Finish(r) ==
  /\ pc[r] = "finish"
  /\ Release(r)
  /\ UNCHANGED <<client, temp, pdf, cache, probes, seen, answer>>

Respond(r) ==
  /\ Goto(r, "respond", "done")
  /\ answer' = Set(answer, r, IF verdict[r] = "nil" THEN 200 ELSE 503)
  /\ UNCHANGED <<client, temp, pdf, verdict, source, flight, cache, probes, seen>>

\* ReadyzTTL passes.
Age ==
  /\ cache.age = "fresh"
  /\ cache' = [cache EXCEPT !.age = "stale"]
  /\ UNCHANGED <<pc, client, temp, pdf, verdict, source, flight, probes, seen, answer>>

\* The client hangs up; net/http cancels r.Context(), which nothing reads once
\* the verdict is known.
HangUp(r) ==
  /\ pc[r] \notin {"idle", "respond", "done"}
  /\ client[r] = "live"
  /\ client' = Set(client, r, "gone")
  /\ UNCHANGED <<pc, temp, pdf, verdict, source, flight, cache, probes, seen, answer>>

-----------------------------------------------------------------------------
Step(r) == Join(r) \/ Probe(r) \/ Sweep(r) \/ Store(r) \/ Finish(r) \/ Respond(r)

AllAnswered ==
  /\ \A r \in Requests : pc[r] = "done"
  /\ UNCHANGED vars

Next ==
  \/ \E r \in Requests : Look(r) \/ Step(r) \/ Run(r) \/ HangUp(r)
  \/ Age
  \/ AllAnswered

Spec == Init /\ [][Next]_vars

\* Handlers run.  Conv.Run returns: SubprocessConverter's deadline ends it
\* (AnswersEveryCall of Subprocess).
FairSpec ==
  /\ Spec
  /\ \A r \in Requests : WF_vars(Step(r)) /\ WF_vars(Run(r))

-----------------------------------------------------------------------------
Errs == {"none", "nil", "error", "canceled"}

TypeOK ==
  /\ pc \in [Requests -> {"idle", "join", "wait", "probe", "run", "sweep",
                          "store", "finish", "respond", "done"}]
  /\ client \in [Requests -> {"live", "gone"}]
  /\ temp \in [Requests -> BOOLEAN]
  /\ pdf \in [Requests -> BOOLEAN]
  /\ verdict \in [Requests -> Errs]
  /\ source \in [Requests -> Nat]
  /\ flight \in Requests \cup {NoOne}
  /\ cache \in [age : {"zero", "fresh", "stale"}, err : Errs, probe : Nat]
  /\ probes \in Nat
  /\ seen \in [Requests -> Nat]
  /\ answer \in [Requests -> {0, 200, 503}]

\* "singleflight collapses concurrent cache-miss probes to one in-flight LO
\* conversion" (handler_health.go:46-47): never two at a time, though a request
\* may lead a new one with the verdict of the last still fresh.
OneProbeInFlight == \A q, r \in Leading : q = r

\* A probe leaves nothing on disk, whatever became of its client meanwhile.
ProbeLeavesNoFile ==
  \A r \in Requests \ Leading : ~temp[r] /\ ~pdf[r]

\* A later verdict is never replaced by an earlier one, neither in the cache nor
\* in what a request answers after it has seen the cache.
VerdictsNeverGoBack ==
  [][/\ cache.probe <= cache'.probe
     /\ \A r \in Requests : answer[r] # answer'[r] => seen[r] <= source[r]]_vars

\* A request that looked is answered, though its leader's client went away.
EveryRequestAnswered == \A r \in Requests : pc[r] = "join" ~> pc[r] = "done"

\* "200 on success, 503 otherwise" of a real conversion of the fixture
\* (docs/superpowers/specs/2026-04-28-bi-http-api-design.md:96): where nothing
\* but a hang-up makes a probe fail, a client that is still there reads 200.
HealthyMeansReady ==
  Healthy => \A r \in Requests : answer[r] = 503 => client[r] = "gone"
=============================================================================
