-------------------------- MODULE ConverterContract --------------------------
(***************************************************************************)
(* What a worker.Converter promises its caller: a call waits, converts       *)
(* together with a bounded number of others, and is answered once; a        *)
(* successful answer hands the caller one file, a failed one hands it       *)
(* nothing to clean up.  Both converters implement this specification:      *)
(* SubprocessConverter (Subprocess!Contract) and, with no bound asked of    *)
(* its conversions (Workers <= 0), worker.Pool (Pool!Contract).             *)
(***************************************************************************)
EXTENDS Integers, FiniteSets

CONSTANTS Calls, Workers

VARIABLES
  status, \* what the caller can tell of its call
  kept    \* the calls whose output file is on disk for the caller

vars == <<status, kept>>

Status == {"new", "waiting", "converting", "ok", "failed"}
Converting == {c \in Calls : status[c] = "converting"}
Move(c, from, to) == status[c] = from /\ status' = [status EXCEPT ![c] = to]

Init ==
  /\ status = [c \in Calls |-> "new"]
  /\ kept = {}

Submit(c) == Move(c, "new", "waiting") /\ UNCHANGED kept

\* Refused, canceled or out of time before a worker was free.
GiveUp(c) == Move(c, "waiting", "failed") /\ UNCHANGED kept

Begin(c) ==
  /\ Workers > 0 => Cardinality(Converting) < Workers
  /\ Move(c, "waiting", "converting")
  /\ UNCHANGED kept

Succeed(c) == Move(c, "converting", "ok") /\ kept' = kept \cup {c}
Fail(c) == Move(c, "converting", "failed") /\ UNCHANGED kept

\* The caller streams the file and removes it.
Deliver(c) ==
  /\ c \in kept
  /\ kept' = kept \ {c}
  /\ UNCHANGED status

Answer(c) == Succeed(c) \/ Fail(c)
Leave(c) == Begin(c) \/ GiveUp(c)

Next == \E c \in Calls : Submit(c) \/ Leave(c) \/ Answer(c) \/ Deliver(c)

Spec == Init /\ [][Next]_vars

FairSpec ==
  /\ Spec
  /\ \A c \in Calls : WF_vars(Leave(c)) /\ WF_vars(Answer(c)) /\ WF_vars(Deliver(c))
=============================================================================
