------------------------------- MODULE Server -------------------------------
(***************************************************************************)
(* The server process (`bi serve`): its start from the environment, its end *)
(* on a signal, and the children that derive their own set-up from the same *)
(* environment.  A request is here the files and the process it owns;       *)
(* modules Request and Subprocess are what it does with them.               *)
(***************************************************************************)
EXTENDS Integers, Sequences

CONSTANTS
  Requests, \* requests that clients may send
  Workers0  \* min(runtime.NumCPU(), 4)

ASSUME ServerAssumption == Workers0 \in 1..4

VARIABLES
  env,     \* the environment of the process, which does not change
  lokDir,  \* PlatformDefaults names a directory
  packs,   \* tessdata holds osd and the supported languages
  moved,   \* one of these two has changed since the server looked
  phase,   \* of the server process
  cfg,     \* what config.Load returned
  ocr,     \* OCRAvailable
  signal,  \* SIGTERM or SIGINT was sent
  stage,   \* of each request in the server
  ask,     \* whether each request wants OCR "always" or not ("auto", other formats)
  child,   \* the child process of each request
  failed,  \* the string of the child's failConvert
  files    \* files and directories of requests on the disk

disk == <<lokDir, packs, moved>>
setup == <<cfg, ocr>>
requests == <<stage, ask, child, failed, files>>
vars == <<env, disk, phase, setup, signal, requests>>

-----------------------------------------------------------------------------
\* A variable of the environment is the sequence of its values: none or one.
\* Numbers that are not positive stand for all that Atoi and ParseDuration, or
\* the checks after them, refuse; rest is the other variables of Load.
Environments ==
  [BI_WORKERS : {<<>>, <<0>>, <<2>>}, BI_QUEUE_DEPTH : {<<>>, <<0>>, <<1>>},
   BI_CONVERT_TIMEOUT : {<<>>, <<0>>}, rest : {"ok", "invalid"},
   BI_OCR_ENABLED : {<<>>, <<"no">>, <<"maybe">>}, LOK_PATH : {"", "/lok"},
   BI_OCR_TESSDATA : {<<>>, <<"">>, <<"/tess">>}, TESSDATA_PREFIX : {<<>>, <<"/tess">>}]

Or(variable, default) == IF variable = <<>> THEN default ELSE variable[1]

\* config.Load returns no error.
Valid(e) ==
  /\ Or(e.BI_WORKERS, 1) > 0 /\ Or(e.BI_QUEUE_DEPTH, 1) > 0 /\ Or(e.BI_CONVERT_TIMEOUT, 1) > 0
  /\ Or(e.BI_OCR_ENABLED, "no") = "no"
  /\ e.rest = "ok"

\* Fault: BI_QUEUE_DEPTH is read before BI_WORKERS sets the depth.
LoadQueueFirst(e) ==
  LET n == Or(e.BI_WORKERS, Workers0)
  IN  [Workers |-> n, QueueDepth |-> IF e.BI_WORKERS = <<>> THEN Or(e.BI_QUEUE_DEPTH, 0) ELSE 2 * n,
       ConvertTimeout |-> Or(e.BI_CONVERT_TIMEOUT, 120), LOKPath |-> e.LOK_PATH,
       OCREnabled |-> e.BI_OCR_ENABLED = <<>>,
       OCRTessdataPath |-> Or(e.BI_OCR_TESSDATA, Or(e.TESSDATA_PREFIX, ""))]

\* The number of workers is the base of the queue's default, and an empty
\* BI_OCR_TESSDATA hides TESSDATA_PREFIX.
Load(e) ==
  LET n == Or(e.BI_WORKERS, Workers0)
  IN  [Workers |-> n, QueueDepth |-> Or(e.BI_QUEUE_DEPTH, 2 * n),
       ConvertTimeout |-> Or(e.BI_CONVERT_TIMEOUT, 120), LOKPath |-> e.LOK_PATH,
       OCREnabled |-> e.BI_OCR_ENABLED = <<>>,
       OCRTessdataPath |-> Or(e.BI_OCR_TESSDATA, Or(e.TESSDATA_PREFIX, ""))]

NoConfig == [Workers |-> 0, QueueDepth |-> 0, ConvertTimeout |-> 0, LOKPath |-> "",
             OCREnabled |-> FALSE, OCRTessdataPath |-> ""]

\* ResolveLOKPath, as both commands call it: with the platform's directories.
Resolvable(c) == c.LOKPath # "" \/ lokDir
Resolved(c) == IF c.LOKPath # "" THEN c ELSE [c EXCEPT !.LOKPath = "/usr/lib"]

Init ==
  /\ env \in Environments
  /\ lokDir \in BOOLEAN
  /\ packs \in BOOLEAN
  /\ moved = FALSE
  /\ phase = "boot"
  /\ cfg = NoConfig
  /\ ocr = FALSE
  /\ signal = FALSE
  /\ stage = [r \in Requests |-> "none"]
  /\ ask = [r \in Requests |-> "auto"]
  /\ child = [r \in Requests |-> "none"]
  /\ failed = [r \in Requests |-> ""]
  /\ files = {}

-----------------------------------------------------------------------------
\* The whole of runServe up to ListenAndServe: os.Exit(1) on a bad environment,
\* without LibreOffice and, like a port that is taken, when listening fails.
Boot ==
  /\ phase = "boot"
  /\ \/ /\ phase' = "exited"
        /\ UNCHANGED setup
     \/ /\ Valid(env) /\ Resolvable(Load(env))
        /\ phase' = "serving"
        /\ cfg' = Resolved(Load(env))
        /\ ocr' = (cfg'.OCREnabled /\ cfg'.OCRTessdataPath # "" /\ packs)
  /\ UNCHANGED <<env, disk, signal, requests>>

\* Before NotifyContext a signal ends the process; a second one, as long as the
\* first is being handled, is swallowed.
Signal ==
  /\ phase # "exited"
  /\ ~signal
  /\ signal' = TRUE
  /\ phase' = IF phase = "boot" THEN "exited" ELSE phase
  /\ UNCHANGED <<env, disk, setup, requests>>

\* Fault: runServe waits until Shutdown has seen the last request.
ShutdownWaits ==
  /\ phase = "serving"
  /\ signal
  /\ \A r \in Requests : stage[r] \in {"none", "done"}
  /\ phase' = "closing"
  /\ UNCHANGED <<env, disk, setup, signal, requests>>

\* srv.Shutdown closes the listeners, and ListenAndServe returns: from here on
\* only the deferred calls of runServe keep the process alive.
Shutdown ==
  /\ phase = "serving"
  /\ signal
  /\ phase' = "closing"
  /\ UNCHANGED <<env, disk, setup, signal, requests>>

\* The end of main cuts off whatever the handlers still do.
Exit ==
  /\ phase = "closing"
  /\ phase' = "exited"
  /\ stage' = [r \in Requests |-> IF stage[r] \in {"none", "done"} THEN stage[r] ELSE "cut"]
  /\ UNCHANGED <<env, disk, setup, signal, ask, child, failed, files>>

\* Somebody installs or removes LibreOffice or language packs.
DiskChanges ==
  /\ ~moved
  /\ phase # "boot"
  /\ \/ packs' = ~packs /\ UNCHANGED lokDir
     \/ lokDir' = ~lokDir /\ UNCHANGED packs
  /\ moved' = TRUE
  /\ UNCHANGED <<env, phase, setup, signal, requests>>

-----------------------------------------------------------------------------
Running == phase \in {"serving", "closing"}
Step(r, from, to) == stage[r] = from /\ stage' = [stage EXCEPT ![r] = to]

\* convertMarkdown's refusal of ocr=always.
Refused(mode) == mode = "always" /\ ~ocr

Accept(r) ==
  /\ phase = "serving"
  /\ Step(r, "none", "staged")
  /\ \E mode \in {"auto", "always"} :
       ~Refused(mode) /\ ask' = [ask EXCEPT ![r] = mode]
  /\ files' = files \cup {<<"body", r>>}
  /\ UNCHANGED <<env, disk, phase, setup, signal, child, failed>>

\* SubprocessConverter.Run: a scratch directory and a child in a session of its
\* own, which a signal to the server's group does not reach.
StartChild(r) ==
  /\ Running
  /\ Step(r, "staged", "converting")
  /\ child' = [child EXCEPT ![r] = "running"]
  /\ files' = files \cup {<<"scratch", r>>}
  /\ UNCHANGED <<env, disk, phase, setup, signal, ask, failed>>

\* Fault: LOK_PATH is not passed on.
ChildEnvPlain == env

\* The child's environment is the server's with LOK_PATH, so the child loads the
\* same configuration.
ChildEnv == [env EXCEPT !.LOK_PATH = cfg.LOKPath]

\* Tessdata again, with a second look at TESSDATA_PREFIX.
ChildTessdata ==
  LET path == Load(ChildEnv).OCRTessdataPath
  IN  IF path = "" THEN Or(env.TESSDATA_PREFIX, "") ELSE path

ChildEngine == Load(ChildEnv).OCREnabled /\ ChildTessdata # "" /\ packs

\* What runConvert fails with before the conversion, "" if with nothing.
SetupError(r) ==
  CASE ~Valid(ChildEnv) -> "config"
    [] Valid(ChildEnv) /\ ~Resolvable(Load(ChildEnv)) -> "lok-path"
    [] ask[r] = "always" /\ ~ChildEngine -> "ocr-unavailable"
    [] OTHER -> ""

\* The child ends: set up wrongly, having written the output, having failed in
\* the conversion or by its own -timeout, as it does without its parent.
ChildEnds(r) ==
  /\ child[r] = "running"
  /\ child' = [child EXCEPT ![r] = "ended"]
  /\ failed' = [failed EXCEPT ![r] = SetupError(r)]
  /\ \/ UNCHANGED files
     \/ SetupError(r) = "" /\ files' = files \cup {<<"out", r>>}
  /\ UNCHANGED <<env, disk, phase, setup, signal, stage, ask>>

\* Fault: the handler returns without removing the staged body.
FinishKeepsBody(r) ==
  /\ Running
  /\ \/ child[r] = "ended" /\ Step(r, "converting", "done")
     \/ Step(r, "staged", "done")
  /\ files' = files \ {<<"scratch", r>>, <<"out", r>>}
  /\ UNCHANGED <<env, disk, phase, setup, signal, ask, child, failed>>

\* Run and the handler return, after a child or without one: every deferred
\* removal.
Finish(r) ==
  /\ Running
  /\ \/ child[r] = "ended" /\ Step(r, "converting", "done")
     \/ Step(r, "staged", "done")
  /\ files' = files \ {<<"body", r>>, <<"scratch", r>>, <<"out", r>>}
  /\ UNCHANGED <<env, disk, phase, setup, signal, ask, child, failed>>

Next ==
  \/ Boot \/ Signal \/ Shutdown \/ Exit \/ DiskChanges
  \/ \E r \in Requests : Accept(r) \/ StartChild(r) \/ ChildEnds(r) \/ Finish(r)

\* The server runs on whatever its requests do.  Nothing is assumed of them: a
\* conversion may hang, and a child that lost its server has no deadline as long
\* as LibreOffice starts.
Spec == Init /\ [][Next]_vars /\ WF_vars(Boot) /\ WF_vars(Shutdown) /\ WF_vars(Exit)

-----------------------------------------------------------------------------
TypeOK ==
  /\ env \in Environments
  /\ lokDir \in BOOLEAN /\ packs \in BOOLEAN /\ moved \in BOOLEAN
  /\ ocr \in BOOLEAN /\ signal \in BOOLEAN
  /\ phase \in {"boot", "serving", "closing", "exited"}
  /\ cfg \in {NoConfig, Resolved(Load(env))}
  /\ stage \in [Requests -> {"none", "staged", "converting", "done", "cut"}]
  /\ ask \in [Requests -> {"auto", "always"}]
  /\ child \in [Requests -> {"none", "running", "ended"}]
  /\ failed \in [Requests -> {"", "config", "lok-path", "ocr-unavailable"}]
  /\ files \subseteq {"body", "scratch", "out"} \X Requests

\* Whatever the environment, a server that listens satisfies what the other
\* modules assume of it: the limiter is on, a request can be admitted, calls have
\* a deadline (AnswersEveryCall of module Subprocess rests on it), children get
\* a LibreOffice; and a queue depth that is set is the one in force.
StartedAsAssumed ==
  Running =>
    /\ cfg.Workers > 0 /\ cfg.QueueDepth > 0 /\ cfg.ConvertTimeout > 0
    /\ cfg.LOKPath # ""
    /\ env.BI_QUEUE_DEPTH # <<>> => cfg.QueueDepth = env.BI_QUEUE_DEPTH[1]

\* A child never fails on a configuration that its server started with, even
\* after LibreOffice's directory moved; and what the server admitted on the
\* strength of its probe (ocr=always) a child can only refuse if the disk has
\* changed.
ChildSharesSetup ==
  \A r \in Requests :
    /\ failed[r] \notin {"config", "lok-path"}
    /\ failed[r] = "ocr-unavailable" => moved

\* Every file belongs to a request that is being served or that the exit of the
\* server cut off: the finished ones leave nothing for a restart to clean up.
LeftoversAreOfCutRequests ==
  \A f \in files : stage[f[2]] \in {"staged", "converting", "cut"}

\* A signal ends the server even if a conversion hangs or its client never reads.
SignalEndsServer == signal ~> phase = "exited"
=============================================================================
