----------------------------- MODULE ServerProofs ------------------------------
(***************************************************************************)
(* Theorems about module Server, for any set of requests and any processor: *)
(* what a start guarantees, what children share with their server, and what *)
(* an exit leaves behind.                                                   *)
(***************************************************************************)
EXTENDS Server, TLAPS

\* The server's set-up, once it listens: config.Load's result for a valid
\* environment, with a LibreOffice directory.
Configured ==
  /\ Valid(env)
  /\ cfg = Resolved(Load(env))
  /\ cfg.LOKPath # ""

SetupInv ==
  /\ env \in Environments
  /\ Running => Configured
  /\ \A r \in Requests : child[r] # "none" => Configured
  /\ phase = "boot" => \A r \in Requests : child[r] = "none" /\ ask[r] = "auto"
  /\ \A r \in Requests : ask[r] = "always" => ocr
  /\ ocr /\ ~moved => cfg.OCREnabled /\ cfg.OCRTessdataPath # "" /\ packs

\* What Load gives for a valid environment.
LEMMA LoadFacts ==
  ASSUME NEW e \in Environments, Valid(e)
  PROVE  /\ Load(e).Workers > 0 /\ Load(e).QueueDepth > 0 /\ Load(e).ConvertTimeout > 0
         /\ e.BI_QUEUE_DEPTH # <<>> => Load(e).QueueDepth = e.BI_QUEUE_DEPTH[1]
<1>1. /\ e.BI_WORKERS \in {<<>>, <<0>>, <<2>>} /\ e.BI_QUEUE_DEPTH \in {<<>>, <<0>>, <<1>>}
      /\ e.BI_CONVERT_TIMEOUT \in {<<>>, <<0>>}
  BY DEF Environments
<1>2. /\ Or(e.BI_WORKERS, 1) > 0 /\ Or(e.BI_QUEUE_DEPTH, 1) > 0
      /\ Or(e.BI_CONVERT_TIMEOUT, 1) > 0
  BY DEF Valid
<1>3. <<0>>[1] = 0 /\ <<2>>[1] = 2 /\ <<1>>[1] = 1
  OBVIOUS
<1>4. e.BI_WORKERS \in {<<>>, <<2>>} /\ e.BI_QUEUE_DEPTH \in {<<>>, <<1>>}
      /\ e.BI_CONVERT_TIMEOUT = <<>>
  BY <1>1, <1>2, <1>3 DEF Or
<1>5. Or(e.BI_WORKERS, Workers0) \in Nat \ {0}
  BY <1>3, <1>4, ServerAssumption DEF Or, ServerAssumption
<1>6. /\ Load(e).Workers = Or(e.BI_WORKERS, Workers0)
      /\ Load(e).QueueDepth = Or(e.BI_QUEUE_DEPTH, 2 * Or(e.BI_WORKERS, Workers0))
      /\ Load(e).ConvertTimeout = Or(e.BI_CONVERT_TIMEOUT, 120)
  BY DEF Load
<1>7. Or(e.BI_CONVERT_TIMEOUT, 120) = 120
  BY <1>4 DEF Or
<1>8. Or(e.BI_QUEUE_DEPTH, 2 * Or(e.BI_WORKERS, Workers0)) > 0
  BY <1>3, <1>4, <1>5 DEF Or
<1>9. e.BI_QUEUE_DEPTH # <<>> => Load(e).QueueDepth = e.BI_QUEUE_DEPTH[1]
  BY <1>6 DEF Or
<1> QED BY <1>5, <1>6, <1>7, <1>8, <1>9

\* Resolving a configuration only fills in the directory.
LEMMA ResolvedFacts ==
  ASSUME NEW e
  PROVE  LET c == Resolved(Load(e))
         IN  /\ c.LOKPath # ""
             /\ c.Workers = Load(e).Workers /\ c.QueueDepth = Load(e).QueueDepth
             /\ c.ConvertTimeout = Load(e).ConvertTimeout
             /\ c.OCREnabled = Load(e).OCREnabled
             /\ c.OCRTessdataPath = Load(e).OCRTessdataPath
BY DEF Resolved, Load

\* A child reads the same configuration: ChildEnv differs in LOK_PATH only, and
\* there it names the directory that its server has found.
LEMMA ChildConfig ==
  ASSUME env \in Environments, Configured
  PROVE  /\ Valid(ChildEnv) /\ Resolvable(Load(ChildEnv))
         /\ Load(ChildEnv).OCREnabled = cfg.OCREnabled
         /\ Load(ChildEnv).OCRTessdataPath = cfg.OCRTessdataPath
<1> DEFINE e == ChildEnv
<1>1. /\ e.BI_WORKERS = env.BI_WORKERS /\ e.BI_QUEUE_DEPTH = env.BI_QUEUE_DEPTH
      /\ e.BI_CONVERT_TIMEOUT = env.BI_CONVERT_TIMEOUT /\ e.rest = env.rest
      /\ e.BI_OCR_ENABLED = env.BI_OCR_ENABLED /\ e.LOK_PATH = cfg.LOKPath
      /\ e.BI_OCR_TESSDATA = env.BI_OCR_TESSDATA /\ e.TESSDATA_PREFIX = env.TESSDATA_PREFIX
  BY DEF ChildEnv, Environments
<1>2. Valid(e)
  BY <1>1 DEF Configured, Valid
<1>3. Load(e).LOKPath = cfg.LOKPath
  BY <1>1 DEF Load
<1>4. Load(e).OCREnabled = Load(env).OCREnabled /\ Load(e).OCRTessdataPath = Load(env).OCRTessdataPath
  BY <1>1 DEF Load
<1>5. cfg.OCREnabled = Load(env).OCREnabled /\ cfg.OCRTessdataPath = Load(env).OCRTessdataPath
  BY ResolvedFacts DEF Configured
<1> QED BY <1>2, <1>3, <1>4, <1>5 DEF Configured, Resolvable

-----------------------------------------------------------------------------
LEMMA SetupInit == Init => SetupInv
BY DEF Init, SetupInv, Running

LEMMA SetupKeeps ==
  ASSUME SetupInv, TypeOK, [Next]_vars
  PROVE  SetupInv'
<1> USE DEF SetupInv, Configured, Running, TypeOK
<1>1. CASE Boot
  <2>1. UNCHANGED <<env, packs, moved, ask, child>> /\ phase = "boot"
    BY <1>1 DEF Boot, disk, requests
  <2>2. CASE phase' = "serving"
    <3>1. Valid(env) /\ cfg' = Resolved(Load(env))
          /\ ocr' = (cfg'.OCREnabled /\ cfg'.OCRTessdataPath # "" /\ packs)
      BY <1>1, <2>2 DEF Boot
    <3>2. cfg'.LOKPath # ""
      BY <3>1, ResolvedFacts
    <3>3. Configured'
      BY <2>1, <3>1, <3>2
    <3>4. (\A r \in Requests : ask[r] = "always" => ocr)'
      BY <2>1
    <3>5. (ocr /\ ~moved => cfg.OCREnabled /\ cfg.OCRTessdataPath # "" /\ packs)'
      BY <2>1, <3>1
    <3> QED BY <2>1, <2>2, <3>3, <3>4, <3>5
  <2>3. CASE phase' = "exited" /\ UNCHANGED setup
    BY <2>1, <2>3 DEF setup
  <2> QED BY <1>1, <2>2, <2>3 DEF Boot
<1>2. CASE Signal \/ Shutdown \/ Exit
  <2>1. UNCHANGED <<env, packs, moved, cfg, ocr, ask, child>>
    BY <1>2 DEF Signal, Shutdown, Exit, disk, setup, requests
  <2>2. phase' # "boot" /\ (phase' \in {"serving", "closing"} => phase \in {"serving", "closing"})
    BY <1>2 DEF Signal, Shutdown, Exit
  <2> QED BY <2>1, <2>2
<1>3. CASE DiskChanges
  BY <1>3 DEF DiskChanges, setup, requests
<1>4. ASSUME NEW r \in Requests, Accept(r) PROVE SetupInv'
  <2>1. UNCHANGED <<env, packs, moved, phase, cfg, ocr, child>> /\ phase = "serving"
    BY <1>4 DEF Accept, disk, setup
  <2>2. \A q \in Requests : ask'[q] = "always" => ocr
    BY <1>4 DEF Accept, Refused
  <2> QED BY <2>1, <2>2
<1>5. ASSUME NEW r \in Requests, StartChild(r) PROVE SetupInv'
  BY <1>5 DEF StartChild, disk, setup
<1>6. ASSUME NEW r \in Requests, ChildEnds(r) PROVE SetupInv'
  <2>1. UNCHANGED <<env, packs, moved, phase, cfg, ocr, ask>> /\ child[r] = "running"
    BY <1>6 DEF ChildEnds, disk, setup
  <2>2. child' = [child EXCEPT ![r] = "ended"]
    BY <1>6 DEF ChildEnds
  <2> QED BY <2>1, <2>2
<1>7. ASSUME NEW r \in Requests, Finish(r) PROVE SetupInv'
  BY <1>7 DEF Finish, disk, setup
<1>8. CASE UNCHANGED vars
  BY <1>8 DEF vars, disk, setup, requests
<1> QED BY <1>1, <1>2, <1>3, <1>4, <1>5, <1>6, <1>7, <1>8 DEF Next

-----------------------------------------------------------------------------
\* Types, with functions over the requests.
FileNames == {"body", "scratch", "out"} \X Requests

LEMMA FilesOf ==
  /\ \A x, y : <<x, y>>[2] = y
  /\ \A f \in FileNames : /\ f[2] \in Requests
                           /\ f \in {<<"body", f[2]>>, <<"scratch", f[2]>>, <<"out", f[2]>>}
  /\ \A r \in Requests : {<<"body", r>>, <<"scratch", r>>, <<"out", r>>} \subseteq FileNames
<1>1. \A x, y : <<x, y>>[2] = y
  OBVIOUS
<1>2. ASSUME NEW f \in FileNames
      PROVE  f[2] \in Requests /\ f \in {<<"body", f[2]>>, <<"scratch", f[2]>>, <<"out", f[2]>>}
  <2>1. PICK n \in {"body", "scratch", "out"}, r \in Requests : f = <<n, r>>
    BY DEF FileNames
  <2> QED BY <1>1, <2>1
<1>3. \A r \in Requests : {<<"body", r>>, <<"scratch", r>>, <<"out", r>>} \subseteq FileNames
  BY DEF FileNames
<1> QED BY <1>1, <1>2, <1>3

LEMMA TypeInit == Init => TypeOK
BY DEF Init, TypeOK

LEMMA TypeKeeps ==
  ASSUME TypeOK, [Next]_vars
  PROVE  TypeOK'
<1> USE DEF TypeOK
<1>1. CASE Boot
  <2>1. UNCHANGED <<env, lokDir, packs, moved, signal, stage, ask, child, failed, files>>
    BY <1>1 DEF Boot, disk, requests
  <2>2. phase' \in {"exited", "serving"}
    BY <1>1 DEF Boot
  <2>3. cfg' \in {NoConfig, Resolved(Load(env))} /\ ocr' \in BOOLEAN
    BY <1>1 DEF Boot, setup
  <2>4. Resolved(Load(env))' = Resolved(Load(env))
    BY <2>1 DEF Resolved, Load
  <2> QED BY <2>1, <2>2, <2>3, <2>4
<1>2. ASSUME UNCHANGED <<env, setup>> PROVE cfg' \in {NoConfig, Resolved(Load(env))'}
  BY <1>2 DEF setup, Resolved, Load
<1>3. CASE Signal \/ Shutdown \/ Exit
  BY <1>2, <1>3 DEF Signal, Shutdown, Exit, disk, setup, requests
<1>4. CASE DiskChanges
  BY <1>2, <1>4 DEF DiskChanges, setup, requests
<1>5. ASSUME NEW r \in Requests, Accept(r) PROVE TypeOK'
  <2>1. UNCHANGED <<env, lokDir, packs, moved, phase, cfg, ocr, signal, child, failed, setup>>
    BY <1>5 DEF Accept, disk, setup
  <2>2. stage' = [stage EXCEPT ![r] = "staged"] /\ files' = files \cup {<<"body", r>>}
    BY <1>5 DEF Accept, Step
  <2>3. ask' \in [Requests -> {"auto", "always"}]
    BY <1>5 DEF Accept
  <2>4. files' \subseteq FileNames
    BY <2>2, FilesOf DEF FileNames
  <2> QED BY <1>2, <2>1, <2>2, <2>3, <2>4 DEF FileNames
<1>6. ASSUME NEW r \in Requests, StartChild(r) PROVE TypeOK'
  <2>1. UNCHANGED <<env, lokDir, packs, moved, phase, cfg, ocr, signal, ask, failed, setup>>
    BY <1>6 DEF StartChild, disk, setup
  <2>2. /\ stage' = [stage EXCEPT ![r] = "converting"] /\ files' = files \cup {<<"scratch", r>>}
        /\ child' = [child EXCEPT ![r] = "running"]
    BY <1>6 DEF StartChild, Step
  <2>3. files' \subseteq FileNames
    BY <2>2, FilesOf DEF FileNames
  <2> QED BY <1>2, <2>1, <2>2, <2>3 DEF FileNames
<1>7. ASSUME NEW r \in Requests, ChildEnds(r) PROVE TypeOK'
  <2>1. SetupError(r) \in {"", "config", "lok-path", "ocr-unavailable"}
    BY DEF SetupError
  <2>2. UNCHANGED <<env, lokDir, packs, moved, phase, cfg, ocr, signal, stage, ask, setup>>
    BY <1>7 DEF ChildEnds, disk, setup
  <2>3. /\ child' = [child EXCEPT ![r] = "ended"] /\ failed' = [failed EXCEPT ![r] = SetupError(r)]
        /\ files' \subseteq files \cup {<<"out", r>>}
    <3>1. UNCHANGED files \/ files' = files \cup {<<"out", r>>}
      BY <1>7 DEF ChildEnds
    <3> QED BY <1>7, <3>1 DEF ChildEnds
  <2>4. files' \subseteq FileNames
    <3>1. files \subseteq FileNames
      BY DEF FileNames
    <3>2. <<"out", r>> \in FileNames
      BY FilesOf
    <3> QED BY <2>3, <3>1, <3>2
  <2>5. /\ child' \in [Requests -> {"none", "running", "ended"}]
        /\ failed' \in [Requests -> {"", "config", "lok-path", "ocr-unavailable"}]
    BY <2>1, <2>3
  <2> QED BY <1>2, <2>2, <2>4, <2>5 DEF FileNames
<1>8. ASSUME NEW r \in Requests, Finish(r) PROVE TypeOK'
  BY <1>2, <1>8 DEF Finish, Step, disk, setup
<1>9. CASE UNCHANGED vars
  BY <1>2, <1>9 DEF vars, disk, setup, requests
<1> QED BY <1>1, <1>3, <1>4, <1>5, <1>6, <1>7, <1>8, <1>9 DEF Next

-----------------------------------------------------------------------------
LEMMA SharesKeeps ==
  ASSUME TypeOK, SetupInv, ChildSharesSetup, [Next]_vars
  PROVE  ChildSharesSetup'
<1> USE DEF ChildSharesSetup
<1>1. ASSUME UNCHANGED failed, moved => moved' PROVE ChildSharesSetup'
  BY <1>1
<1>2. CASE Boot \/ Signal \/ Shutdown \/ Exit \/ DiskChanges \/ UNCHANGED vars
  <2>1. UNCHANGED failed
    BY <1>2 DEF Boot, Signal, Shutdown, Exit, DiskChanges, vars, requests
  <2>2. moved' = moved \/ moved' = TRUE
    BY <1>2 DEF Boot, Signal, Shutdown, Exit, DiskChanges, vars, disk
  <2> QED BY <1>1, <2>1, <2>2
<1>3. ASSUME NEW r \in Requests, Accept(r) \/ StartChild(r) \/ Finish(r) PROVE ChildSharesSetup'
  BY <1>1, <1>3 DEF Accept, StartChild, Finish, disk
<1>4. ASSUME NEW r \in Requests, ChildEnds(r) PROVE ChildSharesSetup'
  <2>1. /\ child[r] = "running" /\ UNCHANGED moved
        /\ failed' = [failed EXCEPT ![r] = SetupError(r)]
    BY <1>4 DEF ChildEnds, disk
  <2>2. env \in Environments /\ Configured
    BY <2>1 DEF SetupInv
  <2>3. SetupError(r) \notin {"config", "lok-path"}
    BY <2>2, ChildConfig DEF SetupError
  <2>4. SetupError(r) = "ocr-unavailable" => moved
    <3> SUFFICES ASSUME SetupError(r) = "ocr-unavailable", ~moved PROVE FALSE
      BY DEF TypeOK
    <3>1. ask[r] = "always" /\ ~ChildEngine
      BY DEF SetupError
    <3>2. cfg.OCREnabled /\ cfg.OCRTessdataPath # "" /\ packs
      BY <3>1 DEF SetupInv
    <3>3. ChildEngine
      BY <2>2, <3>2, ChildConfig DEF ChildEngine, ChildTessdata
    <3> QED BY <3>1, <3>3
  <2> QED BY <2>1, <2>3, <2>4 DEF TypeOK
<1> QED BY <1>2, <1>3, <1>4 DEF Next

\* A child that runs belongs to a request that waits for it or was cut off.
OwnedInv ==
  /\ \A r \in Requests : child[r] = "running" => stage[r] \in {"converting", "cut"}
  /\ LeftoversAreOfCutRequests

LEMMA OwnedKeeps ==
  ASSUME TypeOK, OwnedInv, [Next]_vars
  PROVE  OwnedInv'
<1> USE DEF TypeOK, OwnedInv, LeftoversAreOfCutRequests
<1>0. /\ \A x, y : <<x, y>>[2] = y
      /\ files \subseteq FileNames
      /\ \A f \in FileNames : /\ f[2] \in Requests
                               /\ f \in {<<"body", f[2]>>, <<"scratch", f[2]>>, <<"out", f[2]>>}
      /\ \A r \in Requests : {<<"body", r>>, <<"scratch", r>>, <<"out", r>>} \subseteq FileNames
  <2>1. files \subseteq FileNames
    BY DEF FileNames
  <2> QED BY <2>1, FilesOf
<1>1. CASE Boot \/ Signal \/ Shutdown \/ DiskChanges \/ UNCHANGED vars
  BY <1>1 DEF Boot, Signal, Shutdown, DiskChanges, vars, requests
<1>2. CASE Exit
  <2>1. UNCHANGED <<child, files>>
        /\ stage' = [r \in Requests |-> IF stage[r] \in {"none", "done"} THEN stage[r] ELSE "cut"]
    BY <1>2 DEF Exit
  <2>2. \A f \in files : f[2] \in Requests
    OBVIOUS
  <2> QED BY <2>1, <2>2
<1>3. ASSUME NEW r \in Requests, Accept(r) PROVE OwnedInv'
  <2>1. UNCHANGED child /\ files' = files \cup {<<"body", r>>}
        /\ stage[r] = "none" /\ stage' = [stage EXCEPT ![r] = "staged"]
    BY <1>3 DEF Accept, Step
  <2>2. ASSUME NEW f \in files' PROVE f \in FileNames /\ (f[2] # r => f \in files)
    <3>1. CASE f \in files
      BY <1>0, <3>1
    <3>2. CASE f \notin files
      <4>1. f = <<"body", r>>
        BY <2>1, <3>2
      <4> QED BY <1>0, <4>1
    <3> QED BY <3>1, <3>2
  <2> QED BY <1>0, <2>1, <2>2
<1>4. ASSUME NEW r \in Requests, StartChild(r) PROVE OwnedInv'
  <2>1. child' = [child EXCEPT ![r] = "running"] /\ files' = files \cup {<<"scratch", r>>}
        /\ stage' = [stage EXCEPT ![r] = "converting"]
    BY <1>4 DEF StartChild, Step
  <2>2. ASSUME NEW f \in files' PROVE f \in FileNames /\ (f[2] # r => f \in files)
    <3>1. CASE f \in files
      BY <1>0, <3>1
    <3>2. CASE f \notin files
      <4>1. f = <<"scratch", r>>
        BY <2>1, <3>2
      <4> QED BY <1>0, <4>1
    <3> QED BY <3>1, <3>2
  <2> QED BY <1>0, <2>1, <2>2
<1>5. ASSUME NEW r \in Requests, ChildEnds(r) PROVE OwnedInv'
  <2>1. child' = [child EXCEPT ![r] = "ended"] /\ files' \subseteq files \cup {<<"out", r>>}
        /\ stage' = stage /\ stage[r] \in {"converting", "cut"}
    BY <1>5 DEF ChildEnds
  <2>2. ASSUME NEW f \in files' PROVE f \in FileNames /\ (f[2] # r => f \in files)
    <3>1. CASE f \in files
      BY <1>0, <3>1
    <3>2. CASE f \notin files
      <4>1. f = <<"out", r>>
        BY <2>1, <3>2
      <4> QED BY <1>0, <4>1
    <3> QED BY <3>1, <3>2
  <2> QED BY <1>0, <2>1, <2>2
<1>6. ASSUME NEW r \in Requests, Finish(r) PROVE OwnedInv'
  <2>1. /\ UNCHANGED child /\ child[r] # "running"
        /\ files' = files \ {<<"body", r>>, <<"scratch", r>>, <<"out", r>>}
        /\ stage' = [stage EXCEPT ![r] = "done"]
    BY <1>6 DEF Finish, Step
  <2>2. \A f \in files' : f[2] \in Requests /\ f[2] # r
    BY <1>0, <2>1
  <2> QED BY <1>0, <2>1, <2>2
<1> QED BY <1>1, <1>2, <1>3, <1>4, <1>5, <1>6 DEF Next

-----------------------------------------------------------------------------
\* The inductive invariant.
ServerInv == TypeOK /\ SetupInv /\ ChildSharesSetup /\ OwnedInv

LEMMA ServerInductive == Spec => []ServerInv
<1>1. Init => ServerInv
  <2>1. Init => ChildSharesSetup /\ OwnedInv
    BY DEF Init, ChildSharesSetup, OwnedInv, LeftoversAreOfCutRequests
  <2> QED BY <2>1, TypeInit, SetupInit DEF ServerInv
<1>2. ServerInv /\ [Next]_vars => ServerInv'
  BY TypeKeeps, SetupKeeps, SharesKeeps, OwnedKeeps DEF ServerInv
<1> QED BY <1>1, <1>2, PTL DEF Spec

\* The server's variables have their types.
THEOREM ServerTypeOK == Spec => []TypeOK
<1>1. ServerInv => TypeOK
  BY DEF ServerInv
<1> QED BY <1>1, ServerInductive, PTL

\* Whatever the environment: config.Load and ResolveLOKPath give a server that
\* listens workers, room in the queue, a deadline for calls and a LibreOffice.
THEOREM ServerStarts == Spec => []StartedAsAssumed
<1>1. ServerInv => StartedAsAssumed
  <2> SUFFICES ASSUME ServerInv, Running PROVE StartedAsAssumed
    BY DEF StartedAsAssumed
  <2>1. env \in Environments /\ Valid(env) /\ cfg = Resolved(Load(env)) /\ cfg.LOKPath # ""
    BY DEF ServerInv, SetupInv, Configured
  <2> QED BY <2>1, LoadFacts, ResolvedFacts DEF StartedAsAssumed
<1> QED BY <1>1, ServerInductive, PTL

\* For any number of requests: a child never fails on the set-up that its server
\* has started with (buildSubprocessArgs' environment, runConvert).
THEOREM ServerChildren == Spec => []ChildSharesSetup
<1>1. ServerInv => ChildSharesSetup
  BY DEF ServerInv
<1> QED BY <1>1, ServerInductive, PTL

\* For any number of requests: the files on the disk belong to requests in service
\* or to those that the exit of runServe has cut off.
THEOREM ServerLeftovers == Spec => []LeftoversAreOfCutRequests
<1>1. ServerInv => LeftoversAreOfCutRequests
  BY DEF ServerInv, OwnedInv
<1> QED BY <1>1, ServerInductive, PTL
=============================================================================
