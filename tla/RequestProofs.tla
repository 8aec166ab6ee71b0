----------------------------- MODULE RequestProofs -----------------------------
(***************************************************************************)
(* Theorems about modules ErrorContract and Request, with or without a      *)
(* token and OCR: no class of error is lost between worker and client, and  *)
(* every way through the middlewares keeps their books.                     *)
(***************************************************************************)
EXTENDS Request, TLAPS

FirstMatch(cases, e, i) ==
  /\ \E n \in Nat : DOMAIN cases = 1..n
  /\ i \in DOMAIN cases /\ cases[i].is \in e
  /\ \A j \in 1..(i - 1) : cases[j].is \notin e

\* A switch takes the first case that matches.
LEMMA SwitchFirst ==
  ASSUME NEW cases, NEW e, NEW default, NEW i, FirstMatch(cases, e, i)
  PROVE  Switch(cases, e, default) = cases[i].then
<1> DEFINE hits == {j \in DOMAIN cases : cases[j].is \in e}
<1>1. i \in hits /\ \A j \in hits : j \in Nat /\ i <= j
  <2>1. PICK n \in Nat : DOMAIN cases = 1..n
    BY DEF FirstMatch
  <2>2. i \in 1..n
    BY <2>1 DEF FirstMatch
  <2> QED BY <2>1, <2>2 DEF FirstMatch
<1>2. Min(hits) = i
  BY <1>1 DEF Min
<1> QED BY <1>1, <1>2 DEF Switch

LEMMA SwitchDefault ==
  ASSUME NEW cases, NEW e, NEW default, \A j \in DOMAIN cases : cases[j].is \notin e
  PROVE  Switch(cases, e, default) = default
BY DEF Switch

\* The tables of the two ends are inverse to each other.
LEMMA TablesMatch ==
  /\ DOMAIN convertCases = 1..11 /\ DOMAIN subprocessCases = 1..11
  /\ \A i \in 1..11 : /\ subprocessCases[i].is = convertCases[i].then
                      /\ subprocessCases[i].then = convertCases[i].is
  /\ \A i, j \in 1..11 : /\ convertCases[i].is = convertCases[j].is => i = j
                         /\ convertCases[i].then = convertCases[j].then => i = j
  /\ \A i \in 1..11 : convertCases[i].then # "internal"
BY DEF convertCases, subprocessCases, Case

LEMMA Carried ==
  ASSUME NEW i \in 1..11
  PROVE  LET e == {convertCases[i].is}
         IN  classifySubprocessErr(classifyConvertErr(e)) = e
<1> DEFINE s == convertCases[i].is
           k == convertCases[i].then
<1>1. Switch(convertCases, {s}, "internal") = k
  <2>1. FirstMatch(convertCases, {s}, i)
    BY TablesMatch DEF FirstMatch
  <2> QED BY <2>1, SwitchFirst
<1>2. Switch(subprocessCases, {k}, "other") = s
  <2>1. FirstMatch(subprocessCases, {k}, i)
    <3>1. 11 \in Nat /\ DOMAIN subprocessCases = 1..11
      BY TablesMatch
    <3>2. \A j \in 1..11 : subprocessCases[j].is = convertCases[j].then
      BY TablesMatch
    <3>3. \A j \in 1..(i - 1) : j \in 1..11 /\ j # i
      OBVIOUS
    <3>4. \A j \in 1..11 : convertCases[j].then = convertCases[i].then => j = i
      BY TablesMatch
    <3>5. \A j \in 1..(i - 1) : subprocessCases[j].is \notin {k}
      BY <3>2, <3>3, <3>4
    <3>6. subprocessCases[i].is \in {k}
      BY <3>2
    <3> QED BY <3>1, <3>5, <3>6 DEF FirstMatch
  <2>2. subprocessCases[i].then = s
    BY TablesMatch
  <2> QED BY <2>1, <2>2, SwitchFirst
<1> QED BY <1>1, <1>2 DEF classifySubprocessErr, classifyConvertErr

\* An error without a sentinel arrives as one without a case, which is reported
\* like it.
LEMMA CarriedPlain == mapError(classifySubprocessErr(classifyConvertErr({}))) = mapError({})
<1>1. classifyConvertErr({}) = "internal"
  BY SwitchDefault DEF classifyConvertErr
<1>2. \A i \in DOMAIN subprocessCases : subprocessCases[i].is \notin {"internal"}
  BY TablesMatch
<1>3. classifySubprocessErr("internal") = {"other"}
  BY <1>2, SwitchDefault DEF classifySubprocessErr
<1>4. \A i \in DOMAIN problemCases : problemCases[i].is \notin {"other"}
  BY DEF problemCases, Case
<1>5. mapError({"other"}) = Problem("internal", 500) /\ mapError({}) = Problem("internal", 500)
  BY <1>4, SwitchDefault DEF mapError
<1> QED BY <1>1, <1>3, <1>5

\* An encrypted PDF on the markdown route: both switches take the password's case
\* before that of the failed conversion.
LEMMA CarriedTwice ==
  LET e == {"ErrMarkdownConversion", "ErrPasswordRequired"}
  IN  mapError(classifySubprocessErr(classifyConvertErr(e))) = mapError(e)
<1> DEFINE e == {"ErrMarkdownConversion", "ErrPasswordRequired"}
<1>1. convertCases[1].is = "ErrPasswordRequired" /\ convertCases[1].then = "password-required"
  BY DEF convertCases, Case
<1>2. ASSUME NEW f, f \in {e, {"ErrPasswordRequired"}}
      PROVE  classifyConvertErr(f) = "password-required"
  <2>1. FirstMatch(convertCases, f, 1)
    BY <1>1, <1>2, TablesMatch DEF FirstMatch
  <2> QED BY <1>1, <2>1, SwitchFirst DEF classifyConvertErr
<1>5. classifySubprocessErr(classifyConvertErr(e)) = {"ErrPasswordRequired"}
  <2>1. classifySubprocessErr(classifyConvertErr({convertCases[1].is})) = {convertCases[1].is}
    <3>1. 1 \in 1..11
      OBVIOUS
    <3> HIDE DEF e
    <3> QED BY <3>1, Carried
  <2> QED BY <1>1, <1>2, <2>1
<1>3. /\ DOMAIN problemCases = 1..17 /\ problemCases[3].is = "ErrPasswordRequired"
      /\ problemCases[1].is = "ErrQueueFull" /\ problemCases[2].is = "ErrPoolClosed"
  BY DEF problemCases, Case
<1>6. ASSUME NEW f, f \in {e, {"ErrPasswordRequired"}}
      PROVE  mapError(f) = problemCases[3].then
  <2>1. \A j \in 1..(3 - 1) : j = 1 \/ j = 2
    OBVIOUS
  <2>2. FirstMatch(problemCases, f, 3)
    BY <1>3, <1>6, <2>1 DEF FirstMatch
  <2> QED BY <2>2, SwitchFirst DEF mapError
<1> QED BY <1>5, <1>6

\* The process boundary is transparent to mapError.
LEMMA ErrorCarried ==
  ASSUME NEW e \in WorkerErrors
  PROVE  mapError(classifySubprocessErr(classifyConvertErr(e))) = mapError(e)
<1>1. CASE \E i \in 1..11 : e = {convertCases[i].is}
  BY <1>1, Carried
<1>2. CASE e = {}
  BY <1>2, CarriedPlain
<1>3. CASE e = {"ErrMarkdownConversion", "ErrPasswordRequired"}
  BY <1>3, CarriedTwice
<1>4. ASSUME NEW s \in {"DeadlineExceeded", "ErrPasswordRequired", "ErrWrongPassword",
                "ErrUnsupportedFormat", "ErrLOKUnsupported", "ErrPageOutOfRange",
                "ErrInvalidDPI", "ErrPNGGridTooLarge", "ErrMarkdownConversion",
                "ErrOCRFailed"}
      PROVE  \E i \in 1..11 : s = convertCases[i].is
  <2>1. /\ convertCases[1].is = "ErrPasswordRequired" /\ convertCases[2].is = "ErrWrongPassword"
        /\ convertCases[3].is = "ErrUnsupportedFormat" /\ convertCases[4].is = "ErrLOKUnsupported"
        /\ convertCases[5].is = "ErrPageOutOfRange" /\ convertCases[6].is = "ErrInvalidDPI"
        /\ convertCases[7].is = "ErrPNGGridTooLarge" /\ convertCases[8].is = "ErrMarkdownConversion"
        /\ convertCases[9].is = "ErrOCRFailed" /\ convertCases[11].is = "DeadlineExceeded"
    BY DEF convertCases, Case
  <2> QED BY <2>1
<1> QED BY <1>1, <1>2, <1>3, <1>4 DEF WorkerErrors

\* The status of an error with one sentinel, or none, is one of the table's.
LEMMA ProblemStatus ==
  /\ mapError({}).status \in Statuses
  /\ \A s : mapError({s}).status \in Statuses
<1>1. /\ DOMAIN problemCases = 1..17
      /\ \A i, j \in 1..17 : problemCases[i].is = problemCases[j].is => i = j
  BY DEF problemCases, Case
<1>2. \A i \in 1..17 : problemCases[i].then.status \in Statuses
  BY DEF problemCases, Case, Problem, BadRequest, MediaType, Statuses
<1>3. Problem("internal", 500).status \in Statuses
  BY DEF Problem, Statuses
<1>4. mapError({}).status \in Statuses
  BY <1>3, SwitchDefault DEF mapError
<1>5. ASSUME NEW s PROVE mapError({s}).status \in Statuses
  <2>1. CASE \E i \in 1..17 : problemCases[i].is = s
    <3>1. PICK i \in 1..17 : problemCases[i].is = s
      BY <2>1
    <3>2. FirstMatch(problemCases, {s}, i)
      <4>1. 17 \in Nat /\ \A j \in 1..(i - 1) : j \in 1..17 /\ j # i
        OBVIOUS
      <4>2. \A j \in 1..(i - 1) : problemCases[j].is \notin {s}
        BY <1>1, <3>1, <4>1
      <4> QED BY <1>1, <3>1, <4>1, <4>2 DEF FirstMatch
    <3>4. mapError({s}) = problemCases[i].then
      BY <3>2, SwitchFirst DEF mapError
    <3> QED BY <1>2, <3>4
  <2>2. CASE \A i \in 1..17 : problemCases[i].is # s
    <3>1. mapError({s}) = Problem("internal", 500)
      BY <1>1, <2>2, SwitchDefault DEF mapError
    <3> QED BY <1>3, <3>1
  <2> QED BY <2>1, <2>2
<1> QED BY <1>4, <1>5

-----------------------------------------------------------------------------
\* Statements before anything is sent, and those that a request reaches only with
\* the token, past the handler's checks and with its body.
Silent == {"requestID", "accessLog", "auth", "parse", "capture", "read", "write", "run",
           "open", "send"}
Staged == {"read", "write", "run", "open", "send", "stream"}

\* What is on the wire, and what the recorders hold of it.
WireInv ==
  /\ reply.status \in Statuses \cup {0}
  /\ pc # "requestID" => requestId
  /\ pc \in Silent => reply.status = 0
  /\ pc = "removeOut" \/ pc = "removeIn" => panicking \/ (reply.status # 0 /\ rec = reply.status)
  /\ pc \in {"stream", "count", "log"} => reply.status # 0 /\ rec = reply.status
  /\ pc \notin {"log", "done"} => counted = 0
  /\ pc = "log" => counted = reply.status
  /\ pc # "done" => logged = 0
  /\ panicking => pc \in {"removeOut", "removeIn", "recover", "done"} /\ counted = 0 /\ logged = 0
  /\ pc = "recover" => panicking
  /\ pc = "done" => /\ reply.status # 0
                    /\ ~panicking => counted = reply.status /\ logged = reply.status

\* Which files there are, and for whom.
FileInv ==
  /\ outFile => pc \in {"open", "send", "stream", "removeOut"}
  /\ inFile => pc \in Staged \cup {"removeOut", "removeIn"}
  /\ pc \in {"parse", "capture"} \cup Staged \/ inFile => (TokenSet => req.token = "right")
  /\ pc \in {"capture"} \cup Staged \/ inFile => Refusal = {}
  /\ pc \in Staged \ {"read"} => req.body = "small"

\* An error of the child is what the reply is about.
CauseInv ==
  /\ cause # {} => pc \in {"removeIn", "count", "log", "done"} /\ ~panicking
  /\ \A e \in cause : reply = mapError(e)

ReqInv == panicking \in BOOLEAN /\ inFile \in BOOLEAN /\ outFile \in BOOLEAN
          /\ WireInv /\ FileInv /\ CauseInv

\* The statuses that Reply is called with.
LEMMA RefusalStatus == mapError(Refusal).status \in Statuses
<1>1. Refusal \in {{}, {"ErrPDFNotAcceptedAsInput"}, {"ErrBadQuery"}, {"ErrOCRUnavailable"}}
  BY DEF Refusal
<1> QED BY <1>1, ProblemStatus

\* Only the first reply goes out, and it is the one the recorders hold.
LEMMA FirstReply ==
  ASSUME NEW p, Reply(p), reply.status = 0, p.status \in Statuses
  PROVE  reply' = p /\ reply'.status \in Statuses /\ reply'.status # 0 /\ rec' = reply'.status
BY DEF Reply, Statuses

\* Refusals and failures: one reply, then the books or the removal of the body.
LEMMA Replied ==
  ASSUME ReqInv, pc \in Silent, NEW p, Reply(p), p.status \in Statuses,
         pc' = "count" \/ (pc' = "removeIn" /\ pc \in Staged), pc' = "count" => UNCHANGED inFile /\ ~inFile,
         UNCHANGED <<req, requestId, panicking, counted, logged, inFile, outFile>>, ~outFile,
         requestId, cause' = cause \/ \E e : cause' = {e} /\ p = mapError(e)
  PROVE  ReqInv'
<1>1. /\ reply' = p /\ reply'.status \in Statuses /\ reply'.status # 0 /\ rec' = reply'.status
  BY FirstReply DEF ReqInv, WireInv
<1>2. pc \notin {"removeIn", "count", "log", "done", "removeOut", "recover"} /\ cause = {} /\ ~panicking
  BY DEF ReqInv, WireInv, CauseInv, Silent
<1>3. counted = 0 /\ logged = 0
  BY <1>2 DEF ReqInv, WireInv
<1>4. WireInv'
  BY <1>1, <1>2, <1>3 DEF WireInv, Silent
<1>5. FileInv'
  <2>1. Refusal' = Refusal
    BY DEF Refusal
  <2> QED BY <2>1 DEF ReqInv, FileInv, Staged
<1>6. CauseInv'
  BY <1>1, <1>2 DEF CauseInv
<1> QED BY <1>2, <1>4, <1>5, <1>6 DEF ReqInv

\* Steps on the way in, which send nothing.
LEMMA Advanced ==
  ASSUME ReqInv, pc \in Silent, pc' \in Silent \ {"requestID"},
         UNCHANGED <<req, reply, cause, panicking, counted, logged>>, requestId',
         FileInv', inFile' \in BOOLEAN, outFile' \in BOOLEAN
  PROVE  ReqInv'
BY DEF ReqInv, WireInv, CauseInv, Silent

LEMMA ReqKeeps ==
  ASSUME ReqInv, [Next]_vars
  PROVE  ReqInv'
<1> USE DEF Goto, files, observed
<1>0. UNCHANGED req => Refusal' = Refusal
  BY DEF Refusal
<1>1. CASE RequestID \/ AccessLog
  <2>1. FileInv'
    <3>1. UNCHANGED <<req, inFile, outFile>> /\ pc' \in {"accessLog", "auth"} /\ ~inFile /\ ~outFile
      BY <1>1 DEF RequestID, AccessLog, ReqInv, FileInv, Staged
    <3> QED BY <3>1 DEF FileInv, Staged
  <2> QED BY <1>1, <2>1, Advanced DEF RequestID, AccessLog, Silent, ReqInv, WireInv
<1>2. CASE Auth
  <2>1. CASE pc' = "parse"
    <3>1. FileInv'
      BY <1>0, <1>2, <2>1 DEF Auth, ReqInv, FileInv, Staged
    <3> QED BY <1>2, <2>1, <3>1, Advanced DEF Auth, Silent, ReqInv, WireInv
  <2>2. CASE pc' # "parse"
    <3>1. Problem("", 401).status \in Statuses
      BY DEF Problem, Statuses
    <3>2. ~inFile /\ ~outFile /\ requestId
      BY <1>2 DEF Auth, ReqInv, FileInv, WireInv, Staged
    <3> QED BY <1>2, <2>2, <3>1, <3>2, Replied DEF Auth, Silent
  <2> QED BY <2>1, <2>2
<1>3. CASE Parse
  <2>1. CASE pc' = "capture"
    <3>1. FileInv'
      BY <1>0, <1>3, <2>1 DEF Parse, ReqInv, FileInv, Staged
    <3> QED BY <1>3, <2>1, <3>1, Advanced DEF Parse, Silent, ReqInv, WireInv
  <2>2. CASE pc' # "capture"
    <3>1. ~inFile /\ ~outFile /\ requestId
      BY <1>3 DEF Parse, ReqInv, FileInv, WireInv, Staged
    <3> QED BY <1>3, <2>2, <3>1, Replied, RefusalStatus DEF Parse, Problems, Silent
  <2> QED BY <2>1, <2>2
<1>4. CASE Capture
  <2>1. CASE pc' = "read"
    <3>1. FileInv'
      BY <1>0, <1>4, <2>1 DEF Capture, ReqInv, FileInv, Staged
    <3> QED BY <1>4, <2>1, <3>1, Advanced DEF Capture, Silent, ReqInv, WireInv
  <2>2. CASE pc' # "read"
    <3>1. ~inFile /\ ~outFile /\ requestId
      BY <1>4 DEF Capture, ReqInv, FileInv, WireInv, Staged
    <3>2. \E e \in {{"ErrMissingContentType"}, {}} : Reply(mapError(e))
      BY <1>4, <2>2 DEF Capture, Problems
    <3> QED BY <1>4, <2>2, <3>1, <3>2, Replied, ProblemStatus DEF Capture, Silent
  <2> QED BY <2>1, <2>2
<1>5. CASE ReadBody \/ WriteBody
  <2>1. CASE pc' \in {"write", "run"}
    <3>1. FileInv'
      BY <1>0, <1>5, <2>1 DEF ReadBody, WriteBody, ReqInv, FileInv, Staged
    <3> QED BY <1>5, <2>1, <3>1, Advanced DEF ReadBody, WriteBody, Silent, ReqInv, WireInv
  <2>2. CASE pc' \notin {"write", "run"}
    <3>1. ~outFile /\ requestId
      BY <1>5 DEF ReadBody, WriteBody, ReqInv, FileInv, WireInv
    <3>2. \E e \in {{"ErrPayloadTooLarge"}, {}} : Reply(mapError(e))
      BY <1>5, <2>2 DEF ReadBody, WriteBody, Problems
    <3> QED BY <1>5, <2>2, <3>1, <3>2, Replied, ProblemStatus
        DEF ReadBody, WriteBody, Silent, Staged
  <2> QED BY <2>1, <2>2
<1>6. CASE RunSucceeds
  <2>1. FileInv'
    BY <1>0, <1>6 DEF RunSucceeds, ReqInv, FileInv, Staged
  <2> QED BY <1>6, <2>1, Advanced DEF RunSucceeds, Silent, ReqInv, WireInv
<1>7. CASE RunFailsInChild
  <2>1. PICK e \in WorkerErrors : /\ cause' = {e}
                                  /\ Reply(mapError(classifySubprocessErr(classifyConvertErr(e))))
    BY <1>7 DEF RunFailsInChild, Problems
  <2>2. Reply(mapError(e))
    BY <2>1, ErrorCarried
  <2>3. mapError(e).status \in Statuses
    <3>1. mapError(classifySubprocessErr(classifyConvertErr(e))).status \in Statuses
      BY ProblemStatus DEF classifySubprocessErr
    <3> QED BY <3>1, ErrorCarried
  <2>4. ~outFile /\ requestId
    BY <1>7 DEF RunFailsInChild, ReqInv, FileInv, WireInv
  <2> QED BY <1>7, <2>1, <2>2, <2>3, <2>4, Replied DEF RunFailsInChild, Silent, Staged
<1>8. CASE RunFailsAround \/ RunFailsInServer
  <2>1. PICK p : Reply(p) /\ p.status \in Statuses
    <3>1. CASE RunFailsAround
      BY <3>1, ProblemStatus DEF RunFailsAround, Problems, classifySubprocessErr
    <3>2. CASE RunFailsInServer
      BY <3>2, ProblemStatus DEF RunFailsInServer, Problems
    <3> QED BY <1>8, <3>1, <3>2
  <2>2. ~outFile /\ requestId
    BY <1>8 DEF RunFailsAround, RunFailsInServer, ReqInv, FileInv, WireInv
  <2> QED BY <1>8, <2>1, <2>2, Replied DEF RunFailsAround, RunFailsInServer, Silent, Staged
<1>9. CASE OpenOutput
  <2>1. CASE pc' = "send"
    <3>1. FileInv'
      BY <1>0, <1>9, <2>1 DEF OpenOutput, ReqInv, FileInv, Staged
    <3> QED BY <1>9, <2>1, <3>1, Advanced DEF OpenOutput, Silent, ReqInv, WireInv
  <2>2. CASE pc' = "removeOut"
    <3>1. reply.status = 0 /\ pc = "open" /\ Reply(mapError({}))
          /\ UNCHANGED <<req, requestId, cause, inFile, outFile, panicking, counted, logged>>
      BY <1>9, <2>2 DEF OpenOutput, Problems, ReqInv, WireInv, Silent
    <3>2. reply'.status \in Statuses /\ reply'.status # 0 /\ rec' = reply'.status
      BY <3>1, FirstReply, ProblemStatus
    <3>3. WireInv'
      BY <2>2, <3>1, <3>2 DEF ReqInv, WireInv, Silent
    <3>4. FileInv'
      BY <1>0, <2>2, <3>1 DEF ReqInv, FileInv, Staged
    <3>5. CauseInv'
      BY <3>1 DEF ReqInv, CauseInv
    <3> QED BY <3>1, <3>3, <3>4, <3>5 DEF ReqInv
  <2> QED BY <1>9, <2>1, <2>2 DEF OpenOutput
<1>10. CASE SendHeader
  <2>1. reply.status = 0 /\ pc = "send" /\ pc' = "stream" /\ Reply(Problem("", 200))
        /\ UNCHANGED <<req, requestId, cause, inFile, outFile, panicking, counted, logged>>
    BY <1>10 DEF SendHeader, ReqInv, WireInv, Silent
  <2>2. Problem("", 200).status \in Statuses
    BY DEF Problem, Statuses
  <2>3. reply'.status \in Statuses /\ reply'.status # 0 /\ rec' = reply'.status
    BY <2>1, <2>2, FirstReply
  <2>4. WireInv'
    BY <2>1, <2>3 DEF ReqInv, WireInv, Silent
  <2>5. FileInv'
    BY <1>0, <2>1 DEF ReqInv, FileInv, Staged
  <2>6. CauseInv'
    BY <2>1 DEF ReqInv, CauseInv
  <2> QED BY <2>1, <2>4, <2>5, <2>6 DEF ReqInv
<1>11. CASE Stream \/ RemoveOut \/ RemoveIn \/ Panic
  <2>1. UNCHANGED <<req, requestId, reply, rec, cause, counted, logged>>
    BY <1>11 DEF Stream, RemoveOut, RemoveIn, Panic
  <2>2. inFile' \in BOOLEAN /\ outFile' \in BOOLEAN /\ panicking' \in BOOLEAN
    BY <1>11 DEF Stream, RemoveOut, RemoveIn, Panic, ReqInv
  <2>3. WireInv'
    BY <1>11, <2>1 DEF Stream, RemoveOut, RemoveIn, Panic, ReqInv, WireInv, Silent, Handler
  <2>4. FileInv'
    BY <1>0, <1>11, <2>1 DEF Stream, RemoveOut, RemoveIn, Panic, ReqInv, FileInv, Staged, Handler
  <2>5. CauseInv'
    BY <1>11, <2>1 DEF Stream, RemoveOut, RemoveIn, Panic, ReqInv, CauseInv, Handler
  <2> QED BY <2>2, <2>3, <2>4, <2>5 DEF ReqInv
<1>12. CASE Count \/ Log
  <2>1. FileInv'
    BY <1>0, <1>12 DEF Count, Log, ReqInv, FileInv, Staged
  <2>2. WireInv'
    BY <1>12 DEF Count, Log, ReqInv, WireInv, Silent
  <2>3. CauseInv'
    BY <1>12 DEF Count, Log, ReqInv, CauseInv
  <2> QED BY <1>12, <2>1, <2>2, <2>3 DEF Count, Log, ReqInv
<1>13. CASE Recover
  <2>1. cause = {} /\ panicking /\ requestId /\ counted = 0 /\ logged = 0
    BY <1>13 DEF Recover, ReqInv, WireInv, CauseInv
  <2>2. reply'.status \in Statuses /\ reply'.status # 0
    BY <1>13, ProblemStatus DEF Recover, ReqInv, WireInv, Statuses
  <2>3. WireInv'
    BY <1>13, <2>1, <2>2 DEF Recover, WireInv, Silent
  <2>4. FileInv'
    BY <1>0, <1>13 DEF Recover, ReqInv, FileInv, Staged
  <2>5. CauseInv'
    BY <1>13, <2>1 DEF Recover, CauseInv
  <2> QED BY <1>13, <2>3, <2>4, <2>5 DEF Recover, ReqInv
<1>14. CASE Terminated \/ UNCHANGED vars
  <2>1. UNCHANGED <<req, pc, requestId, reply, rec, cause, inFile, outFile, panicking, counted, logged>>
    BY <1>14 DEF Terminated, vars
  <2> QED BY <1>0, <2>1 DEF ReqInv, WireInv, FileInv, CauseInv
<1> QED BY <1>1, <1>2, <1>3, <1>4, <1>5, <1>6, <1>7, <1>8, <1>9, <1>10, <1>11, <1>12, <1>13, <1>14
        DEF Next

LEMMA ReqInductive == Spec => []ReqInv
<1>1. Init => ReqInv
  <2> SUFFICES ASSUME Init PROVE ReqInv
    OBVIOUS
  <2>1. pc = "requestID" /\ ~panicking /\ ~inFile /\ ~outFile /\ counted = 0 /\ logged = 0
        /\ reply.status = 0 /\ cause = {}
    BY DEF Init, Problem
  <2>2. panicking \in BOOLEAN /\ inFile \in BOOLEAN /\ outFile \in BOOLEAN
    BY DEF Init
  <2> QED BY <2>1, <2>2 DEF ReqInv, WireInv, FileInv, CauseInv, Staged
<1> QED BY <1>1, ReqKeeps, PTL DEF Spec

\* Refusals, failures, truncated streams and panics of convertPDF and
\* handleConversion: neither the staged body nor the output outlives the request.
THEOREM RequestClean == Spec => []NoTempLeft
<1>1. ReqInv => NoTempLeft
  BY DEF ReqInv, FileInv, NoTempLeft, Staged
<1> QED BY <1>1, ReqInductive, PTL

\* RequestMetrics and AccessLog report the status on the wire, for every request
\* whose handler does not panic, and for none that does.
THEOREM RequestRecords == Spec => []RecordsMatchWire
<1>1. ReqInv => RecordsMatchWire
  BY DEF ReqInv, WireInv, RecordsMatchWire
<1> QED BY <1>1, ReqInductive, PTL

\* RequestID runs before anything can answer.
THEOREM RequestIds == Spec => []EveryAnswerHasId
<1>1. ReqInv => EveryAnswerHasId
  BY DEF ReqInv, WireInv, EveryAnswerHasId, Silent
<1> QED BY <1>1, ReqInductive, PTL

\* classifyConvertErr, classifySubprocessErr and mapError together give the client
\* what mapError alone would have given it for the worker's error.
THEOREM RequestErrors == Spec => []ErrorClassSurvives
<1>1. ReqInv => ErrorClassSurvives
  BY DEF ReqInv, CauseInv, ErrorClassSurvives
<1> QED BY <1>1, ReqInductive, PTL

\* With or without a token: no body is staged and no worker asked for a request
\* that Auth or its handler turns away.
THEOREM RequestAdmission == Spec => []ConvertsOnlyAdmitted
<1>1. ReqInv => ConvertsOnlyAdmitted
  BY DEF ReqInv, WireInv, FileInv, ConvertsOnlyAdmitted, Silent, Staged
<1> QED BY <1>1, ReqInductive, PTL

-----------------------------------------------------------------------------
\* The types of the rest of the state.
PCs == Handler \cup {"requestID", "accessLog", "auth", "removeOut", "removeIn",
                     "count", "log", "recover", "done"}

TypeInv ==
  /\ req \in ClientRequests /\ pc \in PCs
  /\ header \in {"", "secret", "[REDACTED]"}
  /\ job \in {"none", "", "secret", "[REDACTED]"}
  /\ requestId \in BOOLEAN /\ rec \in Statuses
  /\ \A e \in cause : e \in WorkerErrors
  /\ counted \in Statuses \cup {0} /\ logged \in Statuses \cup {0}

\* Whatever a step replies with has a status of the API.
LEMMA RecKeeps ==
  ASSUME rec \in Statuses, [Next]_vars
  PROVE  rec' \in Statuses
<1>1. ASSUME NEW p, Reply(p), p.status \in Statuses PROVE rec' \in Statuses
  BY <1>1 DEF Reply
<1>2. CASE Auth
  <2>1. Problem("", 401).status \in Statuses
    BY DEF Problem, Statuses
  <2> QED BY <1>1, <1>2, <2>1 DEF Auth
<1>3. CASE Parse
  BY <1>1, <1>3, RefusalStatus DEF Parse, Problems
<1>4. CASE Capture \/ ReadBody \/ WriteBody \/ OpenOutput
  BY <1>1, <1>4, ProblemStatus DEF Capture, ReadBody, WriteBody, OpenOutput, Problems
<1>5. CASE RunFailsInChild \/ RunFailsAround
  <2>1. \A kind : mapError(classifySubprocessErr(kind)).status \in Statuses
    BY ProblemStatus DEF classifySubprocessErr
  <2> QED BY <1>1, <1>5, <2>1 DEF RunFailsInChild, RunFailsAround, Problems
<1>6. CASE RunFailsInServer
  BY <1>1, <1>6, ProblemStatus DEF RunFailsInServer, Problems
<1>7. CASE SendHeader
  <2>1. Problem("", 200).status \in Statuses
    BY DEF Problem, Statuses
  <2> QED BY <1>1, <1>7, <2>1 DEF SendHeader
<1>8. CASE UNCHANGED rec
  BY <1>8
<1>9. CASE RequestID \/ AccessLog \/ RunSucceeds \/ Stream \/ Panic \/ RemoveOut \/ RemoveIn
           \/ Count \/ Log \/ Recover \/ Terminated \/ UNCHANGED vars
  BY <1>9 DEF RequestID, AccessLog, RunSucceeds, Stream, Panic, RemoveOut, RemoveIn, Count, Log,
              Recover, Terminated, vars
<1> QED BY <1>2, <1>3, <1>4, <1>5, <1>6, <1>7, <1>9 DEF Next

LEMMA TypesKeep ==
  ASSUME TypeInv, [Next]_vars
  PROVE  TypeInv'
<1> USE DEF TypeInv, PCs, Handler, Goto, observed
<1>1. rec' \in Statuses
  BY RecKeeps
<1>2. CASE RequestID \/ AccessLog \/ Auth
  <2>1. UNCHANGED <<req, job, cause, counted, logged>>
    BY <1>2 DEF RequestID, AccessLog, Auth
  <2>2. header' \in {header, "", "[REDACTED]"} /\ requestId' \in {requestId, TRUE}
    BY <1>2 DEF RequestID, AccessLog, Auth
  <2>3. pc' \in {"accessLog", "auth", "parse", "count"}
    BY <1>2 DEF RequestID, AccessLog, Auth
  <2> QED BY <1>1, <2>1, <2>2, <2>3
<1>3. CASE Parse \/ Capture \/ ReadBody \/ WriteBody
  BY <1>1, <1>3 DEF Parse, Capture, ReadBody, WriteBody
<1>4. CASE RunSucceeds \/ RunFailsInChild \/ RunFailsAround \/ RunFailsInServer
  BY <1>1, <1>4 DEF RunSucceeds, RunFailsInChild, RunFailsAround, RunFailsInServer
<1>5. CASE OpenOutput \/ SendHeader \/ Stream \/ RemoveOut \/ RemoveIn \/ Panic
  BY <1>1, <1>5 DEF OpenOutput, SendHeader, Stream, RemoveOut, RemoveIn, Panic
<1>6. CASE Count \/ Log \/ Recover
  BY <1>1, <1>6 DEF Count, Log, Recover
<1>7. CASE Terminated \/ UNCHANGED vars
  BY <1>1, <1>7 DEF Terminated, vars
<1> QED BY <1>2, <1>3, <1>4, <1>5, <1>6, <1>7 DEF Next

\* Every variable of a request has its type; statuses are those of the problem
\* documents and 200.
THEOREM RequestTypeOK == Spec => []TypeOK
<1>1. Init => TypeInv
  <2>1. \A r \in ClientRequests : r.password \in {"", "secret"}
    BY DEF ClientRequests
  <2>2. 0 \in Statuses \cup {0} /\ 200 \in Statuses
    BY DEF Statuses
  <2> QED BY <2>1, <2>2 DEF Init, TypeInv, PCs
<1>2. ReqInv /\ TypeInv => TypeOK
  BY DEF ReqInv, WireInv, TypeInv, PCs, TypeOK
<1> QED BY <1>1, <1>2, TypesKeep, ReqInductive, PTL DEF Spec

-----------------------------------------------------------------------------
\* AccessLog has been at the header map before any handler reads it.
PasswordInv ==
  /\ pc \in {"requestID", "accessLog"} => header = req.password
  /\ pc \in {"auth", "parse"} => header = IF req.password = "" THEN "" ELSE "[REDACTED]"
  /\ pc \in {"capture", "read", "write", "run"} =>
       job = IF req.password = "" THEN "" ELSE "[REDACTED]"

\* The run request_password, for every request: the converter gets the password it
\* was sent if and only if it was sent none, as all others are replaced.
THEOREM RequestPasswords == Spec => [](pc = "run" => (PasswordReachesConverter <=> req.password = ""))
<1>1. Init => PasswordInv
  BY DEF Init, PasswordInv
<1>2. PasswordInv /\ [Next]_vars => PasswordInv'
  <2> SUFFICES ASSUME PasswordInv, [Next]_vars PROVE PasswordInv'
    OBVIOUS
  <2>1. UNCHANGED req
    BY DEF Next, vars, RequestID, AccessLog, Auth, Parse, Capture, ReadBody, WriteBody, RunSucceeds,
           RunFailsInChild, RunFailsAround, RunFailsInServer, OpenOutput, SendHeader, Stream,
           Panic, RemoveOut, RemoveIn, Count, Log, Recover, Terminated
  <2> USE DEF PasswordInv, Goto
  <2>2. CASE RequestID \/ AccessLog \/ Auth \/ Parse
    BY <2>1, <2>2 DEF RequestID, AccessLog, Auth, Parse
  <2>3. CASE Capture \/ ReadBody \/ WriteBody
    BY <2>1, <2>3 DEF Capture, ReadBody, WriteBody
  <2>4. CASE RunSucceeds \/ RunFailsInChild \/ RunFailsAround \/ RunFailsInServer \/ OpenOutput
             \/ SendHeader \/ Stream \/ Panic \/ RemoveOut \/ RemoveIn \/ Count \/ Log \/ Recover
    BY <2>1, <2>4 DEF RunSucceeds, RunFailsInChild, RunFailsAround, RunFailsInServer, OpenOutput,
                      SendHeader, Stream, Panic, RemoveOut, RemoveIn, Count, Log, Recover
  <2>5. CASE Terminated \/ UNCHANGED vars
    BY <2>1, <2>5 DEF Terminated, vars
  <2> QED BY <2>2, <2>3, <2>4, <2>5 DEF Next
<1>3. TypeOK /\ PasswordInv => (pc = "run" => (PasswordReachesConverter <=> req.password = ""))
  <2>1. \A r \in ClientRequests : r.password # "[REDACTED]"
    BY DEF ClientRequests
  <2> QED BY <2>1 DEF TypeOK, PasswordInv, PasswordReachesConverter
<1> QED BY <1>1, <1>2, <1>3, RequestTypeOK, PTL DEF Spec

\* Of every request, those that panic, and no others, are missing in the metrics or in
\* the log when they end: the promise of metrics.go:92-93 and middleware.go:90, a record
\* of every request, is broken by each panic and by nothing else.
THEOREM RequestsUnrecorded == Spec => [](pc = "done" => (EveryRequestRecorded <=> ~panicking))
<1>1. ReqInv => (pc = "done" => (EveryRequestRecorded <=> ~panicking))
  <2> SUFFICES ASSUME ReqInv, pc = "done" PROVE EveryRequestRecorded <=> ~panicking
    OBVIOUS
  <2>1. panicking \in BOOLEAN /\ reply.status # 0
    BY DEF ReqInv, WireInv
  <2>2. panicking => counted = 0
    BY DEF ReqInv, WireInv
  <2>3. ~panicking => counted = reply.status /\ logged = reply.status
    BY DEF ReqInv, WireInv
  <2> QED BY <2>1, <2>2, <2>3 DEF EveryRequestRecorded
<1> QED BY <1>1, ReqInductive, PTL
=============================================================================
