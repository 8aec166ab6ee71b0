------------------------------- MODULE Request -------------------------------
(***************************************************************************)
(* One conversion request through the server's middleware stack and         *)
(* handler: Recover, RequestID, AccessLog, RequestMetrics, Auth, MaxBytes   *)
(* (internal/server/router.go), a handler and handleConversion              *)
(* (internal/server/handler_pdf.go).  Requests share nothing but the        *)
(* converter, which is module Subprocess: here it answers at once.          *)
(*                                                                          *)
(* The middlewares share one header map: r.WithContext copies the request,  *)
(* not its headers.                                                         *)
(***************************************************************************)
EXTENDS Integers, FiniteSets, ErrorContract

CONSTANTS
  TokenSet,     \* APIToken is not empty
  OCRAvailable  \* the probe at startup found a usable Tesseract

ASSUME RequestAssumption ==
  /\ TokenSet \in BOOLEAN
  /\ OCRAvailable \in BOOLEAN

VARIABLES
  req,      \* what the client sent
  pc,       \* the middleware or handler statement that runs
  header,   \* X-Bi-Password in the shared header map
  job,      \* the password in the worker.Job
  requestId,\* X-Bi-Request-Id is among the response headers
  reply,    \* problem type and status on the wire; status 0: nothing sent
  rec,      \* what the two statusRecorders hold
  cause,    \* the error of Pool.Run in the child, if it failed
  inFile,   \* the staged request body exists
  outFile,  \* the converter's output file exists
  panicking,\* the handler panicked
  counted,  \* the status label bi_requests_total was incremented with
  logged    \* the status of the access-log line

files == <<inFile, outFile>>
observed == <<counted, logged>>
vars == <<req, pc, header, job, requestId, reply, rec, cause, files, panicking, observed>>

-----------------------------------------------------------------------------
Routes == {"pdf", "png", "thumbnail", "markdown"}

\* What clients send, as far as the chain tells requests apart.  The query is
\* well-formed, malformed, or asks for OCR on every page.
ClientRequests ==
  {r \in [route : Routes, token : {"right", "wrong"}, password : {"", "secret"},
          contentType : {"", "office", "pdf"}, query : {"ok", "bad", "ocr=always"},
          body : {"small", "large", "broken"}] :
     /\ r.query = "bad" => r.route # "pdf"
     /\ r.query = "ocr=always" => r.route = "markdown"}

\* Statements whose panic unwinds through the handler's deferred calls.
Handler == {"parse", "capture", "read", "write", "run", "open", "send", "stream"}

Init ==
  /\ req \in ClientRequests
  /\ pc = "requestID"
  /\ header = req.password
  /\ job = "none"
  /\ requestId = FALSE
  /\ reply = Problem("", 0)
  /\ rec = 200
  /\ cause = {}
  /\ inFile = FALSE
  /\ outFile = FALSE
  /\ panicking = FALSE
  /\ counted = 0
  /\ logged = 0

Goto(from, to) == pc = from /\ pc' = to

\* WriteHeader through both recorders; net/http keeps the first status.
Reply(p) ==
  /\ reply' = IF reply.status = 0 THEN p ELSE reply
  /\ rec' = p.status

\* WriteProblem
Problems(e) == Reply(mapError(e))

-----------------------------------------------------------------------------
\* Fault: the header is set after the handler ran.
RequestIDLate ==
  /\ Goto("requestID", "accessLog")
  /\ UNCHANGED <<req, header, job, requestId, reply, rec, cause, files, panicking, observed>>

RequestID ==
  /\ Goto("requestID", "accessLog")
  /\ requestId' = TRUE
  /\ UNCHANGED <<req, header, job, reply, rec, cause, files, panicking, observed>>

\* AccessLog overwrites a password in the header map, then calls next.
AccessLog ==
  /\ Goto("accessLog", "auth")
  /\ header' = IF header = "" THEN "" ELSE "[REDACTED]"
  /\ UNCHANGED <<req, job, requestId, reply, rec, cause, files, panicking, observed>>

\* Fault: the 401 is written and the handler called all the same.
AuthContinues ==
  /\ Goto("auth", "parse")
  /\ IF TokenSet /\ req.token # "right" THEN Reply(Problem("", 401)) ELSE UNCHANGED <<reply, rec>>
  /\ UNCHANGED <<req, header, job, requestId, cause, files, panicking, observed>>

Auth ==
  /\ \/ /\ TokenSet /\ req.token # "right"
        /\ Goto("auth", "count")
        /\ Reply(Problem("", 401))
     \/ /\ TokenSet => req.token = "right"
        /\ Goto("auth", "parse")
        /\ UNCHANGED <<reply, rec>>
  /\ UNCHANGED <<req, header, job, requestId, cause, files, panicking, observed>>

\* What convertPDF, handlePNGLike and convertMarkdown refuse before they call
\* handleConversion.
Refusal ==
  CASE req.route = "pdf" /\ req.contentType = "pdf" -> {"ErrPDFNotAcceptedAsInput"}
    [] req.query = "bad" -> {"ErrBadQuery"}
    [] req.query = "ocr=always" /\ ~OCRAvailable -> {"ErrOCRUnavailable"}
    [] OTHER -> {}

Parse ==
  /\ \/ /\ Refusal # {}
        /\ Goto("parse", "count")
        /\ Problems(Refusal)
        /\ UNCHANGED job
     \/ /\ Refusal = {}
        /\ Goto("parse", "capture")
        /\ job' = header
        /\ UNCHANGED <<reply, rec>>
  /\ UNCHANGED <<req, header, requestId, cause, files, panicking, observed>>

\* Content-Type check and CreateTemp; os.Remove(tmpName) is deferred.
Capture ==
  /\ \/ /\ req.contentType = ""
        /\ Goto("capture", "count")
        /\ Problems({"ErrMissingContentType"})
        /\ UNCHANGED inFile
     \/ /\ req.contentType # ""
        /\ Goto("capture", "count")
        /\ Problems({})
        /\ UNCHANGED inFile
     \/ /\ req.contentType # ""
        /\ Goto("capture", "read")
        /\ inFile' = TRUE
        /\ UNCHANGED <<reply, rec>>
  /\ UNCHANGED <<req, header, job, requestId, cause, outFile, panicking, observed>>

\* io.ReadAll of the body behind MaxBytesReader.
ReadBody ==
  /\ \/ /\ req.body = "small"
        /\ Goto("read", "write")
        /\ UNCHANGED <<reply, rec>>
     \/ /\ req.body # "small"
        /\ Goto("read", "removeIn")
        /\ Problems(IF req.body = "large" THEN {"ErrPayloadTooLarge"} ELSE {})
  /\ UNCHANGED <<req, header, job, requestId, cause, files, panicking, observed>>

WriteBody ==
  /\ \/ /\ Goto("write", "run")
        /\ UNCHANGED <<reply, rec>>
     \/ /\ Goto("write", "removeIn")
        /\ Problems({})
  /\ UNCHANGED <<req, header, job, requestId, cause, files, panicking, observed>>

-----------------------------------------------------------------------------
\* Conv.Run: an output file, ...
RunSucceeds ==
  /\ Goto("run", "open")
  /\ outFile' = TRUE
  /\ UNCHANGED <<req, header, job, requestId, reply, rec, cause, inFile, panicking, observed>>

\* ... an error that the child classified, ...
RunFailsInChild ==
  /\ Goto("run", "removeIn")
  /\ \E e \in WorkerErrors :
       /\ cause' = {e}
       /\ Problems(classifySubprocessErr(classifyConvertErr(e)))
  /\ UNCHANGED <<req, header, job, requestId, files, panicking, observed>>

\* ... one of runConvert's own strings, ...
RunFailsAround ==
  /\ Goto("run", "removeIn")
  /\ \E kind \in failConvertKinds : Problems(classifySubprocessErr(kind))
  /\ UNCHANGED <<req, header, job, requestId, cause, files, panicking, observed>>

\* ... or the limiter's refusal, the context's error or an internal one.
RunFailsInServer ==
  /\ Goto("run", "removeIn")
  /\ \E e \in {{"ErrQueueFull"}, {"DeadlineExceeded"}, {}} : Problems(e)
  /\ UNCHANGED <<req, header, job, requestId, cause, files, panicking, observed>>

\* os.Open and Stat of the output; its os.Remove is deferred already.
OpenOutput ==
  /\ \/ /\ Goto("open", "send")
        /\ UNCHANGED <<reply, rec>>
     \/ /\ Goto("open", "removeOut")
        /\ Problems({})
  /\ UNCHANGED <<req, header, job, requestId, cause, files, panicking, observed>>

SendHeader ==
  /\ Goto("send", "stream")
  /\ Reply(Problem("", 200))
  /\ UNCHANGED <<req, header, job, requestId, cause, files, panicking, observed>>

\* Fault: a truncated stream is reported with a problem document.
StreamReports ==
  /\ Goto("stream", "removeOut")
  /\ \/ UNCHANGED <<reply, rec>>
     \/ Problems({})
  /\ UNCHANGED <<req, header, job, requestId, cause, files, panicking, observed>>

\* io.Copy: complete or not, the status is out.
Stream ==
  /\ Goto("stream", "removeOut")
  /\ UNCHANGED <<req, header, job, requestId, reply, rec, cause, files, panicking, observed>>

\* The handler panics: the deferred calls registered so far run.
Panic ==
  /\ pc \in Handler
  /\ panicking' = TRUE
  /\ pc' = IF outFile THEN "removeOut" ELSE IF inFile THEN "removeIn" ELSE "recover"
  /\ UNCHANGED <<req, header, job, requestId, reply, rec, cause, files, observed>>

\* defer os.Remove(res.OutPath)
RemoveOut ==
  /\ Goto("removeOut", "removeIn")
  /\ outFile' = FALSE
  /\ UNCHANGED <<req, header, job, requestId, reply, rec, cause, inFile, panicking, observed>>

\* Fault: the staged body is removed at the end of the handler, not deferred.
RemoveInUndeferred ==
  /\ pc = "removeIn"
  /\ pc' = IF panicking THEN "recover" ELSE "count"
  /\ inFile' = (inFile /\ panicking)
  /\ UNCHANGED <<req, header, job, requestId, reply, rec, cause, outFile, panicking, observed>>

\* defer os.Remove(tmpName)
RemoveIn ==
  /\ pc = "removeIn"
  /\ pc' = IF panicking THEN "recover" ELSE "count"
  /\ inFile' = FALSE
  /\ UNCHANGED <<req, header, job, requestId, reply, rec, cause, outFile, panicking, observed>>

-----------------------------------------------------------------------------
\* RequestMetrics after next: one increment.
Count ==
  /\ Goto("count", "log")
  /\ counted' = rec
  /\ UNCHANGED <<req, header, job, requestId, reply, rec, cause, files, panicking, logged>>

\* AccessLog after next: one line.
Log ==
  /\ Goto("log", "done")
  /\ logged' = rec
  /\ UNCHANGED <<req, header, job, requestId, reply, rec, cause, files, panicking, counted>>

\* Recover: a problem document past the recorders, which the panic unwound.
Recover ==
  /\ Goto("recover", "done")
  /\ reply' = IF reply.status = 0 THEN mapError({}) ELSE reply
  /\ UNCHANGED <<req, header, job, requestId, rec, cause, files, panicking, observed>>

Terminated == pc = "done" /\ UNCHANGED vars

Next ==
  \/ RequestID \/ AccessLog \/ Auth \/ Parse \/ Capture \/ ReadBody \/ WriteBody
  \/ RunSucceeds \/ RunFailsInChild \/ RunFailsAround \/ RunFailsInServer
  \/ OpenOutput \/ SendHeader \/ Stream \/ Panic \/ RemoveOut \/ RemoveIn
  \/ Count \/ Log \/ Recover \/ Terminated

Spec == Init /\ [][Next]_vars

-----------------------------------------------------------------------------
Statuses == {200, 400, 401, 413, 415, 422, 429, 500, 501, 502, 503, 504}

TypeOK ==
  /\ req \in ClientRequests
  /\ pc \in Handler \cup {"requestID", "accessLog", "auth", "removeOut", "removeIn",
                          "count", "log", "recover", "done"}
  /\ header \in {"", "secret", "[REDACTED]"}
  /\ job \in {"none", "", "secret", "[REDACTED]"}
  /\ requestId \in BOOLEAN
  /\ reply.status \in Statuses \cup {0} /\ rec \in Statuses
  /\ \A e \in cause : e \in WorkerErrors
  /\ inFile \in BOOLEAN /\ outFile \in BOOLEAN /\ panicking \in BOOLEAN
  /\ counted \in Statuses \cup {0} /\ logged \in Statuses \cup {0}

\* However the request ended (refused, failed at any step, truncated stream,
\* panic), neither the staged body nor the output is left on the disk.
NoTempLeft == pc = "done" => ~inFile /\ ~outFile

\* What bi_requests_total and the access log say of a request is the status the
\* client got: no path writes a second status after the first one went out.  And
\* every request is answered and, unless it panics, in both records.
RecordsMatchWire ==
  /\ counted # 0 => counted = reply.status
  /\ logged # 0 => logged = reply.status
  /\ pc = "done" =>
       /\ reply.status # 0
       /\ ~panicking => counted # 0 /\ logged # 0

\* RequestMetrics "records bi_requests_total for every request" (metrics.go:92-93),
\* AccessLog "emits one structured JSON line per request" (middleware.go:90).  Theorem
\* RequestsUnrecorded of RequestProofs shows which requests break this.
EveryRequestRecorded == pc = "done" => counted # 0 /\ logged # 0

\* Every response carries X-Bi-Request-Id: the 401 of Auth, refusals and the
\* problem document of a panic, too.
EveryAnswerHasId == reply.status # 0 => requestId

\* The process boundary loses no class of error: the client gets the status and
\* the problem type that mapError has for the error the worker returned.
ErrorClassSurvives == pc = "done" => \A e \in cause : reply = mapError(e)

\* Nothing is staged for a caller without the token or for a request that a
\* handler refuses, and no worker is asked once a reply is on the wire.
ConvertsOnlyAdmitted ==
  /\ inFile => (TokenSet => req.token = "right") /\ Refusal = {}
  /\ pc = "run" => reply.status = 0 /\ req.body = "small"

\* README: "X-Bi-Password: password for encrypted input documents."
PasswordReachesConverter == pc = "run" => job = req.password
=============================================================================
