---------------------------- MODULE ErrorContract ----------------------------
(***************************************************************************)
(* How a conversion error travels: worker.Pool.Run returns it in the child, *)
(* classifyConvertErr names it on the child's last stdout line,             *)
(* classifySubprocessErr turns the name back into a sentinel in the server  *)
(* and mapError chooses the status of the problem document.                 *)
(*                                                                          *)
(* An error is the set of sentinels that errors.Is finds in its chain; a    *)
(* switch on errors.Is takes the first case that matches.                   *)
(***************************************************************************)
EXTENDS Integers, Sequences, FiniteSetsExt

Case(sentinel, value) == [is |-> sentinel, then |-> value]
Problem(slug, status) == [slug |-> slug, status |-> status]

\* A Go switch on errors.Is with the given cases and default.
Switch(cases, e, default) ==
  LET hits == {i \in DOMAIN cases : cases[i].is \in e}
  IN  IF hits = {} THEN default ELSE cases[Min(hits)].then

convertCases ==
  <<Case("ErrPasswordRequired", "password-required"),
    Case("ErrWrongPassword", "password-wrong"),
    Case("ErrUnsupportedFormat", "unsupported-document"),
    Case("ErrLOKUnsupported", "lok-unsupported"),
    Case("ErrPageOutOfRange", "page-out-of-range"),
    Case("ErrInvalidDPI", "invalid-dpi"),
    Case("ErrPNGGridTooLarge", "png-grid-too-large"),
    Case("ErrMarkdownConversion", "markdown-pipeline"),
    Case("ErrOCRFailed", "ocr-failed"),
    Case("ErrOCRUnavailable", "ocr-unavailable"),
    Case("DeadlineExceeded", "timeout")>>

\* The string the child prints for an error.
classifyConvertErr(e) == Switch(convertCases, e, "internal")

subprocessCases ==
  <<Case("password-required", "ErrPasswordRequired"),
    Case("password-wrong", "ErrWrongPassword"),
    Case("unsupported-document", "ErrUnsupportedFormat"),
    Case("lok-unsupported", "ErrLOKUnsupported"),
    Case("page-out-of-range", "ErrPageOutOfRange"),
    Case("invalid-dpi", "ErrInvalidDPI"),
    Case("png-grid-too-large", "ErrPNGGridTooLarge"),
    Case("markdown-pipeline", "ErrMarkdownConversion"),
    Case("ocr-failed", "ErrOCRFailed"),
    Case("ocr-unavailable", "ErrOCRUnavailable"),
    Case("timeout", "DeadlineExceeded")>>

\* Fault: the server does not know the strings of the OCR errors.
classifySubprocessErrNoOCR(kind) ==
  {Switch(SubSeq(subprocessCases, 1, 8), {kind}, "other")}

\* The error the server makes of the string.
classifySubprocessErr(kind) == {Switch(subprocessCases, {kind}, "other")}

BadRequest == Problem("bad-request", 400)
MediaType == Problem("unsupported-media-type", 415)

problemCases ==
  <<Case("ErrQueueFull", Problem("queue-full", 429)),
    Case("ErrPoolClosed", Problem("shutting-down", 503)),
    Case("ErrPasswordRequired", Problem("password-required", 422)),
    Case("ErrWrongPassword", Problem("password-wrong", 422)),
    Case("ErrUnsupportedFormat", Problem("unsupported-document", 422)),
    Case("ErrMarkdownConversion", Problem("markdown-pipeline", 500)),
    Case("ErrLOKUnsupported", Problem("lok-unsupported", 501)),
    Case("ErrOCRUnavailable", Problem("ocr-unavailable", 503)),
    Case("ErrOCRFailed", Problem("ocr-failed", 502)),
    Case("ErrPageOutOfRange", BadRequest),
    Case("ErrInvalidDPI", BadRequest),
    Case("ErrPNGGridTooLarge", BadRequest),
    Case("ErrMissingContentType", MediaType),
    Case("ErrPDFNotAcceptedAsInput", MediaType),
    Case("ErrPayloadTooLarge", Problem("payload-too-large", 413)),
    Case("DeadlineExceeded", Problem("timeout", 504)),
    Case("ErrBadQuery", BadRequest)>>

mapError(e) == Switch(problemCases, e, Problem("internal", 500))

\* What Pool.Run returns in the child: a context that ended, the sentinels that
\* Classify and the formats return (an encrypted PDF on the markdown route is
\* wrapped twice) and errors without one.
WorkerErrors ==
  {{s} : s \in {"DeadlineExceeded", "ErrPasswordRequired", "ErrWrongPassword",
                "ErrUnsupportedFormat", "ErrLOKUnsupported", "ErrPageOutOfRange",
                "ErrInvalidDPI", "ErrPNGGridTooLarge", "ErrMarkdownConversion",
                "ErrOCRFailed"}}
  \cup {{"ErrMarkdownConversion", "ErrPasswordRequired"}, {}}

\* runConvert also fails with strings of its own, before and after Pool.Run.
failConvertKinds == {"bad-flags", "config", "lok-path", "ocr-unavailable", "write-output"}
=============================================================================
