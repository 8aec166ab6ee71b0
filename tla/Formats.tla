------------------------------- MODULE Formats -------------------------------
(***************************************************************************)
(* One conversion from the query, or the flags of `bi convert`, to the      *)
(* output: the handler makes a job of it, buildSubprocessArgs and buildJob  *)
(* carry it into the child (module Handoff), runConvert opens the OCR       *)
(* engine, and Pool.execute, which module Pool takes as one step, runs the  *)
(* pipeline of the format (internal/worker/run_*.go): load the document,    *)
(* render or save it, write the output, return through the deferred calls.  *)
(* Each call of LibreOffice, the PDF reader, Tesseract or the file system   *)
(* may fail, and the job's deadline may pass between any two of them.       *)
(***************************************************************************)
EXTENDS Handoff, FiniteSets, ErrorContract

CONSTANTS
  MaxParts,  \* documents have at most this many pages
  GridSides, \* the columns and rows that clients ask for
  MaxPixels, \* maxPNGGridPixels
  PageSize(_)\* width and height of a rendered page in pixels, at any DPI

ASSUME FormatsAssumption ==
  /\ MaxParts \in Nat \ {0}
  /\ GridSides \subseteq Int
  /\ MaxPixels \in Nat
  /\ 4 * MaxPixels < IntLimit  \* as 100,000,000 is in 64 bits
  \* The pixels of a full grid can be counted in 64 bits: 2^28 pixels a side will do.
  /\ \A p, q \in 0..(MaxParts - 1) :
       /\ PageSize(p) \in (Nat \ {0}) \X (Nat \ {0})
       /\ MaxCells * PageSize(p)[1] * PageSize(q)[2] < IntLimit

VARIABLES
  ask,      \* who asks for what, the document, and the OCR set-up
  job,      \* the handler's worker.Job
  work,     \* the child's worker.Job
  pc,       \* the next call
  ctx,      \* the context of the job: its deadline, nobody cancels it
  doc,      \* the LOK document
  deferred, \* deferred calls registered so far
  temps,    \* temp files on the disk
  picture,  \* what the PNG shows: the canvas, and each page with its place
  body,     \* sections of the markdown of a PDF, one per page done
  packs,    \* language packs that Tesseract was told to load
  outcome,  \* what became of the request
  err       \* the sentinels of the error, if it is one

jobs == <<ask, job, work>>
texts == <<body, packs>>
vars == <<jobs, pc, ctx, doc, deferred, temps, picture, texts, outcome, err>>

-----------------------------------------------------------------------------
Out == <<"out", 0>>
Html == <<"html", 0>>
Page(i) == <<"page", i>>

\* Selections of pages, which need not be there, and layouts, which need not
\* suit them; <<0, 0>> is no page and <<2>> no layout.
OnePage == {<<p>> : p \in 0..(MaxParts - 1)}
PageParams == {<<>>, <<0, 0>>} \cup OnePage
PagesParams == (UNION {[1..k -> -1..(MaxParts - 1)] : k \in 0..MaxSelected})
               \cup {[i \in 1..(MaxSelected + 1) |-> 0]}
LayoutParams == {<<>>, <<2>>} \cup (GridSides \X GridSides)
LangParams == {<<>>, <<"auto">>, <<"all">>, <<"fra">>} \cup {<<l>> : l \in SupportedLangs}

\* With range, pages are the first and the last of one, spelled like 3-5.
PNGQueries ==
  {q \in [format : {"png"}, page : PageParams, pages : PagesParams, range : BOOLEAN,
          layout : LayoutParams, dpi : {"", "0.5", "5.0", "NaN"}, thumbnail : BOOLEAN] :
     q.range => Len(q.pages) = 2 /\ 0 <= q.pages[1] /\ q.pages[1] < q.pages[2]}
PNGFlags ==
  [format : {"png"}, page : {<<>>} \cup OnePage, pages : PagesParams, layout : LayoutParams,
   dpi : {"1.0", "5.0"}]
MarkdownQueries ==
  [format : {"markdown"}, images : {"", "drop"}, marp : BOOLEAN,
   ocr : {"", "always", "never"}, lang : LangParams]
MarkdownFlags ==
  [format : {"markdown"}, images : {"embed"}, marp : {FALSE},
   ocr : {"auto", "always", "never"}, lang : LangParams]

\* A PDF on the markdown route has pages with and without enough text for
\* OCRTextThreshold.
Paged == [pdf : {FALSE}, parts : 1..MaxParts, text : {<<>>}]
PDFs == UNION {[pdf : {TRUE}, parts : {n}, text : [1..n -> BOOLEAN]] : n \in 0..MaxParts}
PDFJobs == [format : {"pdf"}]

Asks ==
       [via : {"http"}, q : PNGQueries, doc : Paged, served : {FALSE}, engine : {FALSE}]
  \cup [via : {"cli"}, q : PNGFlags, doc : Paged, served : {FALSE}, engine : {FALSE}]
  \cup [via : {"http"}, q : MarkdownQueries, doc : PDFs \cup Paged, served : BOOLEAN, engine : BOOLEAN]
  \cup [via : {"cli"}, q : MarkdownFlags, doc : PDFs \cup Paged, served : {FALSE}, engine : BOOLEAN]
  \cup [via : {"http", "cli"}, q : PDFJobs, doc : Paged, served : {FALSE}, engine : {FALSE}]

NoJob == [format |-> "none"]
NoPicture == [w |-> 0, h |-> 0, at |-> <<>>]

Init ==
  /\ ask \in Asks
  /\ job = NoJob
  /\ work = NoJob
  /\ pc = IF ask.via = "http" THEN "handle" ELSE "flags"
  /\ ctx = "live"
  /\ doc = "none"
  /\ deferred = {}
  /\ temps = {}
  /\ picture = NoPicture
  /\ body = <<>>
  /\ packs = {}
  /\ outcome = "none"
  /\ err = {}

\* Errors of LOK calls, as Classify returns them.
LOKErrors == {{"ErrPasswordRequired"}, {"ErrWrongPassword"}, {"ErrUnsupportedFormat"},
              {"ErrLOKUnsupported"}, {}}

At(here) == pc = here
Goto(there) == pc' = there /\ UNCHANGED <<outcome, err>>

\* The request ends before Pool.Run.
End(how) == pc' = "done" /\ outcome' = how /\ UNCHANGED err

\* Return: the deferred calls are next.
Fail(e) == pc' = "unwind" /\ outcome' = "error" /\ err' = e
Succeed == pc' = "unwind" /\ outcome' = "file" /\ UNCHANGED err

OnPDF == work.format = "markdown" /\ ask.doc.pdf

AfterLoad ==
  CASE work.format = "pdf" -> "create"
    [] work.format = "png" -> "parts"
    [] work.format = "markdown" /\ ~ask.doc.pdf -> "html"
    [] OnPDF -> "page"

-----------------------------------------------------------------------------
\* The handler: a query that it does not accept gets a problem document.
Handle ==
  /\ At("handle")
  /\ \/ ~Accepts(ask.q, ask.served) /\ End("refused") /\ UNCHANGED job
     \/ Accepts(ask.q, ask.served) /\ Goto("flags") /\ job' = JobOfQuery(ask.q)
  /\ UNCHANGED <<ask, work, ctx, doc, deferred, temps, picture, texts>>

Flags == IF ask.via = "http" THEN buildSubprocessArgs(job) ELSE ask.q

\* runConvert: the job from the flags.
BuildJob ==
  /\ At("flags")
  /\ \/ ~FlagsOK(Flags) /\ End("bad-flags") /\ UNCHANGED work
     \/ FlagsOK(Flags) /\ Goto("engine") /\ work' = buildJob(Flags)
  /\ UNCHANGED <<ask, job, ctx, doc, deferred, temps, picture, texts>>

\* ocr.New, if it is called, finds tessdata and all the packs it has to.
EngineOpens == work.format = "markdown" /\ work.ocr # "never" /\ ask.engine

OpenEngine ==
  /\ At("engine")
  /\ IF work.format = "markdown" /\ work.ocr = "always" /\ ~EngineOpens
     THEN End("ocr-unavailable")
     ELSE Goto("start")
  /\ UNCHANGED <<jobs, ctx, doc, deferred, temps, picture, texts>>

-----------------------------------------------------------------------------
\* ctx.Err() and, for PNG, the range of the DPI.
Begin ==
  /\ At("start")
  /\ LET badDPI == work.format = "png" /\ DPIOutOfRange(work.dpi)
     IN  \/ ctx = "done" /\ Fail({"DeadlineExceeded"})
         \/ ctx = "live" /\ badDPI /\ Fail({"ErrInvalidDPI"})
         \/ ctx = "live" /\ ~badDPI /\ Goto(IF OnPDF THEN "extract" ELSE "load")
  /\ UNCHANGED <<jobs, ctx, doc, deferred, temps, picture, texts>>

\* extractPDFPages; without OCR the extracted pages are the result.
Extract ==
  /\ At("extract")
  /\ \/ \E e \in {{}, {"ErrPasswordRequired"}} : Fail({"ErrMarkdownConversion"} \cup e) /\ UNCHANGED body
     \/ ~EngineOpens /\ Goto("write") /\ body' = [i \in 1..ask.doc.parts |-> "text"]
     \/ EngineOpens /\ Goto("load") /\ UNCHANGED body
  /\ UNCHANGED <<jobs, ctx, doc, deferred, temps, picture, packs>>

\* office.Load; doc.Close is deferred.
Load ==
  /\ At("load")
  /\ \/ /\ \E e \in LOKErrors : Fail(e)
        /\ UNCHANGED <<doc, deferred>>
     \/ /\ doc' = "open"
        /\ deferred' = deferred \cup {"close"}
        /\ Goto(AfterLoad)
  /\ UNCHANGED <<jobs, ctx, temps, picture, texts>>

-----------------------------------------------------------------------------
\* runPDF: CreateTemp, for SaveAs to write to.
CreatePDF ==
  /\ At("create")
  /\ \/ Fail({}) /\ UNCHANGED temps
     \/ Goto("save") /\ temps' = temps \cup {Out}
  /\ UNCHANGED <<jobs, ctx, doc, deferred, picture, texts>>

\* Fault: a failed GetParts returns without removing the output.
SavePDFLeaky ==
  /\ At("save")
  /\ \/ \E e \in LOKErrors : Fail(e)
     \/ Succeed
  /\ UNCHANGED <<jobs, ctx, doc, deferred, temps, picture, texts>>

\* runPDF: GetParts and SaveAs; when either fails the output is removed.
SavePDF ==
  /\ At("save")
  /\ \/ /\ \E e \in LOKErrors : Fail(e)
        /\ temps' = temps \ {Out}
     \/ Succeed /\ UNCHANGED temps
  /\ UNCHANGED <<jobs, ctx, doc, deferred, picture, texts>>

-----------------------------------------------------------------------------
\* The pages to render; one of them without a grid goes straight to the output.
Selected == IF work.pages = <<>> THEN <<work.page>> ELSE work.pages
Single == Len(Selected) = 1 /\ work.grid = <<0, 0>>
TooMany == Len(Selected) > MaxSelected
InRange == \A i \in DOMAIN Selected : Selected[i] \in 0..(ask.doc.parts - 1)

\* runPNG: GetParts, the checks of the selection, InitializeForRendering.  The
\* closure that removes pagePaths is deferred before the first page.
Select ==
  /\ At("parts")
  /\ \/ /\ \E e \in LOKErrors : Fail(e)
        /\ UNCHANGED deferred
     \/ /\ TooMany \/ ~InRange
        /\ Fail({IF TooMany THEN "ErrPNGGridTooLarge" ELSE "ErrPageOutOfRange"})
        /\ UNCHANGED deferred
     \/ /\ ~TooMany /\ InRange
        /\ Goto(IF Single THEN "single" ELSE "render")
        /\ deferred' = deferred \cup (IF Single THEN {} ELSE {"pages"})
  /\ UNCHANGED <<jobs, ctx, doc, temps, picture, texts>>

\* runPNG, one page and no grid.
RenderSingle ==
  /\ At("single")
  /\ \/ \E e \in LOKErrors : Fail(e) /\ UNCHANGED picture
     \/ /\ Goto("write")
        /\ LET p == Selected[1]
           IN  picture' = [w |-> PageSize(p)[1], h |-> PageSize(p)[2],
                           at |-> <<[page |-> p, x |-> 0, y |-> 0]>>]
  /\ UNCHANGED <<jobs, ctx, doc, deferred, temps, texts>>

\* The pages rendered so far: pagePaths.
Rendered == {i \in DOMAIN Selected : Page(i) \in temps}

\* runPNG, grid: render the next page into a temp file, unless the context is
\* done; {} in LOKErrors stands for writeTempPNG's failures, too, which leave no
\* file.
RenderPage ==
  /\ At("render")
  /\ LET i == Cardinality(Rendered) + 1
     IN  \/ /\ ctx = "done"
            /\ Fail({"DeadlineExceeded"})
            /\ UNCHANGED temps
         \/ /\ ctx = "live" /\ i <= Len(Selected)
            /\ \E e \in LOKErrors : Fail(e)
            /\ UNCHANGED temps
         \/ /\ ctx = "live" /\ i <= Len(Selected)
            /\ Goto("render")
            /\ temps' = temps \cup {Page(i)}
         \/ /\ ctx = "live" /\ i > Len(Selected)
            /\ Goto("compose")
            /\ UNCHANGED temps
  /\ UNCHANGED <<jobs, ctx, doc, deferred, picture, texts>>

Cols == work.grid[1]
Rows == work.grid[2]

\* A cell holds the widest and the highest of the pages.
CellWidth == Max({PageSize(Selected[i])[1] : i \in DOMAIN Selected})
CellHeight == Max({PageSize(Selected[i])[2] : i \in DOMAIN Selected})

TooFewCells == Len(Selected) > Wrap(Cols * Rows)
TooLarge ==
  \/ Wrap(Cols * Rows) > MaxCells
  \/ Wrap(Cols * CellWidth * Rows * CellHeight) > MaxPixels

\* Fault: the column is counted with the number of rows.
GridPictureByRows ==
  [w |-> Wrap(Cols * CellWidth), h |-> Wrap(Rows * CellHeight),
   at |-> [i \in DOMAIN Selected |->
             [page |-> Selected[i], x |-> Wrap(((i - 1) % Rows) * CellWidth),
              y |-> Wrap(((i - 1) \div Cols) * CellHeight)]]]

\* The canvas and, row by row, the pages: integers of Go's width.
GridPicture ==
  [w |-> Wrap(Cols * CellWidth), h |-> Wrap(Rows * CellHeight),
   at |-> [i \in DOMAIN Selected |->
             [page |-> Selected[i], x |-> Wrap(((i - 1) % Cols) * CellWidth),
              y |-> Wrap(((i - 1) \div Cols) * CellHeight)]]]

\* image.Rect swaps the sides of an interval that ends before it starts.
Low(n) == IF n < 0 THEN n ELSE 0
Side(n) == IF n < 0 THEN -n ELSE n
Area(p) == Side(p.w) * Side(p.h)

\* image.NewRGBA panics if four bytes a pixel are more than an int can count;
\* nobody recovers a panic in a worker goroutine.
Panics == 4 * Area(GridPicture) >= IntLimit

\* composePNGGrid: the context again, unreadable pages, the limits, the canvas.
Compose ==
  /\ At("compose")
  /\ \/ /\ \/ ctx = "done" /\ Fail({"DeadlineExceeded"})
           \/ Fail({})
           \/ /\ TooFewCells \/ TooLarge
              /\ Fail({IF TooFewCells THEN "ErrPageOutOfRange" ELSE "ErrPNGGridTooLarge"})
           \/ ~TooFewCells /\ ~TooLarge /\ Panics /\ End("crashed")
        /\ UNCHANGED picture
     \/ /\ ~TooFewCells /\ ~TooLarge /\ ~Panics
        /\ Goto("write")
        /\ picture' = GridPicture
  /\ UNCHANGED <<jobs, ctx, doc, deferred, temps, texts>>

-----------------------------------------------------------------------------
\* runMarkdown: CreateTemp for the HTML; its os.Remove is deferred.
CreateHTML ==
  /\ At("html")
  /\ \/ Fail({}) /\ UNCHANGED <<temps, deferred>>
     \/ /\ Goto("saveHTML")
        /\ temps' = temps \cup {Html}
        /\ deferred' = deferred \cup {"html"}
  /\ UNCHANGED <<jobs, ctx, doc, picture, texts>>

\* SaveAs, ReadFile and the conversion of the HTML.
SaveHTML ==
  /\ At("saveHTML")
  /\ \/ \E e \in LOKErrors \cup {{"ErrMarkdownConversion"}} : Fail(e)
     \/ Goto("write")
  /\ UNCHANGED <<jobs, ctx, doc, deferred, temps, picture, texts>>

\* pageNeedsOCR
NeedsOCR(i) == work.ocr = "always" \/ (work.ocr = "auto" /\ ~ask.doc.text[i])

Attempts == {i \in DOMAIN body : body[i] # "text"}
Failures == {i \in DOMAIN body : body[i] = "ocr-error"}

\* The packs that ocr.New found in tessdata.
Installed == SupportedLangs \cup {"osd"}

\* scriptToLang: one language for a script it knows, else all in one pass.
ScriptLangs == {{l} : l \in SupportedLangs} \cup {SupportedLangs}

\* The packs Recognize names to Tesseract: without a language those of the
\* script that OSD detects, else the names it was given, whatever they are.
Requests(lang) ==
  IF lang = <<>> THEN {{"osd"} \cup s : s \in ScriptLangs} ELSE {{lang[i] : i \in DOMAIN lang}}

\* Fault: a page whose OCR failed is skipped.
AssembleSkips ==
  /\ At("page")
  /\ Len(body) < ask.doc.parts
  /\ LET i == Len(body) + 1
     IN  body' = Append(body, IF NeedsOCR(i) /\ ctx = "live" THEN "ocr" ELSE "text")
  /\ Goto("page")
  /\ UNCHANGED <<jobs, ctx, doc, deferred, temps, picture, packs>>

\* assembleMarkdownWithOCR, one page: its text, or what OCR of its rendering
\* gives, or a marker.  Only Recognize looks at the context, so a job past its
\* deadline goes on with markers.  Tesseract needs every pack it is told.
Assemble ==
  /\ At("page")
  /\ Len(body) < ask.doc.parts
  /\ LET i == Len(body) + 1
     IN  \/ /\ ~NeedsOCR(i)
            /\ body' = Append(body, "text")
            /\ UNCHANGED packs
         \/ /\ NeedsOCR(i)
            /\ body' = Append(body, "ocr-error")
            /\ UNCHANGED packs
         \/ /\ NeedsOCR(i) /\ ctx = "live"
            /\ \E asked \in Requests(work.lang) :
                 /\ packs' = packs \cup asked
                 /\ body' = Append(body, IF asked \subseteq Installed THEN "ocr" ELSE "ocr-error")
  /\ Goto("page")
  /\ UNCHANGED <<jobs, ctx, doc, deferred, temps, picture>>

\* Fault: the class of the error is that of a missing engine.
AssembledUnavailable ==
  /\ At("page")
  /\ Len(body) = ask.doc.parts
  /\ IF Attempts # {} /\ Failures = Attempts THEN Fail({"ErrOCRUnavailable"}) ELSE Goto("write")
  /\ UNCHANGED <<jobs, ctx, doc, deferred, temps, picture, texts>>

\* All pages are done: ErrOCRFailed if OCR was tried and never worked.
Assembled ==
  /\ At("page")
  /\ Len(body) = ask.doc.parts
  /\ IF Attempts # {} /\ Failures = Attempts THEN Fail({"ErrOCRFailed"}) ELSE Goto("write")
  /\ UNCHANGED <<jobs, ctx, doc, deferred, temps, picture, texts>>

-----------------------------------------------------------------------------
\* CreateTemp, Write and Close of the output; a file that cannot be written or
\* closed is removed.
Write ==
  /\ At("write")
  /\ \/ Fail({}) /\ UNCHANGED temps
     \/ Succeed /\ temps' = temps \cup {Out}
  /\ UNCHANGED <<jobs, ctx, doc, deferred, picture, texts>>

\* The deferred calls run on every way out.
Unwind ==
  /\ At("unwind")
  /\ Goto("done")
  /\ doc' = IF "close" \in deferred THEN "closed" ELSE doc
  /\ temps' = {t \in temps : /\ t = Html => "html" \notin deferred
                             /\ t[1] = "page" => "pages" \notin deferred}
  /\ deferred' = {}
  /\ UNCHANGED <<jobs, ctx, picture, texts>>

\* ConvertTimeout passes.
Expire ==
  /\ ctx = "live"
  /\ pc \notin {"handle", "flags", "engine", "unwind", "done"}
  /\ ctx' = "done"
  /\ UNCHANGED <<jobs, pc, doc, deferred, temps, picture, texts, outcome, err>>

Terminated == At("done") /\ UNCHANGED vars

Next ==
  \/ Handle \/ BuildJob \/ OpenEngine
  \/ Begin \/ Extract \/ Load
  \/ CreatePDF \/ SavePDF
  \/ Select \/ RenderSingle \/ RenderPage \/ Compose
  \/ CreateHTML \/ SaveHTML
  \/ Assemble \/ Assembled
  \/ Write \/ Unwind \/ Expire \/ Terminated

Spec == Init /\ [][Next]_vars

-----------------------------------------------------------------------------
Sections == {"text", "ocr", "ocr-error"}

\* A job is always the query's, and the child's that of its flags.
TypeOK ==
  /\ ask \in Asks
  /\ job \in {NoJob, JobOfQuery(ask.q)}
  /\ work \in {NoJob, buildJob(Flags)}
  /\ pc \in {"handle", "flags", "engine", "start", "extract", "load", "create", "save",
             "parts", "single", "render", "compose", "html", "saveHTML", "page", "write",
             "unwind", "done"}
  /\ ctx \in {"live", "done"}
  /\ doc \in {"none", "open", "closed"}
  /\ deferred \subseteq {"close", "html", "pages"}
  /\ \A t \in temps : t \in {Out, Html} \/ t[1] = "page"
  /\ body \in Seq(Sections)
  /\ outcome \in {"none", "refused", "bad-flags", "ocr-unavailable", "error", "file", "crashed"}

\* Whatever fails, and wherever the deadline passes: when execute returns the
\* document is closed, scratch files are gone, and there is an output file if
\* and only if the outcome says so.  (A crash leaves its files to the removal of
\* the scratch directory, ScratchOnlyWhileHeld of module Subprocess.)
OnlyTheOutputIsLeft ==
  pc = "done" /\ outcome # "crashed" =>
    /\ doc # "open"
    /\ temps = IF outcome = "file" THEN {Out} ELSE {}

\* The markdown of a PDF has one section per page, in order, and the section of
\* a page that needed OCR shows the OCR's result or its failure; not all of
\* them show a failure ("the request only fails (with ErrOCRFailed) if every
\* OCR'd page errored", run_markdown_pdf_ocr.go:56).
EveryPageAccounted ==
  pc = "done" /\ OnPDF /\ outcome = "file" =>
    /\ Len(body) = ask.doc.parts
    /\ \A i \in 1..ask.doc.parts : body[i] = "text" <=> ~(EngineOpens /\ NeedsOCR(i))
    /\ Attempts # {} => Failures # Attempts

\* Each error execute returns is one of those whose way to the client module
\* ErrorContract follows (and Request checks).
OutcomeIsContracted == outcome = "error" => err \in WorkerErrors

\* A query that the handler accepted is never refused by the child, and the
\* child converts what the handler meant: pages, grid, scale, OCR mode and
\* language come through the command line and its defaults unchanged.
ChildRebuildsJob ==
  ask.via = "http" =>
    /\ outcome # "bad-flags"
    /\ work # NoJob => work = job

\* What the handler, or the flags of bi convert, let pass as a grid is one for
\* composePNGGrid, too: its own answers to a grid with too few or too many cells,
\* of which the first blames a page, are never given, only that to its pixels.
AcceptedGridFits == pc = "compose" => ~TooFewCells /\ Wrap(Cols * Rows) <= MaxCells

\* The numbers of the pages that a PNG was asked for; the first page is the default.
Asked ==
  IF ask.q.pages # <<>> THEN ask.q.pages ELSE IF ask.q.page # <<>> THEN ask.q.page ELSE <<0>>

\* What page a number stands for.  bi convert counts from 0 (its help, cmd/bi/convert.go:35-36).
\* For HTTP the documents disagree: from 0 in docs/superpowers/specs/
\* 2026-04-28-bi-http-api-design.md:92, from 1 in README.md:108.
MayCountFromOne == ask.via = "http" /\ (ask.q.pages # <<>> \/ ask.q.page # <<>>)

Inside(p, pic) ==
  /\ Low(pic.w) <= p.x /\ p.x + PageSize(p.page)[1] <= Low(pic.w) + Side(pic.w)
  /\ Low(pic.h) <= p.y /\ p.y + PageSize(p.page)[2] <= Low(pic.h) + Side(pic.h)

\* p is right of q in its row, or in a row below, and they do not overlap.
Follows(p, q) ==
  \/ p.y >= q.y + PageSize(q.page)[2]
  \/ p.y = q.y /\ p.x >= q.x + PageSize(q.page)[1]

\* A PNG that is delivered shows the pages the client asked for by a count that a
\* document gives it, all of them, in the order asked and in reading order, none
\* covered or cut off, a grid of them on a canvas within its limit.
PictureShowsWhatWasAsked ==
  pc = "done" /\ ask.q.format = "png" /\ outcome = "file" =>
    LET shown == picture.at
    IN  /\ Len(shown) = Len(Asked)
        /\ \/ \A i \in DOMAIN shown : shown[i].page = Asked[i]
           \/ MayCountFromOne /\ \A i \in DOMAIN shown : shown[i].page = Asked[i] - 1
        /\ \A i \in DOMAIN shown : Inside(shown[i], picture)
        /\ \A i, j \in DOMAIN shown : i < j => Follows(shown[j], shown[i])
        /\ ~Single => Area(picture) <= MaxPixels

\* README.md:108 on page: "1-based single page to render", so the page shown to an
\* HTTP client that names one is the one before it, counted from 0.  Theorem
\* FormatsPageBase of PictureProofs shows that the code breaks this each time.
PageDelivered ==
  /\ pc = "done" /\ ask.via = "http" /\ ask.q.format = "png" /\ ask.q.page # <<>>
  /\ outcome = "file"
PageCountsFromOne == PageDelivered => picture.at[1].page = ask.q.page[1] - 1

\* README.md:109 on pages: "list/ranges", with the example 1,3-5, so a request is not
\* refused for its range: what is refused with it is refused without.  Theorem
\* FormatsRanges of PictureProofs shows that the code refuses every range.
RangeAsked == ask.via = "http" /\ ask.q.format = "png" /\ ask.q.range
RangesAreAccepted ==
  RangeAsked /\ outcome = "refused" => ~Accepts([ask.q EXCEPT !.range = FALSE], ask.served)

\* engine.go:17 on "auto": "Resolved to the empty string at the Engine boundary;
\* the engine then uses Tesseract's OSD path."  The handler checks the languages
\* of clients, so for them Tesseract is only told languages there is a pack for.
OnlyInstalledPacks == ask.via = "http" => packs \subseteq Installed
=============================================================================
