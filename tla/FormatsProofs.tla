---------------------------- MODULE FormatsProofs -----------------------------
(***************************************************************************)
(* Theorems about modules Handoff and Formats, for every limit and every    *)
(* document: the command line between server and child loses nothing, and   *)
(* the pipelines clean up after themselves.                                 *)
(***************************************************************************)
EXTENDS Formats, SequenceTheorems, TLAPS

\* Integers in range are their own representation.
LEMMA ModSmall == ASSUME NEW a \in Nat, NEW b \in Nat \ {0}, a < b PROVE a % b = a
BY SMT

LEMMA WrapInRange ==
  ASSUME NEW n \in Int, -IntLimit <= n, n < IntLimit
  PROVE  Wrap(n) = n
<1>1. n + IntLimit \in Nat /\ 2 * IntLimit \in Nat \ {0} /\ n + IntLimit < 2 * IntLimit
  BY HandoffAssumption DEF HandoffAssumption
<1>2. (n + IntLimit) % (2 * IntLimit) = n + IntLimit
  BY <1>1, ModSmall
<1> QED BY <1>2, HandoffAssumption DEF Wrap, HandoffAssumption

\* The default layout is one that the child accepts as -layout: MaxSelected is no
\* larger than MaxCells.
LEMMA RowIsValid ==
  ASSUME NEW n \in 1..MaxSelected
  PROVE  ValidLayout(1, <<n, 1>>) /\ ValidLayout(n, <<n, 1>>)
<1>1. n * 1 = n /\ n \in Nat /\ 1 <= n /\ n <= MaxCells /\ -IntLimit <= n /\ n < IntLimit
  BY HandoffAssumption DEF HandoffAssumption
<1>2. Wrap(n * 1) = n
  BY <1>1, WrapInRange
<1> QED BY <1>1, <1>2 DEF ValidLayout

\* A layout is its columns and its rows.
LEMMA TwoNumbers ==
  ASSUME NEW s \in Seq(Int), Len(s) = 2
  PROVE  s[1] \in Int /\ s[2] \in Int /\ s = <<s[1], s[2]>>
<1>1. s[1] \in Int /\ s[2] \in Int
  <2>1. \A i \in 1..Len(s) : s[i] \in Int
    BY ElementOfSeq
  <2> QED BY <2>1
<1>2. DOMAIN s = 1..2 /\ s = [i \in 1..2 |-> s[i]]
  OBVIOUS
<1>3. <<s[1], s[2]>> = [i \in 1..2 |-> s[i]]
  OBVIOUS
<1> QED BY <1>1, <1>2, <1>3

\* The grid of an accepted selection goes through -layout unchanged.
LEMMA LayoutRoundTrip ==
  ASSUME NEW pages \in Seq(Int), NEW layout \in Seq(Int), pages # <<>>,
         ValidSelection(pages, layout), NEW made, made.pages = pages,
         made.grid = GridFor(pages, layout)
  PROVE  /\ LayoutFlag(made) = made.grid /\ made.grid # <<>>
         /\ ValidSelection(pages, made.grid)
         /\ GridFor(pages, made.grid) = made.grid
<1>1. Len(pages) \in 1..MaxSelected
  BY DEF ValidSelection, ParsePageList
<1>2. CASE layout = <<>>
  <2>1. made.grid = <<Len(pages), 1>>
    BY <1>2 DEF GridFor
  <2>2. LayoutFlag(made) = <<Len(pages), 1>>
    BY <2>1, <1>1 DEF LayoutFlag
  <2>3. ValidSelection(pages, <<Len(pages), 1>>)
    BY <1>1, RowIsValid DEF ValidSelection, ParsePageList, ParseGridLayout
  <2>4. GridFor(pages, <<Len(pages), 1>>) = <<Len(pages), 1>>
    BY DEF GridFor
  <2> QED BY <2>1, <2>2, <2>3, <2>4
<1>3. CASE layout # <<>>
  <2>1. made.grid = layout
    BY <1>3 DEF GridFor
  <2>2. Len(layout) = 2 /\ layout[1] > 0 /\ layout[2] > 0
    BY <1>3 DEF ValidSelection, ParseGridLayout, ValidLayout
  <2>3. layout[1] \in Int /\ layout[2] \in Int /\ layout = <<layout[1], layout[2]>>
    BY <2>2, TwoNumbers
  <2>4. LayoutFlag(made) = layout
    BY <2>1, <2>2, <2>3 DEF LayoutFlag
  <2> QED BY <1>3, <2>1, <2>4 DEF GridFor
<1> QED BY <1>2, <1>3

\* What a handler accepts comes out of the child's command line as it went in,
\* whatever numbers the query spells.
LEMMA PNGRoundTrip ==
  ASSUME NEW q, q.format = "png", q.pages \in Seq(Int), q.layout \in Seq(Int),
         NEW a, Accepts(q, a)
  PROVE  LET f == buildSubprocessArgs(JobOfQuery(q))
         IN  FlagsOK(f) /\ buildJob(f) = JobOfQuery(q)
<1> DEFINE made == JobOfQuery(q)
           f == buildSubprocessArgs(made)
<1>1. /\ Len(q.page) <= 1 /\ (q.page = <<>> \/ q.pages = <<>>)
      /\ ValidSelection(q.pages, q.layout)
  BY DEF Accepts
<1>2. made = [format |-> "png", page |-> PageOf(q.page), pages |-> q.pages,
             grid |-> GridFor(q.pages, q.layout),
             dpi |-> Defaulted(q.dpi, IF q.thumbnail THEN "0.5" ELSE "1.0")]
  BY <1>1 DEF JobOfQuery
<1>3. f = [format |-> "png", page |-> IF made.pages = <<>> THEN <<made.page>> ELSE <<>>,
           pages |-> made.pages, dpi |-> made.dpi,
           layout |-> IF made.pages = <<>> THEN <<>> ELSE LayoutFlag(made)]
  BY <1>2 DEF buildSubprocessArgs
<1>4. made.pages = q.pages /\ made.grid = GridFor(q.pages, q.layout) /\ made.page = PageOf(q.page)
  BY <1>2
<1>5. f.format = "png" /\ f.pages = q.pages /\ f.dpi = made.dpi
  BY <1>3, <1>4
<1>6. buildJob(f) = [format |-> "png", page |-> PageOf(f.page), pages |-> f.pages,
                     dpi |-> f.dpi, grid |-> GridFor(f.pages, f.layout)]
  BY <1>5 DEF buildJob
<1>7. CASE q.pages = <<>>
  <2>1. q.layout = <<>> /\ f.layout = <<>> /\ f.page = <<made.page>>
    BY <1>1, <1>3, <1>4, <1>7 DEF ValidSelection
  <2>2. FlagsOK(f)
    BY <2>1, <1>5, <1>7 DEF FlagsOK, ValidSelection
  <2>3. PageOf(f.page) = made.page
    BY <2>1 DEF PageOf
  <2>4. GridFor(f.pages, f.layout) = made.grid
    BY <2>1, <1>4, <1>5, <1>7
  <2> QED BY <2>2, <2>3, <2>4, <1>2, <1>5, <1>6
<1>8. CASE q.pages # <<>>
  <2>1. q.page = <<>> /\ f.page = <<>> /\ f.layout = LayoutFlag(made)
    BY <1>1, <1>3, <1>4, <1>8
  <2>2. /\ LayoutFlag(made) = made.grid /\ made.grid # <<>>
        /\ ValidSelection(q.pages, made.grid) /\ GridFor(q.pages, made.grid) = made.grid
    BY <1>1, <1>4, <1>8, LayoutRoundTrip
  <2>3. FlagsOK(f)
    BY <2>1, <2>2, <1>5 DEF FlagsOK
  <2>4. PageOf(f.page) = made.page
    BY <2>1, <1>4
  <2> QED BY <2>1, <2>2, <2>3, <2>4, <1>2, <1>5, <1>6
<1> QED BY <1>7, <1>8

\* Page lists and layouts are sequences of integers.
LEMMA SelectionTypes == PagesParams \subseteq Seq(Int) /\ LayoutParams \subseteq Seq(Int)
<1>1. PagesParams \subseteq Seq(Int)
  <2> SUFFICES ASSUME NEW s \in PagesParams PROVE s \in Seq(Int)
    OBVIOUS
  <2>1. CASE \E k \in 0..MaxSelected : s \in [1..k -> -1..(MaxParts - 1)]
    <3>1. PICK k \in 0..MaxSelected : s \in [1..k -> -1..(MaxParts - 1)]
      BY <2>1
    <3>2. k \in Nat
      OBVIOUS
    <3>3. s \in [1..k -> Int]
      BY <3>1
    <3> QED BY <3>2, <3>3
  <2>2. CASE s = [i \in 1..(MaxSelected + 1) |-> 0]
    BY <2>2, HandoffAssumption DEF HandoffAssumption
  <2> QED BY <2>1, <2>2 DEF PagesParams
<1>2. LayoutParams \subseteq Seq(Int)
  <2>1. \A x, y \in Int : <<x, y>> \in Seq(Int)
    OBVIOUS
  <2>2. GridSides \X GridSides \subseteq Seq(Int)
    <3> SUFFICES ASSUME NEW p \in GridSides \X GridSides PROVE p \in Seq(Int)
      OBVIOUS
    <3>1. PICK x \in GridSides, y \in GridSides : p = <<x, y>>
      OBVIOUS
    <3>2. x \in Int /\ y \in Int
      BY FormatsAssumption DEF FormatsAssumption
    <3> QED BY <3>1, <3>2, <2>1
  <2>3. <<>> \in Seq(Int) /\ <<2>> \in Seq(Int)
    OBVIOUS
  <2> QED BY <2>2, <2>3 DEF LayoutParams
<1> QED BY <1>1, <1>2

-----------------------------------------------------------------------------
\* The same for the queries and flags of the model, all formats.
LEMMA RoundTrip ==
  ASSUME NEW q \in PNGQueries \cup MarkdownQueries \cup PDFJobs, NEW a, Accepts(q, a)
  PROVE  LET f == buildSubprocessArgs(JobOfQuery(q))
         IN  FlagsOK(f) /\ buildJob(f) = JobOfQuery(q)
<1>1. CASE q \in PNGQueries
  <2>1. q.format = "png" /\ q.pages \in PagesParams /\ q.layout \in LayoutParams
    BY <1>1 DEF PNGQueries
  <2> QED BY <2>1, SelectionTypes, PNGRoundTrip
<1>2. CASE q \in MarkdownQueries
  <2> DEFINE made == JobOfQuery(q)
  <2>1. made = [format |-> "markdown", images |-> Defaulted(q.images, "embed"), marp |-> q.marp,
               ocr |-> Defaulted(q.ocr, "auto"), lang |-> LangOf(q.lang)]
    BY <1>2 DEF MarkdownQueries, JobOfQuery
  <2>2. LangOf(made.lang) = made.lang
    BY <2>1 DEF LangOf
  <2>3. [made EXCEPT !.lang = LangOf(@)] = made
    BY <2>1, <2>2
  <2>4. buildSubprocessArgs(made) = made
    BY <2>1, <2>3 DEF buildSubprocessArgs
  <2> QED BY <2>1, <2>4 DEF FlagsOK, buildJob
<1>3. CASE q \in PDFJobs
  BY <1>3 DEF PDFJobs, JobOfQuery, buildSubprocessArgs, FlagsOK, buildJob
<1> QED BY <1>1, <1>2, <1>3

FormatNames == {"pdf", "png", "markdown"}

\* What the parts of a request are.
LEMMA AskFacts ==
  ASSUME ask \in Asks
  PROVE  /\ ask.via \in {"http", "cli"} /\ ask.doc.parts \in Nat
         /\ ask.q.format \in FormatNames
         /\ ask.via = "http" => ask.q \in PNGQueries \cup MarkdownQueries \cup PDFJobs
<1>1. \A d \in Paged \cup PDFs : d.parts \in Nat
  <2>1. \A d \in Paged : d.parts \in Nat
    BY DEF Paged
  <2>2. ASSUME NEW d \in PDFs PROVE d.parts \in Nat
    <3>1. PICK n \in 0..MaxParts : d \in [pdf : {TRUE}, parts : {n}, text : [1..n -> BOOLEAN]]
      BY DEF PDFs
    <3>2. d.parts = n
      BY <3>1
    <3> QED BY <3>2
  <2> QED BY <2>1, <2>2
<1>2. /\ ask.via \in {"http", "cli"} /\ ask.doc \in Paged \cup PDFs
      /\ ask.q \in PNGQueries \cup MarkdownQueries \cup PDFJobs \cup PNGFlags \cup MarkdownFlags
      /\ ask.via = "http" => ask.q \in PNGQueries \cup MarkdownQueries \cup PDFJobs
  BY DEF Asks
<1>3. ask.q.format \in FormatNames
  BY <1>2 DEF PNGQueries, MarkdownQueries, PDFJobs, PNGFlags, MarkdownFlags, FormatNames
<1> QED BY <1>1, <1>2, <1>3

\* Jobs keep the format they were asked for.
LEMMA JobFormat == ASSUME NEW q, q.format \in FormatNames PROVE JobOfQuery(q).format = q.format
BY DEF JobOfQuery, FormatNames

\* Between handler and child: the job is the query's and the child's work is the
\* job; nobody converts before there is a format.
HandoffInv ==
  /\ pc = "handle" => ask.via = "http"
  /\ pc \in {"handle", "flags"} => work = NoJob
  /\ pc \notin {"handle", "flags", "done"} => work.format \in FormatNames
  /\ ask.via = "http" /\ pc = "flags" => Accepts(ask.q, ask.served) /\ job = JobOfQuery(ask.q)
  /\ ChildRebuildsJob

LEMMA HandoffInit == Init => HandoffInv
BY DEF Init, HandoffInv, ChildRebuildsJob, Asks

\* Steps that leave the jobs alone and do not go back.
LEMMA JobsStay ==
  ASSUME HandoffInv, UNCHANGED jobs, pc \notin {"handle", "flags"},
         pc' \notin {"handle", "flags"}, pc' # "done" => pc # "done",
         outcome' # "bad-flags" \/ UNCHANGED outcome
  PROVE  HandoffInv'
BY DEF HandoffInv, ChildRebuildsJob, jobs, Accepts

LEMMA HandoffKeeps ==
  ASSUME ask \in Asks, HandoffInv, [Next]_vars
  PROVE  HandoffInv'
<1>1. CASE Handle
  BY <1>1, AskFacts DEF Handle, HandoffInv, ChildRebuildsJob, At, End, Goto, FormatNames
<1>2. CASE BuildJob
  <2>0. UNCHANGED <<ask, job>> /\ pc = "flags" /\ work = NoJob
    BY <1>2 DEF BuildJob, HandoffInv, At
  <2>1. CASE ask.via = "http"
    <3>1. Flags = buildSubprocessArgs(JobOfQuery(ask.q)) /\ job = JobOfQuery(ask.q)
      BY <2>0, <2>1 DEF Flags, HandoffInv
    <3>2. FlagsOK(Flags) /\ buildJob(Flags) = job
      BY <2>0, <2>1, <3>1, RoundTrip, AskFacts DEF HandoffInv
    <3>3. work' = job /\ pc' = "engine" /\ outcome' = outcome
      BY <1>2, <3>2 DEF BuildJob, Goto
    <3>4. job.format \in FormatNames
      BY <3>1, JobFormat, AskFacts
    <3> QED BY <2>0, <3>3, <3>4 DEF HandoffInv, ChildRebuildsJob
  <2>2. CASE ask.via # "http"
    <3>1. buildJob(Flags).format \in FormatNames
      BY <2>2, AskFacts DEF Flags, buildJob, FormatNames
    <3>2. pc' = "done" \/ (pc' = "engine" /\ work' = buildJob(Flags))
      BY <1>2 DEF BuildJob, End, Goto
    <3> QED BY <2>0, <2>2, <3>1, <3>2 DEF HandoffInv, ChildRebuildsJob
  <2> QED BY <2>1, <2>2
<1>3. CASE OpenEngine
  BY <1>3, JobsStay DEF OpenEngine, At, End, Goto
<1>4. CASE Begin \/ Extract \/ CreatePDF \/ SavePDF \/ CreateHTML \/ SaveHTML
  BY <1>4, JobsStay
  DEF Begin, Extract, CreatePDF, SavePDF, CreateHTML, SaveHTML, At, Goto, Fail, Succeed
<1>5. CASE Load
  <2>1. AfterLoad \in {"create", "parts", "html", "page"}
    BY <1>5 DEF Load, At, HandoffInv, AfterLoad, FormatNames, OnPDF
  <2> QED BY <1>5, <2>1, JobsStay DEF Load, At, Goto, Fail
<1>6. CASE Select \/ RenderSingle \/ RenderPage \/ Compose
  BY <1>6, JobsStay DEF Select, RenderSingle, RenderPage, Compose, At, Goto, Fail, End
<1>7. CASE Assemble \/ Assembled \/ Write \/ Unwind \/ Expire
  BY <1>7, JobsStay DEF Assemble, Assembled, Write, Unwind, Expire, At, Goto, Fail, Succeed
<1>8. CASE Terminated \/ UNCHANGED vars
  BY <1>8 DEF Terminated, vars, jobs, HandoffInv, ChildRebuildsJob
<1> QED BY <1>1, <1>2, <1>3, <1>4, <1>5, <1>6, <1>7, <1>8 DEF Next

-----------------------------------------------------------------------------
\* Types.  The child's job is not made before the handler's, so the flags it is
\* made of do not change any more.
LEMMA TypeInit == Init => TypeOK
<1>1. <<>> \in Seq(Sections)
  OBVIOUS
<1> QED BY <1>1 DEF Init, TypeOK

LEMMA FlagsStay == ASSUME UNCHANGED <<ask, job>> PROVE Flags' = Flags
BY DEF Flags

\* Steps of the pipelines, which read the jobs and neither write the markdown.
LEMMA TypeStays ==
  ASSUME TypeOK, UNCHANGED <<jobs, body>>,
         pc' \in {"engine", "start", "extract", "load", "create", "save",
                  "parts", "single", "render", "compose", "html", "saveHTML", "page", "write",
                  "unwind", "done"},
         ctx' \in {"live", "done"}, doc' \in {"none", "open", "closed"},
         deferred' \subseteq {"close", "html", "pages"},
         \A t \in temps' : t \in {Out, Html} \/ t[1] = "page",
         outcome' \in {"none", "refused", "bad-flags", "ocr-unavailable", "error", "file", "crashed"}
  PROVE  TypeOK'
<1>1. UNCHANGED <<ask, job, work, body>>
  BY DEF jobs
<1>2. Flags' = Flags
  BY <1>1, FlagsStay
<1> QED BY <1>1, <1>2 DEF TypeOK, Out, Html

LEMMA AfterLoadValues ==
  ASSUME HandoffInv, pc = "load"
  PROVE  /\ AfterLoad \in {"create", "parts", "html", "page"}
         /\ AfterLoad = "page" <=> OnPDF
BY DEF HandoffInv, AfterLoad, FormatNames, OnPDF

LEMMA TypeKeeps ==
  ASSUME TypeOK, HandoffInv, [Next]_vars
  PROVE  TypeOK'
<1>1. CASE Handle
  <2>1. work = NoJob /\ UNCHANGED <<ask, work, ctx, doc, deferred, temps, body>>
    BY <1>1 DEF Handle, HandoffInv, At, texts
  <2>2. job' \in {NoJob, JobOfQuery(ask.q)}
    BY <1>1 DEF Handle, TypeOK
  <2>3. pc' \in {"flags", "done"} /\ outcome' \in {"refused", outcome}
    BY <1>1 DEF Handle, End, Goto
  <2> QED BY <2>1, <2>2, <2>3 DEF TypeOK, Out, Html
<1>2. CASE BuildJob
  <2>1. UNCHANGED <<ask, job, ctx, doc, deferred, temps, body>>
    BY <1>2 DEF BuildJob, texts
  <2>2. work' \in {work, buildJob(Flags)} /\ Flags' = Flags
    BY <1>2, <2>1, FlagsStay DEF BuildJob
  <2>3. pc' \in {"engine", "done"} /\ outcome' \in {"bad-flags", outcome}
    BY <1>2 DEF BuildJob, End, Goto
  <2> QED BY <2>1, <2>2, <2>3 DEF TypeOK, Out, Html
<1>3. CASE OpenEngine
  BY <1>3, TypeStays DEF OpenEngine, End, Goto, TypeOK, texts
<1>4. CASE Begin
  BY <1>4, TypeStays DEF Begin, Fail, Goto, TypeOK, texts
<1>5. CASE Extract
  <2>1. UNCHANGED <<jobs, ctx, doc, deferred, temps>>
    BY <1>5 DEF Extract
  <2>2. body' \in Seq(Sections)
    <3>1. ask.doc.parts \in Nat
      BY AskFacts DEF TypeOK
    <3>2. [i \in 1..ask.doc.parts |-> "text"] \in Seq(Sections)
      BY <3>1 DEF Sections
    <3> QED BY <1>5, <3>2 DEF Extract, TypeOK
  <2>3. pc' \in {"unwind", "write", "load"} /\ outcome' \in {"error", outcome}
    BY <1>5 DEF Extract, Fail, Goto
  <2>4. Flags' = Flags
    BY <2>1, FlagsStay DEF jobs
  <2> QED BY <2>1, <2>2, <2>3, <2>4 DEF TypeOK, jobs, Out, Html
<1>6. CASE Load
  BY <1>6, AfterLoadValues, TypeStays DEF Load, At, Fail, Goto, TypeOK, texts
<1>7. CASE CreatePDF \/ SavePDF \/ CreateHTML \/ SaveHTML
  BY <1>7, TypeStays DEF CreatePDF, SavePDF, CreateHTML, SaveHTML, Fail, Goto, Succeed, TypeOK, texts
<1>8. CASE Select \/ RenderSingle \/ Compose
  BY <1>8, TypeStays DEF Select, RenderSingle, Compose, Fail, Goto, End, TypeOK, texts
<1>9. CASE RenderPage
  <2>1. \A i : Page(i)[1] = "page"
    BY DEF Page
  <2>2. \A t \in temps' : t \in {Out, Html} \/ t[1] = "page"
    BY <1>9, <2>1 DEF RenderPage, TypeOK
  <2> QED BY <1>9, <2>2, TypeStays DEF RenderPage, Fail, Goto, TypeOK, texts
<1>10. CASE Assemble
  <2>1. UNCHANGED <<jobs, ctx, doc, deferred, temps, outcome>> /\ pc' = "page"
    BY <1>10 DEF Assemble, Goto
  <2>2. \E s \in Sections : body' = Append(body, s)
    BY <1>10 DEF Assemble, Sections
  <2>3. body' \in Seq(Sections)
    BY <2>2 DEF TypeOK
  <2>4. Flags' = Flags
    BY <2>1, FlagsStay DEF jobs
  <2> QED BY <2>1, <2>3, <2>4 DEF TypeOK, jobs, Out, Html
<1>11. CASE Assembled \/ Write \/ Expire
  BY <1>11, TypeStays DEF Assembled, Write, Expire, Fail, Goto, Succeed, TypeOK, texts
<1>12. CASE Unwind
  BY <1>12, TypeStays DEF Unwind, Goto, TypeOK, texts
<1>13. CASE Terminated \/ UNCHANGED vars
  <2>1. UNCHANGED <<ask, job, work, pc, ctx, doc, deferred, temps, body, outcome>>
    BY <1>13 DEF Terminated, vars, jobs, texts
  <2>2. Flags' = Flags
    BY <2>1, FlagsStay
  <2> QED BY <2>1, <2>2 DEF TypeOK, Out, Html
<1> QED BY <1>1, <1>2, <1>3, <1>4, <1>5, <1>6, <1>7, <1>8, <1>9, <1>10, <1>11, <1>12, <1>13 DEF Next

-----------------------------------------------------------------------------
\* Every scratch file and the document have the deferred call that ends them,
\* and an output file is on its way out.
Fresh == {"handle", "flags", "engine", "start", "extract", "load"}

CleanInv ==
  /\ pc \in Fresh => temps = {} /\ deferred = {} /\ doc = "none"
  /\ doc = "open" /\ outcome # "crashed" => "close" \in deferred
  /\ Html \in temps /\ outcome # "crashed" => "html" \in deferred
  /\ outcome # "crashed" => \A t \in temps : t[1] = "page" => "pages" \in deferred
  /\ pc \in {"render", "compose"} => "pages" \in deferred
  /\ Out \in temps <=> pc = "save" \/ (pc \in {"unwind", "done"} /\ outcome = "file")
  /\ pc = "unwind" => outcome \in {"error", "file"}
  /\ pc \notin {"unwind", "done"} => outcome = "none"
  /\ pc = "done" /\ outcome # "crashed" => deferred = {}

LEMMA FileNames ==
  /\ Out # Html /\ Out[1] # "page" /\ Html[1] # "page"
  /\ \A i : Page(i)[1] = "page" /\ Page(i) # Out /\ Page(i) # Html
BY DEF Out, Html, Page

LEMMA CleanKeeps ==
  ASSUME TypeOK, HandoffInv, CleanInv, [Next]_vars
  PROVE  CleanInv'
<1> USE FileNames DEF CleanInv, Fresh, At, Goto, Fail, Succeed, End
<1>1. CASE Handle \/ BuildJob \/ OpenEngine
  BY <1>1 DEF Handle, BuildJob, OpenEngine
<1>2. CASE Begin \/ Extract
  BY <1>2 DEF Begin, Extract
<1>3. CASE Load
  BY <1>3, AfterLoadValues DEF Load
<1>4. CASE CreatePDF
  BY <1>4 DEF CreatePDF
<1>5. CASE SavePDF
  BY <1>5 DEF SavePDF
<1>6. CASE Select \/ RenderSingle \/ Compose
  BY <1>6 DEF Select, RenderSingle, Compose
<1>7. CASE RenderPage
  BY <1>7 DEF RenderPage
<1>8. CASE CreateHTML \/ SaveHTML
  BY <1>8 DEF CreateHTML, SaveHTML
<1>9. CASE Assemble \/ Assembled \/ Write
  BY <1>9 DEF Assemble, Assembled, Write
<1>10. CASE Unwind
  BY <1>10 DEF Unwind
<1>11. CASE Expire
  BY <1>11 DEF Expire
<1>12. CASE Terminated \/ UNCHANGED vars
  BY <1>12 DEF Terminated, vars
<1> QED BY <1>1, <1>2, <1>3, <1>4, <1>5, <1>6, <1>7, <1>8, <1>9, <1>10, <1>11, <1>12 DEF Next

LEMMA CleanImplies == TypeOK /\ CleanInv => OnlyTheOutputIsLeft
<1> SUFFICES ASSUME TypeOK, CleanInv, pc = "done", outcome # "crashed"
             PROVE  doc # "open" /\ temps = IF outcome = "file" THEN {Out} ELSE {}
  BY DEF OnlyTheOutputIsLeft
<1>1. deferred = {} /\ doc # "open" /\ Html \notin temps
  BY DEF CleanInv
<1>2. \A t \in temps : t = Out
  BY <1>1 DEF CleanInv, TypeOK
<1> QED BY <1>1, <1>2 DEF CleanInv

-----------------------------------------------------------------------------
\* The sections of the first n pages are what the pages call for.
SectionsFit(n) == \A i \in 1..n : body[i] = "text" <=> ~(EngineOpens /\ NeedsOCR(i))

Accounted ==
  /\ Len(body) = ask.doc.parts
  /\ SectionsFit(ask.doc.parts)
  /\ Attempts # {} => Failures # Attempts

\* Only a PDF for which the engine has opened gets to the loop over pages.
SectionInv ==
  /\ pc \in Fresh => body = <<>>
  /\ pc = "extract" => OnPDF
  /\ pc = "load" /\ OnPDF => EngineOpens
  /\ pc = "page" => OnPDF /\ EngineOpens /\ Len(body) <= ask.doc.parts /\ SectionsFit(Len(body))
  /\ pc \in {"create", "save", "parts", "single", "render", "compose", "html", "saveHTML"} => ~OnPDF
  /\ pc = "write" /\ OnPDF => Accounted
  /\ pc \in {"unwind", "done"} /\ OnPDF /\ outcome = "file" => Accounted

LEMMA SameSections ==
  ASSUME UNCHANGED <<ask, work, body>>
  PROVE  /\ OnPDF' = OnPDF /\ EngineOpens' = EngineOpens /\ Accounted' = Accounted
         /\ \A n : SectionsFit(n)' = SectionsFit(n)
BY DEF OnPDF, EngineOpens, Accounted, SectionsFit, NeedsOCR, Attempts, Failures

LEMMA SectionKeeps ==
  ASSUME TypeOK, HandoffInv, CleanInv, SectionInv, [Next]_vars
  PROVE  SectionInv'
<1> USE DEF SectionInv, Fresh, At, Goto, Fail, Succeed, End
<1>0. ask.doc.parts \in Nat
  BY AskFacts DEF TypeOK
<1>1. CASE Handle \/ BuildJob \/ OpenEngine
  <2>1. body' = <<>> /\ pc' \in {"flags", "engine", "start", "done"} /\ outcome' # "file"
    BY <1>1 DEF Handle, BuildJob, OpenEngine, CleanInv, texts
  <2> QED BY <2>1
<1>2. CASE Begin
  <2>1. UNCHANGED <<ask, work, body>>
    BY <1>2 DEF Begin, jobs, texts
  <2> QED BY <1>2, <2>1, SameSections DEF Begin, CleanInv, EngineOpens, OnPDF
<1>3. CASE Extract
  <2>1. UNCHANGED <<ask, work>> /\ OnPDF /\ body = <<>>
    BY <1>3 DEF Extract, jobs
  <2>2. OnPDF' /\ EngineOpens' = EngineOpens
    BY <2>1 DEF OnPDF, EngineOpens
  <2>3. CASE pc' = "write"
    <3>1. ~EngineOpens /\ body' = [i \in 1..ask.doc.parts |-> "text"]
      BY <1>3, <2>3 DEF Extract
    <3>2. Len(body') = ask.doc.parts /\ DOMAIN body' = 1..ask.doc.parts
      BY <3>1, <1>0
    <3>3. \A i \in 1..ask.doc.parts : body'[i] = "text"
      BY <3>1
    <3>4. SectionsFit(ask.doc.parts)'
      BY <2>1, <2>2, <3>1, <3>3 DEF SectionsFit
    <3>5. Attempts' = {}
      BY <3>2, <3>3 DEF Attempts
    <3> QED BY <2>1, <2>3, <3>2, <3>4, <3>5 DEF Accounted
  <2>4. CASE pc' # "write"
    BY <1>3, <2>1, <2>2, <2>4 DEF Extract
  <2> QED BY <2>3, <2>4
<1>4. CASE Load
  <2>1. UNCHANGED <<ask, work, body>> /\ body = <<>>
    BY <1>4 DEF Load, jobs, texts
  <2>2. SectionsFit(0)
    BY DEF SectionsFit
  <2>3. Len(body) = 0
    BY <2>1
  <2>4. CASE pc' = "unwind" /\ outcome' = "error"
    BY <2>4
  <2>5. CASE pc' = AfterLoad
    BY <1>0, <1>4, <2>1, <2>2, <2>3, <2>5, AfterLoadValues, SameSections DEF Load
  <2> QED BY <1>4, <2>4, <2>5 DEF Load
<1>5. CASE CreatePDF \/ SavePDF \/ Select \/ RenderSingle \/ RenderPage \/ Compose \/ CreateHTML \/ SaveHTML
  <2>1. UNCHANGED <<ask, work, body>>
    BY <1>5 DEF CreatePDF, SavePDF, Select, RenderSingle, RenderPage, Compose, CreateHTML, SaveHTML,
                jobs, texts
  <2>2. ~OnPDF'
    BY <1>5, <2>1, SameSections
    DEF CreatePDF, SavePDF, Select, RenderSingle, RenderPage, Compose, CreateHTML, SaveHTML
  <2>3. pc' \notin Fresh /\ pc' # "page"
    BY <1>5
    DEF CreatePDF, SavePDF, Select, RenderSingle, RenderPage, Compose, CreateHTML, SaveHTML
  <2> QED BY <2>2, <2>3
<1>6. CASE Assemble
  <2>0. PICK n \in Nat : n = Len(body)
    BY DEF TypeOK
  <2>1. UNCHANGED <<ask, work>> /\ pc' = "page" /\ n < ask.doc.parts /\ SectionsFit(n)
        /\ OnPDF /\ EngineOpens
    BY <1>6, <2>0 DEF Assemble, jobs
  <2>2. PICK s : body' = Append(body, s) /\ (s = "text" <=> ~NeedsOCR(n + 1))
    BY <1>6, <2>0 DEF Assemble
  <2>3. Len(body') = n + 1 /\ body'[n + 1] = s /\ \A i \in 1..n : body'[i] = body[i]
    BY <2>0, <2>2 DEF TypeOK
  <2>4. OnPDF' /\ EngineOpens' /\ \A i : NeedsOCR(i)' = NeedsOCR(i)
    BY <2>1 DEF OnPDF, EngineOpens, NeedsOCR
  <2>5. SectionsFit(n + 1)'
    <3> SUFFICES ASSUME NEW i \in 1..(n + 1)
                 PROVE  body'[i] = "text" <=> ~NeedsOCR(i)
      BY <2>1, <2>4 DEF SectionsFit
    <3>1. CASE i = n + 1
      BY <3>1, <2>2, <2>3
    <3>2. CASE i \in 1..n
      BY <3>2, <2>1, <2>3 DEF SectionsFit
    <3> QED BY <3>1, <3>2, <2>1
  <2>6. SectionsFit(Len(body))'
    BY <2>3, <2>5 DEF SectionsFit
  <2>7. (Len(body) <= ask.doc.parts)'
    BY <1>0, <2>1, <2>3
  <2> QED BY <2>1, <2>4, <2>6, <2>7
<1>7. CASE Assembled
  <2>1. UNCHANGED <<ask, work, body>> /\ pc = "page" /\ Len(body) = ask.doc.parts
    BY <1>7 DEF Assembled, jobs, texts
  <2>2. CASE pc' = "unwind" /\ outcome' = "error"
    BY <2>2
  <2>3. CASE pc' = "write" /\ ~(Attempts # {} /\ Failures = Attempts)
    <3>1. Accounted
      BY <2>1, <2>3 DEF Accounted
    <3> QED BY <2>1, <2>3, <3>1, SameSections
  <2> QED BY <1>7, <2>2, <2>3 DEF Assembled
<1>8. CASE Write
  <2>1. UNCHANGED <<ask, work, body>>
    BY <1>8 DEF Write, jobs, texts
  <2> QED BY <1>8, <2>1, SameSections DEF Write
<1>9. CASE Unwind
  <2>1. UNCHANGED <<ask, work, body>>
    BY <1>9 DEF Unwind, jobs, texts
  <2> QED BY <1>9, <2>1, SameSections DEF Unwind
<1>10. CASE Expire \/ Terminated \/ UNCHANGED vars
  <2>1. UNCHANGED <<ask, work, body, pc, outcome>>
    BY <1>10 DEF Expire, Terminated, vars, jobs, texts
  <2> QED BY <2>1, SameSections
<1> QED BY <1>1, <1>2, <1>3, <1>4, <1>5, <1>6, <1>7, <1>8, <1>9, <1>10 DEF Next

-----------------------------------------------------------------------------
LEMMA ReturnedErrors ==
  /\ LOKErrors \subseteq WorkerErrors
  /\ {"DeadlineExceeded"} \in WorkerErrors /\ {"ErrInvalidDPI"} \in WorkerErrors
  /\ {"ErrPNGGridTooLarge"} \in WorkerErrors /\ {"ErrPageOutOfRange"} \in WorkerErrors
  /\ {"ErrMarkdownConversion"} \in WorkerErrors /\ {"ErrOCRFailed"} \in WorkerErrors
  /\ {"ErrMarkdownConversion", "ErrPasswordRequired"} \in WorkerErrors /\ {} \in WorkerErrors
BY DEF LOKErrors, WorkerErrors

LEMMA ErrorKeeps ==
  ASSUME OutcomeIsContracted, [Next]_vars
  PROVE  OutcomeIsContracted'
<1> USE ReturnedErrors DEF OutcomeIsContracted, Goto, Fail, Succeed, End
<1>1. CASE Handle \/ BuildJob \/ OpenEngine \/ Begin \/ Load
  BY <1>1 DEF Handle, BuildJob, OpenEngine, Begin, Load
<1>2. CASE Extract
  <2>1. {"ErrMarkdownConversion"} \cup {} = {"ErrMarkdownConversion"}
        /\ {"ErrMarkdownConversion"} \cup {"ErrPasswordRequired"}
             = {"ErrMarkdownConversion", "ErrPasswordRequired"}
    OBVIOUS
  <2> QED BY <1>2, <2>1 DEF Extract
<1>3. CASE CreatePDF \/ SavePDF \/ CreateHTML \/ SaveHTML
  BY <1>3 DEF CreatePDF, SavePDF, CreateHTML, SaveHTML
<1>4. CASE Select \/ RenderSingle \/ RenderPage \/ Compose
  BY <1>4 DEF Select, RenderSingle, RenderPage, Compose
<1>5. CASE Assemble \/ Assembled \/ Write \/ Unwind \/ Expire
  BY <1>5 DEF Assemble, Assembled, Write, Unwind, Expire
<1>6. CASE Terminated \/ UNCHANGED vars
  BY <1>6 DEF Terminated, vars
<1> QED BY <1>1, <1>2, <1>3, <1>4, <1>5, <1>6 DEF Next

-----------------------------------------------------------------------------
\* The inductive invariant: each part needs those before it.
FormatsInv == TypeOK /\ HandoffInv /\ CleanInv /\ SectionInv /\ OutcomeIsContracted

LEMMA FormatsInductive == Spec => []FormatsInv
<1>1. Init => FormatsInv
  <2> SUFFICES ASSUME Init PROVE FormatsInv
    OBVIOUS
  <2>1. TypeOK /\ HandoffInv
    BY TypeInit, HandoffInit
  <2>2. CleanInv
    BY FileNames DEF Init, CleanInv, Asks
  <2>3. pc \in Fresh /\ pc \in {"handle", "flags"} /\ body = <<>> /\ outcome = "none"
    BY DEF Init, Fresh
  <2>4. SectionInv /\ OutcomeIsContracted
    BY <2>3 DEF SectionInv, OutcomeIsContracted
  <2> QED BY <2>1, <2>2, <2>4 DEF FormatsInv
<1>2. FormatsInv /\ [Next]_vars => FormatsInv'
  <2> SUFFICES ASSUME FormatsInv, [Next]_vars PROVE FormatsInv'
    OBVIOUS
  <2>1. ask \in Asks
    BY DEF FormatsInv, TypeOK
  <2> QED BY <2>1, TypeKeeps, HandoffKeeps, CleanKeeps, SectionKeeps, ErrorKeeps DEF FormatsInv
<1> QED BY <1>1, <1>2, PTL DEF Spec

\* Of every conversion, the variables have their types: a job that exists is the
\* one its query or its flags spell.
THEOREM FormatsTypeOK == Spec => []TypeOK
<1>1. FormatsInv => TypeOK
  BY DEF FormatsInv
<1> QED BY <1>1, FormatsInductive, PTL

\* However many pages, and wherever it fails: a conversion that returns has closed
\* its document and leaves nothing but its output behind (the deferred calls and
\* os.Remove of internal/worker/run_*.go).
THEOREM FormatsClean == Spec => []OnlyTheOutputIsLeft
<1>1. FormatsInv => OnlyTheOutputIsLeft
  BY CleanImplies DEF FormatsInv
<1> QED BY <1>1, FormatsInductive, PTL

\* For PDFs of any length: assembleMarkdownWithOCR gives every page its section,
\* of the right kind, and never succeeds when each OCR has failed.
THEOREM FormatsPages == Spec => []EveryPageAccounted
<1>1. FormatsInv => EveryPageAccounted
  BY DEF FormatsInv, SectionInv, EveryPageAccounted, Accounted, SectionsFit
<1> QED BY <1>1, FormatsInductive, PTL

\* Every error that execute returns is one whose class module ErrorContract carries
\* to the client.
THEOREM FormatsErrors == Spec => []OutcomeIsContracted
<1>1. FormatsInv => OutcomeIsContracted
  BY DEF FormatsInv
<1> QED BY <1>1, FormatsInductive, PTL

\* Whatever selection, layout, scale, OCR mode and languages a client asks for, and
\* whatever the limits: a query the handler accepts survives buildSubprocessArgs
\* and buildJob unchanged.
THEOREM FormatsHandoff == Spec => []ChildRebuildsJob
<1>1. FormatsInv => ChildRebuildsJob
  BY DEF FormatsInv, HandoffInv
<1> QED BY <1>1, FormatsInductive, PTL
=============================================================================
