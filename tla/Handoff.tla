------------------------------- MODULE Handoff -------------------------------
(***************************************************************************)
(* What to convert is written down three times: as a query (the handlers'   *)
(* parsePNGParams and convertMarkdown), as the flags of `bi convert'        *)
(* (buildSubprocessArgs) and as the child's worker.Job (buildJob).          *)
(*                                                                          *)
(* A parameter page, pages or layout is the sequence of the numbers it      *)
(* spells, empty if it is absent: a page is one number, a layout two.  A    *)
(* language is the sequence of its names.                                   *)
(***************************************************************************)
EXTENDS Integers, Sequences

CONSTANTS
  IntLimit,      \* Go's int and int64 go from -IntLimit to IntLimit - 1
  MaxSelected,   \* pngopts.MaxSelectedPages
  MaxCells,      \* pngopts.MaxGridCells
  SupportedLangs \* ocr.SupportedLangs

ASSUME HandoffAssumption ==
  /\ IntLimit \in Nat
  /\ MaxSelected \in Nat \ {0}
  /\ MaxCells \in Nat
  /\ MaxSelected <= MaxCells /\ MaxCells < IntLimit  \* both are 100
  /\ {"auto", "all", "osd"} \cap SupportedLangs = {}

-----------------------------------------------------------------------------
\* An integer as an int holds it.
Wrap(n) == ((n + IntLimit) % (2 * IntLimit)) - IntLimit

\* Fault: the pages are not counted.
ValidLayoutAnyCount(count, layout) ==
  LET cells == Wrap(layout[1] * layout[2])
  IN  count > 0 /\ layout[1] > 0 /\ layout[2] > 0 /\ cells <= MaxCells

\* The number of cells is a product of two int64.
ValidLayout(count, layout) ==
  LET cells == Wrap(layout[1] * layout[2])
  IN  /\ count > 0 /\ layout[1] > 0 /\ layout[2] > 0
      /\ cells <= MaxCells /\ count <= cells

ParsePageList(pages) == Len(pages) \in 1..MaxSelected

ParseGridLayout(layout) == Len(layout) = 2 /\ ValidLayout(1, layout)

\* Pages in one row without a layout, no grid without pages.
GridFor(pages, layout) ==
  CASE pages = <<>> -> <<0, 0>>
    [] pages # <<>> /\ layout = <<>> -> <<Len(pages), 1>>
    [] OTHER -> layout

\* What parsePNGParams and buildJob both ask of pages and layout.
ValidSelection(pages, layout) ==
  /\ pages # <<>> => ParsePageList(pages)
  /\ layout # <<>> => pages # <<>> /\ ParseGridLayout(layout) /\ ValidLayout(Len(pages), layout)

\* f < minDPI || f > maxDPI: the comparisons are false for a NaN.
DPIOutOfRange(dpi) == dpi = "5.0"

PageOf(page) == IF page = <<>> THEN 0 ELSE page[1]
Defaulted(value, default) == IF value = "" THEN default ELSE value

ValidateLangs(lang) ==
  \/ lang \in {<<"auto">>, <<"all">>}
  \/ lang # <<>> /\ \A i \in DOMAIN lang : lang[i] \in SupportedLangs

LangOf(lang) == IF lang = <<>> THEN <<"auto">> ELSE lang

-----------------------------------------------------------------------------
\* A query is accepted; ocrAvailable is what the server found at boot.
Accepts(q, ocrAvailable) ==
  CASE q.format = "pdf" -> TRUE
    [] q.format = "png" ->
         /\ Len(q.page) <= 1
         /\ q.page = <<>> \/ q.pages = <<>>
         /\ ~q.range  \* not a number to Atoi
         /\ ValidSelection(q.pages, q.layout)
         /\ ~DPIOutOfRange(q.dpi)
    [] q.format = "markdown" ->
         /\ ValidateLangs(LangOf(q.lang))
         /\ q.ocr = "always" => ocrAvailable

\* The worker.Job of an accepted query; thumbnails have a DPI of their own.
JobOfQuery(q) ==
  CASE q.format = "pdf" -> [format |-> "pdf"]
    [] q.format = "png" ->
         [format |-> "png", page |-> PageOf(q.page), pages |-> q.pages,
          grid |-> GridFor(q.pages, q.layout),
          dpi |-> Defaulted(q.dpi, IF q.thumbnail THEN "0.5" ELSE "1.0")]
    [] q.format = "markdown" ->
         [format |-> "markdown", images |-> Defaulted(q.images, "embed"), marp |-> q.marp,
          ocr |-> Defaulted(q.ocr, "auto"), lang |-> LangOf(q.lang)]

\* The layout flag of a job with pages.
LayoutFlag(job) ==
  LET n == Len(job.pages)
      cols == IF job.grid[1] <= 0 THEN n ELSE job.grid[1]
      rows == IF job.grid[2] <= 0 THEN (n + cols - 1) \div cols ELSE job.grid[2]
  IN  <<cols, rows>>

\* Fault: -layout is left to its default.
buildSubprocessArgsNoLayout(job) ==
  IF job.format = "png"
  THEN [format |-> "png", page |-> IF job.pages = <<>> THEN <<job.page>> ELSE <<>>,
        pages |-> job.pages, dpi |-> job.dpi, layout |-> <<>>]
  ELSE job

\* The flags of the child; an absent one has its default.
buildSubprocessArgs(job) ==
  CASE job.format = "png" ->
         [format |-> "png", page |-> IF job.pages = <<>> THEN <<job.page>> ELSE <<>>,
          pages |-> job.pages, dpi |-> job.dpi,
          layout |-> IF job.pages = <<>> THEN <<>> ELSE LayoutFlag(job)]
    [] job.format = "markdown" -> [job EXCEPT !.lang = LangOf(@)]
    [] OTHER -> job

\* buildJob returns no error.
FlagsOK(f) == f.format = "png" => ValidSelection(f.pages, f.layout)

buildJob(f) ==
  IF f.format = "png"
  THEN [format |-> "png", page |-> PageOf(f.page), pages |-> f.pages, dpi |-> f.dpi,
        grid |-> GridFor(f.pages, f.layout)]
  ELSE f
=============================================================================
