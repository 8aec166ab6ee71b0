---------------------------- MODULE PictureProofs -----------------------------
(***************************************************************************)
(* Theorems about the pictures of module Formats, for pages of any size and *)
(* any number, and for integers of any width: as long as the columns and    *)
(* rows that a client asks for can be multiplied, a PNG shows what it       *)
(* should.  First the arithmetic of a grid, over the natural numbers; then  *)
(* that no product of it wraps; then the pipeline; then what README.md says *)
(* of page numbers and ranges, which does not hold; last, the languages     *)
(* that Tesseract is told.                                                  *)
(***************************************************************************)
EXTENDS FormatsProofs, WellFoundedInduction

\* The natural numbers are well ordered.
LEMMA NatOrder == \E R : IsWellFoundedOn(R, Nat) /\ \A x, y \in Nat : x < y => <<x, y>> \in R
<1>1. IsWellFoundedOn(OpToRel(<,Nat), Nat)
  BY NatLessThanWellFounded
<1>2. \A x, y \in Nat : x < y => <<x, y>> \in OpToRel(<,Nat)
  BY DEF OpToRel
<1> QED BY <1>1, <1>2

LEMMA Smallest == ASSUME NEW T, T \subseteq Nat, T # {} PROVE \E m \in T : \A k \in T : m <= k
<1>1. PICK R : IsWellFoundedOn(R, Nat) /\ \A x, y \in Nat : x < y => <<x, y>> \in R
  BY NatOrder
<1>2. IsWellFoundedOn(R, Nat)
  BY <1>1
<1>3. \E x \in T : \A y \in T : ~(<<y, x>> \in R)
  BY <1>2, WFMin, Zenon
<1>4. PICK m \in T : \A y \in T : ~(<<y, m>> \in R)
  BY <1>3
<1>5. \A y \in T : y \in Nat /\ m \in Nat /\ ~(y < m)
  BY <1>1, <1>4
<1>6. \A y \in T : m <= y
  BY <1>5
<1> QED BY <1>6

\* A bounded set of natural numbers has the maximum that Max chooses.
LEMMA MaxIsLargest ==
  ASSUME NEW S, S \subseteq Nat, S # {}, NEW b \in Nat, \A x \in S : x <= b
  PROVE  Max(S) \in S /\ \A x \in S : x <= Max(S)
<1> DEFINE T == {b - x : x \in S}
<1>1. T \subseteq Nat /\ T # {}
  <2>1. \A x \in S : b - x \in Nat
    OBVIOUS
  <2> QED BY <2>1
<1>2. PICK m \in T : \A k \in T : m <= k
  BY <1>1, Smallest
<1>3. PICK y \in S : m = b - y
  OBVIOUS
<1>4. ASSUME NEW x \in S PROVE y >= x
  <2>1. m <= b - x
    BY <1>2
  <2> QED BY <2>1, <1>3
<1>5. \E x \in S : \A z \in S : x >= z
  BY <1>4
<1>6. Max(S) \in S /\ \A z \in S : Max(S) >= z
  BY <1>5 DEF Max
<1> QED BY <1>6

-----------------------------------------------------------------------------
\* Rows and columns of cells, in natural numbers.
LEMMA TimesGrows == ASSUME NEW a \in Nat, NEW b \in Nat, NEW c \in Nat, a <= b PROVE a * c <= b * c
BY SMT

LEMMA ProductAtLeast == ASSUME NEW a \in Nat, NEW b \in Nat \ {0} PROVE a <= a * b /\ a <= b * a
BY SMT

LEMMA Division ==
  ASSUME NEW i \in Nat, NEW c \in Nat \ {0}
  PROVE  /\ i \div c \in Nat /\ i % c \in 0..(c - 1)
         /\ i = ((i \div c) * c) + (i % c)
BY SMT

\* Cell i of a grid with c columns and r rows lies in the grid.
LEMMA CellInside ==
  ASSUME NEW c \in Nat \ {0}, NEW r \in Nat \ {0}, NEW w \in Nat, NEW h \in Nat,
         NEW i \in Nat, i < c * r
  PROVE  /\ (i % c) * w \in Nat /\ ((i % c) * w) + w <= c * w
         /\ (i \div c) * h \in Nat /\ ((i \div c) * h) + h <= r * h
<1>1. i \div c \in Nat /\ i % c \in 0..(c - 1) /\ i = ((i \div c) * c) + (i % c)
  BY Division
<1>2. i \div c < r
  <2> SUFFICES ASSUME r <= i \div c PROVE FALSE
    BY <1>1
  <2>1. r * c <= (i \div c) * c
    BY <1>1, TimesGrows
  <2> QED BY <1>1, <2>1
<1>3. ((i % c) + 1) * w <= c * w
  BY <1>1, TimesGrows
<1>4. ((i \div c) + 1) * h <= r * h
  BY <1>1, <1>2, TimesGrows
<1> QED BY <1>1, <1>3, <1>4

\* A later cell is in a row below, or further right in the same row.
LEMMA CellsInOrder ==
  ASSUME NEW c \in Nat \ {0}, NEW w \in Nat, NEW h \in Nat, NEW i \in Nat, NEW j \in Nat, i < j
  PROVE  \/ ((i \div c) * h) + h <= (j \div c) * h
         \/ i \div c = j \div c /\ ((i % c) * w) + w <= (j % c) * w
<1>1. /\ i \div c \in Nat /\ i % c \in 0..(c - 1) /\ i = ((i \div c) * c) + (i % c)
      /\ j \div c \in Nat /\ j % c \in 0..(c - 1) /\ j = ((j \div c) * c) + (j % c)
  BY Division
<1>2. CASE i \div c < j \div c
  <2>1. ((i \div c) + 1) * h <= (j \div c) * h
    BY <1>1, <1>2, TimesGrows
  <2> QED BY <1>1, <2>1
<1>3. CASE i \div c = j \div c
  <2>1. (i % c) + 1 <= j % c
    BY <1>1, <1>3
  <2>2. ((i % c) + 1) * w <= (j % c) * w
    BY <1>1, <2>1, TimesGrows
  <2> QED BY <1>1, <1>3, <2>2
<1>4. CASE j \div c < i \div c
  <2>1. ((j \div c) + 1) * c <= (i \div c) * c
    BY <1>1, <1>4, TimesGrows
  <2>2. (((j \div c) + 1) * c) = ((j \div c) * c) + c
    BY <1>1
  <2> QED BY <1>1, <2>1, <2>2
<1> QED BY <1>1, <1>2, <1>3, <1>4

-----------------------------------------------------------------------------
\* The rows and columns that the client asks for can be multiplied in an int64.
LayoutInRange ==
  ask.q.format = "png" /\ Len(ask.q.layout) = 2 => ask.q.layout[1] * ask.q.layout[2] < IntLimit

\* What PictureShowsWhatWasAsked says of a picture, the pages counted from 0.
Shows(pic) ==
  /\ Len(pic.at) = Len(Asked) /\ DOMAIN pic.at = 1..Len(Asked)
  /\ \A i \in DOMAIN pic.at : pic.at[i].page = Asked[i] /\ Inside(pic.at[i], pic)
  /\ \A i, j \in DOMAIN pic.at : i < j => Follows(pic.at[j], pic.at[i])
  /\ ~Single => Area(pic) <= MaxPixels

\* A grid that both composePNGGrid and the limits of pages and cells let pass.
GridFits ==
  \/ work.grid = <<0, 0>> /\ Len(Selected) = 1
  \/ /\ Cols \in Nat \ {0} /\ Rows \in Nat \ {0}
     /\ ~TooFewCells /\ Wrap(Cols * Rows) <= MaxCells
     /\ LayoutInRange => Wrap(Cols * Rows) = Cols * Rows

\* The pages are those of the document, so they have a size.
PagesHaveSizes == \A i \in DOMAIN Selected : Selected[i] \in 0..(MaxParts - 1)

\* No product of a grid that fits wraps.
LEMMA GridArithmetic ==
  ASSUME NEW c \in Nat \ {0}, NEW r \in Nat \ {0}, NEW w \in Nat \ {0}, NEW h \in Nat \ {0},
         c * r <= MaxCells, MaxCells * w * h < IntLimit
  PROVE  /\ c * w * r * h = (c * w) * (r * h)
         /\ c * w * r * h \in 0..(IntLimit - 1)
         /\ c * w \in Nat \ {0} /\ r * h \in Nat \ {0}
         /\ c * w <= c * w * r * h /\ r * h <= c * w * r * h
<1>1. MaxCells \in Nat /\ IntLimit \in Nat
  BY HandoffAssumption DEF HandoffAssumption
<1>2. c * r \in Nat /\ w * h \in Nat \ {0} /\ c * w \in Nat \ {0} /\ r * h \in Nat \ {0}
  OBVIOUS
<1>3. c * w * r * h = (c * w) * (r * h)
  OBVIOUS
<1>4. c * w * r * h = (c * r) * (w * h)
  OBVIOUS
<1>5. (c * r) * (w * h) <= MaxCells * (w * h)
  BY <1>1, <1>2, TimesGrows
<1>6. MaxCells * (w * h) = MaxCells * w * h
  BY <1>1
<1>7. c * w <= (c * w) * (r * h) /\ r * h <= (c * w) * (r * h)
  BY <1>2, ProductAtLeast
<1>8. (c * w) * (r * h) \in Nat
  BY <1>2
<1> QED BY <1>1, <1>2, <1>3, <1>4, <1>5, <1>6, <1>7, <1>8

LEMMA SizesBounded ==
  ASSUME NEW p \in 0..(MaxParts - 1), NEW q \in 0..(MaxParts - 1)
  PROVE  /\ PageSize(p)[1] \in Nat \ {0} /\ PageSize(p)[2] \in Nat \ {0}
         /\ MaxCells * PageSize(p)[1] * PageSize(q)[2] < IntLimit
         /\ PageSize(p)[1] <= IntLimit /\ PageSize(q)[2] <= IntLimit
<1>1. /\ PageSize(p)[1] \in Nat \ {0} /\ PageSize(p)[2] \in Nat \ {0} /\ PageSize(q)[2] \in Nat \ {0}
      /\ MaxCells * PageSize(p)[1] * PageSize(q)[2] < IntLimit
  BY FormatsAssumption DEF FormatsAssumption
<1>2. MaxCells \in Nat \ {0} /\ IntLimit \in Nat
  BY HandoffAssumption DEF HandoffAssumption
<1> DEFINE w == PageSize(p)[1]
           h == PageSize(q)[2]
<1> HIDE DEF w, h
<1>3. w \in Nat \ {0} /\ h \in Nat \ {0} /\ MaxCells * w * h < IntLimit
  BY <1>1 DEF w, h
<1>4. MaxCells * w \in Nat \ {0} /\ w <= MaxCells * w
  BY <1>2, <1>3, ProductAtLeast
<1>5. MaxCells * w <= (MaxCells * w) * h /\ h <= (MaxCells * w) * h
  BY <1>3, <1>4, ProductAtLeast
<1>6. w <= IntLimit /\ h <= IntLimit
  BY <1>2, <1>3, <1>4, <1>5
<1> QED BY <1>1, <1>6 DEF w, h

\* A cell is as wide and as high as some page, and as every page.
LEMMA CellSizes ==
  ASSUME Selected \in Seq(Int), Selected # <<>>, PagesHaveSizes
  PROVE  /\ CellWidth \in Nat \ {0} /\ CellHeight \in Nat \ {0}
         /\ MaxCells * CellWidth * CellHeight < IntLimit
         /\ \A i \in DOMAIN Selected :
              /\ PageSize(Selected[i])[1] \in Nat \ {0} /\ PageSize(Selected[i])[1] <= CellWidth
              /\ PageSize(Selected[i])[2] \in Nat \ {0} /\ PageSize(Selected[i])[2] <= CellHeight
<1> DEFINE Ws == {PageSize(Selected[i])[1] : i \in DOMAIN Selected}
           Hs == {PageSize(Selected[i])[2] : i \in DOMAIN Selected}
<1>1. 1 \in DOMAIN Selected
  OBVIOUS
<1>2. \A i, j \in DOMAIN Selected :
        /\ PageSize(Selected[i])[1] \in Nat \ {0} /\ PageSize(Selected[i])[2] \in Nat \ {0}
        /\ MaxCells * PageSize(Selected[i])[1] * PageSize(Selected[j])[2] < IntLimit
        /\ PageSize(Selected[i])[1] <= IntLimit /\ PageSize(Selected[j])[2] <= IntLimit
  BY SizesBounded DEF PagesHaveSizes
<1>3. /\ Ws \subseteq Nat /\ Ws # {} /\ \A x \in Ws : x <= IntLimit
      /\ Hs \subseteq Nat /\ Hs # {} /\ \A x \in Hs : x <= IntLimit
  BY <1>1, <1>2
<1>4. IntLimit \in Nat
  BY HandoffAssumption DEF HandoffAssumption
<1>5. Max(Ws) \in Ws /\ (\A x \in Ws : x <= Max(Ws)) /\ Max(Hs) \in Hs /\ \A x \in Hs : x <= Max(Hs)
  <2> HIDE DEF Ws, Hs
  <2> QED BY <1>3, <1>4, MaxIsLargest
<1>6. CellWidth = Max(Ws) /\ CellHeight = Max(Hs)
  BY DEF CellWidth, CellHeight
<1>7. PICK i \in DOMAIN Selected, j \in DOMAIN Selected :
        CellWidth = PageSize(Selected[i])[1] /\ CellHeight = PageSize(Selected[j])[2]
  BY <1>5, <1>6
<1>8. \A k \in DOMAIN Selected :
        PageSize(Selected[k])[1] <= CellWidth /\ PageSize(Selected[k])[2] <= CellHeight
  BY <1>5, <1>6
<1> QED BY <1>2, <1>7, <1>8

\* What a cell has room for, a page in it has.
LEMMA WithinCell ==
  ASSUME NEW at \in Nat, NEW page \in Nat, NEW cell \in Nat, NEW end \in Nat,
         page <= cell, at + cell <= end
  PROVE  at + page <= 0 + end /\ end >= at + page
OBVIOUS

\* composePNGGrid draws what was asked, if nothing wraps.
LEMMA GridShows ==
  ASSUME LayoutInRange, Selected \in Seq(Int), Selected # <<>>, Selected = Asked,
         PagesHaveSizes, GridFits, ~Single, ~TooLarge
  PROVE  Shows(GridPicture) /\ ~Panics
<1> DEFINE w == CellWidth
           h == CellHeight
           n == Len(Selected)
<1>1. /\ Cols \in Nat \ {0} /\ Rows \in Nat \ {0} /\ n <= Cols * Rows /\ Cols * Rows <= MaxCells
      /\ n \in Nat \ {0} /\ DOMAIN Selected = 1..n
  <2>1. Cols \in Nat \ {0} /\ Rows \in Nat \ {0} /\ Wrap(Cols * Rows) = Cols * Rows
        /\ ~TooFewCells /\ Wrap(Cols * Rows) <= MaxCells
    BY DEF GridFits, Single
  <2> QED BY <2>1 DEF TooFewCells
<1>2. /\ w \in Nat \ {0} /\ h \in Nat \ {0} /\ MaxCells * w * h < IntLimit
      /\ \A i \in 1..n :
           /\ PageSize(Selected[i])[1] \in Nat /\ PageSize(Selected[i])[1] <= w
           /\ PageSize(Selected[i])[2] \in Nat /\ PageSize(Selected[i])[2] <= h
  BY <1>1, CellSizes
<1> DEFINE wide == Cols * w
           high == Rows * h
           x == [i \in 1..n |-> ((i - 1) % Cols) * w]
           y == [i \in 1..n |-> ((i - 1) \div Cols) * h]
<1>3. IntLimit \in Nat /\ MaxPixels \in Nat /\ 4 * MaxPixels < IntLimit
  BY HandoffAssumption, FormatsAssumption DEF HandoffAssumption, FormatsAssumption
<1>4. /\ wide \in Nat \ {0} /\ wide < IntLimit /\ high \in Nat \ {0} /\ high < IntLimit
      /\ wide * high <= MaxPixels
  <2> HIDE DEF w, h
  <2>1. /\ Cols * w * Rows * h = wide * high
        /\ Cols * w * Rows * h \in 0..(IntLimit - 1)
        /\ wide \in Nat \ {0} /\ high \in Nat \ {0}
        /\ wide <= Cols * w * Rows * h /\ high <= Cols * w * Rows * h
    BY <1>1, <1>2, GridArithmetic
  <2>2. Wrap(Cols * w * Rows * h) = Cols * w * Rows * h
    BY <2>1, <1>3, WrapInRange
  <2>3. ~(Wrap(Cols * w * Rows * h) > MaxPixels)
    BY DEF TooLarge, w, h
  <2> HIDE DEF wide, high
  <2> QED BY <1>3, <2>1, <2>2, <2>3
<1>5. \A i \in 1..n : x[i] \in Nat /\ x[i] + w <= wide /\ y[i] \in Nat /\ y[i] + h <= high
  <2> SUFFICES ASSUME NEW i \in 1..n
               PROVE  x[i] \in Nat /\ x[i] + w <= wide /\ y[i] \in Nat /\ y[i] + h <= high
    OBVIOUS
  <2> DEFINE k == i - 1
  <2> HIDE DEF w, h
  <2>1. k \in Nat /\ k < Cols * Rows
    BY <1>1
  <2> HIDE DEF k
  <2>2. /\ (k % Cols) * w \in Nat /\ ((k % Cols) * w) + w <= Cols * w
        /\ (k \div Cols) * h \in Nat /\ ((k \div Cols) * h) + h <= Rows * h
    BY <1>1, <1>2, <2>1, CellInside
  <2> QED BY <2>2 DEF k
<1>6. \A i, j \in 1..n : i < j => \/ y[i] + h <= y[j]
                                  \/ y[i] = y[j] /\ x[i] + w <= x[j]
  <2> SUFFICES ASSUME NEW i \in 1..n, NEW j \in 1..n, i < j
               PROVE  y[i] + h <= y[j] \/ (y[i] = y[j] /\ x[i] + w <= x[j])
    OBVIOUS
  <2> DEFINE k == i - 1
             l == j - 1
  <2> HIDE DEF w, h
  <2>1. k \in Nat /\ l \in Nat /\ k < l
    BY <1>1
  <2> HIDE DEF k, l
  <2>2. \/ ((k \div Cols) * h) + h <= (l \div Cols) * h
        \/ k \div Cols = l \div Cols /\ ((k % Cols) * w) + w <= (l % Cols) * w
    BY <1>1, <1>2, <2>1, CellsInOrder
  <2> QED BY <2>2 DEF k, l
<1> HIDE DEF w, h, wide, high, x, y
<1>7. GridPicture = [w |-> wide, h |-> high,
                     at |-> [i \in 1..n |-> [page |-> Selected[i], x |-> x[i], y |-> y[i]]]]
  <2>1. Wrap(wide) = wide /\ Wrap(high) = high
    BY <1>3, <1>4, WrapInRange
  <2>2. ASSUME NEW i \in 1..n PROVE Wrap(x[i]) = x[i] /\ Wrap(y[i]) = y[i]
    <3>1. x[i] \in Nat /\ y[i] \in Nat /\ x[i] < IntLimit /\ y[i] < IntLimit
      BY <1>2, <1>3, <1>4, <1>5
    <3> QED BY <1>3, <3>1, WrapInRange
  <2>3. \A i \in 1..n : Wrap(((i - 1) % Cols) * CellWidth) = x[i]
                        /\ Wrap(((i - 1) \div Cols) * CellHeight) = y[i]
    BY <2>2 DEF x, y, w, h
  <2>4. Wrap(Cols * CellWidth) = wide /\ Wrap(Rows * CellHeight) = high
    BY <2>1 DEF wide, high, w, h
  <2> QED BY <1>1, <2>3, <2>4 DEF GridPicture
<1> DEFINE cells == [i \in 1..n |-> [page |-> Selected[i], x |-> x[i], y |-> y[i]]]
           pic == GridPicture
<1>8. pic.w = wide /\ pic.h = high /\ pic.at = cells
  BY <1>7
<1>9. Low(pic.w) = 0 /\ Side(pic.w) = wide /\ Low(pic.h) = 0 /\ Side(pic.h) = high
  BY <1>4, <1>8 DEF Low, Side
<1>10. /\ DOMAIN cells = 1..n /\ Len(cells) = n
       /\ \A i \in 1..n : cells[i].page = Selected[i] /\ cells[i].x = x[i] /\ cells[i].y = y[i]
  BY <1>1
<1> HIDE DEF pic, cells
<1>11. ASSUME NEW i \in 1..n PROVE cells[i].page = Asked[i] /\ Inside(cells[i], pic)
  <2> DEFINE pw == PageSize(Selected[i])[1]
             ph == PageSize(Selected[i])[2]
  <2>1. pw \in Nat /\ pw <= w /\ ph \in Nat /\ ph <= h
    BY <1>2
  <2> HIDE DEF pw, ph
  <2>2. x[i] \in Nat /\ x[i] + w <= wide /\ y[i] \in Nat /\ y[i] + h <= high
    BY <1>5
  <2>3. PageSize(cells[i].page)[1] = pw /\ PageSize(cells[i].page)[2] = ph
    BY <1>10 DEF pw, ph
  <2>4. w \in Nat /\ h \in Nat /\ wide \in Nat /\ high \in Nat
    BY <1>2, <1>4
  <2>5. x[i] + pw <= 0 + wide /\ y[i] + ph <= 0 + high
    BY <2>1, <2>2, <2>4, WithinCell
  <2> QED BY <1>9, <1>10, <2>2, <2>3, <2>5 DEF Inside
<1>12. ASSUME NEW i \in 1..n, NEW j \in 1..n, i < j PROVE Follows(cells[j], cells[i])
  <2> DEFINE pw == PageSize(Selected[i])[1]
             ph == PageSize(Selected[i])[2]
  <2>1. pw \in Nat /\ pw <= w /\ ph \in Nat /\ ph <= h
    BY <1>2
  <2> HIDE DEF pw, ph
  <2>2. y[i] + h <= y[j] \/ (y[i] = y[j] /\ x[i] + w <= x[j])
    BY <1>6, <1>12
  <2>3. w \in Nat /\ h \in Nat /\ x[i] \in Nat /\ x[j] \in Nat /\ y[i] \in Nat /\ y[j] \in Nat
    BY <1>2, <1>5
  <2>4. PageSize(cells[i].page)[1] = pw /\ PageSize(cells[i].page)[2] = ph
    BY <1>10 DEF pw, ph
  <2>5. y[j] >= y[i] + ph \/ (y[i] = y[j] /\ x[j] >= x[i] + pw)
    BY <2>1, <2>2, <2>3, WithinCell
  <2> QED BY <1>10, <2>4, <2>5 DEF Follows
<1>13. Area(pic) = wide * high
  BY <1>9 DEF Area
<1>14. Shows(pic)
  BY <1>1, <1>4, <1>8, <1>10, <1>11, <1>12, <1>13 DEF Shows
<1>15. ~Panics
  <2>1. wide * high \in Nat
    BY <1>4
  <2> QED BY <1>3, <1>4, <1>13, <2>1 DEF Panics, pic
<1> QED BY <1>14, <1>15 DEF pic

-----------------------------------------------------------------------------
\* What the child works on was accepted, by the handler or by bi convert.
AcceptedInv ==
  work # NoJob =>
    /\ ask.via = "http" => Accepts(ask.q, ask.served) /\ work = JobOfQuery(ask.q)
    /\ ask.via = "cli" => FlagsOK(ask.q) /\ work = buildJob(ask.q)

LEMMA WorkStays ==
  ASSUME [Next]_vars
  PROVE  ask' = ask /\ (BuildJob \/ UNCHANGED work)
BY DEF Next, vars, jobs, Handle, BuildJob, OpenEngine, Begin, Extract, Load, CreatePDF, SavePDF,
       Select, RenderSingle, RenderPage, Compose, CreateHTML, SaveHTML, Assemble, Assembled,
       Write, Unwind, Expire, Terminated

LEMMA AcceptedKeeps ==
  ASSUME TypeOK, HandoffInv, AcceptedInv, [Next]_vars
  PROVE  AcceptedInv'
<1>1. ask' = ask /\ (BuildJob \/ UNCHANGED work)
  BY WorkStays
<1>2. CASE UNCHANGED work
  BY <1>1, <1>2 DEF AcceptedInv
<1>3. CASE BuildJob /\ work' # work
  <2>1. pc = "flags" /\ FlagsOK(Flags) /\ work' = buildJob(Flags)
    BY <1>3 DEF BuildJob, At
  <2>2. ask.via = "http" => Accepts(ask.q, ask.served) /\ job = JobOfQuery(ask.q)
    BY <2>1 DEF HandoffInv
  <2>3. CASE ask.via = "http"
    <3>1. Flags = buildSubprocessArgs(JobOfQuery(ask.q))
      BY <2>2, <2>3 DEF Flags
    <3>2. buildJob(Flags) = JobOfQuery(ask.q)
      BY <2>2, <2>3, <3>1, RoundTrip, AskFacts DEF TypeOK
    <3> QED BY <1>1, <2>1, <2>2, <2>3, <3>2 DEF AcceptedInv
  <2>4. CASE ask.via # "http"
    BY <1>1, <2>1, <2>4 DEF AcceptedInv, Flags
  <2> QED BY <2>3, <2>4
<1> QED BY <1>1, <1>2, <1>3

LEMMA WorkFormat ==
  ASSUME TypeOK, AcceptedInv, work # NoJob
  PROVE  work.format = ask.q.format
<1>1. ask.via \in {"http", "cli"} /\ ask.q.format \in FormatNames
  BY AskFacts DEF TypeOK
<1>2. ask.via = "http" => work.format = ask.q.format
  BY <1>1, JobFormat DEF AcceptedInv
<1>3. buildJob(ask.q).format = ask.q.format
  BY DEF buildJob
<1> QED BY <1>1, <1>2, <1>3 DEF AcceptedInv

\* One page is a sequence of one number.
LEMMA OnePages ==
  ASSUME NEW p \in OnePage
  PROVE  p \in Seq(Int) /\ Len(p) = 1 /\ p = <<p[1]>> /\ p[1] \in Int
<1>1. PICK n \in 0..(MaxParts - 1) : p = <<n>>
  BY DEF OnePage
<1>2. n \in Int
  BY FormatsAssumption DEF FormatsAssumption
<1> QED BY <1>1, <1>2

\* Requests for a PNG.
LEMMA PNGFacts ==
  ASSUME ask \in Asks, ask.q.format = "png"
  PROVE  /\ ask.q.pages \in Seq(Int) /\ ask.q.layout \in Seq(Int)
         /\ ask.doc.parts \in 1..MaxParts
         /\ ask.q.page \in PageParams /\ (Len(ask.q.page) <= 1 => ask.q.page \in {<<>>} \cup OnePage)
         /\ ask.via = "cli" => Len(ask.q.page) <= 1
<1>1. ask.q \in PNGQueries \cup PNGFlags /\ ask.doc \in Paged /\ (ask.via = "cli" => ask.q \in PNGFlags)
  BY DEF Asks, MarkdownQueries, MarkdownFlags, PDFJobs, PNGQueries
<1>2. ask.q.pages \in PagesParams /\ ask.q.layout \in LayoutParams /\ ask.q.page \in PageParams
  BY <1>1 DEF PNGQueries, PNGFlags, PageParams
<1>3. ask.via = "cli" => ask.q.page \in {<<>>} \cup OnePage
  BY <1>1 DEF PNGFlags
<1>4. ask.doc.parts \in 1..MaxParts
  BY <1>1 DEF Paged
<1>5. ask.via = "cli" => Len(ask.q.page) <= 1
  <2>1. Len(<<>>) <= 1 /\ \A p \in OnePage : Len(p) <= 1
    BY OnePages
  <2> QED BY <1>3, <2>1
<1>6. ask.q.pages \in Seq(Int) /\ ask.q.layout \in Seq(Int)
  BY <1>2, SelectionTypes
<1>7. ask.q.page \in {<<>>, <<0, 0>>} \cup OnePage /\ ~(Len(<<0, 0>>) <= 1)
  BY <1>2 DEF PageParams
<1> QED BY <1>2, <1>4, <1>5, <1>6, <1>7

\* Whoever accepts a PNG's selection asks the same of it.
LEMMA WorkOfPNG ==
  ASSUME TypeOK, AcceptedInv, work # NoJob, ask.q.format = "png"
  PROVE  /\ work.pages = ask.q.pages /\ work.page = PageOf(ask.q.page)
         /\ work.grid = GridFor(ask.q.pages, ask.q.layout)
         /\ ValidSelection(ask.q.pages, ask.q.layout) /\ Len(ask.q.page) <= 1
<1>1. ask.via \in {"http", "cli"}
  BY AskFacts DEF TypeOK
<1>2. CASE ask.via = "http"
  <2>1. Accepts(ask.q, ask.served) /\ work = JobOfQuery(ask.q)
    BY <1>2 DEF AcceptedInv
  <2> QED BY <2>1 DEF Accepts, JobOfQuery
<1>3. CASE ask.via = "cli"
  <2>1. FlagsOK(ask.q) /\ work = buildJob(ask.q)
    BY <1>3 DEF AcceptedInv
  <2>2. Len(ask.q.page) <= 1
    BY <1>3, PNGFacts DEF TypeOK
  <2> QED BY <2>1, <2>2 DEF FlagsOK, buildJob
<1> QED BY <1>1, <1>2, <1>3

\* The cells of an accepted layout are as many as the product says, if that is one.
LEMMA ValidLayoutFits ==
  ASSUME NEW n \in Nat \ {0}, NEW c \in Int, NEW r \in Int, ValidLayout(n, <<c, r>>)
  PROVE  /\ c \in Nat \ {0} /\ r \in Nat \ {0}
         /\ ~(n > Wrap(c * r)) /\ Wrap(c * r) <= MaxCells
         /\ c * r < IntLimit => Wrap(c * r) = c * r
<1>1. c > 0 /\ r > 0 /\ Wrap(c * r) <= MaxCells /\ n <= Wrap(c * r)
  BY DEF ValidLayout
<1>2. c \in Nat \ {0} /\ r \in Nat \ {0}
  BY <1>1
<1>3. c * r \in Nat /\ IntLimit \in Nat
  BY <1>2, HandoffAssumption DEF HandoffAssumption
<1>4. Wrap(c * r) \in Int
  BY <1>3, HandoffAssumption DEF Wrap, HandoffAssumption
<1>5. c * r < IntLimit => Wrap(c * r) = c * r
  BY <1>3, WrapInRange
<1> QED BY <1>1, <1>2, <1>4, <1>5

LEMMA Selection ==
  ASSUME TypeOK, AcceptedInv, work # NoJob, ask.q.format = "png"
  PROVE  Selected \in Seq(Int) /\ Selected # <<>> /\ Selected = Asked /\ GridFits
<1> DEFINE pages == ask.q.pages
           layout == ask.q.layout
           page == ask.q.page
<1>1. /\ work.pages = pages /\ work.page = PageOf(page) /\ work.grid = GridFor(pages, layout)
      /\ ValidSelection(pages, layout) /\ Len(page) <= 1
  BY WorkOfPNG
<1>2. pages \in Seq(Int) /\ layout \in Seq(Int) /\ page \in {<<>>} \cup OnePage
  BY <1>1, PNGFacts DEF TypeOK
<1>3. Asked = IF pages # <<>> THEN pages ELSE IF page # <<>> THEN page ELSE <<0>>
  BY DEF Asked
<1>4. Selected = IF pages = <<>> THEN <<PageOf(page)>> ELSE pages
  BY <1>1 DEF Selected
<1> HIDE DEF pages, layout, page
<1>5. CASE pages = <<>>
  <2>1. page = <<>> \/ (page # <<>> /\ page = <<page[1]>> /\ page[1] \in Int)
    BY <1>2, OnePages
  <2>2. PageOf(page) \in Int /\ <<PageOf(page)>> = IF page # <<>> THEN page ELSE <<0>>
    BY <2>1 DEF PageOf
  <2>3. Selected = <<PageOf(page)>> /\ Selected = Asked
    BY <1>3, <1>4, <1>5, <2>2
  <2>4. Selected \in Seq(Int) /\ Selected # <<>> /\ Len(Selected) = 1
    BY <2>2, <2>3
  <2>5. work.grid = <<0, 0>>
    BY <1>1, <1>5 DEF GridFor
  <2> QED BY <2>3, <2>4, <2>5 DEF GridFits
<1>6. CASE pages # <<>>
  <2>1. Selected = pages /\ Asked = pages
    BY <1>3, <1>4, <1>6
  <2>2. Len(pages) \in 1..MaxSelected /\ Len(pages) \in Nat \ {0}
    BY <1>1, <1>2, <1>6 DEF ValidSelection, ParsePageList
  <2>3. PICK c \in Int, r \in Int :
          /\ work.grid = <<c, r>> /\ ValidLayout(Len(pages), <<c, r>>)
          /\ LayoutInRange => c * r < IntLimit
    <3>1. CASE layout = <<>>
      <4>1. work.grid = <<Len(pages), 1>>
        BY <1>1, <1>6, <3>1 DEF GridFor
      <4>2. ValidLayout(Len(pages), <<Len(pages), 1>>)
        BY <2>2, RowIsValid
      <4>3. Len(pages) * 1 < IntLimit
        BY <2>2, HandoffAssumption DEF HandoffAssumption
      <4> QED BY <2>2, <4>1, <4>2, <4>3
    <3>2. CASE layout # <<>>
      <4>1. work.grid = layout /\ Len(layout) = 2 /\ ValidLayout(Len(pages), layout)
        BY <1>1, <1>6, <3>2 DEF GridFor, ValidSelection, ParseGridLayout
      <4>2. layout[1] \in Int /\ layout[2] \in Int /\ layout = <<layout[1], layout[2]>>
        BY <1>2, <4>1, TwoNumbers
      <4>3. LayoutInRange => layout[1] * layout[2] < IntLimit
        BY <4>1 DEF LayoutInRange, layout
      <4> QED BY <4>1, <4>2, <4>3
    <3> QED BY <3>1, <3>2
  <2>4. Cols = c /\ Rows = r
    BY <2>3 DEF Cols, Rows
  <2>5. /\ c \in Nat \ {0} /\ r \in Nat \ {0}
        /\ ~(Len(pages) > Wrap(c * r)) /\ Wrap(c * r) <= MaxCells
        /\ c * r < IntLimit => Wrap(c * r) = c * r
    BY <2>2, <2>3, ValidLayoutFits
  <2>6. GridFits
    BY <2>1, <2>3, <2>4, <2>5 DEF GridFits, TooFewCells
  <2> QED BY <1>2, <1>6, <2>1, <2>6
<1> QED BY <1>5, <1>6

-----------------------------------------------------------------------------
\* The steps of runPNG, which only PNGs take, and those they do not take.
PNGSteps == {"parts", "single", "render", "compose"}
OtherSteps == {"extract", "create", "save", "html", "saveHTML", "page"}

StageInv ==
  /\ pc \in PNGSteps => ask.q.format = "png"
  /\ pc \in OtherSteps => ask.q.format # "png"
  /\ pc \in {"single", "render", "compose"} => InRange /\ (Single <=> pc = "single")

LEMMA SameSelection ==
  ASSUME UNCHANGED <<ask, work>>
  PROVE  /\ InRange' = InRange /\ Single' = Single /\ LayoutInRange' = LayoutInRange
         /\ \A pic : picture' = pic /\ Shows(pic) => Shows(picture)'
BY DEF InRange, Single, LayoutInRange, Shows, Selected, Asked, Inside, Follows

\* Where a job is there is work, of the format that was asked for.
LEMMA WorkThere ==
  ASSUME TypeOK, HandoffInv, AcceptedInv, pc \notin {"handle", "flags", "done"}
  PROVE  work # NoJob /\ work.format = ask.q.format /\ ask.q.format \in FormatNames
<1>1. work.format \in FormatNames
  BY DEF HandoffInv
<1>2. work # NoJob
  BY <1>1 DEF NoJob, FormatNames
<1> QED BY <1>1, <1>2, WorkFormat

LEMMA StageKeeps ==
  ASSUME TypeOK, HandoffInv, AcceptedInv, StageInv, [Next]_vars
  PROVE  StageInv'
<1> USE DEF StageInv, PNGSteps, OtherSteps, At, Goto, Fail, Succeed, End
<1>1. CASE Handle \/ BuildJob \/ OpenEngine
  BY <1>1 DEF Handle, BuildJob, OpenEngine
<1>2. CASE Begin \/ Load
  <2>1. UNCHANGED <<ask, work>> /\ work.format = ask.q.format
    BY <1>2, WorkThere DEF Begin, Load, jobs
  <2>2. CASE Begin
    BY <2>1, <2>2 DEF Begin, OnPDF
  <2>3. CASE Load
    <3>1. /\ AfterLoad \in {"create", "parts", "html", "page"}
          /\ AfterLoad = "parts" <=> work.format = "png"
      BY <2>1, <2>3, WorkThere DEF Load, AfterLoad, OnPDF, FormatNames
    <3> QED BY <2>1, <2>3, <3>1 DEF Load
  <2> QED BY <1>2, <2>2, <2>3
<1>3. CASE Select
  <2>1. UNCHANGED <<ask, work>> /\ ask.q.format = "png"
    BY <1>3 DEF Select, jobs
  <2> QED BY <1>3, <2>1, SameSelection DEF Select
<1>4. CASE RenderSingle \/ RenderPage \/ Compose
  <2>1. UNCHANGED <<ask, work>> /\ ask.q.format = "png"
    BY <1>4 DEF RenderSingle, RenderPage, Compose, jobs
  <2> QED BY <1>4, <2>1, SameSelection DEF RenderSingle, RenderPage, Compose
<1>5. CASE Extract
  <2>1. UNCHANGED <<ask, work>> /\ pc' \in {"unwind", "write", "load"}
    BY <1>5 DEF Extract, jobs
  <2> QED BY <2>1
<1>6. CASE CreatePDF \/ SavePDF \/ CreateHTML \/ SaveHTML \/ Assemble \/ Assembled \/ Write \/ Unwind
  <2>1. ask' = ask /\ pc' \notin PNGSteps /\ (pc' \in OtherSteps => pc \in OtherSteps)
    BY <1>6 DEF CreatePDF, SavePDF, CreateHTML, SaveHTML, Assemble, Assembled, Write, Unwind, jobs
  <2> QED BY <2>1
<1>7. CASE Expire \/ Terminated \/ UNCHANGED vars
  <2>1. UNCHANGED <<ask, work, pc>>
    BY <1>7 DEF Expire, Terminated, vars, jobs
  <2> QED BY <2>1, SameSelection
<1> QED BY <1>1, <1>2, <1>3, <1>4, <1>5, <1>6, <1>7 DEF Next

LEMMA StagePages ==
  ASSUME ask \in Asks, ask.q.format = "png", InRange
  PROVE  PagesHaveSizes
<1>1. ask.doc.parts \in 1..MaxParts /\ MaxParts \in Nat
  BY PNGFacts, FormatsAssumption DEF FormatsAssumption
<1> QED BY <1>1 DEF InRange, PagesHaveSizes

\* One page is its own picture.
LEMMA PageShows ==
  ASSUME Selected \in Seq(Int), Selected # <<>>, Selected = Asked, PagesHaveSizes, Single,
         NEW pic, pic = [w |-> PageSize(Selected[1])[1], h |-> PageSize(Selected[1])[2],
                         at |-> <<[page |-> Selected[1], x |-> 0, y |-> 0]>>]
  PROVE  Shows(pic)
<1> DEFINE p == Selected[1]
           pw == PageSize(p)[1]
           ph == PageSize(p)[2]
           cell == [page |-> p, x |-> 0, y |-> 0]
<1>1. pw \in Nat /\ ph \in Nat
  <2>1. 1 \in DOMAIN Selected
    OBVIOUS
  <2> QED BY <2>1, SizesBounded DEF PagesHaveSizes
<1>2. Len(Asked) = 1 /\ Asked[1] = p
  BY DEF Single
<1>3. pic.w = pw /\ pic.h = ph /\ pic.at = <<cell>>
  OBVIOUS
<1>4. cell.page = p /\ cell.x = 0 /\ cell.y = 0 /\ PageSize(cell.page)[1] = pw /\ PageSize(cell.page)[2] = ph
  OBVIOUS
<1> HIDE DEF pw, ph, cell, p
<1>5. Low(pic.w) = 0 /\ Side(pic.w) = pw /\ Low(pic.h) = 0 /\ Side(pic.h) = ph
  BY <1>1, <1>3 DEF Low, Side
<1>6. Inside(cell, pic)
  BY <1>1, <1>4, <1>5 DEF Inside
<1>7. DOMAIN pic.at = {1} /\ Len(pic.at) = 1 /\ pic.at[1] = cell
  BY <1>3
<1> QED BY <1>2, <1>4, <1>6, <1>7 DEF Shows

-----------------------------------------------------------------------------
\* Within range nobody crashes, and what is written is what was asked.
PictureInv ==
  LayoutInRange =>
    /\ outcome # "crashed"
    /\ ask.q.format = "png" /\ (pc = "write" \/ outcome = "file") => Shows(picture)

LEMMA PictureKeeps ==
  ASSUME TypeOK, HandoffInv, CleanInv, AcceptedInv, StageInv, PictureInv, [Next]_vars
  PROVE  PictureInv'
<1> USE DEF At, Goto, Fail, Succeed, End
<1>1. CASE Handle \/ BuildJob \/ OpenEngine
  <2>1. ask' = ask /\ pc' # "write" /\ outcome' \notin {"file", "crashed"}
    BY <1>1 DEF Handle, BuildJob, OpenEngine, CleanInv, jobs
  <2> QED BY <2>1 DEF PictureInv
<1>2. CASE RenderSingle
  <2>1. UNCHANGED <<ask, work>> /\ pc = "single" /\ outcome' # "crashed" /\ outcome' # "file"
    BY <1>2 DEF RenderSingle, CleanInv, jobs
  <2>2. CASE pc' # "write"
    BY <2>1, <2>2 DEF PictureInv
  <2>3. CASE pc' = "write"
    <3>1. ask.q.format = "png" /\ InRange /\ Single
      BY <2>1 DEF StageInv, PNGSteps
    <3>2. Selected \in Seq(Int) /\ Selected # <<>> /\ Selected = Asked /\ PagesHaveSizes
      BY <2>1, <3>1, WorkThere, Selection, StagePages DEF TypeOK
    <3>3. picture' = [w |-> PageSize(Selected[1])[1], h |-> PageSize(Selected[1])[2],
                      at |-> <<[page |-> Selected[1], x |-> 0, y |-> 0]>>]
      BY <1>2, <2>3 DEF RenderSingle
    <3>4. Shows(picture)'
      BY <2>1, <3>1, <3>2, <3>3, PageShows, SameSelection
    <3> QED BY <2>1, <3>4 DEF PictureInv
  <2> QED BY <2>2, <2>3
<1>3. CASE Compose
  <2>1. UNCHANGED <<ask, work>> /\ pc = "compose" /\ outcome # "file" /\ outcome # "crashed"
    BY <1>3 DEF Compose, CleanInv, jobs
  <2>2. ask.q.format = "png" /\ InRange /\ ~Single
    BY <2>1 DEF StageInv, PNGSteps
  <2>3. Selected \in Seq(Int) /\ Selected # <<>> /\ Selected = Asked /\ GridFits /\ PagesHaveSizes
    BY <2>1, <2>2, WorkThere, Selection, StagePages DEF TypeOK
  <2>4. LayoutInRange /\ ~TooLarge => Shows(GridPicture) /\ ~Panics
    BY <2>2, <2>3, GridShows
  <2>5. LayoutInRange' = LayoutInRange
    BY <2>1, SameSelection
  <2>6. CASE pc' # "write"
    BY <1>3, <2>1, <2>4, <2>5, <2>6 DEF Compose, PictureInv
  <2>7. CASE pc' = "write"
    <3>1. picture' = GridPicture /\ ~TooLarge /\ outcome' = outcome
      BY <1>3, <2>7 DEF Compose
    <3>2. LayoutInRange => Shows(picture)'
      BY <2>1, <2>4, <3>1, SameSelection
    <3> QED BY <2>1, <2>5, <3>1, <3>2 DEF PictureInv
  <2> QED BY <2>6, <2>7
<1>4. CASE Extract \/ SavePDF \/ SaveHTML \/ Assembled
  <2>1. ask' = ask /\ ask.q.format # "png" /\ outcome' # "crashed"
    BY <1>4 DEF Extract, SavePDF, SaveHTML, Assembled, StageInv, OtherSteps, CleanInv, jobs
  <2> QED BY <2>1 DEF PictureInv
<1>5. CASE Begin \/ Load \/ CreatePDF \/ CreateHTML \/ Select \/ RenderPage \/ Assemble
  <2>1. ask' = ask /\ pc \notin {"unwind", "done"} /\ outcome' \in {"error", outcome}
    BY <1>5 DEF Begin, Load, CreatePDF, CreateHTML, Select, RenderPage, Assemble, jobs
  <2>2. outcome' \notin {"file", "crashed"}
    BY <2>1 DEF CleanInv
  <2>3. CASE Load
    <3>1. AfterLoad # "write"
      BY <2>3, AfterLoadValues DEF Load
    <3> QED BY <2>1, <2>2, <2>3, <3>1 DEF Load, PictureInv
  <2>4. CASE ~Load
    <3>1. pc' # "write"
      BY <1>5, <2>4 DEF Begin, CreatePDF, CreateHTML, Select, RenderPage, Assemble
    <3> QED BY <2>1, <2>2, <3>1 DEF PictureInv
  <2> QED BY <2>3, <2>4
<1>6. CASE Write
  <2>1. UNCHANGED <<ask, work, picture>> /\ pc = "write" /\ pc' # "write" /\ outcome' # "crashed"
    BY <1>6 DEF Write, CleanInv, jobs
  <2> QED BY <2>1, SameSelection DEF PictureInv
<1>7. CASE Unwind \/ Expire \/ Terminated \/ UNCHANGED vars
  <2>1. UNCHANGED <<ask, work, picture, outcome>> /\ (pc' = "write" => pc = "write")
    BY <1>7 DEF Unwind, Expire, Terminated, vars, jobs
  <2> QED BY <2>1, SameSelection DEF PictureInv
<1> QED BY <1>1, <1>2, <1>3, <1>4, <1>5, <1>6, <1>7 DEF Next

-----------------------------------------------------------------------------
PictureAll == FormatsInv /\ AcceptedInv /\ StageInv /\ PictureInv

LEMMA PictureInductive == Spec => []PictureAll
<1>1. Init => AcceptedInv /\ StageInv /\ PictureInv
  <2> SUFFICES ASSUME Init PROVE AcceptedInv /\ StageInv /\ PictureInv
    OBVIOUS
  <2>1. work = NoJob /\ pc \in {"handle", "flags"} /\ outcome = "none"
    BY DEF Init
  <2> QED BY <2>1 DEF AcceptedInv, StageInv, PNGSteps, OtherSteps, PictureInv
<1>2. FormatsInv /\ AcceptedInv /\ StageInv /\ PictureInv /\ [Next]_vars
        => AcceptedInv' /\ StageInv' /\ PictureInv'
  BY AcceptedKeeps, StageKeeps, PictureKeeps DEF FormatsInv
<1> QED BY <1>1, <1>2, FormatsInductive, PTL DEF Spec, PictureAll

\* Whatever the sizes of the pages and the limits, however many pages, and in any
\* width of integers: if the columns and rows a client names can be multiplied in
\* an int64, no conversion crashes its process in image.NewRGBA, and a PNG that is
\* delivered shows the pages asked for in full and in reading order, a grid of them
\* within maxPNGGridPixels (runPNG and composePNGGrid).
THEOREM FormatsPicture ==
  Spec => [](LayoutInRange => outcome # "crashed" /\ PictureShowsWhatWasAsked)
<1>1. PictureAll => (LayoutInRange => outcome # "crashed" /\ PictureShowsWhatWasAsked)
  BY DEF PictureAll, PictureInv, PictureShowsWhatWasAsked, Shows
<1> QED BY <1>1, PictureInductive, PTL

\* Whatever numbers the layout has, also where their product overflows:
\* composePNGGrid's own checks of the number of cells never fail, those of the
\* handler, or of bi convert, have made sure of it (ValidLayout of pngopts).
THEOREM FormatsGrid == Spec => []AcceptedGridFits
<1>1. ASSUME PictureAll, pc = "compose" PROVE ~TooFewCells /\ Wrap(Cols * Rows) <= MaxCells
  <2>1. TypeOK /\ HandoffInv /\ AcceptedInv /\ ask.q.format = "png" /\ ~Single
    BY <1>1 DEF PictureAll, FormatsInv, StageInv, PNGSteps
  <2>2. GridFits
    BY <1>1, <2>1, WorkThere, Selection
  <2> QED BY <2>1, <2>2 DEF GridFits, Single
<1>2. PictureAll => AcceptedGridFits
  BY <1>1 DEF AcceptedGridFits
<1> QED BY <1>2, PictureInductive, PTL

-----------------------------------------------------------------------------
\* Two sentences of README.md that the code breaks.

\* Who delivers a file had a job.
WorkOfFile == outcome = "file" => work # NoJob

LEMMA WorkOfFileKeeps ==
  ASSUME TypeOK, HandoffInv, CleanInv, AcceptedInv, WorkOfFile, [Next]_vars
  PROVE  WorkOfFile'
<1> USE DEF WorkOfFile, At, Goto, Fail, Succeed, End
<1>1. CASE SavePDF \/ Write
  <2>1. work' = work /\ work # NoJob
    BY <1>1, WorkThere DEF SavePDF, Write, jobs
  <2> QED BY <2>1
<1>2. CASE BuildJob
  BY <1>2 DEF BuildJob, CleanInv
<1>3. CASE ~(SavePDF \/ Write \/ BuildJob)
  <2>1. work' = work
    BY <1>3, WorkStays
  <2>2. outcome' = "file" => outcome = "file"
    BY <1>3
    DEF Next, vars, Handle, OpenEngine, Begin, Extract, Load, CreatePDF, Select, RenderSingle,
        RenderPage, Compose, CreateHTML, SaveHTML, Assemble, Assembled, Unwind, Expire, Terminated
  <2> QED BY <2>1, <2>2
<1> QED BY <1>1, <1>2, <1>3

\* Whatever page number a client names, and whatever the document: the picture it
\* gets shows the page with that number counted from 0 (page and part of
\* worker.Job), never the one that README.md:108 promises.
THEOREM FormatsPageBase ==
  Spec => [](PageDelivered => picture.at[1].page = ask.q.page[1] /\ ~PageCountsFromOne)
<1>1. Init => WorkOfFile
  BY DEF Init, WorkOfFile
<1>2. PictureAll /\ WorkOfFile /\ [Next]_vars => WorkOfFile'
  BY WorkOfFileKeeps DEF PictureAll, FormatsInv
<1>3. ASSUME PictureAll, WorkOfFile, PageDelivered
      PROVE  picture.at[1].page = ask.q.page[1] /\ ~PageCountsFromOne
  <2>0. TypeOK /\ AcceptedInv /\ PictureInv
    BY <1>3 DEF PictureAll, FormatsInv
  <2>1. /\ ask.q.format = "png" /\ ask.via = "http" /\ outcome = "file" /\ ask.q.page # <<>>
        /\ work # NoJob
    BY <1>3 DEF PageDelivered, WorkOfFile
  <2>2. Len(ask.q.page) <= 1 /\ ask.q.pages = <<>> /\ ask.q.layout = <<>>
    BY <2>0, <2>1 DEF AcceptedInv, Accepts, ValidSelection
  <2>3. ask.q.page[1] \in Int /\ Len(ask.q.page) = 1
    BY <2>0, <2>1, <2>2, PNGFacts, OnePages DEF TypeOK
  <2>4. Shows(picture) /\ Asked = ask.q.page
    BY <2>0, <2>1, <2>2 DEF PictureInv, LayoutInRange, Asked
  <2>5. 1 \in DOMAIN picture.at /\ picture.at[1].page = ask.q.page[1]
    BY <2>3, <2>4 DEF Shows
  <2> QED BY <1>3, <2>3, <2>5 DEF PageCountsFromOne
<1> QED BY <1>1, <1>2, <1>3, PictureInductive, PTL DEF Spec

\* Whatever range a client asks for, and whatever the document: it is refused, also
\* when the list of its first and last page is accepted (ParsePageList gives what is
\* between two commas to Atoi), against README.md:109.
THEOREM FormatsRanges ==
  Spec => [](/\ RangeAsked /\ pc = "done" => outcome = "refused"
             /\ (RangeAsked /\ pc = "done" /\ Accepts([ask.q EXCEPT !.range = FALSE], ask.served))
                  => ~RangesAreAccepted)
<1> DEFINE RangeInv == RangeAsked => pc = "handle" \/ (pc = "done" /\ outcome = "refused")
<1>1. Init => RangeInv
  BY DEF Init, RangeAsked
<1>2. ASSUME RangeInv, [Next]_vars PROVE RangeInv'
  <2>1. ask' = ask /\ RangeAsked' = RangeAsked
    BY <1>2, WorkStays DEF RangeAsked
  <2>2. RangeAsked => ~Accepts(ask.q, ask.served)
    BY DEF RangeAsked, Accepts
  <2>3. CASE Handle
    BY <1>2, <2>1, <2>2, <2>3 DEF Handle, End
  <2>4. CASE Terminated \/ UNCHANGED vars
    BY <1>2, <2>1, <2>4 DEF Terminated, vars
  <2>5. CASE BuildJob \/ OpenEngine \/ Begin \/ Extract \/ Load \/ CreatePDF \/ SavePDF \/ Select
             \/ RenderSingle \/ RenderPage \/ Compose \/ CreateHTML \/ SaveHTML \/ Assemble
             \/ Assembled \/ Write \/ Unwind \/ Expire
    <3>1. pc \notin {"handle", "done"}
      BY <2>5
      DEF At, BuildJob, OpenEngine, Begin, Extract, Load, CreatePDF, SavePDF, Select, RenderSingle,
          RenderPage, Compose, CreateHTML, SaveHTML, Assemble, Assembled, Write, Unwind, Expire
    <3> QED BY <1>2, <2>1, <3>1
  <2> QED BY <1>2, <2>3, <2>4, <2>5 DEF Next
<1>3. RangeInv => /\ RangeAsked /\ pc = "done" => outcome = "refused"
                  /\ (RangeAsked /\ pc = "done" /\ Accepts([ask.q EXCEPT !.range = FALSE], ask.served))
                       => ~RangesAreAccepted
  BY DEF RangesAreAccepted
<1> QED BY <1>1, <1>2, <1>3, PTL DEF Spec

-----------------------------------------------------------------------------
\* The client leaves the choice of the languages to nobody else.
NamesLanguages ==
  ask.q.format = "markdown" => LangOf(ask.q.lang) \notin {<<"auto">>, <<"all">>}

LanguageInv == NamesLanguages => OnlyInstalledPacks

LEMMA LanguageKeeps ==
  ASSUME TypeOK, HandoffInv, SectionInv, AcceptedInv, LanguageInv, [Next]_vars
  PROVE  LanguageInv'
<1>0. ask' = ask
  BY WorkStays
<1>1. CASE Assemble /\ ask.via = "http" /\ NamesLanguages
  <2>1. pc = "page" /\ work # NoJob /\ work.format = "markdown" /\ ask.q.format = "markdown"
    BY <1>1, WorkThere DEF Assemble, At, SectionInv, OnPDF
  <2>2. Accepts(ask.q, ask.served) /\ work.lang = LangOf(ask.q.lang)
    BY <1>1, <2>1 DEF AcceptedInv, JobOfQuery
  <2>3. work.lang # <<>> /\ \A i \in DOMAIN work.lang : work.lang[i] \in SupportedLangs
    BY <1>1, <2>1, <2>2 DEF Accepts, ValidateLangs, NamesLanguages
  <2>4. \A asked \in Requests(work.lang) : asked \subseteq Installed
    BY <2>3 DEF Requests, Installed
  <2>5. packs \subseteq Installed
    BY <1>1 DEF LanguageInv, OnlyInstalledPacks
  <2>6. packs' \subseteq Installed
    BY <1>1, <2>4, <2>5 DEF Assemble
  <2> QED BY <2>6 DEF LanguageInv, OnlyInstalledPacks
<1>2. CASE ~(ask.via = "http" /\ NamesLanguages)
  BY <1>0, <1>2 DEF LanguageInv, OnlyInstalledPacks, NamesLanguages
<1>3. CASE ~Assemble
  <2>1. packs' = packs
    BY <1>3
    DEF Next, vars, texts, Handle, BuildJob, OpenEngine, Begin, Extract, Load, CreatePDF, SavePDF,
        Select, RenderSingle, RenderPage, Compose, CreateHTML, SaveHTML, Assembled, Write,
        Unwind, Expire, Terminated
  <2> QED BY <1>0, <2>1 DEF LanguageInv, OnlyInstalledPacks, NamesLanguages, Installed
<1> QED BY <1>1, <1>2, <1>3

\* Whatever languages are supported: Tesseract is never told a language there is no pack
\* for when the client names its languages (ValidateLangs of ocr); only "auto" and
\* "all" get to it as they are, as the run formats_language shows.
THEOREM FormatsLanguages == Spec => [](NamesLanguages => OnlyInstalledPacks)
<1>1. Init => LanguageInv
  BY DEF Init, LanguageInv, OnlyInstalledPacks
<1>2. PictureAll /\ LanguageInv /\ [Next]_vars => LanguageInv'
  BY LanguageKeeps DEF PictureAll, FormatsInv
<1>3. LanguageInv => (NamesLanguages => OnlyInstalledPacks)
  BY DEF LanguageInv
<1> QED BY <1>1, <1>2, <1>3, PictureInductive, PTL DEF Spec
=============================================================================
