\* Queries and flags over documents of up to two pages; up to three pages
\* selected, or one more than is allowed.  Integers have nine bits: 27 * 19 is
\* 1 modulo 512, so the layout 27x19 passes for one cell, and no canvas for it
\* can be allocated.
CONSTANTS
  IntLimit = 256
  MaxSelected = 3
  MaxCells = 4
  MaxPixels = 60
  PageSize <- PortraitAndLandscape
  GridSides = {1, 2, 3, 19, 27}
  SupportedLangs = {"eng", "jpn"}
  MaxParts = 2
SPECIFICATION Spec
INVARIANTS
  OnlyTheOutputIsLeft
  EveryPageAccounted
  OutcomeIsContracted
  ChildRebuildsJob
  AcceptedGridFits
  PictureShowsWhatWasAsked
