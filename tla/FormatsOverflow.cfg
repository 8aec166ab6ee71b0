\* 255 is the largest integer of nine bits, and 255 * 255 is 1 modulo 512.
CONSTANTS
  IntLimit = 256
  MaxSelected = 1
  MaxCells = 4
  MaxPixels = 60
  PageSize <- PortraitAndLandscape
  GridSides = {1, 255}
  SupportedLangs = {"eng"}
  MaxParts = 2
SPECIFICATION Spec
INVARIANT PictureShowsWhatWasAsked
