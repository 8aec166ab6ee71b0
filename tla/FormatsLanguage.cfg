\* A PDF of one page and the default language.
CONSTANTS
  IntLimit = 256
  MaxSelected = 1
  MaxCells = 1
  MaxPixels = 60
  PageSize <- PortraitAndLandscape
  GridSides = {1}
  SupportedLangs = {"eng", "jpn"}
  MaxParts = 1
SPECIFICATION Spec
INVARIANT OnlyInstalledPacks
