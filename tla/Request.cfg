\* All requests of ClientRequests, on a server with a token and without OCR.
CONSTANTS
  TokenSet = TRUE
  OCRAvailable = FALSE
SPECIFICATION Spec
INVARIANTS
  NoTempLeft
  RecordsMatchWire
  EveryAnswerHasId
  ErrorClassSurvives
  ConvertsOnlyAdmitted
