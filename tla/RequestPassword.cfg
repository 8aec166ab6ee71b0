CONSTANTS
  TokenSet = TRUE
  OCRAvailable = TRUE
SPECIFICATION Spec
INVARIANT PasswordReachesConverter
