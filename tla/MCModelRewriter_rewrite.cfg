CONSTANTS
  gemini = gemini
  claude = claude
  gpt = gpt
  odd = odd
  Name = {gemini, claude, gpt, odd}
  None = None
  Words <- ModelWords
  Registered = {claude, gemini}
  Requests <- AllRequests
SPECIFICATION Spec
INVARIANTS ScanFindsRootModel SentForModel SanitizedOnce
CHECK_DEADLOCK FALSE
