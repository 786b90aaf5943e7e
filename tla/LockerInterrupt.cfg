SPECIFICATION Safety
CONSTANTS
  c1 = c1
  c2 = c2
  p1 = p1
  p2 = p2
  Callers = {c1, c2}
  Passphrases = {p1, p2}
  Kinds = {"unlock", "lock", "locked", "change", "changes", "createTx"}
  Disconnects = "never"
  MayInterrupt = TRUE
SYMMETRY MC_Symmetry
INVARIANTS
  HeldStaysUnlocked
  PrivateMatchesDb
  ClosedQuietly
PROPERTIES
  UnlockByPassphrase
  LocksForAReason
CHECK_DEADLOCK FALSE
