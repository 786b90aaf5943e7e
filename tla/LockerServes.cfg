SPECIFICATION Spec
CONSTANTS
  c1 = c1
  c2 = c2
  p1 = p1
  p2 = p2
  Callers = {c1, c2}
  Passphrases = {p1, p2}
  Kinds = {"unlock", "lock", "locked", "createTx"}
  Disconnects = "idle"
  MayInterrupt = FALSE
PROPERTIES
  Served
  Relocks
