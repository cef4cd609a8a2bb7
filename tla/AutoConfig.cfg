\* Loads of documents one after the other with one loader.
SPECIFICATION Spec
CONSTANTS
  P = p
  Q = q
  T = t
  U = u
  X = x
  TypeA = typeA
  TypeB = typeB
  Documents <- MCDocuments
  Names = {p, q, t, u, x}
  TypeNames = {typeA, typeB}
  Transports = {"UDP", "SHARED_MEMORY"}
  Missing = missing
  Malformed = malformed
  Empty = empty
  NoEntity = NoEntity
  LoadBound = 3
INVARIANTS TInv ReferencesResolve LoadedIsThere LastLoadIsTogether
CHECK_DEADLOCK FALSE
