\* Two overlapping connections, one owner's stop request, and a database
\* whose updates may fail.
CONSTANTS
  s1 = s1  s2 = s2  d1 = d1
  Sources = {s1, s2}
  Closable <- NoPipes
  None = None
  Stoppers = {d1}
  DbFails = TRUE
SPECIFICATION FairSpec
INVARIANTS TypeOK OnlineIsOwed SlotIsOwned ActiveIsRead
PROPERTIES ImplementsSlot Drains
