SPECIFICATION Spec
CONSTANTS
  U16Max = 65535
  U32Max = 100000
  U64Max = 200000
  Scrapes = {s1, s2}
  MaxVersion = 1
  Files <- MCFiles
INVARIANTS TypeOK StartsSound
PROPERTIES ExportedIsRecent
