\* Two shells run commands at the same time.
CONSTANTS
  Shell = {s1, s2}
  Config = {c1}
  MaxDaemons = 2
SPECIFICATION FairSpec
INVARIANTS
  TypeOK
  FileNamesHolder
  NoStrayChild
  ControllableAlone
PROPERTIES
  EndsWhatItSaw
  CommandsEnd
