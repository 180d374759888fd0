\* Files of up to two lines, one of them possibly longer than the 4096-byte
\* fgets buffer of ReadIniFile.
CONSTANTS
  s1 = s1
  s2 = s2
  k1 = k1
  k2 = k2
  SectionNames <- MCSectionNames
  Keys <- MCKeys
  Global = Global
  NoArg = NoArg
  MaxLines = 2
  LongLines = TRUE

SPECIFICATION Spec

INVARIANT ParseMatchesReference

\* ReadIniFile returns or throws: the parse really ends there
CHECK_DEADLOCK FALSE
