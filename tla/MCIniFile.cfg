\* Files of up to three short lines over two section names and two keys.
CONSTANTS
  s1 = s1
  s2 = s2
  k1 = k1
  k2 = k2
  SectionNames <- MCSectionNames
  Keys <- MCKeys
  Global = Global
  NoArg = NoArg
  MaxLines = 3
  LongLines = FALSE

SPECIFICATION Spec

INVARIANT TypeOK
INVARIANT ParseMatchesReference

\* ReadIniFile returns or throws: the parse really ends there
CHECK_DEADLOCK FALSE
