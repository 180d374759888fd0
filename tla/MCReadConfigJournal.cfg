\* section "" and a named section naming the same journal file
CONSTANTS
  Absent = Absent
  NaN = NaN
  NoSection = NoSection
  Global = Global
  Unreadable = Unreadable
  LastFm = LastFm
  Unset = Unset
  HttpProxies <- MCHttpProxies
  s1 = s1
  Named <- MCNamed
  GlobalChoices <- MCGlobalChoices
  NamedChoices <- MCNamedChoices
  CmdChoices <- MCCmdChoices
  Found <- MCFound
  DefaultCache <- MCDefaultCache

SPECIFICATION Spec

\* file_read_config returns or throws: the reading really ends there
CHECK_DEADLOCK FALSE

INVARIANT JournalsPrivate
