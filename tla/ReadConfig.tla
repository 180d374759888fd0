----------------------------- MODULE ReadConfig -----------------------------
(***************************************************************************)
(* file_read_config of src/ReadConfig.cxx: the settings of the command     *)
(* line are completed from the configuration file, one ScrobblerConfig is  *)
(* built per section, and defaults are filled in.                          *)
(*                                                                         *)
(* The inputs are the Config filled by parse_cmdline (not in this          *)
(* repository), the result of the default-path lookup, and the IniFile     *)
(* the file parses to (see IniFile.tla).  A text value is a token; a       *)
(* number is the long strtol reads, [hi, lo] for hi * 2^32 + lo (TLC's     *)
(* integers have 32 bits), or NaN when strtol reads none.                  *)
(***************************************************************************)
EXTENDS Integers, Sequences, FiniteSets, Functions

CONSTANTS
  Absent,        \* a key missing from its section
  NaN,           \* a value strtol does not read as a number
  NoSection,     \* a section missing from the file
  Global,        \* the section "" of the file
  Unreadable,    \* a file ReadIniFile rejects
  Named,         \* the order of the named sections of the file (a sequence)
  LastFm,        \* the name "last.fm" of the scrobbler of section ""
  GlobalChoices, \* the contents section "" may have
  NamedChoices,  \* the contents a named section may have
  CmdChoices,    \* the Configs parse_cmdline may return
  Found,         \* the results [path, loc] the default lookup may give
  DefaultCache,  \* get_default_cache_path: a journal path per config.loc
  Unset,         \* getenv of a variable that is not set
  HttpProxies    \* the values $http_proxy may have, Unset included

Locations == {"file_home", "file_etc", "file_unknown"}

VARIABLES
  cmd,     \* input: the Config of the command line
  found,   \* input: what get_default_config_path returns
  ini,     \* input: [global |-> section "", named |-> named sections]
  config,  \* the Config being filled
  pc,      \* "find", "settings", "sections", "final", "done" or "failed"
  idx,     \* the loop over the sections: 0 for "", i for Named[i]
  err,     \* the exception that ended file_read_config
  sys      \* input read by the last steps: [sd_booted, http_proxy], or
           \* "unread" before them

vars == <<cmd, found, ini, config, pc, idx, err, sys>>

-----------------------------------------------------------------------------
(* Reading one setting from section "" (load_string, load_integer,         *)
(* load_unsigned).  A result is [set, val, err]: whether the value was    *)
(* taken from the file, the value, and the exception ("" for none).       *)

\* the long of strtol stored into an int keeps its low 32 bits
ToInt(n) == n.lo

\* the value of the key, or a null pointer
GetString(sec, key) == sec[key]

GetStdString(sec, key) == IF sec[key] = Absent THEN "" ELSE sec[key]

Ok(set, val) == [set |-> set, val |-> val, err |-> ""]

\* mutant: a string given on the command line is read again from the file
load_stringNoCheck(sec, name, value) ==
  IF sec = NoSection THEN value ELSE GetStdString(sec, name)

load_string(sec, name, value) ==
  CASE value # ""      -> value   \* already set by command line
    [] sec = NoSection -> value
    [] OTHER           -> GetStdString(sec, name)

load_integer(sec, name, value) ==
  CASE value # -1           -> Ok(FALSE, value)  \* set by command line
    [] sec = NoSection      -> Ok(FALSE, value)
    [] GetString(sec, name) = Absent -> Ok(FALSE, value)
    [] GetString(sec, name) = NaN    -> [set |-> FALSE, val |-> value,
                                         err |-> "not_a_number"]
    [] OTHER                -> Ok(TRUE, ToInt(GetString(sec, name)))

load_unsigned(sec, name, value) ==
  LET r == load_integer(sec, name, -1)
  IN  CASE r.err # ""  -> [r EXCEPT !.val = value]
        [] ~r.set      -> Ok(FALSE, value)
        [] r.val < 0   -> [set |-> FALSE, val |-> value, err |-> "negative"]
        [] OTHER       -> Ok(TRUE, r.val)

-----------------------------------------------------------------------------
(* load_scrobbler_config: [err, sc]                                        *)

NoScrobbler == [name |-> Absent, url |-> "", file |-> "", username |-> "",
                password |-> "", journal |-> ""]

\* mutant: the scrobbler of section "" keeps the empty section name
ScrobblerNameRaw(name) == name

\* section "" is the "last.fm" scrobbler, a named section is named after it
ScrobblerName(name) == IF name = Global THEN LastFm ELSE name

load_scrobbler_config(loc, name, sec) ==
  LET isGlobal == name = Global
      file     == IF isGlobal THEN "" ELSE GetStdString(sec, "file")
      url      == CASE isGlobal  -> "AS_HOST"
                    [] file # "" -> ""
                    [] OTHER     -> GetStdString(sec, "url")
      user     == IF file = "" THEN GetStdString(sec, "username") ELSE ""
      pass     == IF file = "" THEN GetStdString(sec, "password") ELSE ""
      journal0 == GetStdString(sec, "journal")
      cache    == IF journal0 = "" /\ isGlobal
                  THEN GetStdString(sec, "cache") ELSE journal0
      journal  == IF journal0 = "" /\ isGlobal /\ cache = ""
                  THEN DefaultCache[loc] ELSE cache
      sc       == [name |-> ScrobblerName(name), url |-> url,
                   file |-> file, username |-> user, password |-> pass,
                   journal |-> journal]
  IN  CASE ~isGlobal /\ file = "" /\ url = "" ->
             [err |-> "neither_file_nor_url", sc |-> NoScrobbler]
        [] file = "" /\ user = "" ->
             [err |-> "no_username", sc |-> NoScrobbler]
        [] file = "" /\ pass = "" ->
             [err |-> "no_password", sc |-> NoScrobbler]
        [] OTHER -> [err |-> "", sc |-> sc]

-----------------------------------------------------------------------------
(* file_read_config                                                        *)

Fail(e) == /\ pc' = "failed" /\ err' = e /\ UNCHANGED <<config, idx>>

\* get_default_config_path unless --conf named a file; no file is fatal
FindConfig ==
  /\ pc = "find"
  /\ LET c == IF config.conf = "" THEN [config EXCEPT !.conf = found.path,
                                                      !.loc = found.loc]
              ELSE config
     IN  /\ config' = c
         /\ IF c.conf = ""
            THEN pc' = "failed" /\ err' = "cannot_find_configuration_file"
            ELSE pc' = "settings" /\ UNCHANGED err
  /\ UNCHANGED <<cmd, found, ini, idx, sys>>

\* load_config_file up to its loop: ReadIniFile, then the settings of
\* section "" in the order of the code; the first exception ends it
LoadSettings ==
  LET g        == ini.global
      port     == load_unsigned(g, "port", config.port)
      ji       == load_unsigned(g, "journal_interval", config.journal_interval)
      ci       == load_unsigned(g, "cache_interval", config.journal_interval)
      interval == IF ji.err = "" /\ ~ji.set THEN ci ELSE ji
      verbose  == load_integer(g, "verbose", config.verbose)
  IN  /\ pc = "settings"
      /\ CASE ini = Unreadable  -> Fail("ini_error")
           [] port.err # ""     -> Fail(port.err)
           [] interval.err # "" -> Fail(interval.err)
           [] verbose.err # ""  -> Fail(verbose.err)
           [] OTHER ->
                /\ config' = [config EXCEPT
                                !.log = load_string(g, "log", @),
                                !.host = load_string(g, "host", @),
                                !.port = port.val,
                                !.proxy = load_string(g, "proxy", @),
                                !.journal_interval = interval.val,
                                !.verbose = verbose.val]
                /\ pc' = "sections"
                /\ idx' = 0
                /\ UNCHANGED err
      /\ UNCHANGED <<cmd, found, ini, sys>>

\* the sections in the order of the std::map: "" first
SectionName(i) == IF i = 0 THEN Global ELSE Named[i]
SectionOf(i)   == IF i = 0 THEN ini.global ELSE ini.named[Named[i]]

\* mutant: section "" is skipped when its username is empty, not missing
SkippedByValue(i) ==
  \/ SectionOf(i) = NoSection
  \/ SectionName(i) = Global /\ GetStdString(SectionOf(i), "username") = ""

\* a section the loop passes over: not in the file, or "" without username
Skipped(i) ==
  \/ SectionOf(i) = NoSection
  \/ SectionName(i) = Global /\ SectionOf(i)["username"] = Absent

\* one iteration of the loop over the sections of the file
LoadSection ==
  LET r == load_scrobbler_config(config.loc, SectionName(idx), SectionOf(idx))
      next == IF idx = Len(Named) THEN [pc |-> "final", idx |-> idx]
              ELSE [pc |-> "sections", idx |-> idx + 1]
  IN  /\ pc = "sections"
      /\ CASE Skipped(idx) ->
                pc' = next.pc /\ idx' = next.idx /\ UNCHANGED <<config, err>>
           [] r.err # "" -> Fail(r.err)
           [] OTHER ->
                /\ config' = [config EXCEPT !.scrobblers = @ \cup {r.sc}]
                /\ pc' = next.pc
                /\ idx' = next.idx
                /\ UNCHANGED err
      /\ UNCHANGED <<cmd, found, ini, sys>>

\* the journal under systemd, else syslog
get_default_log_path(booted) == IF booted THEN "-" ELSE "syslog"

\* no scrobbler is fatal; the log, the proxy and the verbosity get their
\* defaults: sd_booted() and getenv("http_proxy") are read here
Finish ==
  /\ pc = "final"
  /\ IF config.scrobblers = {}
     THEN Fail("no_audioscrobbler_host") /\ UNCHANGED sys
     ELSE \E booted \in BOOLEAN, proxy \in HttpProxies :
          /\ sys' = [sd_booted |-> booted, http_proxy |-> proxy]
          /\ config' = [config EXCEPT
                  !.log = IF @ = "" THEN get_default_log_path(booted) ELSE @,
                  !.proxy = IF @ = "" /\ proxy # Unset THEN proxy ELSE @,
                  !.verbose = IF @ = -1 THEN 1 ELSE @]
          /\ pc' = "done"
          /\ UNCHANGED <<err, idx>>
  /\ UNCHANGED <<cmd, found, ini>>

Init ==
  /\ cmd \in CmdChoices
  /\ found \in Found
  /\ ini \in [global : GlobalChoices \cup {NoSection},
              named : [Range(Named) -> NamedChoices \cup {NoSection}]]
             \cup {Unreadable}
  /\ config = cmd
  /\ pc = "find"
  /\ idx = 0
  /\ err = ""
  /\ sys = "unread"

Next == FindConfig \/ LoadSettings \/ LoadSection \/ Finish

Spec == Init /\ [][Next]_vars /\ WF_vars(Next)

-----------------------------------------------------------------------------
(* What the configuration means, after the comments of ReadConfig.cxx and  *)
(* mpdscribble.conf: an option given on the command line is "already set" *)
(* and wins over the file, a setting given nowhere takes its default, and  *)
(* every section that configures a scrobbler yields exactly one.           *)

\* the setting key of section "" as the file writes it, or Absent
Written(key) ==
  IF ini.global = NoSection THEN Absent ELSE ini.global[key]

Text(v) == IF v = Absent THEN "" ELSE v

\* the scrobblers the file configures: every named section, and "last.fm"
\* when section "" has a username key
ConfiguredNames ==
  {Named[i] : i \in {j \in 1..Len(Named) : ini.named[Named[j]] # NoSection}}
    \cup IF Written("username") # Absent THEN {LastFm} ELSE {}

\* a scrobbler can deliver: to a file, or to a URL with credentials
Usable(sc) ==
  \/ sc.file # ""
  \/ sc.url # "" /\ sc.username # "" /\ sc.password # ""

SectionUsable(name) ==
  IF name = LastFm
  THEN Text(Written("username")) # "" /\ Text(Written("password")) # ""
  ELSE LET sec == ini.named[name]
       IN  \/ Text(sec.file) # ""
           \/ /\ Text(sec.url) # ""
              /\ Text(sec.username) # "" /\ Text(sec.password) # ""

\* The state has its types, and every scrobbler of the Config carries the
\* name of a section of the file: a named section's name, or "last.fm" for
\* section "" (load_scrobbler_config never leaves a scrobbler unnamed).
TypeOK ==
  /\ pc \in {"find", "settings", "sections", "final", "done", "failed"}
  /\ idx \in 0..Len(Named)
  /\ config.loc \in Locations
  /\ config.port \in Nat /\ config.journal_interval \in Nat
  /\ config.verbose \in Int
  /\ \A sc \in config.scrobblers :
       sc.name \in Range(Named) \cup {LastFm}
  /\ err \in STRING
  /\ IF pc = "done" THEN sys \in [sd_booted : BOOLEAN, http_proxy : HttpProxies]
                  ELSE sys = "unread"

\* file_read_config returns a host, log, proxy and verbosity taken from
\* the command line when it gave them (load_string and load_integer skip
\* what is "already set by command line"), else from section "", else the
\* defaults: the systemd journal or syslog for the log, $http_proxy for
\* the proxy; journal_interval comes from the file's journal_interval, else
\* its cache_interval (load_config_file's fallback), else stays as it was.
SettingsFollowPrecedence ==
  pc = "done" =>
    /\ config.host = IF cmd.host # "" THEN cmd.host ELSE Text(Written("host"))
    /\ config.log = CASE cmd.log # ""               -> cmd.log
                      [] Text(Written("log")) # ""  -> Written("log")
                      [] sys.sd_booted              -> "-"
                      [] OTHER                      -> "syslog"
    /\ config.proxy = CASE cmd.proxy # ""              -> cmd.proxy
                        [] Text(Written("proxy")) # "" -> Written("proxy")
                        [] sys.http_proxy # Unset      -> sys.http_proxy
                        [] OTHER                       -> ""
    /\ config.verbose = CASE cmd.verbose # -1          -> cmd.verbose
                          [] Written("verbose") # Absent ->
                               Written("verbose").lo
                          [] OTHER                     -> 1
    /\ config.journal_interval =
         CASE Written("journal_interval") # Absent ->
                Written("journal_interval").lo
           [] Written("cache_interval") # Absent ->
                Written("cache_interval").lo
           [] OTHER -> cmd.journal_interval

\* When file_read_config returns, there is one usable scrobbler per
\* configured section (the loop of load_config_file and the checks of
\* load_scrobbler_config), "last.fm" keeps the journal its section names,
\* else its cache, else the default cache; and when a section makes it
\* throw, some configured section was not usable.
ScrobblersMatchSections ==
  /\ pc = "done" =>
       /\ {sc.name : sc \in config.scrobblers} = ConfiguredNames
       /\ Cardinality(config.scrobblers) = Cardinality(ConfiguredNames)
       /\ \A sc \in config.scrobblers :
            /\ Usable(sc)
            /\ sc.name = LastFm =>
                 sc.journal = CASE Text(Written("journal")) # "" ->
                                     Written("journal")
                                [] Text(Written("cache")) # "" ->
                                     Written("cache")
                                [] OTHER -> DefaultCache[config.loc]
  /\ pc = "failed" /\ err \in {"neither_file_nor_url", "no_username",
                                "no_password"} =>
       \E name \in ConfiguredNames : ~SectionUsable(name)

\* A port given on the command line is "already set" like the other
\* options and is kept (load_unsigned of "port").  0 is the unset port.
PortKeepsCommandLine ==
  pc = "done" /\ cmd.port # 0 => config.port = cmd.port

\* A port read from the file is the number written there (load_unsigned
\* stores the long of strtol into an int).
PortAsWritten ==
  pc = "done" /\ Written("port") # Absent =>
    Written("port") = [hi |-> 0, lo |-> config.port]

\* Every scrobbler owns its journal file: no two scrobblers of the Config
\* are given the same journal path (spec: "each backend owns its queue and
\* journal file exclusively"; load_scrobbler_config takes the path as
\* written in each section).
JournalsPrivate ==
  pc = "done" =>
    \A s1, s2 \in config.scrobblers :
      s1 # s2 /\ s1.journal # "" => s1.journal # s2.journal

====
