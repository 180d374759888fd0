----------------------------- MODULE ConfigPaths -----------------------------
(***************************************************************************)
(* The default paths of src/ReadConfig.cxx: get_default_config_path looks  *)
(* for the configuration file in the home directory (XDG, then legacy) and *)
(* in /etc, and records where it found it in config.loc; later            *)
(* get_default_cache_path picks the journal of the "" section from that   *)
(* location.                                                               *)
(*                                                                         *)
(* A path is a token naming the directory it is built from.  getenv of an *)
(* unset variable is a null pointer: std::string built from it is         *)
(* undefined behaviour, which libstdc++ turns into a std::logic_error and *)
(* other builds into a crash.                                              *)
(***************************************************************************)
EXTENDS Naturals, FiniteSets, Sequences

EnvVars == {"XDG_CONFIG_HOME", "HOME", "XDG_CACHE_HOME"}

\* $XDG_CONFIG_HOME/mpdscribble/mpdscribble.conf,
\* $HOME/.config/mpdscribble/mpdscribble.conf,
\* $HOME/.mpdscribble/mpdscribble.conf, FILE_CONF,
\* $XDG_CACHE_HOME/mpdscribble/mpdscribble.cache,
\* $HOME/.mpdscribble/mpdscribble.cache, FILE_CACHE
ConfPaths  == {"xdg_conf", "home_conf", "legacy_conf", "etc_conf"}
CachePaths == {"xdg_cache", "legacy_cache", "var_cache"}
Paths      == ConfPaths \cup CachePaths

VARIABLES
  env,      \* the environment variables that are set
  files,    \* the regular files that exist (file_exists)
  conf,     \* config.conf: "" until a file is named
  loc,      \* config.loc
  cache,    \* the journal get_default_cache_path returns
  pc,       \* "config", "cache", "done" or "failed"
  outcome   \* how the lookup ended: "ok", "not_found", or the effect of
            \* the undefined behaviour: "logic_error" or "crash"

vars == <<env, files, conf, loc, cache, pc, outcome>>

Outcomes == {"ok", "not_found", "logic_error", "crash"}

-----------------------------------------------------------------------------

file_exists(p) == p # "" /\ p \in files

\* mutant: the legacy file wins even when the XDG file exists too
HomeConfLegacyFirst ==
  LET new == IF "XDG_CONFIG_HOME" \in env THEN "xdg_conf" ELSE "home_conf"
  IN  IF file_exists("legacy_conf") THEN "legacy_conf" ELSE new

\* FILE_HOME_CONF: the legacy file replaces the XDG one when only it exists
HomeConf ==
  LET new == IF "XDG_CONFIG_HOME" \in env THEN "xdg_conf" ELSE "home_conf"
  IN  IF file_exists("legacy_conf") /\ ~file_exists(new)
      THEN "legacy_conf" ELSE new

GetXdgCachePath ==
  IF "XDG_CACHE_HOME" \in env THEN "xdg_cache" ELSE ""

\* mutant: the legacy cache is given the name of the legacy configuration
\* file of the same directory
GetLegacyHomeCachePathConf ==
  IF "HOME" \in env THEN "legacy_conf" ELSE ""

GetLegacyHomeCachePath ==
  IF "HOME" \in env THEN "legacy_cache" ELSE ""

\* mutant: the legacy cache is used only when XDG_CACHE_HOME is unset
GetHomeCachePathXdgOnly ==
  LET xdg == GetXdgCachePath
      legacy == GetLegacyHomeCachePath
  IN  IF xdg = "" THEN legacy ELSE xdg

GetHomeCachePath ==
  LET xdg == GetXdgCachePath
      legacy == GetLegacyHomeCachePath
  IN  IF xdg = "" \/ (legacy # "" /\ ~file_exists(xdg) /\ file_exists(legacy))
      THEN legacy ELSE xdg

get_default_cache_path(l) ==
  CASE l = "file_home" -> GetHomeCachePath
    [] l = "file_etc"  -> "var_cache"
    [] OTHER           -> ""

-----------------------------------------------------------------------------

\* file_read_config: without --conf, get_default_config_path; HOME is read
\* into a std::string on every path through it
Found(path, l) ==
  /\ conf' = path /\ loc' = l /\ pc' = "cache" /\ outcome' = "ok"

GetDefaultConfigPath ==
  /\ pc = "config"
  /\ CASE conf # "" ->
            pc' = "cache" /\ outcome' = "ok" /\ UNCHANGED <<conf, loc>>
       [] "HOME" \notin env ->
            /\ pc' = "failed"
            /\ outcome' \in {"logic_error", "crash"}
            /\ UNCHANGED <<conf, loc>>
       [] file_exists(HomeConf)   -> Found(HomeConf, "file_home")
       [] file_exists("etc_conf") -> Found("etc_conf", "file_etc")
       [] OTHER ->
            pc' = "failed" /\ outcome' = "not_found" /\ UNCHANGED <<conf, loc>>
  /\ UNCHANGED <<env, files, cache>>

\* load_scrobbler_config of section "" without journal and cache keys
GetDefaultCachePath ==
  /\ pc = "cache"
  /\ cache' = get_default_cache_path(loc)
  /\ pc' = "done"
  /\ UNCHANGED <<env, files, conf, loc, outcome>>

\* --conf names the file or not; the environment and the files are any
Init ==
  /\ env \in SUBSET EnvVars
  /\ files \in SUBSET Paths
  /\ conf \in {"", "cmd_conf"}
  /\ loc = "file_unknown"
  /\ cache = ""
  /\ pc = "config"
  /\ outcome = "none"

Next == GetDefaultConfigPath \/ GetDefaultCachePath

Spec == Init /\ [][Next]_vars /\ WF_vars(Next)

-----------------------------------------------------------------------------

TypeOK ==
  /\ env \subseteq EnvVars /\ files \subseteq Paths
  /\ conf \in ConfPaths \cup {"", "cmd_conf"}
  /\ loc \in {"file_home", "file_etc", "file_unknown"}
  /\ cache \in CachePaths \cup {""}
  /\ pc \in {"config", "cache", "done", "failed"}
  /\ outcome \in Outcomes \cup {"none"}

\* the candidates in the order the comment of FILE_ETC_* and the XDG
\* convention give them: the XDG (or ~/.config) file, the legacy file in
\* ~/.mpdscribble, the system-wide file
Candidates ==
  <<IF "XDG_CONFIG_HOME" \in env THEN "xdg_conf" ELSE "home_conf",
    "legacy_conf", "etc_conf">>

FirstExisting(seq) ==
  LET is == {i \in DOMAIN seq : seq[i] \in files}
  IN  IF is = {} THEN "" ELSE seq[CHOOSE i \in is : \A j \in is : i <= j]

\* Without --conf, the lookup takes the first candidate that exists and
\* records a home location for the first two; it fails only when none
\* exists (get_default_config_path, file_read_config).  With HOME set.
ConfigIsFirstExisting ==
  "HOME" \in env /\ pc \in {"cache", "done", "failed"} =>
    IF conf = "cmd_conf"
    THEN loc = "file_unknown"
    ELSE /\ conf = FirstExisting(Candidates)
         /\ loc = CASE conf = "etc_conf" -> "file_etc"
                    [] conf = ""         -> "file_unknown"
                    [] OTHER             -> "file_home"

\* the journal files a home configuration may have: the XDG one when
\* XDG_CACHE_HOME is set, and the legacy one in ~/.mpdscribble
HomeJournals ==
  {"legacy_cache"} \cup IF "XDG_CACHE_HOME" \in env THEN {"xdg_cache"} ELSE {}

\* A user whose journal of unsent submissions is already on disk gets it
\* back: when a home configuration is found and one of its journal files
\* exists, the default journal (GetHomeCachePath) is an existing one, so
\* the queue an older version saved in ~/.mpdscribble is not left behind
\* for a new empty XDG cache; when both exist the XDG one is used.
JournalReused ==
  pc = "done" /\ loc = "file_home" /\ HomeJournals \cap files # {} =>
    /\ cache \in files
    /\ "xdg_cache" \in HomeJournals \cap files => cache = "xdg_cache"

\* A configuration file in $XDG_CONFIG_HOME is found whatever HOME is: the
\* lookup never ends in undefined behaviour when it has a file to return.
XdgConfigSuffices ==
  pc = "failed" =>
    ~("XDG_CONFIG_HOME" \in env /\ "xdg_conf" \in files)

====
