---------------------------- MODULE MCReadConfig ----------------------------
(* Inputs of file_read_config: a command line that sets the host, the port *)
(* and the verbosity or not, section "" with every kind of value for the  *)
(* settings, and one named section.                                        *)
EXTENDS ReadConfig, TLC

CONSTANTS s1

Num(n) == [hi |-> 0, lo |-> n]

\* "6601", "-1" and "4294973897" (2^32 + 6601)
Numbers == {Num(6601), Num(-1), [hi |-> 1, lo |-> 6601]}

MCNamed == <<s1>>

MCGlobalChoices ==
  [username : {Absent, "", "user"}, password : {"pass"},
   journal : {Absent, "journal_path"}, cache : {Absent, "cache_path"},
   host : {Absent, "file_host"}, log : {Absent}, proxy : {Absent, "file_proxy"},
   port : {Absent, NaN} \cup Numbers,
   journal_interval : {Absent, Num(60)}, cache_interval : {Absent, Num(-1), Num(30)},
   verbose : {Absent, Num(2)}]

MCNamedChoices ==
  [file : {Absent, "file_path"}, url : {Absent, "url"},
   username : {Absent, "user"}, password : {"pass"},
   journal : {Absent, "journal_path"}]

MCCmdChoices ==
  [conf : {"", "cmd_conf"}, loc : {"file_unknown"},
   host : {"", "cmd_host"}, log : {""}, proxy : {""},
   port : {0, 6600},
   journal_interval : {600}, verbose : {-1, 3}, scrobblers : {{}}]

MCFound ==
  {[path |-> "", loc |-> "file_unknown"],
   [path |-> "home_conf", loc |-> "file_home"],
   [path |-> "etc_conf", loc |-> "file_etc"]}

MCHttpProxies == {Unset, "env_proxy"}

MCDefaultCache ==
  [l \in Locations |-> CASE l = "file_home" -> "home_cache"
                         [] l = "file_etc"  -> "var_cache"
                         [] OTHER           -> ""]

====
