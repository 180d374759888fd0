\* XDG_CONFIG_HOME set and HOME unset
SPECIFICATION Spec
\* file_read_config returns or throws: the lookup really ends there
CHECK_DEADLOCK FALSE
INVARIANT XdgConfigSuffices
