\* every environment, every set of existing files, with and without --conf
SPECIFICATION Spec
\* file_read_config returns or throws: the lookup really ends there
CHECK_DEADLOCK FALSE
INVARIANT TypeOK ConfigIsFirstExisting JournalReused
