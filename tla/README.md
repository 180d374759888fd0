# TLA+ models of mpdscribble

These modules model the parts of mpdscribble whose code is in this repository:

- `src/src/Main.cxx`: the `Instance` listener callbacks and the Last.fm timing rules;
- `src/src/IniFile.cxx`: the configuration file reader;
- `src/src/ReadConfig.cxx`: the configuration loader.

The delivery engine (MultiScrobbler, the scrobbler backends and their journals) is not in `src/`. Only `main` and the journal timer of `Instance` are. `Scrobbler.tla` models the engine from `spec.md`, and `Delivery.tla` states what the engine promises.

## The system and its parts

| Part | Code | State | Operations | Interacts with |
|---|---|---|---|---|
| MPD (environment) | – | song, play state, elapsed time | play, pause, resume, stop, seek, song end, time | MpdObserver reads its status after every "idle" event |
| MpdObserver | not in `src/` | reported song, paused flag | one status read, which calls the listener | calls `Instance::OnMpd*` |
| Stopwatch | not in `src/` | accumulated time, running | Start, Stop, Resume, GetDuration | owned by Instance |
| Instance callbacks | Main.cxx 44–170 | stopwatch, MultiScrobbler | OnMpdStarted, OnMpdPlaying, OnMpdEnded, OnMpdPaused, OnMpdResumed | `SongChange` and `NowPlaying` go to MultiScrobbler |
| IniFile reader | IniFile.cxx | map of sections, current section, line number | fopen, fgets loop, ParseLine, Commit | gives its map to `load_config_file` |
| Configuration loader | ReadConfig.cxx | `Config` | default-path lookup, settings, one ScrobblerConfig per section, defaults | reads the command-line Config and the IniFile; its result builds Instance |
| MultiScrobbler, backends, journal | not in `src/`, except `main` and the timer of `Instance` | queues, batches in flight, protocol states, backoff delays, journals | SongChange, handshake, submit, reply, retry timer, WriteJournal, shutdown, crash | receives `SongChange` from the Instance callbacks; each backend talks to its own destination |

### Hard behaviours

- **Tracker.** MPD events are coalesced. Between two status reads the user can pause, resume, seek or restart the song, and the observer sees only the last snapshot. `song_repeated` has to infer a restart of the same song from a drop of `elapsed`, compared with the stopwatch. `OnMpdPlaying` reads the stopwatch before it ends and restarts the song. Durations of exactly 240 s, 30 s or half the length are boundary cases.
- **IniFile.** `fgets` reads into a fixed buffer of 4096 bytes. Keys that come before any section go into section `""`. The first error aborts the parse, and the error names a line number.
- **Default paths.** `get_default_config_path` reads `$HOME` into a `std::string` before it knows whether it needs it. The legacy `~/.mpdscribble` file wins only when the XDG one is missing. The default journal depends on where the file was found.
- **Delivery engine.** A bounded queue may have to evict while a batch is in flight. A reply may be lost after the destination accepted. Sessions expire, and transient failures back off up to a cap. A hard rejection disables one backend. The journal is saved only periodically and at shutdown, so a crash reloads an older queue.
- **ReadConfig.** A value given on the command line must win over the file. `load_unsigned` goes through `load_integer` with a `-1` sentinel. `strtol` returns a `long`, which is stored into an `int`. `cache_interval` is a fallback for `journal_interval`. Section `""` is skipped unless it has a `username` key. The default journal path depends on where the file was found.

## Modules

### `Tracker.tla` (with `MCTracker.tla`)

**State.**

- `mpd` is the player.
- `pending` says that MPD changed since the last read.
- `cur` and `wasPaused` are the observer's state.
- `tr` is the Instance: the stopwatch `sw`, the last NowPlaying song `np`, and the submissions `subs` passed to `SongChange`.
- Three history variables hold the ground truth that the properties compare against:
  - `heard` is the time played since the last `Start`;
  - `inst` is the time played in MPD's current play;
  - `owed` counts the plays of each song that qualified.

**Callbacks.** Each callback of `Main.cxx` is a pure operator on `tr`, with the same name as in the code. A callback that calls another one composes the operators. For example, `OnMpdPlaying` ends the song and then starts it again when `song_repeated` holds. `played_long_enough` and `song_repeated` are translated exactly, in whole seconds. `OnMpdEnded` submits `length` when it is known, and the elapsed time otherwise.

**Observer.** One status read is the action `Observe`. It has one disjunct per case of the comparison: stop, song change, pause, play. Each disjunct calls the callbacks in the observer's order. The observer is not in this repository, so it is modelled from the spec.

**Player (environment).**

- `Play`, `Pause`, `Resume`, `Stop`, `Seek` and `Finish` change the player. `Finish` covers a song that played to its end and is followed by a repeat, the next song, or a stop.
- `TimePasses` advances time by `Tick`, and only while the observer is idle.
- `Exhausted` is a stuttering step once the bound `MaxOps` on player operations is used up.

**Bounds.** There are two songs: `a`, 100 s long, and `b`, a stream of length 0. Ticks are 20 s, time is capped at 260 s, and there are 5 player operations. This reaches:

- the 240 s rule for the stream;
- the half-length rule for `a`;
- a repeat detected by `song_repeated`, which needs `elapsed < 60` after more than 50 s were heard;
- pause and resume coalesced with seeks.

**Restarts.** `CoalescedRestart = FALSE` forbids user operations between a restart of the tracked song and the next status read. With TRUE, they are allowed.

**Process restarts.** `ProcessRestart` models `main` (Main.cxx 199–217): `Run` returns, `WriteJournal` saves what was handed to `SongChange`, and the process exits and starts again with a new Instance and observer, while MPD plays on. The ghost `forgone` records the qualifying plays that were not yet submitted at that moment. `inst` restarts from zero, so that the new process owes only what it can hear. It is enabled by `ProcessRestarts` and counts as a player operation.

### `IniFile.tla` (with `MCIniFile.tla`)

**The file.** `lines` is the file. Each physical line is abstracted to the branch of `ParseLine` its first chunk takes: blank, comment, section `s`, key `k`, or one of the five syntax errors. A line longer than the buffer has a second chunk, its tail. `chunks` is what `fgets` returns.

**State.** `secs`, `entries` and `section` are the parser's map and iterator. `no` is the line counter. `status` and `err` are the result.

**Actions.** `Open`, `ReadLine` and `Commit`. `ReadLine` is one iteration of the `fgets` loop, and it runs the whole of `ParseLine`.

**Reference.** `RefResult` is what the file means: the sections, the keys of the last section above each key, or the first bad line. It is defined line by line, independent of the parser's state.

**Bounds.** Two section names, two keys, and files of up to 3 lines: 2 lines when long lines are allowed.

### `ConfigPaths.tla`

**State.** The environment `env` (which of `XDG_CONFIG_HOME`, `HOME` and `XDG_CACHE_HOME` are set) and the existing files `files` are chosen in `Init`, together with whether `--conf` was given. Each path is a token naming the directory it is built from. `conf`, `loc` and `cache` are the results, and `pc` is the step.

**Actions.** `GetDefaultConfigPath` is the whole of `get_default_config_path` as `file_read_config` calls it. `GetDefaultCachePath` is `get_default_cache_path` for section `""`. The helpers `HomeConf`, `GetXdgCachePath`, `GetLegacyHomeCachePath` and `GetHomeCachePath` have the code's names. `getenv("HOME")` of an unset variable builds a `std::string` from a null pointer. That is undefined behaviour, modelled as the choice between a `std::logic_error` (libstdc++) and a crash.

**Bounds.** None are needed: every subset of the environment and of the seven files is an initial state (2,048 of them).

### `ReadConfig.tla` (with `MCReadConfig.tla`)

**Inputs.** The inputs are chosen in `Init`:

- `cmd` is the `Config` from `parse_cmdline`;
- `found` is the result of `get_default_config_path`;
- `ini` is the parsed file, or `Unreadable`.

`sys` holds `sd_booted()` and `$http_proxy`. `Finish` chooses them, because the code reads them only there.

**State.** `config` is filled in. `pc` and `idx` give the step and the section of the loop.

**Actions.** `FindConfig`, `LoadSettings`, `LoadSection` and `Finish`. Each one runs a whole step of `file_read_config`, including its exceptions.

**Setting readers.** `load_string`, `load_integer`, `load_unsigned` and `load_scrobbler_config` are operators with the code's names. A number in the file is the `long` that `strtol` returns, written `[hi, lo]` for `hi * 2^32 + lo`. Storing it into an `int` keeps `lo`.

**Bounds.** One named section. Section `""` covers every case of `username`, the journal and cache keys, `host`, `port`, the intervals and `verbose`:

- the three ports are 6601, -1 and 2^32 + 6601;
- a port may also be unparseable or absent;
- `cache_interval` is absent, -1 or 30, so the fallback from a missing `journal_interval` both fails on the sign check and completes with 30;
- the command line sets the host, the port and the verbosity, or not.

### `Scrobbler.tla` and `Delivery.tla` (with `MCScrobbler.tla`)

**Abstract specification.** `Delivery` is the promise of spec.md sections 1, 4.3 and 7. Every submission is broadcast to every backend. Each backend delivers it at least once, unless one of these happens:

- its bounded queue evicted it (`Produce` drops at most one older entry per backend);
- a restart after a crash lost it (`Restart`);
- the backend is disabled by a permanent rejection.

Repeated deliveries are allowed. Weak fairness of `Ack` for every enabled backend and pending submission is the liveness promise.

**State.** Submissions are ids in the order the tracker produced them. Per backend, `Scrobbler` keeps:

- `queue`, oldest first;
- `batch`, the queue heads that the request in flight carries;
- `state`: idle, handshaking, ready, submitting, retry after a failed handshake or submission, or disabled;
- the backoff `delay`;
- the saved `journal`, one record per pending submission. A record is its id and whether the loader can read it.

The ghosts `delivered`, `evicted`, `unsaved` and `discarded` record what the destination accepted, what the queue dropped for room, what a crash lost, and what a load skipped as malformed.

**Actions.**

- `SongChange` broadcasts. A file sink (`Files`) takes the submission at once. A network backend appends it, and at capacity first evicts the oldest entry not in flight.
- `StartHandshake` and `HandshakeDone(b, ok | transient | hard)`.
- `Submit` sends the first `MaxBatch` entries.
- `Response(b, accepted | lost | session | transient | hard)` classifies the reply as in the table of spec section 4.4. `lost` is a reply that never arrived after the destination accepted the batch. The backend can only treat it as transient, so the batch is sent again later.
- Backoff doubles up to `MaxDelay` and resets to `BaseDelay` after a successful handshake or submission. `Wake` is the retry timer.
- `SaveJournal` is Instance's `save_journal_timer` calling `WriteJournal`.
- `Shutdown` is `main`'s final `WriteJournal` followed by a new process.
- `Crash` is a process death without that save. The queues are reloaded from the last journals.
- `LoadJournal` is the load at start. It skips malformed records and keeps the others in order (spec sections 6 and 7).
- `Damage` is a fault: one record of a journal on disk becomes unreadable, for example after an edit by hand or a bad sector. The next load after a crash skips it. `Shutdown` writes the journal and loads it in one step, so damage cannot fall between the two.

**Refinement.** `Refines == D!Spec`, where `D` instantiates `Delivery` as follows:

- `sent` is the ids produced;
- `acked` is `delivered`;
- `dropped` is `evicted ∪ unsaved ∪ discarded`;
- `disabled` is the backends in state `disabled`.

**Bounds.** One network backend and one file sink. Four submissions go into a queue of 3 with batches of 2, so an eviction happens while a batch is in flight. Delays are 1, 2 and 4, so the cap is reached. There are two restarts, so a crash can follow a shutdown or another crash. The backends share nothing but the broadcast, and every property is stated per backend. A second network backend makes the liveness check take more than ten minutes and adds no interleaving that a property could tell apart.

## Runs

| Run | Expect | What it shows |
|---|---|---|
| `tracker` | pass | See below. Process restarts are on. |
| `tracker_restart` | violation | A restart of the same song, followed by a seek before the observer reads the status, hides the restart from `song_repeated`. The first play qualified, and it is never submitted. |
| `tracker_shutdown` | violation | `NoPlayForgone`: song `a` plays for 60 s and qualifies. mpdscribble stops before the song ends. The final `WriteJournal` saves only what `OnMpdEnded` handed over, and the new Stopwatch starts from zero. The listen is lost, although the spec says no listen is lost across a restart. |
| `inifile` | pass | `ParseMatchesReference`: a file is accepted with exactly the sections and keys it writes, or rejected at the number of its first bad line. |
| `inifile_long` | violation | A comment longer than 4095 bytes makes `fgets` return its tail as a new line. That tail is parsed, for example as a bad section. Later errors name the wrong line. |
| `readconfig` | pass | See below. |
| `readconfig_port` | violation | `PortKeepsCommandLine`: the port of the file overrides `--port`, because `load_unsigned` passes its own `-1`. |
| `readconfig_wide` | violation | `PortAsWritten`: `port = 4294973897` is accepted as 6601. |
| `readconfig_journal` | violation | `JournalsPrivate`: section `""` and a named section may name the same journal, so two backends share one file. |
| `configpaths` | pass | `ConfigIsFirstExisting`: with `HOME` set, the configuration is the first existing file among the XDG (or `~/.config`) file, the legacy file and `/etc`, with the matching location. `JournalReused`: with a home configuration, when one of its journal files already exists, the default journal is an existing one (the XDG one when both exist), so a queue saved by an older version in `~/.mpdscribble` is not left behind. |
| `configpaths_home` | violation | `XdgConfigSuffices`: with `XDG_CONFIG_HOME` set and its file present, an unset `HOME` still makes `get_default_config_path` build a `std::string` from a null pointer. That is undefined behaviour, and a `logic_error` at best. |
| `scrobbler` | pass | See below. |

**`tracker`** checks four properties:

- `StopwatchMatchesPlayback`: after every status read, the stopwatch holds exactly the time heard since the song started, and it runs exactly when MPD plays.
- `NoQualifyingPlayLost`: every play that qualified has been submitted, is still being counted by the stopwatch, or was forgone at a stop of mpdscribble.
- `ScrobbleOnlyListened`: a submission is only made for a song heard long enough.
- `QualifyingPlayEventuallySubmitted` (liveness): for every `k`, once `k` plays of a song have qualified, eventually `k` of them have been handed to `SongChange` or forgone at a stop of mpdscribble. A song that is repeated over and over never ends, so the repeat detection of `OnMpdPlaying` has to submit each play; nothing may wait for a status read that never comes.

**`readconfig`** checks two properties:

- `SettingsFollowPrecedence`: each setting comes from the command line, then the file, then the default. The default log is the systemd journal (`-`) when `sd_booted()` holds and `syslog` otherwise; the default proxy is `$http_proxy`. Both are read in the last step of `file_read_config`, so the model chooses them there.
- `ScrobblersMatchSections`: there is one usable scrobbler per configured section, and `last.fm` keeps the journal its section names. When a section makes the load fail, some configured section was unusable.

**`scrobbler`** checks three properties, with crashes, shutdowns and damaged journal records on:

- `QueueOrdered`: each queue holds its submissions oldest first, each once, and the request in flight carries the queue's heads. This holds through evictions, failed batches, saves and reloads.
- `NoSubmissionLost`: every submission is, for the network backend, still queued, accepted, evicted, lost by a crash before a save saw it, or skipped at a load because its own record was malformed. A bad record costs no other entry of its journal. Accepting, retrying, abandoning a request at shutdown and reloading drop nothing.
- `Refines`: the engine implements `Delivery`, including its liveness. A backend that is not disabled eventually delivers every submission that it neither evicted nor lost in a crash. This holds through session expiry, lost replies, transient failures and backoff.

The model makes one thing explicit that the spec states in two ways. The spec promises that "no listen is lost across a restart or crash", but it saves the journal only by a periodic timer. `unsaved` is the window between the two. The abstract specification allows that loss only through an explicit `Restart`.

Each property of a passing run has a mutant in `PROJECT.json`, which is a plausible bug in the mapped code. Each mutant makes TLC report the property violated:

- a pause that does not stop the stopwatch;
- ending the song after restarting it, instead of before (this breaks both `NoQualifyingPlayLost` and `QualifyingPlayEventuallySubmitted`);
- a song change that resumes the stopwatch;
- a key stored without creating section `""`;
- `load_string` without its command-line check;
- section `""` skipped by the value of `username` instead of the presence of the key;
- the legacy configuration file preferred whenever it exists;
- the legacy cache used only when `XDG_CACHE_HOME` is unset, which strands a legacy journal after an upgrade;
- a failed batch put back at the tail of the queue;
- eviction of the queue's head even while it is in flight;
- a journal load that gives up on the whole file at its first malformed record (this breaks `NoSubmissionLost`);
- a submit condition that waits for a full batch. This breaks only the liveness part of `Refines`.

Each `TypeOK` also carries a bound from the code, and has its own mutant:

- Tracker: a submission's length is positive. The mutant submits a stream with its unknown length 0.
- IniFile: a key never goes into an unset section.
- ReadConfig: every scrobbler carries a section's name, or `last.fm` for section `""`. The mutant leaves the scrobbler of section `""` with the empty name.
- ConfigPaths: the journal is a cache path. The mutant names the legacy configuration file.
- Scrobbler: the delay stays within the cap. The mutant doubles without the cap.

## Fairness

- `Tracker` assumes weak fairness of `Observe` only. MPD sends an idle event after every change, and the observer's event loop handles it. The user's actions and time get no fairness.
- `IniFile`, `ReadConfig` and `ConfigPaths` are sequential procedures. They assume weak fairness of `Next`, because the code runs to its end.
- `Scrobbler` runs on one event loop, which dispatches every timer and completion. There is weak fairness of the following:
  - `StartHandshake`, `Submit` and `Wake` (the retry timer);
  - the completion of a handshake and of a submission, whatever its outcome;
  - `SaveJournal`, the periodic timer.

  Strong fairness is assumed only of a successful handshake and an accepted batch. This is the spec's premise that outages are temporary: a destination that keeps being asked eventually answers. Nothing forces a song to be played, a shutdown or a crash.

`Refines` and `QualifyingPlayEventuallySubmitted` are the checked liveness properties. The second needs only weak fairness of `Observe`: time and the user may stop at any point, and the property still holds because a stop, a song change and a repeat all end the song at the next status read.

## Not modelled, and the plan

Not modelled:

- `NowPlaying` is fire-and-forget. It changes no state that a property tells apart, so it is left out.
- The fields of a journal record are left out. A record is its id and whether it parses, and the save is an atomic replace.
- Daemonizing, the command line and logging in `main` call code that is not here.
- `pidfile` and `daemon_user` are copied like `host`, so they are left out. The Windows branches are left out too.
- `ReadConfig` takes the result of the default-path lookup as an input. `ConfigPaths` models that lookup on its own.

Next steps:

1. Compose `Tracker` with `Scrobbler`, so that `OnMpdEnded`'s submissions feed `SongChange` and one process restart stops both.
2. Two network backends in a safety-only configuration, to show failure isolation.
