# TLA+ models of clp-core

These modules model the parts of clp-core (the compressed log processor) whose source is in this repository. TLC checks them.

## The system

clp compresses a log file line by line:

- The timestamp at the start of a line is recognised by the catalog of known patterns (`TimestampPattern`) and cut out of the line.
- The remaining text is split into a log type and variables. These go into append-only dictionaries.
- The encoded message goes into a segment of the archive.
- Metadata (per file: begin/end timestamps, segment, path) is committed to SQLite (`SQLiteDB`, `MetadataDB`, `GlobalMetadataDB`).

Decompression (`clp::decompress`) reverses this:

- It walks the archives in the global metadata database and rebuilds every file into a temporary path.
- It re-inserts each timestamp with `TimestampPattern::insert_formatted_timestamp`.
- Finally it renames the temporary files to their final names.

The source in this repository covers:

| File | What it contains |
|---|---|
| `src/src/TimestampPattern.cpp` | catalog, parser, formatter |
| `src/src/SQLiteDB.cpp` | open/close/prepare of a connection |
| `src/src/clp/decompression.cpp` | the decompression driver |
| `src/src/streaming_archive/writer/Archive.hpp` | the writer's declarations: member state and method contracts (no method bodies) |
| `src/tests/test-TimestampPattern.cpp` | the catalog test |

Everything else (dictionaries, encoder, File/Segment, MetadataDB) exists only as the behaviour spec.md describes.

## Inventory

### TimestampPattern

- **State.** The process-wide catalog `m_known_ts_patterns`. It is empty until `init()` runs.
- **Operations:**
  - `init` reloads the 24 built-in patterns.
  - `search_known_ts_patterns` returns the first pattern whose `parse_timestamp` succeeds, with the epoch milliseconds and the span.
  - `insert_formatted_timestamp` puts a timestamp back after the N-th space of the content.
- **Hard behaviours:**
  - the first match wins;
  - the `%y` pivot;
  - `%S = 60`;
  - the 12-hour clock on both sides;
  - padding-only fields;
  - the `size_t` subtraction in `append_padded_value`;
  - the exceptions of the formatter.
- **Properties.** Spec section 8, properties 1 and 2:
  - format then search returns the same pattern and timestamp;
  - cutting out and re-inserting the timestamp rebuilds the line.
- **Search before `init()`.** Before `init()` the search loop has no entries and returns `nullptr` with no error (TimestampPattern.cpp:148), exactly as for a line without a timestamp. No property checks it: the code has no error channel to compare with spec section 7's NotInit, and a property on the search result alone would fail just as well for a search that reported NotInit.

### SQLiteDB

- **State.** The handle.
- **Operations:**
  - `open` (on failure it calls `close` and throws);
  - `close` (BUSY while statements are outstanding keeps the handle);
  - `prepare_statement` (NotInit on a null handle).
- **Properties:**
  - no handle or statement refers to a freed connection;
  - no connection is lost.

### Decompression driver

- **State:**
  - the archives and their files;
  - `temp_path_to_final_path`;
  - `decompressed_files`;
  - the files on disk.
- **Operations:**
  - the three selection loops (all files, one path, a set of paths);
  - the rename pass;
  - the final "not found" report.
- **Hard behaviours:**
  - early returns that leave temporary files;
  - rename collisions resolved with `.N` suffixes, in unordered order.

### Archive writer

Spec-modelled, with the member state taken from the header. The header's `FileGroupIdAndEndTimestampLTSetComparator` is used by no container in the repository: the segments' files are `std::vector<File*>` (Archive.hpp:288-289), so it is not modelled.

- **State:**
  - the files being written;
  - the two open segments (timestamped and not);
  - the dictionaries;
  - the metadata.
- **Hard behaviours:**
  - the order of dictionary flush and metadata commit;
  - a crash between them;
  - segment sealing at the target size, and the id sets that must be emptied with it;
  - close() while files are still open.

## Modules

| Module | Models | State ↔ code |
|---|---|---|
| `TimestampPattern` | the catalog, `parse_timestamp`, `search_known_ts_patterns`, `insert_formatted_timestamp` and their helpers; the catalog test's search / cut / re-insert sequence | `known_ts_patterns` is `m_known_ts_patterns`; `found` is the search's return value and out-parameters; `restored` is the formatter's output or its exception |
| `MCTimestampPattern` | the model values: dates, times, tails | |
| `SQLiteDB` | `SQLiteDB::open`, `close`, `prepare_statement` on several objects sharing the sqlite library; statement finalisation | `m_db_handle[d]` is each object's `m_db_handle`; `live` holds the connections sqlite has not freed; `stmts` maps statements to their connection |
| `MCSQLiteDB` | 2 objects, 3 connections, 2 statement slots | |
| `Decompression` | `clp::decompress`, statement by statement | `pc` is the statement reached; `temp_path_to_final_path`, `decompressed_files` and `files_to_decompress` are the locals of the same name; `disk` is the output directory (name → content) |
| `MCDecompression` | 2 archives, paths p1 (in both), p2, p3 (in none), 5 requests, 3 starting directories | |
| `ArchiveWriter` | `streaming_archive::writer::Archive`: file pipeline, segments, both dictionaries, close() and crash | see below |
| `MCArchiveWriter` | 4 files, 3 log types, segments sealed at 3 messages | |

### TimestampPattern in detail

**Lines.** Lines are TLA+ strings, and a character is read with the code's 0-based index.

**Timestamps.** An `epochtime_t` is a pair `[day, ms]`. TLC's integers are 32 bits, and the pair keeps the code's int64 exactly.

**Calendar.** The date library's calendar (`sys_days`, `year_month_day`, weekday) uses the days-from-civil / civil-from-days algorithms that the library implements.

**Actions.**

| Action | Code |
|---|---|
| `TimestampPatternInit` | `init()`, idempotent, and allowed before or after the search |
| `Compress` | `search_known_ts_patterns` |
| `Decompress` | `insert_formatted_timestamp` on `content`, which is built as in the test |

**The reference logger.** The lines come from a reference "logger", a strftime-style printer of the catalog's formats:

- It is defined independently of the code: `%l` is printed as hour mod 12, with 0 printed as 12.
- Day counts come from a closed-form leap-year count, not from the code's algorithm.
- `ExpectedFields` gives the fields a format does not print the parser's defaults (1970-01-01 00:00:00.000). The spec's "modulo truncation" clause says the same thing.

### SQLiteDB in detail

- **The environment.** The sqlite library hands out connections and frees them. `sqlite3_close` answers BUSY while statements of the connection are unfinalised. `sqlite3_close(nullptr)` succeeds.
- **Open.** `Open` also models the failure path, where `close()` frees the failed connection, the handle becomes null and the method throws.
- **Finalize.** `Finalize` is the prepared statement's destructor. Its class is not in the repository, so it is modelled from the spec.
- **Callers.** In the passing run a caller opens an object only when its handle is null, which is what the one-open-per-object callers do. `AllowReopen` lifts that restriction.

### Decompression in detail

One action per loop turn of `decompress`:

| Action | Code |
|---|---|
| `CreateOutputDir` | directory creation and database open |
| `OpenArchive` | archive open, dictionaries, empty directories; the end of the archive loop |
| `DecompressFile` | one file |
| `CloseArchive` | archive close |
| `Rename` | one entry of `temp_path_to_final_path`: exists() loop and rename |
| `Finish` | database close and the return value |

- **Failure points.** Every call into code outside the repository (the reader, FileDecompressor, GlobalMetadataDB, the filesystem) may fail. Its failure takes the driver's return-false path (`Fail`).
- **Branches.**
  - `ArchivesToVisit` and `FilesOf` are the three branches of the driver.
  - The archives that hold a path (`HoldsPath`) model `get_archive_iterator_for_file_path`, from the spec.
- **Rename order.** Renames happen in any order, because `unordered_map` iteration order is unspecified.
- **exists() errors.** `exists(final_path, boost_error_code)` returns false when it fails, and the code never reads the error code. `FreeNames` is the set of names the suffix loop may stop at: the first free one, or, when `ExistsMayFail`, any name reached before it. decomp_driver runs with `ExistsMayFail = FALSE` and decomp_exists_error with `TRUE`.
- **Splits.** A stored file stands for all of its splits, which FileDecompressor joins.

### ArchiveWriter in detail

Only `Archive.hpp` is in the repository. The member state (lines 275-301) is taken from it; the method bodies follow spec 4.3-4.6 and 5, so the map marks every action spec-modelled.

| Variable | Code |
|---|---|
| `fstate[f]` | which of `m_mutable_files`, `m_released_but_dirty_files`, a segment's files holds `f`, or `"closed"` when close() closed it before it reached a segment |
| `written`, `file_ids` | the messages encoded so far and the log-type and variable ids they use |
| `logtype_dict`, `dict_persisted` | `m_logtype_dict` and how much of it is on disk |
| `var_dict`, `var_persisted` | `m_var_dict` and how much of it is on disk |
| `open_segs[k]` | the open segment for files with (`"ts"`) or without (`"no_ts"`) timestamps, its `std::vector<File*>` of files (in append order), its size and its log-type and variable id sets |
| `sealed` | segments closed by `close_segment_and_persist_file_metadata`, in segment-id order |
| `phase`, `registered` | the step of `close()` reached, a crash, and whether the archive's row is in the global metadata database |

| Action | Code |
|---|---|
| `CreateFile` | `create_*_file` and `open_file` |
| `WriteMsg` | `write_msg`: `add_entry` on the log-type dictionary, and on the variable dictionary for a message with a dictionary variable (`NoVar` otherwise: its variables are encoded in place) |
| `ReleaseFile` | `close_file` and `release_*` |
| `MarkFileReadyForSegment` | `mark_file_ready_for_segment`: routing by `end_ts = MIN`, `AppendFileToSegment` (`append_file_to_segment`), sealing at the target size |
| `WriteDirSnapshot` | `write_dir_snapshot`: `FlushDictionaries` writes both dictionaries' new entries |
| `BeginClose`, `CloseStep` | `close()`: close all open files (Archive.hpp:77), seal both segments, flush the dictionaries, register (`CloseSteps` gives the order); close() may start at any time |
| `Crash` | the process dies; what is on disk stays |

**Dictionaries.** `AddLogType` and `AddVar` intern as spec 4.3 says: an existing entry keeps its id, a new one gets the next. `FlushDictionaries` persists both tails. No refinement against an abstract dictionary is checked: with the writer's bodies absent, the writer's dictionary operations would be the abstract ones by construction.

## Runs

| Run | cfg | Expect | What it shows |
|---|---|---|---|
| ts_roundtrip | `MCTimestampPattern.cfg` | pass | all 24 patterns × 8 dates × 6 times × 2 tails: format then search finds the pattern, timestamp and span; the line is rebuilt exactly |
| ts_pm_hour | `MCTimestampPattern_pm_hour.cfg` | violation | 1 PM printed with `%l` is restored as `13` (TimestampPattern.cpp:667/678) |
| ts_y_window | `MCTimestampPattern_y_window.cfg` | violation | `%y` years 2069..2099 are read back in the 1900s, against spec 8.1 |
| ts_leap_second | `MCTimestampPattern_leap_second.cfg` | violation | second 60 is restored as 00 of the next minute, against spec 8.2 |
| sqlite_lifecycle | `MCSQLiteDB.cfg` | pass | `TypeOK`: no handle or statement refers to a freed connection; `NoLeakedConnection`: every live connection is some object's handle, BUSY closes included |
| sqlite_reopen | `MCSQLiteDB_reopen.cfg` | violation | a second `open()` on an object that holds a connection overwrites the handle; in TLC's trace `open(d1)` succeeds, `open(d1)` again fails and nulls the handle, and the first connection is leaked (a BUSY close whose `false` is ignored leads to the same state) |
| decomp_driver | `MCDecompression.cfg` | pass | `NoOutputLost`: no pre-existing or decompressed file is overwritten, at any failure point and in any rename order; `CompleteOnSuccess`: `true` means exactly the selected files are under final names, with no temporary file left, for the three request branches; `TypeOK` includes "a renamed temporary file no longer exists"; `Termination`: decompress always returns |
| decomp_exists_error | `MCDecompression_exists_error.cfg` | violation | an `exists()` that fails lets the rename replace a file already in the output directory (decompression.cpp:139), against the error policy of spec section 7 |
| archive_writer | `MCArchiveWriter.cfg` | pass | `CommittedArchiveComplete` (registered ⇒ no open segment, every file sealed, every log-type and variable id persisted), `SealedIdsResolve` (through the dictionaries, a sealed segment's ids name exactly the templates and variables its files wrote, across mid-run seals: spec section 5, invariant 5); a crash may happen at any step and close() may start at any time |
| ts_blank_field | `MCTimestampPattern_blank_field.cfg` | violation | `150201   :02:03 content after` (the `%k` hour left as its two padding spaces) is recognised by `%y%m%d %k:%M:%S` with hour 0 and restored as `150201  0:02:03 content after`, against spec 8.2 (TimestampPattern.cpp:60) |

The decomp_driver run stops when `decompress` returns. It has `CHECK_DEADLOCK FALSE`, as do the archive runs: a closed or crashed archive takes no more steps.

The ts_roundtrip run:

- **Safety only.** There is no liveness property yet: every step is a single call and nothing waits.
- **TypeOK** keeps the catalog to either empty or the built-in list. A mutant that appends on a second `init()` breaks it.

### Bounds

**Dates:**

| Date | Why it is included |
|---|---|
| 1969-12-31 | before the epoch: negative days and `%y` = 69 |
| 1970-01-01 | the epoch |
| 2000-02-29 | a century leap year |
| 2016-02-29 | a leap day |
| 1999-12-31 | the end of the `%y` 1900s |
| 2068-12-31 | the last `%y` 2000s year |
| 2015-02-01 | the test's date |
| 2021-05-09 | a Sunday, for `%a` |

**Times:** midnight, 01:02:03.004 (the test's), 11:59:59.999, noon, 14:05:06.007 and 23:59:59.999. Together they cover every 12-hour edge except 13h, which is the ts_pm_hour run.

**Tails:**

- the test's `" content after"`;
- the empty tail, where the span ends at the end of the line.

**Archive writer:** four files make 65,658 states. Files 1 and 3 share the variable `x` and file 2 uses `y`. A segment can therefore reference a variable id that a snapshot has not yet written. Files 1 and 2 share the log type A, and file 4 reuses B of file 1, so a message often interns an existing entry. File 4 has no timestamps. With a 3-message target, files 1+2 and files 1+3 both seal a segment, and close() seals what is left.

## Fairness

- **Decompression:** `FairSpec` is `Spec /\ WF_vars(Next)`. `decompress` is one thread running one call to its return, so it never stops with a statement left to run. `Termination` is checked under it. A mutant that forgets `archive_ix.next()` loops forever and breaks it.
- **TimestampPattern, SQLiteDB, ArchiveWriter:** no fairness. Every step is a caller's choice, and all their properties are invariants.

**Blank fields.** `BlankFields` lists the sets of space-padded specifiers a line may hold as blanks. The strftime-style runs use `{{}}`. ts_blank_field uses `{{"k"}}` on the test's date and time. A blank `%e` or `%l` converts to 0, which is below their range and does not parse, so only `%k` reaches the formatter.

## Not modelled, and why

- **Logging, command line, configuration.** These are I/O with no bearing on the properties.
- **The classifier/encoder.** They have no source here. They are string transformation with no state across lines.
- **`get_format`, `get_num_spaces_before_ts`.** These are accessors, read directly from the pattern record.
- **The file comparator of Archive.hpp:182-203.** No container in the repository uses it; the segments' files are vectors.
- **A refinement of the writer's dictionaries.** The dictionary writers' bodies are not in the repository, so the writer's interning would restate the abstract dictionary of spec 4.3 and the check would hold by construction.
- **Liveness of close().** Its body is not in the repository; the spec's four unconditional steps end by their shape alone.

## Plan

1. `TimestampPattern` (done).
2. `SQLiteDB` (done).
3. `Decompression` (done).
4. `ArchiveWriter` (done, partly: the header has no method bodies).
5. `TimestampPattern`: the blank-field run (done); still to add, the spec's literal section 8 property 1 for the yearless pattern.
6. Liveness (done): `Termination` of the driver.
7. Done: the ids of sealed segments resolving through the dictionaries (`SealedIdsResolve`, with a mutant that gives every template the id of the last entry added).
