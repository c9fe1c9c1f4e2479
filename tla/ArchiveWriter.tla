--------------------------- MODULE ArchiveWriter ---------------------------
(***************************************************************************)
(* streaming_archive::writer::Archive.  Only its header is in the         *)
(* repository (src/src/streaming_archive/writer/Archive.hpp): the member   *)
(* state, the method contracts and the ordered-set comparator.  The       *)
(* bodies are modelled from spec sections 4.3-4.6 and 5:                   *)
(*  - a file is created and opened (m_mutable_files), its messages are     *)
(*    written, interning each message's log type in the dictionary, it is  *)
(*    released (m_released_but_dirty_files) and marked ready for a         *)
(*    segment;                                                             *)
(*  - append_file_to_segment puts it in the open segment for files with,   *)
(*    or without (end_ts = MIN), timestamps and unions its log-type ids   *)
(*    into the segment's set; a segment whose size reaches the target is  *)
(*    sealed and the metadata of its files persisted with it;             *)
(*  - write_dir_snapshot persists the dictionary's new entries;           *)
(*  - close() closes all open files, seals both segments, flushes the    *)
(*    dictionaries, and registers the archive in the global metadata      *)
(*    database, which is its commit record; a crash before that leaves an *)
(*    archive that is discarded.                                           *)
(* The files of an open segment are the std::vector<File*> of the header  *)
(* (m_files_with(out)_timestamps_in_segment), in the order they were      *)
(* appended.  The header's FileGroupIdAndEndTimestampLTSetComparator is    *)
(* used by no container in the repository and is not modelled.  Sizes are *)
(* counted in messages; a message interns its log type in the log-type   *)
(* dictionary and at most one variable in the variable dictionary.        *)
(***************************************************************************)
EXTENDS Integers, Sequences, SequencesExt, FiniteSets

CONSTANTS
  Files,            \* file ids (their order is the UUID order)
  Attr,             \* file id -> [group_id, end_ts, path, msgs]
  Templates,        \* log types the messages use
  Vars,             \* dictionary variables the messages use
  MIN,              \* end_ts of a file without timestamps
  TargetSegmentSize \* target_segment_uncompressed_size, in messages

VARIABLES
  fstate,          \* file -> "none", "mutable", "released", "in_segment", "closed"
  written,         \* file -> messages written so far
  file_ids,        \* file -> log-type and variable ids its messages use
  logtype_dict,    \* m_logtype_dict: id + 1 -> template
  dict_persisted,  \* entries of m_logtype_dict written to disk
  var_dict,        \* m_var_dict: id + 1 -> variable
  var_persisted,   \* entries of m_var_dict written to disk
  open_segs,       \* "ts"/"no_ts" -> the open segment: files, size, id sets
  sealed,          \* sealed segments in sealing order (index = segment id + 1)
  phase,           \* "open", a step of close(), "closed" or "crashed"
  registered       \* the archive's row is in the global metadata database

dicts == <<logtype_dict, dict_persisted, var_dict, var_persisted>>

vars == <<fstate, written, file_ids, dicts,
          open_segs, sealed, phase, registered>>

Kinds == {"ts", "no_ts"}
NoIds == [logtype_ids |-> {}, var_ids |-> {}]
EmptySegment == [files |-> <<>>, size |-> 0, logtype_ids |-> {}, var_ids |-> {}]

\* A message without a dictionary variable (its variables, if any, are
\* encoded in place)
NoVar == "none"

\* The open segment a file goes to
SegmentKind(f) == IF Attr[f].end_ts = MIN THEN "no_ts" ELSE "ts"

\* Mutant: the id of the entry added last, whatever the template
MutantIdOf(dict, t) == Len(dict) - 1

\* The id the dictionary gives template t
IdOf(dict, t) == CHOOSE i \in 0..(Len(dict) - 1) : dict[i + 1] = t

\* LogTypeDictionaryWriter::add_entry
AddLogType(dict, t) == IF t \in ToSet(dict) THEN dict ELSE Append(dict, t)

\* VariableDictionaryWriter::add_entry
AddVar(dict, v) == IF v \in ToSet(dict) THEN dict ELSE Append(dict, v)

Init ==
  /\ fstate = [f \in Files |-> "none"]
  /\ written = [f \in Files |-> 0]
  /\ file_ids = [f \in Files |-> NoIds]
  /\ logtype_dict = <<>>
  /\ var_dict = <<>>
  /\ var_persisted = 0
  /\ dict_persisted = 0
  /\ open_segs = [k \in Kinds |-> EmptySegment]
  /\ sealed = <<>>
  /\ phase = "open"
  /\ registered = FALSE


\* create_in_memory_file / create_on_disk_file, then open_file: the file
\* joins m_mutable_files
CreateFile(f) ==
  /\ phase = "open"
  /\ fstate[f] = "none"
  /\ fstate' = [fstate EXCEPT ![f] = "mutable"]
  /\ UNCHANGED <<written, file_ids, dicts,
                 open_segs, sealed, phase, registered>>

\* write_msg: the message's log type is interned and its id recorded with
\* the file's encoded messages
WriteMsg(f) ==
  /\ phase = "open"
  /\ fstate[f] = "mutable"
  /\ written[f] < Len(Attr[f].msgs)
  /\ LET m    == Attr[f].msgs[written[f] + 1]
         dict == AddLogType(logtype_dict, m.logtype)
         vd   == IF m.var = NoVar THEN var_dict ELSE AddVar(var_dict, m.var)
     IN /\ logtype_dict' = dict
        /\ var_dict' = vd
        /\ file_ids' = [file_ids EXCEPT
                         ![f].logtype_ids = @ \cup {IdOf(dict, m.logtype)},
                         ![f].var_ids = IF m.var = NoVar THEN @ ELSE @ \cup {IdOf(vd, m.var)}]
  /\ written' = [written EXCEPT ![f] = @ + 1]
  /\ UNCHANGED <<fstate, dict_persisted, var_persisted, open_segs, sealed, phase, registered>>

\* close_file, then release_and_write_in_memory_file_to_disk or
\* release_on_disk_file: the file joins m_released_but_dirty_files
ReleaseFile(f) ==
  /\ phase = "open"
  /\ fstate[f] = "mutable"
  /\ written[f] = Len(Attr[f].msgs)
  /\ fstate' = [fstate EXCEPT ![f] = "released"]
  /\ UNCHANGED <<written, file_ids, dicts,
                 open_segs, sealed, phase, registered>>

\* close_segment_and_persist_file_metadata: the segment gets the next id,
\* and its files' metadata and id sets are persisted with it
Seal(k, seg) ==
  Append(sealed, [kind |-> k, files |-> seg.files,
                  logtype_ids |-> seg.logtype_ids, var_ids |-> seg.var_ids])

\* append_file_to_segment: the segment with the file pushed on its vector,
\* its size grown by the file's and its id sets unioned with the file's
AppendFileToSegment(f, seg) ==
  [files       |-> Append(seg.files, f),
   size        |-> seg.size + Len(Attr[f].msgs),
   logtype_ids |-> seg.logtype_ids \cup file_ids[f].logtype_ids,
   var_ids     |-> seg.var_ids \cup file_ids[f].var_ids]

\* mark_file_ready_for_segment: the file goes into the open segment of its
\* kind; a segment that reaches the target size is sealed
MarkFileReadyForSegment(f) ==
  /\ phase = "open"
  /\ fstate[f] = "released"
  /\ LET k   == SegmentKind(f)
         seg == AppendFileToSegment(f, open_segs[k])
     IN IF seg.size >= TargetSegmentSize
        THEN /\ sealed' = Seal(k, seg)
             /\ open_segs' = [open_segs EXCEPT ![k] = EmptySegment]
        ELSE /\ open_segs' = [open_segs EXCEPT ![k] = seg]
             /\ UNCHANGED sealed
  /\ fstate' = [fstate EXCEPT ![f] = "in_segment"]
  /\ UNCHANGED <<written, file_ids, dicts, phase, registered>>

\* Mutant: the snapshot counts one entry too many as written
MutantWriteDirSnapshot ==
  /\ phase = "open"
  /\ dict_persisted' = Len(logtype_dict) + 1
  /\ var_persisted' = Len(var_dict)
  /\ UNCHANGED <<fstate, written, file_ids, logtype_dict, var_dict, open_segs,
                 sealed, phase, registered>>

\* Mutant: only the log-type dictionary's new entries are written
MutantFlushDictionaries ==
  /\ dict_persisted' = Len(logtype_dict)
  /\ UNCHANGED var_persisted

\* write_snapshot on both dictionaries: their new entries are written
FlushDictionaries ==
  /\ dict_persisted' = Len(logtype_dict)
  /\ var_persisted' = Len(var_dict)

\* write_dir_snapshot: the dictionaries' new entries are written
WriteDirSnapshot ==
  /\ phase = "open"
  /\ FlushDictionaries
  /\ UNCHANGED <<fstate, written, file_ids, logtype_dict, var_dict, open_segs,
                 sealed, phase, registered>>

\* Mutant: the archive is registered before the dictionaries are flushed
MutantCloseSteps == <<"seal_ts", "seal_no_ts", "register", "flush_dictionaries">>

\* The steps of close(), in order
CloseSteps == <<"seal_ts", "seal_no_ts", "flush_dictionaries", "register">>

\* close() starts: it closes all open files (Archive.hpp:77).  A file still
\* mutable or released but not marked ready is closed without going into a
\* segment; nothing more can be written to it.
BeginClose ==
  /\ phase = "open"
  /\ phase' = CloseSteps[1]
  /\ fstate' = [f \in Files |-> IF fstate[f] \in {"mutable", "released"}
                                 THEN "closed" ELSE fstate[f]]
  /\ UNCHANGED <<written, file_ids, dicts,
                 open_segs, sealed, registered>>

\* One step of close(): seal a non-empty open segment even under the
\* target, flush the dictionaries, insert the archive's row in the global
\* metadata database
CloseStep ==
  \E i \in 1..Len(CloseSteps) :
    LET step == CloseSteps[i]
        k    == IF step = "seal_ts" THEN "ts" ELSE "no_ts"
    IN /\ phase = step
       /\ phase' = IF i = Len(CloseSteps) THEN "closed" ELSE CloseSteps[i + 1]
       /\ IF step \in {"seal_ts", "seal_no_ts"} /\ open_segs[k].files # <<>>
          THEN /\ sealed' = Seal(k, open_segs[k])
               /\ open_segs' = [open_segs EXCEPT ![k] = EmptySegment]
          ELSE UNCHANGED <<sealed, open_segs>>
       /\ IF step = "flush_dictionaries" THEN FlushDictionaries
          ELSE UNCHANGED <<dict_persisted, var_persisted>>
       /\ registered' = (registered \/ step = "register")
       /\ UNCHANGED <<fstate, written, file_ids, logtype_dict, var_dict>>

\* The process dies: what is on disk stays, nothing more happens
Crash ==
  /\ phase \notin {"closed", "crashed"}
  /\ phase' = "crashed"
  /\ UNCHANGED <<fstate, written, file_ids, dicts,
                 open_segs, sealed, registered>>

Next ==
  \/ \E f \in Files : CreateFile(f) \/ WriteMsg(f) \/ ReleaseFile(f)
                      \/ MarkFileReadyForSegment(f)
  \/ WriteDirSnapshot
  \/ BeginClose
  \/ CloseStep
  \/ Crash

Spec == Init /\ [][Next]_vars

-----------------------------------------------------------------------------

TypeOK ==
  /\ fstate \in [Files -> {"none", "mutable", "released", "in_segment", "closed"}]
  /\ \A f \in Files : written[f] \in 0..Len(Attr[f].msgs)
  /\ dict_persisted \in 0..Len(logtype_dict)
  /\ var_persisted \in 0..Len(var_dict)
  /\ \A k \in Kinds : ToSet(open_segs[k].files) \subseteq Files
  /\ phase \in {"open", "closed", "crashed"} \cup ToSet(CloseSteps)
  /\ registered \in BOOLEAN

\* The sealed segments holding file f
SealedHolding(f) == {i \in 1..Len(sealed) : f \in ToSet(sealed[i].files)}

\* Once the archive's row is in the global metadata database (the commit
\* record), the archive on disk is complete: no segment is left open, every
\* file is in a sealed segment, and every log-type id a sealed segment
\* uses is in the persisted dictionary.  close() must seal and flush before
\* it registers; a crash before registering leaves an unregistered archive.
CommittedArchiveComplete ==
  registered =>
    /\ \A k \in Kinds : open_segs[k].files = <<>>
    /\ \A f \in Files : fstate[f] = "in_segment" => SealedHolding(f) # {}
    /\ \A i \in 1..Len(sealed) : /\ \A id \in sealed[i].logtype_ids : id < dict_persisted
                                /\ \A id \in sealed[i].var_ids : id < var_persisted

\* Ids resolve (spec section 5, invariant 5): the logtype and variable ids
\* that append_file_to_segment unions into a sealed segment are entries of
\* the dictionaries, and through them name exactly the templates and
\* variables of the messages its files' encode_message calls wrote.
WrittenMsgs(fs) == UNION {{Attr[f].msgs[j] : j \in 1..written[f]} : f \in ToSet(fs)}

SealedIdsResolve ==
  \A i \in 1..Len(sealed) :
    /\ sealed[i].logtype_ids \subseteq 0..(Len(logtype_dict) - 1)
    /\ sealed[i].var_ids \subseteq 0..(Len(var_dict) - 1)
    /\ {logtype_dict[id + 1] : id \in sealed[i].logtype_ids}
         = {m.logtype : m \in WrittenMsgs(sealed[i].files)}
    /\ {var_dict[id + 1] : id \in sealed[i].var_ids}
         = {m.var : m \in WrittenMsgs(sealed[i].files)} \ {NoVar}

=============================================================================
