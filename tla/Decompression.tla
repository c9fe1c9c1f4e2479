---------------------------- MODULE Decompression ----------------------------
(***************************************************************************)
(* clp::decompress (src/src/clp/decompression.cpp): restore files from the *)
(* archives listed in the global metadata database into an output          *)
(* directory.  Each file is first written to a temporary path             *)
(* (FileDecompressor::decompress_file records temp path -> final path);   *)
(* after every archive has been read, the temporary files are renamed to  *)
(* their final paths, a path that already exists getting a ".N" suffix.   *)
(*                                                                         *)
(* The driver is one sequential thread; pc names the statement it is at.   *)
(* Any exception is caught at the end of the try block and makes the call *)
(* return false, as do decompress_file's false and a failed rename.       *)
(* GlobalMetadataDB, the archive reader and FileDecompressor are not in   *)
(* the repository: they appear through what the spec says of them (the    *)
(* archives in creation order, the archives that hold a path, a file of   *)
(* an archive written to a temporary path) and may fail at every call.    *)
(* A stored file stands for all of its splits, which FileDecompressor     *)
(* joins in one temporary file.                                            *)
(***************************************************************************)
EXTENDS Integers, Sequences, FiniteSetsExt, Functions, TLC

CONSTANTS
  ArchiveOrder,  \* archive ids, in the global metadata database's order
  Stored,        \* archive -> sequence of its files [id, path]
  Requests,      \* possible files_to_decompress arguments (sets of paths)
  Outputs,       \* possible sets of final names already in the output dir
  MaxSuffix,     \* largest ".N" suffix the rename loop may need
  ExistsMayFail  \* may boost::filesystem::exists report an error?

VARIABLES
  files_to_decompress,
  pc,                      \* next statement of decompress()
  archive_ix,              \* position in the archive iterator
  file_ix,                 \* position in the archive's file iterator
  existing,                \* names in the output dir before the call
  temp_path_to_final_path, \* file id -> original path of its temp file
  renamed,                 \* file ids whose temp file was renamed
  decompressed_files,      \* paths reported as decompressed
  disk,                    \* output directory: name -> content
  result                   \* decompress's return value once pc = "done"

vars == <<files_to_decompress, pc, archive_ix, file_ix, existing,
          temp_path_to_final_path, renamed, decompressed_files, disk, result>>

\* A name in the output directory: a final path with suffix i (0 = none),
\* or the temporary file of a stored file
Name(p, i) == <<"final", p, i>>
Temp(id) == <<"temp", id>>

\* Contents: what was stored under an id, or what a name held before
Old(n) == <<"old", n>>
Data(id) == <<"data", id>>

Archives == Range(ArchiveOrder)
AllFiles == UNION {Range(Stored[a]) : a \in Archives}
HoldsPath(a, p) == \E f \in Range(Stored[a]) : f.path = p

\* The archives the driver visits: all of them, or with exactly one path
\* requested, get_archive_iterator_for_file_path's archives holding it
ArchivesToVisit(req) ==
  IF Cardinality(req) = 1
  THEN SelectSeq(ArchiveOrder, LAMBDA a : HoldsPath(a, CHOOSE p \in req : TRUE))
  ELSE ArchiveOrder

\* Mutant: with one path requested, the archive's whole file iterator is
\* used (get_file_iterator() instead of get_file_iterator(file_path))
MutantFilesOf(req, a) ==
  IF Cardinality(req) # 1 /\ req # {}
  THEN SelectSeq(Stored[a], LAMBDA f : f.path \in req) ELSE Stored[a]

\* The files of archive a the driver decompresses: all of them with no
\* request, get_file_iterator(file_path) with one, and those whose path is
\* requested (the others are skipped with continue) with several
FilesOf(req, a) ==
  IF req = {} THEN Stored[a] ELSE SelectSeq(Stored[a], LAMBDA f : f.path \in req)

CurrentArchive == ArchivesToVisit(files_to_decompress)[archive_ix]
CurrentFiles == FilesOf(files_to_decompress, CurrentArchive)

\* return false from the try block or the catch handler
Fail ==
  /\ pc' = "done"
  /\ result' = FALSE

Init ==
  /\ files_to_decompress \in Requests
  /\ existing \in Outputs
  /\ disk = [n \in existing |-> Old(n)]
  /\ pc = "create_output_dir"
  /\ archive_ix = 1
  /\ file_ix = 1
  /\ temp_path_to_final_path = <<>>
  /\ renamed = {}
  /\ decompressed_files = {}
  /\ result = FALSE

\* create_directory(output_dir.parent_path()) and, in the try block,
\* global_metadata_db.open(): either may fail
CreateOutputDir ==
  /\ pc = "create_output_dir"
  /\ \/ pc' = "archives" /\ UNCHANGED result
     \/ Fail
  /\ UNCHANGED <<files_to_decompress, archive_ix, file_ix, existing,
                 temp_path_to_final_path, renamed, decompressed_files, disk>>

\* One turn of the archive loop: archive_reader.open() and
\* refresh_dictionaries() (and, with no request, decompress_empty_directories)
\* may throw; past the last archive the rename pass starts
OpenArchive ==
  /\ pc = "archives"
  /\ IF archive_ix <= Len(ArchivesToVisit(files_to_decompress))
     THEN \/ pc' = "files" /\ file_ix' = 1 /\ UNCHANGED result
          \/ Fail /\ UNCHANGED file_ix
     ELSE pc' = "rename" /\ UNCHANGED <<file_ix, result>>
  /\ UNCHANGED <<files_to_decompress, archive_ix, existing,
                 temp_path_to_final_path, renamed, decompressed_files, disk>>

\* One turn of the file loop: decompress_file writes the file to its
\* temporary path and records temp path -> final path, or fails and the
\* driver returns false at once; the path is then added to
\* decompressed_files
DecompressFile ==
  /\ pc = "files"
  /\ file_ix <= Len(CurrentFiles)
  /\ LET f == CurrentFiles[file_ix] IN
     \/ /\ disk' = disk @@ (Temp(f.id) :> Data(f.id))
        /\ temp_path_to_final_path' = temp_path_to_final_path @@ (f.id :> f.path)
        /\ decompressed_files' = decompressed_files \cup {f.path}
        /\ file_ix' = file_ix + 1
        /\ UNCHANGED <<pc, result>>
     \/ /\ Fail
        /\ UNCHANGED <<disk, temp_path_to_final_path, decompressed_files, file_ix>>
  /\ UNCHANGED <<files_to_decompress, archive_ix, existing, renamed>>

\* Mutant: the archive iterator is not advanced (archive_ix.next() missed)
MutantCloseArchive ==
  /\ pc = "files"
  /\ file_ix > Len(CurrentFiles)
  /\ pc' = "archives"
  /\ UNCHANGED <<files_to_decompress, archive_ix, file_ix, existing, temp_path_to_final_path,
                 renamed, decompressed_files, disk, result>>

\* The archive's files are done: archive_reader.close(), next archive
CloseArchive ==
  /\ pc = "files"
  /\ file_ix > Len(CurrentFiles)
  /\ pc' = "archives"
  /\ archive_ix' = archive_ix + 1
  /\ UNCHANGED <<files_to_decompress, file_ix, existing, temp_path_to_final_path,
                 renamed, decompressed_files, disk, result>>

\* Mutant: the temporary file is copied to the name, not moved
MutantMoveTo(id, name) == disk @@ (name :> disk[Temp(id)])

\* rename(): the temporary file takes the name, replacing what was there
MoveTo(id, name) ==
  [n \in (DOMAIN disk \ {Temp(id)}) \cup {name} |->
     IF n = name THEN disk[Temp(id)] ELSE disk[n]]

\* Mutant: the final path is used without the exists() check
MutantFreeNames(p) == {Name(p, 0)}

\* The names the exists() loop may stop at: the first of path, path.1,
\* path.2, ... that does not exist.  exists(final_path, boost_error_code)
\* returns false when it fails, and the error code is never read, so when
\* exists() may fail the loop may stop at any name, taken or not.
FreeNames(p) ==
  {Name(p, i) : i \in {i \in 0..MaxSuffix :
                          /\ \A j \in 0..(i - 1) : Name(p, j) \in DOMAIN disk
                          /\ Name(p, i) \notin DOMAIN disk \/ ExistsMayFail}}

\* One turn of the rename loop, over temp_path_to_final_path in the
\* unordered_map's (unspecified) order: find a free name, rename, return
\* false if rename fails; after the last entry the database is closed
Rename ==
  /\ pc = "rename"
  /\ IF DOMAIN temp_path_to_final_path \subseteq renamed
     THEN pc' = "close_db" /\ UNCHANGED <<disk, renamed, result>>
     ELSE \E id \in DOMAIN temp_path_to_final_path \ renamed :
            \/ \E name \in FreeNames(temp_path_to_final_path[id]) :
                 /\ disk' = MoveTo(id, name)
                 /\ renamed' = renamed \cup {id}
                 /\ UNCHANGED <<pc, result>>
            \/ Fail /\ UNCHANGED <<disk, renamed>>
  /\ UNCHANGED <<files_to_decompress, archive_ix, file_ix, existing,
                 temp_path_to_final_path, decompressed_files>>

\* global_metadata_db.close() (it may throw), then the requested paths
\* that were not decompressed are logged and the call returns true
Finish ==
  /\ pc = "close_db"
  /\ \/ pc' = "done" /\ result' = TRUE
     \/ Fail
  /\ UNCHANGED <<files_to_decompress, archive_ix, file_ix, existing,
                 temp_path_to_final_path, renamed, decompressed_files, disk>>

Next ==
  \/ CreateOutputDir
  \/ OpenArchive
  \/ DecompressFile
  \/ CloseArchive
  \/ Rename
  \/ Finish

Spec == Init /\ [][Next]_vars

\* decompress is one thread that runs to its return: it never stops while
\* it has a statement left to execute
FairSpec == Spec /\ WF_vars(Next)

-----------------------------------------------------------------------------

TypeOK ==
  /\ pc \in {"create_output_dir", "archives", "files", "rename", "close_db", "done"}
  /\ result \in BOOLEAN
  /\ renamed \subseteq DOMAIN temp_path_to_final_path
  /\ \A id \in renamed : Temp(id) \notin DOMAIN disk
  /\ decompressed_files \subseteq {f.path : f \in AllFiles}

\* Nothing in the output directory is lost: a file that was there before
\* still holds what it held, and every file written to a temporary path is
\* still somewhere, whichever order the renames ran in and wherever the
\* call stopped.  This rests on the exists() loop before each rename: two
\* stored files with the same path, or a path already in the directory,
\* must end under different names.
NoOutputLost ==
  /\ \A n \in existing : n \in DOMAIN disk /\ disk[n] = Old(n)
  /\ \A id \in DOMAIN temp_path_to_final_path : Data(id) \in Range(disk)

\* decompress returns: every loop of the driver (archives, files of an
\* archive, renames, the ".N" search) ends, whatever the request and the
\* output directory, and whichever call fails.
Termination == <>(pc = "done")

\* The stored files a request selects
Selected(req) == IF req = {} THEN AllFiles ELSE {f \in AllFiles : f.path \in req}

\* When decompress returns true, every selected file, and nothing else, is
\* under a final name derived from its path, no temporary file is left, and
\* decompressed_files names exactly the selected paths, for each of the
\* three ways the driver selects archives and files.
CompleteOnSuccess ==
  (pc = "done" /\ result) =>
    LET sel == Selected(files_to_decompress) IN
    /\ \A n \in DOMAIN disk : n[1] = "final"
    /\ \A f \in sel : \E i \in 0..MaxSuffix : Name(f.path, i) \in DOMAIN disk
                                            /\ disk[Name(f.path, i)] = Data(f.id)
    /\ Range(disk) \ {Old(n) : n \in existing} = {Data(f.id) : f \in sel}
    /\ decompressed_files = {f.path : f \in sel}

=============================================================================
