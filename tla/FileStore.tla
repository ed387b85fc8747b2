------------------------------ MODULE FileStore ------------------------------
(***************************************************************************)
(* The backend's file store: FileServer (backend/file.go), the upload      *)
(* check of the web server (backend/web.go, PreUpload), the records in     *)
(* badger (db/kv.go, db/file) and the files on disk.                       *)
(*                                                                         *)
(* A real file has a record under its etag and size (a Key) and a place on *)
(* disk derived from them; a user file is a path linked to a Key.          *)
(* FileServer serves one connection after the other; PreUpload runs beside *)
(* it.  The database and the disk survive a crash of the process.          *)
(*                                                                         *)
(* Get reads its result after the transaction has filled it in, which is   *)
(* the order in which gc evaluates "return t, storage.db.View(...)".       *)
(***************************************************************************)
EXTENDS Integers

CONSTANTS
    Key,        \* (etag, size) of the contents that are uploaded
    Path,       \* paths chosen by the users
    None,       \* no key, no path
    Size,       \* size of a content, in chunks
    Faults      \* badger may fail to read or to write

ASSUME StoreAssumption ==
    None \notin Key /\ None \notin Path /\ Size \in Nat \ {0} /\ Faults \in BOOLEAN

Absent == -1

VARIABLES
    files,      \* keys with a record in the database
    disk,       \* disk[k]: chunks in the real file of k, Absent when no file
    userFiles,  \* userFiles[p]: the key path p is linked to, or None
    up,         \* the connection FileServer serves
    running,    \* FileServer.Run has not returned
    preAcks     \* (history) <<path, key>> that PreUpload has acknowledged

stored == <<files, disk, userFiles>>
vars == <<stored, up, running, preAcks>>

\* ServeConn: where upload is, the request, the chunks still to be received,
\* the UploadAck (its Etag: a key or None), and (history) how it ended.
Upload == [pc : {"idle", "check", "insert", "create", "open", "copy", "append",
                 "preview", "link", "copied", "ack"},
           key : Key \cup {None}, path : Path \cup {None}, start : 0 .. Size,
           left : 0 .. Size, ack : Key \cup {None},
           end : {"none", "error", "refused", "copied", "linked"}]
NoUpload == [pc |-> "idle", key |-> None, path |-> None, start |-> 0,
             left |-> 0, ack |-> None, end |-> "none"]

TypeOK ==
    /\ files \subseteq Key
    /\ disk \in [Key -> 0 .. Size \cup {Absent}]
    /\ userFiles \in [Path -> Key \cup {None}]
    /\ up \in Upload /\ running \in BOOLEAN
    /\ preAcks \subseteq Path \X Key

Init ==
    /\ files = {} /\ disk = [k \in Key |-> Absent]
    /\ userFiles = [p \in Path |-> None]
    /\ up = NoUpload /\ running = TRUE /\ preAcks = {}

Goto(pc) == up' = [up EXCEPT !.pc = pc]

\* upload returns an empty ack.
Fail(end) == up' = [up EXCEPT !.pc = "ack", !.end = end]
-----------------------------------------------------------------------------
(* FileServer.                                                             *)

\* ServeConn has read the request.  ReadLine reads through a bufio.Reader of
\* its own, and the chunks it has buffered past the line are lost.
Serve(k, p, start, lost) ==
    /\ running /\ up.pc = "idle" /\ start + lost <= Size
    /\ up' = [NoUpload EXCEPT !.pc = "check", !.key = k, !.path = p,
                              !.start = start, !.left = Size - start - lost]
    /\ UNCHANGED <<stored, running, preAcks>>

\* No request could be read: ServeConn's error ends Run.
ServeError ==
    /\ running /\ up.pc = "idle" /\ running' = FALSE
    /\ UNCHANGED <<stored, up, preAcks>>

\* The record of the requested file, by db.Get.
Found == up.key \in files

\* GetFile, and the branch on StartAt: only a known file can be resumed.
GetFile ==
    /\ up.pc = "check"
    /\ \/ Found /\ Goto(IF up.start = 0 THEN "copied" ELSE "open")
       \/ ~Found /\ up.start = 0 /\ Goto("insert")
       \/ ~Found /\ up.start > 0 /\ Fail("error")
       \/ Faults /\ Fail("error")
    /\ UNCHANGED <<stored, running, preAcks>>

\* InsertUserFile of the CopyFile of the record, by db.Set: the path is linked,
\* or linked anew.
InsertUserFile == userFiles' = [userFiles EXCEPT ![up.path] = up.key]

\* The file exists: it is not received, only linked.
LinkExisting ==
    /\ up.pc = "copied"
    /\ \/ /\ InsertUserFile
          /\ up' = [up EXCEPT !.pc = "ack", !.ack = up.key, !.end = "copied"]
       \/ Faults /\ Fail("error") /\ UNCHANGED userFiles
    /\ UNCHANGED <<files, disk, running, preAcks>>

\* Mutant: upload ignores the error of InsertFile.
InsertFileIgnored ==
    /\ up.pc = "insert" /\ Goto("create")
    /\ UNCHANGED <<stored, running, preAcks>>

\* InsertFile: GetOrSet returns ErrKeyNotFound for a key that has no record;
\* only a read that fails in another way reaches txn.Set.
InsertFile ==
    /\ up.pc = "insert"
    /\ \/ Fail("refused") /\ UNCHANGED files
       \/ Faults /\ Goto("create") /\ files' = files \cup {up.key}
       \/ Faults /\ Fail("error") /\ UNCHANGED files
    /\ UNCHANGED <<disk, userFiles, running, preAcks>>

\* os.Create, which may fail.
Create ==
    /\ up.pc = "create"
    /\ \/ Goto("copy") /\ disk' = [disk EXCEPT ![up.key] = 0]
       \/ Fail("error") /\ UNCHANGED disk
    /\ UNCHANGED <<files, userFiles, running, preAcks>>

\* Mutant: a resumed upload creates its file anew.
OpenTruncates ==
    /\ up.pc = "open" /\ Goto("copy")
    /\ disk' = [disk EXCEPT ![up.key] = 0]
    /\ UNCHANGED <<files, userFiles, running, preAcks>>

\* A resumed upload: os.Open and Seek; the file is open for reading only.
Open ==
    /\ up.pc = "open"
    /\ \/ disk[up.key] # Absent /\ Goto("append")
       \/ Fail("error")
    /\ UNCHANGED <<stored, running, preAcks>>

\* io.Copy receives a chunk and writes it.
CopyChunk ==
    /\ up.pc = "copy" /\ up.left > 0
    /\ up' = [up EXCEPT !.left = @ - 1]
    /\ disk' = [disk EXCEPT ![up.key] = @ + 1]
    /\ UNCHANGED <<files, userFiles, running, preAcks>>

\* io.Copy receives a chunk and cannot write it to the read-only file.
AppendChunk ==
    /\ up.pc = "append" /\ up.left > 0 /\ Fail("error")
    /\ UNCHANGED <<stored, running, preAcks>>

\* io.Copy ends: the connection's EOF is success, however much has arrived;
\* a failed read or write, or Close, is not.
CopyEnd ==
    /\ up.pc \in {"copy", "append"}
    /\ Goto("preview") \/ Fail("error")
    /\ UNCHANGED <<stored, running, preAcks>>

\* SaveImagePreview, SaveVideoPreview: nothing for other types.
SavePreview ==
    /\ up.pc = "preview"
    /\ Goto("link") \/ Fail("error")
    /\ UNCHANGED <<stored, running, preAcks>>

\* Mutant: the ack is filled in although InsertUserFile failed.
LinkUnchecked ==
    /\ up.pc = "link"
    /\ \/ InsertUserFile
       \/ Faults /\ UNCHANGED userFiles
    /\ up' = [up EXCEPT !.pc = "ack", !.ack = up.key, !.end = "linked"]
    /\ UNCHANGED <<files, disk, running, preAcks>>

\* InsertUserFile for the uploaded file.
LinkUploaded ==
    /\ up.pc = "link"
    /\ \/ /\ InsertUserFile
          /\ up' = [up EXCEPT !.pc = "ack", !.ack = up.key, !.end = "linked"]
       \/ Faults /\ Fail("error") /\ UNCHANGED userFiles
    /\ UNCHANGED <<files, disk, running, preAcks>>

\* ServeConn writes the ack, empty or not; only an error of this write ends
\* Run.  The deferred Release frees the connection.
WriteAck ==
    /\ up.pc = "ack" /\ up' = NoUpload
    /\ running' \in BOOLEAN
    /\ UNCHANGED <<stored, preAcks>>
-----------------------------------------------------------------------------
\* PreUpload: the file has a record; the copy it makes is not inserted.
PreUpload(k, p) ==
    /\ k \in files /\ <<p, k>> \notin preAcks
    /\ preAcks' = preAcks \cup {<<p, k>>}
    /\ UNCHANGED <<stored, up, running>>

\* The process dies and is started again.
Crash ==
    /\ up' = NoUpload /\ running' = TRUE
    /\ UNCHANGED <<stored, preAcks>>

Next ==
    \/ \E k \in Key, p \in Path, start, lost \in 0 .. Size : Serve(k, p, start, lost)
    \/ ServeError \/ GetFile \/ LinkExisting \/ InsertFile \/ Create \/ Open
    \/ CopyChunk \/ AppendChunk \/ CopyEnd \/ SavePreview \/ LinkUploaded
    \/ WriteAck \/ Crash
    \/ \E k \in Key, p \in Path : PreUpload(k, p)

Spec == Init /\ [][Next]_vars
-----------------------------------------------------------------------------
(* Properties.                                                             *)

\* Every user file is linked to a file that has a record, and every path that
\* PreUpload has acknowledged is for one, over all failures and crashes: upload
\* inserts the record before it links the path, and no record is lost.
LinkedHasRecord ==
    /\ \A p \in Path : userFiles[p] # None => userFiles[p] \in files
    /\ \A p \in Path, k \in Key : <<p, k>> \in preAcks => k \in files

\* An ack that names the etag is written only once the path is linked to the
\* file, so that Head and Open find it.
AckedIsLinked == up.ack # None => userFiles[up.path] = up.ack

\* The content of a file that some path is linked to does not change: neither
\* a second upload of the same content nor a resumed one, nor a crash in
\* either, touches what users already have.
LinkedUnchanged ==
    [][\A k \in Key :
         (\E p \in Path : userFiles[p] = k) => disk'[k] = disk[k]]_vars

\* The file store implements WriteOnce, over faults and crashes: os.Create never
\* truncates a file that is there, a file grows only in the upload that created
\* it, paths are linked to files no longer written, and an ack that names the
\* etag is filled in only by the step that links the path.
Store ==
    INSTANCE WriteOnce WITH
        known <- files, content <- disk, link <- userFiles, promised <- preAcks,
        writing <- IF up.pc \in {"create", "copy"} THEN up.key ELSE None,
        acking <- IF up.ack = None THEN {} ELSE {<<up.path, up.ack>>}
StoreSpec == Store!Spec

\* What FileSystem.Open finds at path p (Head: whether p is linked).
OpenFile(p) == IF userFiles[p] = None THEN Absent ELSE disk[userFiles[p]]

\* What the branch "new file" of upload is for: a content without a record is
\* refused only when the database or the disk fails.
NewFileStored == up.end # "refused"

\* What the comment "exists, copy file" says: a path linked without receiving
\* the content is linked to a file that exists.
CopiedExists == up.end = "copied" => OpenFile(up.path) # Absent
-----------------------------------------------------------------------------
(* The inductive invariant behind the properties (see FileStoreProofs).    *)

\* An upload in progress has a request, and an ack is for its key.
Request ==
    /\ up.pc # "idle" => up.key \in Key /\ up.path \in Path
    /\ up.ack # None => up.pc = "ack" /\ up.ack = up.key

\* upload knows its file's record from the branch it is in.
Recorded ==
    /\ up.pc = "insert" => up.key \notin files
    /\ up.pc \in {"copied", "create", "open", "copy", "append", "preview", "link"}
           => up.key \in files

\* A file that is being written is linked from nowhere yet, and what is still
\* to be received fits it.
Private ==
    /\ up.pc \in {"create", "copy"} => \A p \in Path : userFiles[p] # up.key
    /\ up.pc = "copy" => disk[up.key] # Absent /\ disk[up.key] + up.left <= Size

\* Only files with a record are on disk, and the one created next is not there.
Fresh ==
    /\ \A k \in Key : disk[k] # Absent => k \in files
    /\ up.pc = "create" => disk[up.key] = Absent

IInv == /\ TypeOK /\ Request /\ Recorded /\ Private
        /\ LinkedHasRecord /\ AckedIsLinked
=============================================================================
