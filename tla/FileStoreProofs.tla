--------------------------- MODULE FileStoreProofs ---------------------------
(***************************************************************************)
(* Proofs about the file store: links point to records, acknowledged       *)
(* uploads are linked, linked content never changes, and the store as a    *)
(* whole implements WriteOnce.                                             *)
(***************************************************************************)
EXTENDS FileStore, TLAPS

LEMMA InvInit == Init => IInv
BY StoreAssumption DEF Init, IInv, TypeOK, Request, Recorded, Private,
    LinkedHasRecord, AckedIsLinked, NoUpload, Upload, Absent

\* The steps that end a connection, or start one, leave the store alone.
LEMMA ConnStep ==
    ASSUME IInv,
           \/ \E k \in Key, p \in Path, start, lost \in 0 .. Size :
                Serve(k, p, start, lost)
           \/ ServeError \/ WriteAck \/ Crash
           \/ \E k \in Key, p \in Path : PreUpload(k, p)
    PROVE  IInv'
<1> USE StoreAssumption DEF IInv
<1>1. CASE \E k \in Key, p \in Path, start, lost \in 0 .. Size :
             Serve(k, p, start, lost)
    <2> PICK k \in Key, p \in Path, start \in 0 .. Size, lost \in 0 .. Size :
               Serve(k, p, start, lost)
        BY <1>1
    <2>1. up' = [pc |-> "check", key |-> k, path |-> p, start |-> start,
                 left |-> Size - start - lost, ack |-> None, end |-> "none"]
        BY DEF Serve, NoUpload
    <2>2. Size - start - lost \in 0 .. Size
        <3>1. start + lost <= Size
            BY DEF Serve
        <3> HIDE DEF IInv
        <3> QED
            BY <3>1, StoreAssumption
    <2>3. up' \in Upload
        BY <2>1, <2>2 DEF Upload
    <2>4. TypeOK' /\ LinkedHasRecord'
        BY <2>3 DEF Serve, stored, TypeOK, LinkedHasRecord
    <2>5. Request' /\ Recorded' /\ Private' /\ AckedIsLinked'
        BY <2>1 DEF Request, Recorded, Private, AckedIsLinked
    <2> QED
        BY <2>4, <2>5
<1>2. CASE ServeError
    BY <1>2 DEF ServeError, stored, TypeOK, Request, Recorded, Private,
        LinkedHasRecord, AckedIsLinked
<1>3. CASE WriteAck \/ Crash
    <2>1. up' \in Upload
        BY <1>3 DEF WriteAck, Crash, NoUpload, Upload
    <2>2. TypeOK' /\ LinkedHasRecord'
        BY <1>3, <2>1 DEF WriteAck, Crash, stored, TypeOK, LinkedHasRecord
    <2>3. Request' /\ Recorded' /\ Private' /\ AckedIsLinked'
        BY <1>3 DEF WriteAck, Crash, NoUpload, Request, Recorded, Private,
            AckedIsLinked
    <2> QED
        BY <2>2, <2>3
<1>4. CASE \E k \in Key, p \in Path : PreUpload(k, p)
    BY <1>4 DEF PreUpload, stored, TypeOK, Request, Recorded, Private,
        LinkedHasRecord, AckedIsLinked
<1> QED
    BY <1>1, <1>2, <1>3, <1>4

\* Going on and failing keep the upload's type.
LEMMA GotoType ==
    ASSUME up \in Upload,
           \/ \E pc \in {"insert", "create", "open", "copy", "append", "preview",
                         "link", "copied"} : Goto(pc)
           \/ Fail("error") \/ Fail("refused")
    PROVE  up' \in Upload
<1>1. CASE \E pc \in {"insert", "create", "open", "copy", "append", "preview",
                     "link", "copied"} : Goto(pc)
    BY <1>1 DEF Goto, Upload
<1>2. CASE Fail("error") \/ Fail("refused")
    BY <1>2 DEF Fail, Upload
<1> QED
    BY <1>1, <1>2

\* The steps of upload that write neither the record nor a link.
LEMMA PhaseStep ==
    ASSUME IInv, GetFile \/ Create \/ Open \/ CopyChunk \/ AppendChunk
                         \/ CopyEnd \/ SavePreview
    PROVE  IInv'
<1> USE StoreAssumption DEF IInv, Goto, Fail, Found, InsertUserFile
<1>1. CASE GetFile
    <2>1. up' \in Upload
        <3> HIDE DEF Goto, Fail
        <3>1. up \in Upload
            BY DEF TypeOK
        <3> QED
            BY <1>1, <3>1, GotoType DEF GetFile
    <2>2. TypeOK' /\ LinkedHasRecord'
        BY <1>1, <2>1 DEF GetFile, stored, TypeOK, LinkedHasRecord
    <2>3. Request' /\ Recorded' /\ Private' /\ AckedIsLinked'
        BY <1>1 DEF GetFile, stored, TypeOK, Upload, Request, Recorded, Private,
            AckedIsLinked
    <2> QED
        BY <2>2, <2>3
<1>2. CASE Create
    <2>1. up' \in Upload
        <3> HIDE DEF Goto, Fail
        <3>1. up \in Upload
            BY DEF TypeOK
        <3> QED
            BY <1>2, <3>1, GotoType DEF Create
    <2>2. CASE Goto("copy") /\ disk' = [disk EXCEPT ![up.key] = 0]
        <3>1. TypeOK' /\ LinkedHasRecord'
            BY <1>2, <2>1, <2>2 DEF Create, TypeOK, Request, LinkedHasRecord
        <3>2. disk'[up.key] = 0 /\ up.left \in 0 .. Size
            BY <1>2, <2>2 DEF Create, TypeOK, Request, Upload
        <3>3. Request' /\ Recorded' /\ Private' /\ AckedIsLinked'
            BY <1>2, <2>2, <3>2 DEF Create, TypeOK, Upload, Request, Recorded,
                Private, AckedIsLinked, Absent
        <3> QED
            BY <3>1, <3>3
    <2>3. CASE Fail("error") /\ UNCHANGED disk
        BY <1>2, <2>1, <2>3 DEF Create, TypeOK, Request, Recorded, Private,
            LinkedHasRecord, AckedIsLinked, Upload
    <2> QED
        BY <1>2, <2>2, <2>3 DEF Create
<1>3. CASE Open \/ AppendChunk \/ CopyEnd \/ SavePreview
    <2>1. up' \in Upload
        <3> HIDE DEF Goto, Fail
        <3>1. up \in Upload
            BY DEF TypeOK
        <3> QED
            BY <1>3, <3>1, GotoType
            DEF Open, AppendChunk, CopyEnd, SavePreview
    <2>2. TypeOK' /\ LinkedHasRecord'
        BY <1>3, <2>1 DEF Open, AppendChunk, CopyEnd, SavePreview, stored,
            TypeOK, LinkedHasRecord
    <2>3. Request' /\ Recorded' /\ Private' /\ AckedIsLinked'
        BY <1>3 DEF Open, AppendChunk, CopyEnd, SavePreview, stored, TypeOK,
            Upload, Request, Recorded, Private, AckedIsLinked
    <2> QED
        BY <2>2, <2>3
<1>4. CASE CopyChunk
    BY <1>4 DEF CopyChunk, TypeOK, Request, Recorded, Private,
        LinkedHasRecord, AckedIsLinked, Upload, Absent
<1> QED
    BY <1>1, <1>2, <1>3, <1>4

\* The steps that write to the database.  A record is new, so no path is
\* linked to the file that is created next; a link is to a recorded file.
LEMMA StoreStep ==
    ASSUME IInv, InsertFile \/ LinkExisting \/ LinkUploaded
    PROVE  IInv'
<1> USE StoreAssumption DEF IInv, Goto, Fail, Found, InsertUserFile
<1>1. CASE InsertFile
    <2>1. up' \in Upload
        <3> HIDE DEF Goto, Fail
        <3>1. up \in Upload
            BY DEF TypeOK
        <3> QED
            BY <1>1, <3>1, GotoType DEF InsertFile
    <2>2. CASE Goto("create") /\ files' = files \cup {up.key}
        <3>1. \A p \in Path : userFiles[p] # up.key
            BY <1>1 DEF InsertFile, LinkedHasRecord, Recorded, Request
        <3> QED
            BY <1>1, <2>1, <2>2, <3>1 DEF InsertFile, TypeOK, Request, Recorded,
                Private, LinkedHasRecord, AckedIsLinked, Upload
    <2>3. CASE (Fail("refused") \/ Fail("error")) /\ UNCHANGED files
        <3>1. TypeOK' /\ LinkedHasRecord'
            BY <1>1, <2>1, <2>3 DEF InsertFile, TypeOK, LinkedHasRecord
        <3>2. Request' /\ Recorded' /\ Private' /\ AckedIsLinked'
            BY <1>1, <2>3 DEF InsertFile, TypeOK, Upload, Request, Recorded,
                Private, AckedIsLinked
        <3> QED
            BY <3>1, <3>2
    <2> QED
        BY <1>1, <2>2, <2>3 DEF InsertFile
<1>2. CASE LinkExisting \/ LinkUploaded
    <2> DEFINE Acked(end) == [up EXCEPT !.pc = "ack", !.ack = up.key, !.end = end]
    <2>0. up \in Upload /\ up.key \in Key
        BY <1>2 DEF LinkExisting, LinkUploaded, TypeOK, Request
    <2>1. up' \in Upload /\ up'.pc = "ack" /\ up'.key = up.key
          /\ up'.path = up.path
        <3>1. CASE up' = Acked("copied") \/ up' = Acked("linked")
            BY <2>0, <3>1 DEF Upload
        <3>2. CASE Fail("error")
            BY <2>0, <3>2 DEF Upload
        <3> QED
            BY <1>2, <3>1, <3>2 DEF LinkExisting, LinkUploaded
    <2>2. CASE /\ InsertUserFile
               /\ up'.ack = up.key
        BY <1>2, <2>1, <2>2 DEF LinkExisting, LinkUploaded, TypeOK, Request,
            Recorded, Private, LinkedHasRecord, AckedIsLinked, Upload
    <2>3. CASE Fail("error") /\ UNCHANGED userFiles
        BY <1>2, <2>1, <2>3 DEF LinkExisting, LinkUploaded, TypeOK, Request,
            Recorded, Private, LinkedHasRecord, AckedIsLinked, Upload
    <2> QED
        BY <1>2, <2>2, <2>3 DEF LinkExisting, LinkUploaded, TypeOK, Upload
<1> QED
    BY <1>1, <1>2

LEMMA InvStep == IInv /\ [Next]_vars => IInv'
<1> SUFFICES ASSUME IInv, [Next]_vars PROVE IInv'
    OBVIOUS
<1>1. CASE UNCHANGED vars
    BY <1>1 DEF vars, stored, IInv, TypeOK, Request, Recorded, Private,
        LinkedHasRecord, AckedIsLinked
<1>2. CASE Next
    BY <1>2, ConnStep, PhaseStep, StoreStep DEF Next
<1> QED
    BY <1>1, <1>2

\* The store's invariant, for any number of contents, paths and chunks.
THEOREM StoreInvariant == Spec => []IInv
BY InvInit, InvStep, PTL DEF Spec

\* Every linked path leads to a file with a record.
THEOREM LinksHaveRecords == Spec => []LinkedHasRecord
<1>1. IInv => LinkedHasRecord
    BY DEF IInv
<1> QED
    BY <1>1, StoreInvariant, PTL

\* An ack that names the etag is written only for a linked path.
THEOREM AcksAreLinked == Spec => []AckedIsLinked
<1>1. IInv => AckedIsLinked
    BY DEF IInv
<1> QED
    BY <1>1, StoreInvariant, PTL

\* No upload, resumed upload or crash changes the content of a linked file.
THEOREM LinkedContentIsStable == Spec => LinkedUnchanged
<1> DEFINE Stable == \A k \in Key :
               (\E p \in Path : userFiles[p] = k) => disk'[k] = disk[k]
<1>1. IInv /\ [Next]_vars => [Stable]_vars
    <2> SUFFICES ASSUME IInv, Next, NEW k \in Key, NEW p \in Path,
                        userFiles[p] = k
                 PROVE  disk'[k] = disk[k]
        BY DEF vars
    <2>1. CASE Create \/ CopyChunk
        BY <2>1 DEF Create, CopyChunk, IInv, TypeOK, Private
    <2>2. CASE UNCHANGED disk
        BY <2>2
    <2> QED
        BY <2>1, <2>2 DEF Next, Serve, ServeError, GetFile, LinkExisting,
            InsertFile, Open, AppendChunk, CopyEnd, SavePreview, LinkUploaded,
            WriteAck, Crash, PreUpload, stored
<1> QED
    BY <1>1, StoreInvariant, PTL DEF Spec, LinkedUnchanged
-----------------------------------------------------------------------------
(* The refinement of WriteOnce.                                            *)

\* A step keeps the file that is created next off the disk: the record that
\* upload has just inserted is the first of its key, and every file has one.
LEMMA FreshStep == IInv /\ Fresh /\ [Next]_vars => Fresh'
<1> SUFFICES ASSUME IInv, Fresh, [Next]_vars PROVE Fresh'
    OBVIOUS
<1>1. CASE UNCHANGED vars
    BY <1>1 DEF vars, stored, Fresh
<1>2. CASE InsertFile
    <2>1. up \in Upload /\ disk[up.key] = Absent
        BY <1>2 DEF InsertFile, IInv, TypeOK, Request, Recorded, Fresh
    <2> QED
        BY <1>2, <2>1 DEF InsertFile, Goto, Fail, Upload, Fresh
<1>3. CASE Create \/ CopyChunk
    <2>1. up \in Upload /\ up.key \in files /\ up'.pc # "create"
        BY <1>3 DEF Create, CopyChunk, Goto, Fail, IInv, TypeOK, Recorded, Upload
    <2> QED
        BY <1>3, <2>1 DEF Create, CopyChunk, IInv, TypeOK, Fresh
<1>4. CASE /\ UNCHANGED <<files, disk>>
           /\ up' = up \/ up'.pc # "create"
    BY <1>4 DEF Fresh
<1>5. ASSUME Next
      PROVE  \/ InsertFile \/ Create \/ CopyChunk
             \/ UNCHANGED <<files, disk>> /\ (up' = up \/ up'.pc # "create")
    <2>1. up \in Upload
        BY DEF IInv, TypeOK
    <2>2. CASE WriteAck \/ Crash \/ ServeError
        BY <2>2 DEF WriteAck, Crash, ServeError, stored, NoUpload
    <2>3. CASE GetFile \/ Open \/ AppendChunk \/ CopyEnd \/ SavePreview
        BY <2>1, <2>3 DEF GetFile, Open, AppendChunk, CopyEnd, SavePreview, stored,
            Goto, Fail, Upload
    <2>4. CASE LinkExisting \/ LinkUploaded
        BY <2>1, <2>4 DEF LinkExisting, LinkUploaded, Fail, Upload
    <2>5. ASSUME NEW k \in Key, NEW p \in Path, NEW start \in 0 .. Size,
                 NEW lost \in 0 .. Size, Serve(k, p, start, lost)
          PROVE  UNCHANGED <<files, disk>> /\ up'.pc # "create"
        BY <2>5 DEF Serve, stored, NoUpload
    <2>6. ASSUME NEW k \in Key, NEW p \in Path, PreUpload(k, p)
          PROVE  UNCHANGED <<files, disk>> /\ up' = up
        BY <2>6 DEF PreUpload, stored
    <2> QED
        BY <1>5, <2>2, <2>3, <2>4, <2>5, <2>6 DEF Next
<1> QED
    BY <1>1, <1>2, <1>3, <1>4, <1>5

\* os.Create never finds a file: no upload truncates what is on disk.
THEOREM FilesCreatedOnce == Spec => []Fresh
<1>1. Init => Fresh
    BY DEF Init, NoUpload, Fresh
<1> QED
    BY <1>1, FreshStep, StoreInvariant, PTL DEF Spec

writing == IF up.pc \in {"create", "copy"} THEN up.key ELSE None
acking == IF up.ack = None THEN {} ELSE {<<up.path, up.ack>>}

\* Steps of WriteOnce from what becomes of the mapped state.
LEMMA StutterOrEnd ==
    ASSUME IInv, UNCHANGED <<stored, preAcks>>,
           \/ UNCHANGED <<writing, acking>>
           \/ writing' = None /\ acking' = acking
           \/ writing' = writing /\ acking' = {}
    PROVE  [Store!Next]_(Store!vars)
BY DEF stored, writing, acking, Store!vars, Store!Next, Store!Seal, Store!Ack

\* Every step of the file store is a step of WriteOnce or changes nothing of it.
LEMMA StoreRefines ==
    ASSUME IInv, Fresh, Next
    PROVE  [Store!Next]_(Store!vars)
<1> USE StoreAssumption
<1>0. up \in Upload
    BY DEF IInv, TypeOK
<1>1. CASE InsertFile
    <2>1. up.key \in Key /\ up.key \notin files /\ disk[up.key] = Absent /\ up.ack = None
        BY <1>1 DEF InsertFile, IInv, Request, Recorded, Fresh
    <2>2. CASE Goto("create") /\ files' = files \cup {up.key}
        <3>1. Store!Record(up.key)
            BY <1>0, <1>1, <2>1, <2>2 DEF InsertFile, Goto, Upload, Store!Record,
                Absent, Store!Absent
        <3> QED
            BY <2>1, <3>1 DEF Store!Next
    <2>3. CASE (Fail("refused") \/ Fail("error")) /\ UNCHANGED files
        <3>1. UNCHANGED <<stored, preAcks, writing, acking>>
            BY <1>0, <1>1, <2>3 DEF InsertFile, Fail, Upload, stored, writing, acking
        <3> QED
            BY <3>1, StutterOrEnd
    <2> QED
        BY <1>1, <2>2, <2>3 DEF InsertFile
<1>2. CASE Create \/ CopyChunk
    <2>1. /\ up.key \in Key /\ up.ack = None
          /\ disk \in [Key -> 0 .. Size \cup {Absent}]
        BY <1>2 DEF Create, CopyChunk, IInv, TypeOK, Request
    <2>2. CASE Fail("error") /\ UNCHANGED disk
        <3>1. UNCHANGED <<stored, preAcks>> /\ writing' = None /\ acking' = acking
            BY <1>0, <1>2, <2>2 DEF Create, CopyChunk, Fail, Upload, stored, writing,
                acking
        <3> QED
            BY <3>1, StutterOrEnd
    <2>3. CASE /\ disk' = [disk EXCEPT ![up.key] = disk[up.key] + 1]
               /\ writing = up.key /\ UNCHANGED <<writing, acking>>
        BY <1>2, <2>1, <2>3 DEF Create, CopyChunk, writing, acking, Store!Next,
            Store!Write
    <2>4. CASE Create /\ Goto("copy") /\ disk' = [disk EXCEPT ![up.key] = 0]
        <3>1. disk[up.key] = Absent /\ 0 = disk[up.key] + 1
            BY <2>4 DEF Create, Fresh, Absent
        <3>2. writing = up.key /\ UNCHANGED <<writing, acking>>
            BY <1>0, <2>4 DEF Create, Goto, Upload, writing, acking
        <3> QED
            BY <2>3, <2>4, <3>1, <3>2
    <2>5. CASE CopyChunk
        <3>1. writing = up.key /\ UNCHANGED <<writing, acking>>
            BY <1>0, <2>5 DEF CopyChunk, Upload, writing, acking
        <3> QED
            BY <2>3, <2>5, <3>1 DEF CopyChunk
    <2> QED
        BY <1>2, <2>2, <2>4, <2>5 DEF Create
<1>3. CASE LinkExisting \/ LinkUploaded
    <2>1. /\ up.key \in Key \cap files /\ up.path \in Path /\ up.ack = None
          /\ writing = None /\ acking = {} /\ up.key # None
        BY <1>3 DEF LinkExisting, LinkUploaded, IInv, Request, Recorded, writing,
            acking
    <2>2. CASE /\ InsertUserFile
               /\ \E end \in {"copied", "linked"} :
                      up' = [up EXCEPT !.pc = "ack", !.ack = up.key, !.end = end]
        <3>1. /\ up'.pc = "ack" /\ up'.ack = up.key /\ up'.path = up.path
            BY <1>0, <2>2 DEF Upload
        <3>2. writing' = None /\ acking' = {<<up.path, up.key>>}
            BY <2>1, <3>1 DEF writing, acking
        <3>3. Store!Link(up.path, up.key)
            BY <1>3, <2>1, <2>2, <3>2 DEF LinkExisting, LinkUploaded, InsertUserFile,
                writing, acking, Store!Link
        <3> QED
            BY <2>1, <3>3 DEF Store!Next
    <2>3. CASE Fail("error") /\ UNCHANGED userFiles
        <3>1. UNCHANGED <<stored, preAcks, writing, acking>>
            BY <1>0, <1>3, <2>3 DEF LinkExisting, LinkUploaded, Fail, Upload, stored,
                writing, acking
        <3> QED
            BY <3>1, StutterOrEnd
    <2> QED
        BY <1>3, <2>2, <2>3 DEF LinkExisting, LinkUploaded
<1>4. CASE \E k \in Key, p \in Path : PreUpload(k, p)
    <2>1. PICK k \in Key, p \in Path : PreUpload(k, p)
        BY <1>4
    <2>2. Store!Promise(p, k)
        BY <2>1 DEF PreUpload, stored, Store!Promise
    <2> QED
        BY <2>2 DEF Store!Next
<1>5. CASE ServeError \/ \E k \in Key, p \in Path, start, lost \in 0 .. Size :
                             Serve(k, p, start, lost)
    <2>1. up.pc = "idle" => up.ack = None
        BY DEF IInv, Request
    <2>2. UNCHANGED <<stored, preAcks, writing, acking>>
        BY <1>5, <2>1 DEF ServeError, Serve, NoUpload, stored, writing, acking
    <2> QED
        BY <2>2, StutterOrEnd
<1>6. CASE GetFile \/ Open \/ AppendChunk \/ CopyEnd \/ SavePreview
    <2>1. UNCHANGED <<stored, preAcks>> /\ up'.ack = up.ack /\ up.ack = None
        BY <1>0, <1>6 DEF GetFile, Open, AppendChunk, CopyEnd, SavePreview, Goto, Fail,
            Upload, IInv, Request
    <2>2. acking = {} /\ acking' = {}
        BY <2>1 DEF acking
    <2>3. CASE CopyEnd
        <3>1. writing' = None
            BY <1>0, <2>3 DEF CopyEnd, Goto, Fail, Upload, writing
        <3> QED
            BY <2>1, <2>2, <3>1, StutterOrEnd
    <2>4. CASE GetFile \/ Open \/ AppendChunk \/ SavePreview
        <3>1. writing = None /\ writing' = None
            BY <1>0, <2>4 DEF GetFile, Open, AppendChunk, SavePreview, Goto, Fail,
                Upload, writing
        <3> QED
            BY <2>1, <2>2, <3>1, StutterOrEnd
    <2> QED
        BY <1>6, <2>3, <2>4
<1>7. CASE WriteAck \/ Crash
    <2>1. UNCHANGED <<stored, preAcks>> /\ writing' = None /\ acking' = {}
        BY <1>7 DEF WriteAck, Crash, NoUpload, writing, acking
    <2>2. writing = None \/ acking = {}
        BY DEF IInv, Request, writing, acking
    <2> QED
        BY <2>1, <2>2, StutterOrEnd
<1> QED
    BY <1>1, <1>2, <1>3, <1>4, <1>5, <1>6, <1>7 DEF Next

\* The file store implements the write-once store, for any number of contents,
\* paths and chunks, over database faults and crashes.
THEOREM StoreIsWriteOnce == Spec => StoreSpec
<1>1. Init => Store!Init
    BY DEF Init, NoUpload, Store!Init, Absent, Store!Absent
<1>2. IInv /\ Fresh /\ [Next]_vars => [Store!Next]_(Store!vars)
    <2>1. ASSUME UNCHANGED vars PROVE UNCHANGED Store!vars
        BY <2>1 DEF vars, stored, Store!vars
    <2> QED
        BY <2>1, StoreRefines
<1> QED
    BY <1>1, <1>2, StoreInvariant, FilesCreatedOnce, PTL DEF Spec, StoreSpec, Store!Spec
=============================================================================
