----------------------------- MODULE WriteOnce ------------------------------
(***************************************************************************)
(* What the users of the file store may rely on, without requests, faults  *)
(* or crashes: the file of a content is recorded once, written once, from  *)
(* its beginning, and never again; a path is linked only to a file that is *)
(* recorded and no longer being written; and an upload is acknowledged in  *)
(* the very step that links its path.  How much of a file is written is    *)
(* not promised.  FileStore implements it (FileStore!StoreSpec, proved in  *)
(* FileStoreProofs).                                                       *)
(***************************************************************************)
EXTENDS Integers

CONSTANTS Key, Path, None

Absent == -1

VARIABLES
    known,     \* contents with a record
    writing,   \* the content whose file is being written, or None
    content,   \* content[k]: chunks in the file of k, Absent when no file
    link,      \* link[p]: the content path p is linked to, or None
    acking,    \* <<path, content>> of the upload about to be acknowledged
    promised   \* <<path, content>> acknowledged without an upload

vars == <<known, writing, content, link, acking, promised>>

Init ==
    /\ known = {} /\ writing = None
    /\ content = [k \in Key |-> Absent]
    /\ link = [p \in Path |-> None]
    /\ acking = {} /\ promised = {}

\* A content that has neither record nor file gets its record.
Record(k) ==
    /\ k \notin known /\ content[k] = Absent /\ writing = None
    /\ known' = known \cup {k} /\ writing' = k
    /\ UNCHANGED <<content, link, acking, promised>>

\* The file is created, or grows.
Write ==
    /\ writing # None
    /\ content' = [content EXCEPT ![writing] = @ + 1]
    /\ UNCHANGED <<known, writing, link, acking, promised>>

\* The file is as it will be for ever, whether or not it is complete.
Seal ==
    /\ writing # None /\ writing' = None
    /\ UNCHANGED <<known, content, link, acking, promised>>

\* A path is linked to a sealed file, and that is what will be acknowledged.
Link(p, k) ==
    /\ k \in known /\ k # writing /\ acking = {}
    /\ link' = [link EXCEPT ![p] = k] /\ acking' = {<<p, k>>}
    /\ UNCHANGED <<known, writing, content, promised>>

\* The acknowledgement is written, or lost.
Ack ==
    /\ acking # {} /\ acking' = {}
    /\ UNCHANGED <<known, writing, content, link, promised>>

\* A content is there already; the path asked for is not linked.
Promise(p, k) ==
    /\ k \in known /\ promised' = promised \cup {<<p, k>>}
    /\ UNCHANGED <<known, writing, content, link, acking>>

Next ==
    \/ Write \/ Seal \/ Ack
    \/ \E k \in Key : Record(k)
    \/ \E p \in Path, k \in Key : Link(p, k) \/ Promise(p, k)

Spec == Init /\ [][Next]_vars
=============================================================================
