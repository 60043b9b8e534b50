------------------------------ MODULE Uploads -------------------------------
(* The files of an upload (doc_intel/storage.py, KbImportService.upload): each *)
(* is streamed into a part file of a directory of its own, checked, renamed    *)
(* and then registered.  The file work is done by threads that go on when the  *)
(* request that waits for them is cancelled.  Names and the reasons of a       *)
(* rejection are left out.                                                     *)
EXTENDS Naturals

CONSTANTS Upload,
          MaxSize, \* max_upload_bytes, in pieces
          Gone     \* no such file

VARIABLES content,  \* what the client has: its pieces, whether it is a real PDF or DOCX
          request, thread, disk,
          document  \* what the registry says

uploadVars == <<content, request, thread, disk, document>>

\* Where a request waits for a thread.
Works == {"open", "write", "finish", "validate", "commit"}
NoDir == [dir |-> FALSE, part |-> Gone, original |-> Gone]

UploadTypeOK ==
  /\ content \in [Upload -> [size : 0..(MaxSize + 1), valid : BOOLEAN, declared : BOOLEAN]]
  /\ \A u \in Upload :
       /\ request[u].at \in Works \cup {"idle", "read", "duplicate", "insert", "reject", "over"}
       /\ request[u].size \in 0..(MaxSize + 1)
       /\ thread[u] \in Works \cup {"none"}
       /\ {disk[u].part, disk[u].original} \subseteq 0..MaxSize \cup {Gone}
  /\ document \in [Upload -> {"none", "QUEUED", "FAILED"}]

UploadInit ==
  /\ content \in [Upload -> [size : 0..(MaxSize + 1), valid : BOOLEAN, declared : BOOLEAN]]
  /\ request = [u \in Upload |-> [at |-> "idle", size |-> 0]]
  /\ thread = [u \in Upload |-> "none"]
  /\ disk = [u \in Upload |-> NoDir]
  /\ document = [u \in Upload |-> "none"]

At(u, place) == request[u].at = place
GoTo(u, place) == request' = [request EXCEPT ![u].at = place]
GiveTo(u, work) == GoTo(u, work) /\ thread' = [thread EXCEPT ![u] = work]
Answered(u) == request' = [request EXCEPT ![u] = [at |-> "over", size |-> 0]]

\* remove_document_dir; a file the thread may still make keeps the directory.
Removed(u) == disk' = [disk EXCEPT ![u] = NoDir]

\* UploadRejected: _discard and _remove_dir, then the row of a rejected file.
Rejects(u) ==
  /\ GoTo(u, "reject")
  /\ Removed(u)
  /\ UNCHANGED <<content, thread, document>>

-----------------------------------------------------------------------------
(* The request (_store_one, save_upload).                                  *)

\* A type that is not accepted, or a size the client itself declares, needs no part file.
Begin(u) ==
  /\ At(u, "idle")
  /\ IF content[u].declared /\ content[u].size > MaxSize
     THEN GoTo(u, "reject") /\ UNCHANGED <<thread, disk>>
     ELSE GiveTo(u, "open") /\ disk' = [disk EXCEPT ![u].dir = TRUE]  \* new_document_dir
  /\ UNCHANGED <<content, document>>

\* The directory cannot be made.
NoDirectory(u) ==
  /\ At(u, "idle")
  /\ GoTo(u, "reject")
  /\ UNCHANGED <<content, thread, disk, document>>

\* A piece arrives, is counted and given to the thread.
Piece(u) ==
  /\ At(u, "read") /\ request[u].size < content[u].size /\ request[u].size < MaxSize
  /\ request' = [request EXCEPT ![u] = [at |-> "write", size |-> @.size + 1]]
  /\ thread' = [thread EXCEPT ![u] = "write"]
  /\ UNCHANGED <<content, disk, document>>

\* _too_large, while it is streamed.
TooLarge(u) ==
  /\ At(u, "read") /\ request[u].size = MaxSize /\ content[u].size > MaxSize
  /\ Rejects(u)

\* Mutant: a client that goes away is taken for the end of its file.
CutOff(u) ==
  /\ At(u, "read")
  /\ GiveTo(u, "finish")
  /\ UNCHANGED <<content, disk, document>>

EndOfFile(u) ==
  /\ At(u, "read") /\ request[u].size = content[u].size
  /\ GiveTo(u, "finish")
  /\ UNCHANGED <<content, disk, document>>

\* An empty file, or one that detect_kind or _validate_docx refuses.
Invalid(u) ==
  /\ At(u, "validate") /\ thread[u] = "none"
  /\ request[u].size = 0 \/ ~content[u].valid
  /\ Rejects(u)

Valid(u) ==
  /\ At(u, "validate") /\ thread[u] = "none" /\ request[u].size > 0 /\ content[u].valid
  /\ GiveTo(u, "commit")
  /\ UNCHANGED <<content, disk, document>>

\* The same file is there already (find_active_duplicate).
Duplicate(u) ==
  /\ At(u, "duplicate")
  /\ Rejects(u)

NoDuplicate(u) ==
  /\ At(u, "duplicate")
  /\ GoTo(u, "insert")
  /\ UNCHANGED <<content, thread, disk, document>>

Insert(u) ==
  /\ At(u, "insert")
  /\ document' = [document EXCEPT ![u] = "QUEUED"]
  /\ Answered(u)
  /\ UNCHANGED <<content, thread, disk>>

\* _insert_rejected.
InsertRejected(u) ==
  /\ At(u, "reject")
  /\ document' = [document EXCEPT ![u] = "FAILED"]
  /\ Answered(u)
  /\ UNCHANGED <<content, thread, disk>>

\* The client goes away, the server stops, or the registry does not answer: the directory is
\* removed.  A row whose INSERT was cut off may be there all the same, and a thread at work
\* goes on.
Cancel(u) ==
  /\ request[u].at \notin {"idle", "over"}
  /\ Answered(u)
  /\ Removed(u)
  /\ document' \in IF At(u, "insert") THEN {document, [document EXCEPT ![u] = "QUEUED"]} ELSE {document}
  /\ UNCHANGED <<content, thread>>

-----------------------------------------------------------------------------
(* The thread.                                                             *)

\* It tells the request, if that still waits.
Tell(u, place) ==
  /\ thread' = [thread EXCEPT ![u] = "none"]
  /\ IF At(u, thread[u]) THEN GoTo(u, place) ELSE UNCHANGED request
  /\ UNCHANGED <<content, document>>

\* _open_part, in a directory that is there.
OpenPart(u) ==
  /\ thread[u] = "open" /\ disk[u].dir
  /\ disk' = [disk EXCEPT ![u].part = 0]
  /\ Tell(u, "read")

\* _write_chunk.
WriteChunk(u) ==
  /\ thread[u] = "write" /\ disk[u].part # Gone
  /\ disk' = [disk EXCEPT ![u].part = @ + 1]
  /\ Tell(u, "read")

\* _finish_part, and the head of the file is looked at.
FinishPart(u) ==
  /\ thread[u] = "finish" /\ disk[u].part # Gone
  /\ UNCHANGED disk
  /\ Tell(u, "validate")

\* _commit: os.replace.
Commit(u) ==
  /\ thread[u] = "commit" /\ disk[u].part # Gone
  /\ disk' = [disk EXCEPT ![u].original = disk[u].part, ![u].part = Gone]
  /\ Tell(u, "duplicate")

\* What it works on is gone, or the disk refuses: its request, if it waits, rejects the file.
ThreadFails(u) ==
  /\ thread[u] # "none"
  /\ thread' = [thread EXCEPT ![u] = "none"]
  /\ IF At(u, thread[u]) THEN GoTo(u, "reject") /\ Removed(u) ELSE UNCHANGED <<request, disk>>
  /\ UNCHANGED <<content, document>>

ThreadStep(u) == OpenPart(u) \/ WriteChunk(u) \/ FinishPart(u) \/ Commit(u) \/ ThreadFails(u)

UploadStep(u) ==
  \/ Piece(u) \/ TooLarge(u) \/ EndOfFile(u) \/ Invalid(u) \/ Valid(u) \/ Duplicate(u) \/ NoDuplicate(u)
  \/ Insert(u) \/ InsertRejected(u) \/ ThreadStep(u)

UploadNext == \E u \in Upload : Begin(u) \/ NoDirectory(u) \/ Cancel(u) \/ UploadStep(u)

UploadSpec == UploadInit /\ [][UploadNext]_uploadVars /\ \A u \in Upload : WF_uploadVars(UploadStep(u))

-----------------------------------------------------------------------------
(* Properties.                                                             *)

\* An original is a whole, accepted file, wherever its request was cancelled and however long
\* a thread went on; a rejected upload leaves no file (save_upload: "leaves no partial file
\* behind").
UploadsAreWhole ==
  \A u \in Upload :
    /\ disk[u].original # Gone
         => disk[u].original = content[u].size /\ content[u].valid /\ content[u].size \in 1..MaxSize
    /\ document[u] = "FAILED" => disk[u] = NoDir

UploadIsOver(u) == At(u, "idle") \/ At(u, "over")

\* Every upload is answered.
UploadsEnd == \A u \in Upload : []<>UploadIsOver(u)
=============================================================================
