---------------------------- MODULE GraphSession ----------------------------
(***************************************************************************)
(* One Microsoft Graph session of a sync or of a connection test           *)
(* (graph_source.py over the library's SharePointClient): sign-in, site,   *)
(* library and folder, the paged breadth-first listing, the download of a  *)
(* file.  Every request goes through the same loop of one re-authentication*)
(* and a bounded number of Retry-After waits.  Meanwhile people move files *)
(* and folders about in the library.                                       *)
(*                                                                         *)
(* Names, paths and reasons are left out; a failure is its code.  A page   *)
(* of a folder's children holds one item.                                  *)
(***************************************************************************)
EXTENDS Naturals, FiniteSets, SequencesExt

CONSTANTS File,        \* files that match the extensions
          Folder,      \* folders, the source's own among them
          Root,        \* target.folder_id
          Outside,     \* anywhere else
          MAX_RETRIES,
          MaxFiles,    \* max_files
          MaxScanned,  \* _MAX_SCANNED_ITEMS
          MaxChunks,   \* max_bytes, in chunks
          MaxMoves     \* bound: moves while the session lasts

VARIABLES parent,  \* the library: item -> the folder it is in
          moved,   \* history: the items moved since the session began
          mode,    \* "sync", or "test" for test_connection
          late,    \* the test's time budget is used up
          step,    \* where the session is
          token,   \* a token is cached
          tries,   \* of the request under way
          list,    \* the listing
          file,    \* the download: chunks in dest.part and in dest, chunks there are
          outcome  \* what the session reports

vars == <<parent, moved, mode, late, step, token, tries, list, file, outcome>>
session == <<mode, late, step, token, tries, list, file, outcome>>

Item == File \cup (Folder \ {Root})
Steps == <<"credentials", "token", "site", "drive", "folder", "listing", "download">>
Codes == {"invalid_config", "auth_failed", "forbidden", "not_found", "throttled", "network",
          "graph_error", "too_large", "storage_error"}

FreshTries == [retries |-> 0, reauths |-> 0]

\* queue and seen as in _list; folder is the one being paged and shown its items so far.
NoListing == [queue |-> <<>>, seen |-> {Root}, folder |-> Root, shown |-> {}, files |-> {},
              scanned |-> 0, any |-> FALSE]

TypeOK ==
  /\ parent \in [Item -> Folder \cup {Outside}]
  /\ moved \subseteq Item
  /\ mode \in {"sync", "test"}
  /\ late \in BOOLEAN /\ (late => mode = "test")
  /\ step \in Range(Steps) \cup {"over"}
  /\ token \in BOOLEAN
  /\ tries \in [retries : 0..MAX_RETRIES, reauths : 0..1]
  /\ list.folder \in list.seen /\ list.seen \subseteq Folder
  /\ Range(list.queue) \subseteq list.seen \ {list.folder}
  /\ list.shown \subseteq Item /\ list.files \subseteq File
  /\ list.scanned \in 0..(MaxScanned + 1)
  /\ Cardinality(list.files) <= MaxFiles
  /\ file \in [part : 0..MaxChunks, dest : 0..MaxChunks, size : 0..(MaxChunks + 1)]
  /\ outcome \in [complete : BOOLEAN, error : Codes \cup {"none", "capped"}]

Init ==
  /\ parent \in [Item -> {Root} \cup Folder]
  /\ \A d \in Folder \ {Root} : parent[d] = Root
  /\ moved = {}
  /\ mode \in {"sync", "test"} /\ late = FALSE
  /\ step = "credentials"
  /\ token = FALSE
  /\ tries = FreshTries
  /\ list = NoListing
  /\ file = [part |-> 0, dest |-> 0, size |-> 0]
  /\ outcome = [complete |-> FALSE, error |-> "none"]

-----------------------------------------------------------------------------
(* How a step ends.                                                        *)

Go == step' = Steps[SelectInSeq(Steps, LAMBDA s : s = step) + 1]

\* The listing is over.  A sync goes on with the files it has, complete or not.
Listed(complete, error) ==
  /\ step' = IF mode = "sync" /\ list.files # {} THEN "download" ELSE "over"
  /\ outcome' = [complete |-> complete, error |-> error]

\* A failed request: it ends the session, but a listing that has listed something
\* returns what it has.
Fail(code) ==
  /\ IF step = "listing" /\ list.any
     THEN Listed(FALSE, code)
     ELSE step' = "over" /\ outcome' = [outcome EXCEPT !.error = code]
  /\ file' = [file EXCEPT !.part = 0]
  /\ tries' = FreshTries

\* test_connection starts no step past its budget.
Started == step \in {"listing", "download"} \/ ~late

OutOfTime ==
  /\ late /\ step \in {"credentials", "token", "site", "drive", "folder"}
  /\ tries = FreshTries
  /\ Fail("network")
  /\ UNCHANGED <<parent, moved, mode, late, token, list>>

-----------------------------------------------------------------------------
(* Sign-in and the request loop (_send).                                   *)

CheckReady ==
  /\ step = "credentials" /\ Started
  /\ \/ Go /\ UNCHANGED <<tries, file, outcome>>
     \/ Fail("invalid_config")
  /\ UNCHANGED <<parent, moved, mode, late, token, list>>

\* get_access_token: a cached token is used until a request drops it.
SignIn ==
  /\ step \notin {"credentials", "over"} /\ (Started \/ tries # FreshTries)
  /\ ~token
  /\ token' = TRUE
  /\ IF step = "token" THEN Go ELSE UNCHANGED step
  /\ UNCHANGED <<parent, moved, mode, late, tries, list, file, outcome>>

SignInFails ==
  /\ step \notin {"credentials", "over"} /\ (Started \/ tries # FreshTries)
  /\ ~token
  /\ \E code \in {"auth_failed", "throttled", "network"} : Fail(code)
  /\ UNCHANGED <<parent, moved, mode, late, token, list>>

\* A request is sent with the token; a download that has begun needs no more requests.
Asking ==
  /\ step \in {"site", "drive", "folder", "listing", "download"}
  /\ token
  /\ Started \/ tries # FreshTries
  /\ file.size = 0

\* Mutant: every 401 asks for another token.
UnauthorizedAlways ==
  /\ Asking
  /\ token' = FALSE
  /\ tries' = [tries EXCEPT !.reauths = 1]
  /\ UNCHANGED <<parent, moved, mode, late, step, list, file, outcome>>

\* A 401, once per request, drops the cached token and asks again.
Unauthorized ==
  /\ Asking
  /\ tries.reauths = 0
  /\ token' = FALSE
  /\ tries' = [tries EXCEPT !.reauths = 1]
  /\ UNCHANGED <<parent, moved, mode, late, step, list, file, outcome>>

\* A 429 or 503 waits, unless the wait runs past the test's deadline (_sleep).
Throttled ==
  /\ Asking
  /\ IF tries.retries < MAX_RETRIES
     THEN \/ /\ tries' = [tries EXCEPT !.retries = @ + 1]
             /\ UNCHANGED <<step, file, outcome>>
          \/ mode = "test" /\ Fail("throttled")
     ELSE Fail("throttled")
  /\ UNCHANGED <<parent, moved, mode, late, token, list>>

\* Any other answer or no answer, and a 401 to a fresh token (_failure).
Refused ==
  /\ Asking
  /\ \E code \in {"forbidden", "not_found", "network", "graph_error"} \cup
                 (IF tries.reauths = 1 THEN {"auth_failed"} ELSE {}) : Fail(code)
  /\ UNCHANGED <<parent, moved, mode, late, token, list>>

-----------------------------------------------------------------------------
(* The steps that answer.                                                  *)

\* resolve_site, get_drive, get_item_by_path.
Resolved ==
  /\ step \in {"site", "drive", "folder"} /\ Asking
  /\ Go
  /\ tries' = FreshTries
  /\ UNCHANGED <<parent, moved, mode, late, token, list, file, outcome>>

Children == {i \in Item : parent[i] = list.folder} \ list.shown

\* Mutant: a listing that was capped counts as the whole folder.
LookUntilCapped(i) ==
  LET looked == [list EXCEPT !.shown = @ \cup {i}, !.scanned = @ + 1, !.any = TRUE]
  IN IF looked.scanned > MaxScanned \/ (i \in File /\ Cardinality(list.files) >= MaxFiles)
     THEN Listed(TRUE, "none") /\ list' = looked
     ELSE /\ list' = IF i \in File THEN [looked EXCEPT !.files = @ \cup {i}]
                     ELSE IF i \in list.seen THEN looked
                     ELSE [looked EXCEPT !.seen = @ \cup {i}, !.queue = Append(@, i)]
          /\ UNCHANGED <<step, outcome>>

\* _list on one more item of the folder.
Look(i) ==
  LET looked == [list EXCEPT !.shown = @ \cup {i}, !.scanned = @ + 1, !.any = TRUE]
  IN IF looked.scanned > MaxScanned \/ (i \in File /\ Cardinality(list.files) >= MaxFiles)
     THEN Listed(FALSE, "capped") /\ list' = looked
     ELSE /\ list' = IF i \in File THEN [looked EXCEPT !.files = @ \cup {i}]
                     ELSE IF i \in list.seen THEN looked
                     ELSE [looked EXCEPT !.seen = @ \cup {i}, !.queue = Append(@, i)]
          /\ UNCHANGED <<step, outcome>>

\* The folder has no more pages: the next one of the queue, or the end.
NextFolder ==
  IF list.queue = <<>>
  THEN Listed(TRUE, "none") /\ list' = [list EXCEPT !.any = TRUE]
  ELSE /\ list' = [list EXCEPT !.queue = Tail(@), !.folder = Head(list.queue),
                               !.shown = {}, !.any = TRUE]
       /\ UNCHANGED <<step, outcome>>

Page ==
  /\ step = "listing" /\ Asking
  /\ IF Children = {} THEN NextFolder ELSE \E i \in Children : Look(i)
  /\ tries' = FreshTries
  /\ UNCHANGED <<parent, moved, mode, late, token, file>>

\* The listing of a test has a deadline of its own, looked at with each item.
TimeLimit ==
  /\ step = "listing" /\ late /\ list.any
  /\ Listed(FALSE, "capped")
  /\ UNCHANGED <<parent, moved, mode, late, token, tries, list, file>>

\* download_to: the stream opens, and what comes may be larger than the listing said.
Open ==
  /\ step = "download" /\ Asking
  /\ \E size \in 1..(MaxChunks + 1) : file' = [file EXCEPT !.size = size]
  /\ tries' = FreshTries
  /\ UNCHANGED <<parent, moved, mode, late, step, token, list, outcome>>

Chunk ==
  /\ step = "download" /\ file.part < file.size
  /\ IF file.part < MaxChunks
     THEN /\ file' = [file EXCEPT !.part = @ + 1]
          /\ UNCHANGED <<step, tries, outcome>>
     ELSE Fail("too_large")
  /\ UNCHANGED <<parent, moved, mode, late, token, list>>

StreamBreaks ==
  /\ step = "download" /\ file.size > 0
  /\ \E code \in {"network", "storage_error"} : Fail(code)
  /\ UNCHANGED <<parent, moved, mode, late, token, list>>

\* Mutant: what arrived before the stream broke or grew too large is kept.
KeepWhatCame ==
  /\ step = "download" /\ file.size > 0
  /\ file' = [file EXCEPT !.part = 0, !.dest = file.part]
  /\ step' = "over"
  /\ UNCHANGED <<parent, moved, mode, late, token, tries, list, outcome>>

\* os.replace.
Rename ==
  /\ step = "download" /\ file.size > 0 /\ file.part = file.size
  /\ file' = [file EXCEPT !.part = 0, !.dest = file.part]
  /\ step' = "over"
  /\ UNCHANGED <<parent, moved, mode, late, token, tries, list, outcome>>

-----------------------------------------------------------------------------
\* Somebody moves an item.  Bound: MaxMoves items, each once.
Move(i, to) ==
  /\ step # "over"
  /\ i \notin moved /\ Cardinality(moved) < MaxMoves
  /\ to # parent[i] /\ (i \in Folder => to \in {Root, Outside})
  /\ parent' = [parent EXCEPT ![i] = to]
  /\ moved' = moved \cup {i}
  /\ UNCHANGED session

TimePasses ==
  /\ mode = "test" /\ ~late /\ step # "over"
  /\ late' = TRUE
  /\ UNCHANGED <<parent, moved, mode, step, token, tries, list, file, outcome>>

SessionStep ==
  \/ OutOfTime \/ CheckReady \/ SignIn \/ SignInFails
  \/ Unauthorized \/ Throttled \/ Refused
  \/ Resolved \/ Page \/ TimeLimit
  \/ Open \/ Chunk \/ StreamBreaks \/ Rename

Next == SessionStep \/ TimePasses \/ \E i \in Item, to \in Folder \cup {Outside} : Move(i, to)

Spec == Init /\ [][Next]_vars /\ WF_vars(SessionStep)

-----------------------------------------------------------------------------
(* Properties.                                                             *)

\* Inside the source's folder the whole time, as were its folders.
Untouched(f) == f \notin moved /\ (parent[f] = Root \/ (parent[f] \in Folder /\ parent[f] \notin moved))

\* A listing that calls itself complete has every such file, whatever was moved
\* between its pages: the sync withdraws the files a complete listing lacks.
CompleteListsUntouched ==
  outcome.complete => \A f \in File : Untouched(f) => f \in list.files

\* A downloaded file is whole and nothing is left beside it.
DownloadsAreWhole ==
  /\ file.dest \in {0, file.size}
  /\ step = "over" => file.part = 0

SessionIsOver == step = "over"

\* However Graph answers, every session comes to an end.
SessionEnds == <>SessionIsOver
=============================================================================
