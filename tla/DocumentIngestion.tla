------------------------- MODULE DocumentIngestion -------------------------
(***************************************************************************)
(* janasunani-ingest-documents (janasunani/ingestion): a run selects the   *)
(* complaints whose document is neither downloaded nor known to fail,      *)
(* downloads them chunk by chunk, many at a time, and writes what became   *)
(* of each chunk back to the complaints in one UPDATE.                     *)
(*                                                                         *)
(* Abstracted: a file's name is the second it was made in (the ticket and  *)
(* the type are those of the complaint), its content is whole or not.      *)
(***************************************************************************)
EXTENDS Naturals, FiniteSets

CONSTANTS
    Complaints,  \* complaints with a document_url
    Linked,      \* those whose URL is http or https
    Runs,        \* processes that run the command, again and again
    ChunkSize,   \* chunk_size; below batch_size, which then never cuts in
    Slots,       \* Semaphore(15)
    MaxRetries,  \* MAX_RETRIES
    Seconds,     \* what the timestamp of a name may be
    MaxRuns      \* bound: how often the command is run

ASSUME ComplaintsAssumption == Linked \subseteq Complaints
ASSUME SizesAssumption == /\ ChunkSize \in Nat \ {0} /\ Slots \in Nat \ {0}
                          /\ MaxRetries \in Nat \ {0} /\ MaxRuns \in Nat
ASSUME SecondsAssumption == Seconds \subseteq Nat \ {0}

VARIABLES
    local,       \* ENV is one of LOCAL_ENVS: files on disk, else objects in S3
    files,       \* files[c]: the names there are
    whole,       \* those of files with all their bytes
    row,         \* the document-status columns of the complaint
    (* each run *)
    phase,
    todo,        \* complaints of the chunks to come
    step,        \* what the coroutine of each complaint of the chunk does
    tries,       \* calls of download_document that met a 429
    copy,        \* the name it gives the file, 0 for none
    (* observation *)
    started,     \* runs so far
    overlapped,  \* two runs have been at work at the same time
    blind,       \* complaints whose files could not be listed
    reopened     \* reopened[c]: names opened on disk though they were there

store   == <<files, whole>>
task    == <<step, tries, copy>>
process == <<phase, todo, task>>
seen    == <<started, overlapped, blind, reopened>>
vars    == <<local, store, row, process, seen>>

Results == {"success", "skipped", "failed"}
NoRow   == [downloaded |-> FALSE, path |-> 0, error |-> FALSE]

(* The chunk at work. *)
Chunk(r) == {c \in Complaints : step[r][c] # "out"}

Init ==
    /\ local \in BOOLEAN
    /\ files = [c \in Complaints |-> {}] /\ whole = [c \in Complaints |-> {}]
    /\ row = [c \in Complaints |-> NoRow]
    /\ phase = [r \in Runs |-> "idle"] /\ todo = [r \in Runs |-> {}]
    /\ step = [r \in Runs |-> [c \in Complaints |-> "out"]]
    /\ tries = [r \in Runs |-> [c \in Complaints |-> 0]]
    /\ copy = [r \in Runs |-> [c \in Complaints |-> 0]]
    /\ started = 0 /\ overlapped = FALSE /\ blind = {} /\ reopened = [c \in Complaints |-> {}]

-----------------------------------------------------------------------------
(* A run *)

(* Mutant: what is downloaded is selected again. *)
PendingAgain == {c \in Complaints : ~row[c].error}

(* get_complaints_without_documents *)
Pending == {c \in Complaints : ~row[c].downloaded /\ ~row[c].error}

Select(r) ==
    /\ phase[r] # "working" /\ started < MaxRuns
    /\ phase' = [phase EXCEPT ![r] = "working"] /\ todo' = [todo EXCEPT ![r] = Pending]
    /\ started' = started + 1
    /\ overlapped' = (overlapped \/ \E q \in Runs : phase[q] = "working")
    /\ UNCHANGED <<local, store, row, task, blind, reopened>>

(* chunked; the order of the rows is the database's. *)
NextChunk(r) ==
    /\ phase[r] = "working" /\ Chunk(r) = {} /\ todo[r] # {}
    /\ \E cs \in SUBSET todo[r] :
         /\ cs # {} /\ Cardinality(cs) <= ChunkSize /\ (Cardinality(cs) = ChunkSize \/ cs = todo[r])
         /\ todo' = [todo EXCEPT ![r] = @ \ cs]
         /\ step' = [step EXCEPT ![r] = [c \in Complaints |-> IF c \in cs THEN "waiting" ELSE "out"]]
    /\ UNCHANGED <<local, store, row, phase, tries, copy, seen>>

(* What the UPDATE writes of a complaint. *)
Status(r, c) == [downloaded |-> step[r][c] = "success",
                 path |-> IF step[r][c] = "success" THEN copy[r][c] ELSE 0,
                 error |-> step[r][c] = "failed"]

(* The coroutines are gone. *)
Idle(r) ==
    /\ step' = [step EXCEPT ![r] = [c \in Complaints |-> "out"]]
    /\ tries' = [tries EXCEPT ![r] = [c \in Complaints |-> 0]]
    /\ copy' = [copy EXCEPT ![r] = [c \in Complaints |-> 0]]

(* _bulk_update_document_status when the last of the chunk is done; if it  *)
(* fails, the run ends.                                                    *)
Flush(r) ==
    /\ phase[r] = "working" /\ Chunk(r) # {} /\ \A c \in Chunk(r) : step[r][c] \in Results
    /\ \/ row' = [c \in Complaints |-> IF c \in Chunk(r) THEN Status(r, c) ELSE row[c]] /\ UNCHANGED <<phase, todo>>
       \/ phase' = [phase EXCEPT ![r] = "idle"] /\ todo' = [todo EXCEPT ![r] = {}] /\ UNCHANGED row
    /\ Idle(r)
    /\ UNCHANGED <<local, store, seen>>

End(r) ==
    /\ phase[r] = "working" /\ Chunk(r) = {} /\ todo[r] = {}
    /\ phase' = [phase EXCEPT ![r] = "ended"]
    /\ UNCHANGED <<local, store, row, todo, task, seen>>

Crash(r) ==
    /\ phase[r] = "working"
    /\ phase' = [phase EXCEPT ![r] = "idle"] /\ todo' = [todo EXCEPT ![r] = {}] /\ Idle(r)
    /\ UNCHANGED <<local, store, row, seen>>

-----------------------------------------------------------------------------
(* download_document, one coroutine for each complaint of the chunk *)

Goes(r, c, to) == step' = [step EXCEPT ![r][c] = to]

(* _filename: the second it is, which may be that of another run's name;   *)
(* nothing is assumed of the clock.                                        *)
Names(r, c) == \E n \in Seconds : copy' = [copy EXCEPT ![r][c] = n]

(* Mutant: the file is looked for under its full name, timestamp included. *)
CheckTimestamp(r, c) ==
    /\ step[r][c] = "waiting"
    /\ \/ c \notin Linked /\ Goes(r, c, "skipped") /\ UNCHANGED copy
       \/ c \in Linked /\ Goes(r, c, "asking") /\ Names(r, c)
    /\ UNCHANGED <<local, store, row, phase, todo, tries, seen>>

(* _already_downloaded, which takes any timestamp; a listing that fails in *)
(* S3 is an empty one.                                                     *)
Check(r, c) ==
    /\ step[r][c] = "waiting"
    /\ \/ (c \notin Linked \/ files[c] # {}) /\ Goes(r, c, "skipped") /\ UNCHANGED <<copy, blind>>
       \/ c \in Linked /\ files[c] = {} /\ Goes(r, c, "asking") /\ Names(r, c) /\ UNCHANGED blind
       \/ ~local /\ c \in Linked /\ Goes(r, c, "asking") /\ Names(r, c) /\ blind' = blind \cup {c}
    /\ UNCHANGED <<local, store, row, phase, todo, tries, started, overlapped, reopened>>

(* The semaphore. *)
Get(r, c) ==
    /\ step[r][c] = "asking"
    /\ Cardinality({d \in Complaints : step[r][d] \in {"getting", "writing"}}) < Slots
    /\ Goes(r, c, "getting")
    /\ UNCHANGED <<local, store, row, phase, todo, tries, copy, seen>>

(* Mutant: the loop of with_retry runs once more. *)
TooManyByOne(r, c) ==
    /\ step[r][c] = "getting"
    /\ tries' = [tries EXCEPT ![r][c] = @ + 1]
    /\ Goes(r, c, IF tries[r][c] + 1 <= MaxRetries THEN "waiting" ELSE "failed")
    /\ UNCHANGED <<local, store, row, phase, todo, copy, seen>>

(* Mutant: without raise_on_failure with_retry returns None, as for a file  *)
(* that is there.                                                           *)
TooManyReturning(r, c) ==
    /\ step[r][c] = "getting"
    /\ tries' = [tries EXCEPT ![r][c] = @ + 1]
    /\ Goes(r, c, IF tries[r][c] + 1 < MaxRetries THEN "waiting" ELSE "skipped")
    /\ UNCHANGED <<local, store, row, phase, todo, copy, seen>>

(* Mutant: it is tried again without end. *)
TooManyForEver(r, c) ==
    /\ step[r][c] = "getting" /\ Goes(r, c, "waiting")
    /\ UNCHANGED <<local, store, row, phase, todo, tries, copy, seen>>

(* 429: with_retry sleeps and calls download_document again, up to a limit. *)
TooMany(r, c) ==
    /\ step[r][c] = "getting"
    /\ tries' = [tries EXCEPT ![r][c] = @ + 1]
    /\ Goes(r, c, IF tries[r][c] + 1 < MaxRetries THEN "waiting" ELSE "failed")
    /\ UNCHANGED <<local, store, row, phase, todo, copy, seen>>

(* Any other error is final. *)
GetFails(r, c) ==
    /\ step[r][c] = "getting" /\ Goes(r, c, "failed")
    /\ UNCHANGED <<local, store, row, phase, todo, tries, copy, seen>>

(* There is a file of that name; it has all its bytes. *)
Adds(r, c)  == files' = [files EXCEPT ![c] = @ \cup {copy[r][c]}]
Fills(r, c) == whole' = [whole EXCEPT ![c] = @ \cup {copy[r][c]}]

(* upload_fileobj: the object is there as a whole or not at all, and what  *)
(* the call returns need not say which.                                    *)
Upload(r, c) ==
    /\ ~local /\ step[r][c] = "getting" /\ Adds(r, c) /\ Fills(r, c)
    /\ Goes(r, c, "success") \/ Goes(r, c, "failed")
    /\ UNCHANGED <<local, row, phase, todo, tries, copy, seen>>

(* Mutant: the download counts once the file is open. *)
OpenDone(r, c) ==
    /\ local /\ step[r][c] = "getting" /\ Adds(r, c) /\ Goes(r, c, "success")
    /\ UNCHANGED <<local, whole, row, phase, todo, tries, copy, seen>>

(* aiofiles.open(stored, "wb") makes the file, or empties one of that name *)
(* that another run has stored since the check,                            *)
Open(r, c) ==
    /\ local /\ step[r][c] = "getting" /\ Adds(r, c) /\ Goes(r, c, "writing")
    /\ whole' = [whole EXCEPT ![c] = @ \ {copy[r][c]}]
    /\ reopened' = [reopened EXCEPT ![c] = @ \cup (files[c] \cap {copy[r][c]})]
    /\ UNCHANGED <<local, row, phase, todo, tries, copy, started, overlapped, blind>>

(* f.write(content) fills it, or fails. *)
Write(r, c) ==
    /\ step[r][c] = "writing"
    /\ \/ Fills(r, c) /\ Goes(r, c, "success")
       \/ UNCHANGED whole /\ Goes(r, c, "failed")
    /\ UNCHANGED <<local, files, row, phase, todo, tries, copy, seen>>

-----------------------------------------------------------------------------
Download(r) ==
    \E c \in Complaints :
       \/ Check(r, c) \/ Get(r, c) \/ TooMany(r, c) \/ GetFails(r, c)
       \/ Upload(r, c) \/ Open(r, c) \/ Write(r, c)

Proceed(r) == NextChunk(r) \/ Download(r) \/ Flush(r) \/ End(r)

Next == \E r \in Runs : Select(r) \/ Proceed(r) \/ Crash(r)

(* The event loop runs on, and httpx ends a request it hears nothing of. *)
Spec == Init /\ [][Next]_vars /\ \A r \in Runs : WF_vars(Proceed(r))

-----------------------------------------------------------------------------
(* Properties *)

Steps == {"out", "waiting", "asking", "getting", "writing"} \cup Results

StoreTypeOK ==
    /\ files \in [Complaints -> SUBSET Seconds] /\ whole \in [Complaints -> SUBSET Seconds]
    /\ row \in [Complaints -> [downloaded : BOOLEAN, path : Seconds \cup {0}, error : BOOLEAN]]

TasksTypeOK ==
    /\ step \in [Runs -> [Complaints -> Steps]] /\ copy \in [Runs -> [Complaints -> Seconds \cup {0}]]
    /\ tries \in [Runs -> [Complaints -> 0..MaxRetries]]

TypeOK ==
    /\ local \in BOOLEAN /\ StoreTypeOK /\ TasksTypeOK
    /\ phase \in [Runs -> {"idle", "working", "ended"}] /\ todo \in [Runs -> SUBSET Complaints]
    /\ started \in 0..MaxRuns /\ overlapped \in BOOLEAN /\ blind \subseteq Complaints
    /\ reopened \in [Complaints -> SUBSET Seconds]

\* A complaint recorded as downloaded has, at the path recorded, a file with
\* all its bytes, although the row is written long after the file - unless a
\* run at work at the same time, whose name is of the same second, has opened
\* the file again: runs one after another never do.
RecordedIsStored ==
    \A c \in Complaints :
       /\ row[c].downloaded => row[c].path \in whole[c] \cup reopened[c]
       /\ reopened[c] # {} => overlapped

\* "Failed uploads are recorded, not silently skipped": when a run has come to
\* its end, a complaint with a link has its download recorded, or its failure,
\* or there is a file that made the run skip it.
NothingSkippedSilently ==
    \A r \in Runs : phase[r] = "ended" =>
       \A c \in Linked : row[c].downloaded \/ row[c].error \/ files[c] # {}

\* Runs one after another, however they end, keep one file of a complaint,
\* as long as the files can be listed.
OneCopy == ~overlapped => \A c \in Complaints \ blind : Cardinality(files[c]) <= 1

\* What runs one after another have recorded as downloaded stays recorded.
DownloadedIsFinal ==
    [][~overlapped' => \A c \in Complaints : row[c].downloaded => row'[c] = row[c]]_vars

\* A run ends, whatever it is answered.
RunsEnd == \A r \in Runs : phase[r] = "working" ~> phase[r] # "working"

\* "Record the download status back into the OLTP store": when a run has come
\* to its end, the row of a document that is stored says what became of it.
StoredIsRecorded ==
    \A r \in Runs : phase[r] = "ended" /\ ~overlapped =>
       \A c \in Complaints : whole[c] # {} => row[c].downloaded \/ row[c].error
=============================================================================
