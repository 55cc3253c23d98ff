-------------------------- MODULE ArtifactPipeline --------------------------
(***************************************************************************)
(* The document pipeline: six stages that communicate through the SQLite   *)
(* artifact database (pipeline/db.py) and nothing else.  Each stage loads  *)
(* the rows that lack its own column, works on that snapshot and writes    *)
(* back in batches, so a process that is killed loses its buffers and the  *)
(* next run of the stage selects what is still missing.                    *)
(*                                                                         *)
(* A process runs one stage after another (run_pipeline; it may be         *)
(* stopped and started with other --stages at any time).  Processes may    *)
(* overlap; OCR processes share the work by --worker-id / --num-workers.   *)
(*                                                                         *)
(* Abstracted: what the models compute.  The label of a page (English,     *)
(* Letter) is a property of the page; OCR returns any text.  Rows for      *)
(* page 0 (a file that does not open) are read by no stage and left out.   *)
(***************************************************************************)
EXTENDS Naturals, FiniteSets

CONSTANTS
    NumPages,        \* the pages of all input files, numbered in the order
    DocOf,           \* of (doc_id, page_number); DocOf[p] is the file of p
    English,         \* pages whose language label contains "English"
    Letter,          \* pages whose page type is of class 1
    Texts,           \* what OCR can return
    Blank,           \* the empty text among them
    NoText,          \* NULL
    Processes,
    Selected,        \* the --stages process m is started with
    NumWorkers,      \* --num-workers of the OCR stage
    BatchSize,       \* DB_BATCH_SIZE
    MaxConsecutive   \* MAX_CONSECUTIVE_FAILURES

Pages == 1..NumPages
Docs  == {DocOf[p] : p \in Pages}

Stages == {"format_classifier", "ocr_extraction", "pii_tagger",
           "page_type_classifier", "summarizer", "categorizer"}

ASSUME PagesAssumption ==
    /\ NumPages \in Nat /\ DocOf \in [Pages -> Nat]
    /\ \A p, q \in Pages : p < q => DocOf[p] <= DocOf[q]
ASSUME LimitsAssumption ==
    NumWorkers \in Nat \ {0} /\ BatchSize \in Nat \ {0} /\ MaxConsecutive \in Nat \ {0}
ASSUME LabelsAssumption == English \subseteq Pages /\ Letter \subseteq Pages
ASSUME SelectedAssumption == Selected \in [Processes -> SUBSET Stages]
ASSUME TextsAssumption == Blank \in Texts /\ NoText \notin Texts

VARIABLES
    (* the artifact database *)
    classified,   \* pages with a row in `pages`
    unformatted,  \* unreadable_pages rows of stage format_classifier
    unread,       \* unreadable_pages rows of stage ocr_extraction
    text,         \* pages.extracted_text
    redacted,     \* pages.redacted_text, as the text it is a redaction of
    typed,        \* pages with page_type and page_type_class
    documents,    \* rows of `documents`
    grievances,   \* documents.grievance is filled in
    summary,      \* documents.summary: {} for NULL or a blank text, or {the
    category,     \* redactions it was made from}; grievance_category likewise
    (* each process *)
    stage,        \* the stage it is in
    shard,        \* its --worker-id
    todo,         \* pages of the loaded work list not yet taken
    batch,        \* texts it holds: OCR results, a tagger batch, a snapshot
    done,         \* pages it need not look at, or whose result is buffered
    failed,       \* buffered failures
    (* observation *)
    waiting, ran  \* pages some OCR shard found pending; the shards that ended

pageRows == <<classified, unformatted, unread, text, redacted, typed>>
docRows  == <<documents, grievances, summary, category>>
process  == <<stage, shard, todo, batch, done, failed>>
shards   == <<waiting, ran>>
vars     == <<pageRows, docRows, process, shards>>

Least(S) == CHOOSE p \in S : \A q \in S : p <= q
First(S, n) == {p \in S : Cardinality({q \in S : q < p}) < n}
PagesOf(d) == {p \in Pages : DocOf[p] = d}
Held(m) == {r.page : r \in batch[m]}

(* executemany of UPDATE pages SET column = ... over a batch. *)
Updated(column, rows) ==
    [p \in Pages |-> IF \E r \in rows : r.page = p
                     THEN (CHOOSE r \in rows : r.page = p).text ELSE column[p]]

Init ==
    /\ classified = {} /\ unformatted = {} /\ unread = {} /\ typed = {}
    /\ text = [p \in Pages |-> NoText] /\ redacted = [p \in Pages |-> NoText]
    /\ documents = {} /\ grievances = {} /\ summary = [d \in Docs |-> {}] /\ category = [d \in Docs |-> {}]
    /\ stage = [m \in Processes |-> "idle"] /\ shard = [m \in Processes |-> 0]
    /\ todo = [m \in Processes |-> {}] /\ batch = [m \in Processes |-> {}]
    /\ done = [m \in Processes |-> {}] /\ failed = [m \in Processes |-> {}]
    /\ waiting = {} /\ ran = {}

(* A process enters a stage with what it has loaded ... *)
Enter(m, s, work, snapshot, known) ==
    /\ stage[m] = "idle" /\ s \in Selected[m]
    /\ stage' = [stage EXCEPT ![m] = s]
    /\ todo' = [todo EXCEPT ![m] = work]
    /\ batch' = [batch EXCEPT ![m] = snapshot]
    /\ done' = [done EXCEPT ![m] = known]
    /\ UNCHANGED failed

(* ... and leaves it with nothing in memory. *)
Leave(m) ==
    /\ stage' = [stage EXCEPT ![m] = "idle"]
    /\ shard' = [shard EXCEPT ![m] = 0]
    /\ todo' = [todo EXCEPT ![m] = {}] /\ batch' = [batch EXCEPT ![m] = {}]
    /\ done' = [done EXCEPT ![m] = {}] /\ failed' = [failed EXCEPT ![m] = {}]

-----------------------------------------------------------------------------
(* format_classifier *)

(* When the existing pages cannot be read, none is taken to exist. *)
StartFormat(m) ==
    /\ \E known \in {classified, {}} : Enter(m, "format_classifier", Pages, {}, known)
    /\ UNCHANGED <<pageRows, docRows, shard, shards>>

(* The pages of a PDF that are rendered when those in bad fail: the file   *)
(* is given up after MaxConsecutive failures in a row, which a page that   *)
(* succeeds or was done before interrupts.                                 *)
Attempted(ps, bad) ==
    {p \in ps : ~\E a \in ps : a + MaxConsecutive <= p /\ a..(a + MaxConsecutive - 1) \subseteq bad}

(* INSERT OR IGNORE of both buffers; an insert that fails is logged and    *)
(* its rows are dropped.                                                   *)
FlushFormat(good, bad) ==
    /\ classified' \in {classified, classified \cup good}
    /\ unformatted' \in {unformatted, unformatted \cup bad}

(* One file.  Failures wait until some file yields pages. *)
FormatFile(m) ==
    /\ stage[m] = "format_classifier" /\ todo[m] # {}
    /\ LET ps == PagesOf(DocOf[Least(todo[m])])
       IN  \E bad \in SUBSET (ps \ done[m]) :
             LET tried == Attempted(ps, bad)
                 good  == tried \ (bad \cup done[m])
                 all   == failed[m] \cup (tried \cap bad)
             IN  /\ IF good # {}
                    THEN FlushFormat(good, all) /\ failed' = [failed EXCEPT ![m] = {}]
                    ELSE /\ failed' = [failed EXCEPT ![m] = all]
                         /\ UNCHANGED <<classified, unformatted>>
                 /\ todo' = [todo EXCEPT ![m] = @ \ ps]
    /\ UNCHANGED <<unread, text, redacted, typed, docRows, stage, shard, batch, done, shards>>

(* Also after Ctrl-C: what is buffered is written, the rest is left. *)
EndFormat(m) ==
    /\ stage[m] = "format_classifier"
    /\ FlushFormat({}, failed[m])
    /\ Leave(m)
    /\ UNCHANGED <<unread, text, redacted, typed, docRows, shards>>

-----------------------------------------------------------------------------
(* ocr_extraction *)

(* Mutants: the known-bad pages are not excluded; every page is read again. *)
PendingWithBad == {p \in classified : text[p] = NoText}
PendingAll     == classified \ unread

(* _load_pending_pages *)
Pending == {p \in classified : text[p] = NoText /\ p \notin unread}

(* Mutant: worker ids counted from one. *)
SliceOneBased(items, id) ==
    {p \in items : Cardinality({q \in items : q < p}) % NumWorkers = id + 1}

(* shard_work_items: each worker slices the list it has loaded itself. *)
Slice(items, id) ==
    {p \in items : Cardinality({q \in items : q < p}) % NumWorkers = id}

(* Nothing keeps two processes from being started with one --worker-id.     *)
StartOcr(m) ==
    \E id \in 0..(NumWorkers - 1) :
      /\ Enter(m, "ocr_extraction", Slice(Pending, id), {}, {})
      /\ shard' = [shard EXCEPT ![m] = id]
      /\ IF \E n \in Processes : stage[n] = "ocr_extraction"
         THEN UNCHANGED shards
         ELSE IF ran = 0..(NumWorkers - 1) \/ ran = {}
              THEN waiting' = Pending /\ ran' = {} ELSE UNCHANGED shards
      /\ UNCHANGED <<pageRows, docRows>>

(* _process_page and the buffers it fills. *)
OcrPage(m) ==
    /\ stage[m] = "ocr_extraction" /\ todo[m] # {}
    /\ LET p == Least(todo[m])
       IN  /\ \/ \E t \in Texts :
                   LET rows == batch[m] \cup {[page |-> p, text |-> t]}
                   IN  /\ IF Cardinality(rows) >= BatchSize
                          THEN text' = Updated(text, rows) /\ batch' = [batch EXCEPT ![m] = {}]
                          ELSE batch' = [batch EXCEPT ![m] = rows] /\ UNCHANGED text
                       /\ UNCHANGED <<failed, unread>>
              \/ LET rows == failed[m] \cup {p}
                 IN  /\ IF Cardinality(rows) >= BatchSize
                        THEN unread' = unread \cup rows /\ failed' = [failed EXCEPT ![m] = {}]
                        ELSE failed' = [failed EXCEPT ![m] = rows] /\ UNCHANGED unread
                     /\ UNCHANGED <<batch, text>>
           /\ todo' = [todo EXCEPT ![m] = @ \ {p}]
    /\ UNCHANGED <<classified, unformatted, redacted, typed, docRows, stage, shard, done, shards>>

(* Also after Ctrl-C. *)
EndOcr(m) ==
    /\ stage[m] = "ocr_extraction"
    /\ text' = Updated(text, batch[m])
    /\ unread' = unread \cup failed[m]
    /\ ran' = IF todo[m] = {} THEN ran \cup {shard[m]} ELSE ran
    /\ Leave(m)
    /\ UNCHANGED <<classified, unformatted, redacted, typed, docRows, waiting>>

-----------------------------------------------------------------------------
(* pii_tagger *)

StartTagger(m) ==
    /\ Enter(m, "pii_tagger", {}, {}, {})
    /\ UNCHANGED <<pageRows, docRows, shard, shards>>

(* Mutant: pages without text are not excluded. *)
UntaggedBlank == {p \in classified \cap English : text[p] # NoText /\ redacted[p] \in {NoText, Blank}}

(* _load_pending_batch *)
Untagged ==
    {p \in classified \cap English : text[p] \notin {NoText, Blank} /\ redacted[p] \in {NoText, Blank}}

(* The loop of run_pii_tagger: the next batch, until there is none. *)
LoadTagger(m) ==
    /\ stage[m] = "pii_tagger" /\ batch[m] = {} /\ Untagged # {}
    /\ batch' = [batch EXCEPT ![m] = {[page |-> p, text |-> text[p]] : p \in First(Untagged, BatchSize)}]
    /\ UNCHANGED <<pageRows, docRows, stage, shard, todo, done, failed, shards>>

(* redact_text never makes a text empty, so the batch is not loaded again. *)
WriteTagger(m) ==
    /\ stage[m] = "pii_tagger" /\ batch[m] # {}
    /\ redacted' = Updated(redacted, batch[m])
    /\ batch' = [batch EXCEPT ![m] = {}]
    /\ UNCHANGED <<classified, unformatted, unread, text, typed, docRows, stage, shard, todo, done, failed, shards>>

EndTagger(m) ==
    /\ stage[m] = "pii_tagger" /\ batch[m] = {} /\ Untagged = {}
    /\ Leave(m)
    /\ UNCHANGED <<pageRows, docRows, shards>>

-----------------------------------------------------------------------------
(* page_type_classifier *)

StartTypes(m) ==
    /\ Enter(m, "page_type_classifier", classified \ typed, {}, {})
    /\ UNCHANGED <<pageRows, docRows, shard, shards>>

(* A page that cannot be rendered is skipped, and tried again next time. *)
TypePage(m) ==
    /\ stage[m] = "page_type_classifier" /\ todo[m] # {}
    /\ LET p == Least(todo[m])
       IN  /\ \E rows \in {done[m], done[m] \cup {p}} :
                IF Cardinality(rows) >= BatchSize
                THEN typed' = typed \cup rows /\ done' = [done EXCEPT ![m] = {}]
                ELSE done' = [done EXCEPT ![m] = rows] /\ UNCHANGED typed
           /\ todo' = [todo EXCEPT ![m] = @ \ {p}]
    /\ UNCHANGED <<classified, unformatted, unread, text, redacted, docRows, stage, shard, batch, failed, shards>>

EndTypes(m) ==
    /\ stage[m] = "page_type_classifier" /\ todo[m] = {}
    /\ typed' = typed \cup done[m]
    /\ Leave(m)
    /\ UNCHANGED <<classified, unformatted, unread, text, redacted, docRows, shards>>

-----------------------------------------------------------------------------
(* summarizer *)

(* What a document says, in the redacted form, on the pages ps. *)
Redactions(ps) == {[page |-> p, text |-> redacted[p]] : p \in {q \in ps : redacted[q] # NoText}}
About(d, rows) == {r \in rows : DocOf[r.page] = d}

(* _fetch_documents_to_summarize *)
Substance(d) == Redactions(PagesOf(d) \cap typed \cap Letter)
Unsummarized(ds) == {d \in ds : summary[d] = {} /\ Substance(d) # {}}

(* _ensure_document_rows, then the first fetch. *)
StartSummarizer(m) ==
    /\ documents' = documents \cup {DocOf[p] : p \in classified}
    /\ \E ds \in SUBSET Unsummarized(documents') :
          /\ ds # {} \/ Unsummarized(documents') = {}
          /\ Enter(m, "summarizer", {}, UNION {Substance(d) : d \in ds}, {})
    /\ UNCHANGED <<pageRows, grievances, summary, category, shard, shards>>

WriteSummary(m, d, made) ==
    /\ stage[m] = "summarizer" /\ batch[m] # {}
    /\ summary' = [summary EXCEPT ![d] = made]
    /\ batch' = [batch EXCEPT ![m] = @ \ About(d, @)]
    /\ UNCHANGED <<pageRows, documents, grievances, category, stage, shard, todo, done, failed, shards>>

NextDocument(m) == DocOf[Least(Held(m))]
SummarizeDocument(m) == WriteSummary(m, NextDocument(m), {About(NextDocument(m), batch[m])})

(* What the model says is stored as it is.  A blank text counts as none:   *)
(* the document is fetched again.                                          *)
SummarizeBlank(m) == WriteSummary(m, NextDocument(m), {})

(* The next fetch: up to eight of the documents that are still due. *)
FetchSummarizer(m) ==
    /\ stage[m] = "summarizer" /\ batch[m] = {}
    /\ \E ds \in (SUBSET Unsummarized(documents)) \ {{}} :
          batch' = [batch EXCEPT ![m] = UNION {Substance(d) : d \in ds}]
    /\ UNCHANGED <<pageRows, docRows, stage, shard, todo, done, failed, shards>>

EndSummarizer(m) ==
    /\ stage[m] = "summarizer" /\ batch[m] = {} /\ Unsummarized(documents) = {}
    /\ Leave(m)
    /\ UNCHANGED <<pageRows, docRows, shards>>

-----------------------------------------------------------------------------
(* categorizer *)

(* Mutant: the grievances are written by an UPDATE, which needs a row. *)
IngestUpdating ==
    \E found \in SUBSET {DocOf[p] : p \in classified} :
       grievances' = grievances \cup found /\ UNCHANGED documents

(* ingest_grievances, when a complaints file is given: every document gets *)
(* a row, and its grievance if the file has its ticket.                    *)
Ingest ==
    LET ds == {DocOf[p] : p \in classified}
    IN  documents' = documents \cup ds /\ \E found \in SUBSET ds : grievances' = grievances \cup found

(* _load_pending_documents, with all the redactions there are. *)
StartCategorizer(m) ==
    /\ Ingest \/ UNCHANGED <<documents, grievances>>
    /\ LET ps == {p \in Pages : DocOf[p] \in grievances' /\ category[DocOf[p]] = {}}
       IN  Enter(m, "categorizer", ps, Redactions(ps), {})
    /\ UNCHANGED <<pageRows, summary, category, shard, shards>>

FlushCategories(m, ps) ==
    category' = [d \in Docs |-> IF PagesOf(d) \cap ps # {} THEN {About(d, batch[m])} ELSE category[d]]

(* A document that is not English is skipped. *)
CategorizeDocument(m) ==
    /\ stage[m] = "categorizer" /\ todo[m] # {}
    /\ LET ps == PagesOf(DocOf[Least(todo[m])])
       IN  /\ \E ready \in {done[m], done[m] \cup ps} :
                IF Cardinality({DocOf[p] : p \in ready}) >= BatchSize
                THEN FlushCategories(m, ready) /\ done' = [done EXCEPT ![m] = {}]
                ELSE done' = [done EXCEPT ![m] = ready] /\ UNCHANGED category
           /\ todo' = [todo EXCEPT ![m] = @ \ ps]
    /\ UNCHANGED <<pageRows, documents, grievances, summary, stage, shard, batch, failed, shards>>

(* Also after Ctrl-C. *)
EndCategorizer(m) ==
    /\ stage[m] = "categorizer"
    /\ FlushCategories(m, done[m])
    /\ Leave(m)
    /\ UNCHANGED <<pageRows, documents, grievances, summary, shards>>

-----------------------------------------------------------------------------
(* The process is killed, or an exception leaves the stage (a locked       *)
(* database after DB_LOCK_RETRIES): the buffers are gone.                  *)
Kill(m) ==
    /\ stage[m] # "idle"
    /\ Leave(m)
    /\ UNCHANGED <<pageRows, docRows, shards>>

Start(m) ==
    \/ StartFormat(m) \/ StartOcr(m) \/ StartTagger(m)
    \/ StartTypes(m) \/ StartSummarizer(m) \/ StartCategorizer(m)

Work(m) ==
    \/ FormatFile(m) \/ OcrPage(m) \/ LoadTagger(m) \/ WriteTagger(m) \/ TypePage(m)
    \/ SummarizeDocument(m) \/ SummarizeBlank(m) \/ FetchSummarizer(m) \/ CategorizeDocument(m)

End(m) ==
    \/ EndFormat(m) \/ EndOcr(m) \/ EndTagger(m)
    \/ EndTypes(m) \/ EndSummarizer(m) \/ EndCategorizer(m)

Next == \E m \in Processes : Start(m) \/ Work(m) \/ End(m) \/ Kill(m)

Spec == Init /\ [][Next]_vars

(* A process that has entered a stage runs on. *)
FairSpec == Spec /\ \A m \in Processes : WF_vars(Work(m) \/ (todo[m] = {} /\ End(m)))

-----------------------------------------------------------------------------
(* Properties *)

Rows == [page : Pages, text : Texts]

PageRowsOK ==
    /\ classified \subseteq Pages /\ unformatted \subseteq Pages
    /\ unread \subseteq Pages /\ typed \subseteq Pages
    /\ text \in [Pages -> Texts \cup {NoText}] /\ redacted \in [Pages -> Texts \cup {NoText}]

DocRowsOK ==
    /\ documents \subseteq Docs /\ grievances \subseteq documents
    /\ summary \in [Docs -> SUBSET SUBSET Rows] /\ category \in [Docs -> SUBSET SUBSET Rows]

ProcessesOK ==
    /\ stage \in [Processes -> Stages \cup {"idle"}] /\ shard \in [Processes -> 0..(NumWorkers - 1)]
    /\ todo \in [Processes -> SUBSET Pages] /\ batch \in [Processes -> SUBSET Rows]
    /\ done \in [Processes -> SUBSET Pages] /\ failed \in [Processes -> SUBSET Pages]

TypeOK ==
    /\ PageRowsOK /\ DocRowsOK /\ ProcessesOK
    /\ waiting \subseteq Pages /\ ran \subseteq 0..(NumWorkers - 1)

\* A page has one outcome of OCR, however often the stage is killed and
\* resumed: never a text and a row in unreadable_pages.
OneOutcome == \A p \in unread : p \in classified /\ text[p] = NoText

\* Nothing derived outlives what it was derived from: a redaction is of the
\* text the page has, a summary and a category are of redactions it has.
ChainAgrees ==
    /\ \A p \in Pages : redacted[p] # NoText => redacted[p] = text[p]
    /\ \A d \in Docs : \A r \in UNION (summary[d] \cup category[d]) : r.text = redacted[r.page]

\* "Each worker processes a round-robin slice of the work": once every shard
\* has run to its end, no page is pending that was when the first started.
ShardsCoverWork == ran = 0..(NumWorkers - 1) => waiting \cap Pending = {}

\* "Same audit rule as classification failures: without a row the page vanishes
\* from unreadable_pages and is retried on every resume": a page that has its
\* row is not taken up again, and so never turns into a classified page.
RecordedFailureIsFinal == [][(classified' \ classified) \cap unformatted = {}]_vars

\* Every stage run ends: the tagger's loop, which asks the database for more
\* until there is none, comes to nothing more, and so does the summarizer's
\* unless its model gives blank texts for ever (summarizer.py:48 and :100).
BlankForEver == []<><<\E n \in Processes : SummarizeBlank(n)>>_vars
StagesEnd ==
    \A m \in Processes :
       /\ stage[m] \in Stages \ {"summarizer"} ~> stage[m] = "idle"
       /\ BlankForEver \/ (stage[m] = "summarizer" ~> stage[m] = "idle")

PageState(p) ==
    IF redacted[p] # NoText THEN [at |-> "redacted", text |-> redacted[p]]
    ELSE IF text[p] # NoText THEN [at |-> "read", text |-> text[p]]
    ELSE [at |-> IF p \in unread THEN "unreadable"
                 ELSE IF p \in classified THEN "discovered" ELSE "unknown"]

\* The six stages together keep the promise of PageFlow.
Flow == INSTANCE PageFlow WITH page <- [p \in Pages |-> PageState(p)]
ImplementsPageFlow == Flow!Spec
=============================================================================
