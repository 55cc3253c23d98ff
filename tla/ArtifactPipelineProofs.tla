----------------------- MODULE ArtifactPipelineProofs -----------------------
(***************************************************************************)
(* The outcome of a page, its chain of derivations and the work the OCR    *)
(* workers cover, for any files, processes, selections of stages, batch    *)
(* sizes and numbers of workers.  What sharding needs is a hypothesis, and *)
(* a theorem tells when it holds: workers that loaded the same list.       *)
(***************************************************************************)
EXTENDS ArtifactPipeline, FiniteSetTheorems, WellFoundedInduction, TLAPS

(* What an OCR process has still to answer for, and OCR processes that     *)
(* answer for different pages.                                             *)
Owed(m) == todo[m] \cup Held(m) \cup failed[m]

Disjoint ==
    \A m, n \in Processes : m # n /\ stage[m] = "ocr_extraction" /\ stage[n] = "ocr_extraction"
                              => Owed(m) \cap Owed(n) = {}

(* What an OCR process has not written yet is still pending, and it holds  *)
(* each page once: to do, read, or failed.                                 *)
OcrHolds(m) ==
    /\ todo[m] \subseteq Pending /\ Held(m) \subseteq Pending /\ failed[m] \subseteq Pending
    /\ todo[m] \cap Held(m) = {} /\ todo[m] \cap failed[m] = {} /\ Held(m) \cap failed[m] = {}

(* A batch of the tagger is what the pages say ... *)
TaggerHolds(m) == \A r \in batch[m] : r.text = text[r.page]

(* ... and a snapshot of redactions is of redactions they still have. *)
SnapshotHolds(m) == \A r \in batch[m] : r.text = redacted[r.page]

Holds(m) ==
    /\ stage[m] = "idle" => failed[m] = {}
    /\ stage[m] = "ocr_extraction" => OcrHolds(m)
    /\ stage[m] = "pii_tagger" => TaggerHolds(m)
    /\ stage[m] \in {"summarizer", "categorizer"} => SnapshotHolds(m)

IInv == TypeOK /\ OneOutcome /\ ChainAgrees /\ \A m \in Processes : Holds(m)

-----------------------------------------------------------------------------
(* What a step leaves alone: rows keep what they have ... *)
Keeps ==
    /\ classified \subseteq classified'
    /\ \A p \in Pages : text[p] # NoText => text'[p] = text[p]
    /\ \A p \in Pages : redacted[p] # NoText => redacted'[p] = redacted[p]

(* The OCR outcome of a page stays, or the page was pending. *)
Moves(p) ==
    \/ text'[p] = text[p] /\ (p \in unread' <=> p \in unread)
    \/ p \in Pending /\ redacted'[p] = redacted[p]

Advances == Keeps /\ \A p \in Pages : Moves(p)

(* ... and process n what it holds. *)
Same(n) ==
    /\ stage'[n] = stage[n] /\ todo'[n] = todo[n]
    /\ batch'[n] = batch[n] /\ failed'[n] = failed[n]

(* _load_pending_pages and the dictionaries keyed by row: executemany       *)
(* changes exactly the rows of the batch, each to a text of the batch.     *)
LEMMA UpdatedRows ==
    ASSUME NEW column \in [Pages -> Texts \cup {NoText}], NEW rows \in SUBSET Rows
    PROVE  /\ Updated(column, rows) \in [Pages -> Texts \cup {NoText}]
           /\ \A p \in Pages : (\A r \in rows : r.page # p) => Updated(column, rows)[p] = column[p]
           /\ \A p \in Pages : (\E r \in rows : r.page = p) =>
                 \E r \in rows : r.page = p /\ Updated(column, rows)[p] = r.text
<1>1. ASSUME NEW p \in Pages, \E r \in rows : r.page = p
      PROVE  \E r \in rows : r.page = p /\ Updated(column, rows)[p] = r.text
  <2>1. PICK r \in rows : r = (CHOOSE x \in rows : x.page = p) /\ r.page = p
    BY <1>1
  <2> QED BY <1>1, <2>1 DEF Updated
<1>2. ASSUME NEW p \in Pages, \A r \in rows : r.page # p
      PROVE  Updated(column, rows)[p] = column[p]
  BY <1>2 DEF Updated
<1>3. \A p \in Pages : Updated(column, rows)[p] \in Texts \cup {NoText}
  <2> SUFFICES ASSUME NEW p \in Pages PROVE Updated(column, rows)[p] \in Texts \cup {NoText}
    OBVIOUS
  <2>1. CASE \E r \in rows : r.page = p
    <3>1. PICK r \in rows : Updated(column, rows)[p] = r.text
      BY <1>1, <2>1
    <3>2. r.text \in Texts
      BY <3>1 DEF Rows
    <3> QED BY <3>1, <3>2
  <2>2. CASE ~\E r \in rows : r.page = p
    BY <1>2, <2>2
  <2> QED BY <2>1, <2>2
<1>4. Updated(column, rows) = [p \in Pages |-> Updated(column, rows)[p]]
  BY DEF Updated
<1> QED BY <1>1, <1>2, <1>3, <1>4

(* The page taken next is one of those left, and the first of them. *)
LEMMA LeastExists ==
    ASSUME NEW S \in SUBSET Pages, S # {} PROVE Least(S) \in S /\ \A q \in S : Least(S) <= q
<1> DEFINE R == OpToRel(<, Nat)
<1>1. S \subseteq Nat
  BY PagesAssumption DEF Pages
<1>2. IsWellFoundedOn(R, Nat)
  BY NatLessThanWellFounded
<1>3. PICK p \in S : \A q \in S : ~(<<q, p>> \in R)
  <2> HIDE DEF R
  <2> QED BY <1>1, <1>2, WFMin
<1>4. \A q \in S : ~(q < p)
  BY <1>1, <1>3 DEF OpToRel
<1>5. \A q \in S : p <= q
  <2> HIDE DEF R
  <2> QED BY <1>1, <1>4
<1> QED BY <1>5 DEF Least

-----------------------------------------------------------------------------
(* Type correctness, which needs nothing else. *)
LEMMA StagesFacts ==
    /\ "format_classifier" \in Stages /\ "ocr_extraction" \in Stages /\ "pii_tagger" \in Stages
    /\ "page_type_classifier" \in Stages /\ "summarizer" \in Stages /\ "categorizer" \in Stages
BY DEF Stages

(* A process that enters a stage ... *)
LEMMA EnterTyped ==
    ASSUME ProcessesOK, NEW m \in Processes, NEW s \in Stages, NEW work \in SUBSET Pages,
           NEW snapshot \in SUBSET Rows, NEW known \in SUBSET Pages,
           Enter(m, s, work, snapshot, known), shard' \in [Processes -> 0..(NumWorkers - 1)]
    PROVE  ProcessesOK'
BY DEF Enter, ProcessesOK

(* ... and one that leaves it. *)
LEMMA LeaveTyped ==
    ASSUME ProcessesOK, NEW m \in Processes, Leave(m) PROVE ProcessesOK'
BY LimitsAssumption DEF Leave, ProcessesOK

(* Redactions of pages, those of documents, and what is loaded to be       *)
(* redacted are rows.                                                      *)
LEMMA SnapshotsTyped ==
    ASSUME PageRowsOK
    PROVE  /\ \A ps \in SUBSET Pages : Redactions(ps) \in SUBSET Rows
           /\ \A ds : UNION {Substance(d) : d \in ds} \in SUBSET Rows
           /\ {[page |-> p, text |-> text[p]] : p \in First(Untagged, BatchSize)} \in SUBSET Rows
<1>1. \A ps \in SUBSET Pages : Redactions(ps) \in SUBSET Rows
  BY DEF Redactions, Rows, PageRowsOK
<1>2. \A d : PagesOf(d) \cap typed \cap Letter \in SUBSET Pages
  BY DEF PagesOf
<1>3. \A d : Substance(d) \in SUBSET Rows
  BY <1>1, <1>2 DEF Substance
<1>4. \A p \in First(Untagged, BatchSize) : p \in Pages /\ text[p] \in Texts
  BY DEF First, Untagged, PageRowsOK
<1> QED BY <1>1, <1>3, <1>4 DEF Rows

(* A document written by a flush is of the process's snapshot. *)
LEMMA FlushTyped ==
    ASSUME ProcessesOK, DocRowsOK, NEW m \in Processes, NEW ps, FlushCategories(m, ps)
    PROVE  category' \in [Docs -> SUBSET SUBSET Rows]
<1>1. \A d : {About(d, batch[m])} \in SUBSET SUBSET Rows
  BY DEF About, ProcessesOK
<1> QED BY <1>1 DEF FlushCategories, DocRowsOK

(* Starting a stage. *)
LEMMA StartTyped ==
    ASSUME TypeOK, NEW m \in Processes, Start(m) PROVE TypeOK'
<1> USE DEF TypeOK
<1>1. CASE StartFormat(m)
  <2>1. PICK known \in {classified, {}} : Enter(m, "format_classifier", Pages, {}, known)
    BY <1>1 DEF StartFormat
  <2>2. UNCHANGED <<pageRows, docRows>> /\ UNCHANGED shards /\ UNCHANGED shard
    BY <1>1 DEF StartFormat
  <2>3. ProcessesOK'
    BY <2>1, <2>2, StagesFacts, EnterTyped DEF PageRowsOK, ProcessesOK
  <2> QED BY <2>2, <2>3 DEF PageRowsOK, DocRowsOK, pageRows, docRows, shards
<1>2. CASE StartOcr(m)
  <2>1. PICK id \in 0..(NumWorkers - 1) :
         /\ Enter(m, "ocr_extraction", Slice(Pending, id), {}, {})
         /\ shard' = [shard EXCEPT ![m] = id]
         /\ waiting' \in {waiting, Pending} /\ ran' \in {ran, {}}
         /\ UNCHANGED <<pageRows, docRows>>
    BY <1>2 DEF StartOcr, shards
  <2>2. Slice(Pending, id) \in SUBSET Pages /\ Pending \subseteq Pages
    BY DEF Slice, Pending, PageRowsOK
  <2>3. ProcessesOK'
    BY <2>1, <2>2, StagesFacts, EnterTyped DEF ProcessesOK
  <2> QED BY <2>1, <2>2, <2>3 DEF PageRowsOK, DocRowsOK, pageRows, docRows
<1>3. CASE StartTagger(m)
  <2>1. /\ Enter(m, "pii_tagger", {}, {}, {})
        /\ UNCHANGED <<pageRows, docRows>> /\ UNCHANGED shards /\ UNCHANGED shard
    BY <1>3 DEF StartTagger
  <2>2. ProcessesOK'
    BY <2>1, StagesFacts DEF Enter, ProcessesOK
  <2> QED BY <2>1, <2>2 DEF PageRowsOK, DocRowsOK, pageRows, docRows, shards
<1>4. CASE StartTypes(m)
  <2>1. /\ Enter(m, "page_type_classifier", classified \ typed, {}, {})
        /\ UNCHANGED <<pageRows, docRows>> /\ UNCHANGED shards /\ UNCHANGED shard
    BY <1>4 DEF StartTypes
  <2>2. ProcessesOK'
    BY <2>1, StagesFacts DEF Enter, PageRowsOK, ProcessesOK
  <2> QED BY <2>1, <2>2 DEF PageRowsOK, DocRowsOK, pageRows, docRows, shards
<1>5. CASE StartSummarizer(m)
  <2>1. PICK ds : Enter(m, "summarizer", {}, UNION {Substance(d) : d \in ds}, {})
    BY <1>5 DEF StartSummarizer
  <2>2. /\ documents' = documents \cup {DocOf[p] : p \in classified}
        /\ UNCHANGED <<grievances, summary, category>> /\ UNCHANGED pageRows
        /\ UNCHANGED shard /\ UNCHANGED shards
    BY <1>5 DEF StartSummarizer
  <2>3. UNION {Substance(d) : d \in ds} \in SUBSET Rows
    BY SnapshotsTyped
  <2>4. shard' \in [Processes -> 0..(NumWorkers - 1)]
    BY <2>2 DEF ProcessesOK
  <2>5. ProcessesOK'
    BY <2>1, <2>3, <2>4, StagesFacts, EnterTyped
  <2>6. DocRowsOK'
    BY <2>2 DEF PageRowsOK, DocRowsOK, Docs
  <2> QED BY <2>2, <2>5, <2>6 DEF PageRowsOK, pageRows, shards
<1>6. CASE StartCategorizer(m)
  <2> DEFINE ps == {p \in Pages : DocOf[p] \in grievances' /\ category[DocOf[p]] = {}}
  <2>1. /\ Ingest \/ UNCHANGED <<documents, grievances>>
        /\ Enter(m, "categorizer", ps, Redactions(ps), {})
        /\ UNCHANGED pageRows /\ UNCHANGED <<summary, category>> /\ UNCHANGED shard /\ UNCHANGED shards
    BY <1>6 DEF StartCategorizer
  <2>2. ps \in SUBSET Pages
    OBVIOUS
  <2> HIDE DEF ps
  <2>3. Redactions(ps) \in SUBSET Rows
    BY <2>2, SnapshotsTyped
  <2>4. shard' \in [Processes -> 0..(NumWorkers - 1)]
    BY <2>1 DEF ProcessesOK
  <2>5. ProcessesOK'
    BY <2>1, <2>2, <2>3, <2>4, StagesFacts, EnterTyped
  <2>6. documents' \subseteq Docs /\ grievances' \subseteq documents'
    <3>1. CASE Ingest
      <4> DEFINE ds == {DocOf[p] : p \in classified}
      <4>1. ds \subseteq Docs
        BY DEF Docs, PageRowsOK
      <4>2. documents' = documents \cup ds /\ \E found \in SUBSET ds : grievances' = grievances \cup found
        BY <3>1 DEF Ingest
      <4> QED BY <4>1, <4>2 DEF DocRowsOK
    <3>2. CASE UNCHANGED <<documents, grievances>>
      BY <3>2 DEF DocRowsOK
    <3> QED BY <2>1, <3>1, <3>2
  <2> QED BY <2>1, <2>5, <2>6 DEF PageRowsOK, DocRowsOK, pageRows, shards
<1> QED BY <1>1, <1>2, <1>3, <1>4, <1>5, <1>6 DEF Start

(* A file of the format classifier: what it adds are pages of the file. *)
LEMMA FormatFileWrites ==
    ASSUME TypeOK, NEW m \in Processes, FormatFile(m)
    PROVE  /\ classified \subseteq classified' /\ classified' \subseteq Pages /\ unformatted' \subseteq Pages
           /\ todo' \in [Processes -> SUBSET Pages] /\ failed' \in [Processes -> SUBSET Pages]
           /\ \A n \in Processes : n # m => todo'[n] = todo[n] /\ failed'[n] = failed[n]
<1> USE DEF TypeOK
<1> DEFINE ps == PagesOf(DocOf[Least(todo[m])])
<1>1. ps \subseteq Pages
  BY DEF PagesOf
<1>2. PICK bad \in SUBSET (ps \ done[m]) :
             LET tried == Attempted(ps, bad)
                 good  == tried \ (bad \cup done[m])
                 all   == failed[m] \cup (tried \cap bad)
             IN  /\ IF good # {}
                    THEN FlushFormat(good, all) /\ failed' = [failed EXCEPT ![m] = {}]
                    ELSE /\ failed' = [failed EXCEPT ![m] = all]
                         /\ UNCHANGED <<classified, unformatted>>
                 /\ todo' = [todo EXCEPT ![m] = @ \ ps]
  BY DEF FormatFile
<1> DEFINE tried == Attempted(ps, bad)
           good  == tried \ (bad \cup done[m])
           all   == failed[m] \cup (tried \cap bad)
<1>3. tried \subseteq Pages
  BY <1>1 DEF Attempted
<1>4. good \in SUBSET Pages /\ all \in SUBSET Pages
  BY <1>1, <1>3 DEF ProcessesOK
<1> HIDE DEF tried, good, all
<1>5. todo' = [todo EXCEPT ![m] = @ \ ps]
  BY <1>2
<1>6. IF good # {}
      THEN FlushFormat(good, all) /\ failed' = [failed EXCEPT ![m] = {}]
      ELSE /\ failed' = [failed EXCEPT ![m] = all]
           /\ UNCHANGED <<classified, unformatted>>
  BY <1>2 DEF tried, good, all
<1> HIDE DEF ps
<1>7. /\ classified \subseteq classified' /\ classified' \subseteq Pages /\ unformatted' \subseteq Pages
      /\ failed' \in [Processes -> SUBSET Pages]
      /\ \A n \in Processes : n # m => failed'[n] = failed[n]
  BY <1>4, <1>6 DEF FlushFormat, PageRowsOK, ProcessesOK
<1>8. todo' \in [Processes -> SUBSET Pages] /\ \A n \in Processes : n # m => todo'[n] = todo[n]
  BY <1>5 DEF ProcessesOK
<1> QED BY <1>7, <1>8

(* A page of the OCR stage. *)
LEMMA OcrPageTyped ==
    ASSUME TypeOK, NEW m \in Processes, OcrPage(m) PROVE TypeOK'
<1> USE DEF TypeOK
<1> DEFINE p == Least(todo[m])
<1>1. p \in Pages
  <2>1. todo[m] \in SUBSET Pages /\ todo[m] # {}
    BY DEF ProcessesOK, OcrPage
  <2> QED BY <2>1, LeastExists
<1>2. /\ UNCHANGED <<classified, unformatted, redacted, typed>> /\ UNCHANGED docRows
      /\ UNCHANGED <<stage, shard, done>> /\ UNCHANGED shards
      /\ todo' = [todo EXCEPT ![m] = @ \ {p}]
  BY DEF OcrPage
<1>3. \/ \E t \in Texts :
           LET rows == batch[m] \cup {[page |-> p, text |-> t]}
           IN  /\ \/ text' = Updated(text, rows) /\ batch' = [batch EXCEPT ![m] = {}]
                  \/ batch' = [batch EXCEPT ![m] = rows] /\ UNCHANGED text
               /\ UNCHANGED <<failed, unread>>
      \/ LET rows == failed[m] \cup {p}
         IN  /\ \/ unread' = unread \cup rows /\ failed' = [failed EXCEPT ![m] = {}]
                \/ failed' = [failed EXCEPT ![m] = rows] /\ UNCHANGED unread
             /\ UNCHANGED <<batch, text>>
  BY DEF OcrPage
<1> HIDE DEF p
<1>4. /\ batch' \in [Processes -> SUBSET Rows] /\ failed' \in [Processes -> SUBSET Pages]
      /\ text' \in [Pages -> Texts \cup {NoText}] /\ unread' \subseteq Pages
  <2>1. ASSUME NEW t \in Texts, NEW rows, rows = batch[m] \cup {[page |-> p, text |-> t]},
               \/ text' = Updated(text, rows) /\ batch' = [batch EXCEPT ![m] = {}]
               \/ batch' = [batch EXCEPT ![m] = rows] /\ UNCHANGED text,
               UNCHANGED <<failed, unread>>
        PROVE  /\ batch' \in [Processes -> SUBSET Rows] /\ failed' \in [Processes -> SUBSET Pages]
               /\ text' \in [Pages -> Texts \cup {NoText}] /\ unread' \subseteq Pages
    <3>1. rows \in SUBSET Rows
      BY <1>1, <2>1 DEF Rows, ProcessesOK
    <3>2. text \in [Pages -> Texts \cup {NoText}]
      BY DEF PageRowsOK
    <3>3. text' \in [Pages -> Texts \cup {NoText}]
      BY <2>1, <3>1, <3>2, UpdatedRows
    <3>4. batch' \in [Processes -> SUBSET Rows]
      BY <2>1, <3>1 DEF ProcessesOK
    <3> QED BY <2>1, <3>3, <3>4 DEF PageRowsOK, ProcessesOK
  <2>2. CASE LET rows == failed[m] \cup {p}
             IN  /\ \/ unread' = unread \cup rows /\ failed' = [failed EXCEPT ![m] = {}]
                    \/ failed' = [failed EXCEPT ![m] = rows] /\ UNCHANGED unread
                 /\ UNCHANGED <<batch, text>>
    BY <1>1, <2>2 DEF PageRowsOK, ProcessesOK
  <2> QED BY <1>3, <2>1, <2>2
<1>5. todo' \in [Processes -> SUBSET Pages]
  BY <1>2 DEF ProcessesOK
<1> QED BY <1>2, <1>4, <1>5 DEF PageRowsOK, DocRowsOK, ProcessesOK, docRows, shards

(* A page of the page type classifier. *)
LEMMA TypePageTyped ==
    ASSUME TypeOK, NEW m \in Processes, TypePage(m) PROVE TypeOK'
<1> USE DEF TypeOK
<1>1. PICK rows \in {done[m], done[m] \cup {Least(todo[m])}} :
         IF Cardinality(rows) >= BatchSize
         THEN typed' = typed \cup rows /\ done' = [done EXCEPT ![m] = {}]
         ELSE done' = [done EXCEPT ![m] = rows] /\ UNCHANGED typed
  BY DEF TypePage
<1>2. /\ todo[m] # {} /\ UNCHANGED <<classified, unformatted, unread, text, redacted>>
      /\ UNCHANGED docRows /\ UNCHANGED shards /\ UNCHANGED <<stage, shard, batch, failed>>
      /\ todo' = [todo EXCEPT ![m] = @ \ {Least(todo[m])}]
  BY DEF TypePage
<1>3. todo[m] \in SUBSET Pages
  BY DEF ProcessesOK
<1>4. Least(todo[m]) \in Pages
  BY <1>2, <1>3, LeastExists
<1>5. rows \in SUBSET Pages
  BY <1>1, <1>4 DEF ProcessesOK
<1>6. typed' \subseteq Pages /\ done' \in [Processes -> SUBSET Pages]
  BY <1>1, <1>5 DEF PageRowsOK, ProcessesOK
<1> QED BY <1>2, <1>6 DEF PageRowsOK, DocRowsOK, ProcessesOK, docRows, shards

(* A summary is of what the process has of a document, or there is none.   *)
LEMMA SummaryMade ==
    ASSUME NEW m \in Processes, SummarizeDocument(m) \/ SummarizeBlank(m)
    PROVE  \E d, made : WriteSummary(m, d, made) /\ \A f \in made : f = About(d, batch[m])
<1>1. CASE SummarizeDocument(m)
  <2>1. /\ WriteSummary(m, NextDocument(m), {About(NextDocument(m), batch[m])})
        /\ \A f \in {About(NextDocument(m), batch[m])} : f = About(NextDocument(m), batch[m])
    BY <1>1 DEF SummarizeDocument
  <2> QED BY <2>1
<1>2. CASE SummarizeBlank(m)
  <2>1. WriteSummary(m, NextDocument(m), {}) /\ \A f \in {} : f = About(NextDocument(m), batch[m])
    BY <1>2 DEF SummarizeBlank
  <2> QED BY <2>1
<1> QED BY <1>1, <1>2

(* Working in a stage. *)
LEMMA WorkTyped ==
    ASSUME TypeOK, NEW m \in Processes, Work(m) PROVE TypeOK'
<1> USE DEF TypeOK
<1>1. CASE FormatFile(m)
  <2>1. UNCHANGED <<unread, text, redacted, typed>> /\ UNCHANGED docRows /\ UNCHANGED shards
        /\ UNCHANGED <<stage, shard, batch, done>>
    BY <1>1 DEF FormatFile
  <2> QED BY <1>1, <2>1, FormatFileWrites DEF PageRowsOK, DocRowsOK, ProcessesOK, docRows, shards
<1>2. CASE LoadTagger(m)
  <2> DEFINE loaded == {[page |-> p, text |-> text[p]] : p \in First(Untagged, BatchSize)}
  <2>1. /\ batch' = [batch EXCEPT ![m] = loaded] /\ UNCHANGED <<pageRows, docRows>>
        /\ UNCHANGED shards /\ UNCHANGED <<stage, shard, todo, done, failed>>
    BY <1>2 DEF LoadTagger
  <2>2. loaded \in SUBSET Rows
    BY SnapshotsTyped
  <2> HIDE DEF loaded
  <2> QED BY <2>1, <2>2 DEF PageRowsOK, DocRowsOK, ProcessesOK, pageRows, docRows, shards
<1>3. CASE WriteTagger(m)
  <2>1. /\ redacted' = Updated(redacted, batch[m]) /\ batch' = [batch EXCEPT ![m] = {}]
        /\ UNCHANGED <<classified, unformatted, unread, text, typed>> /\ UNCHANGED docRows
        /\ UNCHANGED shards /\ UNCHANGED <<stage, shard, todo, done, failed>>
    BY <1>3 DEF WriteTagger
  <2>2. batch[m] \in SUBSET Rows /\ redacted \in [Pages -> Texts \cup {NoText}]
    BY DEF ProcessesOK, PageRowsOK
  <2>3. redacted' \in [Pages -> Texts \cup {NoText}]
    BY <2>1, <2>2, UpdatedRows
  <2> QED BY <2>1, <2>3 DEF PageRowsOK, DocRowsOK, ProcessesOK, docRows, shards
<1>4. CASE SummarizeDocument(m) \/ SummarizeBlank(m)
  <2>1. PICK d, made : WriteSummary(m, d, made) /\ \A f \in made : f = About(d, batch[m])
    BY <1>4, SummaryMade
  <2>2. made \in SUBSET SUBSET Rows
    BY <2>1 DEF About, ProcessesOK
  <2>3. /\ summary' = [summary EXCEPT ![d] = made]
        /\ batch' = [batch EXCEPT ![m] = @ \ About(d, @)]
        /\ UNCHANGED pageRows /\ UNCHANGED <<documents, grievances, category>>
        /\ UNCHANGED <<stage, shard, todo, done, failed>> /\ UNCHANGED shards
    BY <2>1 DEF WriteSummary
  <2> QED BY <2>2, <2>3 DEF PageRowsOK, DocRowsOK, ProcessesOK, pageRows, shards
<1>5. CASE FetchSummarizer(m)
  <2>1. PICK ds : batch' = [batch EXCEPT ![m] = UNION {Substance(d) : d \in ds}]
    BY <1>5 DEF FetchSummarizer
  <2>2. /\ UNCHANGED <<pageRows, docRows>> /\ UNCHANGED shards
        /\ UNCHANGED <<stage, shard, todo, done, failed>>
    BY <1>5 DEF FetchSummarizer
  <2>3. UNION {Substance(d) : d \in ds} \in SUBSET Rows
    BY SnapshotsTyped
  <2>4. batch' \in [Processes -> SUBSET Rows]
    BY <2>1, <2>3 DEF ProcessesOK
  <2> QED BY <2>2, <2>4 DEF PageRowsOK, DocRowsOK, ProcessesOK, pageRows, docRows, shards
<1>6. CASE CategorizeDocument(m)
  <2> DEFINE ps == PagesOf(DocOf[Least(todo[m])])
  <2>1. /\ todo' = [todo EXCEPT ![m] = @ \ ps]
        /\ UNCHANGED pageRows /\ UNCHANGED <<documents, grievances, summary>>
        /\ UNCHANGED <<stage, shard, batch, failed>> /\ UNCHANGED shards
        /\ \E ready \in {done[m], done[m] \cup ps} :
              \/ FlushCategories(m, ready) /\ done' = [done EXCEPT ![m] = {}]
              \/ done' = [done EXCEPT ![m] = ready] /\ UNCHANGED category
    BY <1>6 DEF CategorizeDocument
  <2>2. ps \subseteq Pages
    BY DEF PagesOf
  <2> HIDE DEF ps
  <2>3. category' \in [Docs -> SUBSET SUBSET Rows]
    BY <2>1, FlushTyped DEF DocRowsOK
  <2>4. done' \in [Processes -> SUBSET Pages] /\ todo' \in [Processes -> SUBSET Pages]
    BY <2>1, <2>2 DEF ProcessesOK
  <2> QED BY <2>1, <2>3, <2>4 DEF PageRowsOK, DocRowsOK, ProcessesOK, pageRows, shards
<1> QED BY <1>1, <1>2, <1>3, <1>4, <1>5, <1>6, OcrPageTyped, TypePageTyped DEF Work

(* Leaving a stage, at its end or killed. *)
LEMMA EndTyped ==
    ASSUME TypeOK, NEW m \in Processes, End(m) \/ Kill(m) PROVE TypeOK'
<1> USE DEF TypeOK
<1>1. ProcessesOK'
  <2>1. Leave(m)
    BY DEF End, EndFormat, EndOcr, EndTagger, EndTypes, EndSummarizer, EndCategorizer, Kill
  <2> QED BY <2>1, LeaveTyped
<1>2. CASE EndFormat(m)
  <2>1. UNCHANGED <<unread, text, redacted, typed>> /\ UNCHANGED docRows /\ UNCHANGED shards
        /\ FlushFormat({}, failed[m])
    BY <1>2 DEF EndFormat
  <2> QED BY <1>1, <2>1 DEF FlushFormat, PageRowsOK, DocRowsOK, ProcessesOK, docRows, shards
<1>3. CASE EndOcr(m)
  <2>1. /\ text' = Updated(text, batch[m]) /\ unread' = unread \cup failed[m]
        /\ ran' \in {ran, ran \cup {shard[m]}} /\ waiting' = waiting
        /\ UNCHANGED <<classified, unformatted, redacted, typed>> /\ UNCHANGED docRows
    BY <1>3 DEF EndOcr
  <2>2. batch[m] \in SUBSET Rows /\ text \in [Pages -> Texts \cup {NoText}]
    BY DEF ProcessesOK, PageRowsOK
  <2>3. text' \in [Pages -> Texts \cup {NoText}]
    BY <2>1, <2>2, UpdatedRows
  <2>4. unread' \subseteq Pages /\ ran' \subseteq 0..(NumWorkers - 1)
    BY <2>1 DEF PageRowsOK, ProcessesOK
  <2> QED BY <1>1, <2>1, <2>3, <2>4 DEF PageRowsOK, DocRowsOK, docRows
<1>4. CASE EndTypes(m)
  <2>1. /\ UNCHANGED <<classified, unformatted, unread, text, redacted>>
        /\ UNCHANGED docRows /\ UNCHANGED shards /\ typed' = typed \cup done[m]
    BY <1>4 DEF EndTypes
  <2> QED BY <1>1, <2>1 DEF PageRowsOK, DocRowsOK, ProcessesOK, docRows, shards
<1>5. CASE EndCategorizer(m)
  <2>1. /\ FlushCategories(m, done[m])
        /\ UNCHANGED pageRows /\ UNCHANGED <<documents, grievances, summary>> /\ UNCHANGED shards
    BY <1>5 DEF EndCategorizer
  <2>2. category' \in [Docs -> SUBSET SUBSET Rows]
    BY <2>1, FlushTyped
  <2> QED BY <1>1, <2>1, <2>2 DEF PageRowsOK, DocRowsOK, pageRows, shards
<1>6. CASE EndTagger(m) \/ EndSummarizer(m) \/ Kill(m)
  <2>1. UNCHANGED <<pageRows, docRows>> /\ UNCHANGED shards
    BY <1>6 DEF EndTagger, EndSummarizer, Kill
  <2> QED BY <1>1, <2>1 DEF PageRowsOK, DocRowsOK, pageRows, docRows, shards
<1> QED BY <1>2, <1>3, <1>4, <1>5, <1>6 DEF End

(* Every step. *)
LEMMA NextTyped == ASSUME TypeOK, [Next]_vars PROVE TypeOK'
<1>1. CASE Next
  <2>1. PICK m \in Processes : Start(m) \/ Work(m) \/ End(m) \/ Kill(m)
    BY <1>1 DEF Next
  <2> QED BY <2>1, StartTyped, WorkTyped, EndTyped
<1>2. CASE UNCHANGED vars
  BY <1>2 DEF TypeOK, PageRowsOK, DocRowsOK, ProcessesOK, vars, pageRows, docRows, process, shards
<1> QED BY <1>1, <1>2

(* Type correctness, for any files, processes, workers and batch sizes. *)
THEOREM PipelineTypeOK == Spec => []TypeOK
<1>1. Init => TypeOK
  BY LimitsAssumption DEF Init, TypeOK, PageRowsOK, DocRowsOK, ProcessesOK
<1>2. TypeOK /\ [Next]_vars => TypeOK'
  BY NextTyped
<1> QED BY <1>1, <1>2, PTL DEF Spec

-----------------------------------------------------------------------------
(* A process that does not move keeps what it holds, unless it reads and   *)
(* another process writes the outcome of one of its pages.                 *)
LEMMA OthersHold ==
    ASSUME IInv, Keeps, NEW n \in Processes, Same(n),
           stage[n] = "ocr_extraction" => Owed(n) \subseteq Pending'
    PROVE  Holds(n)'
<1> Holds(n) BY DEF IInv
<1>1. ASSUME stage[n] = "ocr_extraction" PROVE OcrHolds(n)'
  <2>1. Held(n)' = Held(n)
    BY DEF Held, Same
  <2> QED BY <1>1, <2>1 DEF Holds, OcrHolds, Same, Owed
<1>2. batch[n] \in SUBSET Rows
  BY DEF IInv, TypeOK, ProcessesOK
<1>3. ASSUME NEW r \in batch[n] PROVE r.page \in Pages /\ r.text \in Texts /\ r.text # NoText
  BY <1>2, TextsAssumption DEF Rows
<1>4. ASSUME stage[n] = "pii_tagger" PROVE TaggerHolds(n)'
  BY <1>3, <1>4 DEF Holds, TaggerHolds, Same, Keeps
<1>5. ASSUME stage[n] \in {"summarizer", "categorizer"} PROVE SnapshotHolds(n)'
  BY <1>3, <1>5 DEF Holds, SnapshotHolds, Same, Keeps
<1>6. stage[n] = "idle" => failed[n] = {}
  BY DEF Holds
<1> QED BY <1>1, <1>4, <1>5, <1>6 DEF Holds, Same

(* A process out of any stage holds no failures. *)
LEMMA EnterFrame ==
    ASSUME IInv, NEW m \in Processes, NEW s, NEW work, NEW snapshot, NEW known,
           Enter(m, s, work, snapshot, known)
    PROVE  /\ \A n \in Processes : n # m => Same(n)
           /\ stage[m] = "idle" /\ stage'[m] = s /\ todo'[m] = work
           /\ batch'[m] = snapshot /\ failed'[m] = {}
<1>1. failed[m] = {}
  BY DEF Enter, IInv, Holds
<1> QED BY <1>1 DEF Enter, Same, IInv, TypeOK, ProcessesOK

(* A process that leaves its stage holds nothing, and disturbs no other. *)
LEMMA LeaveFrame ==
    ASSUME IInv, NEW m \in Processes, Leave(m)
    PROVE  /\ \A n \in Processes : n # m => Same(n)
           /\ stage'[m] = "idle" /\ Holds(m)'
<1>1. stage'[m] = "idle" /\ failed'[m] = {}
  BY DEF Leave, IInv, TypeOK, ProcessesOK
<1>2. Holds(m)'
  BY <1>1 DEF Holds
<1> QED BY <1>1, <1>2 DEF Leave, Same, IInv, TypeOK, ProcessesOK

-----------------------------------------------------------------------------
(* What a step of process m has to show. *)
LEMMA StepOfOne ==
    ASSUME IInv, NEW m \in Processes, TypeOK', OneOutcome', ChainAgrees', Keeps, Holds(m)',
           \A n \in Processes : n # m => Same(n),
           \A p \in Pages : Moves(p),
           \A n \in Processes : n # m /\ stage[n] = "ocr_extraction" => Owed(n) \subseteq Pending'
    PROVE  IInv' /\ Advances
<1>1. ASSUME NEW n \in Processes PROVE Holds(n)'
  <2>1. CASE n = m
    BY <2>1
  <2>2. CASE n # m
    BY <2>2, OthersHold
  <2> QED BY <2>1, <2>2
<1> QED BY <1>1 DEF IInv, Advances

(* Where no outcome is written, what is to be read is left alone. *)
LEMMA StepOfOneElse ==
    ASSUME IInv, NEW m \in Processes, TypeOK', OneOutcome', ChainAgrees', Keeps, Holds(m)',
           \A n \in Processes : n # m => Same(n), text' = text /\ unread' = unread
    PROVE  IInv' /\ Advances
<1>1. \A p \in Pages : Moves(p)
  BY DEF Moves
<1>2. Pending \subseteq Pending'
  BY DEF Pending, Keeps
<1>3. ASSUME NEW n \in Processes, stage[n] = "ocr_extraction" PROVE Owed(n) \subseteq Pending'
  <2>1. OcrHolds(n)
    BY <1>3 DEF IInv, Holds
  <2> QED BY <1>2, <2>1 DEF OcrHolds, Owed
<1> QED BY <1>1, <1>3, StepOfOne

(* Where no page row changes, what is stated of pages stays. *)
LEMMA RowsUnchanged ==
    ASSUME IInv, UNCHANGED <<text, redacted, unread>>,
           classified \subseteq classified', UNCHANGED <<summary, category>>
    PROVE  OneOutcome' /\ ChainAgrees' /\ Keeps
BY DEF IInv, OneOutcome, ChainAgrees, Keeps

(* A step of m that writes no row at all. *)
LEMMA QuietStep ==
    ASSUME IInv, TypeOK', NEW m \in Processes, UNCHANGED <<pageRows, docRows>>,
           Holds(m)', \A n \in Processes : n # m => Same(n)
    PROVE  IInv' /\ Advances
<1>1. OneOutcome' /\ ChainAgrees' /\ Keeps
  BY RowsUnchanged DEF pageRows, docRows
<1>2. text' = text /\ unread' = unread
  BY DEF pageRows
<1> QED BY <1>1, <1>2, StepOfOneElse

-----------------------------------------------------------------------------
(* The format classifier starts with all pages. *)
LEMMA StartFormatStep ==
    ASSUME IInv, TypeOK', NEW m \in Processes, StartFormat(m) PROVE IInv' /\ Advances
<1>1. PICK known \in {classified, {}} : Enter(m, "format_classifier", Pages, {}, known)
  BY DEF StartFormat
<1>2. UNCHANGED <<pageRows, docRows>>
  BY DEF StartFormat
<1>3. (\A n \in Processes : n # m => Same(n)) /\ stage'[m] = "format_classifier"
  BY <1>1, EnterFrame
<1>4. Holds(m)'
  BY <1>3 DEF Holds
<1> QED BY <1>2, <1>3, <1>4, QuietStep

(* The tagger starts with nothing. *)
LEMMA StartTaggerStep ==
    ASSUME IInv, TypeOK', NEW m \in Processes, StartTagger(m) PROVE IInv' /\ Advances
<1>1. Enter(m, "pii_tagger", {}, {}, {}) /\ UNCHANGED <<pageRows, docRows>>
  BY DEF StartTagger
<1> DEFINE none == {}
<1>2. Enter(m, "pii_tagger", none, none, none)
  BY <1>1
<1> HIDE DEF none
<1>3. (\A n \in Processes : n # m => Same(n)) /\ stage'[m] = "pii_tagger" /\ batch'[m] = none
  BY <1>2, EnterFrame
<1>4. Holds(m)'
  BY <1>3 DEF Holds, TaggerHolds, none
<1> QED BY <1>1, <1>3, <1>4, QuietStep

(* The page type classifier starts with what is not typed. *)
LEMMA StartTypesStep ==
    ASSUME IInv, TypeOK', NEW m \in Processes, StartTypes(m) PROVE IInv' /\ Advances
<1>1. Enter(m, "page_type_classifier", classified \ typed, {}, {}) /\ UNCHANGED <<pageRows, docRows>>
  BY DEF StartTypes
<1>2. (\A n \in Processes : n # m => Same(n)) /\ stage'[m] = "page_type_classifier"
  BY <1>1, EnterFrame
<1>3. Holds(m)'
  BY <1>2 DEF Holds
<1> QED BY <1>1, <1>2, <1>3, QuietStep

(* A kill takes the buffers with it. *)
LEMMA KillStep ==
    ASSUME IInv, TypeOK', NEW m \in Processes, Kill(m) PROVE IInv' /\ Advances
<1>1. Leave(m) /\ UNCHANGED <<pageRows, docRows>>
  BY DEF Kill
<1> QED BY <1>1, LeaveFrame, QuietStep

(* The tagger ends when it finds nothing more to load. *)
LEMMA EndTaggerStep ==
    ASSUME IInv, TypeOK', NEW m \in Processes, EndTagger(m) PROVE IInv' /\ Advances
<1>1. Leave(m) /\ UNCHANGED <<pageRows, docRows>>
  BY DEF EndTagger
<1> QED BY <1>1, LeaveFrame, QuietStep

(* The summarizer ends when it finds nothing more to fetch. *)
LEMMA EndSummarizerStep ==
    ASSUME IInv, TypeOK', NEW m \in Processes, EndSummarizer(m) PROVE IInv' /\ Advances
<1>1. Leave(m) /\ UNCHANGED <<pageRows, docRows>>
  BY DEF EndSummarizer
<1> QED BY <1>1, LeaveFrame, QuietStep

-----------------------------------------------------------------------------
(* Steps inside format_classifier: rows are only added. *)
LEMMA FormatFileStep ==
    ASSUME IInv, TypeOK', NEW m \in Processes, FormatFile(m) PROVE IInv' /\ Advances
<1>1. UNCHANGED <<unread, text, redacted, typed, docRows, stage, shard, batch, done, shards>>
      /\ stage[m] = "format_classifier"
  BY DEF FormatFile
<1>2. /\ classified \subseteq classified'
      /\ \A n \in Processes : n # m => todo'[n] = todo[n] /\ failed'[n] = failed[n]
  BY FormatFileWrites DEF IInv
<1>3. OneOutcome' /\ ChainAgrees' /\ Keeps
  BY <1>1, <1>2, RowsUnchanged DEF docRows
<1>4. Holds(m)'
  BY <1>1 DEF Holds
<1>5. \A n \in Processes : n # m => Same(n)
  BY <1>1, <1>2 DEF Same
<1> QED BY <1>1, <1>3, <1>4, <1>5, StepOfOneElse

(* The last flush of the format classifier. *)
LEMMA EndFormatStep ==
    ASSUME IInv, TypeOK', NEW m \in Processes, EndFormat(m) PROVE IInv' /\ Advances
<1>1. /\ Leave(m) /\ UNCHANGED <<unread, text, redacted, typed>> /\ UNCHANGED docRows
      /\ classified' = classified
  BY DEF EndFormat, FlushFormat
<1>2. (\A n \in Processes : n # m => Same(n)) /\ Holds(m)'
  BY <1>1, LeaveFrame
<1>3. OneOutcome' /\ ChainAgrees' /\ Keeps
  BY <1>1, RowsUnchanged DEF docRows
<1> QED BY <1>1, <1>2, <1>3, StepOfOneElse

-----------------------------------------------------------------------------
(* Steps inside pii_tagger. *)
LEMMA LoadTaggerStep ==
    ASSUME IInv, TypeOK', NEW m \in Processes, LoadTagger(m) PROVE IInv' /\ Advances
<1> DEFINE loaded == {[page |-> p, text |-> text[p]] : p \in First(Untagged, BatchSize)}
<1>1. /\ stage[m] = "pii_tagger" /\ batch' = [batch EXCEPT ![m] = loaded]
      /\ UNCHANGED <<pageRows, docRows>> /\ UNCHANGED <<stage, shard, todo, done, failed>>
  BY DEF LoadTagger
<1>2. \A r \in loaded : r.text = text[r.page]
  OBVIOUS
<1> HIDE DEF loaded
<1>3. (\A n \in Processes : n # m => Same(n)) /\ batch'[m] = loaded
  BY <1>1 DEF IInv, TypeOK, ProcessesOK, Same
<1>4. Holds(m)'
  BY <1>1, <1>2, <1>3 DEF Holds, TaggerHolds, pageRows
<1> QED BY <1>1, <1>3, <1>4, QuietStep

(* A page that is tagged again gets the redaction it has. *)
LEMMA WriteTaggerStep ==
    ASSUME IInv, TypeOK', NEW m \in Processes, WriteTagger(m) PROVE IInv' /\ Advances
<1>1. /\ stage[m] = "pii_tagger" /\ redacted' = Updated(redacted, batch[m])
      /\ batch' = [batch EXCEPT ![m] = {}]
      /\ UNCHANGED <<classified, unread, text>> /\ UNCHANGED docRows
      /\ UNCHANGED <<stage, todo, done, failed>>
  BY DEF WriteTagger
<1>2. batch[m] \in SUBSET Rows /\ redacted \in [Pages -> Texts \cup {NoText}]
  BY DEF IInv, TypeOK, ProcessesOK, PageRowsOK
<1>3. ASSUME NEW p \in Pages PROVE redacted'[p] = redacted[p] \/ redacted'[p] = text[p]
  <2>1. CASE \A r \in batch[m] : r.page # p
    BY <1>1, <1>2, <2>1, UpdatedRows
  <2>2. CASE \E r \in batch[m] : r.page = p
    <3>1. PICK r \in batch[m] : r.page = p /\ redacted'[p] = r.text
      BY <1>1, <1>2, <2>2, UpdatedRows
    <3>2. r.text = text[r.page]
      BY <1>1 DEF IInv, Holds, TaggerHolds
    <3> QED BY <3>1, <3>2
  <2> QED BY <2>1, <2>2
<1>4. ChainAgrees
  BY DEF IInv
<1>5. \A p \in Pages : redacted[p] # NoText => redacted[p] = text[p] /\ redacted'[p] = redacted[p]
  BY <1>3, <1>4 DEF ChainAgrees
<1>6. Keeps
  BY <1>1, <1>5 DEF Keeps
<1>7. OneOutcome'
  BY <1>1 DEF IInv, OneOutcome
<1>8. ChainAgrees'
  <2>1. ASSUME NEW p \in Pages, redacted'[p] # NoText PROVE redacted'[p] = text'[p]
    BY <1>1, <1>3, <1>5, <2>1
  <2>2. ASSUME NEW d \in Docs, NEW r \in UNION (summary[d] \cup category[d])
        PROVE  r.text = redacted'[r.page]
    <3>1. r \in Rows
      BY DEF IInv, TypeOK, DocRowsOK
    <3>2. r.page \in Pages /\ r.text # NoText
      BY <3>1, TextsAssumption DEF Rows
    <3>3. r.text = redacted[r.page]
      BY <1>4 DEF ChainAgrees
    <3> QED BY <1>5, <3>2, <3>3
  <2> QED BY <1>1, <2>1, <2>2 DEF ChainAgrees, docRows
<1>9. (\A n \in Processes : n # m => Same(n)) /\ Holds(m)'
  BY <1>1 DEF IInv, TypeOK, ProcessesOK, Same, Holds, TaggerHolds
<1> QED BY <1>1, <1>6, <1>7, <1>8, <1>9, StepOfOneElse

-----------------------------------------------------------------------------
(* Steps inside page_type_classifier. *)
LEMMA TypePageStep ==
    ASSUME IInv, TypeOK', NEW m \in Processes, TypePage(m) PROVE IInv' /\ Advances
<1>1. /\ stage[m] = "page_type_classifier"
      /\ UNCHANGED <<classified, unformatted, unread, text, redacted>> /\ UNCHANGED docRows
      /\ UNCHANGED <<stage, batch, failed>>
      /\ todo' = [todo EXCEPT ![m] = @ \ {Least(todo[m])}]
  BY DEF TypePage
<1>2. (\A n \in Processes : n # m => Same(n)) /\ Holds(m)'
  BY <1>1 DEF Same, Holds
<1>3. OneOutcome' /\ ChainAgrees' /\ Keeps
  BY <1>1, RowsUnchanged DEF docRows
<1> QED BY <1>1, <1>2, <1>3, StepOfOneElse

(* The last flush of the page type classifier. *)
LEMMA EndTypesStep ==
    ASSUME IInv, TypeOK', NEW m \in Processes, EndTypes(m) PROVE IInv' /\ Advances
<1>1. /\ Leave(m) /\ UNCHANGED <<classified, unformatted, unread, text, redacted>>
      /\ UNCHANGED docRows
  BY DEF EndTypes
<1>2. (\A n \in Processes : n # m => Same(n)) /\ Holds(m)'
  BY <1>1, LeaveFrame
<1>3. OneOutcome' /\ ChainAgrees' /\ Keeps
  BY <1>1, RowsUnchanged DEF docRows
<1> QED BY <1>1, <1>2, <1>3, StepOfOneElse

-----------------------------------------------------------------------------
(* Steps inside ocr_extraction, of one process of those that are in it. *)
LEMMA StartOcrStep ==
    ASSUME IInv, TypeOK', NEW m \in Processes, StartOcr(m) PROVE IInv' /\ Advances
<1> DEFINE none == {}
<1>1. PICK id : Enter(m, "ocr_extraction", Slice(Pending, id), none, none)
  BY DEF StartOcr
<1>2. UNCHANGED <<pageRows, docRows>>
  BY DEF StartOcr
<1>3. Slice(Pending, id) \subseteq Pending
  BY DEF Slice
<1> HIDE DEF none
<1>4. /\ \A n \in Processes : n # m => Same(n)
      /\ stage'[m] = "ocr_extraction" /\ todo'[m] = Slice(Pending, id)
      /\ batch'[m] = none /\ failed'[m] = {}
  BY <1>1, EnterFrame
<1>5. OcrHolds(m)'
  <2>1. Pending' = Pending
    BY <1>2 DEF Pending, pageRows
  <2>2. Held(m)' = {}
    BY <1>4 DEF Held, none
  <2> QED BY <1>3, <1>4, <2>1, <2>2 DEF OcrHolds
<1>6. Holds(m)'
  BY <1>4, <1>5 DEF Holds
<1> QED BY <1>2, <1>4, <1>6, QuietStep

(* Texts and failures that are written belong to pending pages. *)
LEMMA OcrWrites ==
    ASSUME IInv, NEW m \in Processes, stage[m] = "ocr_extraction",
           NEW rows \in SUBSET Rows, NEW bad \in SUBSET Pages,
           \A r \in rows : r.page \in Pending, bad \subseteq Pending,
           \A r \in rows : r.page \notin bad,
           text' = Updated(text, rows), unread' = unread \cup bad,
           UNCHANGED <<classified, redacted>>, UNCHANGED docRows
    PROVE  /\ OneOutcome' /\ ChainAgrees' /\ Keeps /\ \A p \in Pages : Moves(p)
           /\ \A p \in Pending : p \notin bad /\ (\A r \in rows : r.page # p) => p \in Pending'
<1>1. text \in [Pages -> Texts \cup {NoText}] /\ unread \subseteq Pages
  BY DEF IInv, TypeOK, PageRowsOK
<1>2. \A p \in Pages : (\A r \in rows : r.page # p) => text'[p] = text[p]
  BY <1>1, UpdatedRows
<1>3. \A p \in Pages : text[p] # NoText => text'[p] = text[p]
  BY <1>2 DEF Pending
<1>4. \A p \in Pages : p \in unread => text'[p] = text[p]
  BY <1>2 DEF Pending
<1>5. OneOutcome'
  <2> SUFFICES ASSUME NEW p \in unread' PROVE p \in classified' /\ text'[p] = NoText
    BY DEF OneOutcome
  <2>1. CASE p \in unread
    BY <1>1, <1>4, <2>1 DEF IInv, OneOutcome
  <2>2. CASE p \in bad
    <3>1. p \in classified /\ text[p] = NoText /\ \A r \in rows : r.page # p
      BY <2>2 DEF Pending
    <3> QED BY <1>2, <2>2, <3>1
  <2> QED BY <2>1, <2>2
<1>6. ChainAgrees'
  BY <1>3 DEF IInv, ChainAgrees, docRows
<1>7. Keeps
  BY <1>3 DEF Keeps
<1>8. ASSUME NEW p \in Pending, p \notin bad, \A r \in rows : r.page # p PROVE p \in Pending'
  <2>1. p \in Pages /\ p \in classified /\ text[p] = NoText /\ p \notin unread
    BY DEF Pending, IInv, TypeOK, PageRowsOK
  <2> QED BY <1>2, <1>8, <2>1 DEF Pending
<1>9. ASSUME NEW p \in Pages PROVE Moves(p)
  <2>1. CASE p \in bad \/ \E r \in rows : r.page = p
    BY <2>1 DEF Moves
  <2>2. CASE p \notin bad /\ \A r \in rows : r.page # p
    BY <1>2, <2>2 DEF Moves
  <2> QED BY <2>1, <2>2
<1> QED BY <1>5, <1>6, <1>7, <1>8, <1>9

(* What another OCR process answers for is not what this one writes. *)
LEMMA OthersAreApart ==
    ASSUME IInv, Disjoint, NEW m \in Processes, stage[m] = "ocr_extraction",
           NEW written \in SUBSET Owed(m), \A p \in Pending : p \notin written => p \in Pending'
    PROVE  \A n \in Processes : n # m /\ stage[n] = "ocr_extraction" => Owed(n) \subseteq Pending'
<1> SUFFICES ASSUME NEW n \in Processes, n # m, stage[n] = "ocr_extraction", NEW p \in Owed(n)
             PROVE  p \in Pending'
  OBVIOUS
<1>1. p \in Pending
  BY DEF IInv, Holds, OcrHolds, Owed
<1>2. Owed(m) \cap Owed(n) = {}
  BY DEF Disjoint
<1> QED BY <1>1, <1>2

(* The last flush of the OCR stage, texts and failures. *)
LEMMA EndOcrStep ==
    ASSUME IInv, TypeOK', Disjoint, NEW m \in Processes, EndOcr(m) PROVE IInv' /\ Advances
<1>1. /\ stage[m] = "ocr_extraction" /\ Leave(m)
      /\ text' = Updated(text, batch[m]) /\ unread' = unread \cup failed[m]
      /\ UNCHANGED <<classified, redacted>> /\ UNCHANGED docRows
  BY DEF EndOcr
<1>2. (\A n \in Processes : n # m => Same(n)) /\ Holds(m)'
  BY <1>1, LeaveFrame
<1>3. batch[m] \in SUBSET Rows /\ failed[m] \in SUBSET Pages
  BY DEF IInv, TypeOK, ProcessesOK
<1>4. OcrHolds(m)
  BY <1>1 DEF IInv, Holds
<1>5. /\ \A r \in batch[m] : r.page \in Pending /\ r.page \notin failed[m]
      /\ failed[m] \subseteq Pending
  BY <1>4 DEF OcrHolds, Held
<1>6. /\ OneOutcome' /\ ChainAgrees' /\ Keeps /\ \A p \in Pages : Moves(p)
      /\ \A p \in Pending : p \notin failed[m] /\ (\A r \in batch[m] : r.page # p) => p \in Pending'
  BY <1>1, <1>3, <1>5, OcrWrites
<1>7. \A n \in Processes : n # m /\ stage[n] = "ocr_extraction" => Owed(n) \subseteq Pending'
  <2>1. Held(m) \cup failed[m] \in SUBSET Owed(m)
    BY DEF Owed
  <2>2. \A p \in Pending : p \notin Held(m) \cup failed[m] => p \in Pending'
    BY <1>6 DEF Held
  <2> QED BY <1>1, <2>1, <2>2, OthersAreApart
<1> QED BY <1>2, <1>6, <1>7, StepOfOne

(* One page more, of those left, is read ... *)
LEMMA OcrTextStep ==
    ASSUME IInv, TypeOK', Disjoint, NEW m \in Processes, stage[m] = "ocr_extraction", todo[m] # {},
           NEW t \in Texts, NEW rows, rows = batch[m] \cup {[page |-> Least(todo[m]), text |-> t]},
           \/ text' = Updated(text, rows) /\ batch' = [batch EXCEPT ![m] = {}]
           \/ batch' = [batch EXCEPT ![m] = rows] /\ UNCHANGED text,
           UNCHANGED <<failed, unread>>, todo' = [todo EXCEPT ![m] = @ \ {Least(todo[m])}],
           UNCHANGED <<classified, unformatted, redacted, typed>>, UNCHANGED docRows,
           UNCHANGED <<stage, shard, done>>, UNCHANGED shards
    PROVE  IInv' /\ Advances
<1> DEFINE p == Least(todo[m])
<1>1. todo[m] \in SUBSET Pages /\ batch[m] \in SUBSET Rows /\ failed[m] \in SUBSET Pages
  BY DEF IInv, TypeOK, ProcessesOK
<1>2. p \in todo[m]
  BY <1>1, LeastExists
<1>3. OcrHolds(m)
  BY DEF IInv, Holds
<1> HIDE DEF p
<1>4. rows = batch[m] \cup {[page |-> p, text |-> t]}
      /\ todo' = [todo EXCEPT ![m] = @ \ {p}]
  BY DEF p
<1>5. rows \in SUBSET Rows
  BY <1>1, <1>2, <1>4 DEF Rows
<1>6. \A r \in rows : r.page \in Held(m) \cup {p}
  BY <1>4 DEF Held
<1>7. \A r \in rows : r.page \in Pending /\ r.page \notin failed[m] /\ r.page \notin todo[m] \ {p}
  BY <1>2, <1>3, <1>6 DEF OcrHolds
<1>8. todo'[m] = todo[m] \ {p} /\ \A n \in Processes : n # m => Same(n)
  BY <1>4 DEF IInv, TypeOK, ProcessesOK, Same
<1>9. CASE text' = Updated(text, rows) /\ batch' = [batch EXCEPT ![m] = {}]
  <2> DEFINE bad == {}
  <2>1. /\ bad \in SUBSET Pages /\ bad \subseteq Pending /\ unread' = unread \cup bad
        /\ \A r \in rows : r.page \notin bad
    OBVIOUS
  <2> HIDE DEF bad
  <2>2. /\ OneOutcome' /\ ChainAgrees' /\ Keeps /\ \A q \in Pages : Moves(q)
        /\ \A q \in Pending : q \notin bad /\ (\A r \in rows : r.page # q) => q \in Pending'
    <3>1. \A r \in rows : r.page \in Pending
      BY <1>7
    <3>2. text' = Updated(text, rows) /\ UNCHANGED <<classified, redacted>>
      BY <1>9
    <3> QED BY <1>5, <2>1, <3>1, <3>2, OcrWrites
  <2>3. \A q \in (todo[m] \ {p}) \cup failed[m] : q \in Pending'
    <3> SUFFICES ASSUME NEW q \in (todo[m] \ {p}) \cup failed[m] PROVE q \in Pending'
      OBVIOUS
    <3>1. q \in Pending /\ \A r \in rows : r.page # q
      BY <1>3, <1>7 DEF OcrHolds
    <3> QED BY <2>2, <3>1 DEF bad
  <2>4. batch'[m] = {}
    BY <1>9 DEF IInv, TypeOK, ProcessesOK
  <2>5. Held(m)' = {} /\ failed'[m] = failed[m]
    BY <2>4 DEF Held
  <2>6. OcrHolds(m)'
    BY <1>3, <1>8, <2>3, <2>5 DEF OcrHolds
  <2>7. Holds(m)'
    BY <2>6 DEF Holds
  <2>8. \A n \in Processes : n # m /\ stage[n] = "ocr_extraction" => Owed(n) \subseteq Pending'
    <3>1. Held(m) \cup {p} \in SUBSET Owed(m)
      BY <1>2 DEF Owed
    <3>2. \A q \in Pending : q \notin Held(m) \cup {p} => q \in Pending'
      BY <1>6, <2>2 DEF bad
    <3> QED BY <3>1, <3>2, OthersAreApart
  <2> QED BY <1>8, <2>2, <2>7, <2>8, StepOfOne
<1>10. CASE batch' = [batch EXCEPT ![m] = rows] /\ UNCHANGED text
  <2>1. Pending' = Pending
    BY <1>10 DEF Pending
  <2>2. batch'[m] = rows
    BY <1>10 DEF IInv, TypeOK, ProcessesOK
  <2>3. Held(m)' = Held(m) \cup {p}
    <3>1. Held(m)' = {r.page : r \in rows}
      BY <2>2 DEF Held
    <3>2. \A x : x \in {r.page : r \in rows} => x \in Held(m) \cup {p}
      BY <1>6
    <3>3. \A r \in batch[m] : r \in rows
      BY <1>4
    <3>4. [page |-> p, text |-> t] \in rows /\ [page |-> p, text |-> t].page = p
      BY <1>4
    <3>5. \A x : x \in Held(m) \cup {p} => x \in {r.page : r \in rows}
      BY <3>3, <3>4 DEF Held
    <3> QED BY <3>1, <3>2, <3>5
  <2>4. OcrHolds(m)'
    BY <1>2, <1>3, <1>8, <2>1, <2>3 DEF OcrHolds
  <2>5. Holds(m)'
    BY <2>4 DEF Holds
  <2>6. UNCHANGED <<pageRows, docRows>>
    BY <1>10 DEF pageRows
  <2> QED BY <1>8, <2>5, <2>6, QuietStep
<1> QED BY <1>9, <1>10

(* ... or fails. *)
LEMMA OcrFailureStep ==
    ASSUME IInv, TypeOK', Disjoint, NEW m \in Processes, stage[m] = "ocr_extraction", todo[m] # {},
           NEW rows, rows = failed[m] \cup {Least(todo[m])},
           \/ unread' = unread \cup rows /\ failed' = [failed EXCEPT ![m] = {}]
           \/ failed' = [failed EXCEPT ![m] = rows] /\ UNCHANGED unread,
           UNCHANGED <<batch, text>>, todo' = [todo EXCEPT ![m] = @ \ {Least(todo[m])}],
           UNCHANGED <<classified, unformatted, redacted, typed>>, UNCHANGED docRows,
           UNCHANGED <<stage, shard, done>>, UNCHANGED shards
    PROVE  IInv' /\ Advances
<1> DEFINE p == Least(todo[m])
<1>1. todo[m] \in SUBSET Pages /\ batch[m] \in SUBSET Rows /\ failed[m] \in SUBSET Pages
  BY DEF IInv, TypeOK, ProcessesOK
<1>2. p \in todo[m]
  BY <1>1, LeastExists
<1>3. OcrHolds(m)
  BY DEF IInv, Holds
<1> HIDE DEF p
<1>4. rows = failed[m] \cup {p} /\ todo' = [todo EXCEPT ![m] = @ \ {p}]
  BY DEF p
<1>5. rows \in SUBSET Pages /\ rows \subseteq Pending
  BY <1>1, <1>2, <1>3, <1>4 DEF OcrHolds
<1>6. todo'[m] = todo[m] \ {p} /\ \A n \in Processes : n # m => Same(n)
  BY <1>4 DEF IInv, TypeOK, ProcessesOK, Same
<1>7. Held(m)' = Held(m)
  BY DEF Held
<1>8. OneOutcome' /\ ChainAgrees' /\ Keeps
  <2>1. \A q \in unread' : q \in unread \/ q \in Pending
    BY <1>5
  <2>2. OneOutcome'
    BY <2>1 DEF IInv, OneOutcome, Pending
  <2> QED BY <2>2 DEF IInv, ChainAgrees, Keeps, docRows
<1>9. \A q \in Pending : q \notin rows => q \in Pending'
  BY DEF Pending
<1>10. OcrHolds(m)'
  <2>1. CASE unread' = unread \cup rows /\ failed' = [failed EXCEPT ![m] = {}]
    <3>1. failed'[m] = {}
      BY <2>1 DEF IInv, TypeOK, ProcessesOK
    <3>2. \A q \in (todo[m] \ {p}) \cup Held(m) : q \in Pending /\ q \notin rows
      BY <1>2, <1>3, <1>4 DEF OcrHolds
    <3>3. (todo[m] \ {p}) \cap Held(m) = {}
      BY <1>3 DEF OcrHolds
    <3> QED BY <1>6, <1>7, <1>9, <3>1, <3>2, <3>3 DEF OcrHolds
  <2>2. CASE failed' = [failed EXCEPT ![m] = rows] /\ UNCHANGED unread
    <3>1. Pending' = Pending
      BY <2>2 DEF Pending
    <3>2. failed'[m] = rows
      BY <2>2 DEF IInv, TypeOK, ProcessesOK
    <3> QED BY <1>2, <1>3, <1>4, <1>5, <1>6, <1>7, <3>1, <3>2 DEF OcrHolds
  <2> QED BY <2>1, <2>2
<1>11. Holds(m)'
  BY <1>10 DEF Holds
<1>12. \A q \in Pages : Moves(q)
  BY <1>5 DEF Moves
<1>13. \A n \in Processes : n # m /\ stage[n] = "ocr_extraction" => Owed(n) \subseteq Pending'
  <2>1. rows \in SUBSET Owed(m)
    BY <1>2, <1>4 DEF Owed
  <2> QED BY <1>9, <2>1, OthersAreApart
<1> QED BY <1>6, <1>8, <1>11, <1>12, <1>13, StepOfOne

(* One page of the OCR stage: a text or a failure, with the flush it may cause. *)
LEMMA OcrPageStep ==
    ASSUME IInv, TypeOK', Disjoint, NEW m \in Processes, OcrPage(m) PROVE IInv' /\ Advances
<1>1. /\ stage[m] = "ocr_extraction" /\ todo[m] # {}
      /\ UNCHANGED <<classified, unformatted, redacted, typed>> /\ UNCHANGED docRows
      /\ UNCHANGED <<stage, shard, done>> /\ UNCHANGED shards
      /\ todo' = [todo EXCEPT ![m] = @ \ {Least(todo[m])}]
  BY DEF OcrPage
<1>2. \/ \E t \in Texts :
           LET rows == batch[m] \cup {[page |-> Least(todo[m]), text |-> t]}
           IN  /\ \/ text' = Updated(text, rows) /\ batch' = [batch EXCEPT ![m] = {}]
                  \/ batch' = [batch EXCEPT ![m] = rows] /\ UNCHANGED text
               /\ UNCHANGED <<failed, unread>>
      \/ LET rows == failed[m] \cup {Least(todo[m])}
         IN  /\ \/ unread' = unread \cup rows /\ failed' = [failed EXCEPT ![m] = {}]
                \/ failed' = [failed EXCEPT ![m] = rows] /\ UNCHANGED unread
             /\ UNCHANGED <<batch, text>>
  BY DEF OcrPage
<1>3. CASE \E t \in Texts :
           LET rows == batch[m] \cup {[page |-> Least(todo[m]), text |-> t]}
           IN  /\ \/ text' = Updated(text, rows) /\ batch' = [batch EXCEPT ![m] = {}]
                  \/ batch' = [batch EXCEPT ![m] = rows] /\ UNCHANGED text
               /\ UNCHANGED <<failed, unread>>
  BY <1>1, <1>3, OcrTextStep
<1>4. CASE LET rows == failed[m] \cup {Least(todo[m])}
           IN  /\ \/ unread' = unread \cup rows /\ failed' = [failed EXCEPT ![m] = {}]
                  \/ failed' = [failed EXCEPT ![m] = rows] /\ UNCHANGED unread
               /\ UNCHANGED <<batch, text>>
  BY <1>1, <1>4, OcrFailureStep
<1> QED BY <1>2, <1>3, <1>4

-----------------------------------------------------------------------------
(* Steps inside summarizer and categorizer: what they write is what they   *)
(* hold, and what they hold are redactions the pages have.                 *)
LEMMA SnapshotsAgree ==
    /\ \A ps : \A r \in Redactions(ps) : r.text = redacted[r.page]
    /\ \A ds : \A r \in UNION {Substance(d) : d \in ds} : r.text = redacted[r.page]
BY DEF Substance, Redactions

(* The summarizer makes the rows of documents and fetches. *)
LEMMA StartSummarizerStep ==
    ASSUME IInv, TypeOK', NEW m \in Processes, StartSummarizer(m) PROVE IInv' /\ Advances
<1>1. PICK ds : Enter(m, "summarizer", {}, UNION {Substance(d) : d \in ds}, {})
  BY DEF StartSummarizer
<1>2. UNCHANGED <<grievances, summary, category>> /\ UNCHANGED pageRows
  BY DEF StartSummarizer
<1> DEFINE none == {}
           snapshot == UNION {Substance(d) : d \in ds}
<1>3. \A r \in snapshot : r.text = redacted[r.page]
  BY SnapshotsAgree
<1>4. Enter(m, "summarizer", none, snapshot, none)
  BY <1>1
<1> HIDE DEF none, snapshot
<1>5. /\ \A n \in Processes : n # m => Same(n)
      /\ stage'[m] = "summarizer" /\ batch'[m] = snapshot
  BY <1>4, EnterFrame
<1>6. OneOutcome' /\ ChainAgrees' /\ Keeps
  BY <1>2, RowsUnchanged DEF pageRows
<1>7. Holds(m)'
  BY <1>2, <1>3, <1>5 DEF Holds, SnapshotHolds, pageRows
<1> QED BY <1>2, <1>5, <1>6, <1>7, StepOfOneElse DEF pageRows

(* The next fetch. *)
LEMMA FetchSummarizerStep ==
    ASSUME IInv, TypeOK', NEW m \in Processes, FetchSummarizer(m) PROVE IInv' /\ Advances
<1>1. PICK ds : batch' = [batch EXCEPT ![m] = UNION {Substance(d) : d \in ds}]
  BY DEF FetchSummarizer
<1>2. /\ stage[m] = "summarizer" /\ UNCHANGED <<pageRows, docRows>>
      /\ UNCHANGED <<stage, shard, todo, done, failed>>
  BY DEF FetchSummarizer
<1> DEFINE snapshot == UNION {Substance(d) : d \in ds}
<1>3. \A r \in snapshot : r.text = redacted[r.page]
  BY SnapshotsAgree
<1>4. batch' = [batch EXCEPT ![m] = snapshot]
  BY <1>1
<1> HIDE DEF snapshot
<1>5. (\A n \in Processes : n # m => Same(n)) /\ batch'[m] = snapshot
  BY <1>2, <1>4 DEF IInv, TypeOK, ProcessesOK, Same
<1>6. Holds(m)'
  BY <1>2, <1>3, <1>5 DEF Holds, SnapshotHolds, pageRows
<1> QED BY <1>2, <1>5, <1>6, QuietStep

(* Summaries or categories that are written are of a process's snapshot. *)
LEMMA DocWrites ==
    ASSUME IInv, NEW m \in Processes, stage[m] \in {"summarizer", "categorizer"},
           \A d \in Docs : \A f \in summary'[d] : f \in summary[d] \/ f \subseteq batch[m],
           \A d \in Docs : \A f \in category'[d] : f \in category[d] \/ f \subseteq batch[m],
           UNCHANGED pageRows
    PROVE  OneOutcome' /\ ChainAgrees' /\ Keeps /\ text' = text /\ unread' = unread
<1>1. SnapshotHolds(m) /\ ChainAgrees
  BY DEF IInv, Holds
<1>2. ASSUME NEW d \in Docs, NEW f \in summary'[d] \cup category'[d], NEW r \in f
      PROVE  r.text = redacted[r.page]
  <2>1. f \in summary[d] \cup category[d] \/ f \subseteq batch[m]
    OBVIOUS
  <2> QED BY <1>1, <2>1 DEF ChainAgrees, SnapshotHolds
<1>3. ASSUME NEW d \in Docs, NEW r \in UNION (summary'[d] \cup category'[d])
      PROVE  r.text = redacted'[r.page]
  BY <1>2 DEF pageRows
<1>4. ChainAgrees'
  BY <1>1, <1>3 DEF ChainAgrees, pageRows
<1> QED BY <1>4 DEF IInv, OneOutcome, Keeps, pageRows

(* A summary is of the snapshot, or blank. *)
LEMMA SummarizeDocumentStep ==
    ASSUME IInv, TypeOK', NEW m \in Processes, SummarizeDocument(m) \/ SummarizeBlank(m)
    PROVE  IInv' /\ Advances
<1>0. PICK d, made : WriteSummary(m, d, made) /\ \A f \in made : f = About(d, batch[m])
  BY SummaryMade
<1>1. /\ stage[m] = "summarizer"
      /\ summary' = [summary EXCEPT ![d] = made]
      /\ batch' = [batch EXCEPT ![m] = @ \ About(d, @)]
      /\ UNCHANGED pageRows /\ UNCHANGED category /\ UNCHANGED <<stage, todo, done, failed>>
  BY <1>0 DEF WriteSummary
<1>2. \A e \in Docs : \A f \in summary'[e] : f \in summary[e] \/ f \subseteq batch[m]
  BY <1>0, <1>1 DEF About, IInv, TypeOK, DocRowsOK
<1>3. OneOutcome' /\ ChainAgrees' /\ Keeps /\ text' = text /\ unread' = unread
  BY <1>1, <1>2, DocWrites
<1>4. /\ \A n \in Processes : n # m => Same(n)
      /\ batch'[m] = batch[m] \ About(d, batch[m])
  BY <1>1 DEF IInv, TypeOK, ProcessesOK, Same
<1>5. SnapshotHolds(m)
  BY <1>1 DEF IInv, Holds
<1>6. Holds(m)'
  BY <1>1, <1>4, <1>5 DEF Holds, SnapshotHolds, pageRows
<1> QED BY <1>3, <1>4, <1>6, StepOfOneElse

(* The categorizer ingests complaints and takes its snapshot. *)
LEMMA StartCategorizerStep ==
    ASSUME IInv, TypeOK', NEW m \in Processes, StartCategorizer(m) PROVE IInv' /\ Advances
<1> DEFINE ps == {p \in Pages : DocOf[p] \in grievances' /\ category[DocOf[p]] = {}}
           none == {}
<1>1. /\ Enter(m, "categorizer", ps, Redactions(ps), none)
      /\ UNCHANGED pageRows /\ UNCHANGED <<summary, category>>
  BY DEF StartCategorizer
<1> HIDE DEF ps, none
<1>2. /\ \A n \in Processes : n # m => Same(n)
      /\ stage'[m] = "categorizer" /\ batch'[m] = Redactions(ps)
  BY <1>1, EnterFrame
<1>3. OneOutcome' /\ ChainAgrees' /\ Keeps
  BY <1>1, RowsUnchanged DEF pageRows
<1>4. Holds(m)'
  BY <1>1, <1>2, SnapshotsAgree DEF Holds, SnapshotHolds, pageRows
<1> QED BY <1>1, <1>2, <1>3, <1>4, StepOfOneElse DEF pageRows

(* A flush of any documents. *)
LEMMA FlushCategoriesWrites ==
    ASSUME NEW m \in Processes, NEW ps, FlushCategories(m, ps)
    PROVE  \A d \in Docs : \A f \in category'[d] : f \in category[d] \/ f \subseteq batch[m]
BY DEF FlushCategories, About

(* One document, with the flush it may cause. *)
LEMMA CategorizeDocumentStep ==
    ASSUME IInv, TypeOK', NEW m \in Processes, CategorizeDocument(m) PROVE IInv' /\ Advances
<1> DEFINE ps == PagesOf(DocOf[Least(todo[m])])
<1>1. /\ stage[m] = "categorizer" /\ todo' = [todo EXCEPT ![m] = @ \ ps]
      /\ UNCHANGED pageRows /\ UNCHANGED summary /\ UNCHANGED <<stage, batch, failed>>
      /\ (\E ready : FlushCategories(m, ready)) \/ UNCHANGED category
  BY DEF CategorizeDocument
<1> HIDE DEF ps
<1>2. \A d \in Docs : \A f \in category'[d] : f \in category[d] \/ f \subseteq batch[m]
  BY <1>1, FlushCategoriesWrites
<1>3. OneOutcome' /\ ChainAgrees' /\ Keeps /\ text' = text /\ unread' = unread
  BY <1>1, <1>2, DocWrites
<1>4. \A n \in Processes : n # m => Same(n)
  BY <1>1 DEF Same
<1>5. SnapshotHolds(m)
  BY <1>1 DEF IInv, Holds
<1>6. Holds(m)'
  BY <1>1, <1>5 DEF Holds, SnapshotHolds, pageRows
<1> QED BY <1>3, <1>4, <1>6, StepOfOneElse

(* The last flush of the categorizer. *)
LEMMA EndCategorizerStep ==
    ASSUME IInv, TypeOK', NEW m \in Processes, EndCategorizer(m) PROVE IInv' /\ Advances
<1>1. /\ stage[m] = "categorizer" /\ Leave(m) /\ FlushCategories(m, done[m])
      /\ UNCHANGED pageRows /\ UNCHANGED summary
  BY DEF EndCategorizer
<1>2. (\A n \in Processes : n # m => Same(n)) /\ Holds(m)'
  BY <1>1, LeaveFrame
<1>3. \A d \in Docs : \A f \in category'[d] : f \in category[d] \/ f \subseteq batch[m]
  BY <1>1, FlushCategoriesWrites
<1>4. OneOutcome' /\ ChainAgrees' /\ Keeps /\ text' = text /\ unread' = unread
  BY <1>1, <1>3, DocWrites
<1> QED BY <1>2, <1>4, StepOfOneElse

-----------------------------------------------------------------------------
(* The invariant of every step, in whichever stage it is taken. *)
LEMMA NextStep ==
    ASSUME IInv, TypeOK', Disjoint, Next PROVE IInv' /\ Advances
<1>1. PICK m \in Processes : Start(m) \/ Work(m) \/ End(m) \/ Kill(m)
  BY DEF Next
<1>2. CASE Start(m)
  BY <1>2, StartFormatStep, StartOcrStep, StartTaggerStep, StartTypesStep,
     StartSummarizerStep, StartCategorizerStep DEF Start
<1>3. CASE Work(m)
  BY <1>3, FormatFileStep, OcrPageStep, LoadTaggerStep, WriteTaggerStep, TypePageStep,
     SummarizeDocumentStep, FetchSummarizerStep, CategorizeDocumentStep DEF Work
<1>4. CASE End(m)
  BY <1>4, EndFormatStep, EndOcrStep, EndTaggerStep, EndTypesStep,
     EndSummarizerStep, EndCategorizerStep DEF End
<1> QED BY <1>1, <1>2, <1>3, <1>4, KillStep

(* The empty database. *)
LEMMA InitHolds == Init => IInv
<1> SUFFICES ASSUME Init PROVE IInv
  OBVIOUS
<1>1. TypeOK
  BY LimitsAssumption DEF Init, TypeOK, PageRowsOK, DocRowsOK, ProcessesOK
<1>2. OneOutcome
  BY DEF Init, OneOutcome
<1>3. ChainAgrees
  BY DEF Init, ChainAgrees
<1>4. \A m \in Processes : stage[m] = "idle" /\ failed[m] = {}
  BY DEF Init
<1> QED BY <1>1, <1>2, <1>3, <1>4 DEF IInv, Holds

(* A step that changes nothing. *)
LEMMA StutterStep ==
    ASSUME IInv, TypeOK', UNCHANGED vars PROVE IInv' /\ Advances
<1>1. UNCHANGED <<classified, unformatted, unread, text, redacted, typed>>
      /\ UNCHANGED <<documents, grievances, summary, category>>
      /\ UNCHANGED <<stage, shard, todo, batch, done, failed>> /\ UNCHANGED <<waiting, ran>>
  BY DEF vars, pageRows, docRows, process, shards
<1>2. IInv'
  BY <1>1 DEF IInv, OneOutcome, ChainAgrees, Holds, OcrHolds, TaggerHolds, SnapshotHolds, Held, Pending
<1>3. Advances
  BY <1>1 DEF Advances, Keeps, Moves
<1> QED BY <1>2, <1>3

(* Every step of a behaviour in which OCR processes answer for different   *)
(* pages.                                                                  *)
LEMMA InvariantStep == IInv /\ Disjoint /\ [Next]_vars => IInv' /\ Advances
BY NextTyped, NextStep, StutterStep DEF IInv

(* While OCR processes answer for different pages, whatever else overlaps  *)
(* and is killed: what a process holds still agrees with the database.     *)
THEOREM PipelineInvariant == Spec /\ []Disjoint => []IInv
<1>1. IInv /\ Disjoint /\ [Next]_vars => IInv'
  BY InvariantStep
<1> QED BY <1>1, InitHolds, PTL DEF Spec

(* No page is read and recorded as unreadable, however often OCR is killed *)
(* and resumed.                                                            *)
THEOREM PipelineOneOutcome == Spec /\ []Disjoint => []OneOutcome
<1>1. IInv => OneOutcome
  BY DEF IInv
<1> QED BY <1>1, PipelineInvariant, PTL

(* What was redacted is the text there is, and what was summarised and     *)
(* categorised are the redactions there are.                               *)
THEOREM PipelineChainAgrees == Spec /\ []Disjoint => []ChainAgrees
<1>1. IInv => ChainAgrees
  BY DEF IInv
<1> QED BY <1>1, PipelineInvariant, PTL

-----------------------------------------------------------------------------
(* The promise for each page: how far it has come is a state of PageFlow,  *)
(* and a step takes it nowhere but along an edge.                          *)
LEMMA PageStateType == ASSUME IInv', NEW p \in Pages PROVE PageState(p)' \in Flow!States
<1>1. text'[p] \in Texts \cup {NoText} /\ redacted'[p] \in Texts \cup {NoText}
  BY DEF IInv, TypeOK, PageRowsOK
<1> QED BY <1>1 DEF PageState, Flow!States

(* What is derived from a page is there already when the page moves on.    *)
LEMMA PageAdvances ==
    ASSUME IInv, IInv', Advances, NEW p \in Pages
    PROVE  PageState(p)' = PageState(p) \/ Flow!Edge(PageState(p), PageState(p)')
<1>1. /\ redacted[p] # NoText => redacted[p] = text[p] /\ redacted'[p] = redacted[p]
      /\ redacted'[p] # NoText => redacted'[p] = text'[p]
      /\ p \in classified => p \in classified'
      /\ p \in unread => p \in classified
      /\ p \in unread' => text'[p] = NoText
  BY DEF IInv, ChainAgrees, OneOutcome, Advances, Keeps
<1>2. CASE p \in Pending /\ redacted'[p] = redacted[p]
  <2>1. p \in classified /\ text[p] = NoText /\ p \notin unread /\ redacted[p] = NoText
    BY <1>1, <1>2 DEF Pending
  <2>2. PageState(p) = [at |-> "discovered"]
    BY <2>1 DEF PageState
  <2>3. CASE text'[p] # NoText
    <3>1. PageState(p)' = [at |-> "read", text |-> text'[p]]
      BY <1>2, <2>1, <2>3 DEF PageState
    <3> QED BY <2>2, <3>1 DEF Flow!Edge
  <2>4. CASE text'[p] = NoText /\ p \in unread'
    <3>1. PageState(p)' = [at |-> "unreadable"]
      BY <1>2, <2>1, <2>4 DEF PageState
    <3> QED BY <2>2, <3>1 DEF Flow!Edge
  <2>5. CASE text'[p] = NoText /\ p \notin unread'
    <3>1. PageState(p)' = [at |-> "discovered"]
      BY <1>1, <1>2, <2>1, <2>5 DEF PageState
    <3> QED BY <2>2, <3>1
  <2> QED BY <2>3, <2>4, <2>5
<1>3. CASE text'[p] = text[p] /\ (p \in unread' <=> p \in unread)
  <2>1. CASE redacted'[p] # redacted[p]
    <3>1. redacted[p] = NoText /\ redacted'[p] = text[p] /\ text[p] # NoText /\ redacted'[p] # NoText
      BY <1>1, <1>3, <2>1
    <3>2. PageState(p) = [at |-> "read", text |-> text[p]]
      BY <3>1 DEF PageState
    <3>3. PageState(p)' = [at |-> "redacted", text |-> text[p]]
      BY <3>1 DEF PageState
    <3> QED BY <3>2, <3>3 DEF Flow!Edge
  <2>2. CASE redacted'[p] = redacted[p] /\ (redacted[p] # NoText \/ text[p] # NoText \/ p \in unread)
    BY <1>3, <2>2 DEF PageState
  <2>3. CASE redacted'[p] = redacted[p] /\ redacted[p] = NoText /\ text[p] = NoText /\ p \notin unread
    <3>1. CASE p \in classified \/ p \notin classified'
      BY <1>1, <1>3, <2>3, <3>1 DEF PageState
    <3>2. CASE p \notin classified /\ p \in classified'
      <4>1. PageState(p) = [at |-> "unknown"] /\ PageState(p)' = [at |-> "discovered"]
        BY <1>3, <2>3, <3>2 DEF PageState
      <4> QED BY <4>1 DEF Flow!Edge, Flow!Start
    <3> QED BY <3>1, <3>2
  <2> QED BY <2>1, <2>2, <2>3
<1> QED BY <1>2, <1>3 DEF Advances, Moves

(* The six stages together implement PageFlow: whatever is run, killed and *)
(* run again, a page is discovered once, read or given up once, and what   *)
(* is redacted is the text that was read.                                  *)
THEOREM PipelineImplementsPageFlow == Spec /\ []Disjoint => ImplementsPageFlow
<1>1. Init => Flow!Init
  BY DEF Init, Flow!Init, Flow!Start, PageState
<1>2. IInv /\ Disjoint /\ [Next]_vars => IInv' /\ Advances
  BY InvariantStep
<1>3. IInv /\ IInv' /\ Advances => Flow!Commit
  <2> SUFFICES ASSUME IInv, IInv', Advances PROVE Flow!Commit
    OBVIOUS
  <2>1. \A p \in Pages : PageState(p)' \in Flow!States
    BY PageStateType
  <2>2. \A p \in Pages : PageState(p)' = PageState(p) \/ Flow!Edge(PageState(p), PageState(p)')
    BY PageAdvances
  <2> QED BY <2>1, <2>2 DEF Flow!Commit
<1>4. IInv /\ Disjoint /\ [Next]_vars => [Flow!Commit]_[p \in Pages |-> PageState(p)]
  BY <1>2, <1>3
<1> QED BY <1>1, <1>4, PipelineInvariant, PTL DEF Spec, ImplementsPageFlow, Flow!Spec

-----------------------------------------------------------------------------
(* A run of the OCR workers is under way: one of them reads, or some have  *)
(* come to their end and others have not.                                  *)
Underway == (\E m \in Processes : stage[m] = "ocr_extraction") \/ ran \notin {{}, 0..(NumWorkers - 1)}

Joins == \E m \in Processes : stage[m] # "ocr_extraction" /\ stage'[m] = "ocr_extraction"

(* No two OCR processes have one --worker-id.                              *)
OwnShards ==
    \A m, n \in Processes :
       stage[m] = "ocr_extraction" /\ stage[n] = "ocr_extraction" /\ shard[m] = shard[n] => m = n

JoinsWithSameList == Underway /\ Joins => Pending = waiting /\ OwnShards'

(* The workers of a run all load the list that the first of them loaded,   *)
(* each as another worker.                                                 *)
SameList == [][JoinsWithSameList]_vars

(* A worker answers for what is pending of its slice of that list, and for *)
(* nothing else.                                                           *)
Covers(m) ==
    stage[m] = "ocr_extraction" =>
       /\ Owed(m) \subseteq Slice(waiting, shard[m])
       /\ Slice(waiting, shard[m]) \cap Pending \subseteq Owed(m)

CInv ==
    /\ waiting \subseteq classified
    /\ \A id \in ran : Slice(waiting, id) \cap Pending = {}
    /\ \A m \in Processes : Covers(m)
    /\ OwnShards

(* shard_work_items: the slices of a list have each of its items once.     *)
THEOREM PipelineSlicesPartition ==
    ASSUME NEW items \in SUBSET Pages, NEW p \in items
    PROVE  /\ \E id \in 0..(NumWorkers - 1) : p \in Slice(items, id)
           /\ \A id, jd : p \in Slice(items, id) /\ p \in Slice(items, jd) => id = jd
<1> DEFINE before == Cardinality({q \in items : q < p})
<1>1. IsFiniteSet(Pages)
  BY PagesAssumption, FS_Interval DEF Pages
<1>2. before \in Nat
  BY <1>1, FS_Subset, FS_CardinalityType
<1> HIDE DEF before
<1>3. before % NumWorkers \in 0..(NumWorkers - 1)
  BY <1>2, LimitsAssumption
<1>4. \A id : p \in Slice(items, id) <=> before % NumWorkers = id
  BY DEF Slice, before
<1> QED BY <1>3, <1>4

(* A page that is no longer pending is not pending again. *)
LEMMA PendingShrinks ==
    ASSUME IInv, Advances, NEW p \in classified, p \in Pending' PROVE p \in Pending
<1>1. p \in Pages
  BY DEF IInv, TypeOK, PageRowsOK
<1>2. text'[p] = NoText /\ p \notin unread' /\ (text[p] # NoText => text'[p] = text[p]) /\ Moves(p)
  BY <1>1 DEF Pending, Advances, Keeps
<1> QED BY <1>2 DEF Pending, Moves

(* What is still pending of a slice was pending before. *)
LEMMA SlicesShrink ==
    ASSUME IInv, CInv, Advances, NEW id
    PROVE  Slice(waiting, id) \cap Pending' \subseteq Slice(waiting, id) \cap Pending
<1>1. Slice(waiting, id) \subseteq classified
  BY DEF Slice, CInv
<1> QED BY <1>1, PendingShrinks

(* A worker that does not move answers for nothing less. *)
Stays(n) == Same(n) /\ shard'[n] = shard[n]

LEMMA StaysCovered ==
    ASSUME IInv, CInv, Advances, waiting' = waiting, NEW n \in Processes,
           stage'[n] = "ocr_extraction" => Stays(n)
    PROVE  Covers(n)'
<1> SUFFICES ASSUME stage'[n] = "ocr_extraction"
             PROVE  /\ Owed(n)' \subseteq Slice(waiting', shard'[n])
                    /\ Slice(waiting', shard'[n]) \cap Pending' \subseteq Owed(n)'
  BY DEF Covers
<1>1. Owed(n)' = Owed(n) /\ shard'[n] = shard[n] /\ stage[n] = "ocr_extraction"
  BY DEF Stays, Same, Owed, Held
<1>2. Covers(n)
  BY DEF CInv
<1> QED BY <1>1, <1>2, SlicesShrink DEF Covers

(* A step of no OCR process, or of one that goes on with its work. *)
LEMMA OtherStepCovers ==
    ASSUME IInv, CInv, Advances, UNCHANGED shards,
           \A n \in Processes : stage'[n] = "ocr_extraction" =>
              stage[n] = "ocr_extraction" /\ shard'[n] = shard[n],
           \A n \in Processes : Covers(n)'
    PROVE  CInv'
<1>0. OwnShards'
  BY DEF CInv, OwnShards
<1>1. waiting' = waiting /\ ran' = ran
  BY DEF shards
<1>2. waiting' \subseteq classified'
  BY <1>1 DEF CInv, Advances, Keeps
<1>3. \A id \in ran' : Slice(waiting', id) \cap Pending' = {}
  BY <1>1, SlicesShrink DEF CInv
<1> QED BY <1>0, <1>2, <1>3 DEF CInv

(* A worker starts with its slice of the list of the run. *)
LEMMA StartOcrCovers ==
    ASSUME IInv, IInv', CInv, Advances, JoinsWithSameList, NEW m \in Processes, StartOcr(m)
    PROVE  CInv'
<1>1. PICK id \in 0..(NumWorkers - 1) :
         /\ Enter(m, "ocr_extraction", Slice(Pending, id), {}, {})
         /\ shard' = [shard EXCEPT ![m] = id]
         /\ IF \E n \in Processes : stage[n] = "ocr_extraction"
            THEN UNCHANGED shards
            ELSE IF ran = 0..(NumWorkers - 1) \/ ran = {}
                 THEN waiting' = Pending /\ ran' = {} ELSE UNCHANGED shards
         /\ UNCHANGED <<pageRows, docRows>>
  BY DEF StartOcr
<1>2. /\ stage[m] = "idle" /\ stage'[m] = "ocr_extraction" /\ shard'[m] = id
      /\ todo'[m] = Slice(Pending, id) /\ batch'[m] = {} /\ failed'[m] = {}
      /\ \A n \in Processes : n # m => Stays(n)
  BY <1>1 DEF Enter, IInv, TypeOK, ProcessesOK, Holds, Stays, Same
<1>3. Owed(m)' = Slice(Pending, id)
  BY <1>2 DEF Owed, Held
<1>4. Pending' = Pending /\ classified' = classified /\ Slice(Pending, id) \subseteq Pending
  BY <1>1 DEF Pending, pageRows, Slice
<1>6. CASE UNCHANGED shards /\ Underway
  <2>1. Pending = waiting /\ OwnShards' /\ waiting' = waiting /\ ran' = ran
    BY <1>2, <1>6 DEF JoinsWithSameList, Joins, shards
  <2>2. Covers(m)'
    BY <1>2, <1>3, <1>4, <2>1 DEF Covers
  <2>3. ASSUME NEW n \in Processes PROVE Covers(n)'
    BY <1>2, <2>1, <2>2, StaysCovered
  <2> QED BY <1>4, <2>1, <2>3 DEF CInv
<1>7. CASE /\ waiting' = Pending /\ ran' = {}
           /\ ~\E n \in Processes : stage[n] = "ocr_extraction"
  <2>1. ASSUME NEW n \in Processes PROVE Covers(n)'
    BY <1>2, <1>3, <1>4, <1>7 DEF Covers, Stays, Same
  <2>2. waiting' \subseteq classified'
    BY <1>4, <1>7 DEF Pending
  <2>3. OwnShards'
    BY <1>2, <1>7 DEF OwnShards, Stays, Same
  <2> QED BY <1>7, <2>1, <2>2, <2>3 DEF CInv
<1> QED BY <1>1, <1>6, <1>7 DEF Underway

(* A row that is written is not pending any more. *)
LEMMA WrittenIsDone ==
    ASSUME IInv, NEW rows \in SUBSET Rows, text' = Updated(text, rows),
           NEW p, \E r \in rows : r.page = p
    PROVE  p \notin Pending'
<1>1. text \in [Pages -> Texts \cup {NoText}] /\ p \in Pages
  BY DEF IInv, TypeOK, PageRowsOK, Rows
<1>2. PICK r \in rows : r.page = p /\ text'[p] = r.text
  BY <1>1, UpdatedRows
<1>3. text'[p] # NoText
  BY <1>2, TextsAssumption DEF Rows
<1> QED BY <1>3 DEF Pending

(* A page taken is held, or its row has been written. *)
LEMMA OcrPageCovers ==
    ASSUME IInv, IInv', CInv, Advances, NEW m \in Processes, OcrPage(m)
    PROVE  CInv'
<1> DEFINE p == Least(todo[m])
<1>1. /\ stage[m] = "ocr_extraction" /\ UNCHANGED <<classified, stage>> /\ UNCHANGED shards
      /\ UNCHANGED shard /\ todo' = [todo EXCEPT ![m] = @ \ {p}]
      /\ \/ \E t \in Texts :
              LET rows == batch[m] \cup {[page |-> p, text |-> t]}
              IN  /\ \/ text' = Updated(text, rows) /\ batch' = [batch EXCEPT ![m] = {}]
                     \/ batch' = [batch EXCEPT ![m] = rows]
                  /\ UNCHANGED failed
         \/ LET rows == failed[m] \cup {p}
            IN  /\ \/ unread' = unread \cup rows /\ failed' = [failed EXCEPT ![m] = {}]
                   \/ failed' = [failed EXCEPT ![m] = rows]
                /\ UNCHANGED batch
  BY DEF OcrPage
<1>2. /\ waiting' = waiting /\ shard'[m] = shard[m]
      /\ Owed(m) \subseteq Slice(waiting, shard[m])
      /\ Slice(waiting, shard[m]) \cap Pending \subseteq Owed(m)
  BY <1>1 DEF shards, CInv, Covers
<1>3. /\ \A r \in batch'[m] : r \in batch[m] \/ r.page = p
      /\ \A n \in Processes : n # m => batch'[n] = batch[n] /\ failed'[n] = failed[n]
  <2>1. ASSUME NEW t \in Texts, NEW rows, rows = batch[m] \cup {[page |-> p, text |-> t]},
               batch' \in {[batch EXCEPT ![m] = {}], [batch EXCEPT ![m] = rows]}, UNCHANGED failed
        PROVE  /\ \A r \in batch'[m] : r \in batch[m] \/ r.page = p
               /\ \A n \in Processes : n # m => batch'[n] = batch[n] /\ failed'[n] = failed[n]
    BY <2>1 DEF IInv, TypeOK, ProcessesOK
  <2>2. ASSUME NEW rows, failed' \in {[failed EXCEPT ![m] = {}], [failed EXCEPT ![m] = rows]},
               UNCHANGED batch
        PROVE  /\ \A r \in batch'[m] : r \in batch[m] \/ r.page = p
               /\ \A n \in Processes : n # m => batch'[n] = batch[n] /\ failed'[n] = failed[n]
    BY <2>2 DEF IInv, TypeOK, ProcessesOK
  <2>3. CASE \E t \in Texts :
              LET rows == batch[m] \cup {[page |-> p, text |-> t]}
              IN  /\ \/ text' = Updated(text, rows) /\ batch' = [batch EXCEPT ![m] = {}]
                     \/ batch' = [batch EXCEPT ![m] = rows]
                  /\ UNCHANGED failed
    BY <2>1, <2>3
  <2>4. CASE LET rows == failed[m] \cup {p}
             IN  /\ \/ unread' = unread \cup rows /\ failed' = [failed EXCEPT ![m] = {}]
                    \/ failed' = [failed EXCEPT ![m] = rows]
                 /\ UNCHANGED batch
    BY <2>2, <2>4
  <2> QED BY <1>1, <2>3, <2>4
<1>4. p \in todo[m] /\ p \in Pages
  <2>1. todo[m] \in SUBSET Pages /\ todo[m] # {}
    BY DEF IInv, TypeOK, ProcessesOK, OcrPage
  <2> QED BY <2>1, LeastExists
<1> HIDE DEF p
<1>5. ASSUME NEW q \in Slice(waiting, shard[m]), q \in Pending' PROVE q \in Owed(m)'
  <2>1. q \in Owed(m)
    BY <1>2, <1>5, SlicesShrink
  <2>2. todo'[m] = todo[m] \ {p}
    BY <1>1 DEF IInv, TypeOK, ProcessesOK
  <2>3. CASE \E t \in Texts :
              LET rows == batch[m] \cup {[page |-> p, text |-> t]}
              IN  /\ \/ text' = Updated(text, rows) /\ batch' = [batch EXCEPT ![m] = {}]
                     \/ batch' = [batch EXCEPT ![m] = rows]
                  /\ UNCHANGED failed
    <3>1. PICK t \in Texts :
              LET rows == batch[m] \cup {[page |-> p, text |-> t]}
              IN  /\ \/ text' = Updated(text, rows) /\ batch' = [batch EXCEPT ![m] = {}]
                     \/ batch' = [batch EXCEPT ![m] = rows]
                  /\ UNCHANGED failed
      BY <2>3
    <3> DEFINE rows == batch[m] \cup {[page |-> p, text |-> t]}
    <3>2. rows \in SUBSET Rows
      BY <1>4 DEF Rows, IInv, TypeOK, ProcessesOK
    <3>3. [page |-> p, text |-> t] \in rows /\ [page |-> p, text |-> t].page = p /\ batch[m] \subseteq rows
      OBVIOUS
    <3>4. \/ text' = Updated(text, rows) /\ batch' = [batch EXCEPT ![m] = {}]
          \/ batch' = [batch EXCEPT ![m] = rows]
      BY <3>1
    <3> HIDE DEF rows
    <3>5. q \in todo[m] \ {p} \/ q \in failed[m] \/ \E r \in rows : r.page = q
      BY <2>1, <3>3 DEF Owed, Held
    <3>6. CASE q \in todo[m] \ {p} \/ q \in failed[m]
      BY <2>2, <3>1, <3>6 DEF Owed
    <3>7. CASE \E r \in rows : r.page = q
      <4>1. ~(text' = Updated(text, rows))
        BY <1>5, <3>2, <3>7, WrittenIsDone
      <4>2. batch'[m] = rows
        BY <3>4, <4>1 DEF IInv, TypeOK, ProcessesOK
      <4> QED BY <3>7, <4>2 DEF Owed, Held
    <3> QED BY <3>5, <3>6, <3>7
  <2>4. CASE LET rows == failed[m] \cup {p}
             IN  /\ \/ unread' = unread \cup rows /\ failed' = [failed EXCEPT ![m] = {}]
                    \/ failed' = [failed EXCEPT ![m] = rows]
                 /\ UNCHANGED batch
    <3>1. Held(m)' = Held(m)
      BY <2>4 DEF Held
    <3>2. \/ unread' = unread \cup (failed[m] \cup {p})
          \/ failed'[m] = failed[m] \cup {p}
      BY <2>4 DEF IInv, TypeOK, ProcessesOK
    <3>3. q \notin unread'
      BY <1>5 DEF Pending
    <3> QED BY <2>1, <2>2, <3>1, <3>2, <3>3 DEF Owed
  <2> QED BY <1>1, <2>3, <2>4
<1>6. Owed(m)' \subseteq Owed(m)
  <2>1. todo'[m] = todo[m] \ {p}
    BY <1>1 DEF IInv, TypeOK, ProcessesOK
  <2>2. failed'[m] \subseteq failed[m] \cup {p}
    BY <1>1 DEF IInv, TypeOK, ProcessesOK
  <2> QED BY <1>3, <1>4, <2>1, <2>2 DEF Owed, Held
<1>7. Covers(m)'
  BY <1>2, <1>5, <1>6 DEF Covers
<1>8. ASSUME NEW n \in Processes PROVE Covers(n)'
  <2>1. n # m => Stays(n)
    BY <1>1, <1>3 DEF Stays, Same
  <2> QED BY <1>2, <1>7, <2>1, StaysCovered
<1> QED BY <1>1, <1>8, OtherStepCovers

(* The run that ends with an empty list has written all it held. *)
LEMMA EndOcrCovers ==
    ASSUME IInv, IInv', CInv, Advances, NEW m \in Processes, EndOcr(m)
    PROVE  CInv'
<1>1. /\ stage[m] = "ocr_extraction" /\ Leave(m) /\ UNCHANGED classified /\ waiting' = waiting
      /\ text' = Updated(text, batch[m]) /\ unread' = unread \cup failed[m]
      /\ ran' = IF todo[m] = {} THEN ran \cup {shard[m]} ELSE ran
  BY DEF EndOcr
<1>2. Slice(waiting, shard[m]) \cap Pending \subseteq Owed(m) /\ waiting' \subseteq classified'
  BY <1>1 DEF CInv, Covers
<1>3. \A n \in Processes : stage'[n] = "ocr_extraction" => Stays(n) /\ stage[n] = "ocr_extraction"
  BY <1>1 DEF Leave, IInv, TypeOK, ProcessesOK, Stays, Same
<1>4. ASSUME todo[m] = {}, NEW q \in Slice(waiting, shard[m]), q \in Pending' PROVE FALSE
  <2>1. q \in Held(m) \/ q \in failed[m]
    BY <1>2, <1>4, SlicesShrink DEF Owed
  <2>2. batch[m] \in SUBSET Rows
    BY DEF IInv, TypeOK, ProcessesOK
  <2>3. q \notin Held(m)
    BY <1>1, <1>4, <2>2, WrittenIsDone DEF Held
  <2>4. q \notin failed[m]
    BY <1>1, <1>4 DEF Pending
  <2> QED BY <2>1, <2>3, <2>4
<1>5. \A id \in ran : Slice(waiting, id) \cap Pending' = {}
  BY SlicesShrink DEF CInv
<1>6. \A id \in ran' : Slice(waiting', id) \cap Pending' = {}
  BY <1>1, <1>4, <1>5
<1>7. ASSUME NEW n \in Processes PROVE Covers(n)'
  BY <1>1, <1>3, StaysCovered
<1>8. OwnShards'
  BY <1>3 DEF CInv, OwnShards, Stays
<1> QED BY <1>2, <1>6, <1>7, <1>8 DEF CInv

(* Every other step leaves the OCR processes alone, or ends one that is    *)
(* then not accounted for.                                                 *)
LEMMA OtherStepsAreQuiet ==
    ASSUME TypeOK, NEW m \in Processes, Start(m) \/ Work(m) \/ End(m) \/ Kill(m),
           ~StartOcr(m), ~OcrPage(m), ~EndOcr(m)
    PROVE  UNCHANGED shards /\ \A n \in Processes : stage'[n] = "ocr_extraction" => Stays(n)
<1> ProcessesOK
  BY DEF TypeOK
<1> USE DEF ProcessesOK, Stays, Same
<1>1. CASE Start(m)
  <2>1. CASE StartFormat(m)
    BY <2>1 DEF StartFormat, Enter
  <2>2. CASE StartTagger(m)
    BY <2>2 DEF StartTagger, Enter
  <2>3. CASE StartTypes(m)
    BY <2>3 DEF StartTypes, Enter
  <2>4. CASE StartSummarizer(m)
    BY <2>4 DEF StartSummarizer, Enter
  <2>5. CASE StartCategorizer(m)
    BY <2>5 DEF StartCategorizer, Enter
  <2> QED BY <1>1, <2>1, <2>2, <2>3, <2>4, <2>5 DEF Start
<1>2. CASE Work(m)
  <2>1. CASE FormatFile(m)
    <3>1. /\ stage[m] = "format_classifier" /\ UNCHANGED <<stage, batch, shard>> /\ UNCHANGED shards
          /\ \A n \in Processes : n # m => todo'[n] = todo[n] /\ failed'[n] = failed[n]
      BY <2>1 DEF FormatFile
    <3> QED BY <3>1
  <2>2. CASE LoadTagger(m)
    BY <2>2 DEF LoadTagger
  <2>3. CASE WriteTagger(m)
    BY <2>3 DEF WriteTagger
  <2>4. CASE TypePage(m)
    BY <2>4 DEF TypePage
  <2>5. CASE SummarizeDocument(m) \/ SummarizeBlank(m)
    BY <2>5 DEF SummarizeDocument, SummarizeBlank, WriteSummary
  <2>6. CASE FetchSummarizer(m)
    BY <2>6 DEF FetchSummarizer
  <2>7. CASE CategorizeDocument(m)
    BY <2>7 DEF CategorizeDocument
  <2> QED BY <1>2, <2>1, <2>2, <2>3, <2>4, <2>5, <2>6, <2>7 DEF Work
<1>3. CASE End(m) \/ Kill(m)
  <2>1. Leave(m) /\ UNCHANGED shards
    BY <1>3 DEF End, Kill, EndFormat, EndTagger, EndTypes, EndSummarizer, EndCategorizer
  <2> QED BY <2>1 DEF Leave
<1> QED BY <1>1, <1>2, <1>3

(* Every step of workers that load the same list. *)
LEMMA CoversStep ==
    ASSUME IInv, IInv', CInv, Advances, [Next]_vars, [JoinsWithSameList]_vars PROVE CInv'
<1>1. ASSUME UNCHANGED shards, \A n \in Processes : stage'[n] = "ocr_extraction" => Stays(n)
      PROVE  CInv'
  <2>1. ASSUME NEW n \in Processes PROVE Covers(n)'
    BY <1>1, StaysCovered DEF shards
  <2> QED BY <1>1, <2>1, OtherStepCovers DEF Stays, Same
<1>2. CASE Next
  <2>1. PICK m \in Processes : Start(m) \/ Work(m) \/ End(m) \/ Kill(m)
    BY <1>2 DEF Next
  <2>2. CASE StartOcr(m)
    <3>1. stage[m] = "idle" /\ stage'[m] = "ocr_extraction"
      BY <2>2 DEF StartOcr, Enter, IInv, TypeOK, ProcessesOK
    <3>2. JoinsWithSameList
      BY <3>1 DEF vars, process
    <3> QED BY <2>2, <3>2, StartOcrCovers
  <2>3. CASE OcrPage(m)
    BY <2>3, OcrPageCovers
  <2>4. CASE EndOcr(m)
    BY <2>4, EndOcrCovers
  <2>5. CASE ~StartOcr(m) /\ ~OcrPage(m) /\ ~EndOcr(m)
    BY <1>1, <2>1, <2>5, OtherStepsAreQuiet DEF IInv
  <2> QED BY <2>2, <2>3, <2>4, <2>5
<1>3. CASE UNCHANGED vars
  BY <1>1, <1>3 DEF vars, process, shards, Stays, Same
<1> QED BY <1>2, <1>3

(* Slices of one list are disjoint, so OCR processes answer for different  *)
(* pages ...                                                               *)
LEMMA CoversApart == IInv /\ CInv => Disjoint
<1> SUFFICES ASSUME IInv, CInv, NEW m \in Processes, NEW n \in Processes, m # n,
                    stage[m] = "ocr_extraction", stage[n] = "ocr_extraction",
                    NEW p \in Owed(m), p \in Owed(n)
             PROVE  FALSE
  BY DEF Disjoint
<1>1. p \in Slice(waiting, shard[m]) /\ p \in Slice(waiting, shard[n]) /\ shard[m] # shard[n]
  BY DEF CInv, Covers, OwnShards
<1>2. waiting \in SUBSET Pages /\ p \in waiting
  BY <1>1 DEF IInv, TypeOK, Slice
<1> QED BY <1>1, <1>2, PipelineSlicesPartition

(* ... and together they are the whole list.                               *)
LEMMA CoversWork == IInv /\ CInv => ShardsCoverWork
<1> SUFFICES ASSUME IInv, CInv, ran = 0..(NumWorkers - 1), NEW p \in waiting, p \in Pending
             PROVE  FALSE
  BY DEF ShardsCoverWork
<1>1. waiting \in SUBSET Pages
  BY DEF IInv, TypeOK
<1>2. PICK id \in ran : p \in Slice(waiting, id)
  BY <1>1, PipelineSlicesPartition
<1> QED BY <1>2 DEF CInv

(* Workers that all load the list the first of them loaded.                *)
THEOREM PipelineSameList == Spec /\ SameList => []IInv /\ []CInv
<1>1. Init => IInv /\ CInv
  <2>1. Init => CInv
    BY DEF Init, CInv, Covers, OwnShards
  <2> QED BY <2>1, InitHolds
<1>2. IInv /\ CInv /\ [Next]_vars /\ [JoinsWithSameList]_vars => IInv' /\ CInv'
  BY CoversApart, InvariantStep, CoversStep
<1> QED BY <1>1, <1>2, PTL DEF Spec, SameList

(* ... never answer for the same page, however they overlap with the other *)
(* stages and are killed: what the theorems above suppose.                 *)
THEOREM PipelineSameListIsDisjoint == Spec /\ SameList => []Disjoint
<1>1. IInv /\ CInv => Disjoint
  BY CoversApart
<1> QED BY <1>1, PipelineSameList, PTL

(* Once every worker has come to its end, no page is pending that was when *)
(* the first of them started; where they load lists of their own, a run    *)
(* refutes it.                                                             *)
THEOREM PipelineShardsCoverWork == Spec /\ SameList => []ShardsCoverWork
<1>1. IInv /\ CInv => ShardsCoverWork
  BY CoversWork
<1> QED BY <1>1, PipelineSameList, PTL

(* One OCR process at a time; nothing in the program sees to it.           *)
Alone == \A m, n \in Processes : stage[m] = "ocr_extraction" /\ stage[n] = "ocr_extraction" => m = n

(* One worker, of one run at a time, has nobody to share the list with. *)
LEMMA OneWorkerJoins ==
    ASSUME NumWorkers = 1, TypeOK, Alone', [Next]_vars PROVE [JoinsWithSameList]_vars
<1> SUFFICES ASSUME Next, Joins, Underway PROVE FALSE
  BY DEF JoinsWithSameList
<1>1. PICK m \in Processes : Start(m) \/ Work(m) \/ End(m) \/ Kill(m)
  BY DEF Next
<1>2. PICK k \in Processes : stage[k] # "ocr_extraction" /\ stage'[k] = "ocr_extraction"
  BY DEF Joins
<1>3. CASE StartOcr(m)
  <2>1. /\ stage[m] = "idle" /\ stage'[m] = "ocr_extraction"
        /\ \A n \in Processes : n # m => stage'[n] = stage[n]
    BY <1>3 DEF StartOcr, Enter, TypeOK, ProcessesOK
  <2>2. \A n \in Processes : stage[n] # "ocr_extraction"
    BY <2>1 DEF Alone
  <2>3. 0..(NumWorkers - 1) = {0}
    OBVIOUS
  <2>4. ran \subseteq {0}
    BY <2>3 DEF TypeOK
  <2> QED BY <2>2, <2>3, <2>4 DEF Underway
<1>4. CASE OcrPage(m)
  BY <1>2, <1>4 DEF OcrPage
<1>5. CASE EndOcr(m)
  BY <1>2, <1>5 DEF EndOcr, Leave, TypeOK, ProcessesOK
<1>6. CASE ~StartOcr(m) /\ ~OcrPage(m) /\ ~EndOcr(m)
  BY <1>1, <1>2, <1>6, OtherStepsAreQuiet DEF Stays, Same
<1> QED BY <1>3, <1>4, <1>5, <1>6

(* An OCR stage that is not sharded, the default, and of which no second   *)
(* run is started while one is under way: all of it holds.                 *)
THEOREM PipelineOneRunAtATime ==
    ASSUME NumWorkers = 1
    PROVE  Spec /\ []Alone => [](OneOutcome /\ ChainAgrees /\ ShardsCoverWork) /\ ImplementsPageFlow
<1>1. TypeOK /\ Alone' /\ [Next]_vars => [JoinsWithSameList]_vars
  BY OneWorkerJoins
<1>2. Spec /\ []Alone => SameList
  BY <1>1, PipelineTypeOK, PTL DEF Spec, SameList
<1> QED BY <1>2, PipelineSameListIsDisjoint, PipelineOneOutcome, PipelineChainAgrees,
           PipelineShardsCoverWork, PipelineImplementsPageFlow, PTL
=============================================================================
