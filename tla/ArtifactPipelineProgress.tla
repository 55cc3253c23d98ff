---------------------- MODULE ArtifactPipelineProgress ----------------------
(***************************************************************************)
(* The bound under StagesEnd: a process that is in a stage has at most     *)
(* 2 * NumPages + 1 steps to take before it has left it, and each one it   *)
(* takes uses one up, whatever other processes write meanwhile.  The loops *)
(* of the tagger and the summarizer, which ask the database for more until *)
(* there is none, end because what they have written is never asked for    *)
(* again: all but a blank summary, which is the step that is left out.     *)
(***************************************************************************)
EXTENDS ArtifactPipelineProofs

(* The pages a stage may still take up: those of its list, or all that     *)
(* lack what the stage writes. *)
Unredacted == {p \in Pages : redacted[p] = NoText}
Undigested == {p \in Pages : summary[DocOf[p]] = {}}

Due(m) == IF stage[m] = "pii_tagger" THEN Unredacted
          ELSE IF stage[m] = "summarizer" THEN Undigested ELSE todo[m]

(* The pages it has taken up and not written.                              *)
InHand(m) == IF stage[m] = "pii_tagger" THEN Held(m)
             ELSE IF stage[m] = "summarizer" THEN {p \in Pages : \E q \in Held(m) : DocOf[q] = DocOf[p]}
             ELSE {}

(* One step to write each of them (1), one to take up those not in hand    *)
(* (0).                                                                    *)
Rounds(due, inHand) ==
    {u \in Pages \X (0..1) : u[1] \in due \cup inHand /\ (u[2] = 0 => u[1] \notin inHand)}

StepsLeft(m) == Cardinality(Rounds(Due(m), InHand(m)))
StageLeft(m) == StepsLeft(m) + (IF stage[m] = "idle" THEN 0 ELSE 1)

(* A blank summary is written, which the summarizer will ask for again.    *)
Blanks == \E n \in Processes : SummarizeBlank(n)

StageUsesUp(m) ==
    ~Blanks => /\ Work(m) \/ End(m) => StageLeft(m)' < StageLeft(m)
               /\ ~Start(m) => StageLeft(m)' <= StageLeft(m)

(* What is left after a step is part of what was ... *)
NoMore(m) == /\ Due(m)' \cup InHand(m)' \subseteq Due(m) \cup InHand(m)
             /\ Due(m)' \ InHand(m)' \subseteq Due(m) \ InHand(m)

(* ... and a page was taken up or written. *)
Fewer(m) ==
    /\ NoMore(m)
    /\ \E p \in Pages : \/ p \in Due(m) \cup InHand(m) /\ p \notin Due(m)' \cup InHand(m)'
                        \/ p \in Due(m) \ InHand(m) /\ p \notin Due(m)' \ InHand(m)'

(* No redaction is empty (redact_text of a text that is not).              *)
NotBlank ==
    /\ \A p \in Pages : redacted[p] # Blank
    /\ \A m \in Processes : stage[m] = "pii_tagger" => \A r \in batch[m] : r.text # Blank

(* What process m works on is as it was.                                   *)
Rests(m) == stage'[m] = stage[m] /\ todo'[m] = todo[m] /\ batch'[m] = batch[m]

-----------------------------------------------------------------------------
(* Counting *)

LEMMA RoundsCount ==
    ASSUME NEW due, NEW inHand
    PROVE  /\ IsFiniteSet(Rounds(due, inHand))
           /\ Cardinality(Rounds(due, inHand)) \in 0..(2 * NumPages)
<1>1. IsFiniteSet(Pages) /\ Cardinality(Pages) = NumPages
  <2>1. NumPages \in Nat /\ 1 \in Int /\ NumPages \in Int
    BY PagesAssumption
  <2>2. IsFiniteSet(1..NumPages) /\ Cardinality(1..NumPages) = IF 1 > NumPages THEN 0 ELSE NumPages - 1 + 1
    BY <2>1, FS_Interval
  <2> QED BY <2>1, <2>2 DEF Pages
<1>2. IsFiniteSet(0..1) /\ Cardinality(0..1) = 2
  <2>1. IsFiniteSet(0..1) /\ Cardinality(0..1) = IF 0 > 1 THEN 0 ELSE 1 - 0 + 1
    <3>1. 0 \in Int /\ 1 \in Int
      OBVIOUS
    <3> QED BY <3>1, FS_Interval
  <2> QED BY <2>1
<1> DEFINE grid == Pages \X (0..1)
<1>3. IsFiniteSet(grid) /\ Cardinality(grid) = NumPages * 2
  BY <1>1, <1>2, FS_Product
<1>4. Rounds(due, inHand) \in SUBSET grid
  BY DEF Rounds
<1> HIDE DEF grid
<1>5. IsFiniteSet(Rounds(due, inHand)) /\ Cardinality(Rounds(due, inHand)) <= Cardinality(grid)
  BY <1>3, <1>4, FS_Subset
<1>6. Cardinality(Rounds(due, inHand)) \in Nat
  BY <1>5, FS_CardinalityType
<1> QED BY <1>3, <1>5, <1>6, PagesAssumption

(* Fewer pages to take up and to write are fewer steps.                    *)
LEMMA RoundsShrink ==
    ASSUME NEW due, NEW inHand, NEW due1, NEW inHand1,
           due1 \cup inHand1 \subseteq due \cup inHand, due1 \ inHand1 \subseteq due \ inHand
    PROVE  /\ Cardinality(Rounds(due1, inHand1)) <= Cardinality(Rounds(due, inHand))
           /\ \A p \in Pages :
                \/ p \in due \cup inHand /\ p \notin due1 \cup inHand1
                \/ p \in due \ inHand /\ p \notin due1 \ inHand1
             => Cardinality(Rounds(due1, inHand1)) < Cardinality(Rounds(due, inHand))
<1>1. Rounds(due1, inHand1) \subseteq Rounds(due, inHand)
  <2> SUFFICES ASSUME NEW u \in Rounds(due1, inHand1) PROVE u \in Rounds(due, inHand)
    OBVIOUS
  <2>1. u \in Pages \X (0..1) /\ u[1] \in due1 \cup inHand1 /\ (u[2] = 0 => u[1] \in due1 \ inHand1)
    BY DEF Rounds
  <2> QED BY <2>1 DEF Rounds
<1>2. /\ IsFiniteSet(Rounds(due, inHand))
      /\ Cardinality(Rounds(due, inHand)) \in Nat /\ Cardinality(Rounds(due1, inHand1)) \in Nat
  BY RoundsCount
<1>3. /\ Cardinality(Rounds(due1, inHand1)) <= Cardinality(Rounds(due, inHand))
      /\ Cardinality(Rounds(due1, inHand1)) = Cardinality(Rounds(due, inHand)) =>
           Rounds(due1, inHand1) = Rounds(due, inHand)
  BY <1>1, <1>2, FS_Subset
<1>4. ASSUME NEW p \in Pages,
             \/ p \in due \cup inHand /\ p \notin due1 \cup inHand1
             \/ p \in due \ inHand /\ p \notin due1 \ inHand1
      PROVE  Rounds(due1, inHand1) # Rounds(due, inHand)
  <2>1. CASE p \in due \cup inHand /\ p \notin due1 \cup inHand1
    <3>1. <<p, 1>> \in Rounds(due, inHand) /\ <<p, 1>> \notin Rounds(due1, inHand1)
      BY <2>1 DEF Rounds
    <3> QED BY <3>1
  <2>2. CASE p \in due \ inHand /\ p \notin due1 \ inHand1
    <3>1. <<p, 0>> \in Rounds(due, inHand) /\ <<p, 0>> \notin Rounds(due1, inHand1)
      BY <2>2 DEF Rounds
    <3> QED BY <3>1
  <2> QED BY <1>4, <2>1, <2>2
<1> QED BY <1>2, <1>3, <1>4

-----------------------------------------------------------------------------
(* What steps leave alone                                                  *)

LEMMA InHandPages ==
    ASSUME TypeOK, NEW m \in Processes
    PROVE  Due(m) \subseteq Pages /\ InHand(m) \subseteq Pages /\ Held(m) \subseteq Pages
<1>1. Held(m) \subseteq Pages /\ todo[m] \subseteq Pages
  BY DEF TypeOK, ProcessesOK, Rows, Held
<1> QED BY <1>1 DEF Due, InHand, Unredacted, Undigested

(* A process moves alone. *)
LEMMA LeaveRests ==
    ASSUME TypeOK, NEW m \in Processes, Leave(m)
    PROVE  /\ stage'[m] = "idle" /\ todo'[m] = {} /\ batch'[m] = {}
           /\ \A n \in Processes : n # m => Rests(n)
BY DEF Leave, Rests, TypeOK, ProcessesOK

LEMMA EndLeaves ==
    ASSUME NEW m \in Processes, End(m) \/ Kill(m)
    PROVE  Leave(m) /\ stage[m] # "idle" /\ UNCHANGED <<redacted, summary>>
<1>1. CASE EndFormat(m)
  BY <1>1 DEF EndFormat, docRows
<1>2. CASE EndOcr(m)
  BY <1>2 DEF EndOcr, docRows
<1>3. CASE EndTagger(m)
  BY <1>3 DEF EndTagger, docRows, pageRows
<1>4. CASE EndTypes(m)
  BY <1>4 DEF EndTypes, docRows
<1>5. CASE EndSummarizer(m)
  BY <1>5 DEF EndSummarizer, docRows, pageRows
<1>6. CASE EndCategorizer(m)
  BY <1>6 DEF EndCategorizer, pageRows
<1>7. CASE Kill(m)
  BY <1>7 DEF Kill, docRows, pageRows
<1> QED BY <1>1, <1>2, <1>3, <1>4, <1>5, <1>6, <1>7 DEF End

LEMMA StartsAlone ==
    ASSUME TypeOK, NEW m \in Processes, Start(m)
    PROVE  /\ stage[m] = "idle" /\ UNCHANGED <<redacted, summary>>
           /\ stage'[m] = "pii_tagger" => batch'[m] = {}
           /\ \A n \in Processes : n # m => Rests(n)
<1> USE DEF TypeOK, ProcessesOK, Rests
<1>1. CASE StartFormat(m)
  BY <1>1 DEF StartFormat, Enter, pageRows, docRows
<1>2. CASE StartOcr(m)
  BY <1>2 DEF StartOcr, Enter, pageRows, docRows
<1>3. CASE StartTagger(m)
  BY <1>3 DEF StartTagger, Enter, pageRows, docRows
<1>4. CASE StartTypes(m)
  BY <1>4 DEF StartTypes, Enter, pageRows, docRows
<1>5. CASE StartSummarizer(m)
  BY <1>5 DEF StartSummarizer, Enter, pageRows
<1>6. CASE StartCategorizer(m)
  BY <1>6 DEF StartCategorizer, Enter, pageRows
<1> QED BY <1>1, <1>2, <1>3, <1>4, <1>5, <1>6 DEF Start

(* Files, and pages, are taken from the list. *)
LEMMA ListShrinks ==
    ASSUME TypeOK, NEW m \in Processes,
           FormatFile(m) \/ OcrPage(m) \/ TypePage(m) \/ CategorizeDocument(m)
    PROVE  /\ stage[m] \notin {"pii_tagger", "summarizer", "idle"} /\ UNCHANGED stage
           /\ UNCHANGED <<redacted, summary>>
           /\ \E p \in todo[m] : p \notin todo'[m]
           /\ todo'[m] \subseteq todo[m]
           /\ \A n \in Processes : n # m => todo'[n] = todo[n] /\ batch'[n] = batch[n]
<1>1. todo[m] # {} /\ todo[m] \subseteq Pages
  BY DEF FormatFile, OcrPage, TypePage, CategorizeDocument, TypeOK, ProcessesOK
<1> DEFINE p == Least(todo[m])
           ps == PagesOf(DocOf[p])
<1>2. p \in todo[m] /\ p \in ps
  BY <1>1, LeastExists DEF PagesOf
<1>3. /\ stage[m] \notin {"pii_tagger", "summarizer", "idle"} /\ UNCHANGED stage
      /\ UNCHANGED <<redacted, summary>>
  BY DEF FormatFile, OcrPage, TypePage, CategorizeDocument, pageRows, docRows
<1>4. todo' = [todo EXCEPT ![m] = @ \ ps] \/ todo' = [todo EXCEPT ![m] = @ \ {p}]
  BY DEF FormatFile, OcrPage, TypePage, CategorizeDocument
<1>5. \A n \in Processes : n # m => batch'[n] = batch[n]
  <2>1. CASE OcrPage(m)
    <3>1. UNCHANGED batch \/ \E b : batch' = [batch EXCEPT ![m] = b]
      BY <2>1 DEF OcrPage
    <3> QED BY <3>1 DEF TypeOK, ProcessesOK
  <2>2. CASE FormatFile(m) \/ TypePage(m) \/ CategorizeDocument(m)
    BY <2>2 DEF FormatFile, TypePage, CategorizeDocument
  <2> QED BY <2>1, <2>2
<1> HIDE DEF p, ps
<1> QED BY <1>2, <1>3, <1>4, <1>5 DEF TypeOK, ProcessesOK

-----------------------------------------------------------------------------
(* Steps inside a stage                                                    *)

LEMMA ListStep ==
    ASSUME TypeOK, NEW m \in Processes,
           FormatFile(m) \/ OcrPage(m) \/ TypePage(m) \/ CategorizeDocument(m)
    PROVE  Fewer(m)
<1>1. /\ stage[m] \notin {"pii_tagger", "summarizer", "idle"} /\ UNCHANGED stage
      /\ todo'[m] \subseteq todo[m]
  BY ListShrinks
<1>2. PICK p \in todo[m] : p \notin todo'[m]
  BY ListShrinks
<1>3. Due(m) = todo[m] /\ InHand(m) = {} /\ Due(m)' = todo'[m] /\ InHand(m)' = {}
  BY <1>1 DEF Due, InHand
<1>4. p \in Pages
  BY DEF TypeOK, ProcessesOK
<1> QED BY <1>1, <1>2, <1>3, <1>4 DEF Fewer, NoMore

(* What the tagger loads is not redacted; and it does load something.      *)
LEMMA LoadTaggerDescends ==
    ASSUME TypeOK, NotBlank, NEW m \in Processes, LoadTagger(m)
    PROVE  /\ Fewer(m) /\ \A n \in Processes : n # m => Rests(n)
           /\ UNCHANGED <<redacted, summary, stage>> /\ \A r \in batch'[m] : r.text # Blank
<1> DEFINE picked == First(Untagged, BatchSize)
<1>1. /\ stage[m] = "pii_tagger" /\ batch[m] = {} /\ Untagged # {}
      /\ batch' = [batch EXCEPT ![m] = {[page |-> p, text |-> text[p]] : p \in picked}]
      /\ UNCHANGED <<pageRows, docRows>> /\ UNCHANGED <<stage, todo>>
  BY DEF LoadTagger
<1>2. UNCHANGED <<redacted, summary, stage>>
  BY <1>1 DEF pageRows, docRows
<1>3. Untagged \subseteq Unredacted /\ Untagged \subseteq Pages
  BY LabelsAssumption DEF Untagged, Unredacted, NotBlank
<1>4. Least(Untagged) \in picked
  <2> DEFINE l == Least(Untagged)
  <2>1. l \in Untagged /\ \A q \in Untagged : l <= q
    BY <1>1, <1>3, LeastExists
  <2> HIDE DEF l
  <2>2. l \in Nat /\ Untagged \subseteq Nat
    BY <1>3, <2>1 DEF Pages
  <2>3. {q \in Untagged : q < l} = {}
    <3>1. ASSUME NEW q \in Untagged PROVE ~(q < l)
      <4>1. q \in Nat /\ l \in Nat /\ l <= q
        BY <2>1, <2>2
      <4> QED BY <4>1
    <3> QED BY <3>1
  <2>4. Cardinality({q \in Untagged : q < l}) < BatchSize
    BY <2>3, FS_EmptySet, LimitsAssumption
  <2>5. l \in First(Untagged, BatchSize)
    BY <2>1, <2>4 DEF First
  <2> QED BY <2>5 DEF l
<1>5. picked \subseteq Untagged
  BY DEF First
<1> HIDE DEF picked
<1>6. batch'[m] = {[page |-> p, text |-> text[p]] : p \in picked}
  BY <1>1 DEF TypeOK, ProcessesOK
<1>7. Held(m) = {} /\ Held(m)' = picked
  <2>1. Held(m) = {}
    BY <1>1 DEF Held
  <2>2. ASSUME NEW p \in picked PROVE p \in Held(m)'
    <3>1. [page |-> p, text |-> text[p]] \in batch'[m] /\ [page |-> p, text |-> text[p]].page = p
      BY <1>6
    <3> QED BY <3>1 DEF Held
  <2>3. ASSUME NEW r \in batch'[m] PROVE r.page \in picked
    BY <1>6
  <2> QED BY <2>1, <2>2, <2>3 DEF Held
<1>8. /\ Due(m) = Unredacted /\ InHand(m) = {} /\ Due(m)' = Unredacted /\ InHand(m)' = picked
  BY <1>1, <1>2, <1>7 DEF Due, InHand, Unredacted
<1>9. Fewer(m)
  BY <1>3, <1>4, <1>5, <1>8 DEF Fewer, NoMore
<1>10. \A r \in batch'[m] : r.text # Blank
  BY <1>5, <1>6 DEF Untagged
<1>11. \A n \in Processes : n # m => Rests(n)
  BY <1>1 DEF Rests, TypeOK, ProcessesOK
<1> QED BY <1>2, <1>9, <1>10, <1>11

(* What it has written is redacted, whoever else has written it.           *)
LEMMA WriteTaggerDescends ==
    ASSUME TypeOK, NotBlank, NEW m \in Processes, WriteTagger(m)
    PROVE  /\ Fewer(m) /\ \A n \in Processes : n # m => Rests(n)
           /\ UNCHANGED <<summary, stage>> /\ batch'[m] = {}
           /\ \A p \in Pages : redacted'[p] # Blank /\ (redacted[p] # NoText => redacted'[p] # NoText)
<1>1. /\ stage[m] = "pii_tagger" /\ batch[m] # {} /\ redacted' = Updated(redacted, batch[m])
      /\ batch' = [batch EXCEPT ![m] = {}]
      /\ UNCHANGED docRows /\ UNCHANGED <<stage, todo>>
  BY DEF WriteTagger
<1>2. batch[m] \in SUBSET Rows /\ redacted \in [Pages -> Texts \cup {NoText}]
  BY DEF TypeOK, ProcessesOK, PageRowsOK
<1>3. \A r \in batch[m] : r.text # NoText /\ r.text # Blank
  BY <1>1, <1>2, TextsAssumption DEF Rows, NotBlank
<1>4. ASSUME NEW p \in Pages
      PROVE  /\ p \in Held(m) => redacted'[p] # NoText /\ redacted'[p] # Blank
             /\ p \notin Held(m) => redacted'[p] = redacted[p]
  <2>1. CASE p \in Held(m)
    <3>1. \E r \in batch[m] : r.page = p
      BY <2>1 DEF Held
    <3>2. PICK r \in batch[m] : r.page = p /\ redacted'[p] = r.text
      BY <1>1, <1>2, <3>1, UpdatedRows
    <3> QED BY <1>3, <2>1, <3>2
  <2>2. CASE p \notin Held(m)
    <3>1. \A r \in batch[m] : r.page # p
      BY <2>2 DEF Held
    <3> QED BY <1>1, <1>2, <2>2, <3>1, UpdatedRows
  <2> QED BY <2>1, <2>2
<1>5. \A p \in Pages : redacted'[p] # Blank /\ (redacted[p] # NoText => redacted'[p] # NoText)
  BY <1>4 DEF NotBlank
<1>6. batch'[m] = {} /\ \A n \in Processes : n # m => Rests(n)
  BY <1>1 DEF Rests, TypeOK, ProcessesOK
<1>7. Held(m)' = {}
  BY <1>6 DEF Held
<1>8. Unredacted' = Unredacted \ Held(m)
  BY <1>4 DEF Unredacted
<1>9. /\ Due(m) = Unredacted /\ InHand(m) = Held(m)
      /\ Due(m)' = Unredacted \ Held(m) /\ InHand(m)' = {}
  BY <1>1, <1>7, <1>8 DEF Due, InHand
<1>10. PICK p \in Pages : p \in Held(m)
  <2>1. Held(m) # {} /\ Held(m) \subseteq Pages
    BY <1>1, InHandPages DEF Held
  <2> QED BY <2>1
<1>11. Fewer(m)
  BY <1>9, <1>10 DEF Fewer, NoMore
<1> QED BY <1>1, <1>5, <1>6, <1>11 DEF docRows

(* The summarizer fetches documents without a summary, and of each a page. *)
LEMMA FetchSummarizerDescends ==
    ASSUME TypeOK, NEW m \in Processes, FetchSummarizer(m)
    PROVE  /\ Fewer(m) /\ \A n \in Processes : n # m => Rests(n)
           /\ UNCHANGED <<redacted, summary, stage>>
<1>1. /\ stage[m] = "summarizer" /\ batch[m] = {}
      /\ UNCHANGED <<redacted, summary, stage, todo>>
  BY DEF FetchSummarizer, pageRows, docRows
<1>2. PICK ds \in (SUBSET Unsummarized(documents)) \ {{}} :
           batch' = [batch EXCEPT ![m] = UNION {Substance(d) : d \in ds}]
  BY DEF FetchSummarizer
<1>3. batch'[m] = UNION {Substance(d) : d \in ds}
  BY <1>2 DEF TypeOK, ProcessesOK
<1>4. ASSUME NEW d \in ds, NEW r \in Substance(d)
      PROVE  r.page \in Pages /\ DocOf[r.page] = d /\ summary[d] = {}
  BY DEF Substance, Redactions, PagesOf, Unsummarized
<1>5. ASSUME NEW q \in Held(m)' PROVE q \in Pages /\ summary[DocOf[q]] = {}
  <2>1. PICK r \in batch'[m] : q = r.page
    BY DEF Held
  <2>2. PICK d \in ds : r \in Substance(d)
    BY <1>3
  <2> QED BY <1>4, <2>1, <2>2
<1>6. PICK p \in Pages : p \in Held(m)'
  <2>1. PICK d \in ds : Substance(d) # {}
    BY DEF Unsummarized
  <2>2. PICK r \in Substance(d) : TRUE
    BY <2>1
  <2>3. r \in batch'[m] /\ r.page \in Pages
    BY <1>3, <1>4, <2>2
  <2> QED BY <2>3 DEF Held
<1>7. InHand(m) = {} /\ Due(m) = Undigested /\ Due(m)' = Undigested
  BY <1>1 DEF InHand, Held, Due, Undigested
<1>8. InHand(m)' \subseteq Undigested /\ p \in InHand(m)' /\ p \in Undigested
  <2>1. InHand(m)' = {x \in Pages : \E q \in Held(m)' : DocOf[q] = DocOf[x]}
    BY <1>1 DEF InHand
  <2> QED BY <1>5, <1>6, <2>1 DEF Undigested
<1>9. Fewer(m)
  BY <1>7, <1>8 DEF Fewer, NoMore
<1>10. \A n \in Processes : n # m => Rests(n)
  BY <1>1, <1>2 DEF Rests, TypeOK, ProcessesOK
<1> QED BY <1>1, <1>9, <1>10

(* A document that has its summary is not fetched again.                   *)
LEMMA SummarizeDocumentDescends ==
    ASSUME TypeOK, NEW m \in Processes, SummarizeDocument(m)
    PROVE  /\ Fewer(m) /\ \A n \in Processes : n # m => Rests(n)
           /\ UNCHANGED <<redacted, stage>>
           /\ \A d \in Docs : summary[d] # {} => summary'[d] # {}
<1> DEFINE l == Least(Held(m))
           d == DocOf[l]
<1>1. /\ stage[m] = "summarizer" /\ batch[m] # {}
      /\ summary' = [summary EXCEPT ![d] = {About(d, batch[m])}]
      /\ batch' = [batch EXCEPT ![m] = @ \ About(d, @)]
      /\ UNCHANGED <<redacted, stage, todo>>
  BY DEF SummarizeDocument, NextDocument, WriteSummary, pageRows
<1>2. Held(m) # {} /\ Held(m) \subseteq Pages
  BY <1>1, InHandPages DEF Held
<1>3. l \in Held(m) /\ l \in Pages
  BY <1>2, LeastExists
<1>4. d \in Docs
  BY <1>3 DEF Docs
<1> HIDE DEF l, d
<1>5. \A x \in Docs : summary'[x] = {} <=> summary[x] = {} /\ x # d
  BY <1>1, <1>4 DEF TypeOK, DocRowsOK
<1>6. batch'[m] = batch[m] \ About(d, batch[m])
  BY <1>1 DEF TypeOK, ProcessesOK
<1>7. \A q \in Pages : q \in Held(m)' <=> q \in Held(m) /\ DocOf[q] # d
  BY <1>6 DEF Held, About
<1>8. Undigested' = {p \in Undigested : DocOf[p] # d}
  <2>1. \A p \in Pages : DocOf[p] \in Docs
    BY DEF Docs
  <2> QED BY <1>5, <2>1 DEF Undigested
<1>9. InHand(m)' = {p \in InHand(m) : DocOf[p] # d}
  <2>1. /\ InHand(m) = {p \in Pages : \E q \in Held(m) : DocOf[q] = DocOf[p]}
        /\ InHand(m)' = {p \in Pages : \E q \in Held(m)' : DocOf[q] = DocOf[p]}
    BY <1>1 DEF InHand
  <2>2. Held(m)' \subseteq Pages
    BY <1>2, <1>6 DEF Held
  <2> QED BY <1>2, <1>7, <2>1, <2>2
<1>10. Due(m) = Undigested /\ Due(m)' = Undigested'
  BY <1>1 DEF Due
<1>11. l \in InHand(m) /\ l \notin Due(m)' \cup InHand(m)'
  <2>1. DocOf[l] = d
    BY DEF d
  <2>2. l \in InHand(m)
    BY <1>1, <1>3 DEF InHand
  <2> QED BY <1>8, <1>9, <1>10, <2>1, <2>2
<1>12. Fewer(m)
  BY <1>3, <1>8, <1>9, <1>10, <1>11 DEF Fewer, NoMore
<1>13. \A n \in Processes : n # m => Rests(n)
  BY <1>1 DEF Rests, TypeOK, ProcessesOK
<1>14. \A x \in Docs : summary[x] # {} => summary'[x] # {}
  BY <1>5
<1> QED BY <1>1, <1>12, <1>13, <1>14

-----------------------------------------------------------------------------
(* Every step *)

(* Nothing that was written is missing again.                              *)
Accumulates == Unredacted' \subseteq Unredacted /\ Undigested' \subseteq Undigested

LEMMA NothingUndone ==
    ASSUME \A p \in Pages : redacted[p] # NoText => redacted'[p] # NoText,
           \A d \in Docs : summary[d] # {} => summary'[d] # {}
    PROVE  Accumulates
<1>1. \A p \in Pages : DocOf[p] \in Docs
  BY DEF Docs
<1> QED BY <1>1 DEF Accumulates, Unredacted, Undigested

LEMMA WorkDescends ==
    ASSUME TypeOK, NotBlank, NEW m \in Processes, Work(m), ~SummarizeBlank(m)
    PROVE  /\ Fewer(m) /\ UNCHANGED stage /\ Accumulates
           /\ stage[m] # "idle" /\ \A n \in Processes : n # m => Rests(n)
<1>1. CASE FormatFile(m) \/ OcrPage(m) \/ TypePage(m) \/ CategorizeDocument(m)
  <2>1. /\ stage[m] # "idle" /\ UNCHANGED stage /\ UNCHANGED <<redacted, summary>>
        /\ \A n \in Processes : n # m => todo'[n] = todo[n] /\ batch'[n] = batch[n]
    BY <1>1, ListShrinks
  <2> QED BY <1>1, <2>1, ListStep, NothingUndone DEF Rests
<1>2. CASE LoadTagger(m)
  <2>1. stage[m] # "idle"
    BY <1>2 DEF LoadTagger
  <2> QED BY <1>2, <2>1, LoadTaggerDescends, NothingUndone
<1>3. CASE WriteTagger(m)
  <2>1. stage[m] # "idle"
    BY <1>3 DEF WriteTagger
  <2> QED BY <1>3, <2>1, WriteTaggerDescends, NothingUndone
<1>4. CASE FetchSummarizer(m)
  <2>1. stage[m] # "idle"
    BY <1>4 DEF FetchSummarizer
  <2> QED BY <1>4, <2>1, FetchSummarizerDescends, NothingUndone
<1>5. CASE SummarizeDocument(m)
  <2>1. stage[m] # "idle"
    BY <1>5 DEF SummarizeDocument, WriteSummary
  <2> QED BY <1>5, <2>1, SummarizeDocumentDescends, NothingUndone
<1> QED BY <1>1, <1>2, <1>3, <1>4, <1>5 DEF Work

LEMMA SummarizeBlankRests ==
    ASSUME TypeOK, NEW m \in Processes, SummarizeBlank(m)
    PROVE  /\ UNCHANGED <<redacted, stage>> /\ stage[m] = "summarizer"
           /\ \A n \in Processes : n # m => Rests(n)
BY DEF SummarizeBlank, WriteSummary, pageRows, Rests, TypeOK, ProcessesOK

(* The tagger's batches have text, and so do its redactions.               *)
LEMMA NotBlankStep ==
    ASSUME TypeOK, NotBlank, [Next]_vars
    PROVE  NotBlank'
<1>1. CASE UNCHANGED vars
  BY <1>1 DEF vars, pageRows, process, NotBlank
<1>2. ASSUME NEW m \in Processes, Start(m) \/ Work(m) \/ End(m) \/ Kill(m) PROVE NotBlank'
  <2>1. \A p \in Pages : redacted'[p] # Blank
    <3>1. CASE WriteTagger(m)
      BY <3>1, WriteTaggerDescends
    <3>2. CASE Work(m) /\ ~WriteTagger(m)
      <4>1. UNCHANGED redacted
        BY <3>2 DEF Work, FormatFile, OcrPage, LoadTagger, TypePage, SummarizeDocument, SummarizeBlank,
                    WriteSummary, FetchSummarizer, CategorizeDocument, pageRows
      <4> QED BY <4>1 DEF NotBlank
    <3>3. CASE Start(m) \/ End(m) \/ Kill(m)
      <4>1. UNCHANGED redacted
        BY <3>3, StartsAlone, EndLeaves
      <4> QED BY <4>1 DEF NotBlank
    <3> QED BY <1>2, <3>1, <3>2, <3>3
  <2>2. stage'[m] = "pii_tagger" => \A r \in batch'[m] : r.text # Blank
    <3>1. CASE Start(m)
      BY <3>1, StartsAlone
    <3>2. CASE End(m) \/ Kill(m)
      <4>1. stage'[m] = "idle"
        BY <3>2, EndLeaves, LeaveRests
      <4> QED BY <4>1
    <3>3. CASE LoadTagger(m)
      BY <3>3, LoadTaggerDescends
    <3>4. CASE WriteTagger(m)
      BY <3>4, WriteTaggerDescends
    <3>5. CASE FormatFile(m) \/ OcrPage(m) \/ TypePage(m) \/ CategorizeDocument(m)
      BY <3>5, ListShrinks
    <3>6. CASE FetchSummarizer(m) \/ SummarizeDocument(m) \/ SummarizeBlank(m)
      <4>1. stage[m] = "summarizer" /\ stage' = stage
        BY <3>6 DEF FetchSummarizer, SummarizeDocument, SummarizeBlank, WriteSummary
      <4> QED BY <4>1
    <3> QED BY <1>2, <3>1, <3>2, <3>3, <3>4, <3>5, <3>6 DEF Work
  <2>3. ASSUME NEW n \in Processes, n # m PROVE Rests(n)
    BY <1>2, <2>3, StartsAlone, EndLeaves, LeaveRests, WorkDescends, SummarizeBlankRests
  <2> QED BY <2>1, <2>2, <2>3 DEF NotBlank, Rests
<1> QED BY <1>1, <1>2 DEF Next

(* Steps of a process use up what it has left, those of others add nothing. *)
LEMMA StageDescends ==
    ASSUME TypeOK, NotBlank, Next, NEW m \in Processes
    PROVE  StageUsesUp(m)
<1> SUFFICES ASSUME ~Blanks
             PROVE  /\ Work(m) \/ End(m) => StageLeft(m)' < StageLeft(m)
                    /\ ~Start(m) => StageLeft(m)' <= StageLeft(m)
  BY DEF StageUsesUp
<1> \A n \in Processes : ~SummarizeBlank(n)
  BY DEF Blanks
<1>1. StepsLeft(m) \in Nat /\ StepsLeft(m)' \in Nat
  BY RoundsCount, PagesAssumption DEF StepsLeft
<1>2. ASSUME NoMore(m) PROVE StepsLeft(m)' <= StepsLeft(m)
  BY <1>2, RoundsShrink DEF NoMore, StepsLeft
<1>3. ASSUME Fewer(m) PROVE StepsLeft(m)' < StepsLeft(m)
  BY <1>3, RoundsShrink DEF Fewer, NoMore, StepsLeft
<1>4. CASE Work(m)
  <2>1. StepsLeft(m)' < StepsLeft(m) /\ stage' = stage
    BY <1>3, <1>4, WorkDescends
  <2> QED BY <1>1, <2>1 DEF StageLeft
<1>5. CASE End(m) \/ Kill(m)
  <2>1. stage[m] # "idle" /\ stage'[m] = "idle" /\ todo'[m] = {}
    BY <1>5, EndLeaves, LeaveRests
  <2>2. Due(m)' = {} /\ InHand(m)' = {}
    BY <2>1 DEF Due, InHand
  <2>3. StepsLeft(m)' <= StepsLeft(m)
    BY <1>2, <2>2 DEF NoMore
  <2> QED BY <1>1, <2>1, <2>3 DEF StageLeft
<1>6. CASE ~Start(m) /\ ~Work(m) /\ ~End(m) /\ ~Kill(m)
  <2>1. PICK n \in Processes : n # m /\ (Start(n) \/ Work(n) \/ End(n) \/ Kill(n))
    BY <1>6 DEF Next
  <2>2. Rests(m) /\ Accumulates
    <3>1. CASE Start(n)
      BY <2>1, <3>1, StartsAlone, NothingUndone
    <3>2. CASE Work(n)
      BY <2>1, <3>2, WorkDescends
    <3>3. CASE End(n) \/ Kill(n)
      BY <2>1, <3>3, EndLeaves, LeaveRests, NothingUndone
    <3> QED BY <2>1, <3>1, <3>2, <3>3
  <2>3. NoMore(m)
    <3>1. InHand(m)' = InHand(m)
      BY <2>2 DEF Rests, InHand, Held
    <3>2. Due(m)' \subseteq Due(m)
      BY <2>2 DEF Rests, Due, Accumulates
    <3> QED BY <3>1, <3>2 DEF NoMore
  <2>4. stage'[m] = stage[m]
    BY <2>2 DEF Rests
  <2> QED BY <1>1, <1>2, <1>6, <2>3, <2>4 DEF StageLeft
<1>7. CASE Start(m) /\ ~Work(m) /\ ~End(m)
  BY <1>7
<1> QED BY <1>4, <1>5, <1>6, <1>7

(* The bound under StagesEnd (the loops of run_pipeline's stages): from    *)
(* entering a stage to leaving it there are at most 2 * NumPages + 1 steps *)
(* of the process, and whatever the others do adds none; but for steps     *)
(* that write a blank summary, after which the document is fetched again.  *)
THEOREM PipelineStagesAreBounded ==
    Spec => /\ [](\A m \in Processes : StageLeft(m) \in 0..(2 * NumPages + 1))
            /\ [][\A m \in Processes : StageUsesUp(m)]_vars
<1>1. Init => NotBlank
  BY TextsAssumption DEF Init, NotBlank
<1>2. TypeOK /\ NotBlank /\ [Next]_vars => NotBlank'
  BY NotBlankStep
<1>3. TypeOK /\ NotBlank /\ [Next]_vars => [\A m \in Processes : StageUsesUp(m)]_vars
  BY StageDescends
<1>4. \A m \in Processes : StageLeft(m) \in 0..(2 * NumPages + 1)
  <2> SUFFICES ASSUME NEW m \in Processes PROVE StageLeft(m) \in 0..(2 * NumPages + 1)
    OBVIOUS
  <2>1. StepsLeft(m) \in 0..(2 * NumPages)
    BY RoundsCount DEF StepsLeft
  <2> QED BY <2>1, PagesAssumption DEF StageLeft
<1> QED BY <1>1, <1>2, <1>3, <1>4, PipelineTypeOK, PTL DEF Spec
=============================================================================
