------------------------------ MODULE Triage ------------------------------
(***************************************************************************)
(* Page triage (triage.py): the class of a page from its signals, and the  *)
(* printed page labels, from what the footers show to one rule of segments *)
(* for the document.                                                       *)
(*                                                                         *)
(* A signal is known by the thresholds it passes; a label by its number    *)
(* and style, and a line of a page by the label patterns that match it.    *)
(***************************************************************************)
EXTENDS Integers, Sequences, FiniteSets, FiniteSetsExt, SequencesExt

CONSTANT None

-----------------------------------------------------------------------------
(* Classification.                                                         *)

\* Each component of the text's quality is judged by itself, word-likeness only of enough words.
QualityFlags(q) ==
    LET broken == {f \in {"glyph_mapping_damaged", "text_not_wordlike", "suspected_column_interleaving"} :
                      \/ f = "glyph_mapping_damaged" /\ ~q.glyphs
                      \/ f = "text_not_wordlike" /\ q.manyTokens /\ ~q.wordlike
                      \/ f = "suspected_column_interleaving" /\ ~q.inOrder}
    IN IF broken = {} THEN {} ELSE broken \cup {"low_text_quality", "ocr_needed"}

TableLike(sig) == sig.rulings \/ sig.columns \/ sig.smallGrid

\* text is none, sparse or full; drawings none, some or many.
PageClass(sig) ==
    CASE sig.text = "none" /\ sig.imageCovers -> "image_only"
      [] sig.text = "none" /\ ~sig.imageCovers /\ sig.drawings = "many" -> "vector_graphics_text_sparse"
      [] sig.text = "none" /\ ~sig.imageCovers /\ sig.drawings # "many" ->
             IF ~sig.images /\ sig.drawings = "none" THEN "blank" ELSE "unknown"
      [] sig.text = "sparse" /\ sig.drawings = "many" -> "vector_graphics_text_sparse"
      [] sig.text # "none" /\ ~(sig.text = "sparse" /\ sig.drawings = "many") ->
             IF TableLike(sig) THEN IF sig.prose THEN "mixed" ELSE "table"
             ELSE IF sig.text = "sparse" /\ sig.imageCovers THEN "image_only"
             ELSE IF sig.cover THEN "annexure_cover" ELSE IF sig.text = "sparse" THEN "unknown" ELSE "narrative"

ClassifyPage(sig) ==
    LET class == PageClass(sig)
        quality == IF sig.text = "none" THEN {"no_text_layer"} ELSE QualityFlags(sig.quality)
        graphics == CASE class = "vector_graphics_text_sparse" -> {"ocr_needed", "overlapping_graphics"}
                      [] class = "image_only" -> IF sig.text = "none" THEN {"ocr_needed"} ELSE {"footer_only_text", "ocr_needed"}
                      [] class = "unknown" /\ sig.text = "none" -> {"ocr_needed"}
                      [] OTHER -> {}
    IN [class |-> class, flags |-> quality \cup graphics, ocr |-> "ocr_needed" \in quality \cup graphics]

-----------------------------------------------------------------------------
(* Printed page labels.                                                    *)

\* The lines that may show it: the last four, then the first two; the first that any pattern
\* matches, and of its patterns the first that gives a number.
ExtractLabel(lines) ==
    LET zone == SubSeq(lines, Max({1, Len(lines) - 3}), Len(lines)) \o SubSeq(lines, 1, Min({2, Len(lines)}))
        shown == FlattenSeq(zone)
    IN IF shown = <<>> THEN None ELSE shown[1]

\* A segment: the labels of its pages are their index and an offset, in one style.
LabelFor(seg, page) == IF page + seg.offset < 1 THEN None ELSE [style |-> seg.style, number |-> page + seg.offset]

\* Neighbouring observations that say the same are a run.
RunsWith(runs, o) ==
    IF runs # <<>> /\ Last(runs).style = o.style /\ Last(runs).offset = o.offset
    THEN [runs EXCEPT ![Len(runs)].end = o.page, ![Len(runs)].pages = @ + 1]
    ELSE Append(runs, [style |-> o.style, offset |-> o.offset, start |-> o.page, end |-> o.page, pages |-> 1])

LabelRuns(observed) == FoldLeft(RunsWith, <<>>, observed)

\* One page that agrees with nothing is no rule, and does not split one.
JoinKept(segs, run) ==
    IF run.pages < 2 THEN segs
    ELSE IF segs # <<>> /\ Last(segs).style = run.style /\ Last(segs).offset = run.offset
    THEN [segs EXCEPT ![Len(segs)].end = run.end, ![Len(segs)].pages = @ + run.pages]
    ELSE Append(segs, run)

Kept(runs) == FoldLeft(JoinKept, <<>>, runs)

\* Each segment reaches to its neighbours, the first and the last to the ends of the document.
Extended(segs, count) ==
    [n \in DOMAIN segs |->
        [segs[n] EXCEPT !.start = IF n = 1 THEN 1 ELSE @, !.end = IF n = Len(segs) THEN count ELSE segs[n + 1].start - 1]]

\* labels: what each page shows, or None.
InferLabelRule(labels) ==
    LET shown == SelectSeq([p \in DOMAIN labels |-> p], LAMBDA p : labels[p] # None)
    IN Extended(Kept(LabelRuns([n \in DOMAIN shown |-> [page |-> shown[n], style |-> labels[shown[n]].style,
                                                        offset |-> labels[shown[n]].number - shown[n]]])), Len(labels))

FromRule(segs, page) ==
    LET n == SelectInSeq(segs, LAMBDA s : s.start <= page /\ page <= s.end) IN IF n = 0 THEN None ELSE LabelFor(segs[n], page)

\* What the page shows, then the rule, then what the file declares; disagreements are flagged.
Resolve(page, declared, shown, rule) ==
    LET label == IF shown # None THEN shown ELSE IF rule # None THEN rule ELSE declared
    IN [label |-> label,
        source |-> IF shown # None THEN "observed" ELSE IF rule # None THEN "rule" ELSE IF declared # None THEN "declared" ELSE "none",
        flags |-> (IF None \notin {declared, label} /\ declared # label THEN {"label_conflict"} ELSE {})
                  \cup (IF None \notin {shown, rule} /\ rule # shown THEN {"label_off_rule"} ELSE {})]

ResolveLabel(page, declared, shown, segs) == Resolve(page, declared, shown, FromRule(segs, page))

\* A document: what its pages show, the rule, and each page's label.
Labelled(declared, labels, segs) ==
    [shown |-> labels, rule |-> segs, labels |-> [p \in DOMAIN labels |-> ResolveLabel(p, declared[p], labels[p], segs)]]
WithRule(declared, labels) == Labelled(declared, labels, InferLabelRule(labels))
TriageDocument(pages, declared) == WithRule(declared, [p \in DOMAIN pages |-> ExtractLabel(pages[p])])

-----------------------------------------------------------------------------
(* Properties.                                                             *)

\* A page without a usable text layer is read by OCR unless nothing is on it, whatever else its
\* signals say; a page whose signals decide nothing is never passed as prose or a table; a table
\* drawn as graphics is told from a blank page.
ClassHolds(sig, out) ==
    /\ out.class = "blank" => sig.text = "none" /\ ~sig.imageCovers /\ ~sig.images /\ sig.drawings = "none" /\ ~out.ocr
    /\ sig.text = "none" /\ out.class # "blank" => out.ocr
    /\ sig.text # "none" /\ ~(sig.quality.glyphs /\ sig.quality.inOrder) => out.ocr
    /\ out.class \in {"table", "mixed"} => TableLike(sig)
    /\ out.class = "narrative" => sig.text = "full"
    /\ sig.drawings = "many" /\ sig.text # "full" /\ ~sig.imageCovers => out.class = "vector_graphics_text_sparse"
    /\ out.class \in {"image_only", "vector_graphics_text_sparse"} => out.ocr

\* Every page has one label rule where two neighbours show one; pages that show what a neighbour
\* shows are on their own rule, and one stray footer changes the label of no other page: on each
\* side of a page of the document numbered in one style, where a run of two shows the numbering,
\* a page without a footer has the number it was given.  No two pages the rule numbers answer to
\* one printed label unless one of them is flagged.
LabelsHold(given, labels, segs, out) ==
    LET shown == {p \in DOMAIN labels : labels[p] # None}
        right == {p \in shown : labels[p] = given[p]}
        next(p) == {q \in shown : q > p /\ \A r \in shown : r > p => q <= r}
        pair(p) == \E q \in next(p) : /\ labels[q].style = labels[p].style
                                      /\ labels[q].number - q = labels[p].number - p
    IN /\ segs # <<>> => /\ segs[1].start = 1 /\ segs[Len(segs)].end = Len(labels)
                         /\ \A n \in 2 .. Len(segs) : segs[n].start = segs[n - 1].end + 1
       /\ \A n \in DOMAIN segs : segs[n].start <= segs[n].end
       /\ segs = <<>> <=> \A p \in shown : ~pair(p)
       /\ \A p \in shown : pair(p) => \A q \in {p} \cup next(p) : "label_off_rule" \notin out[q].flags
       /\ Cardinality(shown \ right) <= 1 =>
             \A p \in DOMAIN labels \ shown : \A q, r \in right :
                 /\ q < r /\ pair(q) /\ r \in next(q)
                 /\ \A d \in DOMAIN labels : given[d].style = given[p].style
                 => out[p].label = given[p]
       /\ \A p, q \in {p \in DOMAIN labels : FromRule(segs, p) # None} :
             p # q /\ out[p].label = out[q].label => out[p].flags \cup out[q].flags # {}
=============================================================================
