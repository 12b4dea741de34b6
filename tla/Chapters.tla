------------------------------ MODULE Chapters ------------------------------
(***************************************************************************)
(* The ARR chapters of an order from the lines of its pages                *)
(* (arr/chapters.py).                                                      *)
(*                                                                         *)
(* A page is a sequence of lines, a line what it looks like: its text, the *)
(* kinds of line it can be read as, the numbers it opens with, the branch  *)
(* its words cue and whether it is about the petition or the hearing.      *)
(***************************************************************************)
EXTENDS Integers, Sequences, FiniteSets, FiniteSetsExt, SequencesExt

CONSTANTS
    None,
    FurniturePages,   \* a line at the edge of so many pages is a running header
    MaxTail,          \* the pages of a last chapter that runs to the end
    DeepenPages,      \* a chapter so long is looked into
    NumberedMin       \* the cued headings that make an order's numbers those of its sections

Edge(page) == {n \in DOMAIN page : n <= 3 \/ n > Len(page) - 3}
Texts(page, ns) == {page[n].text : n \in ns}

Furniture(pages) ==
    LET on(t) == {p \in DOMAIN pages : t \in Texts(pages[p], Edge(pages[p]))}
    IN {t \in UNION {Texts(pages[p], Edge(pages[p])) : p \in DOMAIN pages} : Cardinality(on(t)) >= FurniturePages}

Contents(page) ==
    LET leaders == {n \in DOMAIN page : "leader" \in page[n].kinds} IN Cardinality(leaders) >= Max({3, Len(page) \div 4})

\* The lines that are read, each with its page.
LinesOf(pages, skip) ==
    FlattenSeq([p \in DOMAIN pages |->
        LET read == SelectSeq(pages[p], LAMBDA l : l.text \notin skip)
        IN IF Contents(pages[p]) THEN <<>> ELSE [n \in DOMAIN read |-> [page |-> p, line |-> read[n]]]])

Of(lines, kind) == SelectSeq(lines, LAMBDA h : kind \in h.line.kinds)

\* Sections have numbers of one or two levels; a chapter, a lettered part and a third level are not numbered so.
Section(h) == h.line.number # <<>> /\ h.line.kinds \cap {"chapter", "letter", "deep"} = {}
Heads(lines) == SelectSeq(Of(lines, "heading"), LAMBDA h : Section(h) \/ h.line.cue # None)
Numbered(lines) == SelectSeq(Of(lines, "heading"), Section)

\* Numbers in the order of Python's tuples.
NotAfter(a, b) ==
    \/ \E k \in 1 .. Len(b) : k <= Len(a) /\ a[k] < b[k] /\ \A j \in 1 .. k - 1 : a[j] = b[j]
    \/ Len(a) <= Len(b) /\ \A j \in DOMAIN a : a[j] = b[j]

Weight(h) == IF h.line.cue # None THEN 2 ELSE 1
WeightOf(run) == FoldLeft(LAMBDA n, h : n + Weight(h), 0, run)

Heaviest(runs) == SelectInSeq(runs, LAMBDA r : \A k \in DOMAIN runs : WeightOf(runs[k]) <= WeightOf(r))

\* The heaviest run of section numbers, that never goes back, to each heading.
RunsTo(heads) ==
    FoldLeft(LAMBDA runs, h :
                 LET fits == SelectSeq(runs, LAMBDA r : NotAfter(Last(r).line.number, h.line.number))
                 IN Append(runs, Append(IF fits = <<>> THEN <<>> ELSE fits[Heaviest(fits)], h)),
             <<>>, heads)

HeaviestOf(runs) == IF runs = <<>> THEN <<>> ELSE runs[Heaviest(runs)]
LongestRun(heads) == HeaviestOf(RunsTo(heads))

FirstOfEach(found) ==
    FoldLeft(LAMBDA out, f : IF \E g \in ToSet(out) : g.line.number = f.line.number THEN out ELSE Append(out, f), <<>>, found)

\* Lettered parts run on from the first, by their letters and their pages, and are three at least.
LetteredRun(firsts) ==
    LET first(n) == SelectSeq(firsts, LAMBDA f : f.line.number = <<n>>)[1]
        follow(out, n) == IF out = <<>> THEN n = 1 ELSE n <= Last(out).line.number[1] + 2 /\ first(n).page >= Last(out).page
    IN FoldLeft(LAMBDA at, n : IF at.ended \/ ~follow(at.out, n) THEN [at EXCEPT !.ended = TRUE] ELSE [at EXCEPT !.out = Append(@, first(n))],
                [ended |-> FALSE, out |-> <<>>], SetToSortSeq({f.line.number[1] : f \in ToSet(firsts)}, <))

AtLeastThree(parts) == IF Len(parts) >= 3 THEN parts ELSE <<>>
LetteredParts(found) == AtLeastThree(LetteredRun(FirstOfEach(found)).out)

\* Parts most of which begin on one page are a list of them.
NotListed(firsts) ==
    LET onePage == Max({0} \cup {Len(SelectSeq(firsts, LAMBDA f : f.page = p)) : p \in {f.page : f \in ToSet(firsts)}})
    IN IF Len(firsts) < 2 \/ 2 * onePage > Len(firsts) THEN <<>> ELSE firsts

\* The parts "Chapter N" or, without any, the lettered ones.
Parts(lines) ==
    NotListed(FirstOfEach(IF Of(lines, "chapter") # <<>> THEN Of(lines, "chapter") ELSE LetteredParts(Of(lines, "letter"))))

\* The part a page is in: the one that began last before it.
PartOf(parts, page) ==
    LET before == SelectSeq(parts, LAMBDA c : c.page <= page)
    IN IF before = <<>> THEN None
       ELSE before[SelectInSeq(before, LAMBDA c : \A d \in ToSet(before) : d.page <= c.page)]

InDecisions(part) == part = None \/ ~part.line.hearing
CuedInDecisions(numbered, parts) ==
    Len(SelectSeq(numbered, LAMBDA h : h.line.cue # None /\ InDecisions(PartOf(parts, h.page))))

\* The numbers of an order in parts mark its paragraphs when its numbered prose outweighs its headings.
Paragraphs(prose, numbered, parts) ==
    /\ parts # <<>>
    /\ prose >= Max({3, 3 * Len(numbered)})
    /\ \/ Len(SelectSeq(numbered, LAMBDA h : h.line.cue # None)) < NumberedMin
       \/ prose >= 10 * Len(numbered)
       \/ CuedInDecisions(numbered, parts) < NumberedMin

\* An order: its lines, its parts, its numbered headings and how it is read.
Ordered(lines, parts, numbered) ==
    [lines |-> lines, parts |-> parts, numbered |-> numbered, sections |-> LongestRun(numbered),
     byPart |-> Paragraphs(Len(Of(lines, "prose")), numbered, parts)]
OrderOf(lines) == Ordered(lines, Parts(lines), Numbered(lines))

Cue(page, branch, part) == [page |-> page, branch |-> branch, part |-> part]
NumberOf(part) == IF part = None THEN None ELSE part.line.number[1]

\* The headings of a page in the order the parts' reading takes them.
Unnumbered(here) ==
    SelectSeq(Heads(here), LAMBDA h : ~Section(h)) \o Numbered(here)
        \o SelectSeq(Of(here, "title"), LAMBDA h : "heading" \notin h.line.kinds)

\* The headings that open chapters, each with the number of the section or part it is in.
Cues(o) ==
    LET headings == IF o.byPart THEN FoldLeft(LAMBDA out, p : out \o Unnumbered(SelectSeq(o.lines, LAMBDA h : h.page = p)), <<>>,
                                              SetToSortSeq({h.page : h \in ToSet(o.lines)}, <))
                    ELSE IF o.numbered # <<>> THEN o.sections ELSE Heads(o.lines)
        part(h) == IF o.byPart THEN NumberOf(PartOf(o.parts, h.page)) ELSE IF o.numbered # <<>> THEN h.line.number[1] ELSE None
    IN FoldLeft(LAMBDA out, h : IF h.line.cue = None THEN out ELSE Append(out, Cue(h.page, h.line.cue, part(h))), <<>>, headings)

\* Where a section or a part begins that no chapter runs into.
Boundaries(o) ==
    {[page |-> h.page, number |-> h.line.number[1]] :
        h \in IF o.byPart THEN ToSet(o.parts) ELSE {h \in ToSet(o.sections) : Len(h.line.number) = 1}}

\* Headings of one branch that follow each other open one chapter, of one part where parts count.
Merged(cues, byPart) ==
    FoldLeft(LAMBDA out, c : IF out # <<>> /\ Last(out).branch = c.branch /\ (~byPart \/ Last(out).part = c.part) THEN out ELSE Append(out, c),
             <<>>, cues)

\* A chapter runs to the page of the next, or to the section or part that begins before it.
EndOf(c, next, boundaries, byPart) ==
    LET stops == IF byPart
                 THEN {b.page - 1 : b \in {b \in boundaries : c.page < b.page /\ b.page <= next /\ (c.part = None \/ b.number > c.part)}}
                 ELSE {b.page : b \in {b \in boundaries : c.page < b.page /\ b.page < next /\ c.part # None /\ b.number > c.part}}
    IN Min({next} \cup stops)

Chapter(branch, start, end) == [branch |-> branch, start |-> start, end |-> end]

\* A long chapter is split at the cued headings of the third level inside it.
OneOfEachCue(run) == FoldLeft(LAMBDA out, d : IF out # <<>> /\ Last(out).line.cue = d.line.cue THEN out ELSE Append(out, d), <<>>, run)

Split(ch, kept) ==
    IF ch.end - ch.start + 1 < DeepenPages \/ kept = <<>> THEN <<ch>>
    ELSE <<[ch EXCEPT !.end = kept[1].page]>> \o
         [n \in DOMAIN kept |-> Chapter(kept[n].line.cue, kept[n].page, IF n < Len(kept) THEN kept[n + 1].page ELSE ch.end)]

Deepened(chapters, lines) ==
    FoldLeft(LAMBDA out, ch :
                 out \o Split(ch, OneOfEachCue(LongestRun(SelectSeq(Of(lines, "deep"), LAMBDA d : ch.start < d.page /\ d.page <= ch.end)))),
             <<>>, chapters)

Ended(cues, o, boundaries, count) ==
    [n \in DOMAIN cues |->
        Chapter(cues[n].branch, cues[n].page,
                IF n < Len(cues) THEN EndOf(cues[n], cues[n + 1].page, boundaries, o.byPart) ELSE Min({count, cues[n].page + MaxTail - 1}))]

ChaptersOf(o, count) ==
    LET chapters == Ended(Merged(Cues(o), o.byPart), o, Boundaries(o), count)
    IN IF o.numbered # <<>> /\ ~o.byPart THEN Deepened(chapters, o.lines) ELSE chapters

ProposeChapters(pages) == ChaptersOf(OrderOf(LinesOf(pages, Furniture(pages))), Len(pages))

-----------------------------------------------------------------------------
(* Properties.                                                             *)

\* The chapters follow each other: each opens on a page that prints its cue outside the contents and
\* the running headers, none runs past the page of the next, and the last, where nothing ends it, runs
\* no further than is allowed; the numbers of the sections that open them never go back.
ChaptersFollow(pages, skip, o, cues, chapters) ==
    LET opening(p, b) == \E n \in DOMAIN pages[p] : pages[p][n].cue = b /\ pages[p][n].text \notin skip /\ pages[p][n].kinds \cap {"heading", "title", "deep"} # {}
    IN /\ \A n \in DOMAIN chapters :
             /\ 1 <= chapters[n].start /\ chapters[n].start <= chapters[n].end /\ chapters[n].end <= Len(pages)
             /\ ~Contents(pages[chapters[n].start]) /\ opening(chapters[n].start, chapters[n].branch)
             /\ n < Len(chapters) => chapters[n].end <= chapters[n + 1].start
       /\ chapters # <<>> => chapters[Len(chapters)].end <= chapters[Len(chapters)].start + MaxTail - 1
       /\ cues = <<>> <=> chapters = <<>>
       /\ ~o.byPart =>
             /\ \A n \in 1 .. Len(chapters) - 1 : chapters[n].branch # chapters[n + 1].branch \/ \E h \in ToSet(Of(o.lines, "deep")) : h.page = chapters[n + 1].start
             /\ \A n, m \in DOMAIN cues : n < m /\ o.numbered # <<>> => cues[n].part <= cues[m].part
       /\ o.byPart => \A n \in 1 .. Len(chapters) - 1 : \A b \in ToSet(o.parts) :
             b.page \in chapters[n].start + 1 .. chapters[n].end => b.line.number[1] <= NumberOf(PartOf(o.parts, chapters[n].start))

ChaptersHold(pages, skip, o, chapters) == ChaptersFollow(pages, skip, o, Cues(o), chapters)
=============================================================================
