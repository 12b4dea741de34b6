------------------------------ MODULE Channels ------------------------------
(***************************************************************************)
(* The two readings of one region and what becomes of them (extraction.py, *)
(* stages/extract.py, assessment.py): duplicates of a reading are merged,  *)
(* the rules' reading is paired with the image's, overlapping regions are  *)
(* merged again, and each result is routed to a batch or to a reviewer of  *)
(* its own.  A candidate is a fact (family, category, component) with what *)
(* names its row, the block it stands under, its page, unit, frequency,    *)
(* sign and value, and the places that print it.                           *)
(***************************************************************************)
EXTENDS Integers, Sequences, FiniteSets, FiniteSetsExt, SequencesExt

\* label and slab are the sets of words of the description and of the slab; "none" is an attribute that is not printed;
\* value "none" is a state without a number (a reference, a formula, a footnote).  A block has a
\* letter or is a heading without one, and the words of its text, the letters it names included.
Block == [letter : STRING, words : SUBSET STRING]
Candidate(Places) == [fact : STRING, label : SUBSET STRING, slab : SUBSET STRING, season : STRING, block : Block, page : Nat, unit : STRING,
                      frequency : STRING, value : STRING, sign : {-1, 0, 1}, cell : BOOLEAN, places : SUBSET Places]

NoBlock == [letter |-> "none", words |-> {}]

\* A lettered block goes by its letter, another by its text.
BlockLetter(b) == <<b.letter, IF b.letter = "none" THEN b.words ELSE {}>>

Compatible(a, b) == "none" \in {a, b} \/ a = b

SeasonWord(words) == words \cap {"summer", "winter"}

\* The season a row names, or else the block above it.
SeasonOf(c) == IF c.season # "none" THEN {c.season} ELSE SeasonWord(c.block.words)

Differ(s, t) == s # {} /\ t # {} /\ s # t

SeasonsConflict(a, b) == Differ(SeasonOf(a), SeasonOf(b))

\* Two letters are one block or one names the other; a heading without a letter separates two
\* readings only where both name a season.
BlocksCompatible(x, y) ==
    \/ NoBlock \in {x, y}
    \/ BlockLetter(x) = BlockLetter(y)
    \/ "none" \in {x.letter, y.letter} /\ ~Differ(SeasonWord(x.words), SeasonWord(y.words))
    \/ "none" \notin {x.letter, y.letter} /\ (x.letter \in y.words \/ y.letter \in x.words)

RowParts(c) == c.label \cup c.slab

\* A row however labelled: equal, or the shorter label is inside the longer.
PartsMatch(x, y) == x = y \/ (x # {} /\ y # {} /\ (x \subseteq y \/ y \subseteq x))

DupKey(c) == <<c.fact, c.page, c.value, c.sign>>

SameRowPrinted(a, b) == /\ BlocksCompatible(a.block, b.block) /\ Compatible(a.unit, b.unit) /\ ~SeasonsConflict(a, b)
                        /\ PartsMatch(RowParts(a), RowParts(b))

SamePrintedLoosely(a, b) == a.value # "none" /\ a.fact = b.fact /\ a.page = b.page /\ SameRowPrinted(a, b)

\* The same printed fact: fact, page, value and sign agree, block, unit and season do not
\* contradict, the row matches.
SamePrinted(a, b) == a.value # "none" /\ DupKey(a) = DupKey(b) /\ SameRowPrinted(a, b)

-----------------------------------------------------------------------------
(* Duplicates within one reading.                                          *)

\* A table cell outranks a clause; of two alike the one with a block does.
Outranks(new, old) == IF new.cell # old.cell THEN new.cell ELSE new.block # NoBlock /\ old.block = NoBlock

\* The winner cites both places and takes what it does not name itself, one attribute at a time.
Filled(winner, loser) ==
    LET filled(empty, own, other) == IF own = empty THEN other ELSE own
    IN [winner EXCEPT !.places = @ \cup loser.places,
                      !.block = filled(NoBlock, @, loser.block),
                      !.label = filled({}, @, loser.label),
                      !.slab = filled({}, @, loser.slab),
                      !.frequency = filled("none", @, loser.frequency),
                      !.unit = filled("none", @, loser.unit)]

MergeInto(kept, c) ==
    LET same == {i \in DOMAIN kept : SamePrinted(kept[i], c)}
        other == kept[Min(same)]
    IN IF same = {} THEN Append(kept, c)
       ELSE [kept EXCEPT ![Min(same)] = IF Outranks(c, other) THEN Filled(c, other) ELSE Filled(other, c)]

MergeDuplicates(candidates) == FoldLeft(MergeInto, <<>>, candidates)

-----------------------------------------------------------------------------
(* The rules' reading against the image's.                                 *)

\* What a fact is about: neither its page, its unit nor its value.
Key(c) == <<c.fact, c.label, c.slab, c.season, BlockLetter(c.block)>>

\* One candidate per key, the last one read.
ByKey(candidates) == {i \in DOMAIN candidates : \A j \in i + 1 .. Len(candidates) : Key(candidates[j]) # Key(candidates[i])}

\* The label of either side is among the texts of the other, the block's included, or the slabs name
\* the row; never two rows of two seasons.
SameRow(a, b) ==
    LET named(x, y) == x.label # {} /\ (x.label \subseteq y.label \/ x.label \subseteq y.block.words)
    IN /\ ~SeasonsConflict(a, b)
       /\ \/ named(a, b) \/ named(b, a)
          \/ {} \notin {RowParts(a), RowParts(b)} /\ PartsMatch(RowParts(a), RowParts(b))

Beside(a, b) == a.fact = b.fact /\ a.page = b.page /\ SameRow(a, b)

FirstPass(s, i) == {p \in ByKey(s) \X ByKey(i) : Key(s[p[1]]) = Key(i[p[2]])}

Paired(pairs, side) == {p[side] : p \in pairs}

\* Labelled differently: the block's letter, the page and the row name it; the first partner free is taken.
SecondPass(s, i) ==
    FoldLeft(LAMBDA pairs, x :
                 LET free == {y \in ByKey(i) \ Paired(pairs, 2) : Beside(s[x], i[y]) /\ BlockLetter(s[x].block) = BlockLetter(i[y].block)}
                 IN IF x \in Paired(pairs, 1) \/ free = {} THEN pairs ELSE pairs \cup {<<x, Min(free)>>},
             FirstPass(s, i), SetToSortSeq(ByKey(s), <))

LoneAlways(s, left, x) == TRUE

Lone(s, left, x) == {z \in left : Beside(s[z], s[x])} = {x}

\* A block named differently pairs only where the row is unambiguous on both sides.
ThirdPass(s, i) ==
    LET before == SecondPass(s, i)
        left == ByKey(s) \ Paired(before, 1)
    IN FoldLeft(LAMBDA pairs, x :
                    LET free == {y \in ByKey(i) \ Paired(pairs, 2) : Beside(s[x], i[y])}
                    IN IF x \in left /\ Lone(s, left, x) /\ Cardinality(free) = 1
                       THEN pairs \cup {<<x, Min(free)>>} ELSE pairs,
                before, SetToSortSeq(ByKey(s), <))

NoFact == [fact |-> "none"]

Agreement(a, b) ==
    IF <<a.value, a.sign, a.unit, a.frequency>> = <<b.value, b.sign, b.unit, b.frequency>> THEN "agree" ELSE "disagree"

\* Compared: <<the rules' candidate, the image's, how they agree>>.
CompareChannels(s, i, imageRead) ==
    LET pairs == ThirdPass(s, i)
        missing == IF imageRead THEN "one_missing" ELSE "single_channel"
    IN {<<s[p[1]], i[p[2]], Agreement(s[p[1]], i[p[2]])>> : p \in pairs}
       \cup {<<s[x], NoFact, missing>> : x \in ByKey(s) \ Paired(pairs, 1)}
       \cup {<<NoFact, i[y], missing>> : y \in ByKey(i) \ Paired(pairs, 2)}

Primary(compared) == IF compared[1] # NoFact THEN compared[1] ELSE compared[2]

-----------------------------------------------------------------------------
(* Overlapping regions.                                                    *)

Rank(compared) == <<compared[3] = "agree", Primary(compared).cell, Primary(compared).block # NoBlock>>

Before(a, b) == \E n \in 1 .. 3 : Rank(a)[n] /\ ~Rank(b)[n] /\ \A m \in 1 .. n - 1 : Rank(a)[m] = Rank(b)[m]

Citing(compared, places) ==
    [compared EXCEPT ![IF compared[1] # NoFact THEN 1 ELSE 2].places = @ \cup places]

DedupeInto(kept, c) ==
    LET same == {k \in DOMAIN kept : SamePrinted(Primary(kept[k]), Primary(c))}
        k == Min(same)
    IN IF same = {} THEN Append(kept, c)
       ELSE [kept EXCEPT ![k] = IF Before(c, @) THEN Citing(c, Primary(@).places) ELSE Citing(@, Primary(c).places)]

DedupeCompared(compared) == FoldLeft(DedupeInto, <<>>, compared)

-----------------------------------------------------------------------------
(* Routing.                                                                *)

CellFlags == {"header_inherited", "merged_cell_propagated", "reader_disagreement", "slab_inclusivity_ambiguous",
              "unit_unresolved", "nil_word"}
Contexts == {"ocr_page", "cross_reference", "fields_missing", "new_profile"}
ModelTags == {"model_low_confidence", "model_contradicted", "assessment_ungrounded"}

\* flags are those of every cell it cites; context is a set of Contexts.
Route(agreement, flags, context) ==
    LET risks == (flags \cap CellFlags) \cup context
                 \cup (CASE agreement = "disagree" -> {"channel_disagreement"} [] agreement = "one_missing" -> {"channel_missing"}
                         [] agreement = "single_channel" -> {"single_channel"} [] OTHER -> {})
        level == CASE agreement = "disagree" \/ (agreement = "agree" /\ "fields_missing" \in context) -> "low"
                   [] agreement = "agree" -> "high" [] OTHER -> "medium"
    IN [confidence |-> level, risks |-> risks, batch |-> level = "high" /\ risks = {}]

\* The assessment: an item without a grounded quote is tagged; an item the model left out is not.
AssessmentTags(verdict, confident, grounded) ==
    IF verdict = "not_assessed" THEN {}
    ELSE {t \in ModelTags : \/ t = "model_low_confidence" /\ ~confident
                            \/ t = "model_contradicted" /\ verdict = "contradicted"
                            \/ t = "assessment_ungrounded" /\ ~grounded}

Assessed(routed, tags) ==
    [confidence |-> CASE "model_contradicted" \in tags -> "low"
                      [] "model_low_confidence" \in tags /\ routed.confidence = "high" -> "medium"
                      [] OTHER -> routed.confidence,
     risks |-> routed.risks \cup tags, batch |-> routed.batch /\ tags = {}]

-----------------------------------------------------------------------------
(* Reading the regions of an order.                                        *)

ReadRoles == {"approved_schedule", "approved_summary"}
GridFactRoles == {"network_charges", "loss_trajectory"}

\* Regions overlap: a grid feeds the first region of its role that covers it and is not excluded.
Claims(regions, grids) ==
    FoldLeft(LAMBDA fed, r :
                 Append(fed, {g \in grids : /\ ~r.excluded /\ g.role = r.role /\ r.role \in ReadRoles \cup GridFactRoles
                                            /\ g.page \in r.start .. r.end
                                            /\ \A n \in DOMAIN fed : g \notin fed[n]}),
             <<>>, regions)

\* The image channel reads a few pages per call; a call the output limit cut is read again page by
\* page; the job stops at the first call past the order's budget.
Call(at, pages, cut, cost, limit) ==
    IF at.stopped THEN at
    ELSE [at EXCEPT !.cost = @ + cost, !.stopped = at.cost + cost > limit, !.calls = Append(@, pages),
                    !.read = IF cut THEN @ ELSE @ \cup pages]

ReadChunk(at, pages, long, limit) ==
    LET cut == pages \cap long # {} /\ Cardinality(pages) > 1
        first == Call(at, pages, cut, Cardinality(pages), limit)
    IN IF cut THEN FoldLeft(LAMBDA a, p : Call(a, {p}, FALSE, 1, limit), first, SetToSortSeq(pages, <)) ELSE first

ReadImage(pages, perCall, long, limit) ==
    LET chunk(n) == {p \in 1 .. pages : (p - 1) \div perCall = n}
        last == (pages - 1) \div perCall
    IN FoldLeft(LAMBDA at, n : ReadChunk(at, chunk(n - 1), long, limit),
                [cost |-> 0, read |-> {}, calls |-> <<>>, stopped |-> FALSE], [n \in 1 .. last + 1 |-> n])

-----------------------------------------------------------------------------
(* Properties.                                                             *)

Values(c) == {[key |-> DupKey(c), place |-> p] : p \in c.places}

\* Merging loses no printed place and invents none: every place is cited
\* once, for the value printed there; and a clause reading is kept only where
\* no cell prints the same.
MergeHolds(candidates, kept) ==
    /\ UNION {Values(c) : c \in ToSet(kept)} = UNION {Values(c) : c \in ToSet(candidates)}
    /\ \A i, j \in DOMAIN kept : i # j => kept[i].places \cap kept[j].places = {}
    /\ \A k \in ToSet(kept) : ~k.cell => \A c \in ToSet(candidates) : c.places \subseteq k.places => ~c.cell

\* Both channels of an order are compared once: each candidate that has its
\* key to itself is in one comparison, a pair is about one fact of one season,
\* and two rows that could each be the other's are never paired across
\* blocks.
CompareHolds(s, i, compared) ==
    /\ \A side \in 1 .. 2 : \A c \in {(<<s, i>>[side])[n] : n \in ByKey(<<s, i>>[side])} :
           Cardinality({x \in compared : x[side] = c}) = 1
    /\ \A x \in compared : NoFact \notin {x[1], x[2]} =>
           /\ x[1].fact = x[2].fact /\ (Key(x[1]) = Key(x[2]) \/ ~SeasonsConflict(x[1], x[2]))
           /\ x[3] = "agree" => x[1].value = x[2].value /\ x[1].sign = x[2].sign
           /\ BlockLetter(x[1].block) # BlockLetter(x[2].block) => \A y \in compared : y[1] # NoFact /\ y[1] # x[1] /\ y[2] = NoFact => ~Beside(y[1], x[1])

\* A value read in two regions is kept once and none is lost to another: what
\* every comparison read stands in some survivor that cites its places, and
\* where the channels agreed on it somewhere the survivor is such a pair.
DedupeHolds(compared, kept) ==
    \A c \in ToSet(compared) : \E k \in ToSet(kept) :
        /\ Values(Primary(c)) \subseteq Values(Primary(k))
        /\ c[3] = "agree" => k[3] = "agree"

\* Only what both channels read alike, from cells without a flag, in an order
\* whose kind was reviewed before, and that the model did not doubt, can be
\* decided in a batch.
BatchHolds(agreement, flags, context, tags, routed) ==
    /\ routed.batch => agreement = "agree" /\ flags \cap CellFlags = {} /\ context = {} /\ tags = {}
    /\ routed.confidence = "high" => agreement = "agree" /\ "model_contradicted" \notin tags

\* Each grid is read for one region at most, and for one if any region that is read covers it.
ClaimsHold(regions, grids, fed) ==
    \A g \in grids :
        LET takers == {n \in DOMAIN fed : g \in fed[n]}
            open == {n \in DOMAIN regions : ~regions[n].excluded /\ regions[n].role = g.role /\ g.page \in regions[n].start .. regions[n].end}
        IN Cardinality(takers) <= 1 /\ takers \subseteq open
           /\ (g.role \in ReadRoles \cup GridFactRoles => (open = {}) = (takers = {}))

\* An order is read whole or the job stops on its budget, and the budget is passed by one call at most.
ImageHolds(pages, limit, at) ==
    /\ at.stopped \/ at.read = 1 .. pages
    /\ at.cost > limit <=> at.stopped
    /\ at.stopped => at.cost - Cardinality(Last(at.calls)) <= limit
=============================================================================
