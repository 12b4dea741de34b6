------------------------------- MODULE Labels -------------------------------
(***************************************************************************)
(* Which line of the taxonomy a printed row label names (arr/taxonomy.py), *)
(* and the workbench in which reviewers decide the labels a commission's   *)
(* mapping does not place (arr/workbench.py).                              *)
(*                                                                         *)
(* A label is a sequence of words, as norm_label leaves it.  An alias is   *)
(* longer than another if it has more words.                               *)
(***************************************************************************)
EXTENDS Integers, Sequences, FiniteSets, FiniteSetsExt, SequencesExt, TLC

CONSTANTS
    None,
    Twin,         \* the singular of each plural word, and the plural of each singular one
    Qualifiers,   \* the words after which a label no longer names its line
    Names,        \* the lines of the taxonomy, each with its code, branch, unit, names and notWhen
    Licensed      \* the branch of the order's licensee

-----------------------------------------------------------------------------
(* The placer.                                                             *)

Options(exact, alias) == IF \E n \in DOMAIN exact : exact[n].alias = alias
                         THEN exact[SelectInSeq(exact, LAMBDA e : e.alias = alias)].options ELSE <<>>

Known(exact, alias) == \E n \in DOMAIN exact : exact[n].alias = alias

Adding(exact, alias, option) ==
    IF ~Known(exact, alias) THEN Append(exact, [alias |-> alias, options |-> <<option>>])
    ELSE [n \in DOMAIN exact |-> IF exact[n].alias # alias \/ option \in ToSet(exact[n].options) THEN exact[n]
                                 ELSE [exact[n] EXCEPT !.options = Append(@, option)]]

OwnNames ==
    FoldLeft(LAMBDA exact, item :
                 FoldLeft(LAMBDA e, name : Adding(e, name, [code |-> item.code, branch |-> item.branch]), exact, item.names),
             <<>>, Names)

\* An alias of several words is also known by the other number of its last word, unless that is an alias of its own.
WithTwins(exact) ==
    FoldLeft(LAMBDA at, e :
                 LET variant == [e.alias EXCEPT ![Len(e.alias)] = Twin[@]]
                 IN IF Len(e.alias) = 1 \/ Last(e.alias) \notin DOMAIN Twin \/ Known(at, variant) THEN at
                    ELSE Append(at, [alias |-> variant, options |-> e.options]),
             exact, exact)

\* A commission's own word outranks the generic ones.
WithMapping(exact, aliases) ==
    LET own(l) == <<[code |-> aliases[l], branch |-> "mapping"]>>
        kept == [n \in DOMAIN exact |-> IF exact[n].alias \in DOMAIN aliases THEN [exact[n] EXCEPT !.options = own(exact[n].alias)] ELSE exact[n]]
    IN kept \o SetToSeq({[alias |-> l, options |-> own(l)] : l \in {l \in DOMAIN aliases : ~Known(exact, l)}})

Placer(aliases) == WithMapping(WithTwins(OwnNames), aliases)

Item(code) == Names[SelectInSeq(Names, LAMBDA i : i.code = code)]
Codes(options) == {o.code : o \in ToSet(options)}

\* The licensee's branch first, then the unit the table is printed in; else the label alone cannot say.
Pick(options, unit) ==
    LET preferred == Codes(SelectSeq(options, LAMBDA o : o.branch \in {Licensed, "mapping"}))
        shared == Codes(SelectSeq(options, LAMBDA o : o.branch = "shared"))
        pool == IF preferred # {} THEN preferred ELSE IF shared # {} THEN shared ELSE Codes(options)
        inUnit == {c \in pool : Item(c).unit = unit}
    IN CASE Cardinality(Codes(options)) = 1 -> CHOOSE c \in Codes(options) : TRUE
         [] Cardinality(Codes(options)) # 1 /\ Cardinality(pool) = 1 -> CHOOSE c \in pool : TRUE
         [] Cardinality(pool) # 1 /\ Cardinality(inUnit) = 1 -> CHOOSE c \in inUnit : TRUE
         [] OTHER -> None

Within(alias, label) == \E k \in 1 .. Len(label) - Len(alias) + 1 : SubSeq(label, k, k + Len(alias) - 1) = alias

BeforeClause(label) ==
    LET cut == SelectInSeq(label, LAMBDA w : w \in Qualifiers) IN IF cut = 0 THEN label ELSE SubSeq(label, 1, cut - 1)

\* The aliases inside the label, the longest first, that name a line it does not rule out.
Contained(exact, label, unit) ==
    LET fits == SelectSeq(exact, LAMBDA e :
                    /\ Within(e.alias, BeforeClause(label))
                    /\ Pick(e.options, unit) # None
                    /\ \A p \in Item(Pick(e.options, unit)).notWhen : ~Within(p, label))
        longest == {n \in DOMAIN fits : \A m \in DOMAIN fits : Len(fits[m].alias) <= Len(fits[n].alias)}
    IN IF fits = <<>> THEN None ELSE Pick(fits[Min(longest)].options, unit)

Place(exact, label, unit) ==
    IF label = <<>> THEN None
    ELSE IF Known(exact, label) THEN Pick(Options(exact, label), unit)
    ELSE Contained(exact, label, unit)

\* A label the taxonomy or the mapping knows is placed on a line it is known by, the commission's own
\* word before the others; one that two lines of the same unit share is not guessed; a label that
\* is known by what it contains names its line before any clause, and no longer name fits it.
PlacementHolds(aliases, label, unit, code) ==
    LET known == UNION {ToSet(i.names) : i \in ToSet(Names)}
        like(c, name) == \E n \in ToSet(Item(c).names) :
            name = n \/ (Len(n) > 1 /\ Last(n) \in DOMAIN Twin /\ name = [n EXCEPT ![Len(n)] = Twin[@]])
        names(c) == {l \in DOMAIN aliases : aliases[l] = c} \cup {SubSeq(label, k, m) : k, m \in DOMAIN label}
    IN /\ label \in DOMAIN aliases => code = aliases[label]
       /\ label \in known \ DOMAIN aliases /\ code # None => label \in ToSet(Item(code).names)
       /\ label \in known \ DOMAIN aliases /\ code = None =>
             \E i, j \in ToSet(Names) :
                /\ i # j /\ label \in ToSet(i.names) \cap ToSet(j.names) /\ {i.branch, j.branch} # {Licensed, "shared"}
                /\ i.unit = j.unit \/ unit \notin {i.unit, j.unit}
       /\ code # None /\ label \notin DOMAIN aliases \cup known =>
             \E name \in names(code) : like(code, name) \/ (name \in DOMAIN aliases /\ aliases[name] = code)
       /\ ToSet(label) \cap Qualifiers # {} /\ code # None =>
             code = Place(Placer(aliases), BeforeClause(label), unit) \/ label \in DOMAIN aliases \cup known
=============================================================================
