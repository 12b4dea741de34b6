----------------------------- MODULE Workbench -----------------------------
(***************************************************************************)
(* The mapping workbench (arr/workbench.py): what reviewers decide of a    *)
(* commission's labels and conventions, and the versions of its mapping    *)
(* file a person writes and confirms from it.                              *)
(*                                                                         *)
(* A file: its version, its status, the code of each alias, the labels     *)
(* that are no lines, the conventions with a value and the inclusions of   *)
(* printed totals.  A convention's key is a label of one word.             *)
(***************************************************************************)
EXTENDS Labels

CONSTANTS
    Conventions,  \* the values a convention may have, by its key
    Inclusions    \* the keys that are inclusions

Skeleton == [version |-> 0, status |-> "draft", aliases |-> <<>>, notLines |-> {}, values |-> <<>>, includes |-> {}]
Fresh == [decisions |-> <<>>, files |-> <<>>]

LatestFile(at) == IF at.files = <<>> THEN Skeleton ELSE Last(at.files)

Decision(kind, code) == [kind |-> kind, code |-> code]

\* Deciding again replaces what was decided of the label.
Decide(at, label, kind, code) ==
    IF label = <<>> \/ (kind = "alias" /\ \A i \in ToSet(Names) : i.code # code) THEN at
    ELSE [at EXCEPT !.decisions = (label :> Decision(kind, IF kind = "alias" THEN code ELSE None)) @@ @]

DecideConvention(at, key, value) ==
    IF key \notin DOMAIN Conventions \/ value \notin Conventions[key] THEN at
    ELSE [at EXCEPT !.decisions = (key :> Decision("convention", value)) @@ @]

Withdraw(at, label) == [at EXCEPT !.decisions = [l \in DOMAIN @ \ {label} |-> @[l]]]

Decided(at, kind) == {l \in DOMAIN at.decisions : at.decisions[l].kind = kind}

\* The next version: the latest file with every standing decision written in.  What an earlier file
\* took of a decision withdrawn since stays.
Draft(at) ==
    LET file == LatestFile(at)
        conventions == Decided(at, "convention")
    IN [version |-> file.version + 1, status |-> "draft",
        aliases |-> [l \in Decided(at, "alias") |-> at.decisions[l].code] @@ file.aliases,
        notLines |-> file.notLines \cup Decided(at, "not_a_line"),
        values |-> [k \in conventions \ Inclusions |-> at.decisions[k].code] @@ file.values,
        includes |-> (file.includes \ conventions) \cup {k \in conventions \cap Inclusions : at.decisions[k].code = "applies"}]

\* A person commits the draft; a reviewer confirms a file, and lines read with it may be approved.
Commit(at) == [at EXCEPT !.files = Append(@, Draft(at))]
Confirm(at) == IF at.files = <<>> THEN at ELSE [at EXCEPT !.files = [@ EXCEPT ![Len(at.files)] = [@ EXCEPT !.status = "confirmed"]]]

Apply(at, op) ==
    CASE op.do = "decide" -> Decide(at, op.label, op.kind, op.code)
      [] op.do = "convention" -> DecideConvention(at, op.label, op.code)
      [] op.do = "withdraw" -> Withdraw(at, op.label)
      [] op.do = "commit" -> Commit(at)
      [] op.do = "confirm" -> Confirm(at)

Worked(ops) == FoldLeft(Apply, Fresh, ops)

\* The labels the scans of a commission's orders left unplaced: how often each is printed, and
\* the lines its words suggest while nothing is decided of it.
Suggest(label) ==
    {i.code : i \in {i \in ToSet(Names) : \E n \in ToSet(i.names) : ToSet(n) \cap ToSet(label) # {}}}

Unplaced(at, scans) ==
    LET labels == UNION {DOMAIN s : s \in ToSet(scans)} \ {<<>>}
    IN [l \in labels |->
           [count |-> FoldLeft(LAMBDA n, s : IF l \in DOMAIN s THEN n + s[l] ELSE n, 0, scans),
            decision |-> IF l \in DOMAIN at.decisions /\ at.decisions[l].kind # "convention" THEN at.decisions[l] ELSE None,
            suggestions |-> IF l \in DOMAIN at.decisions /\ at.decisions[l].kind # "convention" THEN {} ELSE Suggest(l)]]

\* The convention questions: those the failed identities of the orders ask, and those answered before.
Questions(at, findings) ==
    [k \in ({f.asks : f \in findings} \cup Decided(at, "convention")) \ {None} |->
        [evidence |-> {f \in findings : f.asks = k},
         decision |-> IF k \in Decided(at, "convention") THEN at.decisions[k].code ELSE None]]

-----------------------------------------------------------------------------
(* Properties.                                                             *)

\* What was last decided of a label, of the answers it could have.
LastOf(ops, l) ==
    ops[SelectLastInSeq(ops, LAMBDA op :
            /\ op.do \in {"decide", "convention", "withdraw"} /\ op.label = l
            /\ op.do = "convention" => op.code \in Conventions[l])]

\* What stands in the file the next reading uses is what the reviewers last decided before it was
\* written, and nothing they withdrew before any file was; files are numbered as they are written
\* and the one being drafted is not confirmed by having been drafted from a confirmed one.
WorkbenchHolds(ops, at) ==
    LET labels == {op.label : op \in {op \in ToSet(ops) : op.do = "decide" \/ (op.do = "convention" /\ op.code \in Conventions[op.label])}}
        last(l) == LastOf(ops, l)
        draft == Draft(at)
        ever(l) == \E n \in DOMAIN at.files : l \in DOMAIN at.files[n].aliases
    IN /\ \A l \in labels : last(l).do = "decide" /\ last(l).kind = "alias" =>
             Place(Placer(draft.aliases), l, None) = last(l).code
       /\ \A l \in labels : last(l).do # "withdraw" => l \in DOMAIN at.decisions /\ at.decisions[l].code = last(l).code
       /\ \A l \in labels : last(l).do = "withdraw" => l \notin DOMAIN at.decisions /\ (at.files = <<>> => l \notin DOMAIN draft.aliases \cup draft.notLines)
       /\ \A l \in DOMAIN draft.aliases : l \in Decided(at, "alias") \/ ever(l)
       /\ \A l \in labels \cap Inclusions : last(l).do # "withdraw" => (l \in draft.includes <=> last(l).code = "applies")
       /\ \A l \in labels \ Inclusions : last(l).do = "convention" => draft.values[l] = last(l).code
       /\ draft.status = "draft" /\ draft.version = Len(at.files) + 1
       /\ \A n \in DOMAIN at.files : at.files[n].version = n
             /\ (at.files[n].status = "confirmed" => \E k \in DOMAIN ops : ops[k].do = "confirm" /\ Cardinality({j \in 1 .. k : ops[j].do = "commit"}) = n)

\* Every finding that asks is evidence of the one question it asks, and a question is asked again
\* while its answer stands, also when no finding asks it any more.
QuestionsHold(at, findings, questions) ==
    /\ \A f \in findings : f.asks # None => {k \in DOMAIN questions : f \in questions[k].evidence} = {f.asks}
    /\ \A k \in DOMAIN questions : questions[k].evidence = {} => questions[k].decision # None
    /\ Decided(at, "convention") = {k \in DOMAIN questions : questions[k].decision # None}

\* Every printing of an unplaced label is counted, and no line is suggested for one that is decided.
UnplacedHolds(at, scans, rows) ==
    /\ \A l \in DOMAIN rows : (rows[l].decision # None => rows[l].suggestions = {}) /\ rows[l].count >= 1
    /\ FoldLeft(LAMBDA n, s : n + MapThenSumSet(LAMBDA l : s[l], DOMAIN s \ {<<>>}), 0, scans) = MapThenSumSet(LAMBDA l : rows[l].count, DOMAIN rows)
=============================================================================
