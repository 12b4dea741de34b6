---------------------------- MODULE WorkbookFill ----------------------------
(***************************************************************************)
(* fill (arr/petition_fill.py): passes of the bindings over a workbook     *)
(* until nothing changes.  A binding computes its own cell from the cells  *)
(* it reads and carries the figure into the cells tied to it; a cell two   *)
(* bindings would write keeps the first one's figure.                      *)
(*                                                                         *)
(* A figure is a number, compared exactly (the code within 1e-9); a rule   *)
(* is a sum, with a term of its binding so that two bindings disagree.     *)
(* Text in a cell counts as blank, as it does for _number.  A tie is a     *)
(* check of a cell that repeats another: of the first cell a binding names *)
(* for an output, its primary, or of a cell on another sheet than its own. *)
(***************************************************************************)
EXTENDS Integers, Sequences, FiniteSets, FiniteSetsExt, Functions

CONSTANTS
    Cells,
    Targets,        \* the fill map: the cells a fill may write
    SheetOf,        \* the sheet of each cell
    Plans,          \* sequences of checks, in the order of the bindings' names
    MaxPasses       \* MAX_PASSES

\* A binding checks the cell its carried cells repeat (reproduce.py: check).
ASSUME FillAssumption ==
    /\ IsFiniteSet(Cells) /\ Targets \subseteq Cells /\ "none" \notin Cells
    /\ MaxPasses \in Nat \ {0}
    /\ Plans \subseteq Seq([binding : Nat \ {0}, cell : Cells, reads : SUBSET Cells, tie : BOOLEAN, primary : Cells \cup {"none"}])
    /\ \A p \in Plans : \A i \in DOMAIN p : p[i].primary # "none" =>
          \E j \in DOMAIN p : p[j].binding = p[i].binding /\ p[j].cell = p[i].primary

VARIABLES
    plan,       \* the checks: [binding, cell, reads, tie, primary]
    entered,    \* the workbook as uploaded
    book,       \* the workbook
    owner,      \* the binding whose figure a cell holds; 0: nobody's, or the petitioner's
    kind,       \* "computed" or "carried", of a cell the fill wrote
    pass,       \* passes begun
    at,         \* the next check of the pass; Len(plan) + 1: the pass is over
    seen,       \* what the checks computed at the start of the pass
    touched,    \* the sheets written in this pass
    conflicts,  \* [cell, by]: the report's conflicts
    noted,      \* the cells a conflict was noted of in this pass
    finished

fillVars == <<plan, entered, book, owner, kind, pass, at, seen, touched, conflicts, noted, finished>>

Blank == -1
CellFigures == Nat \cup {Blank}
Sheets == {SheetOf[c] : c \in Cells}
IsTie(check) == check.tie
HasPrimary(check) == check.tie /\ check.primary # "none"

\* _evaluate: blocked while a figure it reads is missing.
Evaluate(check, b) ==
    IF \E c \in check.reads : b[c] = Blank THEN Blank
    ELSE SumFunction([c \in check.reads |-> b[c]]) + check.binding

\* _reads: the sheets a binding reads or checks, over all of its checks.
ReadsSheets(p, binding) ==
    UNION {{SheetOf[c] : c \in p[i].reads \cup {p[i].cell}} : i \in {j \in DOMAIN p : p[j].binding = binding}}

\* Mutant of Due: a binding is evaluated again only when its own sheet was written.
DueOnOwnSheet(p, i, sheets) == SheetOf[p[i].cell] \in sheets

\* A binding is evaluated again only when a sheet it reads was written in the last pass.
Due(p, i, sheets) == ReadsSheets(p, p[i].binding) \cap sheets # {}

\* The checks of a pass, on the workbook as it stands; those not due are left out.
Evaluated(p, b, sheets) == [i \in DOMAIN p |-> IF Due(p, i, sheets) THEN Evaluate(p[i], b) ELSE Blank]

FillInit ==
    /\ plan \in Plans
    /\ entered \in [Cells -> {Blank, 1}]
    /\ book = entered
    /\ owner = [c \in Cells |-> 0]
    /\ kind = [c \in Cells |-> "none"]
    /\ pass = 1
    /\ at = 1
    /\ seen = Evaluated(plan, entered, Sheets)
    /\ touched = {}
    /\ conflicts = {}
    /\ noted = {}
    /\ finished = FALSE

\* The figure a check brings: a carried cell repeats its primary cell as that stands now.
Figure(i) == IF seen[i] # Blank /\ HasPrimary(plan[i]) THEN book[plan[i].primary] ELSE seen[i]

Considered(i) == plan[i].cell \in Targets /\ Figure(i) # Blank

\* The format's own computation takes a cell over from a copy carried there.
TakesOver(i) == ~IsTie(plan[i]) /\ kind[plan[i].cell] = "carried"

\* Mutant of MayWrite: a figure someone entered is overwritten.
MayWriteEntered(i) == owner[plan[i].cell] \in {0, plan[i].binding} \/ TakesOver(i)

MayWrite(i) ==
    LET c == plan[i].cell
    IN \/ owner[c] = plan[i].binding
       \/ owner[c] = 0 /\ book[c] = Blank
       \/ owner[c] # 0 /\ TakesOver(i)

Write ==
    /\ ~finished /\ at <= Len(plan)
    /\ Considered(at) /\ MayWrite(at) /\ book[plan[at].cell] # Figure(at)
    /\ LET c == plan[at].cell
       IN /\ book' = [book EXCEPT ![c] = Figure(at)]
          /\ owner' = [owner EXCEPT ![c] = plan[at].binding]
          /\ kind' = [kind EXCEPT ![c] = IF IsTie(plan[at]) THEN "carried" ELSE "computed"]
          /\ touched' = touched \cup {SheetOf[c]}
    /\ at' = at + 1
    /\ UNCHANGED <<plan, entered, pass, seen, conflicts, noted, finished>>

Disagrees(i) ==
    /\ owner[plan[i].cell] \notin {0, plan[i].binding}
    /\ ~IsTie(plan[i]) /\ ~TakesOver(i)
    /\ book[plan[i].cell] # Figure(i)

\* Of a cell the first disagreement of a pass is reported.
NewConflict(i) == Considered(i) /\ Disagrees(i) /\ plan[i].cell \notin noted

Leave ==
    /\ ~finished /\ at <= Len(plan)
    /\ ~(Considered(at) /\ MayWrite(at) /\ book[plan[at].cell] # Figure(at))
    /\ IF NewConflict(at)
       THEN /\ conflicts' = conflicts \cup {[cell |-> plan[at].cell, by |-> plan[at].binding]}
            /\ noted' = noted \cup {plan[at].cell}
       ELSE UNCHANGED <<conflicts, noted>>
    /\ at' = at + 1
    /\ UNCHANGED <<plan, entered, book, owner, kind, pass, seen, touched, finished>>

MorePasses == pass < MaxPasses

NextPass ==
    /\ ~finished /\ at > Len(plan)
    /\ touched # {} /\ MorePasses
    /\ pass' = pass + 1
    /\ at' = 1
    /\ seen' = Evaluated(plan, book, touched)
    /\ touched' = {}
    /\ noted' = {}
    /\ UNCHANGED <<plan, entered, book, owner, kind, conflicts, finished>>

Stop ==
    /\ ~finished /\ at > Len(plan)
    /\ touched = {} \/ ~MorePasses
    /\ finished' = TRUE
    /\ UNCHANGED <<plan, entered, book, owner, kind, pass, at, seen, touched, conflicts, noted>>

FillNext == Write \/ Leave \/ NextPass \/ Stop

FillSpec == FillInit /\ [][FillNext]_fillVars

-----------------------------------------------------------------------------
(* The report.                                                             *)

\* The final check of the cells the binding did not write itself: figures that differ.
ReportedDiffering ==
    {i \in DOMAIN plan :
        /\ Evaluate(plan[i], book) # Blank
        /\ owner[plan[i].cell] # plan[i].binding
        /\ book[plan[i].cell] # Blank
        /\ book[plan[i].cell] # Evaluate(plan[i], book)}

-----------------------------------------------------------------------------
(* Properties.                                                             *)

\* Type correctness of the fill.
FillTypeOK ==
    /\ plan \in Plans
    /\ entered \in [Cells -> CellFigures] /\ book \in [Cells -> CellFigures]
    /\ owner \in [Cells -> Nat] /\ kind \in [Cells -> {"none", "computed", "carried"}]
    /\ pass \in 1 .. MaxPasses /\ at \in 1 .. Len(plan) + 1
    /\ seen \in [DOMAIN plan -> CellFigures]
    /\ touched \subseteq Sheets /\ noted \subseteq Cells /\ finished \in BOOLEAN

\* A figure someone entered is never overwritten, and only cells of the fill
\* map are written, through every pass, take-over and rewrite (fill).
EnteredIsKept ==
    \A c \in Cells : entered[c] # Blank \/ c \notin Targets => book[c] = entered[c] /\ owner[c] = 0

\* No binding has two checks of one cell, which could disagree.
ChecksOnce(p) == \A i, j \in DOMAIN p : p[i].binding = p[j].binding /\ p[i].cell = p[j].cell => i = j

\* What feeds a cell, and plans whose cells can be laid in n layers, each fed
\* by earlier ones.
Feeds(p, c) == UNION {p[i].reads \cup ({p[i].primary} \ {"none"}) : i \in {j \in DOMAIN p : p[j].cell = c}}
Layers(p, depth) == \A c \in Targets : \A d \in Feeds(p, c) \cap Targets : depth[d] < depth[c]
Layered(p, n) == \E depth \in [Targets -> 1 .. n] : Layers(p, depth)

\* Bindings that feed each other in at most so many layers settle: the fill stops
\* because nothing changes and not because it ran out of passes.  A layer
\* takes two of them, since the format's own computation may take a cell over
\* only in the pass after a carried figure changed (MAX_PASSES).
LayersSettle == finished /\ ChecksOnce(plan) /\ Layered(plan, (MaxPasses - 1) \div 2) => touched = {}

\* When the fill stops because nothing changed, every cell it wrote holds
\* what its binding computes from the workbook as it is now, and a cell of
\* the fill map is blank only where its binding is blocked, though bindings
\* whose sheets were not written were not evaluated again.
SettledIsConsistent ==
    finished /\ touched = {} /\ ChecksOnce(plan) =>
        \A i \in DOMAIN plan :
            LET c == plan[i].cell
                written == owner[c] = plan[i].binding /\ kind[c] = "computed"
            IN ~IsTie(plan[i]) /\ c \in Targets /\ (written \/ book[c] = Blank) =>
                   book[c] = Evaluate(plan[i], book)

\* No cell two bindings disagree about is settled silently: where a settled
\* workbook holds another figure than a binding computes for its own cell, and
\* another binding wrote it, the report has a conflict of that cell, if not
\* with every binding that disagrees.
ConflictsAreReported ==
    finished /\ touched = {} =>
        \A i \in ReportedDiffering :
            ~IsTie(plan[i]) /\ plan[i].cell \in Targets /\ owner[plan[i].cell] # 0 =>
                \E x \in conflicts : x.cell = plan[i].cell

\* A fill that stops has settled on one consistent workbook, or reports the
\* cells where two of its bindings disagree.
FillSettles == LayersSettle /\ SettledIsConsistent /\ ConflictsAreReported
=============================================================================
