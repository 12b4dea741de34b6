----------------------------- MODULE FillProofs -----------------------------
(***************************************************************************)
(* The fill of a petition's workbook, for any workbook, any bindings of    *)
(* any rules in any order, and any number of passes.                       *)
(*                                                                         *)
(* Induction goes by the least element of a set of naturals, which the     *)
(* well-foundedness of < gives.  A sum over a set is a recursive function  *)
(* over its subsets: it exists (FoldExists), and what each step keeps      *)
(* holds of its result (FoldKeeps).                                        *)
(*                                                                         *)
(* That a settled workbook is consistent rests on what each check of the   *)
(* pass has seen and what it would write now (PassInv).  That the passes   *)
(* suffice goes layer by layer (LayersInv).                                *)
(***************************************************************************)
EXTENDS WorkbookFill, FiniteSetTheorems, WellFoundedInduction, TLAPS

-----------------------------------------------------------------------------
(* Induction.                                                              *)

LEMMA LeastNatural ==
  ASSUME NEW S, S \subseteq Nat, S # {}
  PROVE  \E n \in S : \A m \in S : n <= m
<1>1. OpToRel(<, Nat) = {ss \in Nat \X Nat : ss[1] < ss[2]}
  BY DEF OpToRel
<1>2. PICK n \in S : \A m \in S : ~(<<m, n>> \in OpToRel(<, Nat))
  BY NatLessThanWellFounded, WFMin
<1>3. \A m \in S : ~(m < n)
  BY <1>1, <1>2
<1> QED
  BY <1>3

LEMMA NatInductionOnSet ==
  ASSUME NEW S, 0 \in S, \A n \in Nat : n \in S => n + 1 \in S
  PROVE  Nat \subseteq S
<1> SUFFICES ASSUME ~(Nat \subseteq S) PROVE FALSE
  OBVIOUS
<1>1. PICK n \in Nat \ S : \A m \in Nat \ S : n <= m
  BY LeastNatural
<1>2. n # 0 /\ n - 1 \in Nat
  OBVIOUS
<1>3. n - 1 \in S
  BY <1>1, <1>2
<1> QED
  BY <1>2, <1>3

-----------------------------------------------------------------------------
(* Folds over a finite set: pick chooses what is taken next, step[x, v]    *)
(* puts x to the result v of the rest.                                     *)

FoldOf(g, S, base, pick, step) ==
    g = [s \in SUBSET S |-> IF s = {} THEN base ELSE step[<<pick[s], g[s \ {pick[s]}]>>]]

Picks(pick, S) == \A s \in SUBSET S : s # {} => pick[s] \in s

Small(S, n) == {s \in SUBSET S : Cardinality(s) <= n}

PartFold(g, S, n, base, pick, step) ==
    g = [s \in Small(S, n) |-> IF s = {} THEN base ELSE step[<<pick[s], g[s \ {pick[s]}]>>]]

LEMMA SmallerRest ==
  ASSUME NEW S, IsFiniteSet(S), NEW pick, Picks(pick, S), NEW n \in Nat, NEW s \in Small(S, n + 1), s # {}
  PROVE  s \ {pick[s]} \in Small(S, n)
<1>1. IsFiniteSet(s) /\ pick[s] \in s
  BY FS_Subset DEF Small, Picks
<1>2. Cardinality(s \ {pick[s]}) = Cardinality(s) - 1
  BY <1>1, FS_RemoveElement
<1>3. Cardinality(s) \in Nat
  BY <1>1, FS_CardinalityType
<1> QED
  BY <1>2, <1>3 DEF Small

LEMMA FoldExists ==
  ASSUME NEW S, IsFiniteSet(S), NEW base, NEW pick, Picks(pick, S), NEW step
  PROVE  \E g : FoldOf(g, S, base, pick, step)
<1> DEFINE Sizes == {n \in Nat : \E g : PartFold(g, S, n, base, pick, step)}
<1>1. 0 \in Sizes
  <2>1. \A s \in Small(S, 0) : s = {}
    <3> SUFFICES ASSUME NEW s \in Small(S, 0) PROVE s = {}
      OBVIOUS
    <3>1. IsFiniteSet(s) /\ Cardinality(s) \in Nat /\ Cardinality(s) <= 0
      BY FS_Subset, FS_CardinalityType DEF Small
    <3> QED
      BY <3>1, FS_EmptySet
  <2> DEFINE g == [s \in Small(S, 0) |-> base]
  <2>2. PartFold(g, S, 0, base, pick, step)
    BY <2>1 DEF PartFold
  <2> QED
    BY <2>2
<1>2. ASSUME NEW n \in Nat, n \in Sizes PROVE n + 1 \in Sizes
  <2>1. PICK g : PartFold(g, S, n, base, pick, step)
    BY <1>2
  <2> DEFINE h == [s \in Small(S, n + 1) |-> IF s = {} THEN base ELSE step[<<pick[s], g[s \ {pick[s]}]>>]]
  <2>2. \A t \in Small(S, n) : h[t] = g[t]
    <3> SUFFICES ASSUME NEW t \in Small(S, n) PROVE h[t] = g[t]
      OBVIOUS
    <3>1. IsFiniteSet(t) /\ Cardinality(t) \in Nat /\ Cardinality(t) <= n
      BY FS_Subset, FS_CardinalityType DEF Small
    <3>2. t \in Small(S, n + 1)
      BY <3>1 DEF Small
    <3> QED
      BY <2>1, <3>2 DEF PartFold
  <2>3. \A s \in Small(S, n + 1) : s # {} => h[s \ {pick[s]}] = g[s \ {pick[s]}]
    BY <2>2, SmallerRest
  <2>4. PartFold(h, S, n + 1, base, pick, step)
    BY <2>3 DEF PartFold
  <2> QED
    BY <2>4
<1>3. Nat \subseteq Sizes
  BY <1>1, <1>2, NatInductionOnSet
<1>4. Cardinality(S) \in Nat
  BY FS_CardinalityType
<1>5. PICK g : PartFold(g, S, Cardinality(S), base, pick, step)
  BY <1>3, <1>4
<1>6. Small(S, Cardinality(S)) = SUBSET S
  BY FS_Subset DEF Small
<1>7. FoldOf(g, S, base, pick, step)
  BY <1>5, <1>6 DEF PartFold, FoldOf
<1> QED
  BY <1>7

\* What each step keeps from the rest holds of every part, and so of the whole.
LEMMA FoldKeeps ==
  ASSUME NEW S, IsFiniteSet(S), NEW pick, Picks(pick, S), NEW Good, {} \in Good,
         \A s \in SUBSET S : s # {} /\ s \ {pick[s]} \in Good => s \in Good
  PROVE  \A s \in SUBSET S : s \in Good
<1> DEFINE Sizes == {n \in Nat : \A s \in Small(S, n) : s \in Good}
<1>0. \A s \in SUBSET S : IsFiniteSet(s) /\ Cardinality(s) \in Nat
  BY FS_Subset, FS_CardinalityType
<1>1. 0 \in Sizes
  <2>1. \A s \in Small(S, 0) : s = {}
    BY <1>0, FS_EmptySet DEF Small
  <2> QED
    BY <2>1
<1>2. ASSUME NEW n \in Nat, n \in Sizes PROVE n + 1 \in Sizes
  <2>1. ASSUME NEW s \in Small(S, n + 1), s # {} PROVE s \in Good
    <3>1. s \ {pick[s]} \in Small(S, n) /\ s \in SUBSET S
      BY <2>1, SmallerRest DEF Small
    <3> QED
      BY <1>2, <2>1, <3>1
  <2>2. \A s \in Small(S, n + 1) : s \in Good
    BY <2>1
  <2> QED
    BY <2>2
<1>3. Nat \subseteq Sizes
  BY <1>1, <1>2, NatInductionOnSet
<1> QED
  <2> SUFFICES ASSUME NEW s \in SUBSET S PROVE s \in Good
    OBVIOUS
  <2>1. s \in Small(S, Cardinality(s)) /\ Cardinality(s) \in Sizes
    BY <1>0, <1>3 DEF Small
  <2> QED
    BY <2>1

-----------------------------------------------------------------------------
(* Sums.                                                                   *)

Chosen(S) == [s \in SUBSET S |-> CHOOSE x \in s : TRUE]

Adds(g, f, S) == g = [s \in SUBSET S |-> IF s = {} THEN 0 ELSE f[CHOOSE x \in s : TRUE] + g[s \ {CHOOSE x \in s : TRUE}]]

LEMMA SumUnfolds ==
  ASSUME NEW f
  PROVE  SumFunction(f) = (CHOOSE g : Adds(g, f, DOMAIN f))[DOMAIN f]
BY DEF SumFunction, SumFunctionOnSet, FoldFunctionOnSet, MapThenFoldSet, Adds

LEMMA SumExists ==
  ASSUME NEW S, IsFiniteSet(S), NEW f \in [S -> Int]
  PROVE  \E g : Adds(g, f, S)
<1> DEFINE step == [p \in S \X Int |-> f[p[1]] + p[2]]
<1>1. Picks(Chosen(S), S)
  BY DEF Picks, Chosen
<1>2. PICK g : FoldOf(g, S, 0, Chosen(S), step)
  BY <1>1, FoldExists
<1> DEFINE Good == {s \in SUBSET S : g[s] \in Int}
<1>3. \A s \in SUBSET S : s # {} => /\ Chosen(S)[s] \in s /\ Chosen(S)[s] = CHOOSE x \in s : TRUE
                                   /\ g[s] = step[<<Chosen(S)[s], g[s \ {Chosen(S)[s]}]>>]
  BY <1>1, <1>2 DEF FoldOf, Picks, Chosen
<1>4. {} \in Good
  BY <1>2 DEF FoldOf
<1>5. \A s \in SUBSET S : s # {} /\ s \ {Chosen(S)[s]} \in Good => s \in Good
  <2> SUFFICES ASSUME NEW s \in SUBSET S, s # {}, s \ {Chosen(S)[s]} \in Good PROVE s \in Good
    OBVIOUS
  <2>1. Chosen(S)[s] \in S /\ g[s \ {Chosen(S)[s]}] \in Int
    BY <1>3
  <2>2. step[<<Chosen(S)[s], g[s \ {Chosen(S)[s]}]>>] \in Int
    BY <2>1
  <2> QED
    BY <1>3, <2>2
<1>6. \A s \in SUBSET S : s \in Good
  <2> HIDE DEF Good
  <2> QED
    BY <1>1, <1>4, <1>5, FoldKeeps
<1>7. \A s \in SUBSET S : s # {} => g[s] = f[CHOOSE x \in s : TRUE] + g[s \ {CHOOSE x \in s : TRUE}]
  BY <1>3, <1>6
<1>8. Adds(g, f, S)
  BY <1>2, <1>7 DEF FoldOf, Adds
<1> QED
  BY <1>8

LEMMA SumOfNaturals ==
  ASSUME NEW S, IsFiniteSet(S), NEW f \in [S -> Nat]
  PROVE  SumFunction(f) \in Nat
<1> DEFINE g == CHOOSE g : Adds(g, f, S)
<1>1. Adds(g, f, S)
  BY SumExists
<1>2. SumFunction(f) = g[S]
  BY SumUnfolds
<1> DEFINE Good == {s \in SUBSET S : g[s] \in Nat}
<1> HIDE DEF g
<1>3. {} \in Good
  BY <1>1 DEF Adds
<1>4. Picks(Chosen(S), S) /\ \A s \in SUBSET S : Chosen(S)[s] = CHOOSE x \in s : TRUE
  BY DEF Picks, Chosen
<1>5. \A s \in SUBSET S : s # {} /\ s \ {Chosen(S)[s]} \in Good => s \in Good
  <2> SUFFICES ASSUME NEW s \in SUBSET S, s # {}, s \ {Chosen(S)[s]} \in Good PROVE s \in Good
    OBVIOUS
  <2>1. Chosen(S)[s] \in S
    BY <1>4 DEF Picks
  <2> QED
    BY <1>1, <1>4, <2>1 DEF Adds
<1>6. \A s \in SUBSET S : s \in Good
  <2> HIDE DEF Good
  <2> QED
    BY <1>3, <1>4, <1>5, FoldKeeps
<1> QED
  BY <1>2, <1>6

-----------------------------------------------------------------------------
(* The workbook: its checks.                                               *)

Checks == [binding : Nat \ {0}, cell : Cells, reads : SUBSET Cells, tie : BOOLEAN, primary : Cells \cup {"none"}]

LEMMA PlanIsOfChecks ==
  ASSUME NEW p \in Plans
  PROVE  /\ Len(p) \in Nat /\ DOMAIN p = 1 .. Len(p)
         /\ \A i \in DOMAIN p : p[i] \in Checks
<1>1. p \in Seq(Checks)
  BY FillAssumption DEF Checks
<1> QED
  BY <1>1

LEMMA CheckParts ==
  ASSUME NEW check \in Checks
  PROVE  /\ check.binding \in Nat \ {0} /\ check.cell \in Cells /\ check.reads \subseteq Cells
         /\ check.tie \in BOOLEAN /\ check.primary \in Cells \cup {"none"}
BY DEF Checks

LEMMA EvaluateIsFigure ==
  ASSUME NEW check \in Checks, NEW b \in [Cells -> CellFigures]
  PROVE  /\ Evaluate(check, b) \in CellFigures
         /\ Evaluate(check, b) = Blank <=> \E c \in check.reads : b[c] = Blank
<1>0. check.reads \subseteq Cells /\ check.binding \in Nat \ {0}
  BY CheckParts
<1>1. CASE \E c \in check.reads : b[c] = Blank
  BY <1>1 DEF Evaluate, CellFigures
<1>2. CASE \A c \in check.reads : b[c] # Blank
  <2> DEFINE f == [c \in check.reads |-> b[c]]
  <2>1. f \in [check.reads -> Nat]
    BY <1>0, <1>2 DEF CellFigures
  <2>2. IsFiniteSet(check.reads)
    BY <1>0, FillAssumption, FS_Subset
  <2>3. SumFunction(f) \in Nat
    <3> HIDE DEF f
    <3> QED
      BY <2>1, <2>2, SumOfNaturals
  <2>4. Evaluate(check, b) = SumFunction(f) + check.binding
    BY <1>2 DEF Evaluate
  <2> HIDE DEF f
  <2> QED
    BY <1>0, <1>2, <2>3, <2>4 DEF CellFigures, Blank
<1> QED
  BY <1>1, <1>2

\* What a check computes depends on the cells it reads only.
LEMMA EvaluateOfReads ==
  ASSUME NEW check, NEW b, NEW d, \A c \in check.reads : b[c] = d[c]
  PROVE  Evaluate(check, b) = Evaluate(check, d)
<1>1. [c \in check.reads |-> b[c]] = [c \in check.reads |-> d[c]]
  OBVIOUS
<1> QED
  BY <1>1 DEF Evaluate

\* The figure a check would bring to the workbook as it stands.
Now(i) ==
    IF Evaluate(plan[i], book) # Blank /\ HasPrimary(plan[i]) THEN book[plan[i].primary]
    ELSE Evaluate(plan[i], book)

WouldWrite(i) ==
    plan[i].cell \in Targets /\ Now(i) # Blank /\ MayWrite(i) /\ book[plan[i].cell] # Now(i)

\* No sheet of the binding was written in this pass.
Fresh(i) == ReadsSheets(plan, plan[i].binding) \cap touched = {}

LEMMA SheetsOfCheck ==
  ASSUME NEW p \in Plans, NEW i \in DOMAIN p
  PROVE  /\ SheetOf[p[i].cell] \in ReadsSheets(p, p[i].binding)
         /\ \A c \in p[i].reads : SheetOf[c] \in ReadsSheets(p, p[i].binding)
         /\ p[i].primary # "none" => SheetOf[p[i].primary] \in ReadsSheets(p, p[i].binding)
<1>1. ASSUME NEW j \in DOMAIN p, p[j].binding = p[i].binding, NEW c \in p[j].reads \cup {p[j].cell}
      PROVE  SheetOf[c] \in ReadsSheets(p, p[i].binding)
  BY <1>1 DEF ReadsSheets
<1>2. p[i].primary # "none" => \E j \in DOMAIN p : p[j].binding = p[i].binding /\ p[j].cell = p[i].primary
  BY FillAssumption
<1> QED
  BY <1>1, <1>2

\* The write of a pass, and what it leaves of a check that reads another cell.
LEMMA WriteAt ==
  ASSUME FillTypeOK, Write
  PROVE  LET c == plan[at].cell IN
         /\ at \in DOMAIN plan /\ plan[at] \in Checks /\ c \in Cells /\ c \in Targets
         /\ Figure(at) # Blank /\ seen[at] # Blank /\ Figure(at) \in CellFigures
         /\ MayWrite(at) /\ book[c] # Figure(at)
         /\ book' = [book EXCEPT ![c] = Figure(at)] /\ book' \in [Cells -> CellFigures]
         /\ owner' = [owner EXCEPT ![c] = plan[at].binding] /\ owner' \in [Cells -> Nat]
         /\ kind' = [kind EXCEPT ![c] = IF IsTie(plan[at]) THEN "carried" ELSE "computed"]
         /\ touched' = touched \cup {SheetOf[c]} /\ at' = at + 1
         /\ UNCHANGED <<plan, entered, pass, seen, conflicts, noted, finished>>
<1>1. /\ at \in DOMAIN plan /\ plan[at] \in Checks
  BY PlanIsOfChecks DEF FillTypeOK, Write
<1>2. plan[at].cell \in Cells /\ plan[at].primary \in Cells \cup {"none"} /\ plan[at].binding \in Nat
  BY <1>1, CheckParts
<1>3. /\ plan[at].cell \in Targets /\ Figure(at) # Blank
      /\ MayWrite(at) /\ book[plan[at].cell] # Figure(at)
      /\ book' = [book EXCEPT ![plan[at].cell] = Figure(at)]
      /\ owner' = [owner EXCEPT ![plan[at].cell] = plan[at].binding]
      /\ kind' = [kind EXCEPT ![plan[at].cell] = IF IsTie(plan[at]) THEN "carried" ELSE "computed"]
      /\ touched' = touched \cup {SheetOf[plan[at].cell]} /\ at' = at + 1
      /\ UNCHANGED <<plan, entered, pass, seen, conflicts, noted, finished>>
  BY DEF Write, Considered
<1>4. seen[at] # Blank
  BY <1>3 DEF Figure
<1>5. Figure(at) \in CellFigures
  BY <1>1, <1>2 DEF Figure, HasPrimary, FillTypeOK
<1>6. book' \in [Cells -> CellFigures] /\ owner' \in [Cells -> Nat]
  BY <1>2, <1>3, <1>5 DEF FillTypeOK
<1> QED
  BY <1>1, <1>2, <1>3, <1>4, <1>5, <1>6

LEMMA OtherCellKeepsCheck ==
  ASSUME FillTypeOK, Write, NEW i \in DOMAIN plan,
         plan[at].cell \notin plan[i].reads, plan[i].primary # plan[at].cell
  PROVE  Evaluate(plan[i], book') = Evaluate(plan[i], book) /\ Now(i)' = Now(i)
<1>1. plan[i] \in Checks /\ plan[i].reads \subseteq Cells /\ plan[i].primary \in Cells \cup {"none"}
  BY PlanIsOfChecks, CheckParts DEF FillTypeOK
<1>2. \A c \in Cells : c # plan[at].cell => book'[c] = book[c]
  BY WriteAt DEF FillTypeOK
<1>3. Evaluate(plan[i], book') = Evaluate(plan[i], book)
  <2>1. \A c \in plan[i].reads : book'[c] = book[c]
    BY <1>1, <1>2
  <2> QED
    BY <2>1, EvaluateOfReads
<1>4. plan' = plan
  BY WriteAt
<1> QED
  BY <1>1, <1>2, <1>3, <1>4 DEF Now, HasPrimary

-----------------------------------------------------------------------------
(* The workbook: types, and figures that were entered.                     *)

LEMMA EvaluatedIsTyped ==
  ASSUME NEW p \in Plans, NEW b \in [Cells -> CellFigures], NEW sheets
  PROVE  Evaluated(p, b, sheets) \in [DOMAIN p -> CellFigures]
BY PlanIsOfChecks, EvaluateIsFigure DEF Evaluated, CellFigures

LEMMA InitTypesFill == FillInit => FillTypeOK
<1> SUFFICES ASSUME FillInit PROVE FillTypeOK
  OBVIOUS
<1>1. book \in [Cells -> CellFigures] /\ entered = book
  BY DEF FillInit, CellFigures
<1>2. seen \in [DOMAIN plan -> CellFigures]
  BY <1>1, EvaluatedIsTyped DEF FillInit
<1>3. 1 \in 1 .. MaxPasses /\ 1 \in 1 .. Len(plan) + 1
  BY FillAssumption, PlanIsOfChecks DEF FillInit
<1> QED
  BY <1>1, <1>2, <1>3 DEF FillInit, FillTypeOK

LEMMA StepTypesFill == FillTypeOK /\ [FillNext]_fillVars => FillTypeOK'
<1> SUFFICES ASSUME FillTypeOK, [FillNext]_fillVars PROVE FillTypeOK'
  OBVIOUS
<1>0. Len(plan) \in Nat /\ DOMAIN plan = 1 .. Len(plan) /\ MaxPasses \in Nat \ {0}
  BY PlanIsOfChecks, FillAssumption DEF FillTypeOK
<1>1. CASE Write
  <2>1. at + 1 \in 1 .. Len(plan) + 1
    BY <1>0, <1>1, WriteAt
  <2>2. kind' \in [Cells -> {"none", "computed", "carried"}]
    BY <1>1, WriteAt DEF FillTypeOK
  <2>3. touched' \subseteq Sheets
    <3>1. plan[at].cell \in Cells /\ touched' = touched \cup {SheetOf[plan[at].cell]}
      BY <1>1, WriteAt
    <3>2. SheetOf[plan[at].cell] \in Sheets
      BY <3>1 DEF Sheets
    <3> QED
      BY <3>1, <3>2 DEF FillTypeOK
  <2>4. /\ book' \in [Cells -> CellFigures] /\ owner' \in [Cells -> Nat]
        /\ at' = at + 1 /\ UNCHANGED <<plan, entered, pass, seen, noted, finished>>
    BY <1>1, WriteAt
  <2> QED
    BY <2>1, <2>2, <2>3, <2>4 DEF FillTypeOK
<1>2. CASE Leave
  <2>1. at + 1 \in 1 .. Len(plan) + 1
    BY <1>0, <1>2 DEF Leave, FillTypeOK
  <2>2. UNCHANGED <<plan, entered, book, owner, kind, pass, seen, touched, finished>> /\ at' = at + 1
    BY <1>2 DEF Leave
  <2>3. noted' \subseteq Cells
    <3>1. plan[at].cell \in Cells
      BY <1>0, <1>2, PlanIsOfChecks, CheckParts DEF Leave, FillTypeOK
    <3> QED
      BY <1>2, <3>1 DEF Leave, FillTypeOK
  <2> QED
    BY <2>1, <2>2, <2>3 DEF FillTypeOK
<1>3. CASE NextPass
  <2>1. seen' \in [DOMAIN plan -> CellFigures]
    BY <1>3, EvaluatedIsTyped DEF NextPass, FillTypeOK
  <2>2. pass + 1 \in 1 .. MaxPasses /\ 1 \in 1 .. Len(plan) + 1
    BY <1>0, <1>3 DEF NextPass, MorePasses, FillTypeOK
  <2>3. /\ pass' = pass + 1 /\ at' = 1 /\ touched' = {} /\ noted' = {}
        /\ UNCHANGED <<plan, entered, book, owner, kind, finished>>
    BY <1>3 DEF NextPass
  <2> QED
    BY <2>1, <2>2, <2>3 DEF FillTypeOK
<1>4. CASE Stop \/ UNCHANGED fillVars
  BY <1>4 DEF Stop, fillVars, FillTypeOK
<1> QED
  BY <1>1, <1>2, <1>3, <1>4 DEF FillNext

\* The state of a fill is well typed, for any workbook, plan and number of passes.
THEOREM FillTypeCorrect == FillSpec => []FillTypeOK
BY InitTypesFill, StepTypesFill, PTL DEF FillSpec

LEMMA StepKeepsEntered == FillTypeOK /\ EnteredIsKept /\ [FillNext]_fillVars => EnteredIsKept'
<1> SUFFICES ASSUME FillTypeOK, EnteredIsKept, [FillNext]_fillVars PROVE EnteredIsKept'
  OBVIOUS
<1>1. CASE Write
  <2> DEFINE c == plan[at].cell
  <2>1. c \in Targets /\ plan[at].binding \in Nat \ {0} /\ owner[c] \in Nat
    BY <1>1, WriteAt, CheckParts DEF FillTypeOK
  <2>2. owner[c] = plan[at].binding \/ (owner[c] = 0 /\ book[c] = Blank) \/ owner[c] # 0
    BY <1>1, WriteAt DEF MayWrite
  <2>3. entered[c] = Blank
    BY <2>1, <2>2, <1>1, WriteAt DEF EnteredIsKept
  <2> QED
    BY <1>1, <2>1, <2>3, WriteAt DEF EnteredIsKept, FillTypeOK
<1>2. CASE Leave \/ NextPass \/ Stop \/ UNCHANGED fillVars
  BY <1>2 DEF Leave, NextPass, Stop, fillVars, EnteredIsKept
<1> QED
  BY <1>1, <1>2 DEF FillNext

\* A figure someone entered is never overwritten and no cell outside the fill map is written,
\* for any workbook, fill map and bindings, through any number of passes (fill).
THEOREM FillKeepsEntered == FillSpec => []EnteredIsKept
<1>1. FillInit => EnteredIsKept
  BY DEF FillInit, EnteredIsKept
<1> QED
  BY <1>1, InitTypesFill, StepTypesFill, StepKeepsEntered, PTL DEF FillSpec

-----------------------------------------------------------------------------
(* The workbook: what a pass has seen is so, as far as nothing it reads    *)
(* was written since, and what was settled in a pass stays so.             *)

\* The check a written cell has its figure from, and what it read is still there.
WrittenBy(c, i) ==
    /\ plan[i].cell = c /\ plan[i].binding = owner[c]
    /\ kind[c] = IF IsTie(plan[i]) THEN "carried" ELSE "computed"
    /\ \A d \in plan[i].reads : book[d] # Blank

WrittenStand == \A c \in Cells : owner[c] # 0 => book[c] # Blank /\ \E i \in DOMAIN plan : WrittenBy(c, i)

SeenStand == \A i \in DOMAIN plan :
    seen[i] # Blank => /\ \A d \in plan[i].reads : book[d] # Blank
                       /\ Fresh(i) => seen[i] = Evaluate(plan[i], book)

Done(i) == i < at \/ seen[i] = Blank

\* Of a cell two bindings disagree about a conflict is in the report.
Reported(i) ==
    i \in ReportedDiffering /\ ~IsTie(plan[i]) /\ plan[i].cell \in Targets /\ owner[plan[i].cell] # 0 =>
        \E x \in conflicts : x.cell = plan[i].cell

NotedStand == \A c \in noted : \E x \in conflicts : x.cell = c

DoneStand == \A i \in DOMAIN plan : Fresh(i) /\ Done(i) => ~WouldWrite(i) /\ Reported(i)

PassInv == FillTypeOK /\ WrittenStand /\ SeenStand /\ DoneStand /\ NotedStand

LEMMA FreshAfterWrite ==
  ASSUME FillTypeOK, Write, NEW i \in DOMAIN plan, Fresh(i)'
  PROVE  /\ Fresh(i) /\ plan[i].cell # plan[at].cell
         /\ plan[at].cell \notin plan[i].reads /\ plan[i].primary # plan[at].cell
<1>1. /\ plan' = plan /\ touched' = touched \cup {SheetOf[plan[at].cell]} /\ plan[at].cell \in Cells
  BY WriteAt
<1>2. SheetOf[plan[at].cell] \notin ReadsSheets(plan, plan[i].binding) /\ Fresh(i)
  BY <1>1 DEF Fresh
<1>3. "none" # plan[at].cell
  BY <1>1, FillAssumption
<1> QED
  BY <1>2, <1>3, SheetsOfCheck DEF FillTypeOK

LEMMA InitPassInv == FillInit => PassInv
<1> SUFFICES ASSUME FillInit PROVE PassInv
  OBVIOUS
<1>1. FillTypeOK
  BY InitTypesFill
<1>2. ASSUME NEW i \in DOMAIN plan
      PROVE  seen[i] = Evaluate(plan[i], book)
  <2>1. SheetOf[plan[i].cell] \in ReadsSheets(plan, plan[i].binding) /\ SheetOf[plan[i].cell] \in Sheets
    BY <1>1, SheetsOfCheck, PlanIsOfChecks, CheckParts DEF FillTypeOK, Sheets
  <2>2. Due(plan, i, Sheets)
    BY <2>1 DEF Due
  <2> QED
    BY <2>2 DEF FillInit, Evaluated
<1>3. WrittenStand
  BY DEF FillInit, WrittenStand
<1>4. SeenStand
  BY <1>1, <1>2, EvaluateIsFigure, PlanIsOfChecks DEF SeenStand, FillTypeOK
<1>5. DoneStand
  <2> SUFFICES ASSUME NEW i \in DOMAIN plan, Done(i) PROVE ~WouldWrite(i) /\ Reported(i)
    BY DEF DoneStand
  <2>1. seen[i] = Blank
    BY <1>1, PlanIsOfChecks DEF Done, FillInit, FillTypeOK
  <2>2. Evaluate(plan[i], book) = Blank
    BY <1>2, <2>1
  <2> QED
    BY <2>2 DEF WouldWrite, Now, Reported, ReportedDiffering
<1>6. NotedStand
  BY DEF FillInit, NotedStand
<1> QED
  BY <1>1, <1>3, <1>4, <1>5, <1>6 DEF PassInv

LEMMA WriteKeepsPassInv == ASSUME PassInv, Write PROVE WrittenStand' /\ SeenStand' /\ DoneStand'
<1> DEFINE c == plan[at].cell
<1>0. FillTypeOK
  BY DEF PassInv
<1>1. book[c] # book'[c] /\ book'[c] # Blank /\ \A d \in Cells : book[d] # Blank => book'[d] # Blank
  BY <1>0, WriteAt DEF FillTypeOK
<1>2. WrittenStand'
  <2> SUFFICES ASSUME NEW d \in Cells, owner'[d] # 0
               PROVE  book'[d] # Blank /\ \E i \in DOMAIN plan : WrittenBy(d, i)'
    BY <1>0, WriteAt DEF WrittenStand
  <2>1. CASE d = c
    <3>1. PICK j \in DOMAIN plan : j = at
      BY <1>0, WriteAt
    <3>2. \A e \in plan[j].reads : book'[e] # Blank
      BY <1>0, <1>1, <3>1, WriteAt, CheckParts DEF PassInv, SeenStand
    <3>3. /\ plan' = plan /\ plan[j].cell = d /\ owner'[d] = plan[j].binding
          /\ kind'[d] = IF IsTie(plan[j]) THEN "carried" ELSE "computed"
      BY <1>0, <2>1, <3>1, WriteAt DEF FillTypeOK
    <3>4. WrittenBy(d, j)'
      BY <3>2, <3>3 DEF WrittenBy
    <3> QED
      BY <1>1, <2>1, <3>4
  <2>2. CASE d # c
    <3>1. owner'[d] = owner[d] /\ kind'[d] = kind[d] /\ plan' = plan
      BY <1>0, <2>2, WriteAt DEF FillTypeOK
    <3>2. book[d] # Blank /\ \E i \in DOMAIN plan : WrittenBy(d, i)
      BY <3>1 DEF PassInv, WrittenStand
    <3>3. PICK i \in DOMAIN plan : WrittenBy(d, i)
      BY <3>2
    <3>4. plan[i].reads \subseteq Cells
      BY <1>0, PlanIsOfChecks, CheckParts DEF FillTypeOK
    <3>5. WrittenBy(d, i)'
      BY <1>1, <3>1, <3>3, <3>4 DEF WrittenBy
    <3> QED
      BY <1>1, <3>2, <3>5
  <2> QED
    BY <2>1, <2>2
<1>3. SeenStand'
  <2> SUFFICES ASSUME NEW i \in DOMAIN plan, seen[i] # Blank
               PROVE  /\ \A d \in plan[i].reads : book'[d] # Blank
                      /\ Fresh(i)' => seen[i] = Evaluate(plan[i], book')
    BY <1>0, WriteAt DEF SeenStand
  <2>1. \A d \in plan[i].reads : book[d] # Blank /\ d \in Cells
    BY <1>0, PlanIsOfChecks, CheckParts DEF PassInv, SeenStand, FillTypeOK
  <2>2. ASSUME Fresh(i)' PROVE seen[i] = Evaluate(plan[i], book')
    BY <1>0, <2>2, FreshAfterWrite, OtherCellKeepsCheck DEF PassInv, SeenStand
  <2> QED
    BY <1>1, <2>1, <2>2
<1>4. DoneStand'
  <2> SUFFICES ASSUME NEW i \in DOMAIN plan, Fresh(i)', Done(i)' PROVE ~WouldWrite(i)' /\ Reported(i)'
    BY <1>0, WriteAt DEF DoneStand
  <2>1. /\ Fresh(i) /\ plan[i].cell # c
        /\ c \notin plan[i].reads /\ plan[i].primary # c
    BY <1>0, FreshAfterWrite
  <2>2. Evaluate(plan[i], book') = Evaluate(plan[i], book) /\ Now(i)' = Now(i)
    BY <1>0, <2>1, OtherCellKeepsCheck
  <2>3. Done(i)
    <3>1. i # at
      BY <2>1
    <3>2. i < at + 1 \/ seen[i] = Blank
      BY <1>0, WriteAt DEF Done
    <3>3. i \in Int /\ at \in Int
      BY <1>0, PlanIsOfChecks DEF FillTypeOK
    <3> QED
      BY <3>1, <3>2, <3>3 DEF Done
  <2>4. ~WouldWrite(i) /\ Reported(i)
    BY <2>1, <2>3 DEF PassInv, DoneStand
  <2>5. plan[i].cell \in Cells
    BY <1>0, PlanIsOfChecks, CheckParts DEF FillTypeOK
  <2>6. /\ book'[plan[i].cell] = book[plan[i].cell] /\ owner'[plan[i].cell] = owner[plan[i].cell]
        /\ kind'[plan[i].cell] = kind[plan[i].cell] /\ plan' = plan /\ conflicts' = conflicts
    BY <1>0, <2>1, <2>5, WriteAt DEF FillTypeOK
  <2>7. MayWrite(i)' <=> MayWrite(i)
    BY <2>6 DEF MayWrite, TakesOver
  <2>8. ~WouldWrite(i)'
    BY <2>2, <2>4, <2>6, <2>7 DEF WouldWrite
  <2>9. Reported(i)'
    BY <2>2, <2>4, <2>6 DEF Reported, ReportedDiffering
  <2> QED
    BY <2>8, <2>9
<1> QED
  BY <1>2, <1>3, <1>4

\* A check that is passed over would not write, nor does it disagree unreported.
LEMMA LeftCheckIsDone ==
  ASSUME PassInv, Leave, NEW i \in DOMAIN plan, i = at, Fresh(i) PROVE ~WouldWrite(i) /\ Reported(i)'
<1>0. FillTypeOK
  BY DEF PassInv
<1>1. CASE seen[i] = Blank
  <2>1. ~WouldWrite(i) /\ Reported(i)
    BY <1>0, <1>1 DEF PassInv, DoneStand, Done
  <2> QED
    BY <2>1 DEF Leave, Reported, ReportedDiffering
<1>2. CASE seen[i] # Blank
  <2>1. seen[i] = Evaluate(plan[i], book)
    BY <1>0, <1>2 DEF PassInv, SeenStand
  <2>2. Figure(i) = Now(i)
    BY <2>1 DEF Figure, Now
  <2>3. ~WouldWrite(i)
    BY <2>2 DEF WouldWrite, Leave, Considered
  <2>4. ASSUME i \in ReportedDiffering, ~IsTie(plan[i]), plan[i].cell \in Targets, owner[plan[i].cell] # 0
        PROVE  \E x \in conflicts' : x.cell = plan[i].cell
    <3>1. Figure(i) = Evaluate(plan[i], book)
      BY <2>1, <2>4 DEF Figure, HasPrimary, IsTie
    <3>2. Considered(i) /\ book[plan[i].cell] # Figure(i) /\ owner[plan[i].cell] # plan[i].binding
      BY <2>4, <3>1 DEF Considered, ReportedDiffering
    <3>3. ~MayWrite(i)
      BY <3>2 DEF Leave
    <3>4. ~TakesOver(i)
      BY <2>4, <3>3 DEF MayWrite
    <3>5. Disagrees(i)
      BY <2>4, <3>2, <3>4 DEF Disagrees
    <3>6. CASE plan[i].cell \in noted
      BY <3>6 DEF PassInv, NotedStand, Leave
    <3>7. CASE plan[i].cell \notin noted
      <4>1. [cell |-> plan[i].cell, by |-> plan[i].binding] \in conflicts'
        BY <3>2, <3>5, <3>7 DEF Leave, NewConflict
      <4> QED
        BY <4>1
    <3> QED
      BY <3>6, <3>7
  <2>5. Reported(i)'
    BY <2>4 DEF Leave, Reported, ReportedDiffering
  <2> QED
    BY <2>3, <2>5
<1> QED
  BY <1>1, <1>2

LEMMA LeaveKeepsPassInv == ASSUME PassInv, Leave PROVE WrittenStand' /\ SeenStand' /\ DoneStand'
<1>0. FillTypeOK /\ UNCHANGED <<plan, book, owner, kind, pass, seen, touched>> /\ at' = at + 1
      /\ conflicts \subseteq conflicts'
  BY DEF PassInv, Leave
<1>1. WrittenStand'
  BY <1>0 DEF PassInv, WrittenStand, WrittenBy
<1>2. SeenStand'
  BY <1>0 DEF PassInv, SeenStand, Fresh
<1>3. DoneStand'
  <2> SUFFICES ASSUME NEW i \in DOMAIN plan, Fresh(i), Done(i)' PROVE ~WouldWrite(i)' /\ Reported(i)'
    BY <1>0 DEF DoneStand, Fresh
  <2>1. CASE Done(i)
    <3>1. ~WouldWrite(i) /\ Reported(i)
      BY <2>1 DEF PassInv, DoneStand
    <3>2. ~WouldWrite(i)'
      BY <1>0, <3>1 DEF WouldWrite, Now, MayWrite, TakesOver
    <3>3. Reported(i)'
      BY <1>0, <3>1 DEF Reported, ReportedDiffering
    <3> QED
      BY <3>2, <3>3
  <2>2. CASE ~Done(i)
    <3>1. i = at
      BY <1>0, <2>2, PlanIsOfChecks DEF Done, FillTypeOK
    <3>2. ~WouldWrite(i) /\ Reported(i)'
      BY <3>1, LeftCheckIsDone
    <3> QED
      BY <1>0, <3>2 DEF WouldWrite, Now, MayWrite, TakesOver
  <2> QED
    BY <2>1, <2>2
<1> QED
  BY <1>1, <1>2, <1>3

\* What a pass sees, and that a check it leaves out was done in the pass before.
LEMMA NextPassSees ==
  ASSUME PassInv, NextPass, NEW i \in DOMAIN plan
  PROVE  /\ seen'[i] # Blank => seen'[i] = Evaluate(plan[i], book)
         /\ seen'[i] = Blank => ~WouldWrite(i) /\ Reported(i)
<1>1. FillTypeOK /\ at > Len(plan)
  BY DEF PassInv, NextPass
<1>2. seen'[i] = IF Due(plan, i, touched) THEN Evaluate(plan[i], book) ELSE Blank
  BY DEF NextPass, Evaluated
<1>3. CASE Due(plan, i, touched)
  BY <1>2, <1>3 DEF WouldWrite, Now, Reported, ReportedDiffering
<1>4. CASE ~Due(plan, i, touched)
  <2>1. Fresh(i) /\ Done(i)
    BY <1>1, <1>4, PlanIsOfChecks DEF Due, Fresh, Done, FillTypeOK
  <2> QED
    BY <1>2, <1>4, <2>1 DEF PassInv, DoneStand
<1> QED
  BY <1>3, <1>4

LEMMA NextPassKeepsPassInv == ASSUME PassInv, NextPass PROVE WrittenStand' /\ SeenStand' /\ DoneStand'
<1>0. FillTypeOK /\ UNCHANGED <<plan, book, owner, kind, conflicts>> /\ touched' = {} /\ at' = 1
  BY DEF PassInv, NextPass
<1>1. WrittenStand'
  BY <1>0 DEF PassInv, WrittenStand, WrittenBy
<1>2. SeenStand'
  <2> SUFFICES ASSUME NEW i \in DOMAIN plan, seen'[i] # Blank
               PROVE  (\A d \in plan[i].reads : book[d] # Blank) /\ seen'[i] = Evaluate(plan[i], book)
    BY <1>0 DEF SeenStand
  <2>1. seen'[i] = Evaluate(plan[i], book)
    BY NextPassSees
  <2> QED
    BY <1>0, <2>1, EvaluateIsFigure, PlanIsOfChecks DEF FillTypeOK
<1>3. DoneStand'
  <2> SUFFICES ASSUME NEW i \in DOMAIN plan, Done(i)' PROVE ~WouldWrite(i)' /\ Reported(i)'
    BY <1>0 DEF DoneStand
  <2>1. seen'[i] = Blank
    BY <1>0, PlanIsOfChecks DEF Done, FillTypeOK
  <2>2. ~WouldWrite(i) /\ Reported(i)
    BY <2>1, NextPassSees
  <2>3. ~WouldWrite(i)'
    BY <1>0, <2>2 DEF WouldWrite, Now, MayWrite, TakesOver
  <2>4. Reported(i)'
    BY <1>0, <2>2 DEF Reported, ReportedDiffering
  <2> QED
    BY <2>3, <2>4
<1> QED
  BY <1>1, <1>2, <1>3

LEMMA StepNotedStand == FillTypeOK /\ NotedStand /\ [FillNext]_fillVars => NotedStand'
<1> SUFFICES ASSUME FillTypeOK, NotedStand, [FillNext]_fillVars PROVE NotedStand'
  OBVIOUS
<1>1. CASE Leave
  <2>1. CASE NewConflict(at)
    <3> DEFINE new == [cell |-> plan[at].cell, by |-> plan[at].binding]
    <3>1. new.cell = plan[at].cell /\ conflicts' = conflicts \cup {new} /\ noted' = noted \cup {plan[at].cell}
      BY <1>1, <2>1 DEF Leave
    <3> HIDE DEF new
    <3> QED
      BY <3>1 DEF NotedStand
  <2>2. CASE ~NewConflict(at)
    BY <1>1, <2>2 DEF Leave, NotedStand
  <2> QED
    BY <2>1, <2>2
<1>2. CASE Write \/ NextPass \/ Stop \/ UNCHANGED fillVars
  BY <1>2, WriteAt DEF NextPass, Stop, fillVars, NotedStand
<1> QED
  BY <1>1, <1>2 DEF FillNext

LEMMA StepPassInv == PassInv /\ [FillNext]_fillVars => PassInv'
<1> SUFFICES ASSUME PassInv, [FillNext]_fillVars PROVE PassInv'
  OBVIOUS
<1>1. FillTypeOK'
  BY StepTypesFill DEF PassInv
<1>2. NotedStand'
  BY StepNotedStand DEF PassInv
<1>3. CASE Stop \/ UNCHANGED fillVars
  <2>1. UNCHANGED <<plan, book, owner, kind, at, seen, touched, conflicts>>
    BY <1>3 DEF Stop, fillVars
  <2>2. WrittenStand' /\ SeenStand'
    BY <2>1 DEF PassInv, WrittenStand, WrittenBy, SeenStand, Fresh
  <2>3. DoneStand'
    BY <2>1 DEF PassInv, DoneStand, Done, Fresh, WouldWrite, Now, MayWrite, TakesOver, Reported, ReportedDiffering
  <2> QED
    BY <1>1, <1>2, <2>2, <2>3 DEF PassInv
<1> QED
  BY <1>1, <1>3, <1>2, WriteKeepsPassInv, LeaveKeepsPassInv, NextPassKeepsPassInv DEF PassInv, FillNext

-----------------------------------------------------------------------------
(* The workbook: a settled one.                                            *)

Ended == finished => at > Len(plan) /\ (touched = {} \/ ~MorePasses)

LEMMA StepEnded == FillTypeOK /\ Ended /\ [FillNext]_fillVars => Ended'
BY DEF Ended, FillNext, Write, Leave, NextPass, Stop, fillVars, MorePasses

LEMMA SettledFill ==
  ASSUME PassInv, Ended, finished, touched = {}, NEW i \in DOMAIN plan
  PROVE  ~WouldWrite(i) /\ Reported(i)
<1>1. Fresh(i) /\ Done(i)
  BY PlanIsOfChecks DEF PassInv, FillTypeOK, Ended, Fresh, Done
<1> QED
  BY <1>1 DEF PassInv, DoneStand

LEMMA SettledFillIsConsistent == ASSUME PassInv, Ended PROVE SettledIsConsistent /\ ConflictsAreReported
<1>1. ConflictsAreReported
  BY SettledFill DEF ConflictsAreReported, Reported, ReportedDiffering
<1>2. SettledIsConsistent
  <2> SUFFICES ASSUME finished, touched = {}, ChecksOnce(plan), NEW i \in DOMAIN plan, ~IsTie(plan[i]), plan[i].cell \in Targets,
                      \/ owner[plan[i].cell] = plan[i].binding /\ kind[plan[i].cell] = "computed"
                      \/ book[plan[i].cell] = Blank
               PROVE  book[plan[i].cell] = Evaluate(plan[i], book)
    BY DEF SettledIsConsistent
  <2> DEFINE c == plan[i].cell
  <2>0. FillTypeOK /\ plan[i] \in Checks /\ c \in Cells /\ plan[i].binding \in Nat \ {0}
    BY PlanIsOfChecks, CheckParts DEF PassInv, FillTypeOK
  <2>1. ~WouldWrite(i) /\ Now(i) = Evaluate(plan[i], book)
    BY SettledFill DEF Now, HasPrimary, IsTie
  <2>2. CASE owner[c] = plan[i].binding
    <3>1. PICK j \in DOMAIN plan : WrittenBy(c, j)
      BY <2>0, <2>2 DEF PassInv, WrittenStand
    <3>2. j = i
      BY <2>2, <3>1 DEF ChecksOnce, WrittenBy
    <3>3. \A d \in plan[i].reads : book[d] # Blank
      BY <3>1, <3>2 DEF WrittenBy
    <3>4. Evaluate(plan[i], book) # Blank
      BY <2>0, <3>3, EvaluateIsFigure DEF FillTypeOK
    <3> QED
      BY <2>1, <2>2, <3>4 DEF WouldWrite, MayWrite
  <2>3. CASE owner[c] # plan[i].binding /\ book[c] = Blank
    <3>1. owner[c] = 0
      BY <2>0, <2>3 DEF PassInv, WrittenStand
    <3>2. MayWrite(i)
      BY <2>3, <3>1 DEF MayWrite
    <3> QED
      BY <2>1, <2>3, <3>2 DEF WouldWrite
  <2> QED
    BY <2>2, <2>3
<1> QED
  BY <1>1, <1>2

-----------------------------------------------------------------------------
(* The workbook: in layers.  What feeds a cell of layer k stays as it is   *)
(* from the start of pass 2k - 1 on; in that pass every check of the cell  *)
(* is done, but for a computation that may still take over from a carried  *)
(* figure that changed after it.  That one is done in pass 2k.             *)

Depths == [Targets -> Nat \ {0}]
FedFrom(depth, i) == 2 * depth[plan[i].cell] - 1

Pending(i) == owner[plan[i].cell] # 0 /\ TakesOver(i)

\* In pass 2k - 1 of a cell of layer k and after it.
FedInv(depth) == \A i \in DOMAIN plan : plan[i].cell \in Targets /\ pass >= FedFrom(depth, i) =>
    /\ seen[i] # Blank => seen[i] = Evaluate(plan[i], book)
    /\ Done(i) \/ pass > FedFrom(depth, i) => (WouldWrite(i) => Pending(i))

\* In pass 2k and after it.
LastInv(depth) == \A i \in DOMAIN plan : plan[i].cell \in Targets /\ pass >= FedFrom(depth, i) + 1 =>
    (Done(i) \/ pass > FedFrom(depth, i) + 1 => ~WouldWrite(i))

WrittenInTime(depth) == touched # {} => \E c \in Targets : pass <= 2 * depth[c]

LayersInv == \A depth \in Depths : Layers(plan, depth) /\ ChecksOnce(plan) =>
    FedInv(depth) /\ LastInv(depth) /\ WrittenInTime(depth)

LEMMA LayerNumbers ==
  ASSUME FillTypeOK, NEW depth \in Depths, NEW i \in DOMAIN plan
  PROVE  /\ plan[i].cell \in Targets => FedFrom(depth, i) \in Nat \ {0} /\ depth[plan[i].cell] \in Nat
         /\ pass \in Nat /\ at \in Nat /\ i \in Nat
BY PlanIsOfChecks DEF FillTypeOK, Depths, FedFrom

LEMMA InitLayersInv == FillInit => LayersInv
<1> SUFFICES ASSUME FillInit, NEW depth \in Depths PROVE FedInv(depth) /\ LastInv(depth) /\ WrittenInTime(depth)
  BY DEF LayersInv
<1>0. PassInv /\ FillTypeOK /\ pass = 1 /\ at = 1 /\ touched = {}
  BY InitPassInv DEF PassInv, FillInit
<1>1. ASSUME NEW i \in DOMAIN plan
      PROVE  /\ seen[i] # Blank => seen[i] = Evaluate(plan[i], book)
             /\ Done(i) => ~WouldWrite(i)
  BY <1>0 DEF PassInv, SeenStand, DoneStand, Fresh
<1>2. FedInv(depth) /\ LastInv(depth)
  BY <1>0, <1>1, LayerNumbers DEF FedInv, LastInv
<1> QED
  BY <1>0, <1>2 DEF WrittenInTime

LEMMA FedFromTargets ==
  ASSUME FillTypeOK, NEW depth, Layers(plan, depth), NEW i \in DOMAIN plan, plan[i].cell \in Targets,
         NEW d \in Targets, d \in plan[i].reads \/ d = plan[i].primary
  PROVE  depth[d] < depth[plan[i].cell]
<1>1. d # "none"
  BY FillAssumption
<1>2. d \in Feeds(plan, plan[i].cell)
  BY <1>1 DEF Feeds
<1> QED
  BY <1>2 DEF Layers

\* A pass writes cells of late enough layers only, and what feeds an earlier one is not among them.
LEMMA WriteInLayers ==
  ASSUME PassInv, Write, NEW depth \in Depths, Layers(plan, depth), FedInv(depth), LastInv(depth)
  PROVE  /\ pass <= 2 * depth[plan[at].cell]
         /\ \A i \in DOMAIN plan : plan[i].cell \in Targets /\ pass >= FedFrom(depth, i) =>
               /\ Evaluate(plan[i], book') = Evaluate(plan[i], book) /\ Now(i)' = Now(i)
               /\ plan[i].cell = plan[at].cell => pass <= FedFrom(depth, i) + 1
<1>0. FillTypeOK /\ at \in DOMAIN plan /\ plan[at].cell \in Targets
  BY WriteAt DEF PassInv
<1>1. pass <= 2 * depth[plan[at].cell]
  <2> SUFFICES ASSUME pass > 2 * depth[plan[at].cell] PROVE FALSE
    BY <1>0, LayerNumbers
  <2>1. pass >= FedFrom(depth, at) /\ pass > FedFrom(depth, at) + 1 /\ pass >= FedFrom(depth, at) + 1
    BY <1>0, LayerNumbers DEF FedFrom
  <2>2. seen[at] = Evaluate(plan[at], book)
    BY <1>0, <2>1, WriteAt DEF FedInv
  <2>3. Figure(at) = Now(at)
    BY <2>2 DEF Figure, Now
  <2>4. ~WouldWrite(at)
    BY <1>0, <2>1 DEF LastInv
  <2> QED
    BY <1>0, <2>3, <2>4, WriteAt DEF WouldWrite
<1>2. ASSUME NEW i \in DOMAIN plan, plan[i].cell \in Targets, pass >= FedFrom(depth, i)
      PROVE  /\ Evaluate(plan[i], book') = Evaluate(plan[i], book) /\ Now(i)' = Now(i)
             /\ plan[i].cell = plan[at].cell => pass <= FedFrom(depth, i) + 1
  <2>1. ~(depth[plan[at].cell] < depth[plan[i].cell])
    BY <1>0, <1>1, <1>2, LayerNumbers DEF FedFrom
  <2>2. plan[at].cell \notin plan[i].reads /\ plan[i].primary # plan[at].cell
    BY <1>0, <1>2, <2>1, FedFromTargets
  <2>3. plan[i].cell = plan[at].cell => pass <= FedFrom(depth, i) + 1
    BY <1>0, <1>1, LayerNumbers DEF FedFrom
  <2> QED
    BY <1>0, <2>2, <2>3, OtherCellKeepsCheck
<1> QED
  BY <1>1, <1>2

LEMMA WriteKeepsLayers ==
  ASSUME PassInv, Write, NEW depth \in Depths, Layers(plan, depth), ChecksOnce(plan),
         FedInv(depth), LastInv(depth)
  PROVE  FedInv(depth)' /\ LastInv(depth)' /\ WrittenInTime(depth)'
<1>0. FillTypeOK
  BY DEF PassInv
<1>1. PICK j \in DOMAIN plan : j = at
  BY <1>0, WriteAt
<1>2. /\ UNCHANGED <<plan, seen, pass>> /\ at' = at + 1
      /\ \A i \in DOMAIN plan : FedFrom(depth, i)' = FedFrom(depth, i)
  BY <1>0, WriteAt DEF FedFrom
\* The check that writes is done, and a computation that does is pending on none.
<1>3. ASSUME pass >= FedFrom(depth, j)
      PROVE  Figure(j) = Now(j) /\ ~WouldWrite(j)'
  <2>1. seen[j] = Evaluate(plan[j], book)
    BY <1>0, <1>1, <1>3, WriteAt DEF FedInv
  <2>2. Figure(j) = Now(j)
    BY <2>1 DEF Figure, Now
  <2>3. Now(j)' = Now(j) /\ book'[plan[j].cell] = Figure(j)
    BY <1>0, <1>1, <1>3, WriteInLayers, WriteAt DEF FillTypeOK
  <2> QED
    BY <1>2, <2>2, <2>3 DEF WouldWrite
<1>4. ASSUME NEW i \in DOMAIN plan, i # j, plan[i].cell = plan[j].cell, WouldWrite(i)'
      PROVE  Pending(i)' /\ IsTie(plan[j])
  <2>1. plan[i].binding # plan[j].binding /\ plan[j].cell \in Cells /\ plan[j].binding \in Nat \ {0}
    BY <1>0, <1>1, <1>4, WriteAt, CheckParts DEF ChecksOnce
  <2>2. /\ owner'[plan[i].cell] = plan[j].binding
        /\ kind'[plan[i].cell] = IF IsTie(plan[j]) THEN "carried" ELSE "computed"
    BY <1>0, <1>1, <1>4, <2>1, WriteAt DEF FillTypeOK
  <2>3. TakesOver(i)'
    BY <1>2, <1>4, <2>1, <2>2 DEF WouldWrite, MayWrite
  <2> QED
    BY <1>2, <2>1, <2>2, <2>3 DEF Pending, TakesOver
<1>5. ASSUME NEW i \in DOMAIN plan, plan[i].cell \in Targets, pass >= FedFrom(depth, i), plan[i].cell # plan[j].cell
      PROVE  (WouldWrite(i)' <=> WouldWrite(i)) /\ (Pending(i)' <=> Pending(i))
  <2>1. plan[i].cell \in Cells
    BY <1>0, PlanIsOfChecks, CheckParts DEF FillTypeOK
  <2>2. /\ book'[plan[i].cell] = book[plan[i].cell] /\ owner'[plan[i].cell] = owner[plan[i].cell]
        /\ kind'[plan[i].cell] = kind[plan[i].cell]
    BY <1>0, <1>1, <1>5, <2>1, WriteAt DEF FillTypeOK
  <2>3. Now(i)' = Now(i)
    BY <1>5, WriteInLayers
  <2> QED
    BY <1>2, <2>2, <2>3 DEF WouldWrite, Pending, MayWrite, TakesOver
<1>6. \A i \in DOMAIN plan : i # j /\ Done(i)' => Done(i)
  BY <1>0, <1>1, <1>2, PlanIsOfChecks DEF Done, FillTypeOK
<1>7. FedInv(depth)'
  <2> SUFFICES ASSUME NEW i \in DOMAIN plan, plan[i].cell \in Targets, pass >= FedFrom(depth, i)
               PROVE  /\ seen[i] # Blank => seen[i] = Evaluate(plan[i], book')
                      /\ Done(i)' \/ pass > FedFrom(depth, i) => (WouldWrite(i)' => Pending(i)')
    BY <1>2 DEF FedInv
  <2>1. seen[i] # Blank => seen[i] = Evaluate(plan[i], book')
    BY WriteInLayers DEF FedInv
  <2>2. Done(i)' \/ pass > FedFrom(depth, i) => (WouldWrite(i)' => Pending(i)')
    BY <1>3, <1>4, <1>5, <1>6 DEF FedInv
  <2> QED
    BY <2>1, <2>2
<1>8. LastInv(depth)'
  <2> SUFFICES ASSUME NEW i \in DOMAIN plan, plan[i].cell \in Targets, pass >= FedFrom(depth, i) + 1,
                      Done(i)' \/ pass > FedFrom(depth, i) + 1, WouldWrite(i)'
               PROVE  FALSE
    BY <1>2 DEF LastInv
  <2>0. pass >= FedFrom(depth, i) /\ pass > FedFrom(depth, i)
    BY <1>0, LayerNumbers
  <2>1. CASE plan[i].cell # plan[j].cell
    <3>1. i # j
      BY <2>1
    <3> QED
      BY <1>5, <1>6, <2>0, <2>1, <3>1 DEF LastInv
  <2>2. CASE plan[i].cell = plan[j].cell
    <3>1. FedFrom(depth, j) = FedFrom(depth, i)
      BY <2>2 DEF FedFrom
    <3>2. i # j
      BY <1>3, <2>0, <3>1
    <3>3. IsTie(plan[j])
      BY <1>4, <2>2, <3>2
    <3>4. WouldWrite(j)
      BY <1>0, <1>1, <1>3, <2>0, <3>1, WriteAt DEF WouldWrite
    <3>5. Pending(j)
      BY <2>0, <2>2, <3>1, <3>4 DEF FedInv
    <3> QED
      BY <3>3, <3>5 DEF Pending, TakesOver
  <2> QED
    BY <2>1, <2>2
<1>9. WrittenInTime(depth)'
  BY <1>0, <1>2, WriteInLayers, WriteAt DEF WrittenInTime
<1> QED
  BY <1>7, <1>8, <1>9

LEMMA SameBookSameChecks ==
  ASSUME UNCHANGED <<plan, book, owner, kind>>, NEW i
  PROVE  /\ WouldWrite(i)' = WouldWrite(i)
         /\ Pending(i)' = Pending(i)
<1>1. Now(i)' = Now(i)
  BY DEF Now
<1>2. TakesOver(i)' = TakesOver(i)
  BY DEF TakesOver
<1>3. MayWrite(i)' = MayWrite(i)
  BY <1>2 DEF MayWrite
<1> QED
  BY <1>1, <1>2, <1>3 DEF WouldWrite, Pending

LEMMA LeaveKeepsLayers ==
  ASSUME PassInv, Leave, NEW depth \in Depths, FedInv(depth), LastInv(depth), WrittenInTime(depth)
  PROVE  FedInv(depth)' /\ LastInv(depth)' /\ WrittenInTime(depth)'
<1>0. FillTypeOK /\ UNCHANGED <<plan, book, owner, kind, pass, seen, touched>> /\ at' = at + 1
  BY DEF PassInv, Leave
<1>1. \A i \in DOMAIN plan : WouldWrite(i)' = WouldWrite(i) /\ Pending(i)' = Pending(i)
  BY <1>0, SameBookSameChecks
<1>2. \A i \in DOMAIN plan : Done(i)' => Done(i) \/ (i = at /\ seen[i] # Blank)
  BY <1>0, PlanIsOfChecks DEF Done, FillTypeOK
<1>3. ASSUME NEW i \in DOMAIN plan, plan[i].cell \in Targets, pass >= FedFrom(depth, i), i = at, seen[i] # Blank
      PROVE  ~WouldWrite(i)
  <2>1. seen[i] = Evaluate(plan[i], book)
    BY <1>3 DEF FedInv
  <2>2. Figure(i) = Now(i)
    BY <2>1 DEF Figure, Now
  <2> QED
    BY <1>3, <2>2 DEF WouldWrite, Leave, Considered
<1>4. FedInv(depth)'
  <2> SUFFICES ASSUME NEW i \in DOMAIN plan, plan[i].cell \in Targets, pass >= FedFrom(depth, i)
               PROVE  /\ seen[i] # Blank => seen[i] = Evaluate(plan[i], book)
                      /\ Done(i)' \/ pass > FedFrom(depth, i) => (WouldWrite(i) => Pending(i))
    BY <1>0, <1>1 DEF FedInv, FedFrom
  <2> QED
    BY <1>2, <1>3 DEF FedInv
<1>5. LastInv(depth)'
  <2> SUFFICES ASSUME NEW i \in DOMAIN plan, plan[i].cell \in Targets, pass >= FedFrom(depth, i) + 1,
                      Done(i)' \/ pass > FedFrom(depth, i) + 1
               PROVE  ~WouldWrite(i)
    BY <1>0, <1>1 DEF LastInv, FedFrom
  <2>1. pass >= FedFrom(depth, i)
    BY <1>0, LayerNumbers
  <2> QED
    BY <1>2, <1>3, <2>1 DEF LastInv
<1>6. WrittenInTime(depth)'
  BY <1>0 DEF WrittenInTime
<1> QED
  BY <1>4, <1>5, <1>6

LEMMA NextPassKeepsLayers ==
  ASSUME PassInv, NextPass, NEW depth \in Depths, FedInv(depth), LastInv(depth)
  PROVE  FedInv(depth)' /\ LastInv(depth)' /\ WrittenInTime(depth)'
<1>0. /\ FillTypeOK /\ UNCHANGED <<plan, book, owner, kind>> /\ at > Len(plan)
      /\ at' = 1 /\ pass' = pass + 1 /\ touched' = {}
  BY DEF PassInv, NextPass
<1>1. \A i \in DOMAIN plan : WouldWrite(i)' = WouldWrite(i) /\ Pending(i)' = Pending(i)
  BY <1>0, SameBookSameChecks
<1>5. \A i \in DOMAIN plan : Done(i) /\ (Done(i)' => seen'[i] = Blank)
  BY <1>0, PlanIsOfChecks DEF Done, FillTypeOK
<1>2. FedInv(depth)'
  <2> SUFFICES ASSUME NEW i \in DOMAIN plan, plan[i].cell \in Targets, pass + 1 >= FedFrom(depth, i)
               PROVE  /\ seen'[i] # Blank => seen'[i] = Evaluate(plan[i], book)
                      /\ Done(i)' \/ pass + 1 > FedFrom(depth, i) => (WouldWrite(i) => Pending(i))
    BY <1>0, <1>1 DEF FedInv, FedFrom
  <2>1. CASE pass + 1 > FedFrom(depth, i)
    <3>1. pass >= FedFrom(depth, i)
      BY <1>0, <2>1, LayerNumbers
    <3> QED
      BY <1>1, <1>5, <3>1, NextPassSees DEF FedInv
  <2>2. CASE ~(pass + 1 > FedFrom(depth, i))
    BY <1>1, <1>5, <2>2, NextPassSees
  <2> QED
    BY <2>1, <2>2
<1>3. LastInv(depth)'
  <2> SUFFICES ASSUME NEW i \in DOMAIN plan, plan[i].cell \in Targets, pass + 1 >= FedFrom(depth, i) + 1,
                      Done(i)' \/ pass + 1 > FedFrom(depth, i) + 1
               PROVE  ~WouldWrite(i)
    BY <1>0, <1>1 DEF LastInv, FedFrom
  <2>1. CASE pass + 1 > FedFrom(depth, i) + 1
    <3>1. pass >= FedFrom(depth, i) + 1
      BY <1>0, <2>1, LayerNumbers
    <3> QED
      BY <1>1, <1>5, <3>1 DEF LastInv
  <2>2. CASE ~(pass + 1 > FedFrom(depth, i) + 1)
    BY <1>1, <1>5, <2>2, NextPassSees
  <2> QED
    BY <2>1, <2>2
<1>4. WrittenInTime(depth)'
  BY <1>0 DEF WrittenInTime
<1> QED
  BY <1>2, <1>3, <1>4

LEMMA StepLayersInv == PassInv /\ LayersInv /\ [FillNext]_fillVars => LayersInv'
<1> SUFFICES ASSUME PassInv, LayersInv, [FillNext]_fillVars, NEW depth \in Depths, Layers(plan', depth), ChecksOnce(plan')
             PROVE  FedInv(depth)' /\ LastInv(depth)' /\ WrittenInTime(depth)'
  BY DEF LayersInv
<1>1. plan' = plan
  BY DEF FillNext, Write, Leave, NextPass, Stop, fillVars
<1>2. Layers(plan, depth) /\ ChecksOnce(plan)
  BY <1>1
<1>3. FedInv(depth) /\ LastInv(depth) /\ WrittenInTime(depth)
  BY <1>2 DEF LayersInv
<1>4. CASE Stop \/ UNCHANGED fillVars
  <2>1. UNCHANGED <<plan, book, owner, kind, pass, at, seen, touched>>
    BY <1>4 DEF Stop, fillVars
  <2>2. FedInv(depth)'
    BY <1>3, <2>1 DEF FedInv, FedFrom, Done, WouldWrite, Now, MayWrite, TakesOver, Pending
  <2>3. LastInv(depth)'
    BY <1>3, <2>1 DEF LastInv, FedFrom, Done, WouldWrite, Now, MayWrite, TakesOver
  <2>4. WrittenInTime(depth)'
    BY <1>3, <2>1 DEF WrittenInTime
  <2> QED
    BY <2>2, <2>3, <2>4
<1> QED
  BY <1>2, <1>3, <1>4, WriteKeepsLayers, LeaveKeepsLayers, NextPassKeepsLayers DEF FillNext

LEMMA LayersSettleInTime == ASSUME PassInv, LayersInv, Ended PROVE LayersSettle
<1> SUFFICES ASSUME finished, ChecksOnce(plan), touched # {},
                    NEW depth \in [Targets -> 1 .. (MaxPasses - 1) \div 2], Layers(plan, depth)
             PROVE  FALSE
  BY DEF LayersSettle, Layered
<1>1. depth \in Depths
  BY DEF Depths
<1>2. PICK c \in Targets : pass <= 2 * depth[c]
  BY <1>1 DEF LayersInv, WrittenInTime
<1>3. MaxPasses \in Nat /\ pass \in Nat /\ ~(pass < MaxPasses)
  BY FillAssumption DEF PassInv, FillTypeOK, Ended, MorePasses
<1>4. depth[c] \in Nat /\ depth[c] <= (MaxPasses - 1) \div 2
  OBVIOUS
<1>5. 2 * ((MaxPasses - 1) \div 2) <= MaxPasses - 1
  BY <1>3
<1> QED
  BY <1>2, <1>3, <1>4, <1>5

\* A fill that stops because nothing changes left one consistent workbook and
\* reported where its bindings disagree, and it does stop so where they feed each
\* other in no more layers than half its passes: for any bindings, of any rules,
\* in any order, over whatever was entered (fill).
THEOREM FillEndsSettled == FillSpec => []FillSettles
<1>1. FillInit => Ended
  BY DEF FillInit, Ended
<1>2. PassInv /\ Ended /\ [FillNext]_fillVars => Ended'
  BY StepEnded DEF PassInv
<1>3. PassInv /\ LayersInv /\ Ended => FillSettles
  BY SettledFillIsConsistent, LayersSettleInTime DEF FillSettles
<1> QED
  BY <1>1, <1>2, <1>3, InitPassInv, StepPassInv, InitLayersInv, StepLayersInv, PTL DEF FillSpec
=============================================================================
