----------------------------- MODULE CaseProofs -----------------------------
(***************************************************************************)
(* The ARR and true-up case, for any users, parameters, lines and bounds.  *)
(*                                                                         *)
(* What a draft was rendered from and one assumption per key hold however  *)
(* requests overlap: a frozen formulation and a frozen statement are never *)
(* written again, and what an open request read of them still holds when   *)
(* it writes (Carries).  That a frozen case rests on frozen inputs, and is *)
(* left alone, holds when requests come one at a time: then what a request *)
(* read of the case is still so (Fresh), which its write relies on.        *)
(***************************************************************************)
EXTENDS TrueUp, SequenceTheorems, TLAPS

Inputs == [approved : Base, actuals : [Lines -> Actual]]
Statements == {NoStatement} \cup [state : {"computed", "frozen"}, inputs : Inputs]
CaseRows == [kind : Kinds, status : CaseStatus, set : Nat, run : Nat, draft : Nat, statement : Statements]
DraftRows ==
    [of : {"formulation"}, run : Nat, shows : SUBSET Row, facts : Base]
    \cup [of : {"statement"}, statement : Inputs, live : Inputs]

\* The tables, but for the case.
Tables ==
    /\ overlaps \in 0 .. MaxOverlaps /\ lastId \in 0 .. MaxEntered
    /\ facts \in Base /\ actuals \in [Lines -> Actual]
    /\ sets \in Seq(SetVersion) /\ Len(sets) <= MaxSets
    /\ runs \in Seq(Run) /\ Len(runs) <= MaxRuns
    /\ drafts \in Seq(DraftRows) /\ Len(drafts) <= MaxDrafts
    /\ \A i \in 1 .. Len(runs) : runs[i].set \in 1 .. Len(sets)

\* A row of the case, as read by a request or as it stands.
Held(c) ==
    /\ c \in CaseRows /\ c.kind = case.kind
    /\ c.set \in 1 .. Len(sets) /\ c.run \in 0 .. Len(runs) /\ c.draft \in 0 .. Len(drafts)

\* A frozen statement was ready.
Rested(s) == s.state = "frozen" => Ready(s.inputs)

\* A frozen formulation has no blocked line and its assumption set is frozen.
RunsStand == \A i \in 1 .. Len(runs) :
    runs[i].status = "frozen" => ~runs[i].blocked /\ sets[runs[i].set].status = "frozen"

Drafted(d) ==
    /\ d \in DraftRows
    /\ d.of = "formulation" => d.run \in 1 .. Len(runs) /\ runs[d.run].status = "frozen" /\ ~runs[d.run].blocked
    /\ d.of = "statement" => Ready(d.statement) /\ d.statement = d.live

OnePerKey(rows) == \A r, t \in rows : r.key = t.key => r = t

\* What an open request carries, whatever other requests commit meanwhile.
Carries(q) ==
    /\ q.op \in {"add", "remove", "formulate", "freeze", "draft", "revise", "close", "add_actual",
                 "remove_actual", "compute", "freeze_statement", "revise_true_up"}
    /\ q.op # "remove" => Held(q.case)
    /\ q.op \in {"add", "formulate", "freeze", "draft"} => q.through \in BOOLEAN
    /\ q.op = "add" => q.key \in Keys
    /\ q.op \in {"add", "remove"} => q.set \in 1 .. Len(sets)
    /\ q.op = "formulate" => q.run \in Run /\ q.run.set \in 1 .. Len(sets) /\ q.run.status = "draft"
    /\ q.op = "freeze" => q.run \in 1 .. Len(runs) /\ ~runs[q.run].blocked
    /\ q.op = "draft" => Drafted(q.draft)
    /\ q.op = "revise" => q.version \in 1 .. MaxSets /\ q.rows \in SUBSET Row /\ OnePerKey(q.rows)
    /\ q.op \in {"add_actual", "remove_actual"} => q.line \in Lines
    /\ q.op = "add_actual" => q.figure \in Figures
    /\ q.op = "compute" => q.inputs \in Inputs
    /\ q.op = "freeze_statement" => q.case.statement.state # "none" /\ Ready(q.case.statement.inputs)

Open(u) == tx[u] # NoRequest

\* Holds however requests overlap.
Shared ==
    /\ Tables /\ Held(case) /\ Rested(case.statement) /\ RunsStand /\ OneAssumptionPerKey
    /\ \A i \in 1 .. Len(drafts) : Drafted(drafts[i])
    /\ DOMAIN tx = Users /\ \A u \in Users : Open(u) => Carries(tx[u])

\* What the request read is still so.
Fresh(q) ==
    /\ q.op # "remove" => q.case = case
    /\ q.op \in {"add", "remove"} => sets[q.set].status = "draft"
    /\ q.op \in {"add", "formulate"} /\ q.through => case.status \in Thawed
    /\ q.op = "formulate" /\ q.through => case.kind = "arr" /\ q.run.set = case.set
    /\ q.op = "freeze" /\ q.through => case.kind = "arr" /\ case.status = "formulated" /\ q.run = case.run
    /\ q.op = "draft" /\ q.through => case.status \in {"frozen", "drafted"}
    /\ q.op = "revise" => case.kind = "arr" /\ case.status \in {"frozen", "drafted"}
    /\ q.op = "close" => case.status # "closed"
    /\ q.op \in {"add_actual", "remove_actual", "compute"} => Editable(case)
    /\ q.op = "freeze_statement" => /\ case.kind = "true_up" /\ case.status = "formulated"
                                    /\ case.statement.inputs.actuals = actuals
    /\ q.op = "revise_true_up" => case.kind = "true_up" /\ case.status \in {"frozen", "drafted"}

\* The formulation of a case is of its assumption set.
RunIsOfItsSet == case.run # 0 => runs[case.run].set = case.set

\* Holds as long as requests come one at a time.
OneAtATime ==
    /\ \A u, v \in Users : Open(u) /\ Open(v) => u = v
    /\ \A u \in Users : Open(u) => Fresh(tx[u])
    /\ RunIsOfItsSet /\ FrozenCaseRestsOnFrozen /\ FrozenStatementStands

CaseInv == Shared /\ (overlaps = 0 => OneAtATime)

-----------------------------------------------------------------------------
(* The rows of a case, the sets and what is carried over a step.           *)

LEMMA FlushedFields ==
  ASSUME NEW row \in CaseRows, NEW old \in CaseRows, NEW new \in CaseRows
  PROVE  LET c == Flushed(row, old, new)
         IN /\ c \in CaseRows
            /\ c.kind = IF new.kind = old.kind THEN row.kind ELSE new.kind
            /\ c.status = IF new.status = old.status THEN row.status ELSE new.status
            /\ c.set = IF new.set = old.set THEN row.set ELSE new.set
            /\ c.run = IF new.run = old.run THEN row.run ELSE new.run
            /\ c.draft = IF new.draft = old.draft THEN row.draft ELSE new.draft
            /\ c.statement = IF new.statement = old.statement THEN row.statement ELSE new.statement
BY DEF Flushed, CaseRows

LEMMA FlushedSame ==
  ASSUME NEW old \in CaseRows, NEW new \in CaseRows
  PROVE  Flushed(old, old, new) = new
BY DEF Flushed, CaseRows

\* What a step does to the tables that open requests and drafts refer to.
Grows ==
    /\ Len(sets) <= Len(sets') /\ Len(runs) <= Len(runs') /\ Len(drafts) <= Len(drafts')
    /\ \A i \in 1 .. Len(runs) : /\ runs'[i].blocked = runs[i].blocked
                                 /\ runs[i].status = "frozen" => runs'[i].status = "frozen"
    /\ case'.kind = case.kind

LEMMA TablesAre ==
  ASSUME Tables
  PROVE  /\ Len(sets) \in Nat /\ Len(runs) \in Nat /\ Len(drafts) \in Nat
         /\ DOMAIN sets = 1 .. Len(sets) /\ DOMAIN runs = 1 .. Len(runs) /\ DOMAIN drafts = 1 .. Len(drafts)
         /\ \A i \in 1 .. Len(sets) : sets[i] \in SetVersion
         /\ \A i \in 1 .. Len(runs) : runs[i] \in Run
         /\ \A i \in 1 .. Len(drafts) : drafts[i] \in DraftRows
BY ElementOfSeq DEF Tables

LEMMA DraftedStays ==
  ASSUME Tables, Tables', Grows, NEW d, Drafted(d)
  PROVE  Drafted(d)'
<1>1. Len(runs) \in Nat /\ Len(runs') \in Nat
  BY TablesAre
<1> QED
  BY <1>1 DEF Drafted, Grows

LEMMA CarriesStays ==
  ASSUME Tables, Tables', Grows, NEW q, Carries(q)
  PROVE  Carries(q)'
<1>1. /\ Len(sets) \in Nat /\ Len(runs) \in Nat /\ Len(drafts) \in Nat
      /\ Len(sets') \in Nat /\ Len(runs') \in Nat /\ Len(drafts') \in Nat
  BY TablesAre
<1>2. q.op # "remove" => Held(q.case)'
  BY <1>1 DEF Carries, Held, CaseRows, Grows
<1>3. q.op = "draft" => Drafted(q.draft)'
  BY DraftedStays DEF Carries
<1>4. q.op = "freeze" => q.run \in 1 .. Len(runs') /\ ~runs'[q.run].blocked
  BY <1>1 DEF Carries, Grows
<1>5. /\ q.op \in {"add", "remove"} => q.set \in 1 .. Len(sets')
      /\ q.op = "formulate" => q.run.set \in 1 .. Len(sets')
  BY <1>1 DEF Carries, Grows
<1> QED
  BY <1>2, <1>3, <1>4, <1>5 DEF Carries

-----------------------------------------------------------------------------
(* A request begins, commits or is rolled back.                            *)

LEMMA BeginKeeps ==
  ASSUME CaseInv, NEW u \in Users, NEW q, Begin(u, q), UNCHANGED actuals, Carries(q), Fresh(q)
  PROVE  CaseInv' /\ LeftAlone
<1>1. /\ tx' = [tx EXCEPT ![u] = q] /\ UNCHANGED <<facts, case, sets, runs, drafts, lastId, actuals>>
      /\ overlaps' \in 0 .. MaxOverlaps
      /\ overlaps' = 0 => overlaps = 0 /\ \A v \in Users : ~Open(v)
  BY CaseAssumption DEF Begin, CaseInv, Shared, Tables, Open
<1>2. Tables' /\ Grows
  BY <1>1, TablesAre DEF CaseInv, Shared, Tables, Grows
<1>3. tx'[u] = q /\ \A v \in Users : v # u => tx'[v] = tx[v]
  BY <1>1 DEF CaseInv, Shared
<1>4. \A v \in Users : Open(v)' => Carries(tx[v])'
  <2> SUFFICES ASSUME NEW v \in Users, tx'[v] # NoRequest PROVE Carries(tx[v])'
    BY DEF Open
  <2>1. PICK p : p = tx'[v]
    OBVIOUS
  <2>2. Carries(p)
    BY <1>3, <2>1 DEF CaseInv, Shared, Open
  <2>3. Carries(p)'
    BY <1>2, <2>2, CarriesStays DEF CaseInv, Shared
  <2> QED
    BY <2>1, <2>3
<1>5. \A i \in 1 .. Len(drafts') : Drafted(drafts[i])'
  BY <1>1 DEF CaseInv, Shared, Drafted
<1>6. Held(case)' /\ Rested(case.statement)' /\ RunsStand' /\ OneAssumptionPerKey'
  BY <1>1 DEF CaseInv, Shared, Held, Rested, RunsStand, OneAssumptionPerKey
<1>7. Shared'
  BY <1>1, <1>2, <1>4, <1>5, <1>6 DEF CaseInv, Shared
<1>8. ASSUME overlaps' = 0 PROVE OneAtATime'
  <2>1. \A v \in Users : Open(v)' => v = u
    BY <1>1, <1>3, <1>8 DEF Open
  <2>2. Fresh(q)'
    BY <1>1 DEF Fresh, Editable
  <2>3. \A v \in Users : Open(v)' => Fresh(tx[v])'
    BY <1>3, <2>1, <2>2
  <2>4. (RunIsOfItsSet /\ FrozenCaseRestsOnFrozen /\ FrozenStatementStands)'
    BY <1>1, <1>8 DEF CaseInv, OneAtATime, RunIsOfItsSet, FrozenCaseRestsOnFrozen, FrozenStatementStands
  <2> QED
    BY <2>1, <2>3, <2>4 DEF OneAtATime
<1>9. LeftAlone
  BY <1>1 DEF LeftAlone, FrozenSetKept, ClosedKept
<1> QED
  BY <1>7, <1>8, <1>9 DEF CaseInv

LEMMA WriteKeeps ==
  ASSUME CaseInv, NEW u \in Users, Open(u), Finish(u), Grows, Tables',
         Held(case)', Rested(case.statement)', RunsStand', OneAssumptionPerKey',
         \A i \in 1 .. Len(drafts') : Drafted(drafts[i])',
         overlaps = 0 => (RunIsOfItsSet /\ FrozenCaseRestsOnFrozen /\ FrozenStatementStands)'
  PROVE  CaseInv'
<1>1. tx' = [tx EXCEPT ![u] = NoRequest] /\ overlaps' = overlaps
  BY DEF Finish
<1>2. /\ DOMAIN tx' = Users /\ tx'[u] = NoRequest
      /\ \A v \in Users : v # u => tx'[v] = tx[v]
  BY <1>1 DEF CaseInv, Shared
<1>3. \A v \in Users : Open(v)' => Carries(tx[v])'
  <2> SUFFICES ASSUME NEW v \in Users, tx'[v] # NoRequest PROVE Carries(tx[v])'
    BY DEF Open
  <2>1. PICK p : p = tx'[v]
    OBVIOUS
  <2>2. Carries(p)
    BY <1>2, <2>1 DEF CaseInv, Shared, Open
  <2>3. Carries(p)'
    BY <2>2, CarriesStays DEF CaseInv, Shared
  <2> QED
    BY <2>1, <2>3
<1>4. Shared'
  BY <1>2, <1>3 DEF Shared
<1>5. ASSUME overlaps = 0 PROVE OneAtATime'
  <2>1. \A v \in Users : ~Open(v)'
    BY <1>2, <1>5 DEF Open, CaseInv, OneAtATime
  <2> QED
    BY <1>5, <2>1 DEF OneAtATime
<1> QED
  BY <1>1, <1>4, <1>5 DEF CaseInv

LEMMA RolledBackKeeps ==
  ASSUME CaseInv, NEW u \in Users, Open(u), RolledBack(u), UNCHANGED actuals
  PROVE  CaseInv' /\ LeftAlone
<1>1. Finish(u) /\ UNCHANGED <<overlaps, facts, case, sets, runs, drafts, lastId, actuals>>
  BY DEF RolledBack, Finish
<1>2. Tables' /\ Grows
  BY <1>1, TablesAre DEF CaseInv, Shared, Tables, Grows
<1>3. Held(case)' /\ Rested(case.statement)' /\ RunsStand' /\ OneAssumptionPerKey'
  BY <1>1 DEF CaseInv, Shared, Held, Rested, RunsStand, OneAssumptionPerKey
<1>4. \A i \in 1 .. Len(drafts') : Drafted(drafts[i])'
  BY <1>1 DEF CaseInv, Shared, Drafted
<1>5. overlaps = 0 => (RunIsOfItsSet /\ FrozenCaseRestsOnFrozen /\ FrozenStatementStands)'
  BY <1>1 DEF CaseInv, OneAtATime, RunIsOfItsSet, FrozenCaseRestsOnFrozen, FrozenStatementStands
<1>6. CaseInv'
  BY <1>1, <1>2, <1>3, <1>4, <1>5, WriteKeeps
<1> QED
  BY <1>1, <1>6 DEF LeftAlone, FrozenSetKept, ClosedKept

LEMMA WiderRange ==
  ASSUME NEW l \in {0, 1}, NEW m \in Nat, NEW n \in Nat, m <= n, NEW x \in l .. m
  PROVE  x \in l .. n
OBVIOUS

\* What a commit does to the case.
LEMMA CaseCommits ==
  ASSUME CaseInv, Tables', Len(sets) <= Len(sets'), Len(runs) <= Len(runs'), Len(drafts) <= Len(drafts'),
         NEW old, Held(old), NEW new \in CaseRows, new.kind = old.kind,
         new.set \in 1 .. Len(sets'), new.run \in 0 .. Len(runs'), new.draft \in 0 .. Len(drafts'),
         new.statement # old.statement => Rested(new.statement),
         case' = case \/ case' = Flushed(case, old, new)
  PROVE  /\ Held(case)' /\ Rested(case.statement)' /\ case'.kind = case.kind
         /\ old = case => case' = case \/ case' = new
<1>1. /\ Len(sets) \in Nat /\ Len(runs) \in Nat /\ Len(drafts) \in Nat
      /\ Len(sets') \in Nat /\ Len(runs') \in Nat /\ Len(drafts') \in Nat
  BY TablesAre DEF CaseInv, Shared
<1>2. Held(case) /\ case \in CaseRows /\ old \in CaseRows /\ Rested(case.statement)
  BY DEF CaseInv, Shared, Held
<1>3. /\ case.set \in 1 .. Len(sets') /\ case.run \in 0 .. Len(runs') /\ case.draft \in 0 .. Len(drafts')
  <2>1. case.set \in 1 .. Len(sets) => case.set \in 1 .. Len(sets')
    BY <1>1, WiderRange
  <2>2. case.run \in 0 .. Len(runs) => case.run \in 0 .. Len(runs')
    BY <1>1, WiderRange
  <2>3. case.draft \in 0 .. Len(drafts) => case.draft \in 0 .. Len(drafts')
    BY <1>1, WiderRange
  <2> QED
    BY <1>2, <2>1, <2>2, <2>3 DEF Held
<1>4. CASE case' = case
  <2>1. Held(case)'
    BY <1>2, <1>3, <1>4 DEF Held
  <2>2. Rested(case.statement)'
    BY <1>2, <1>4 DEF Rested
  <2> QED
    BY <1>4, <2>1, <2>2
<1>5. CASE case' = Flushed(case, old, new)
  <2>1. /\ case' \in CaseRows
        /\ case'.kind = IF new.kind = old.kind THEN case.kind ELSE new.kind
        /\ case'.set = IF new.set = old.set THEN case.set ELSE new.set
        /\ case'.run = IF new.run = old.run THEN case.run ELSE new.run
        /\ case'.draft = IF new.draft = old.draft THEN case.draft ELSE new.draft
        /\ case'.statement = IF new.statement = old.statement THEN case.statement ELSE new.statement
    BY <1>2, <1>5, FlushedFields
  <2>2. Held(case)'
    <3>1. /\ case'.set \in 1 .. Len(sets') /\ case'.run \in 0 .. Len(runs') /\ case'.draft \in 0 .. Len(drafts')
      BY <1>3, <2>1
    <3> QED
      BY <2>1, <3>1 DEF Held
  <2>3. Rested(case.statement)'
    BY <1>2, <2>1 DEF Rested
  <2> QED
    BY <1>2, <1>5, <2>1, <2>2, <2>3, FlushedSame
<1> QED
  BY <1>4, <1>5

\* The rows of one assumption set are written.
LEMMA SetWritten ==
  ASSUME Tables, OneAssumptionPerKey, NEW s \in 1 .. Len(sets), NEW rows \in SUBSET Row, OnePerKey(rows),
         sets' = [sets EXCEPT ![s].rows = rows]
  PROVE  /\ sets' \in Seq(SetVersion) /\ Len(sets') = Len(sets)
         /\ \A i \in 1 .. Len(sets) : sets'[i].status = sets[i].status /\ (i # s => sets'[i] = sets[i])
         /\ OneAssumptionPerKey'
<1>1. sets \in Seq(SetVersion) /\ Len(sets) \in Nat /\ DOMAIN sets = 1 .. Len(sets)
  BY DEF Tables
<1>2. sets[s] \in SetVersion
  BY <1>1, ElementOfSeq
<1> DEFINE row == [sets[s] EXCEPT !.rows = rows]
<1>3. row \in SetVersion /\ row.status = sets[s].status /\ row.rows = rows
  BY <1>2 DEF SetVersion
<1>4. sets' = [sets EXCEPT ![s] = row]
  OBVIOUS
<1> HIDE DEF row
<1>5. sets' \in Seq(SetVersion) /\ Len(sets') = Len(sets) /\ DOMAIN sets' = 1 .. Len(sets)
  BY <1>1, <1>3, <1>4, ExceptSeq
<1>6. \A i \in 1 .. Len(sets) : sets'[i] = IF i = s THEN row ELSE sets[i]
  BY <1>1, <1>4
<1>7. OneAssumptionPerKey'
  BY <1>1, <1>3, <1>5, <1>6 DEF OneAssumptionPerKey, OnePerKey
<1> QED
  BY <1>3, <1>5, <1>6, <1>7

-----------------------------------------------------------------------------
(* The requests begin.                                                     *)

LEMMA SetsAre ==
  ASSUME CaseInv, NEW s \in 1 .. Len(sets)
  PROVE  sets[s].rows \in SUBSET Row /\ OnePerKey(sets[s].rows) /\ s \in 1 .. MaxSets
<1>1. sets[s] \in SetVersion /\ DOMAIN sets = 1 .. Len(sets) /\ Len(sets) \in Nat /\ Len(sets) <= MaxSets
  BY TablesAre DEF CaseInv, Shared, Tables
<1>2. OnePerKey(sets[s].rows)
  BY <1>1 DEF CaseInv, Shared, OneAssumptionPerKey, OnePerKey
<1> QED
  BY <1>1, <1>2, CaseAssumption DEF SetVersion

LEMMA BeginAdd ==
  ASSUME CaseInv, NEW u \in Users, NEW k \in Keys, NEW s \in DOMAIN sets, NEW through \in BOOLEAN,
         AddAssumptionRead(u, k, s, through), UNCHANGED actuals
  PROVE  CaseInv' /\ LeftAlone
<1> DEFINE q == [op |-> "add", key |-> k, set |-> s, through |-> through, case |-> case]
<1>1. Begin(u, q) /\ sets[s].status = "draft" /\ (through => case.status \in Thawed)
  BY DEF AddAssumptionRead
<1>2. Held(case) /\ s \in 1 .. Len(sets)
  BY TablesAre DEF CaseInv, Shared
<1>3. Carries(q)
  BY <1>2 DEF Carries
<1>4. Fresh(q)
  BY <1>1 DEF Fresh
<1> HIDE DEF q
<1> QED
  BY <1>1, <1>3, <1>4, BeginKeeps

LEMMA BeginRemove ==
  ASSUME CaseInv, NEW u \in Users, NEW row \in Row, RemoveAssumptionRead(u, row), UNCHANGED actuals
  PROVE  CaseInv' /\ LeftAlone
<1> DEFINE q == [op |-> "remove", row |-> row, set |-> case.set]
<1>1. Begin(u, q) /\ sets[case.set].status = "draft"
  BY DEF RemoveAssumptionRead, RemoveGuard
<1>2. case.set \in 1 .. Len(sets)
  BY DEF CaseInv, Shared, Held
<1>3. Carries(q)
  BY <1>2 DEF Carries
<1>4. Fresh(q)
  BY <1>1 DEF Fresh
<1> HIDE DEF q
<1> QED
  BY <1>1, <1>3, <1>4, BeginKeeps

LEMMA BeginFormulate ==
  ASSUME CaseInv, NEW u \in Users, NEW s \in DOMAIN sets, NEW through \in BOOLEAN,
         FormulateRead(u, s, through), UNCHANGED actuals
  PROVE  CaseInv' /\ LeftAlone
<1> DEFINE run == Computed(s)
           q == [op |-> "formulate", run |-> run, through |-> through, case |-> case]
<1>1. Begin(u, q) /\ (through => case.kind = "arr" /\ case.status \in Thawed /\ s = case.set)
  BY DEF FormulateRead
<1>2. Held(case) /\ s \in 1 .. Len(sets) /\ facts \in Base
  BY TablesAre DEF CaseInv, Shared, Tables
<1>3. Blocked(facts, sets[s].rows) \in BOOLEAN
  BY DEF Blocked
<1>4. run \in Run /\ run.set = s /\ run.status = "draft"
  BY <1>2, <1>3, SetsAre DEF Computed, Run
<1> HIDE DEF run
<1>5. Carries(q)
  BY <1>2, <1>4 DEF Carries
<1>6. Fresh(q)
  BY <1>1, <1>4 DEF Fresh
<1> HIDE DEF q
<1> QED
  BY <1>1, <1>5, <1>6, BeginKeeps

LEMMA BeginFreeze ==
  ASSUME CaseInv, NEW u \in Users, NEW i \in DOMAIN runs, NEW through \in BOOLEAN,
         FreezeRead(u, i, through), UNCHANGED actuals
  PROVE  CaseInv' /\ LeftAlone
<1> DEFINE q == [op |-> "freeze", run |-> i, through |-> through, case |-> case]
<1>1. /\ Begin(u, q) /\ ~runs[i].blocked
      /\ through => case.kind = "arr" /\ case.status = "formulated" /\ i = case.run
  BY DEF FreezeRead, CanFreeze
<1>2. Held(case) /\ i \in 1 .. Len(runs)
  BY TablesAre DEF CaseInv, Shared
<1>3. Carries(q)
  BY <1>1, <1>2 DEF Carries
<1>4. Fresh(q)
  BY <1>1 DEF Fresh
<1> HIDE DEF q
<1> QED
  BY <1>1, <1>3, <1>4, BeginKeeps

LEMMA BeginDraft ==
  ASSUME CaseInv, NEW u \in Users, NEW i \in DOMAIN runs, NEW through \in BOOLEAN,
         DraftRead(u, i, through), UNCHANGED actuals
  PROVE  CaseInv' /\ LeftAlone
<1> DEFINE d == [of |-> "formulation", run |-> i, shows |-> sets[runs[i].set].rows, facts |-> facts]
           q == [op |-> "draft", through |-> through, case |-> case, draft |-> d]
<1>1. /\ Begin(u, q) /\ runs[i].status = "frozen"
      /\ through => case.status \in {"frozen", "drafted"}
  BY DEF DraftRead, CanDraft
<1>2. Held(case) /\ i \in 1 .. Len(runs) /\ facts \in Base /\ Len(runs) \in Nat /\ runs[i].set \in 1 .. Len(sets)
  BY TablesAre DEF CaseInv, Shared, Tables
<1>3. ~runs[i].blocked
  BY <1>1, <1>2 DEF CaseInv, Shared, RunsStand
<1>4. Drafted(d)
  BY <1>1, <1>2, <1>3, SetsAre DEF Drafted, DraftRows
<1> HIDE DEF d
<1>5. Carries(q)
  BY <1>2, <1>4 DEF Carries
<1>6. Fresh(q)
  BY <1>1 DEF Fresh
<1> HIDE DEF q
<1> QED
  BY <1>1, <1>5, <1>6, BeginKeeps

LEMMA BeginRevise ==
  ASSUME CaseInv, NEW u \in Users, ReviseRead(u), UNCHANGED actuals
  PROVE  CaseInv' /\ LeftAlone
<1> DEFINE version == Len(sets) + 1
           rows == sets[case.set].rows
           q == [op |-> "revise", version |-> version, case |-> case, rows |-> rows]
<1>1. Begin(u, q) /\ case.kind = "arr" /\ case.status \in {"frozen", "drafted"} /\ Len(sets) < MaxSets
  BY DEF ReviseRead
<1>2. Held(case) /\ Len(sets) \in Nat /\ case.set \in 1 .. Len(sets)
  BY TablesAre DEF CaseInv, Shared, Held
<1>3. version \in 1 .. MaxSets
  BY <1>1, <1>2, CaseAssumption
<1>4. rows \in SUBSET Row /\ OnePerKey(rows)
  BY <1>2, SetsAre
<1> HIDE DEF version, rows
<1>5. Carries(q)
  BY <1>2, <1>3, <1>4 DEF Carries
<1>6. Fresh(q)
  BY <1>1 DEF Fresh
<1> HIDE DEF q
<1> QED
  BY <1>1, <1>5, <1>6, BeginKeeps

LEMMA BeginClose ==
  ASSUME CaseInv, NEW u \in Users, CloseRead(u), UNCHANGED actuals
  PROVE  CaseInv' /\ LeftAlone
<1> DEFINE q == [op |-> "close", case |-> case]
<1>1. Begin(u, q) /\ case.status # "closed"
  BY DEF CloseRead
<1>2. Carries(q)
  BY DEF Carries, CaseInv, Shared
<1>3. Fresh(q)
  BY <1>1 DEF Fresh
<1> HIDE DEF q
<1> QED
  BY <1>1, <1>2, <1>3, BeginKeeps

LEMMA BeginAddActual ==
  ASSUME CaseInv, NEW u \in Users, NEW l \in Lines, NEW figure \in Figures, AddActualRead(u, l, figure)
  PROVE  CaseInv' /\ LeftAlone
<1> DEFINE q == [op |-> "add_actual", line |-> l, figure |-> figure, case |-> case]
<1>1. Begin(u, q) /\ Editable(case) /\ UNCHANGED actuals
  BY DEF AddActualRead
<1>2. Carries(q)
  BY DEF Carries, CaseInv, Shared
<1>3. Fresh(q)
  BY <1>1 DEF Fresh
<1> HIDE DEF q
<1> QED
  BY <1>1, <1>2, <1>3, BeginKeeps

LEMMA BeginRemoveActual ==
  ASSUME CaseInv, NEW u \in Users, NEW l \in Lines, RemoveActualRead(u, l)
  PROVE  CaseInv' /\ LeftAlone
<1> DEFINE q == [op |-> "remove_actual", line |-> l, id |-> actuals[l].id, case |-> case]
<1>1. Begin(u, q) /\ Editable(case) /\ UNCHANGED actuals
  BY DEF RemoveActualRead
<1>2. Carries(q)
  BY DEF Carries, CaseInv, Shared
<1>3. Fresh(q)
  BY <1>1 DEF Fresh
<1> HIDE DEF q
<1> QED
  BY <1>1, <1>2, <1>3, BeginKeeps

LEMMA LiveIsTyped == CaseInv => Live \in Inputs /\ Live.actuals = actuals
BY DEF CaseInv, Shared, Tables, Live, Inputs

LEMMA BeginCompute ==
  ASSUME CaseInv, NEW u \in Users, ComputeStatementRead(u)
  PROVE  CaseInv' /\ LeftAlone
<1> DEFINE q == [op |-> "compute", inputs |-> Live, case |-> case]
<1>1. Begin(u, q) /\ Editable(case) /\ UNCHANGED actuals
  BY DEF ComputeStatementRead
<1>2. Carries(q)
  BY LiveIsTyped DEF Carries, CaseInv, Shared
<1>3. Fresh(q)
  BY <1>1 DEF Fresh
<1> HIDE DEF q
<1> QED
  BY <1>1, <1>2, <1>3, BeginKeeps

LEMMA BeginFreezeStatement ==
  ASSUME CaseInv, NEW u \in Users, FreezeStatementRead(u)
  PROVE  CaseInv' /\ LeftAlone
<1> DEFINE q == [op |-> "freeze_statement", case |-> case]
<1>1. /\ Begin(u, q) /\ UNCHANGED actuals
      /\ case.kind = "true_up" /\ case.status = "formulated"
      /\ case.statement.state # "none" /\ case.statement.inputs = Live /\ Ready(Live)
  BY DEF FreezeStatementRead, StillAsComputed
<1>2. Carries(q)
  BY <1>1 DEF Carries, CaseInv, Shared
<1>3. Fresh(q)
  BY <1>1, LiveIsTyped DEF Fresh
<1> HIDE DEF q
<1> QED
  BY <1>1, <1>2, <1>3, BeginKeeps

LEMMA BeginDraftTrueUp ==
  ASSUME CaseInv, NEW u \in Users, DraftTrueUpRead(u)
  PROVE  CaseInv' /\ LeftAlone
<1> DEFINE d == [of |-> "statement", statement |-> case.statement.inputs, live |-> Live]
           q == [op |-> "draft", through |-> TRUE, case |-> case, draft |-> d]
<1>1. /\ Begin(u, q) /\ UNCHANGED actuals
      /\ case.status \in {"frozen", "drafted"}
      /\ case.statement.state = "frozen" /\ case.statement.inputs = Live
  BY DEF DraftTrueUpRead, StillAsComputed
<1>2. Ready(case.statement.inputs)
  BY <1>1 DEF CaseInv, Shared, Rested
<1>3. Drafted(d)
  BY <1>1, <1>2, LiveIsTyped DEF Drafted, DraftRows
<1> HIDE DEF d
<1>4. Carries(q)
  BY <1>3 DEF Carries, CaseInv, Shared
<1>5. Fresh(q)
  BY <1>1 DEF Fresh
<1> HIDE DEF q
<1> QED
  BY <1>1, <1>4, <1>5, BeginKeeps

LEMMA BeginReviseTrueUp ==
  ASSUME CaseInv, NEW u \in Users, ReviseTrueUpRead(u)
  PROVE  CaseInv' /\ LeftAlone
<1> DEFINE q == [op |-> "revise_true_up", case |-> case]
<1>1. /\ Begin(u, q) /\ UNCHANGED actuals
      /\ case.kind = "true_up" /\ case.status \in {"frozen", "drafted"}
  BY DEF ReviseTrueUpRead
<1>2. Carries(q)
  BY DEF Carries, CaseInv, Shared
<1>3. Fresh(q)
  BY <1>1 DEF Fresh
<1> HIDE DEF q
<1> QED
  BY <1>1, <1>2, <1>3, BeginKeeps

-----------------------------------------------------------------------------
(* The requests commit.                                                    *)

LEMMA OpenCarries ==
  ASSUME CaseInv, NEW u \in Users, NEW q, q = tx[u], q.op # "none"
  PROVE  Open(u) /\ Carries(q) /\ (overlaps = 0 => Fresh(q) /\ OneAtATime)
BY DEF CaseInv, Shared, OneAtATime, Open, NoRequest

\* Drafts that a step leaves alone stand as the formulations do.
LEMMA DraftsStay ==
  ASSUME CaseInv, Tables', Grows, drafts' = drafts
  PROVE  \A i \in 1 .. Len(drafts') : Drafted(drafts[i])'
<1> SUFFICES ASSUME NEW i \in 1 .. Len(drafts) PROVE Drafted(drafts[i])'
  OBVIOUS
<1>1. PICK d : d = drafts[i]
  OBVIOUS
<1>2. Drafted(d)
  BY <1>1 DEF CaseInv, Shared
<1>3. Drafted(d)'
  BY <1>2, DraftedStays DEF CaseInv, Shared
<1> QED
  BY <1>1, <1>3

\* A write that leaves sets, formulations and drafts alone changes the case, or the actuals.
LEMMA CaseWriteKeeps ==
  ASSUME CaseInv, NEW u \in Users, NEW q, q = tx[u], q.op # "none", q.op # "remove", Finish(u),
         UNCHANGED <<sets, runs, drafts>>, lastId' \in 0 .. MaxEntered, actuals' \in [Lines -> Actual],
         NEW new \in CaseRows, new.kind = q.case.kind, new.set = q.case.set, new.run = q.case.run,
         new.draft \in {0, q.case.draft}, new.statement # q.case.statement => Rested(new.statement),
         case' = Flushed(case, q.case, new),
         overlaps = 0 /\ q.case = case =>
             /\ case.status # "closed"
             /\ case.kind = "arr" => new.status \notin {"frozen", "drafted"}
             /\ case.kind = "true_up" /\ new.status \in {"frozen", "drafted"} =>
                   /\ new.statement.state = "frozen"
                   /\ new.statement.inputs.actuals = actuals' /\ Ready(new.statement.inputs)
  PROVE  CaseInv' /\ LeftAlone
<1>1. /\ Open(u) /\ Carries(q) /\ Held(q.case)
      /\ overlaps = 0 => q.case = case /\ OneAtATime
  BY OpenCarries DEF Carries, Fresh
<1>2. Tables /\ Tables' /\ UNCHANGED overlaps
  BY DEF CaseInv, Shared, Tables, Finish
<1>3. /\ Held(case)' /\ Rested(case.statement)' /\ case'.kind = case.kind
      /\ overlaps = 0 => case' = case \/ case' = new
  <2>1. /\ new.set \in 1 .. Len(sets') /\ new.run \in 0 .. Len(runs') /\ new.draft \in 0 .. Len(drafts')
        /\ Len(sets) <= Len(sets') /\ Len(runs) <= Len(runs') /\ Len(drafts) <= Len(drafts')
    BY <1>1, <1>2, TablesAre DEF Held
  <2> QED
    BY <1>1, <1>2, <2>1, CaseCommits
<1>4. overlaps = 0 => case' = new
  BY <1>1, FlushedSame DEF Held
<1>5. Grows
  BY <1>2, <1>3, TablesAre DEF Grows
<1>6. RunsStand' /\ OneAssumptionPerKey'
  BY DEF CaseInv, Shared, RunsStand, OneAssumptionPerKey
<1>7. \A i \in 1 .. Len(drafts') : Drafted(drafts[i])'
  BY <1>2, <1>5, DraftsStay
<1>8. ASSUME overlaps = 0
      PROVE  (RunIsOfItsSet /\ FrozenCaseRestsOnFrozen /\ FrozenStatementStands)'
  <2>1. case' = new /\ q.case = case /\ OneAtATime
    BY <1>1, <1>4, <1>8
  <2>2. RunIsOfItsSet'
    BY <2>1 DEF OneAtATime, RunIsOfItsSet
  <2>3. FrozenCaseRestsOnFrozen'
    BY <1>8, <2>1 DEF FrozenCaseRestsOnFrozen
  <2>4. FrozenStatementStands'
    BY <1>8, <2>1 DEF FrozenStatementStands
  <2> QED
    BY <2>2, <2>3, <2>4
<1>9. CaseInv'
  BY <1>1, <1>2, <1>3, <1>5, <1>6, <1>7, <1>8, WriteKeeps
<1>10. LeftAlone
  BY <1>1 DEF LeftAlone, FrozenSetKept, ClosedKept
<1> QED
  BY <1>9, <1>10

LEMMA CloseWriteKeeps ==
  ASSUME CaseInv, NEW u \in Users, CloseWrite(u), UNCHANGED actuals
  PROVE  CaseInv' /\ LeftAlone
<1>1. PICK q : q = tx[u]
  OBVIOUS
<1> DEFINE new == [q.case EXCEPT !.status = "closed"]
<1>2. /\ q.op = "close" /\ Finish(u) /\ UNCHANGED <<sets, runs, drafts, lastId>>
      /\ case' = Flushed(case, q.case, new)
  BY <1>1 DEF CloseWrite
<1>3. Carries(q) /\ q.case \in CaseRows /\ (overlaps = 0 => Fresh(q))
  BY <1>1, <1>2, OpenCarries DEF Carries, Held
<1>4. /\ new \in CaseRows /\ new.kind = q.case.kind /\ new.set = q.case.set /\ new.run = q.case.run
      /\ new.draft = q.case.draft /\ new.statement = q.case.statement /\ new.status = "closed"
  BY <1>3 DEF CaseRows, CaseStatus
<1>5. overlaps = 0 => case.status # "closed"
  BY <1>2, <1>3 DEF Fresh
<1>6. lastId' \in 0 .. MaxEntered /\ actuals' \in [Lines -> Actual]
  BY <1>2 DEF CaseInv, Shared, Tables
<1> HIDE DEF new
<1> QED
  BY <1>1, <1>2, <1>4, <1>5, <1>6, CaseWriteKeeps

LEMMA StaleFields ==
  ASSUME NEW c \in CaseRows
  PROVE  /\ Stale(c) \in CaseRows /\ Stale(c).kind = c.kind /\ Stale(c).set = c.set /\ Stale(c).run = c.run
         /\ Stale(c).draft = c.draft /\ Stale(c).status = "assumptions"
         /\ Stale(c).statement # c.statement => Rested(Stale(c).statement)
BY DEF Stale, CaseRows, CaseStatus, Statements, Rested, NoStatement

\* Both writes of the actuals make the case stale.
LEMMA ActualsWriteKeeps ==
  ASSUME CaseInv, NEW u \in Users, NEW q, q = tx[u], q.op \in {"add_actual", "remove_actual"}, Finish(u),
         UNCHANGED <<sets, runs, drafts>>, lastId' \in 0 .. MaxEntered, actuals' \in [Lines -> Actual],
         case' = Flushed(case, q.case, Stale(q.case))
  PROVE  CaseInv' /\ LeftAlone
<1>1. Carries(q) /\ q.case \in CaseRows /\ (overlaps = 0 => Fresh(q))
  BY OpenCarries DEF Carries, Held
<1> DEFINE new == Stale(q.case)
<1>2. /\ new \in CaseRows /\ new.kind = q.case.kind /\ new.set = q.case.set /\ new.run = q.case.run
      /\ new.draft = q.case.draft /\ new.status = "assumptions"
      /\ new.statement # q.case.statement => Rested(new.statement)
  BY <1>1, StaleFields
<1>3. overlaps = 0 => case.status # "closed"
  BY <1>1 DEF Fresh, Editable, Thawed
<1> HIDE DEF new
<1>4. case' = Flushed(case, q.case, new)
  BY DEF new
<1> QED
  BY <1>2, <1>3, <1>4, CaseWriteKeeps

LEMMA AddActualWriteKeeps ==
  ASSUME CaseInv, NEW u \in Users, AddActualWrite(u)
  PROVE  CaseInv' /\ LeftAlone
<1>1. PICK q : q = tx[u]
  OBVIOUS
<1>2. q.op = "add_actual" /\ Open(u) /\ Carries(q)
  BY <1>1, OpenCarries DEF AddActualWrite
<1>3. CASE RolledBack(u) /\ UNCHANGED actuals
  BY <1>2, <1>3, RolledBackKeeps
<1>4. CASE ~(RolledBack(u) /\ UNCHANGED actuals)
  <2>1. /\ lastId < MaxEntered /\ lastId' = lastId + 1
        /\ actuals' = [actuals EXCEPT ![q.line] = [id |-> lastId', figure |-> q.figure]]
        /\ case' = Flushed(case, q.case, Stale(q.case))
        /\ Finish(u) /\ UNCHANGED <<sets, runs, drafts>>
    BY <1>1, <1>4 DEF AddActualWrite
  <2>2. lastId \in 0 .. MaxEntered /\ actuals \in [Lines -> Actual]
    BY DEF CaseInv, Shared, Tables
  <2>3. lastId' \in 1 .. MaxEntered /\ lastId' \in 0 .. MaxEntered
    BY <2>1, <2>2, CaseAssumption
  <2>4. [id |-> lastId', figure |-> q.figure] \in Actual /\ q.line \in Lines
    BY <1>2, <2>3 DEF Carries, Actual
  <2>5. actuals' \in [Lines -> Actual]
    BY <2>1, <2>2, <2>4
  <2> QED
    BY <1>1, <1>2, <2>1, <2>3, <2>5, ActualsWriteKeeps
<1> QED
  BY <1>3, <1>4

LEMMA RemoveActualWriteKeeps ==
  ASSUME CaseInv, NEW u \in Users, RemoveActualWrite(u)
  PROVE  CaseInv' /\ LeftAlone
<1>1. PICK q : q = tx[u]
  OBVIOUS
<1>2. /\ q.op = "remove_actual" /\ Finish(u) /\ UNCHANGED <<sets, runs, drafts, lastId>>
      /\ actuals' = [actuals EXCEPT ![q.line] = IF actuals[q.line].id = q.id THEN NoActual ELSE actuals[q.line]]
      /\ case' = Flushed(case, q.case, Stale(q.case))
  BY <1>1 DEF RemoveActualWrite
<1>3. lastId' \in 0 .. MaxEntered /\ actuals' \in [Lines -> Actual]
  BY <1>2 DEF CaseInv, Shared, Tables, Actual
<1> QED
  BY <1>1, <1>2, <1>3, ActualsWriteKeeps

LEMMA ComputeWriteKeeps ==
  ASSUME CaseInv, NEW u \in Users, ComputeStatementWrite(u)
  PROVE  CaseInv' /\ LeftAlone
<1>1. PICK q : q = tx[u]
  OBVIOUS
<1> DEFINE made == [state |-> "computed", inputs |-> q.inputs]
           new == [q.case EXCEPT !.statement = made, !.status = "formulated"]
<1>2. /\ q.op = "compute" /\ Finish(u) /\ UNCHANGED <<sets, runs, drafts, lastId, actuals>>
      /\ case' = Flushed(case, q.case, new)
  BY <1>1 DEF ComputeStatementWrite
<1>3. Carries(q) /\ q.case \in CaseRows /\ q.inputs \in Inputs /\ (overlaps = 0 => Fresh(q))
  BY <1>1, <1>2, OpenCarries DEF Carries, Held
<1>4. made \in Statements /\ Rested(made)
  BY <1>3 DEF Statements, Rested
<1> HIDE DEF made
<1>5. /\ new \in CaseRows /\ new.kind = q.case.kind /\ new.set = q.case.set /\ new.run = q.case.run
      /\ new.draft = q.case.draft /\ new.statement = made /\ new.status = "formulated"
  BY <1>3, <1>4 DEF CaseRows, CaseStatus
<1>6. overlaps = 0 => case.status # "closed"
  BY <1>2, <1>3 DEF Fresh, Editable, Thawed
<1>7. lastId' \in 0 .. MaxEntered /\ actuals' \in [Lines -> Actual]
  BY <1>2 DEF CaseInv, Shared, Tables
<1> HIDE DEF new
<1> QED
  BY <1>1, <1>2, <1>4, <1>5, <1>6, <1>7, CaseWriteKeeps

LEMMA FreezeStatementWriteKeeps ==
  ASSUME CaseInv, NEW u \in Users, FreezeStatementWrite(u)
  PROVE  CaseInv' /\ LeftAlone
<1>1. PICK q : q = tx[u]
  OBVIOUS
<1> DEFINE made == [q.case.statement EXCEPT !.state = "frozen"]
           new == [q.case EXCEPT !.statement = made, !.status = "frozen"]
<1>2. /\ q.op = "freeze_statement" /\ Finish(u) /\ UNCHANGED <<sets, runs, drafts, lastId, actuals>>
      /\ case' = Flushed(case, q.case, new)
  BY <1>1 DEF FreezeStatementWrite
<1>3. /\ Carries(q) /\ q.case \in CaseRows /\ (overlaps = 0 => Fresh(q))
      /\ q.case.statement.state # "none" /\ Ready(q.case.statement.inputs)
  BY <1>1, <1>2, OpenCarries DEF Carries, Held
<1>4. q.case.statement \in [state : {"computed", "frozen"}, inputs : Inputs]
  BY <1>3 DEF CaseRows, Statements, NoStatement
<1>5. made \in Statements /\ made.state = "frozen" /\ made.inputs = q.case.statement.inputs
  BY <1>4 DEF Statements
<1>6. Rested(made) /\ Ready(made.inputs)
  BY <1>3, <1>5 DEF Rested
<1> HIDE DEF made
<1>7. /\ new \in CaseRows /\ new.kind = q.case.kind /\ new.set = q.case.set /\ new.run = q.case.run
      /\ new.draft = q.case.draft /\ new.statement = made /\ new.status = "frozen"
  BY <1>3, <1>5 DEF CaseRows, CaseStatus
<1>8. overlaps = 0 => /\ case.kind = "true_up" /\ case.status # "closed"
                      /\ made.inputs.actuals = actuals'
  BY <1>2, <1>3, <1>5 DEF Fresh
<1>9. lastId' \in 0 .. MaxEntered /\ actuals' \in [Lines -> Actual]
  BY <1>2 DEF CaseInv, Shared, Tables
<1> HIDE DEF new
<1>10. overlaps = 0 /\ q.case = case =>
             /\ case.status # "closed"
             /\ case.kind = "arr" => new.status \notin {"frozen", "drafted"}
             /\ case.kind = "true_up" /\ new.status \in {"frozen", "drafted"} =>
                   /\ new.statement.state = "frozen"
                   /\ new.statement.inputs.actuals = actuals' /\ Ready(new.statement.inputs)
  BY <1>5, <1>6, <1>7, <1>8
<1> QED
  BY <1>1, <1>2, <1>6, <1>7, <1>9, <1>10, CaseWriteKeeps

LEMMA ReviseTrueUpWriteKeeps ==
  ASSUME CaseInv, NEW u \in Users, ReviseTrueUpWrite(u)
  PROVE  CaseInv' /\ LeftAlone
<1>1. PICK q : q = tx[u]
  OBVIOUS
<1> DEFINE new == [q.case EXCEPT !.statement = NoStatement, !.draft = 0, !.status = "assumptions"]
<1>2. /\ q.op = "revise_true_up" /\ Finish(u) /\ UNCHANGED <<sets, runs, drafts, lastId, actuals>>
      /\ case' = Flushed(case, q.case, new)
  BY <1>1 DEF ReviseTrueUpWrite
<1>3. Carries(q) /\ q.case \in CaseRows /\ (overlaps = 0 => Fresh(q))
  BY <1>1, <1>2, OpenCarries DEF Carries, Held
<1>4. /\ new \in CaseRows /\ new.kind = q.case.kind /\ new.set = q.case.set /\ new.run = q.case.run
      /\ new.draft = 0 /\ new.status = "assumptions" /\ Rested(new.statement)
  BY <1>3 DEF CaseRows, CaseStatus, Statements, NoStatement, Rested
<1>5. overlaps = 0 => case.status # "closed"
  BY <1>2, <1>3 DEF Fresh
<1>6. lastId' \in 0 .. MaxEntered /\ actuals' \in [Lines -> Actual]
  BY <1>2 DEF CaseInv, Shared, Tables
<1> HIDE DEF new
<1> QED
  BY <1>1, <1>2, <1>4, <1>5, <1>6, CaseWriteKeeps

\* The assumptions of a set are written only while it is a draft.
LEMMA AssumptionsWriteKeeps ==
  ASSUME CaseInv, NEW u \in Users, NEW q, q = tx[u], q.op \in {"add", "remove"}, Finish(u),
         NEW rows \in SUBSET Row, OnePerKey(rows), sets' = [sets EXCEPT ![q.set].rows = rows],
         UNCHANGED <<runs, drafts, actuals>>, lastId' \in 0 .. MaxEntered,
         Held(case)', Rested(case.statement)', case'.kind = case.kind,
         overlaps = 0 /\ Fresh(q) =>
            \/ case' = case
            \/ /\ case.status # "closed" /\ case' = [case EXCEPT !.status = "assumptions"]
  PROVE  CaseInv' /\ LeftAlone
<1>1. Open(u) /\ Carries(q) /\ (overlaps = 0 => Fresh(q) /\ OneAtATime)
  BY OpenCarries
<1>2. q.set \in 1 .. Len(sets) /\ Tables /\ OneAssumptionPerKey /\ case \in CaseRows
  BY <1>1 DEF Carries, CaseInv, Shared, Held
<1>3. /\ sets' \in Seq(SetVersion) /\ Len(sets') = Len(sets)
      /\ \A i \in 1 .. Len(sets) : sets'[i].status = sets[i].status /\ (i # q.set => sets'[i] = sets[i])
      /\ OneAssumptionPerKey'
  BY <1>2, SetWritten
<1>4. Tables'
  BY <1>2, <1>3 DEF Tables, Finish
<1>5. Grows
  BY <1>2, <1>3, TablesAre DEF Grows
<1>6. \A i \in 1 .. Len(runs) : runs[i].set \in 1 .. Len(sets)
  BY <1>2 DEF Tables
<1>7. RunsStand'
  BY <1>3, <1>6 DEF CaseInv, Shared, RunsStand
<1>8. \A i \in 1 .. Len(drafts') : Drafted(drafts[i])'
  BY <1>4, <1>5, DraftsStay
<1>9. ASSUME overlaps = 0
      PROVE  /\ (RunIsOfItsSet /\ FrozenCaseRestsOnFrozen /\ FrozenStatementStands)'
             /\ FrozenSetKept /\ ClosedKept
  <2>1. OneAtATime /\ Fresh(q) /\ sets[q.set].status = "draft"
    BY <1>1, <1>9 DEF Fresh, Carries
  <2>2. \/ case' = case
        \/ case.status # "closed" /\ case' = [case EXCEPT !.status = "assumptions"]
    BY <1>9, <2>1
  <2>3. /\ case'.run = case.run /\ case'.set = case.set /\ case'.statement = case.statement
        /\ case'.status = case.status \/ case'.status = "assumptions"
    BY <1>2, <2>2 DEF CaseRows
  <2>4. RunIsOfItsSet'
    BY <2>1, <2>3 DEF OneAtATime, RunIsOfItsSet
  <2>5. case.set \in 1 .. Len(sets)
    BY DEF CaseInv, Shared, Held
  <2>6. FrozenCaseRestsOnFrozen'
    BY <1>3, <1>9, <2>1, <2>3, <2>5 DEF OneAtATime, FrozenCaseRestsOnFrozen
  <2>7. FrozenStatementStands'
    BY <1>9, <2>1, <2>3 DEF OneAtATime, FrozenStatementStands
  <2>8. FrozenSetKept
    <3> SUFFICES ASSUME NEW i \in DOMAIN runs, runs[i].status = "frozen"
                 PROVE  sets'[runs[i].set].rows = sets[runs[i].set].rows
      BY DEF FrozenSetKept
    <3>1. i \in 1 .. Len(runs) /\ runs[i].set \in 1 .. Len(sets)
      BY <1>2, <1>6, TablesAre
    <3>2. sets[runs[i].set].status = "frozen"
      BY <3>1 DEF CaseInv, Shared, RunsStand
    <3>3. runs[i].set # q.set
      BY <2>1, <3>2
    <3> QED
      BY <1>3, <3>1, <3>3
  <2>9. ClosedKept
    BY <2>2 DEF ClosedKept
  <2> QED
    BY <2>4, <2>6, <2>7, <2>8, <2>9
<1>10. CaseInv'
  BY <1>1, <1>3, <1>4, <1>5, <1>7, <1>8, <1>9, WriteKeeps
<1>11. LeftAlone
  BY <1>9 DEF LeftAlone, FrozenSetKept, ClosedKept
<1> QED
  BY <1>10, <1>11

LEMMA AddWriteKeeps ==
  ASSUME CaseInv, NEW u \in Users, AddAssumptionWrite(u), UNCHANGED actuals
  PROVE  CaseInv' /\ LeftAlone
<1>1. PICK q : q = tx[u]
  OBVIOUS
<1>2. q.op = "add" /\ Open(u) /\ Carries(q)
  BY <1>1, OpenCarries DEF AddAssumptionWrite
<1>3. CASE RolledBack(u)
  BY <1>2, <1>3, RolledBackKeeps
<1>4. CASE ~RolledBack(u)
  <2> DEFINE new == [q.case EXCEPT !.status = "assumptions"]
             rows == sets[q.set].rows \cup {[key |-> q.key, id |-> lastId']}
  <2>1. /\ UniqueIndex(q.set, q.key) /\ lastId < MaxEntered /\ lastId' = lastId + 1
        /\ sets' = [sets EXCEPT ![q.set].rows = rows]
        /\ case' = Touched(q, new)
        /\ Finish(u) /\ UNCHANGED <<runs, drafts>>
    BY <1>1, <1>4 DEF AddAssumptionWrite
  <2>2. lastId \in 0 .. MaxEntered /\ q.set \in 1 .. Len(sets) /\ q.key \in Keys /\ q.through \in BOOLEAN
        /\ q.case \in CaseRows /\ Held(q.case) /\ Held(case)
    BY <1>2 DEF CaseInv, Shared, Tables, Carries, Held
  <2>3. lastId' \in 0 .. MaxEntered
    BY <2>1, <2>2, CaseAssumption
  <2>4. sets[q.set].rows \in SUBSET Row /\ OnePerKey(sets[q.set].rows)
    BY <2>2, SetsAre
  <2>5. rows \in SUBSET Row
    BY <2>2, <2>3, <2>4 DEF Row
  <2>6. OnePerKey(rows)
    BY <2>1, <2>4 DEF OnePerKey, UniqueIndex, KeysOf
  <2>7. /\ new \in CaseRows /\ new.kind = q.case.kind /\ new.set = q.case.set /\ new.run = q.case.run
        /\ new.draft = q.case.draft /\ new.statement = q.case.statement
    BY <2>2 DEF CaseRows, CaseStatus
  <2>8. case' = case \/ case' = Flushed(case, q.case, new)
    BY <2>1 DEF Touched
  <2>o. overlaps = 0 /\ Fresh(q) =>
            \/ case' = case
            \/ /\ case.status # "closed" /\ case' = [case EXCEPT !.status = "assumptions"]
    <3> SUFFICES ASSUME Fresh(q), q.through PROVE case.status # "closed" /\ case' = [case EXCEPT !.status = "assumptions"]
      BY <2>1 DEF Touched
    <3>1. q.case = case /\ case.status # "closed"
      BY <1>2 DEF Fresh, Thawed
    <3>2. case' = Flushed(case, case, [case EXCEPT !.status = "assumptions"])
      BY <2>1, <3>1 DEF Touched
    <3>3. case \in CaseRows /\ [case EXCEPT !.status = "assumptions"] \in CaseRows
      BY <2>2, <2>7, <3>1
    <3> QED
      BY <3>1, <3>2, <3>3, FlushedSame
  <2> HIDE DEF rows, new
  <2>9. Tables' /\ Len(sets') = Len(sets)
    <3>1. sets' \in Seq(SetVersion) /\ Len(sets') = Len(sets)
      BY <2>1, <2>2, <2>5, <2>6, SetWritten DEF CaseInv, Shared
    <3> QED
      BY <2>1, <2>3, <3>1 DEF CaseInv, Shared, Tables, Finish
  <2>10. /\ Len(sets) <= Len(sets') /\ Len(runs) <= Len(runs') /\ Len(drafts) <= Len(drafts')
         /\ new.set \in 1 .. Len(sets') /\ new.run \in 0 .. Len(runs') /\ new.draft \in 0 .. Len(drafts')
    BY <2>1, <2>2, <2>7, <2>9, TablesAre DEF Held, CaseInv, Shared
  <2>11. Held(case)' /\ Rested(case.statement)' /\ case'.kind = case.kind
    BY <2>2, <2>7, <2>8, <2>9, <2>10, CaseCommits
  <2> QED
    BY <1>1, <1>2, <2>1, <2>3, <2>5, <2>6, <2>11, <2>o, AssumptionsWriteKeeps
<1> QED
  BY <1>3, <1>4

LEMMA RemoveWriteKeeps ==
  ASSUME CaseInv, NEW u \in Users, RemoveAssumptionWrite(u), UNCHANGED actuals
  PROVE  CaseInv' /\ LeftAlone
<1>1. PICK q : q = tx[u]
  OBVIOUS
<1> DEFINE rows == sets[q.set].rows \ {q.row}
<1>2. /\ q.op = "remove" /\ Finish(u) /\ UNCHANGED <<case, runs, drafts, lastId>>
      /\ sets' = [sets EXCEPT ![q.set].rows = rows]
  BY <1>1 DEF RemoveAssumptionWrite
<1>3. Carries(q) /\ q.set \in 1 .. Len(sets)
  BY <1>1, <1>2, OpenCarries DEF Carries
<1>4. rows \in SUBSET Row /\ OnePerKey(rows)
  BY <1>3, SetsAre DEF OnePerKey
<1> HIDE DEF rows
<1>5. Len(sets') = Len(sets)
  BY <1>2, <1>3, <1>4, SetWritten DEF CaseInv, Shared
<1>6. Held(case)' /\ Rested(case.statement)' /\ lastId' \in 0 .. MaxEntered
  BY <1>2, <1>5 DEF CaseInv, Shared, Held, Rested, Tables
<1> QED
  BY <1>1, <1>2, <1>4, <1>6, AssumptionsWriteKeeps

LEMMA FormulateWriteKeeps ==
  ASSUME CaseInv, NEW u \in Users, FormulateWrite(u), UNCHANGED actuals
  PROVE  CaseInv' /\ LeftAlone
<1>1. PICK q : q = tx[u]
  OBVIOUS
<1>2. /\ q.op = "formulate" /\ Open(u) /\ Carries(q) /\ Held(q.case) /\ q.case \in CaseRows
      /\ overlaps = 0 => Fresh(q) /\ OneAtATime
  BY <1>1, OpenCarries DEF FormulateWrite, Carries, Held
<1>3. CASE Len(runs) = MaxRuns
  BY <1>1, <1>2, <1>3, RolledBackKeeps DEF FormulateWrite
<1>4. CASE Len(runs) # MaxRuns
  <2> DEFINE new == [q.case EXCEPT !.run = Len(runs) + 1, !.status = "formulated"]
  <2>1. /\ runs' = Append(runs, q.run) /\ case' = Touched(q, new)
        /\ Finish(u) /\ UNCHANGED <<sets, drafts, lastId>>
    BY <1>1, <1>4 DEF FormulateWrite
  <2>2. /\ Tables /\ runs \in Seq(Run) /\ Len(runs) \in Nat /\ Len(runs) <= MaxRuns
        /\ q.run \in Run /\ q.run.set \in 1 .. Len(sets) /\ q.run.status = "draft"
        /\ Len(sets) \in Nat /\ Len(drafts) \in Nat /\ Held(case)
    BY <1>2, TablesAre DEF Carries, CaseInv, Shared, Tables
  <2>3. /\ runs' \in Seq(Run) /\ Len(runs') = Len(runs) + 1
        /\ \A i \in 1 .. Len(runs) : runs'[i] = runs[i]
        /\ runs'[Len(runs) + 1] = q.run
    BY <2>1, <2>2
  <2>4. Len(runs') <= MaxRuns
    BY <1>4, <2>2, <2>3, CaseAssumption
  <2>5. \A i \in 1 .. Len(runs') : i \in 1 .. Len(runs) \/ i = Len(runs) + 1
    BY <2>2, <2>3
  <2>6. Tables'
    BY <2>1, <2>2, <2>3, <2>4, <2>5 DEF Tables, Finish
  <2>7. /\ new \in CaseRows /\ new.kind = q.case.kind /\ new.set = q.case.set /\ new.run = Len(runs')
        /\ new.draft = q.case.draft /\ new.statement = q.case.statement /\ new.status = "formulated"
    <3>1. Len(runs) + 1 \in Nat
      BY <2>2
    <3> QED
      BY <1>2, <2>3, <3>1 DEF CaseRows, CaseStatus
  <2>8. case' = case \/ case' = Flushed(case, q.case, new)
    BY <2>1 DEF Touched
  <2> HIDE DEF new
  <2>9. /\ Len(sets) <= Len(sets') /\ Len(runs) <= Len(runs') /\ Len(drafts) <= Len(drafts')
        /\ new.set \in 1 .. Len(sets') /\ new.run \in 0 .. Len(runs') /\ new.draft \in 0 .. Len(drafts')
    BY <1>2, <2>1, <2>2, <2>3, <2>7 DEF Held
  <2>10. Held(case)' /\ Rested(case.statement)' /\ case'.kind = case.kind
    BY <1>2, <2>6, <2>7, <2>8, <2>9, CaseCommits
  <2>11. Grows
    BY <2>3, <2>9, <2>10 DEF Grows
  <2>12. RunsStand'
    BY <2>1, <2>2, <2>3, <2>5 DEF CaseInv, Shared, RunsStand
  <2>13. \A i \in 1 .. Len(drafts') : Drafted(drafts[i])'
    BY <2>1, <2>6, <2>11, DraftsStay
  <2>14. OneAssumptionPerKey'
    BY <2>1 DEF CaseInv, Shared, OneAssumptionPerKey
  <2>15. ASSUME overlaps = 0
         PROVE  (RunIsOfItsSet /\ FrozenCaseRestsOnFrozen /\ FrozenStatementStands)' /\ ClosedKept
    <3>1. q.case = case /\ OneAtATime /\ (q.through => case.kind = "arr" /\ case.status \in Thawed /\ q.run.set = case.set)
      BY <1>2, <2>15 DEF Fresh
    <3>2. CASE q.through
      <4>1. case' = new
        BY <1>2, <2>1, <2>7, <3>1, <3>2, FlushedSame DEF Touched
      <4>2. RunIsOfItsSet'
        BY <2>3, <2>7, <3>1, <3>2, <4>1 DEF RunIsOfItsSet
      <4>3. FrozenCaseRestsOnFrozen' /\ FrozenStatementStands'
        BY <2>7, <4>1 DEF FrozenCaseRestsOnFrozen, FrozenStatementStands
      <4>4. ClosedKept
        BY <3>1, <3>2 DEF ClosedKept, Thawed
      <4> QED
        BY <4>2, <4>3, <4>4
    <3>3. CASE ~q.through
      <4>1. case' = case /\ case.run \in 0 .. Len(runs)
        BY <2>1, <2>2, <3>3 DEF Touched, Held
      <4>2. case.run # 0 => runs'[case.run] = runs[case.run]
        BY <2>2, <2>3, <4>1
      <4>3. RunIsOfItsSet'
        BY <3>1, <4>1, <4>2 DEF OneAtATime, RunIsOfItsSet
      <4>4. FrozenCaseRestsOnFrozen' /\ FrozenStatementStands'
        BY <2>1, <2>15, <3>1, <4>1, <4>2 DEF OneAtATime, FrozenCaseRestsOnFrozen, FrozenStatementStands
      <4> QED
        BY <4>1, <4>3, <4>4 DEF ClosedKept
    <3> QED
      BY <1>2, <3>2, <3>3 DEF Carries
  <2>16. CaseInv'
    BY <1>2, <2>1, <2>6, <2>10, <2>11, <2>12, <2>13, <2>14, <2>15, WriteKeeps
  <2>17. LeftAlone
    BY <2>1, <2>15 DEF LeftAlone, FrozenSetKept, ClosedKept
  <2> QED
    BY <2>16, <2>17
<1> QED
  BY <1>3, <1>4

LEMMA FreezeWriteKeeps ==
  ASSUME CaseInv, NEW u \in Users, FreezeWrite(u), UNCHANGED actuals
  PROVE  CaseInv' /\ LeftAlone
<1>1. PICK q : q = tx[u]
  OBVIOUS
<1>2. /\ q.op = "freeze" /\ Open(u) /\ Carries(q) /\ Held(q.case) /\ q.case \in CaseRows
      /\ overlaps = 0 => Fresh(q) /\ OneAtATime
  BY <1>1, OpenCarries DEF FreezeWrite, Carries, Held
<1> DEFINE new == [q.case EXCEPT !.status = "frozen"]
<1>3. /\ runs' = [runs EXCEPT ![q.run].status = "frozen"]
      /\ sets' = [sets EXCEPT ![runs[q.run].set] = FrozenSet(@)]
      /\ case' = Touched(q, new)
      /\ Finish(u) /\ UNCHANGED <<drafts, lastId>>
  BY <1>1 DEF FreezeWrite
<1>4. /\ Tables /\ runs \in Seq(Run) /\ sets \in Seq(SetVersion) /\ Len(runs) \in Nat /\ Len(sets) \in Nat
      /\ Len(drafts) \in Nat /\ q.run \in 1 .. Len(runs) /\ ~runs[q.run].blocked
      /\ runs[q.run].set \in 1 .. Len(sets) /\ Held(case)
  BY <1>2, TablesAre DEF Carries, CaseInv, Shared, Tables
<1>5. PICK s \in 1 .. Len(sets) : s = runs[q.run].set
  BY <1>4
<1>6. /\ runs' \in Seq(Run) /\ Len(runs') = Len(runs)
      /\ \A i \in 1 .. Len(runs) : /\ runs'[i].set = runs[i].set /\ runs'[i].blocked = runs[i].blocked
                                   /\ runs'[i].status = IF i = q.run THEN "frozen" ELSE runs[i].status
  <2> DEFINE run == [runs[q.run] EXCEPT !.status = "frozen"]
  <2>1. runs[q.run] \in Run
    BY <1>4, ElementOfSeq
  <2>2. run \in Run /\ run.set = runs[q.run].set /\ run.blocked = runs[q.run].blocked /\ run.status = "frozen"
    BY <2>1 DEF Run
  <2>3. runs' = [runs EXCEPT ![q.run] = run]
    BY <1>3
  <2> HIDE DEF run
  <2>4. runs' \in Seq(Run) /\ Len(runs') = Len(runs)
    BY <1>4, <2>2, <2>3, ExceptSeq
  <2>5. \A i \in 1 .. Len(runs) : runs'[i] = IF i = q.run THEN run ELSE runs[i]
    BY <1>4, <2>2, <2>3, ExceptSeq
  <2> QED
    BY <2>2, <2>4, <2>5
<1>7. /\ sets' \in Seq(SetVersion) /\ Len(sets') = Len(sets)
      /\ \A i \in 1 .. Len(sets) : /\ sets'[i].rows = sets[i].rows
                                   /\ sets'[i].status = IF i = s THEN "frozen" ELSE sets[i].status
  <2> DEFINE row == FrozenSet(sets[s])
  <2>1. sets[s] \in SetVersion
    BY <1>4, ElementOfSeq
  <2>2. row \in SetVersion /\ row.rows = sets[s].rows /\ row.status = "frozen"
    BY <2>1 DEF SetVersion, FrozenSet
  <2>3. sets' = [sets EXCEPT ![s] = row]
    BY <1>3, <1>5
  <2> HIDE DEF row
  <2>4. sets' \in Seq(SetVersion) /\ Len(sets') = Len(sets)
    BY <1>4, <2>2, <2>3, ExceptSeq
  <2>5. \A i \in 1 .. Len(sets) : sets'[i] = IF i = s THEN row ELSE sets[i]
    BY <1>4, <2>2, <2>3, ExceptSeq
  <2> QED
    BY <2>2, <2>4, <2>5
<1>8. Tables'
  BY <1>3, <1>4, <1>6, <1>7 DEF Tables, Finish
<1>9. /\ new \in CaseRows /\ new.kind = q.case.kind /\ new.set = q.case.set /\ new.run = q.case.run
      /\ new.draft = q.case.draft /\ new.statement = q.case.statement /\ new.status = "frozen"
  BY <1>2 DEF CaseRows, CaseStatus
<1>10. case' = case \/ case' = Flushed(case, q.case, new)
  BY <1>3 DEF Touched
<1> HIDE DEF new
<1>11. /\ Len(sets) <= Len(sets') /\ Len(runs) <= Len(runs') /\ Len(drafts) <= Len(drafts')
       /\ new.set \in 1 .. Len(sets') /\ new.run \in 0 .. Len(runs') /\ new.draft \in 0 .. Len(drafts')
  BY <1>2, <1>3, <1>4, <1>6, <1>7, <1>9 DEF Held
<1>12. Held(case)' /\ Rested(case.statement)' /\ case'.kind = case.kind
  BY <1>2, <1>8, <1>9, <1>10, <1>11, CaseCommits
<1>13. Grows
  BY <1>6, <1>11, <1>12 DEF Grows
<1>14. \A i \in 1 .. Len(runs) : runs[i].set \in 1 .. Len(sets)
  BY <1>4 DEF Tables
<1>15. RunsStand'
  <2>1. SUFFICES ASSUME NEW i \in 1 .. Len(runs), runs'[i].status = "frozen"
                 PROVE  ~runs'[i].blocked /\ sets'[runs'[i].set].status = "frozen"
    BY <1>6 DEF RunsStand
  <2>2. CASE i = q.run
    <3>1. ~runs'[i].blocked /\ runs'[i].set = s
      BY <1>4, <1>5, <1>6, <2>2
    <3>2. sets'[s].status = "frozen"
      BY <1>7
    <3> QED
      BY <3>1, <3>2
  <2>3. CASE i # q.run
    <3>1. runs[i].status = "frozen" /\ runs'[i].blocked = runs[i].blocked /\ runs'[i].set = runs[i].set
      BY <1>6, <2>1, <2>3
    <3>2. ~runs[i].blocked /\ sets[runs[i].set].status = "frozen"
      BY <3>1 DEF CaseInv, Shared, RunsStand
    <3>3. sets'[runs[i].set].status = "frozen"
      BY <1>7, <1>14, <3>2
    <3> QED
      BY <3>1, <3>2, <3>3
  <2> QED
    BY <2>2, <2>3
<1>16. \A i \in 1 .. Len(drafts') : Drafted(drafts[i])'
  BY <1>3, <1>8, <1>13, DraftsStay
<1>17. OneAssumptionPerKey'
  <2>1. DOMAIN sets' = 1 .. Len(sets) /\ DOMAIN sets = 1 .. Len(sets)
    BY <1>4, <1>7
  <2> QED
    BY <1>7, <2>1 DEF CaseInv, Shared, OneAssumptionPerKey
<1>18. FrozenSetKept
  <2>1. DOMAIN runs = 1 .. Len(runs)
    BY <1>4
  <2> QED
    BY <1>7, <1>14, <2>1 DEF FrozenSetKept
<1>19. ASSUME overlaps = 0
       PROVE  (RunIsOfItsSet /\ FrozenCaseRestsOnFrozen /\ FrozenStatementStands)' /\ ClosedKept
  <2>1. /\ q.case = case /\ OneAtATime
        /\ q.through => case.kind = "arr" /\ case.status = "formulated" /\ q.run = case.run
    BY <1>2, <1>19 DEF Fresh
  <2>2. case' = case \/ (q.through /\ case' = new)
    BY <1>2, <1>3, <1>9, <2>1, FlushedSame DEF Touched
  <2>3. case'.kind = case.kind /\ case'.run = case.run /\ case'.set = case.set /\ case'.statement = case.statement
    BY <1>9, <2>1, <2>2
  <2>4. case.run \in 0 .. Len(runs) /\ case.set \in 1 .. Len(sets)
    BY <1>4 DEF Held
  <2>5. RunIsOfItsSet'
    BY <1>4, <1>6, <2>1, <2>3, <2>4 DEF OneAtATime, RunIsOfItsSet
  <2>6. FrozenCaseRestsOnFrozen'
    <3>1. CASE q.through /\ case' = new
      <4>1. case.run = q.run /\ case.run # 0 /\ runs[case.run].set = case.set /\ s = case.set
        BY <1>4, <1>5, <2>1, <3>1 DEF OneAtATime, RunIsOfItsSet
      <4>2. /\ runs'[case.run].status = "frozen" /\ ~runs'[case.run].blocked
            /\ runs'[case.run].set = case.set /\ sets'[case.set].status = "frozen"
        BY <1>4, <1>6, <1>7, <2>4, <4>1
      <4> QED
        BY <2>3, <4>1, <4>2 DEF FrozenCaseRestsOnFrozen
    <3>2. CASE case' = case
      <4>1. SUFFICES ASSUME case.kind = "arr", case.status \in {"frozen", "drafted"}
                     PROVE  /\ case.run # 0
                            /\ runs'[case.run].status = "frozen" /\ ~runs'[case.run].blocked
                            /\ runs'[case.run].set = case.set /\ sets'[case.set].status = "frozen"
        BY <3>2 DEF FrozenCaseRestsOnFrozen
      <4>2. /\ case.run # 0 /\ case.run \in 1 .. Len(runs)
            /\ runs[case.run].status = "frozen" /\ ~runs[case.run].blocked
            /\ runs[case.run].set = case.set /\ sets[case.set].status = "frozen"
        BY <1>4, <1>19, <2>1, <2>4, <4>1 DEF OneAtATime, FrozenCaseRestsOnFrozen
      <4> QED
        BY <1>6, <1>7, <2>4, <4>2
    <3> QED
      BY <2>2, <3>1, <3>2
  <2>7. FrozenStatementStands'
    BY <1>19, <2>1, <2>2, <2>3 DEF OneAtATime, FrozenStatementStands
  <2>8. ClosedKept
    BY <2>1, <2>2 DEF ClosedKept
  <2> QED
    BY <2>5, <2>6, <2>7, <2>8
<1>20. CaseInv'
  BY <1>2, <1>3, <1>8, <1>12, <1>13, <1>15, <1>16, <1>17, <1>19, WriteKeeps
<1> QED
  BY <1>18, <1>19, <1>20 DEF LeftAlone, ClosedKept

LEMMA DraftWriteKeeps ==
  ASSUME CaseInv, NEW u \in Users, DraftWrite(u), UNCHANGED actuals
  PROVE  CaseInv' /\ LeftAlone
<1>1. PICK q : q = tx[u]
  OBVIOUS
<1>2. /\ q.op = "draft" /\ Open(u) /\ Carries(q) /\ Held(q.case) /\ q.case \in CaseRows /\ Drafted(q.draft)
      /\ overlaps = 0 => Fresh(q) /\ OneAtATime
  BY <1>1, OpenCarries DEF DraftWrite, Carries, Held
<1>3. CASE Len(drafts) = MaxDrafts
  BY <1>1, <1>2, <1>3, RolledBackKeeps DEF DraftWrite
<1>4. CASE Len(drafts) # MaxDrafts
  <2> DEFINE new == [q.case EXCEPT !.draft = Len(drafts) + 1, !.status = "drafted"]
  <2>1. /\ drafts' = Append(drafts, q.draft) /\ case' = Touched(q, new)
        /\ Finish(u) /\ UNCHANGED <<sets, runs, lastId>>
    BY <1>1, <1>4 DEF DraftWrite
  <2>2. /\ Tables /\ drafts \in Seq(DraftRows) /\ Len(drafts) \in Nat /\ Len(drafts) <= MaxDrafts
        /\ q.draft \in DraftRows /\ Len(sets) \in Nat /\ Len(runs) \in Nat /\ Held(case)
    BY <1>2, TablesAre DEF Drafted, CaseInv, Shared, Tables
  <2>3. /\ drafts' \in Seq(DraftRows) /\ Len(drafts') = Len(drafts) + 1
        /\ \A i \in 1 .. Len(drafts) : drafts'[i] = drafts[i]
        /\ drafts'[Len(drafts) + 1] = q.draft
    BY <2>1, <2>2
  <2>4. Len(drafts') <= MaxDrafts
    BY <1>4, <2>2, <2>3, CaseAssumption
  <2>5. Tables'
    BY <2>1, <2>2, <2>3, <2>4 DEF Tables, Finish
  <2>6. /\ new \in CaseRows /\ new.kind = q.case.kind /\ new.set = q.case.set /\ new.run = q.case.run
        /\ new.draft = Len(drafts') /\ new.statement = q.case.statement /\ new.status = "drafted"
    <3>1. Len(drafts) + 1 \in Nat
      BY <2>2
    <3> QED
      BY <1>2, <2>3, <3>1 DEF CaseRows, CaseStatus
  <2>7. case' = case \/ case' = Flushed(case, q.case, new)
    BY <2>1 DEF Touched
  <2> HIDE DEF new
  <2>8. /\ Len(sets) <= Len(sets') /\ Len(runs) <= Len(runs') /\ Len(drafts) <= Len(drafts')
        /\ new.set \in 1 .. Len(sets') /\ new.run \in 0 .. Len(runs') /\ new.draft \in 0 .. Len(drafts')
    BY <1>2, <2>1, <2>2, <2>3, <2>6 DEF Held
  <2>9. Held(case)' /\ Rested(case.statement)' /\ case'.kind = case.kind
    BY <1>2, <2>5, <2>6, <2>7, <2>8, CaseCommits
  <2>10. Grows
    BY <2>1, <2>8, <2>9 DEF Grows
  <2>11. RunsStand' /\ OneAssumptionPerKey'
    BY <2>1 DEF CaseInv, Shared, RunsStand, OneAssumptionPerKey
  <2>12. \A i \in 1 .. Len(drafts') : Drafted(drafts[i])'
    <3> SUFFICES ASSUME NEW i \in 1 .. Len(drafts') PROVE Drafted(drafts[i])'
      OBVIOUS
    <3>1. PICK d : d = drafts'[i]
      OBVIOUS
    <3>2. i \in 1 .. Len(drafts) \/ i = Len(drafts) + 1
      BY <2>2, <2>3
    <3>3. Drafted(d)
      BY <1>2, <2>3, <3>1, <3>2 DEF CaseInv, Shared
    <3>4. Drafted(d)'
      BY <2>2, <2>5, <2>10, <3>3, DraftedStays
    <3> QED
      BY <3>1, <3>4
  <2>13. ASSUME overlaps = 0
         PROVE  (RunIsOfItsSet /\ FrozenCaseRestsOnFrozen /\ FrozenStatementStands)' /\ ClosedKept
    <3>1. q.case = case /\ OneAtATime /\ (q.through => case.status \in {"frozen", "drafted"})
      BY <1>2, <2>13 DEF Fresh
    <3>2. case' = case \/ (q.through /\ case' = new)
      BY <1>2, <2>1, <2>6, <3>1, FlushedSame DEF Touched
    <3>3. /\ case'.kind = case.kind /\ case'.run = case.run /\ case'.set = case.set
          /\ case'.statement = case.statement
          /\ case'.status \in {"frozen", "drafted"} => case.status \in {"frozen", "drafted"}
      BY <2>6, <3>1, <3>2
    <3>4. RunIsOfItsSet' /\ FrozenCaseRestsOnFrozen'
      BY <2>1, <2>13, <3>1, <3>3 DEF OneAtATime, RunIsOfItsSet, FrozenCaseRestsOnFrozen
    <3>5. FrozenStatementStands'
      BY <2>1, <2>13, <3>1, <3>3 DEF OneAtATime, FrozenStatementStands
    <3>6. ClosedKept
      BY <3>1, <3>2 DEF ClosedKept
    <3> QED
      BY <3>4, <3>5, <3>6
  <2>14. CaseInv'
    BY <1>2, <2>1, <2>5, <2>9, <2>10, <2>11, <2>12, <2>13, WriteKeeps
  <2>15. LeftAlone
    BY <2>1, <2>13 DEF LeftAlone, FrozenSetKept, ClosedKept
  <2> QED
    BY <2>14, <2>15
<1> QED
  BY <1>3, <1>4

LEMMA ReviseWriteKeeps ==
  ASSUME CaseInv, NEW u \in Users, ReviseWrite(u), UNCHANGED actuals
  PROVE  CaseInv' /\ LeftAlone
<1>1. PICK q : q = tx[u]
  OBVIOUS
<1>2. /\ q.op = "revise" /\ Open(u) /\ Carries(q) /\ Held(q.case) /\ q.case \in CaseRows
      /\ q.version \in 1 .. MaxSets /\ q.rows \in SUBSET Row /\ OnePerKey(q.rows)
      /\ overlaps = 0 => Fresh(q) /\ OneAtATime
  BY <1>1, OpenCarries DEF ReviseWrite, Carries, Held
<1>3. CASE q.version # Len(sets) + 1
  BY <1>1, <1>2, <1>3, RolledBackKeeps DEF ReviseWrite
<1>4. CASE q.version = Len(sets) + 1
  <2> DEFINE new == Revised(q.case, q.version)
             row == [status |-> "draft", rows |-> q.rows]
  <2>1. /\ sets' = Append(sets, row) /\ case' = Flushed(case, q.case, new)
        /\ Finish(u) /\ UNCHANGED <<runs, drafts, lastId>>
    BY <1>1, <1>4 DEF ReviseWrite
  <2>2. /\ Tables /\ sets \in Seq(SetVersion) /\ Len(sets) \in Nat /\ Len(runs) \in Nat /\ Len(drafts) \in Nat
        /\ row \in SetVersion /\ row.rows = q.rows /\ Held(case)
    BY <1>2, TablesAre DEF CaseInv, Shared, Tables, SetVersion
  <2>3. /\ new \in CaseRows /\ new.kind = q.case.kind /\ new.set = q.version /\ new.run = 0 /\ new.draft = 0
        /\ new.statement = q.case.statement /\ new.status = "assumptions"
    <3>1. q.version \in Nat
      BY <1>2, CaseAssumption
    <3> QED
      BY <1>2, <3>1 DEF Revised, CaseRows, CaseStatus
  <2> HIDE DEF new, row
  <2>4. /\ sets' \in Seq(SetVersion) /\ Len(sets') = q.version
        /\ DOMAIN sets' = 1 .. Len(sets) + 1 /\ DOMAIN sets = 1 .. Len(sets)
        /\ \A i \in 1 .. Len(sets) : sets'[i] = sets[i]
        /\ sets'[Len(sets) + 1] = row
    BY <1>4, <2>1, <2>2
  <2>5. Len(sets') <= MaxSets /\ Len(sets) < Len(sets') /\ Len(sets') \in Nat
    BY <1>2, <1>4, <2>2, <2>4, CaseAssumption
  <2>6. \A i \in 1 .. Len(runs) : runs[i].set \in 1 .. Len(sets) /\ runs[i].set \in 1 .. Len(sets')
    <3>1. \A i \in 1 .. Len(runs) : runs[i].set \in 1 .. Len(sets)
      BY <2>2 DEF Tables
    <3> QED
      BY <2>2, <2>5, <3>1
  <2>7. Tables'
    BY <2>1, <2>2, <2>4, <2>5, <2>6 DEF Tables, Finish
  <2>8. /\ Len(sets) <= Len(sets') /\ Len(runs) <= Len(runs') /\ Len(drafts) <= Len(drafts')
        /\ new.set \in 1 .. Len(sets') /\ new.run \in 0 .. Len(runs') /\ new.draft \in 0 .. Len(drafts')
    BY <1>4, <2>1, <2>2, <2>3, <2>4, <2>5
  <2>9. Held(case)' /\ Rested(case.statement)' /\ case'.kind = case.kind
    BY <1>2, <2>1, <2>3, <2>7, <2>8, CaseCommits
  <2>10. Grows
    BY <2>1, <2>8, <2>9 DEF Grows
  <2>11. RunsStand'
    BY <2>1, <2>4, <2>6 DEF CaseInv, Shared, RunsStand
  <2>12. \A i \in 1 .. Len(drafts') : Drafted(drafts[i])'
    BY <2>1, <2>7, <2>10, DraftsStay
  <2>13. OneAssumptionPerKey'
    <3> SUFFICES ASSUME NEW i \in 1 .. Len(sets) + 1 PROVE OnePerKey(sets'[i].rows)
      BY <2>4 DEF OneAssumptionPerKey, OnePerKey
    <3>1. i \in 1 .. Len(sets) \/ i = Len(sets) + 1
      BY <2>2
    <3> QED
      BY <1>2, <2>2, <2>4, <3>1 DEF CaseInv, Shared, OneAssumptionPerKey, OnePerKey
  <2>14. ASSUME overlaps = 0
         PROVE  (RunIsOfItsSet /\ FrozenCaseRestsOnFrozen /\ FrozenStatementStands)' /\ ClosedKept
    <3>1. q.case = case /\ case.kind = "arr" /\ case.status \in {"frozen", "drafted"}
      BY <1>2, <2>14 DEF Fresh
    <3>2. case' = new
      BY <1>2, <2>1, <2>3, <3>1, FlushedSame
    <3> QED
      BY <2>3, <3>1, <3>2 DEF RunIsOfItsSet, FrozenCaseRestsOnFrozen, FrozenStatementStands, ClosedKept
  <2>15. CaseInv'
    BY <1>2, <2>1, <2>7, <2>9, <2>10, <2>11, <2>12, <2>13, <2>14, WriteKeeps
  <2>16. FrozenSetKept
    <3>1. DOMAIN runs = 1 .. Len(runs)
      BY <2>2, TablesAre
    <3> QED
      BY <2>4, <2>6, <3>1 DEF FrozenSetKept
  <2> QED
    BY <2>14, <2>15, <2>16 DEF LeftAlone, ClosedKept
<1> QED
  BY <1>3, <1>4

LEMMA PublishKeeps ==
  ASSUME CaseInv, NEW l \in Lines, Publish(l), UNCHANGED actuals
  PROVE  CaseInv' /\ LeftAlone
<1>1. UNCHANGED <<overlaps, case, sets, runs, drafts, lastId, tx, actuals>>
  BY DEF Publish
<1>2. facts' \in Base
  <2>1. facts \in Base /\ facts[l] \in Nat /\ facts[l] < MaxPublished
    BY CaseAssumption DEF CaseInv, Shared, Tables, Base, Publish
  <2>2. facts[l] + 1 \in 0 .. MaxPublished
    BY <2>1, CaseAssumption
  <2> QED
    BY <2>1, <2>2 DEF Publish, Base
<1>3. Tables' /\ Grows
  BY <1>1, <1>2, TablesAre DEF CaseInv, Shared, Tables, Grows
<1>4. Held(case)' /\ Rested(case.statement)' /\ RunsStand' /\ OneAssumptionPerKey'
  BY <1>1 DEF CaseInv, Shared, Held, Rested, RunsStand, OneAssumptionPerKey
<1>5. \A i \in 1 .. Len(drafts') : Drafted(drafts[i])'
  BY <1>1, <1>3, DraftsStay
<1>6. \A u \in Users : Open(u)' => Carries(tx[u])'
  <2> SUFFICES ASSUME NEW u \in Users, Open(u) PROVE Carries(tx[u])'
    BY <1>1 DEF Open
  <2>1. PICK p : p = tx[u]
    OBVIOUS
  <2>2. Carries(p)
    BY <2>1 DEF CaseInv, Shared
  <2>3. Carries(p)'
    BY <1>3, <2>2, CarriesStays DEF CaseInv, Shared
  <2> QED
    BY <1>1, <2>1, <2>3
<1>7. Shared'
  BY <1>1, <1>3, <1>4, <1>5, <1>6 DEF CaseInv, Shared
<1>8. ASSUME overlaps = 0 PROVE OneAtATime'
  <2>1. OneAtATime
    BY <1>8 DEF CaseInv
  <2>2. \A u \in Users : Open(u)' => Fresh(tx[u])'
    BY <1>1, <2>1 DEF OneAtATime, Open, Fresh, Editable
  <2>3. (RunIsOfItsSet /\ FrozenCaseRestsOnFrozen /\ FrozenStatementStands)'
    BY <1>1, <1>8, <2>1 DEF OneAtATime, RunIsOfItsSet, FrozenCaseRestsOnFrozen, FrozenStatementStands
  <2> QED
    BY <1>1, <2>1, <2>2, <2>3 DEF OneAtATime, Open
<1> QED
  BY <1>1, <1>7, <1>8 DEF CaseInv, LeftAlone, FrozenSetKept, ClosedKept

-----------------------------------------------------------------------------
(* The case as a whole.                                                    *)

LEMMA InitEstablishesCase == TrueUpInit => CaseInv
<1> SUFFICES ASSUME TrueUpInit PROVE CaseInv
  OBVIOUS
<1>1. PICK kind \in Kinds : case = [kind |-> kind, status |-> "setup", set |-> 1, run |-> 0, draft |-> 0,
                                    statement |-> NoStatement]
  BY DEF TrueUpInit, Init
<1>2. PICK copied \in SUBSET Keys :
          sets = <<[status |-> "draft", rows |-> {[key |-> k, id |-> 0] : k \in copied}]>>
  BY DEF TrueUpInit, Init
<1> DEFINE rows == {[key |-> k, id |-> 0] : k \in copied}
           row == [status |-> "draft", rows |-> rows]
<1>3. rows \in SUBSET Row /\ OnePerKey(rows)
  BY CaseAssumption DEF Row, OnePerKey
<1> HIDE DEF rows
<1>4. row \in SetVersion /\ row.rows = rows
  BY <1>3 DEF SetVersion
<1>5. sets = <<row>>
  BY <1>2 DEF rows
<1> HIDE DEF row
<1>6. sets \in Seq(SetVersion) /\ Len(sets) = 1 /\ sets[1] = row /\ DOMAIN sets = {1}
  BY <1>4, <1>5
<1>7. runs = <<>> /\ drafts = <<>> /\ <<>> \in Seq(Run) /\ <<>> \in Seq(DraftRows)
  BY EmptySeq DEF TrueUpInit, Init
<1>8. Len(runs) = 0 /\ Len(drafts) = 0 /\ runs \in Seq(Run) /\ drafts \in Seq(DraftRows)
  BY <1>7
<1>9. facts \in Base /\ actuals \in [Lines -> Actual]
  BY CaseAssumption DEF TrueUpInit, Init, Base, Actual
<1>10. overlaps = 0 /\ lastId = 0 /\ tx = [u \in Users |-> NoRequest]
  BY DEF TrueUpInit, Init
<1>11. Tables
  BY <1>6, <1>8, <1>9, <1>10, CaseAssumption DEF Tables
<1>12. /\ case \in CaseRows /\ case.set = 1 /\ case.run = 0 /\ case.draft = 0 /\ case.status = "setup"
       /\ case.statement.state = "none"
  BY <1>1 DEF CaseRows, CaseStatus, Statements, NoStatement
<1>13. Held(case) /\ Rested(case.statement)
  BY <1>6, <1>8, <1>12 DEF Held, Rested
<1>14. RunsStand /\ OneAssumptionPerKey
  BY <1>3, <1>4, <1>6, <1>8 DEF RunsStand, OneAssumptionPerKey, OnePerKey
<1>15. DOMAIN tx = Users /\ \A u \in Users : ~Open(u)
  BY <1>10 DEF Open
<1>16. Shared
  BY <1>8, <1>11, <1>13, <1>14, <1>15 DEF Shared
<1>17. OneAtATime
  BY <1>12, <1>15 DEF OneAtATime, RunIsOfItsSet, FrozenCaseRestsOnFrozen, FrozenStatementStands
<1> QED
  BY <1>16, <1>17 DEF CaseInv

LEMMA StepKeepsCase == CaseInv /\ [Next]_vars => CaseInv' /\ [LeftAlone]_vars
<1> SUFFICES ASSUME CaseInv, [Next]_vars PROVE CaseInv' /\ [LeftAlone]_vars
  OBVIOUS
<1> DEFINE Goal == CaseInv' /\ LeftAlone
<1>1. ASSUME NEW u \in Users, NEW s \in DOMAIN sets, NEW through \in BOOLEAN, UNCHANGED actuals,
             (\E k \in Keys : AddAssumptionRead(u, k, s, through)) \/ FormulateRead(u, s, through)
      PROVE  Goal
  BY <1>1, BeginAdd, BeginFormulate
<1>2. ASSUME NEW u \in Users, NEW row \in Row, RemoveAssumptionRead(u, row), UNCHANGED actuals PROVE Goal
  BY <1>2, BeginRemove
<1>3. ASSUME NEW u \in Users, NEW i \in DOMAIN runs, NEW through \in BOOLEAN, UNCHANGED actuals,
             FreezeRead(u, i, through) \/ DraftRead(u, i, through)
      PROVE  Goal
  BY <1>3, BeginFreeze, BeginDraft
<1>4. ASSUME NEW u \in Users, UNCHANGED actuals, ReviseRead(u) \/ CloseRead(u) PROVE Goal
  BY <1>4, BeginRevise, BeginClose
<1>5. ASSUME NEW u \in Users, UNCHANGED actuals,
             \/ AddAssumptionWrite(u) \/ RemoveAssumptionWrite(u) \/ FormulateWrite(u)
             \/ FreezeWrite(u) \/ DraftWrite(u) \/ ReviseWrite(u) \/ CloseWrite(u)
      PROVE  Goal
  BY <1>5, AddWriteKeeps, RemoveWriteKeeps, FormulateWriteKeeps, FreezeWriteKeeps, DraftWriteKeeps,
     ReviseWriteKeeps, CloseWriteKeeps
<1>6. ASSUME CaseStep, UNCHANGED actuals PROVE Goal
  <2> HIDE DEF Goal
  <2> QED
    BY <1>1, <1>2, <1>3, <1>4, <1>5, <1>6, PublishKeeps DEF CaseStep, Goal
<1>7. ASSUME NEW u \in Users,
             \/ \E l \in Lines : RemoveActualRead(u, l) \/ \E f \in Figures : AddActualRead(u, l, f)
             \/ ComputeStatementRead(u) \/ FreezeStatementRead(u)
             \/ DraftTrueUpRead(u) \/ ReviseTrueUpRead(u)
      PROVE  Goal
  BY <1>7, BeginAddActual, BeginRemoveActual, BeginCompute, BeginFreezeStatement, BeginDraftTrueUp,
     BeginReviseTrueUp
<1>8. ASSUME NEW u \in Users,
             \/ AddActualWrite(u) \/ RemoveActualWrite(u) \/ ComputeStatementWrite(u)
             \/ FreezeStatementWrite(u) \/ ReviseTrueUpWrite(u)
      PROVE  Goal
  BY <1>8, AddActualWriteKeeps, RemoveActualWriteKeeps, ComputeWriteKeeps, FreezeStatementWriteKeeps,
     ReviseTrueUpWriteKeeps
<1>9. CASE Next
  BY <1>6, <1>7, <1>8, <1>9 DEF Next
<1>10. CASE UNCHANGED vars
  <2>1. UNCHANGED <<overlaps, facts, case, sets, runs, drafts, lastId, tx, actuals>>
    BY <1>10 DEF vars, caseVars
  <2>2. (Tables /\ Held(case) /\ Rested(case.statement) /\ RunsStand /\ OneAssumptionPerKey)'
    BY <2>1 DEF CaseInv, Shared, Tables, Held, Rested, RunsStand, OneAssumptionPerKey
  <2>3. (\A i \in 1 .. Len(drafts) : Drafted(drafts[i]))'
    BY <2>1 DEF CaseInv, Shared, Drafted
  <2>4. (DOMAIN tx = Users /\ \A u \in Users : Open(u) => Carries(tx[u]))'
    BY <2>1 DEF CaseInv, Shared, Open, Carries, Held, Drafted
  <2>5. ASSUME overlaps' = 0 PROVE OneAtATime'
    <3>1. (\A u, v \in Users : Open(u) /\ Open(v) => u = v)'
      BY <2>1, <2>5 DEF CaseInv, OneAtATime, Open
    <3>2. (\A u \in Users : Open(u) => Fresh(tx[u]))'
      BY <2>1, <2>5 DEF CaseInv, OneAtATime, Open, Fresh, Editable
    <3>3. (RunIsOfItsSet /\ FrozenCaseRestsOnFrozen /\ FrozenStatementStands)'
      BY <2>1, <2>5 DEF CaseInv, OneAtATime, RunIsOfItsSet, FrozenCaseRestsOnFrozen, FrozenStatementStands
    <3> QED
      BY <3>1, <3>2, <3>3 DEF OneAtATime
  <2>6. CaseInv'
    BY <2>2, <2>3, <2>4, <2>5 DEF CaseInv, Shared
  <2> QED
    BY <1>10, <2>6
<1> QED
  BY <1>9, <1>10

LEMMA CaseInvariant == Spec => []CaseInv
BY InitEstablishesCase, StepKeepsCase, PTL DEF Spec

\* Every table of a case stays well typed and within what its columns refer to, however requests
\* overlap (arr_cases, arr_assumption_sets, arr_formulations, arr_actuals).
THEOREM CaseTypeCorrect == Spec => []TrueUpTypeOK
<1>1. CaseInv => TrueUpTypeOK
  <2> SUFFICES ASSUME CaseInv PROVE TrueUpTypeOK
    OBVIOUS
  <2>1. /\ case \in CaseRows /\ case.set \in 1 .. Len(sets) /\ case.run \in 0 .. Len(runs)
        /\ case.draft \in 0 .. Len(drafts)
    BY DEF CaseInv, Shared, Held
  <2>2. /\ DOMAIN sets = 1 .. Len(sets) /\ DOMAIN runs = 1 .. Len(runs) /\ DOMAIN drafts = 1 .. Len(drafts)
        /\ Len(runs) \in Nat /\ Len(drafts) \in Nat
    BY TablesAre DEF CaseInv, Shared
  <2>3. case.set \in DOMAIN sets /\ case.run \in {0} \cup DOMAIN runs /\ case.draft \in {0} \cup DOMAIN drafts
    BY <2>1, <2>2
  <2>4. case.statement.state \in {"none", "computed", "frozen"} /\ case.kind \in Kinds /\ case.status \in CaseStatus
    BY <2>1 DEF CaseRows, Statements, NoStatement
  <2> QED
    BY <2>3, <2>4 DEF TrueUpTypeOK, CaseInv, Shared, Tables
<1> QED
  BY <1>1, CaseInvariant, PTL

\* However requests overlap, a draft is only rendered from a frozen and unblocked formulation, or
\* from a statement that was ready and of the figures of the day (generate_draft, draft_true_up).
THEOREM CaseDraftsRest == Spec => []DraftsRest
<1>1. CaseInv => DraftsRest
  <2> SUFFICES ASSUME CaseInv PROVE DraftsRest
    OBVIOUS
  <2>1. DOMAIN drafts = 1 .. Len(drafts)
    BY TablesAre DEF CaseInv, Shared
  <2> QED
    BY <2>1 DEF CaseInv, Shared, Drafted, DraftsRest, DraftsRestOnFrozen, DraftsAreOfLiveStatements
<1> QED
  BY <1>1, CaseInvariant, PTL

\* A frozen case rests on inputs frozen with it as long as requests come one at a time, and a set
\* holds one assumption per key even when they overlap (freeze, freeze_formulation, revise).
THEOREM CaseFrozenStands == Spec => []FrozenStands
<1>1. CaseInv => FrozenStands
  BY DEF CaseInv, Shared, OneAtATime, FrozenStands, FrozenCaseRestsOnFrozen, FrozenStatementStands
<1> QED
  BY <1>1, CaseInvariant, PTL

\* As long as requests come one at a time, none changes the assumptions of a frozen formulation or
\* a closed case (add_assumption, remove_assumption, freeze_formulation, update_case).
THEOREM CaseFrozenIsLeftAlone == Spec => FrozenIsLeftAlone
BY CaseInvariant, StepKeepsCase, PTL DEF Spec, FrozenIsLeftAlone
=============================================================================
