---------------------------- MODULE FindingProofs ----------------------------
(***************************************************************************)
(* What the review works from, for any candidates in any number: the queue *)
(* and the checklist of an order, what the validators find of its slabs    *)
(* and of the bands of its day, and the findings that reach a row.  What   *)
(* these computations promise of every input is proved of Worklist and     *)
(* Validators; that they keep it in MCFindings follows.                    *)
(*                                                                         *)
(* The queue is in order because its ranks are a strict total order: the   *)
(* place of a candidate is one more than the number of those before it,    *)
(* and the places of a finite set fill an interval (PlacesFill).  The same *)
(* order of the slabs of a group gives the later of two slabs that share a *)
(* quantity a neighbour that holds it too (OneBefore).  Sums over items    *)
(* and over bands count a union of parts that are apart (SumOfDisjoint).   *)
(***************************************************************************)
EXTENDS MCFindings, FillProofs, FunctionTheorems

-----------------------------------------------------------------------------
(* Sums and orders.                                                        *)

Union(f, s) == UNION {f[x] : x \in s}

\* A sum over parts that have nothing in common counts their union.
LEMMA SumOfDisjoint ==
  ASSUME NEW S, IsFiniteSet(S), NEW R, IsFiniteSet(R), NEW f \in [S -> SUBSET R],
         \A s, t \in S : s # t => f[s] \cap f[t] = {}
  PROVE  SumFunction([s \in S |-> Cardinality(f[s])]) = Cardinality(Union(f, S))
<1> DEFINE h == [s \in S |-> Cardinality(f[s])]
           g == CHOOSE g : Adds(g, h, S)
<1>0. \A s \in S : IsFiniteSet(f[s]) /\ Cardinality(f[s]) \in Nat
  <2> SUFFICES ASSUME NEW s \in S PROVE IsFiniteSet(f[s]) /\ Cardinality(f[s]) \in Nat
    OBVIOUS
  <2>1. f[s] \in SUBSET R
    OBVIOUS
  <2> QED
    BY <2>1, FS_Subset, FS_CardinalityType
<1>1. Adds(g, h, S)
  <2>1. h \in [S -> Int]
    BY <1>0
  <2> HIDE DEF h
  <2> QED
    BY <2>1, SumExists
<1>2. SumFunction(h) = g[S]
  <2> HIDE DEF h
  <2>1. DOMAIN h = S
    BY DEF h
  <2> QED
    BY <2>1, SumUnfolds
<1> DEFINE Good == {s \in SUBSET S : g[s] = Cardinality(Union(f, s))}
<1> HIDE DEF g
<1>3. {} \in Good
  <2>1. Union(f, {}) = {} /\ g[{}] = 0
    BY <1>1 DEF Adds, Union
  <2> QED
    BY <2>1, FS_EmptySet
<1>4. Picks(Chosen(S), S) /\ \A s \in SUBSET S : Chosen(S)[s] = CHOOSE x \in s : TRUE
  BY DEF Picks, Chosen
<1>5. \A s \in SUBSET S : s # {} /\ s \ {Chosen(S)[s]} \in Good => s \in Good
  <2> SUFFICES ASSUME NEW s \in SUBSET S, s # {}, s \ {Chosen(S)[s]} \in Good PROVE s \in Good
    OBVIOUS
  <2> DEFINE x == CHOOSE x \in s : TRUE
             t == s \ {x}
  <2>1. x \in s /\ x \in S /\ Chosen(S)[s] = x
    BY <1>4 DEF Picks
  <2> HIDE DEF x
  <2>2. g[s] = Cardinality(f[x]) + g[t]
    <3>1. g[s] = h[x] + g[t]
      BY <1>1, <2>1 DEF Adds, x
    <3> QED
      BY <2>1, <3>1
  <2>3. g[t] = Cardinality(Union(f, t))
    BY <2>1
  <2>4. Union(f, s) = f[x] \cup Union(f, t)
    BY <2>1 DEF Union
  <2>5. f[x] \cap Union(f, t) = {}
    BY <2>1 DEF Union
  <2>6. Union(f, t) \in SUBSET R
    BY <2>1 DEF Union
  <2>7. IsFiniteSet(Union(f, t)) /\ Cardinality(Union(f, t)) \in Nat
    BY <2>6, FS_Subset, FS_CardinalityType
  <2>8. Cardinality(f[x] \cup Union(f, t)) = Cardinality(f[x]) + Cardinality(Union(f, t))
    <3>1. IsFiniteSet(f[x]) /\ Cardinality(f[x]) \in Nat
      BY <1>0, <2>1
    <3>2. Cardinality(f[x] \cup Union(f, t)) = Cardinality(f[x]) + Cardinality(Union(f, t)) - Cardinality(f[x] \cap Union(f, t))
      BY <2>7, <3>1, FS_Union
    <3>3. Cardinality(f[x] \cap Union(f, t)) = 0
      BY <2>5, FS_EmptySet
    <3> HIDE DEF t
    <3> QED
      BY <2>7, <3>1, <3>2, <3>3
  <2> QED
    BY <2>2, <2>3, <2>4, <2>8
<1>6. \A s \in SUBSET S : s \in Good
  <2> HIDE DEF Good
  <2> QED
    BY <1>3, <1>4, <1>5, FoldKeeps
<1> QED
  BY <1>2, <1>6

\* Each member of a finite set in a strict total order has a place of its own.
StrictOrder(less, S) ==
    /\ \A x, y \in S : x # y => <<x, y>> \in less \/ <<y, x>> \in less
    /\ \A x \in S : <<x, x>> \notin less
    /\ \A x, y, z \in S : <<x, y>> \in less /\ <<y, z>> \in less => <<x, z>> \in less

Earlier(less, S, x) == {y \in S : <<y, x>> \in less}
PlaceIn(less, S, x) == Cardinality(Earlier(less, S, x)) + 1

LEMMA PlacesInOrder ==
  ASSUME NEW S, IsFiniteSet(S), NEW less, StrictOrder(less, S), NEW x \in S, NEW y \in S, <<x, y>> \in less
  PROVE  PlaceIn(less, S, x) < PlaceIn(less, S, y)
<1>1. /\ Earlier(less, S, x) \in SUBSET (Earlier(less, S, y) \ {x}) /\ x \in Earlier(less, S, y)
      /\ Earlier(less, S, y) \in SUBSET S
  BY DEF Earlier, StrictOrder
<1>2. IsFiniteSet(Earlier(less, S, y)) /\ Cardinality(Earlier(less, S, y)) \in Nat
  BY <1>1, FS_Subset, FS_CardinalityType
<1>3. /\ IsFiniteSet(Earlier(less, S, y) \ {x})
      /\ Cardinality(Earlier(less, S, y) \ {x}) = Cardinality(Earlier(less, S, y)) - 1
  BY <1>1, <1>2, FS_RemoveElement
<1>4. Cardinality(Earlier(less, S, x)) <= Cardinality(Earlier(less, S, y)) - 1 /\ Cardinality(Earlier(less, S, x)) \in Nat
  BY <1>1, <1>3, FS_Subset, FS_CardinalityType
<1> QED
  BY <1>2, <1>4 DEF PlaceIn

LEMMA PlacesFill ==
  ASSUME NEW S, IsFiniteSet(S), NEW less, StrictOrder(less, S)
  PROVE  /\ \A x \in S : PlaceIn(less, S, x) \in 1 .. Cardinality(S)
         /\ \A x, y \in S : PlaceIn(less, S, x) = PlaceIn(less, S, y) => x = y
         /\ \A n \in 1 .. Cardinality(S) : \E x \in S : PlaceIn(less, S, x) = n
<1>0. Cardinality(S) \in Nat
  BY FS_CardinalityType
<1>1. ASSUME NEW x \in S PROVE PlaceIn(less, S, x) \in 1 .. Cardinality(S)
  <2>1. Earlier(less, S, x) \in SUBSET (S \ {x})
    BY DEF Earlier, StrictOrder
  <2>2. IsFiniteSet(S \ {x}) /\ Cardinality(S \ {x}) = Cardinality(S) - 1
    BY FS_RemoveElement
  <2>3. Cardinality(Earlier(less, S, x)) <= Cardinality(S) - 1 /\ Cardinality(Earlier(less, S, x)) \in Nat
    BY <2>1, <2>2, FS_Subset, FS_CardinalityType
  <2> QED
    BY <1>0, <2>3 DEF PlaceIn
<1>2. \A x, y \in S : PlaceIn(less, S, x) = PlaceIn(less, S, y) => x = y
  <2> SUFFICES ASSUME NEW x \in S, NEW y \in S, x # y PROVE PlaceIn(less, S, x) # PlaceIn(less, S, y)
    OBVIOUS
  <2>1. PlaceIn(less, S, x) < PlaceIn(less, S, y) \/ PlaceIn(less, S, y) < PlaceIn(less, S, x)
    BY PlacesInOrder DEF StrictOrder
  <2> QED
    BY <1>0, <1>1, <2>1
<1> DEFINE f == [x \in S |-> PlaceIn(less, S, x)]
<1>3. f \in Injection(S, 1 .. Cardinality(S))
  <2>1. f \in [S -> 1 .. Cardinality(S)]
    BY <1>1
  <2> QED
    BY <1>2, <2>1, Fun_IsInj
<1>4. f \in Surjection(S, 1 .. Cardinality(S))
  <2>1. IsFiniteSet(1 .. Cardinality(S)) /\ Cardinality(1 .. Cardinality(S)) = Cardinality(S)
    BY <1>0, FS_Interval
  <2> HIDE DEF f
  <2> QED
    BY <1>3, <2>1, FS_Injection
<1>5. \A n \in 1 .. Cardinality(S) : \E x \in S : f[x] = n
  <2> HIDE DEF f
  <2> QED
    BY <1>4, Fun_SurjectionProperties
<1> QED
  BY <1>1, <1>2, <1>5

LEMMA ImageIsFinite ==
  ASSUME NEW S, IsFiniteSet(S), NEW f, DOMAIN f = S, f = [x \in S |-> f[x]]
  PROVE  IsFiniteSet({f[x] : x \in S})
<1> DEFINE I == {f[x] : x \in S}
<1>1. f \in [S -> I] /\ \A t \in I : \E s \in S : f[s] = t
  OBVIOUS
<1>2. f \in Surjection(S, I)
  BY <1>1, Fun_IsSurj
<1> QED
  BY <1>2, FS_Surjection

LEMMA OneMoreIsFinite == \A S : IsFiniteSet(S) => \A x : IsFiniteSet(S \cup {x})
BY FS_AddElement

\* The instances of the library's operators are those operators.
LEMMA SameInWorklist == (\A S : K!Cardinality(S) = Cardinality(S)) /\ (\A f : K!SumFunction(f) = SumFunction(f))
BY DEF K!Cardinality, Cardinality, K!SumFunction, K!SumFunctionOnSet, K!FoldFunctionOnSet, K!MapThenFoldSet,
       SumFunction, SumFunctionOnSet, FoldFunctionOnSet, MapThenFoldSet

-----------------------------------------------------------------------------
(* The checklist.                                                          *)

LEMMA StatusOfItem ==
  ASSUME NEW ss
  PROVE  /\ K!ItemStatus(ss) \in K!Settled => ~(ss \subseteq K!OpenStatuses) /\ ss \cap (K!OpenStatuses \cup {"unresolved"}) = {}
         /\ K!ItemStatus(ss) # "not_started" => ~(ss \subseteq K!OpenStatuses)
<1>1. CASE ss \subseteq K!OpenStatuses
  <2>1. "unresolved" \notin ss /\ ss \cap K!OpenStatuses = ss
    BY <1>1 DEF K!OpenStatuses
  <2>2. K!ItemStatus(ss) = "not_started"
    BY <1>1, <2>1 DEF K!ItemStatus
  <2> QED
    BY <2>2 DEF K!Settled
<1>2. CASE ~(ss \subseteq K!OpenStatuses) /\ "unresolved" \in ss
  <2>1. K!ItemStatus(ss) = "unresolved"
    BY <1>2 DEF K!ItemStatus
  <2> QED
    BY <1>2, <2>1 DEF K!Settled
<1>3. CASE ~(ss \subseteq K!OpenStatuses) /\ "unresolved" \notin ss /\ ss \cap K!OpenStatuses # {}
  <2>1. ss \cap K!OpenStatuses \notin {{}, ss}
    BY <1>3
  <2>2. K!ItemStatus(ss) = "in_progress"
    BY <1>3, <2>1 DEF K!ItemStatus
  <2> QED
    BY <1>3, <2>2 DEF K!Settled
<1>4. CASE ~(ss \subseteq K!OpenStatuses) /\ "unresolved" \notin ss /\ ss \cap K!OpenStatuses = {}
  BY <1>4
<1> QED
  BY <1>1, <1>2, <1>3, <1>4

KnownFamilies(rows) == \A r \in rows : r.family \in K!NetworkFamilies \cup {"retail_tariff"}

CountedBy(rows, i) == {r \in rows : K!CountedUnder(r) = i.key}

LEMMA FamilyNames == "retail_tariff" \notin K!NetworkFamilies /\ "none" \notin K!NetworkFamilies /\ IsFiniteSet(K!NetworkFamilies)
<1>1. DOMAIN K!FamilyOrder =
          {"retail_tariff", "wheeling_charge", "oa_loss", "distribution_loss_approved", "cross_subsidy_surcharge",
           "additional_surcharge", "banking_rule", "green_tariff", "transmission_reference"}
  BY DEF K!FamilyOrder
<1>2. IsFiniteSet(DOMAIN K!FamilyOrder)
  <2>1. IsFiniteSet({"retail_tariff"} \cup {"wheeling_charge"} \cup {"oa_loss"} \cup {"distribution_loss_approved"})
    BY OneMoreIsFinite, FS_Singleton
  <2>2. IsFiniteSet(({"retail_tariff"} \cup {"wheeling_charge"} \cup {"oa_loss"} \cup {"distribution_loss_approved"})
                    \cup {"cross_subsidy_surcharge"} \cup {"additional_surcharge"} \cup {"banking_rule"})
    BY <2>1, OneMoreIsFinite
  <2>3. IsFiniteSet((({"retail_tariff"} \cup {"wheeling_charge"} \cup {"oa_loss"} \cup {"distribution_loss_approved"})
                     \cup {"cross_subsidy_surcharge"} \cup {"additional_surcharge"} \cup {"banking_rule"})
                    \cup {"green_tariff"} \cup {"transmission_reference"})
    BY <2>2, OneMoreIsFinite
  <2>4. DOMAIN K!FamilyOrder = (({"retail_tariff"} \cup {"wheeling_charge"} \cup {"oa_loss"} \cup {"distribution_loss_approved"})
                     \cup {"cross_subsidy_surcharge"} \cup {"additional_surcharge"} \cup {"banking_rule"})
                    \cup {"green_tariff"} \cup {"transmission_reference"}
    BY <1>1
  <2> QED
    BY <2>3, <2>4
<1>3. K!NetworkFamilies \in SUBSET DOMAIN K!FamilyOrder
  BY DEF K!NetworkFamilies
<1> QED
  BY <1>1, <1>2, <1>3, FS_Subset DEF K!NetworkFamilies

LEMMA KeyFields ==
  ASSUME NEW c, NEW p, NEW f
  PROVE  K!Key(c, p, f).category = c /\ K!Key(c, p, f).component = p /\ K!Key(c, p, f).family = f
BY DEF K!Key

LEMMA ItemFields ==
  ASSUME NEW k, NEW from, NEW of, NEW s
  PROVE  LET i == K!Item(k, from, of, s) IN
         /\ i.key = k /\ i.from = from /\ i.candidates = Cardinality(of) /\ i.status = s
         /\ i = [key |-> k, from |-> from, candidates |-> i.candidates, status |-> s]
BY SameInWorklist DEF K!Item

LEMMA CountedFields ==
  ASSUME NEW r
  PROVE  /\ r.family = "retail_tariff" => /\ K!CountedUnder(r).category = r.category
                                         /\ K!CountedUnder(r).component = r.component
                                         /\ K!CountedUnder(r).family = "none"
         /\ r.family # "retail_tariff" => K!CountedUnder(r) = K!Key(0, "none", r.family) /\ K!CountedUnder(r).family = r.family
BY DEF K!CountedUnder, K!Key

\* The three kinds of items, by what they count.
LEMMA GapItems ==
  ASSUME NEW rows, KnownFamilies(rows), NEW inventory, NEW i \in K!Gaps(rows, inventory)
  PROVE  /\ CountedBy(rows, i) = {} /\ i.candidates = Cardinality(CountedBy(rows, i)) /\ i.status = "not_started"
<1>1. PICK c \in inventory \ {r.category : r \in K!Retail(rows)} : i = K!Item(K!Key(c, "none", "none"), "inventory", {}, "not_started")
  BY DEF K!Gaps
<1>2. i.key = K!Key(c, "none", "none") /\ i.candidates = Cardinality({}) /\ i.status = "not_started"
  BY <1>1, ItemFields
<1>3. ASSUME NEW r \in rows PROVE K!CountedUnder(r) # i.key
  <2>1. i.key.category = c /\ i.key.family = "none"
    BY <1>2, KeyFields
  <2>2. CASE r.family = "retail_tariff"
    BY <1>1, <2>1, <2>2, CountedFields DEF K!Retail
  <2>3. CASE r.family # "retail_tariff"
    BY <2>1, <2>3, CountedFields, FamilyNames DEF KnownFamilies
  <2> QED
    BY <2>2, <2>3
<1>4. CountedBy(rows, i) = {}
  BY <1>3 DEF CountedBy
<1> QED
  BY <1>2, <1>4

RetailOf(rows, k) == {r \in K!Retail(rows) : r.category = k.category /\ r.component = k.component}
FoundIn(inventory, k) == IF k.category \in inventory THEN "inventory" ELSE "extraction"

LEMMA ComponentItem ==
  ASSUME NEW rows, KnownFamilies(rows), NEW inventory, NEW i \in K!ComponentItems(rows, inventory)
  PROVE  /\ CountedBy(rows, i) # {} /\ i.candidates = Cardinality(CountedBy(rows, i))
         /\ i.status = K!ItemStatus(K!Statuses(CountedBy(rows, i)))
         /\ i = K!Item(i.key, FoundIn(inventory, i.key), CountedBy(rows, i), K!ItemStatus(K!Statuses(CountedBy(rows, i))))
         /\ i.key.family = "none"
<1>1. PICK k \in {K!Key(r.category, r.component, "none") : r \in K!Retail(rows)} :
          i = K!Item(k, FoundIn(inventory, k), RetailOf(rows, k), K!ItemStatus(K!Statuses(RetailOf(rows, k))))
  BY DEF K!ComponentItems, RetailOf, FoundIn
<1>2. PICK q \in K!Retail(rows) : k = K!Key(q.category, q.component, "none")
  BY <1>1
<1>3. k.category = q.category /\ k.component = q.component /\ k.family = "none" /\ i.key = k
  BY <1>1, <1>2, KeyFields, ItemFields
<1>4. CountedBy(rows, i) = RetailOf(rows, k)
  <2>1. ASSUME NEW r \in rows PROVE K!CountedUnder(r) = k <=> r.family = "retail_tariff" /\ r.category = k.category /\ r.component = k.component
    <3>1. CASE r.family = "retail_tariff"
      <4>1. K!CountedUnder(r) = K!Key(r.category, r.component, "none")
        BY <3>1 DEF K!CountedUnder
      <4> QED
        BY <1>2, <1>3, <3>1, <4>1, KeyFields
    <3>2. CASE r.family # "retail_tariff"
      BY <1>3, <3>2, CountedFields, FamilyNames DEF KnownFamilies
    <3> QED
      BY <3>1, <3>2
  <2> QED
    BY <1>3, <2>1 DEF CountedBy, RetailOf, K!Retail
<1>5. q \in RetailOf(rows, k)
  BY <1>3 DEF RetailOf
<1>6. i.candidates = Cardinality(RetailOf(rows, k)) /\ i.status = K!ItemStatus(K!Statuses(RetailOf(rows, k)))
  BY <1>1, ItemFields
<1> QED
  BY <1>1, <1>3, <1>4, <1>5, <1>6

LEMMA FamilyItem ==
  ASSUME NEW rows, KnownFamilies(rows), NEW dispositions, NEW i \in K!FamilyItems(rows, dispositions)
  PROVE  /\ i.candidates = Cardinality(CountedBy(rows, i)) /\ i.key.family \in K!NetworkFamilies
         /\ i.status = K!FamilyStatus(CountedBy(rows, i), dispositions, i.key.family)
         /\ i = K!Item(i.key, "spec", CountedBy(rows, i), K!FamilyStatus(CountedBy(rows, i), dispositions, i.key.family))
         /\ i.key = K!Key(0, "none", i.key.family)
         /\ CountedBy(rows, i) = {r \in rows : r.family = i.key.family}
<1> DEFINE of(f) == {r \in rows : r.family = f}
<1>1. PICK f \in K!NetworkFamilies : i = K!Item(K!Key(0, "none", f), "spec", of(f), K!FamilyStatus(of(f), dispositions, f))
  BY DEF K!FamilyItems
<1>2. i.key = K!Key(0, "none", f) /\ i.key.family = f /\ f # "none" /\ f # "retail_tariff"
  BY <1>1, FamilyNames, KeyFields, ItemFields
<1>3. CountedBy(rows, i) = of(f)
  <2>1. ASSUME NEW r \in rows PROVE K!CountedUnder(r) = i.key <=> r.family = f
    BY <1>2, CountedFields
  <2> QED
    BY <2>1 DEF CountedBy
<1> HIDE DEF of
<1>4. i.candidates = Cardinality(of(f)) /\ i.status = K!FamilyStatus(of(f), dispositions, f)
  BY <1>1, ItemFields
<1>5. CountedBy(rows, i) = {r \in rows : r.family = i.key.family}
  BY <1>2, <1>3 DEF of
<1> QED
  BY <1>1, <1>2, <1>3, <1>4, <1>5

LEMMA ItemKinds ==
  ASSUME NEW rows, NEW inventory, NEW dispositions, NEW i \in K!Checklist(rows, inventory, dispositions)
  PROVE  \/ i \in K!Gaps(rows, inventory) \/ i \in K!ComponentItems(rows, inventory) \/ i \in K!FamilyItems(rows, dispositions)
BY DEF K!Checklist

LEMMA CandidatesOfItem ==
  ASSUME NEW rows, KnownFamilies(rows), NEW inventory, NEW dispositions, NEW i \in K!Checklist(rows, inventory, dispositions)
  PROVE  i.candidates = Cardinality(CountedBy(rows, i))
BY ItemKinds, GapItems, ComponentItem, FamilyItem

\* No candidate is counted by two items.
LEMMA ItemsApart ==
  ASSUME NEW rows, KnownFamilies(rows), NEW inventory, NEW dispositions,
         NEW i \in K!Checklist(rows, inventory, dispositions), NEW j \in K!Checklist(rows, inventory, dispositions), i # j
  PROVE  CountedBy(rows, i) \cap CountedBy(rows, j) = {}
<1> SUFFICES ASSUME NEW r \in CountedBy(rows, i), r \in CountedBy(rows, j) PROVE FALSE
  OBVIOUS
<1>1. i.key = j.key
  BY DEF CountedBy
<1>2. i \notin K!Gaps(rows, inventory) /\ j \notin K!Gaps(rows, inventory)
  BY GapItems
<1>3. CASE i \in K!ComponentItems(rows, inventory) /\ j \in K!ComponentItems(rows, inventory)
  <2>1. CountedBy(rows, i) = CountedBy(rows, j)
    BY <1>1 DEF CountedBy
  <2> QED
    BY <1>1, <1>3, <2>1, ComponentItem
<1>4. CASE i \in K!FamilyItems(rows, dispositions) /\ j \in K!FamilyItems(rows, dispositions)
  <2>1. CountedBy(rows, i) = CountedBy(rows, j)
    BY <1>1 DEF CountedBy
  <2> QED
    BY <1>1, <1>4, <2>1, FamilyItem
<1>5. CASE i \in K!ComponentItems(rows, inventory) /\ j \in K!FamilyItems(rows, dispositions)
  BY <1>1, <1>5, ComponentItem, FamilyItem, FamilyNames
<1>6. CASE i \in K!FamilyItems(rows, dispositions) /\ j \in K!ComponentItems(rows, inventory)
  BY <1>1, <1>6, ComponentItem, FamilyItem, FamilyNames
<1> QED
  BY <1>2, <1>3, <1>4, <1>5, <1>6, ItemKinds

\* Every candidate is counted by an item.
LEMMA EachIsCounted ==
  ASSUME NEW rows, KnownFamilies(rows), NEW inventory, NEW dispositions, NEW r \in rows
  PROVE  \E i \in K!Checklist(rows, inventory, dispositions) : r \in CountedBy(rows, i)
<1>1. CASE r.family = "retail_tariff"
  <2> DEFINE k == K!Key(r.category, r.component, "none")
             i == K!Item(k, FoundIn(inventory, k), RetailOf(rows, k), K!ItemStatus(K!Statuses(RetailOf(rows, k))))
  <2>1. k \in {K!Key(q.category, q.component, "none") : q \in K!Retail(rows)}
    BY <1>1 DEF K!Retail
  <2>2. i \in K!ComponentItems(rows, inventory)
    <3> HIDE DEF k
    <3> QED
      BY <2>1 DEF K!ComponentItems, RetailOf, FoundIn
  <2>3. i.key = K!CountedUnder(r)
    BY <1>1, ItemFields DEF K!CountedUnder
  <2> HIDE DEF i
  <2> QED
    BY <2>2, <2>3 DEF K!Checklist, CountedBy
<1>2. CASE r.family # "retail_tariff"
  <2> DEFINE of(f) == {q \in rows : q.family = f}
             i == K!Item(K!Key(0, "none", r.family), "spec", of(r.family), K!FamilyStatus(of(r.family), dispositions, r.family))
  <2>1. i \in K!FamilyItems(rows, dispositions)
    BY <1>2 DEF K!FamilyItems, KnownFamilies
  <2>2. i.key = K!CountedUnder(r)
    BY <1>2, ItemFields, CountedFields
  <2> HIDE DEF i
  <2> QED
    BY <2>1, <2>2 DEF K!Checklist, CountedBy
<1> QED
  BY <1>1, <1>2

LEMMA ItemsAreFinite ==
  ASSUME NEW rows, IsFiniteSet(rows), NEW inventory, IsFiniteSet(inventory), NEW dispositions
  PROVE  IsFiniteSet(K!Checklist(rows, inventory, dispositions))
<1>1. IsFiniteSet(K!Gaps(rows, inventory))
  <2> DEFINE S == inventory \ {r.category : r \in K!Retail(rows)}
             f == [c \in S |-> K!Item(K!Key(c, "none", "none"), "inventory", {}, "not_started")]
  <2>1. IsFiniteSet(S)
    BY FS_Subset
  <2>2. IsFiniteSet({f[c] : c \in S})
    <3> HIDE DEF S
    <3>1. DOMAIN f = S /\ f = [x \in S |-> f[x]]
      OBVIOUS
    <3> HIDE DEF f
    <3> QED
      BY <2>1, <3>1, ImageIsFinite
  <2>3. {f[c] : c \in S} = K!Gaps(rows, inventory)
    BY DEF K!Gaps
  <2> QED
    BY <2>2, <2>3
<1>2. IsFiniteSet(K!ComponentItems(rows, inventory))
  <2> DEFINE S == K!Retail(rows)
             g(k) == K!Item(k, FoundIn(inventory, k), RetailOf(rows, k), K!ItemStatus(K!Statuses(RetailOf(rows, k))))
             f == [r \in S |-> g(K!Key(r.category, r.component, "none"))]
  <2>1. IsFiniteSet(S)
    BY FS_Subset DEF K!Retail
  <2>2. IsFiniteSet({f[c] : c \in S})
    <3> HIDE DEF S, g
    <3>1. DOMAIN f = S /\ f = [x \in S |-> f[x]]
      OBVIOUS
    <3> HIDE DEF f
    <3> QED
      BY <2>1, <3>1, ImageIsFinite
  <2>3. {f[c] : c \in S} = {g(k) : k \in {K!Key(r.category, r.component, "none") : r \in S}}
    <3> HIDE DEF S, g
    <3> QED
      OBVIOUS
  <2>4. {g(k) : k \in {K!Key(r.category, r.component, "none") : r \in S}} = K!ComponentItems(rows, inventory)
    BY DEF K!ComponentItems, RetailOf, FoundIn
  <2> QED
    BY <2>2, <2>3, <2>4
<1>3. IsFiniteSet(K!FamilyItems(rows, dispositions))
  <2> DEFINE S == K!NetworkFamilies
             of(f) == {r \in rows : r.family = f}
             f == [x \in S |-> K!Item(K!Key(0, "none", x), "spec", of(x), K!FamilyStatus(of(x), dispositions, x))]
  <2>1. IsFiniteSet(S)
    BY FamilyNames
  <2>2. IsFiniteSet({f[c] : c \in S})
    <3> HIDE DEF S, of
    <3>1. DOMAIN f = S /\ f = [x \in S |-> f[x]]
      OBVIOUS
    <3> HIDE DEF f
    <3> QED
      BY <2>1, <3>1, ImageIsFinite
  <2>3. {f[c] : c \in S} = K!FamilyItems(rows, dispositions)
    BY DEF K!FamilyItems
  <2> QED
    BY <2>2, <2>3
<1> QED
  BY <1>1, <1>2, <1>3, FS_Union DEF K!Checklist

\* Of any candidates of known families, any inventory and any dispositions the checklist counts every
\* candidate once, shows nothing as settled that has something to decide, and no gap as begun.
THEOREM ChecklistIsComplete ==
  ASSUME NEW rows, IsFiniteSet(rows), KnownFamilies(rows), NEW inventory, IsFiniteSet(inventory), NEW dispositions
  PROVE  K!ChecklistHolds(rows, inventory, dispositions, K!Checklist(rows, inventory, dispositions))
<1> DEFINE out == K!Checklist(rows, inventory, dispositions)
           counted == [i \in out |-> CountedBy(rows, i)]
<1>1. K!SumFunction([i \in out |-> i.candidates]) = K!Cardinality(rows)
  <2>1. IsFiniteSet(out)
    BY ItemsAreFinite
  <2>2. \A i \in out : CountedBy(rows, i) \in SUBSET rows /\ i.candidates = Cardinality(CountedBy(rows, i))
    BY CandidatesOfItem DEF CountedBy
  <2>3. \A i, j \in out : i # j => CountedBy(rows, i) \cap CountedBy(rows, j) = {}
    BY ItemsApart
  <2>4. \A r \in rows : \E i \in out : r \in CountedBy(rows, i)
    BY EachIsCounted
  <2> HIDE DEF out
  <2>5. counted \in [out -> SUBSET rows] /\ \A i, j \in out : i # j => counted[i] \cap counted[j] = {}
    BY <2>2, <2>3
  <2>6. Union(counted, out) = rows
    BY <2>2, <2>4 DEF Union
  <2>7. [i \in out |-> i.candidates] = [i \in out |-> Cardinality(counted[i])]
    BY <2>2
  <2> HIDE DEF counted
  <2>8. SumFunction([i \in out |-> Cardinality(counted[i])]) = Cardinality(Union(counted, out))
    BY <2>1, <2>5, SumOfDisjoint
  <2> QED
    BY <2>6, <2>7, <2>8, SameInWorklist
<1>2. ASSUME NEW i \in out, i.status \in K!Settled
      PROVE  LET of == {r \in rows : K!CountedUnder(r) = i.key}
             IN i.candidates = K!Cardinality(of) /\ of # {} /\ \A r \in of : r.status \notin K!OpenStatuses \cup {"unresolved"}
  <2> DEFINE of == CountedBy(rows, i)
  <2>1. i.candidates = K!Cardinality(of)
    BY CandidatesOfItem, SameInWorklist
  <2>2. K!ItemStatus(K!Statuses(of)) \in K!Settled
    <3>1. CASE i \in K!Gaps(rows, inventory)
      BY <1>2, <3>1, GapItems DEF K!Settled
    <3>2. CASE i \in K!ComponentItems(rows, inventory)
      BY <1>2, <3>2, ComponentItem
    <3>3. CASE i \in K!FamilyItems(rows, dispositions)
      BY <1>2, <3>3, FamilyItem DEF K!FamilyStatus, K!Settled
    <3> QED
      BY <3>1, <3>2, <3>3, ItemKinds
  <2>3. ~(K!Statuses(of) \subseteq K!OpenStatuses) /\ K!Statuses(of) \cap (K!OpenStatuses \cup {"unresolved"}) = {}
    BY <2>2, StatusOfItem
  <2>4. of # {} /\ \A r \in of : r.status \notin K!OpenStatuses \cup {"unresolved"}
    BY <2>3 DEF K!Statuses
  <2> QED
    BY <2>1, <2>4 DEF CountedBy
<1>3. ASSUME NEW c \in inventory, \A r \in K!Retail(rows) : r.category # c
      PROVE  \E i \in out : i.key = K!Key(c, "none", "none") /\ i.status = "not_started"
  <2> DEFINE i == K!Item(K!Key(c, "none", "none"), "inventory", {}, "not_started")
  <2>1. i \in K!Gaps(rows, inventory)
    BY <1>3 DEF K!Gaps
  <2>2. i.key = K!Key(c, "none", "none") /\ i.status = "not_started"
    BY ItemFields
  <2> HIDE DEF i
  <2> QED
    BY <2>1, <2>2 DEF K!Checklist
<1>4. ASSUME NEW f \in K!NetworkFamilies
      PROVE  \E i \in out : i.key = K!Key(0, "none", f) /\ (i.status # "not_started" =>
                 f \in dispositions \/ \E r \in rows : r.family = f /\ r.status \notin K!OpenStatuses)
  <2> DEFINE of == {r \in rows : r.family = f}
             i == K!Item(K!Key(0, "none", f), "spec", of, K!FamilyStatus(of, dispositions, f))
  <2>1. i \in K!FamilyItems(rows, dispositions)
    BY DEF K!FamilyItems
  <2>2. i.key = K!Key(0, "none", f) /\ i.status = K!FamilyStatus(of, dispositions, f)
    BY ItemFields
  <2>3. K!FamilyStatus(of, dispositions, f) # "not_started" =>
            f \in dispositions \/ \E r \in rows : r.family = f /\ r.status \notin K!OpenStatuses
    <3> SUFFICES ASSUME K!FamilyStatus(of, dispositions, f) # "not_started", f \notin dispositions
                 PROVE  \E r \in rows : r.family = f /\ r.status \notin K!OpenStatuses
      OBVIOUS
    <3>1. K!ItemStatus(K!Statuses(of)) # "not_started"
      BY DEF K!FamilyStatus
    <3>2. ~(K!Statuses(of) \subseteq K!OpenStatuses)
      BY <3>1, StatusOfItem
    <3> QED
      BY <3>2 DEF K!Statuses
  <2> HIDE DEF i, of
  <2> QED
    BY <2>1, <2>2, <2>3 DEF K!Checklist
<1> HIDE DEF out
<1> QED
  BY <1>1, <1>2, <1>3, <1>4 DEF K!ChecklistHolds, out

-----------------------------------------------------------------------------
(* The queue.                                                              *)

\* Ranks of one length are in a strict order.
LEMMA BeforeIsTotal ==
  ASSUME NEW k \in Nat, NEW x \in [1 .. k -> Int], NEW y \in [1 .. k -> Int], x # y
  PROVE  K!Before(x, y) \/ K!Before(y, x)
<1> DEFINE D == {n \in 1 .. k : x[n] # y[n]}
<1>1. D \subseteq Nat /\ D # {}
  OBVIOUS
<1>2. PICK n \in D : \A m \in D : n <= m
  BY <1>1, LeastNatural
<1>3. \A m \in 1 .. n - 1 : x[m] = y[m]
  BY <1>2
<1>4. x[n] < y[n] \/ y[n] < x[n]
  OBVIOUS
<1>5. n \in DOMAIN x /\ n \in DOMAIN y
  OBVIOUS
<1> HIDE DEF D
<1> QED
  BY <1>3, <1>4, <1>5 DEF K!Before

LEMMA BeforeIsIrreflexive ==
  ASSUME NEW k \in Nat, NEW x \in [1 .. k -> Int]
  PROVE  ~K!Before(x, x)
BY DEF K!Before

LEMMA BeforeIsTransitive ==
  ASSUME NEW k \in Nat, NEW x \in [1 .. k -> Int], NEW y \in [1 .. k -> Int], NEW z \in [1 .. k -> Int],
         K!Before(x, y), K!Before(y, z)
  PROVE  K!Before(x, z)
<1>1. PICK n \in 1 .. k : x[n] < y[n] /\ \A m \in 1 .. n - 1 : x[m] = y[m]
  BY DEF K!Before
<1>2. PICK p \in 1 .. k : y[p] < z[p] /\ \A m \in 1 .. p - 1 : y[m] = z[m]
  BY DEF K!Before
<1>3. CASE n <= p
  <2>1. x[n] < z[n] /\ \A m \in 1 .. n - 1 : x[m] = z[m]
    BY <1>1, <1>2, <1>3
  <2> QED
    BY <2>1 DEF K!Before
<1>4. CASE p < n
  <2>1. x[p] < z[p] /\ \A m \in 1 .. p - 1 : x[m] = z[m]
    BY <1>1, <1>2, <1>4
  <2> QED
    BY <2>1 DEF K!Before
<1> QED
  BY <1>3, <1>4

LEMMA BeforeByPrefix ==
  ASSUME NEW k \in Nat, NEW x \in [1 .. k -> Int], NEW y \in [1 .. k -> Int], K!Before(x, y),
         NEW j \in 1 .. k, \A m \in 1 .. j - 1 : x[m] = y[m]
  PROVE  x[j] <= y[j]
<1>1. PICK n \in 1 .. k : x[n] < y[n] /\ \A m \in 1 .. n - 1 : x[m] = y[m]
  BY DEF K!Before
<1> QED
  BY <1>1

CandidateOK(r) ==
    /\ r.blocking \in Nat /\ r.findings \in Nat /\ r.disagrees \in BOOLEAN /\ IsFiniteSet(r.tags)
    /\ r.confidence \in {"low", "medium", "high"} /\ r.family \in K!NetworkFamilies \cup {"retail_tariff"}
    /\ r.component \in DOMAIN K!ComponentOrder
    /\ r.page \in Int /\ r.grid \in Int /\ r.category \in Int /\ r.name \in Int /\ r.spot \in [1 .. 3 -> Int]

Named(rows) == \A r, s \in rows : r.name = s.name => r = s

RankLength(order) == IF order = "risk" THEN 7 ELSE 9

LEMMA RiskRankIs ==
  ASSUME NEW r, CandidateOK(r), NEW covered
  PROVE  LET k == K!RiskRank(r, covered) IN
         /\ k \in [1 .. 7 -> Int] /\ k[1] = -r.blocking /\ k[2] = -r.findings
         /\ k[3] = (IF r.disagrees THEN 0 ELSE 1) /\ k[4] = -Cardinality(r.tags)
         /\ k[5] = (IF K!Uncovered(r, covered) THEN 0 ELSE 1) /\ k[7] = r.name
<1>1. Cardinality(r.tags) \in Nat /\ K!Cardinality(r.tags) = Cardinality(r.tags)
  BY FS_CardinalityType, SameInWorklist DEF CandidateOK
<1>2. K!ConfidenceRank[r.confidence] \in Int
  BY DEF K!ConfidenceRank, CandidateOK
<1>3. /\ -r.blocking \in Int /\ -r.findings \in Int /\ -Cardinality(r.tags) \in Int
      /\ (IF r.disagrees THEN 0 ELSE 1) \in Int /\ (IF K!Uncovered(r, covered) THEN 0 ELSE 1) \in Int /\ r.name \in Int
  BY <1>1 DEF CandidateOK
<1> QED
  BY <1>1, <1>2, <1>3 DEF K!RiskRank

LEMMA DocumentRankIs ==
  ASSUME NEW r, CandidateOK(r)
  PROVE  LET k == K!DocumentRank(r) IN
         k \in [1 .. 9 -> Int] /\ k[1] = K!FamilyOrder[r.family] /\ k[2] = r.page /\ k[9] = r.name
<1>1. r.family \in DOMAIN K!FamilyOrder /\ K!FamilyOrder[r.family] \in Int
  BY DEF K!FamilyOrder, K!NetworkFamilies, CandidateOK
<1>2. K!ComponentOrder[r.component] \in Int
  BY DEF K!ComponentOrder, CandidateOK
<1>3. /\ r.page \in Int /\ r.grid \in Int /\ r.category \in Int /\ r.name \in Int
      /\ r.spot[1] \in Int /\ r.spot[2] \in Int /\ r.spot[3] \in Int
  BY DEF CandidateOK
<1> QED
  BY <1>1, <1>2, <1>3 DEF K!DocumentRank

LEMMA RankIs ==
  ASSUME NEW r, CandidateOK(r), NEW order, NEW covered
  PROVE  /\ K!Rank(r, order, covered) \in [1 .. RankLength(order) -> Int]
         /\ K!Rank(r, order, covered)[RankLength(order)] = r.name
         /\ RankLength(order) \in Nat \ {0}
BY RiskRankIs, DocumentRankIs DEF K!Rank, RankLength

Ahead(S, order, covered) ==
    {p \in S \X S : K!Before(K!Rank(p[1], order, covered), K!Rank(p[2], order, covered))}

LEMMA RanksAreOrdered ==
  ASSUME NEW S, \A r \in S : CandidateOK(r), Named(S), NEW order, NEW covered
  PROVE  StrictOrder(Ahead(S, order, covered), S)
<1> DEFINE k == RankLength(order)
           R(x) == K!Rank(x, order, covered)
<1>1. \A x \in S : R(x) \in [1 .. k -> Int] /\ R(x)[k] = x.name /\ k \in Nat
  BY RankIs
<1>2. \A x, y \in S : x # y => R(x) # R(y)
  BY <1>1 DEF Named
<1>3. \A x, y \in S : <<x, y>> \in Ahead(S, order, covered) <=> K!Before(R(x), R(y))
  BY DEF Ahead
<1> HIDE DEF k, R
<1>4. ASSUME NEW x \in S, NEW y \in S, x # y PROVE K!Before(R(x), R(y)) \/ K!Before(R(y), R(x))
  BY <1>1, <1>2, <1>4, BeforeIsTotal
<1>5. ASSUME NEW x \in S PROVE ~K!Before(R(x), R(x))
  BY <1>1, BeforeIsIrreflexive
<1>6. ASSUME NEW x \in S, NEW y \in S, NEW z \in S, K!Before(R(x), R(y)), K!Before(R(y), R(z)) PROVE K!Before(R(x), R(z))
  BY <1>1, <1>6, BeforeIsTransitive
<1> QED
  BY <1>3, <1>4, <1>5, <1>6 DEF StrictOrder

LEMMA QueueIsSorted ==
  ASSUME NEW S, IsFiniteSet(S), \A r \in S : CandidateOK(r), Named(S), NEW order, NEW covered
  PROVE  LET out == K!QueueOf(S, order, covered)
             Ranked(r) == K!Rank(r, order, covered)
         IN /\ DOMAIN out = 1 .. Cardinality(S)
            /\ \A n \in DOMAIN out : /\ out[n].row \in S
                                     /\ out[n].coverage = K!Uncovered(out[n].row, covered)
                                     /\ out[n].reason = K!Reason(out[n].row, covered)
            /\ \A n, m \in DOMAIN out : out[n].row = out[m].row => n = m
            /\ \A r \in S : \E n \in DOMAIN out : out[n].row = r
            /\ \A n, m \in DOMAIN out : n < m => K!Before(Ranked(out[n].row), Ranked(out[m].row))
<1> DEFINE out == K!QueueOf(S, order, covered)
           Ranked(r) == K!Rank(r, order, covered)
           less == Ahead(S, order, covered)
           place(r) == PlaceIn(less, S, r)
           who(n) == K!At(n, S, order, covered)
<1>1. StrictOrder(less, S)
  BY RanksAreOrdered
<1>2. \A x, y \in S : <<x, y>> \in less <=> K!Before(Ranked(x), Ranked(y))
  BY DEF Ahead
<1>3. \A r \in S : K!Position(r, S, order, covered) = place(r)
  BY <1>2, SameInWorklist DEF K!Position, PlaceIn, Earlier
<1>4. /\ \A x \in S : place(x) \in 1 .. Cardinality(S)
      /\ \A x, y \in S : place(x) = place(y) => x = y
      /\ \A n \in 1 .. Cardinality(S) : \E x \in S : place(x) = n
  BY <1>1, PlacesFill
<1>5. \A n \in 1 .. Cardinality(S) : who(n) \in S /\ place(who(n)) = n
  <2> HIDE DEF place, less
  <2> QED
    BY <1>3, <1>4 DEF K!At
<1>6. \A x, y \in S : place(x) < place(y) => <<x, y>> \in less
  <2> SUFFICES ASSUME NEW x \in S, NEW y \in S, place(x) < place(y), <<x, y>> \notin less PROVE FALSE
    OBVIOUS
  <2>1. x # y
    <3> HIDE DEF place
    <3> QED
      BY <1>4
  <2>2. place(y) < place(x)
    BY <1>1, <2>1, PlacesInOrder DEF StrictOrder
  <2> HIDE DEF place, less
  <2> QED
    BY <1>4, <2>2
<1>7. out = [n \in 1 .. Cardinality(S) |-> [row |-> who(n), position |-> n, coverage |-> K!Uncovered(who(n), covered),
                                           reason |-> K!Reason(who(n), covered)]]
  BY SameInWorklist DEF K!QueueOf
<1>8. /\ DOMAIN out = 1 .. Cardinality(S)
      /\ \A n \in DOMAIN out : /\ out[n].row = who(n) /\ out[n].coverage = K!Uncovered(who(n), covered)
                               /\ out[n].reason = K!Reason(who(n), covered)
  <2> HIDE DEF who, out
  <2> QED
    BY <1>7
<1> HIDE DEF out, who, place, less
<1>9. \A r \in S : \E n \in DOMAIN out : out[n].row = r
  BY <1>4, <1>5, <1>8
<1>10. \A n, m \in DOMAIN out : n < m => K!Before(Ranked(out[n].row), Ranked(out[m].row))
  <2> SUFFICES ASSUME NEW n \in DOMAIN out, NEW m \in DOMAIN out, n < m
               PROVE  K!Before(Ranked(out[n].row), Ranked(out[m].row))
    OBVIOUS
  <2>1. who(n) \in S /\ who(m) \in S /\ place(who(n)) < place(who(m)) /\ out[n].row = who(n) /\ out[m].row = who(m)
    BY <1>5, <1>8
  <2> HIDE DEF Ranked
  <2> QED
    BY <1>2, <1>6, <2>1
<1> HIDE DEF Ranked
<1> QED
  BY <1>5, <1>8, <1>9, <1>10 DEF out, Ranked

LEMMA ReasonOfUncovered ==
  ASSUME NEW r, NEW covered, K!Uncovered(r, covered)
  PROVE  K!Reason(r, covered) # "confidence"
BY DEF K!Reason

\* Of any candidates of distinct names and any question the queue has everyone it should in one
\* place each, by risk or as printed.
THEOREM QueueIsComplete ==
  ASSUME NEW rows, IsFiniteSet(rows), \A r \in rows : CandidateOK(r), Named(rows), NEW q
  PROVE  K!QueueHolds(rows, q, K!OrderedQueue(rows, q))
<1> DEFINE S == {r \in rows : K!Passes(r, q)}
           covered == K!CoveredCategories(rows)
           out == K!OrderedQueue(rows, q)
           Ranked(r) == K!Rank(r, q.order, covered)
<1>1. IsFiniteSet(S) /\ (\A r \in S : CandidateOK(r) /\ r \in rows) /\ Named(S)
  BY FS_Subset DEF Named
<1>2. out = K!QueueOf(S, q.order, covered)
  BY DEF K!OrderedQueue
<1>3. /\ \A n \in DOMAIN out : /\ out[n].row \in S /\ out[n].row \in rows /\ CandidateOK(out[n].row)
                               /\ out[n].coverage = K!Uncovered(out[n].row, covered)
                               /\ out[n].reason = K!Reason(out[n].row, covered)
      /\ \A n, m \in DOMAIN out : out[n].row = out[m].row => n = m
      /\ \A r \in S : \E n \in DOMAIN out : out[n].row = r
      /\ \A n, m \in DOMAIN out : n < m => K!Before(Ranked(out[n].row), Ranked(out[m].row))
  <2> HIDE DEF S, covered, out
  <2> QED
    BY <1>1, <1>2, QueueIsSorted
<1>4. q.status = "none" /\ DOMAIN q.fields = {} /\ q.risk = {} /\ q.pages = {} => S = {r \in rows : r.status \in K!OpenStatuses}
  BY DEF K!Passes
<1> HIDE DEF out
<1>5. q.status = "none" /\ DOMAIN q.fields = {} /\ q.risk = {} /\ q.pages = {} =>
          {out[n].row : n \in DOMAIN out} = {r \in rows : r.status \in K!OpenStatuses}
  <2>1. {out[n].row : n \in DOMAIN out} = S
    <3> HIDE DEF S
    <3> QED
      BY <1>3
  <2> HIDE DEF S
  <2> QED
    BY <1>4, <2>1
<1>6. ASSUME NEW n \in DOMAIN out, out[n].coverage
      PROVE  /\ out[n].reason # "confidence"
             /\ \A r \in rows : r.category = out[n].row.category => r.status \notin K!Settled
  <2>1. K!Uncovered(out[n].row, covered)
    BY <1>3, <1>6
  <2>2. out[n].reason # "confidence"
    BY <1>3, <2>1, ReasonOfUncovered
  <2>3. ASSUME NEW r \in rows, r.category = out[n].row.category PROVE r.status \notin K!Settled
    BY <2>1, <2>3 DEF K!Uncovered, K!CoveredCategories
  <2> QED
    BY <2>2, <2>3
<1>7. ASSUME NEW n \in DOMAIN out, NEW m \in DOMAIN out, n < m
      PROVE  LET a == out[n].row
                 b == out[m].row
                 family == [r \in {a, b} |-> IF r.family = "retail_tariff" THEN 0 ELSE 1]
             IN IF q.order = "risk"
                THEN /\ b.blocking > 0 => a.blocking > 0
                     /\ a.blocking = 0 /\ b.blocking = 0 /\ b.disagrees /\ ~a.disagrees => a.findings > b.findings
                     /\ out[m].coverage /\ ~out[n].coverage =>
                            \/ a.blocking > b.blocking \/ a.findings > b.findings \/ (a.disagrees /\ ~b.disagrees)
                            \/ K!Cardinality(a.tags) > K!Cardinality(b.tags)
                ELSE family[a] <= family[b] /\ (a.family = b.family => a.page <= b.page)
  <2> DEFINE a == out[n].row
             b == out[m].row
  <2>1. CandidateOK(a) /\ CandidateOK(b) /\ K!Before(Ranked(a), Ranked(b))
    BY <1>3, <1>7
  <2>2. CASE q.order = "risk"
    <3> DEFINE x == K!RiskRank(a, covered)
               y == K!RiskRank(b, covered)
    <3>1. Ranked(a) = x /\ Ranked(b) = y
      BY <2>2 DEF K!Rank
    <3>2. /\ x \in [1 .. 7 -> Int] /\ y \in [1 .. 7 -> Int]
          /\ x[1] = -a.blocking /\ x[2] = -a.findings /\ x[3] = (IF a.disagrees THEN 0 ELSE 1)
          /\ x[4] = -Cardinality(a.tags) /\ x[5] = (IF K!Uncovered(a, covered) THEN 0 ELSE 1)
          /\ y[1] = -b.blocking /\ y[2] = -b.findings /\ y[3] = (IF b.disagrees THEN 0 ELSE 1)
          /\ y[4] = -Cardinality(b.tags) /\ y[5] = (IF K!Uncovered(b, covered) THEN 0 ELSE 1)
      BY <2>1, RiskRankIs
    <3>3. K!Before(x, y)
      BY <2>1, <3>1
    <3> HIDE DEF x, y
    <3>4. \A j \in 1 .. 7 : (\A i \in 1 .. j - 1 : x[i] = y[i]) => x[j] <= y[j]
      BY <3>2, <3>3, BeforeByPrefix
    <3>5. /\ x[1] <= y[1] /\ (x[1] = y[1] => x[2] <= y[2]) /\ (x[1] = y[1] /\ x[2] = y[2] => x[3] <= y[3])
          /\ (x[1] = y[1] /\ x[2] = y[2] /\ x[3] = y[3] => x[4] <= y[4])
          /\ (x[1] = y[1] /\ x[2] = y[2] /\ x[3] = y[3] /\ x[4] = y[4] => x[5] <= y[5])
      BY <3>4
    <3>6. /\ a.blocking \in Nat /\ a.findings \in Nat /\ a.disagrees \in BOOLEAN /\ Cardinality(a.tags) \in Nat
          /\ b.blocking \in Nat /\ b.findings \in Nat /\ b.disagrees \in BOOLEAN /\ Cardinality(b.tags) \in Nat
      BY <2>1, FS_CardinalityType DEF CandidateOK
    <3>7. /\ out[n].coverage = K!Uncovered(a, covered) /\ out[m].coverage = K!Uncovered(b, covered)
          /\ K!Cardinality(a.tags) = Cardinality(a.tags) /\ K!Cardinality(b.tags) = Cardinality(b.tags)
      BY <1>3, SameInWorklist
    <3>8. b.blocking > 0 => a.blocking > 0
      BY <3>2, <3>5, <3>6
    <3>9. a.blocking = 0 /\ b.blocking = 0 /\ b.disagrees /\ ~a.disagrees => a.findings > b.findings
      BY <3>2, <3>5, <3>6
    <3>10. K!Uncovered(b, covered) /\ ~K!Uncovered(a, covered) =>
               \/ a.blocking > b.blocking \/ a.findings > b.findings \/ (a.disagrees /\ ~b.disagrees)
               \/ Cardinality(a.tags) > Cardinality(b.tags)
      BY <3>2, <3>5, <3>6
    <3> HIDE DEF a, b
    <3> QED
      BY <2>2, <3>7, <3>8, <3>9, <3>10 DEF a, b
  <2>3. CASE q.order # "risk"
    <3> DEFINE x == K!DocumentRank(a)
               y == K!DocumentRank(b)
    <3>1. Ranked(a) = x /\ Ranked(b) = y
      BY <2>3 DEF K!Rank
    <3>2. /\ x \in [1 .. 9 -> Int] /\ x[1] = K!FamilyOrder[a.family] /\ x[2] = a.page
          /\ y \in [1 .. 9 -> Int] /\ y[1] = K!FamilyOrder[b.family] /\ y[2] = b.page
      BY <2>1, DocumentRankIs
    <3>3. K!Before(x, y)
      BY <2>1, <3>1
    <3> HIDE DEF x, y
    <3>4. x[1] <= y[1] /\ (x[1] = y[1] => x[2] <= y[2])
      <4>1. \A j \in 1 .. 9 : (\A i \in 1 .. j - 1 : x[i] = y[i]) => x[j] <= y[j]
        BY <3>2, <3>3, BeforeByPrefix
      <4> QED
        BY <4>1
    <3>5. /\ K!FamilyOrder["retail_tariff"] = 0
          /\ \A f \in K!NetworkFamilies : K!FamilyOrder[f] \in Nat \ {0} /\ f # "retail_tariff"
      BY DEF K!FamilyOrder, K!NetworkFamilies
    <3>6. a.family \in K!NetworkFamilies \cup {"retail_tariff"} /\ b.family \in K!NetworkFamilies \cup {"retail_tariff"}
      BY <2>1 DEF CandidateOK
    <3>7. a.family = b.family => a.page <= b.page
      BY <3>2, <3>4
    <3>8. b.family = "retail_tariff" => a.family = "retail_tariff"
      BY <3>2, <3>4, <3>5, <3>6
    <3> HIDE DEF a, b
    <3>9. LET family == [r \in {a, b} |-> IF r.family = "retail_tariff" THEN 0 ELSE 1] IN family[a] <= family[b]
      BY <3>8
    <3> QED
      BY <2>3, <3>7, <3>9 DEF a, b
  <2> QED
    BY <2>2, <2>3
<1> HIDE DEF S, covered
<1> QED
  BY <1>3, <1>5, <1>6, <1>7 DEF K!QueueHolds, out

LEMMA SameInValidators == (\A S : V!Cardinality(S) = Cardinality(S)) /\ (\A f : V!SumFunction(f) = SumFunction(f))
BY DEF V!Cardinality, Cardinality, V!SumFunction, V!SumFunctionOnSet, V!FoldFunctionOnSet, V!MapThenFoldSet,
       SumFunction, SumFunctionOnSet, FoldFunctionOnSet, MapThenFoldSet

-----------------------------------------------------------------------------
(* The hours of a day.                                                     *)

HoursOf(b) == IF b.to > b.from THEN b.from .. b.to - 1 ELSE (b.from .. 23) \cup (0 .. b.to - 1)

LEMMA CandidatesAre ==
  ASSUME NEW ctx, NEW Rec, ctx.candidates \in Seq(Rec)
  PROVE  /\ V!Cs(ctx) = {ctx.candidates[i] : i \in DOMAIN ctx.candidates} /\ IsFiniteSet(V!Cs(ctx))
         /\ DOMAIN ctx.candidates = 1 .. Len(ctx.candidates) /\ Len(ctx.candidates) \in Nat
<1>1. DOMAIN ctx.candidates = 1 .. Len(ctx.candidates) /\ Len(ctx.candidates) \in Nat
  OBVIOUS
<1>2. V!Cs(ctx) = {ctx.candidates[i] : i \in DOMAIN ctx.candidates}
  BY DEF V!Cs, V!ToSet
<1> DEFINE f == ctx.candidates
<1>d. f = [i \in DOMAIN f |-> f[i]]
  OBVIOUS
<1>3. IsFiniteSet(DOMAIN f)
  <2>1. IsFiniteSet(1 .. Len(ctx.candidates))
    BY <1>1, FS_Interval
  <2> QED
    BY <1>1, <2>1
<1> HIDE DEF f
<1>4. IsFiniteSet({f[i] : i \in DOMAIN f})
  BY <1>3, <1>d, ImageIsFinite
<1> QED
  BY <1>1, <1>2, <1>4 DEF f

LEMMA IntervalCount ==
  ASSUME NEW a \in Int, NEW b \in Int, a <= b + 1
  PROVE  IsFiniteSet(a .. b) /\ Cardinality(a .. b) = b - a + 1
<1>1. IsFiniteSet(a .. b) /\ Cardinality(a .. b) = IF a > b THEN 0 ELSE b - a + 1
  BY ONLY FS_Interval, SMT
<1> QED
  BY <1>1

LEMMA HoursCounted ==
  ASSUME NEW b, b.from \in 0 .. 23, b.to \in 0 .. 24
  PROVE  HoursOf(b) \in SUBSET (0 .. 23) /\ Cardinality(HoursOf(b)) = V!Hours(b)
<1> DEFINE from == b.from
           to == b.to
<1>i. from \in Int /\ to \in Int /\ 0 <= from /\ from <= 23 /\ 0 <= to /\ to <= 24
  OBVIOUS
<1>h. /\ HoursOf(b) = IF to > from THEN from .. to - 1 ELSE (from .. 23) \cup (0 .. to - 1)
      /\ V!Hours(b) = IF to > from THEN to - from ELSE 24 - from + to
  BY DEF HoursOf, V!Hours
<1> HIDE DEF from, to
<1>1. HoursOf(b) \in SUBSET (0 .. 23)
  BY <1>i, <1>h
<1>2. CASE to > from
  <2>1. Cardinality(from .. to - 1) = (to - 1) - from + 1
    BY <1>2, <1>i, FS_Interval
  <2> QED
    BY <1>1, <1>2, <1>i, <1>h, <2>1
<1>3. CASE ~(to > from)
  <2> DEFINE A == from .. 23
             B == 0 .. to - 1
  <2> HIDE DEF A, B
  <2>1. IsFiniteSet(A) /\ Cardinality(A) = 23 - from + 1
    <3>1. 23 \in Int /\ from \in Int /\ from <= 23 + 1
      BY <1>i
    <3> QED
      BY <3>1, IntervalCount, Zenon DEF A
  <2>2. IsFiniteSet(B) /\ Cardinality(B) = (to - 1) - 0 + 1
    <3>1. 0 \in Int /\ to - 1 \in Int /\ 0 <= to - 1 + 1
      BY <1>i
    <3> QED
      BY <3>1, IntervalCount, Zenon DEF B
  <2>3. A \cap B = {}
    BY <1>3, <1>i DEF A, B
  <2>4. Cardinality(A \cap B) = 0
    BY <2>3, FS_EmptySet
  <2>5. Cardinality(A \cup B) = Cardinality(A) + Cardinality(B) - Cardinality(A \cap B)
    BY <2>1, <2>2, FS_Union
  <2>6. HoursOf(b) = A \cup B /\ V!Hours(b) = 24 - from + to
    BY <1>3, <1>h DEF A, B
  <2>7. Cardinality(A \cup B) = 24 - from + to
    BY <1>i, <2>1, <2>2, <2>4, <2>5
  <2> QED
    BY <1>1, <2>6, <2>7
<1> QED
  BY <1>2, <1>3

\* A band that was read is of the hours of one day.
BandsOK(ctx) == \A c \in V!Banded(ctx) : V!Unread(c) \/ (c.band.from \in 0 .. 23 /\ c.band.to \in 0 .. 24)

\* Of any bands of one day, however many, in whatever seasons and read or not: where no warning names
\* a band, the bands read of its season cover the day unless two of them overlap.
THEOREM DayIsCovered ==
  ASSUME NEW ctx, NEW Rec, ctx.candidates \in Seq(Rec), BandsOK(ctx)
  PROVE  V!DayCovered(ctx)
<1> SUFFICES ASSUME NEW c \in V!Banded(ctx), \A f \in V!Val10(ctx) : f.severity = "warning" => V!Key(c) \notin f.keys,
                    \A i, j \in {i \in DOMAIN ctx.candidates : ctx.candidates[i] \in V!ReadBands(ctx, c)} :
                        i # j => HoursOf(ctx.candidates[i].band) \cap HoursOf(ctx.candidates[j].band) = {}
             PROVE  UNION {HoursOf(d.band) : d \in V!ReadBands(ctx, c)} = 0 .. 23
  BY Zenon DEF V!DayCovered, HoursOf
<1> DEFINE group == V!ReadBands(ctx, c)
           day == UNION {HoursOf(d.band) : d \in group}
<1>2. V!Cs(ctx) = {ctx.candidates[i] : i \in DOMAIN ctx.candidates} /\ IsFiniteSet(V!Cs(ctx))
  BY CandidatesAre
<1>3. group \in SUBSET V!Cs(ctx) /\ IsFiniteSet(group) /\ c \in V!BandGroup(ctx, c)
      /\ \A d \in group : d.band.from \in 0 .. 23 /\ d.band.to \in 0 .. 24
  <2>1. group \in SUBSET V!Cs(ctx) /\ c \in V!BandGroup(ctx, c) /\ \A d \in group : d \in V!Banded(ctx) /\ ~V!Unread(d)
    BY DEF V!ReadBands, V!BandGroup, V!Banded
  <2> HIDE DEF group
  <2> QED
    BY <1>2, <2>1, FS_Subset DEF BandsOK
<1>4. V!SumFunction([d \in group |-> V!Hours(d.band)]) = 24
  <2>1. ~V!Partial(ctx, c)
    <3> SUFFICES ASSUME V!Partial(ctx, c) PROVE FALSE
      OBVIOUS
    <3> DEFINE f == V!Finding("VAL-10", "warning", V!BandGroup(ctx, c))
    <3>1. f \in V!Val10(ctx)
      BY DEF V!Val10
    <3>2. f.severity = "warning" /\ V!Key(c) \in f.keys
      BY <1>3 DEF V!Finding
    <3> QED
      BY <3>1, <3>2
  <2> QED
    BY <2>1 DEF V!Partial
<1>5. \A d \in group : HoursOf(d.band) \in SUBSET (0 .. 23) /\ Cardinality(HoursOf(d.band)) = V!Hours(d.band)
  BY <1>3, HoursCounted
<1>6. \A d, e \in group : d # e => HoursOf(d.band) \cap HoursOf(e.band) = {}
  <2> HIDE DEF group
  <2> SUFFICES ASSUME NEW d \in group, NEW e \in group, d # e PROVE HoursOf(d.band) \cap HoursOf(e.band) = {}
    OBVIOUS
  <2>1. PICK i \in DOMAIN ctx.candidates : d = ctx.candidates[i]
    BY <1>2, <1>3
  <2>2. PICK j \in DOMAIN ctx.candidates : e = ctx.candidates[j]
    BY <1>2, <1>3
  <2>3. i \in {k \in DOMAIN ctx.candidates : ctx.candidates[k] \in group} /\ j \in {k \in DOMAIN ctx.candidates : ctx.candidates[k] \in group}
    BY <2>1, <2>2
  <2> QED
    BY <2>1, <2>2, <2>3 DEF group
<1> DEFINE f == [d \in group |-> HoursOf(d.band)]
<1> HIDE DEF group
<1>7. f \in [group -> SUBSET (0 .. 23)] /\ (\A d, e \in group : d # e => f[d] \cap f[e] = {})
      /\ \A d \in group : f[d] = HoursOf(d.band)
  BY <1>5, <1>6
<1>8. [d \in group |-> V!Hours(d.band)] = [d \in group |-> Cardinality(f[d])]
  BY <1>5, <1>7
<1> HIDE DEF f
<1>9. IsFiniteSet(0 .. 23) /\ Cardinality(0 .. 23) = 24
  <2>1. 0 \in Int /\ 23 \in Int /\ 0 <= 23 + 1
    OBVIOUS
  <2>2. IsFiniteSet(0 .. 23) /\ Cardinality(0 .. 23) = 23 - 0 + 1
    BY <2>1, IntervalCount, Zenon
  <2> QED
    BY <2>2
<1>10. Cardinality(Union(f, group)) = 24
  <2>1. SumFunction([d \in group |-> Cardinality(f[d])]) = Cardinality(Union(f, group))
    BY <1>3, <1>7, <1>9, SumOfDisjoint
  <2> QED
    BY <1>4, <1>8, <2>1, SameInValidators
<1>11. Union(f, group) \in SUBSET (0 .. 23)
  BY <1>7 DEF Union
<1>12. Union(f, group) = 0 .. 23
  BY <1>9, <1>10, <1>11, FS_Subset
<1>13. Union(f, group) = day
  BY <1>7 DEF Union
<1> QED
  BY <1>12, <1>13 DEF group

-----------------------------------------------------------------------------
(* The caps of the values an order derives.                                *)

\* What a derivation reads is in whole paise, or is not printed.
DerivationsOK(ctx) ==
    \A c \in V!Derived(ctx) :
        /\ c.value \in Int
        /\ c.derivation.formula # None => c.derivation.formula.T \in Int \cup {None} /\ c.derivation.formula.CAP \in Int \cup {None}
        /\ \A word \in {"cap", "tariff"} : V!InputOf(c.derivation.inputs, word) \in Int \cup {None}

\* Whatever an order prints of a formula or of a cap, an approved value above a fifth of the tariff
\* is blocked, though it is compared with the printed cap only.
THEOREM CapsAreKept ==
  ASSUME NEW ctx, None \notin Int, DerivationsOK(ctx)
  PROVE  V!CapsHold(ctx)
<1> SUFFICES ASSUME NEW c \in V!Derived(ctx), \A f \in V!Val07(ctx) : f.severity = "blocking" => V!Key(c) \notin f.keys
             PROVE  LET p == c.derivation.formula
                        tariff == V!InputOf(c.derivation.inputs, "tariff")
                    IN /\ p # None /\ V!Compute(p) # None => 5 * c.value <= p.T + 5
                       /\ c.derivation.rule = "cap" /\ tariff # None /\ V!InputOf(c.derivation.inputs, "cap") # None => 5 * c.value <= tariff + 5
  BY DEF V!CapsHold
<1> DEFINE p == c.derivation.formula
           cap == V!InputOf(c.derivation.inputs, "cap")
           tariff == V!InputOf(c.derivation.inputs, "tariff")
<1>1. "blocking" \notin V!FormulaSays(c) /\ "blocking" \notin V!RuleSays(c)
  <2> SUFFICES ASSUME "blocking" \in V!FormulaSays(c) \cup V!RuleSays(c) PROVE FALSE
    OBVIOUS
  <2> DEFINE f == V!Finding("VAL-07", "blocking", {c})
  <2>1. f \in V!Val07(ctx)
    BY DEF V!Val07
  <2>2. f.severity = "blocking" /\ V!Key(c) \in f.keys
    BY DEF V!Finding
  <2> QED
    BY <2>1, <2>2
<1>2. c.value \in Int /\ (p # None => p.T \in Int \cup {None} /\ p.CAP \in Int \cup {None}) /\ cap \in Int \cup {None} /\ tariff \in Int \cup {None}
  BY DEF DerivationsOK
<1>3. ASSUME p # None, V!Compute(p) # None PROVE 5 * c.value <= p.T + 5
  <2>1. p.T \in Int
    BY <1>2, <1>3 DEF V!Compute
  <2>2. /\ p.CAP # None => V!IsCapOf(p.CAP, p.T)
        /\ ~(IF p.CAP # None THEN c.value > p.CAP ELSE 5 * c.value - p.T > 2)
    BY <1>1, <1>3 DEF V!FormulaSays
  <2>3. CASE p.CAP # None
    <3>1. p.CAP \in Int /\ 5 * p.CAP - p.T \in -5 .. 5 /\ ~(c.value > p.CAP)
      BY <1>2, <1>3, <2>2, <2>3 DEF V!IsCapOf
    <3> QED
      BY <1>2, <2>1, <3>1
  <2>4. CASE p.CAP = None
    BY <1>2, <2>1, <2>2, <2>4
  <2> QED
    BY <2>3, <2>4
<1>4. ASSUME c.derivation.rule = "cap", tariff # None, cap # None PROVE 5 * c.value <= tariff + 5
  <2>1. "blocking" \notin V!CapSays(c)
    BY <1>1, <1>4 DEF V!RuleSays
  <2>2. V!IsCapOf(cap, tariff) /\ ~(c.value > cap)
    BY <1>4, <2>1 DEF V!CapSays
  <2>3. cap \in Int /\ tariff \in Int
    BY <1>2, <1>4
  <2> HIDE DEF cap, tariff
  <2>4. 5 * cap - tariff \in -5 .. 5
    BY <2>2 DEF V!IsCapOf
  <2> QED
    BY <1>2, <2>2, <2>3, <2>4
<1> QED
  BY <1>3, <1>4

-----------------------------------------------------------------------------
(* The slabs of a component.                                               *)

\* What is read of a slab: an absolute one has an upper bound, may lack a lower one, and of two
\* that end at one quantity both include it or neither does.
SlabsOK(ctx) ==
    /\ \A c \in V!Slabbed(ctx) : c.slab.kind = "absolute" =>
           c.slab.upper \in Int /\ c.slab.lower \in Int \cup {None}
    /\ \A c, d \in V!Slabbed(ctx) :
           c.slab.kind = "absolute" /\ d.slab.kind = "absolute" /\ c.slab.upper = d.slab.upper => c.slab.upperIn = d.slab.upperIn

Lower(ctx, cs) == {q \in V!Bounded(ctx, cs) \X V!Bounded(ctx, cs) : V!Below(ctx, q[1], q[2])}

LEMMA SlabsAreOrdered ==
  ASSUME NEW ctx, NEW Rec, ctx.candidates \in Seq(Rec), NEW cs \in SUBSET V!Slabbed(ctx), None \notin Int, SlabsOK(ctx)
  PROVE  /\ IsFiniteSet(V!Bounded(ctx, cs)) /\ StrictOrder(Lower(ctx, cs), V!Bounded(ctx, cs))
         /\ \A i \in V!Bounded(ctx, cs) : i \in Int /\ ctx.candidates[i].slab.upper \in Int
<1> DEFINE B == V!Bounded(ctx, cs)
           u(i) == ctx.candidates[i].slab.upper
<1>1. B \in SUBSET (1 .. Len(ctx.candidates)) /\ IsFiniteSet(1 .. Len(ctx.candidates))
  <2>1. DOMAIN ctx.candidates = 1 .. Len(ctx.candidates) /\ Len(ctx.candidates) \in Nat
    BY CandidatesAre
  <2> QED
    BY <2>1, FS_Interval DEF V!Bounded
<1>2. IsFiniteSet(B)
  BY <1>1, FS_Subset
<1>3. \A i \in B : i \in Int /\ u(i) \in Int
  BY <1>1 DEF SlabsOK, V!Bounded
<1>4. \A i, j : V!Below(ctx, i, j) <=> (u(i) < u(j) \/ (u(i) = u(j) /\ i < j))
  BY DEF V!Below
<1> HIDE DEF B, u
<1>5. \A i, j \in B : i # j => V!Below(ctx, i, j) \/ V!Below(ctx, j, i)
  BY <1>3, <1>4
<1>6. \A i \in B : ~V!Below(ctx, i, i)
  BY <1>3, <1>4
<1>7. \A i, j, k \in B : V!Below(ctx, i, j) /\ V!Below(ctx, j, k) => V!Below(ctx, i, k)
  BY <1>3, <1>4
<1>8. StrictOrder(Lower(ctx, cs), B)
  BY <1>5, <1>6, <1>7 DEF StrictOrder, Lower, B
<1> QED
  BY <1>2, <1>3, <1>8 DEF B, u

\* Between a bounded slab and one above it there is one that the upper one is compared with.
LEMMA OneBefore ==
  ASSUME NEW ctx, NEW Rec, ctx.candidates \in Seq(Rec), NEW cs \in SUBSET V!Slabbed(ctx), None \notin Int, SlabsOK(ctx),
         NEW i \in V!Bounded(ctx, cs), NEW j \in V!Bounded(ctx, cs), V!Below(ctx, i, j)
  PROVE  \E k \in V!Bounded(ctx, cs) : <<k, j>> \in V!Adjacent(ctx, cs) /\ (k = i \/ V!Below(ctx, i, k))
<1> DEFINE B == V!Bounded(ctx, cs)
           less == Lower(ctx, cs)
           place(x) == PlaceIn(less, B, x)
<1>1. IsFiniteSet(B) /\ StrictOrder(less, B)
  BY SlabsAreOrdered
<1>2. \A x, y \in B : <<x, y>> \in less <=> V!Below(ctx, x, y)
  BY DEF Lower
<1>3. V!Adjacent(ctx, cs) = {p \in B \X B : V!Below(ctx, p[1], p[2]) /\ \A k \in B : ~(V!Below(ctx, p[1], k) /\ V!Below(ctx, k, p[2]))}
  BY DEF V!Adjacent
<1> HIDE DEF B, less
<1>4. /\ Cardinality(B) \in Nat
      /\ \A x \in B : place(x) \in 1 .. Cardinality(B)
      /\ \A x, y \in B : place(x) = place(y) => x = y
      /\ \A n \in 1 .. Cardinality(B) : \E x \in B : place(x) = n
  BY <1>1, PlacesFill, FS_CardinalityType
<1>5. \A x, y \in B : V!Below(ctx, x, y) => place(x) < place(y)
  BY <1>1, <1>2, PlacesInOrder
<1>6. \A x, y \in B : x = y \/ V!Below(ctx, x, y) \/ V!Below(ctx, y, x)
  BY <1>1, <1>2 DEF StrictOrder
<1>7. i \in B /\ j \in B
  BY DEF B
<1> HIDE DEF place
<1>8. place(i) < place(j) /\ place(j) - 1 \in 1 .. Cardinality(B)
  BY <1>4, <1>5, <1>7
<1>9. PICK k \in B : place(k) = place(j) - 1
  BY <1>4, <1>8
<1>10. V!Below(ctx, k, j)
  BY <1>4, <1>5, <1>6, <1>7, <1>9
<1>11. \A x \in B : ~(V!Below(ctx, k, x) /\ V!Below(ctx, x, j))
  BY <1>4, <1>5, <1>7, <1>9
<1>12. k = i \/ V!Below(ctx, i, k)
  BY <1>4, <1>5, <1>6, <1>7, <1>8, <1>9
<1> QED
  BY <1>3, <1>7, <1>9, <1>10, <1>11, <1>12 DEF B

Inside(d, x) ==
    /\ x > d.slab.lower \/ (x = d.slab.lower /\ d.slab.lowerIn)
    /\ x < d.slab.upper \/ (x = d.slab.upper /\ d.slab.upperIn)

\* The later of two slabs that share a quantity is named by a finding.
LEMMA SharedIsNamed ==
  ASSUME NEW ctx, NEW Rec, ctx.candidates \in Seq(Rec), NEW cs \in SUBSET V!Slabbed(ctx), None \notin Int, SlabsOK(ctx),
         NEW i \in V!Bounded(ctx, cs), NEW j \in V!Bounded(ctx, cs), V!Below(ctx, i, j),
         ctx.candidates[i].slab.lower \in Int, ctx.candidates[j].slab.lower \in Int,
         NEW x \in Int, Inside(ctx.candidates[i], x), Inside(ctx.candidates[j], x)
  PROVE  \E f \in V!Disjoined(ctx, cs) : f.severity = "warning" /\ V!Key(ctx.candidates[j]) \in f.keys
<1> DEFINE s(n) == ctx.candidates[n].slab
<1>1. PICK k \in V!Bounded(ctx, cs) : <<k, j>> \in V!Adjacent(ctx, cs) /\ (k = i \/ V!Below(ctx, i, k))
  BY OneBefore
<1>2. s(i).upper \in Int /\ s(k).upper \in Int /\ s(j).upper \in Int /\ s(i).upper <= s(k).upper
  <2>1. s(i).upper \in Int /\ s(k).upper \in Int /\ s(j).upper \in Int
    BY SlabsAreOrdered
  <2>2. k = i \/ s(i).upper < s(k).upper \/ s(i).upper = s(k).upper
    BY <1>1 DEF V!Below
  <2> HIDE DEF s
  <2> QED
    BY <2>1, <2>2
<1>3. s(i).upper = s(k).upper => s(i).upperIn = s(k).upperIn
  BY DEF SlabsOK, V!Bounded
<1>4. /\ x < s(i).upper \/ (x = s(i).upper /\ s(i).upperIn)
      /\ x > s(j).lower \/ (x = s(j).lower /\ s(j).lowerIn)
      /\ s(j).lower \in Int
  BY DEF Inside
<1>5. V!Overlap(s(k), s(j)) <=> (s(j).lower < s(k).upper \/ (s(j).lower = s(k).upper /\ s(k).upperIn /\ s(j).lowerIn))
  BY DEF V!Overlap
<1> HIDE DEF s
<1>6. V!Overlap(s(k), s(j))
  BY <1>2, <1>3, <1>4, <1>5
<1>7. s(j).lower # None
  BY <1>4
<1> DEFINE F == V!Finding("VAL-03", "warning", {ctx.candidates[k], ctx.candidates[j]})
<1>8. F \in V!Disjoined(ctx, cs)
  <2> DEFINE p == <<k, j>>
  <2>1. p[1] = k /\ p[2] = j /\ p \in V!Adjacent(ctx, cs)
    BY <1>1
  <2>2. F = V!Finding("VAL-03", "warning", {ctx.candidates[p[1]], ctx.candidates[p[2]]})
    BY <2>1
  <2>3. ctx.candidates[p[2]].slab.lower # None /\ V!Overlap(ctx.candidates[p[1]].slab, ctx.candidates[p[2]].slab)
    BY <1>6, <1>7, <2>1 DEF s
  <2> HIDE DEF p, F
  <2> QED
    BY <2>1, <2>2, <2>3 DEF V!Disjoined
<1>9. F.severity = "warning" /\ V!Key(ctx.candidates[j]) \in F.keys
  BY DEF V!Finding
<1> QED
  BY <1>8, <1>9

\* Of any slabs of a component, however many, a quantity that two of them hold is the matter of a
\* finding that names one of the two (val_03_slab_bounds).
THEOREM SlabsDoNotMeet ==
  ASSUME NEW ctx, NEW Rec, ctx.candidates \in Seq(Rec), None \notin Int, SlabsOK(ctx)
  PROVE  V!SlabsApart(ctx)
<1> SUFFICES ASSUME NEW c \in V!Slabbed(ctx), ~V!Telescopic(V!Siblings(ctx, c)),
                    NEW d \in V!Siblings(ctx, c), d.slab.kind = "absolute", d.slab.lower # None,
                    NEW e \in V!Siblings(ctx, c), e.slab.kind = "absolute", e.slab.lower # None, d # e,
                    NEW x \in 0 .. 6, Inside(d, x), Inside(e, x)
             PROVE  \E f \in V!Val03(ctx), g \in {d, e} : f.severity = "warning" /\ V!Key(g) \in f.keys
  BY DEF V!SlabsApart, Inside
<1> DEFINE cs == V!Siblings(ctx, c)
<1>1. cs \in SUBSET V!Slabbed(ctx) /\ V!Slabbed(ctx) \in SUBSET V!Cs(ctx)
  BY DEF V!Siblings, V!Slabbed, V!Retail
<1>2. PICK i \in DOMAIN ctx.candidates : d = ctx.candidates[i]
  BY <1>1, CandidatesAre
<1>3. PICK j \in DOMAIN ctx.candidates : e = ctx.candidates[j]
  BY <1>1, CandidatesAre
<1>4. /\ d.slab.upper \in Int /\ d.slab.lower \in Int /\ e.slab.upper \in Int /\ e.slab.lower \in Int /\ x \in Int
  BY <1>1 DEF SlabsOK
<1>5. i \in V!Bounded(ctx, cs) /\ j \in V!Bounded(ctx, cs) /\ i # j
  BY <1>2, <1>3, <1>4 DEF V!Bounded
<1>6. V!Below(ctx, i, j) \/ V!Below(ctx, j, i)
  BY <1>1, <1>5, SlabsAreOrdered DEF V!Below
<1>7. V!Disjoined(ctx, cs) \subseteq V!Val03(ctx)
  BY DEF V!Val03
<1> HIDE DEF cs
<1>8. CASE V!Below(ctx, i, j)
  <2>1. \E f \in V!Disjoined(ctx, cs) : f.severity = "warning" /\ V!Key(e) \in f.keys
    BY <1>1, <1>2, <1>3, <1>4, <1>5, <1>8, SharedIsNamed
  <2> QED
    BY <1>7, <2>1
<1>9. CASE V!Below(ctx, j, i)
  <2>1. \E f \in V!Disjoined(ctx, cs) : f.severity = "warning" /\ V!Key(d) \in f.keys
    BY <1>1, <1>2, <1>3, <1>4, <1>5, <1>9, SharedIsNamed
  <2> QED
    BY <1>7, <2>1
<1> QED
  BY <1>6, <1>8, <1>9

-----------------------------------------------------------------------------
(* The findings that reach a row.                                          *)

LEMMA ThreeAreFinite ==
  ASSUME NEW a, NEW b, NEW c
  PROVE  IsFiniteSet({a, b, c})
<1>1. IsFiniteSet({a} \cup {b})
  BY FS_Singleton, FS_AddElement
<1>2. IsFiniteSet(({a} \cup {b}) \cup {c})
  BY <1>1, FS_AddElement
<1>3. {a, b, c} = ({a} \cup {b}) \cup {c}
  OBVIOUS
<1> QED
  BY <1>2, <1>3

RowIds == {"VAL-01", "VAL-09", "VAL-11"} \cup {"VAL-12", "VAL-17", "VAL-18"}
GroupIds == {"VAL-02", "VAL-03", "VAL-04"} \cup {"VAL-10", "VAL-13", "VAL-16"}
OrderIds == {"VAL-05", "VAL-06", "VAL-07"} \cup {"VAL-08", "VAL-15", "VAL-19"}
Ids == RowIds \cup (GroupIds \cup OrderIds)
Severities == {"info", "warning", "blocking"}

\* The findings that name candidates.
Citing(ctx) == {V!Finding(id, severity, cs) : id \in Ids, severity \in Severities, cs \in SUBSET V!Cs(ctx)}

LEMMA NamingIsFinite ==
  ASSUME NEW ctx, IsFiniteSet(V!Cs(ctx))
  PROVE  IsFiniteSet(Citing(ctx))
<1> DEFINE P == (Ids \X Severities) \X SUBSET V!Cs(ctx)
           f == [p \in P |-> V!Finding(p[1][1], p[1][2], p[2])]
<1>1. IsFiniteSet(Ids) /\ IsFiniteSet(Severities)
  <2>1. IsFiniteSet(RowIds) /\ IsFiniteSet(GroupIds) /\ IsFiniteSet(OrderIds)
    BY ThreeAreFinite, FS_Union DEF RowIds, GroupIds, OrderIds
  <2>2. IsFiniteSet(Severities)
    BY ThreeAreFinite DEF Severities
  <2>3. IsFiniteSet(GroupIds \cup OrderIds)
    BY <2>1, FS_Union
  <2> QED
    BY <2>1, <2>2, <2>3, FS_Union DEF Ids
<1>2. IsFiniteSet(SUBSET V!Cs(ctx))
  BY FS_SUBSET
<1>3. IsFiniteSet(Ids \X Severities)
  BY <1>1, FS_Product
<1>4. IsFiniteSet(P)
  BY <1>2, <1>3, FS_Product
<1>5. DOMAIN f = P /\ f = [p \in P |-> f[p]]
  OBVIOUS
<1>6. Citing(ctx) = {f[p] : p \in P}
  <2>1. ASSUME NEW id \in Ids, NEW severity \in Severities, NEW cs \in SUBSET V!Cs(ctx)
        PROVE  <<<<id, severity>>, cs>> \in P /\ f[<<<<id, severity>>, cs>>] = V!Finding(id, severity, cs)
    OBVIOUS
  <2>2. ASSUME NEW p \in P
        PROVE  p[1][1] \in Ids /\ p[1][2] \in Severities /\ p[2] \in SUBSET V!Cs(ctx) /\ f[p] = V!Finding(p[1][1], p[1][2], p[2])
    OBVIOUS
  <2> HIDE DEF P, f
  <2>3. Citing(ctx) \subseteq {f[p] : p \in P}
    <3> SUFFICES ASSUME NEW x \in Citing(ctx) PROVE \E p \in P : x = f[p]
      OBVIOUS
    <3>1. PICK id \in Ids, severity \in Severities, cs \in SUBSET V!Cs(ctx) : x = V!Finding(id, severity, cs)
      BY DEF Citing
    <3> QED
      BY <2>1, <3>1
  <2>4. {f[p] : p \in P} \subseteq Citing(ctx)
    BY <2>2 DEF Citing
  <2> QED
    BY <2>3, <2>4
<1> HIDE DEF P, f
<1>7. IsFiniteSet({f[p] : p \in P})
  BY <1>4, <1>5, ImageIsFinite
<1> QED
  BY <1>6, <1>7

LEMMA EachNames ==
  ASSUME NEW ctx, NEW id \in Ids, NEW severity \in Severities, NEW cs \in SUBSET V!Cs(ctx)
  PROVE  V!Each(id, severity, cs) \subseteq Citing(ctx)
<1> SUFFICES ASSUME NEW c \in cs PROVE V!Finding(id, severity, {c}) \in Citing(ctx)
  BY DEF V!Each
<1>1. {c} \in SUBSET V!Cs(ctx)
  OBVIOUS
<1> QED
  BY <1>1 DEF Citing

LEMMA OneNames ==
  ASSUME NEW ctx, NEW id \in Ids, NEW severity \in Severities, NEW cs \in SUBSET V!Cs(ctx)
  PROVE  V!Finding(id, severity, cs) \in Citing(ctx)
BY DEF Citing

LEMMA Identities ==
  /\ {"VAL-01", "VAL-02", "VAL-03", "VAL-04", "VAL-05", "VAL-06"} \subseteq Ids
  /\ {"VAL-07", "VAL-08", "VAL-09", "VAL-10", "VAL-11", "VAL-12"} \subseteq Ids
  /\ {"VAL-13", "VAL-15", "VAL-16", "VAL-17", "VAL-18", "VAL-19"} \subseteq Ids
  /\ {"info", "warning", "blocking"} \subseteq Severities
BY DEF Ids, RowIds, GroupIds, OrderIds, Severities

\* A validator's findings name candidates of the order, or none.
Found(ctx, findings) == \A f \in findings : f \in Citing(ctx) \/ f.keys = {}

LEMMA FoundOneByOne ==
  ASSUME NEW ctx
  PROVE  /\ Found(ctx, V!Val01(ctx)) /\ Found(ctx, V!Val09(ctx)) /\ Found(ctx, V!Val11(ctx)) /\ Found(ctx, V!Val12(ctx))
         /\ Found(ctx, V!Val13(ctx)) /\ Found(ctx, V!Val17(ctx)) /\ Found(ctx, V!Val18(ctx)) /\ Found(ctx, V!Val19(ctx))
<1>0. V!Retail(ctx) \subseteq V!Cs(ctx)
  BY DEF V!Retail
<1>1. V!Val01(ctx) \subseteq Citing(ctx)
  BY EachNames, Identities DEF V!Val01
<1>2. V!Val09(ctx) \subseteq Citing(ctx)
  BY EachNames, Identities DEF V!Val09
<1>3. V!Val11(ctx) \subseteq Citing(ctx)
  BY EachNames, Identities DEF V!Val11
<1>4. V!Val12(ctx) \subseteq Citing(ctx)
  BY EachNames, Identities DEF V!Val12
<1>5. V!Val13(ctx) \subseteq Citing(ctx)
  BY EachNames, Identities DEF V!Val13
<1>6. V!Val17(ctx) \subseteq Citing(ctx)
  BY <1>0, EachNames, Identities DEF V!Val17
<1>7. V!Val18(ctx) \subseteq Citing(ctx)
  BY <1>0, EachNames, Identities DEF V!Val18
<1>8. V!Val19(ctx) \subseteq Citing(ctx)
  <2>1. V!Each("VAL-19", "blocking", {c \in V!Retail(ctx) : V!Shifted(c)}) \subseteq Citing(ctx)
    BY <1>0, EachNames, Identities
  <2>2. \A c, d \in V!Retail(ctx) : V!Finding("VAL-19", "warning", {c, d}) \in Citing(ctx)
    BY <1>0, OneNames, Identities
  <2>3. \A x \in V!Val19(ctx) : \/ x \in V!Each("VAL-19", "blocking", {c \in V!Retail(ctx) : V!Shifted(c)})
                               \/ \E c, d \in V!Retail(ctx) : x = V!Finding("VAL-19", "warning", {c, d})
    <3> SUFFICES ASSUME NEW x \in V!Val19(ctx), x \notin V!Each("VAL-19", "blocking", {c \in V!Retail(ctx) : V!Shifted(c)})
                 PROVE  \E c, d \in V!Retail(ctx) : x = V!Finding("VAL-19", "warning", {c, d})
      OBVIOUS
    <3> DEFINE told(c) == {V!Finding("VAL-19", "warning", {c, d}) : d \in
                             {d \in V!Retail(ctx) :
                                /\ V!Printed(c) /\ V!Printed(d) /\ c.cell # None /\ c.cell = d.cell
                                /\ c.component \in {"fixed", "demand"} /\ d.component = "energy" /\ c.unit # None /\ c.unit = d.unit}}
    <3>1. V!Val19(ctx) = V!Each("VAL-19", "blocking", {c \in V!Retail(ctx) : V!Shifted(c)}) \cup UNION {told(c) : c \in V!Retail(ctx)}
      BY Zenon DEF V!Val19
    <3> HIDE DEF told
    <3>2. PICK c \in V!Retail(ctx) : x \in told(c)
      BY <3>1
    <3> QED
      BY <3>2 DEF told
  <2> QED
    BY <2>1, <2>2, <2>3
<1> QED
  BY <1>1, <1>2, <1>3, <1>4, <1>5, <1>6, <1>7, <1>8 DEF Found

LEMMA FoundInGroups ==
  ASSUME NEW ctx
  PROVE  /\ Found(ctx, V!Val02(ctx)) /\ Found(ctx, V!Val03(ctx)) /\ Found(ctx, V!Val04(ctx)) /\ Found(ctx, V!Val10(ctx))
         /\ Found(ctx, V!Val16(ctx))
<1>0. V!Retail(ctx) \subseteq V!Cs(ctx) /\ V!Slabbed(ctx) \subseteq V!Cs(ctx)
  BY DEF V!Retail, V!Slabbed
<1>1. V!Val02(ctx) \subseteq Citing(ctx)
  <2> DEFINE alike(c) == {d \in V!Retail(ctx) : d.category = c.category /\ d.component = c.component}
  <2>1. V!Val02(ctx) \subseteq {V!Finding("VAL-02", "warning", alike(c)) : c \in V!Retail(ctx)}
    BY DEF V!Val02
  <2>2. \A c : alike(c) \in SUBSET V!Cs(ctx)
    BY <1>0
  <2> HIDE DEF alike
  <2> QED
    BY <2>1, <2>2, OneNames, Identities
<1>2. V!Val03(ctx) \subseteq Citing(ctx)
  <2>1. \A c : V!Siblings(ctx, c) \in SUBSET V!Cs(ctx)
    BY <1>0 DEF V!Siblings
  <2>2. \A cs \in SUBSET V!Cs(ctx) : V!Finding("VAL-03", "warning", cs) \in Citing(ctx) /\ V!Finding("VAL-03", "info", cs) \in Citing(ctx)
    BY OneNames, Identities
  <2>3. ASSUME NEW cs \in SUBSET V!Cs(ctx) PROVE V!Disjoined(ctx, cs) \subseteq Citing(ctx)
    <3>1. \A i \in V!Bounded(ctx, cs) : ctx.candidates[i] \in cs
      BY DEF V!Bounded
    <3>2. \A p \in V!Adjacent(ctx, cs) : ctx.candidates[p[1]] \in cs /\ ctx.candidates[p[2]] \in cs
      BY <3>1 DEF V!Adjacent
    <3>3. \A p \in V!Adjacent(ctx, cs) : V!Finding("VAL-03", "warning", {ctx.candidates[p[1]], ctx.candidates[p[2]]}) \in Citing(ctx)
      <4> SUFFICES ASSUME NEW p \in V!Adjacent(ctx, cs)
                   PROVE  V!Finding("VAL-03", "warning", {ctx.candidates[p[1]], ctx.candidates[p[2]]}) \in Citing(ctx)
        OBVIOUS
      <4>1. {ctx.candidates[p[1]], ctx.candidates[p[2]]} \in SUBSET V!Cs(ctx)
        BY <3>2
      <4> QED
        BY <2>2, <4>1
    <3> QED
      BY <3>3 DEF V!Disjoined
  <2> QED
    BY <2>1, <2>2, <2>3 DEF V!Val03
<1>3. V!Val04(ctx) \subseteq Citing(ctx)
  <2> DEFINE group(c) == {d \in {e \in V!Cs(ctx) : e.alternative # 0} : d.category = c.category}
  <2>1. \A f \in V!Val04(ctx) : \E c \in V!Cs(ctx) : f = V!Finding("VAL-04", "blocking", group(c)) \/ f = V!Finding("VAL-04", "info", group(c))
    BY DEF V!Val04
  <2>2. \A c : group(c) \in SUBSET V!Cs(ctx)
    OBVIOUS
  <2> HIDE DEF group
  <2> QED
    BY <2>1, <2>2, OneNames, Identities
<1>4. V!Val10(ctx) \subseteq Citing(ctx)
  <2>1. V!Banded(ctx) \in SUBSET V!Cs(ctx) /\ \A c : V!BandGroup(ctx, c) \in SUBSET V!Cs(ctx)
    BY DEF V!Banded, V!BandGroup
  <2>2. {c \in V!Banded(ctx) : V!Unread(c)} \in SUBSET V!Cs(ctx)
    BY <2>1
  <2>3. V!Each("VAL-10", "warning", {c \in V!Banded(ctx) : V!Unread(c)}) \subseteq Citing(ctx)
    BY <2>2, EachNames, Identities
  <2>4. \A c, severity : severity \in Severities => V!Finding("VAL-10", severity, V!BandGroup(ctx, c)) \in Citing(ctx)
    BY <2>1, OneNames, Identities
  <2>5. \A f \in V!Val10(ctx) : \/ f \in V!Each("VAL-10", "warning", {c \in V!Banded(ctx) : V!Unread(c)})
                               \/ \E c, severity : severity \in Severities /\ f = V!Finding("VAL-10", severity, V!BandGroup(ctx, c))
    BY Identities DEF V!Val10
  <2> QED
    BY <2>3, <2>4, <2>5
<1>5. Found(ctx, V!Val16(ctx))
  <2>1. \A cs \in SUBSET V!Cs(ctx) : V!Each("VAL-16", "warning", cs) \subseteq Citing(ctx)
    BY EachNames, Identities
  <2>2. \A cs \in SUBSET V!Cs(ctx) : V!Finding("VAL-16", "blocking", cs) \in Citing(ctx)
    BY OneNames, Identities
  <2>3. V!Finding("VAL-16", "warning", {}) \in Citing(ctx)
    BY OneNames, Identities
  <2>4. \A i \in DOMAIN ctx.candidates : ctx.candidates[i] \in V!Cs(ctx)
    BY DEF V!Cs, V!ToSet
  <2> DEFINE roles(c) == UNION {V!RolesOf(ctx, p.page) : p \in c.places}
             role(c) == IF "approved_summary" \in roles(c) THEN "approved_summary"
                        ELSE IF "approved_schedule" \in roles(c) THEN "approved_schedule" ELSE None
             valued(i) == ctx.candidates[i].family = "retail_tariff" /\ ctx.candidates[i].value # None
             about(i) == <<role(ctx.candidates[i]), ctx.candidates[i].category, ctx.candidates[i].component>>
             last == {i \in DOMAIN ctx.candidates : valued(i) /\ \A j \in i + 1 .. Len(ctx.candidates) : ~(valued(j) /\ about(j) = about(i))}
             table(s) == {ctx.candidates[i] : i \in {i \in last : about(i)[1] = s}}
             twins(c) == {d \in table("approved_schedule") : d.category = c.category /\ d.component = c.component}
             read == table("approved_summary")
  <2>5. V!Val16(ctx) = IF ~ctx.secondary THEN {}
                       ELSE IF read = {} THEN {V!Finding("VAL-16", "warning", {})}
                       ELSE V!Each("VAL-16", "warning", {c \in read : twins(c) = {}})
                            \cup {V!Finding("VAL-16", "blocking", {c} \cup twins(c)) : c \in {c \in read : \E d \in twins(c) : d.value # c.value}}
    BY Zenon DEF V!Val16
  <2>6. \A s : table(s) \in SUBSET V!Cs(ctx)
    <3> HIDE DEF valued, about
    <3> QED
      BY <2>4
  <2> HIDE DEF table
  <2>7. read \in SUBSET V!Cs(ctx) /\ \A c : twins(c) \in SUBSET V!Cs(ctx)
    BY <2>6
  <2> HIDE DEF twins, read
  <2>8. {c \in read : twins(c) = {}} \in SUBSET V!Cs(ctx) /\ \A c \in read : {c} \cup twins(c) \in SUBSET V!Cs(ctx)
    BY <2>7
  <2>9. \A x \in V!Val16(ctx) : \/ x = V!Finding("VAL-16", "warning", {})
                               \/ x \in V!Each("VAL-16", "warning", {c \in read : twins(c) = {}})
                               \/ \E c \in read : x = V!Finding("VAL-16", "blocking", {c} \cup twins(c))
    BY <2>5
  <2>10. \A c \in read : V!Finding("VAL-16", "blocking", {c} \cup twins(c)) \in Citing(ctx)
    BY <2>2, <2>8
  <2> QED
    BY <2>1, <2>3, <2>8, <2>9, <2>10 DEF Found
<1> QED
  BY <1>1, <1>2, <1>3, <1>4, <1>5 DEF Found

LEMMA FoundOfTheOrder ==
  ASSUME NEW ctx
  PROVE  /\ Found(ctx, V!Val05(ctx)) /\ Found(ctx, V!Val06(ctx)) /\ Found(ctx, V!Val07(ctx)) /\ Found(ctx, V!Val08(ctx))
         /\ Found(ctx, V!Val15(ctx))
<1>0. \A id, severity : V!Finding(id, severity, {}).keys = {}
  BY DEF V!Finding
<1>1. Found(ctx, V!Val05(ctx))
  BY <1>0 DEF V!Val05, Found
<1>2. Found(ctx, V!Val06(ctx))
  BY DEF V!Val06, Found
<1>3. Found(ctx, V!Val07(ctx))
  <2>1. \A c : V!FormulaSays(c) \subseteq Severities
    BY DEF V!FormulaSays, Severities
  <2>2. \A c : V!RuleSays(c) \subseteq Severities
    BY DEF V!RuleSays, V!SalesSay, V!LowestSays, V!CapSays, Severities
  <2>3. \A f \in V!Val07(ctx) : \E c \in V!Cs(ctx), severity \in Severities : f = V!Finding("VAL-07", severity, {c})
    BY <2>1, <2>2 DEF V!Val07, V!Derived
  <2>4. \A c \in V!Cs(ctx), severity \in Severities : V!Finding("VAL-07", severity, {c}) \in Citing(ctx)
    BY OneNames, Identities
  <2> QED
    BY <2>3, <2>4 DEF Found
<1>4. Found(ctx, V!Val08(ctx))
  BY <1>0, EachNames, Identities DEF V!Val08, Found
<1>5. Found(ctx, V!Val15(ctx))
  <2> DEFINE of(code) == {c \in V!Cs(ctx) : c.category = code}
  <2>1. \A f \in V!Val15(ctx) : \/ f = V!Finding("VAL-15", "warning", {})
                               \/ \E code : f = V!Finding("VAL-15", "warning", of(code))
    BY DEF V!Val15
  <2>2. \A code : of(code) \in SUBSET V!Cs(ctx)
    OBVIOUS
  <2> HIDE DEF of
  <2>3. \A code : V!Finding("VAL-15", "warning", of(code)) \in Citing(ctx)
    BY <2>2, OneNames, Identities
  <2> QED
    BY <1>0, <2>1, <2>3 DEF Found
<1> QED
  BY <1>1, <1>2, <1>3, <1>4, <1>5

LEMMA FoundByAll ==
  ASSUME NEW ctx
  PROVE  Found(ctx, V!RunAll(ctx))
BY FoundOneByOne, FoundInGroups, FoundOfTheOrder DEF V!RunAll, Found

\* A row that is flagged is out of the batch and below high confidence.
RowOK(row) ==
    /\ row.flagged \in BOOLEAN /\ row.batch \in BOOLEAN
    /\ row.flagged => ~row.batch /\ row.confidence # "high"
    /\ {"flagged", "batch", "confidence", "findings", "blocking"} \subseteq DOMAIN row

\* Whatever rows there are, whatever keys they stand under and whatever is found: a finding reaches
\* every row under a key it names; what is found of a record reaches its row where the row stands
\* under the record's key; and a blocking finding about candidates that blocks no row is about a
\* record whose key is no longer its row's (validate_source).
THEOREM RowsAreBlocked ==
  ASSUME NEW ctx, "candidates" \in DOMAIN ctx,
         NEW Row, NEW rows \in Seq(Row), \A i \in DOMAIN rows : RowOK(rows[i])
  PROVE  V!RowsBlocked(rows, ctx, V!ValidateRows(rows, ctx))
<1> DEFINE read == [ctx EXCEPT !.candidates = [i \in DOMAIN rows |-> rows[i].record]]
           findings == V!RunAll(read)
           after == V!ValidateRows(rows, ctx)
<1>1. /\ read.candidates = [i \in DOMAIN rows |-> rows[i].record] /\ DOMAIN rows = 1 .. Len(rows) /\ Len(rows) \in Nat
  OBVIOUS
<1>2. V!Cs(read) = {rows[i].record : i \in DOMAIN rows} /\ IsFiniteSet(V!Cs(read))
  <2> DEFINE f == [i \in DOMAIN rows |-> rows[i].record]
  <2>1. DOMAIN f = DOMAIN rows /\ f = [i \in DOMAIN rows |-> f[i]] /\ \A i \in DOMAIN rows : f[i] = rows[i].record
    OBVIOUS
  <2>2. V!Cs(read) = {f[i] : i \in DOMAIN f}
    BY <1>1 DEF V!Cs, V!ToSet
  <2> HIDE DEF f, read
  <2>3. IsFiniteSet(1 .. Len(rows))
    BY <1>1, FS_Interval
  <2>4. IsFiniteSet({f[i] : i \in DOMAIN rows})
    <3>1. IsFiniteSet(DOMAIN rows)
      BY <1>1, <2>3
    <3> QED
      BY <2>1, <3>1, ImageIsFinite
  <2>5. {f[i] : i \in DOMAIN rows} = {rows[i].record : i \in DOMAIN rows}
    BY <2>1
  <2>6. V!Cs(read) = {f[i] : i \in DOMAIN rows}
    BY <2>1, <2>2
  <2> QED
    BY <2>4, <2>5, <2>6
<1>3. IsFiniteSet(Citing(read)) /\ Found(read, findings)
  BY <1>2, NamingIsFinite, FoundByAll
<1>4. after = [i \in DOMAIN rows |-> V!ValidatedRow(rows[i], findings)]
  BY DEF V!ValidateRows
<1>5. \A i, j \in DOMAIN rows : V!Conflicting(rows[i].record, rows[j].record) =>
          \E f \in findings : f.severity = "blocking" /\ V!Key(rows[i].record) \in f.keys
  <2> SUFFICES ASSUME NEW i \in DOMAIN rows, NEW j \in DOMAIN rows, V!Conflicting(rows[i].record, rows[j].record)
               PROVE  \E f \in findings : f.severity = "blocking" /\ V!Key(rows[i].record) \in f.keys
    OBVIOUS
  <2> DEFINE f == V!Finding("VAL-13", "blocking", {rows[i].record})
  <2>1. rows[i].record \in V!Cs(read) /\ rows[j].record \in V!Cs(read)
    BY <1>2
  <2> HIDE DEF read
  <2>2. f \in V!Val13(read)
    BY <2>1 DEF V!Val13, V!Each
  <2>3. f \in findings
    BY <2>2 DEF V!RunAll
  <2>4. f.severity = "blocking" /\ V!Key(rows[i].record) \in f.keys
    BY DEF V!Finding
  <2> QED
    BY <2>3, <2>4
<1>o. findings = V!FindingsOf(rows, ctx)
  BY DEF V!FindingsOf
<1> HIDE DEF read, findings, after
<1>6. ASSUME NEW i \in DOMAIN rows
      PROVE  /\ \A f \in findings : V!Names(f, rows[i]) /\ f.severity = "blocking" => after[i].blocking > 0
             /\ \A f \in findings : V!Names(f, rows[i]) /\ f.severity # "info" => ~after[i].batch /\ after[i].confidence # "high"
             /\ ~rows[i].batch => ~after[i].batch
  <2> DEFINE own == {f \in findings : V!Names(f, rows[i])}
             blockers == {f \in own : f.severity = "blocking"}
             doubted == ~rows[i].flagged /\ \E f \in own : f.severity # "info"
  <2>1. /\ after[i].blocking = Cardinality(blockers)
        /\ after[i].batch = (rows[i].batch /\ ~doubted)
        /\ after[i].confidence = IF doubted /\ rows[i].confidence = "high" THEN "medium" ELSE rows[i].confidence
    <3>1. after[i] = V!ValidatedRow(rows[i], findings)
      BY <1>4
    <3>2. V!ValidatedRow(rows[i], findings) =
            [rows[i] EXCEPT !.findings = V!Cardinality(own), !.blocking = V!Cardinality(blockers),
                            !.flagged = @ \/ doubted, !.batch = @ /\ ~doubted,
                            !.confidence = IF doubted /\ @ = "high" THEN "medium" ELSE @]
      BY DEF V!ValidatedRow
    <3> HIDE DEF own, blockers, doubted
    <3>3. V!Cardinality(blockers) = Cardinality(blockers)
      BY SameInValidators
    <3> QED
      BY <3>1, <3>2, <3>3 DEF RowOK
  <2>2. blockers # {} => Cardinality(blockers) > 0
    <3>1. \A f \in blockers : f \in findings /\ V!Names(f, rows[i])
      OBVIOUS
    <3>2. blockers \subseteq Citing(read)
      BY <1>3, <3>1 DEF Found, V!Names
    <3>3. IsFiniteSet(blockers)
      BY <1>3, <3>2, FS_Subset
    <3> HIDE DEF blockers
    <3> QED
      BY <3>3, FS_EmptySet, FS_CardinalityType
  <2>3. \A f \in findings : V!Names(f, rows[i]) /\ f.severity = "blocking" => after[i].blocking > 0
    BY <2>1, <2>2
  <2>4. \A f \in findings : V!Names(f, rows[i]) /\ f.severity # "info" => ~after[i].batch /\ after[i].confidence # "high"
    BY <2>1 DEF RowOK
  <2>5. ~rows[i].batch => ~after[i].batch
    BY <2>1
  <2> QED
    BY <2>3, <2>4, <2>5
<1>7. ASSUME NEW i \in DOMAIN rows, rows[i].key = V!Key(rows[i].record)
      PROVE  V!RecordBlocked(rows, findings, after, i)
  <2>1. \A f \in findings : V!Key(rows[i].record) \in f.keys <=> V!Names(f, rows[i])
    BY <1>7 DEF V!Names
  <2> QED
    BY <1>5, <1>6, <2>1 DEF V!RecordBlocked
<1>8. ASSUME NEW f \in findings, f.severity = "blocking", f.keys # {}
      PROVE  \/ \E i \in DOMAIN rows : rows[i].key \in f.keys /\ after[i].blocking > 0
             \/ \E i \in DOMAIN rows : V!Key(rows[i].record) \in f.keys /\ rows[i].key # V!Key(rows[i].record)
  <2>1. f \in Citing(read)
    BY <1>3, <1>8 DEF Found
  <2>2. PICK id \in Ids, severity \in Severities, cs \in SUBSET V!Cs(read) : f = V!Finding(id, severity, cs)
    BY <2>1 DEF Citing
  <2>3. f.keys = {V!Key(c) : c \in cs}
    BY <2>2 DEF V!Finding
  <2>4. PICK c \in cs : V!Key(c) \in f.keys
    BY <1>8, <2>3
  <2>5. PICK i \in DOMAIN rows : c = rows[i].record
    BY <1>2, <2>4
  <2>6. CASE rows[i].key = V!Key(rows[i].record)
    <3>1. V!Names(f, rows[i])
      BY <2>4, <2>5, <2>6 DEF V!Names
    <3> QED
      BY <1>6, <1>8, <3>1 DEF V!Names
  <2> QED
    BY <2>4, <2>5, <2>6
<1>9. V!RowsBlocked(rows, ctx, after)
  BY <1>6, <1>7, <1>8, <1>o DEF V!RowsBlocked
<1> QED
  BY <1>9 DEF after

-----------------------------------------------------------------------------
(* The inputs of MCFindings.                                               *)

LEMMA SequenceOfThree ==
  ASSUME NEW Rec, NEW a \in Rec, NEW b \in Rec, NEW c \in Rec
  PROVE  /\ <<a, b, c>> \in Seq(Rec) /\ DOMAIN <<a, b, c>> = 1 .. 3 /\ <<a, b, c>> # <<>>
         /\ <<a, b, c>>[1] = a /\ <<a, b, c>>[2] = b /\ <<a, b, c>>[3] = c
OBVIOUS

LEMMA ContextIs ==
  ASSUME NEW cs
  PROVE  Context(cs).candidates = cs /\ "candidates" \in DOMAIN Context(cs)
BY DEF Context

LEMMA PlainIs ==
  /\ \A s, n : [[Plain EXCEPT !.slab = s] EXCEPT !.row = n].slab = s
  /\ \A t, s, n : [[Plain EXCEPT !.component = "tod_adjustment", !.band = t, !.season = s] EXCEPT !.row = n].band = t
  /\ \A v, d : LET r == [Plain EXCEPT !.family = "cross_subsidy_surcharge", !.value = v, !.derivation = d] IN r.value = v /\ r.derivation = d
<1>1. {"slab", "row", "component", "band", "season", "family", "value", "derivation"} \subseteq DOMAIN Plain
  BY DEF Plain
<1> QED
  BY <1>1

LEMMA SpansAre == \A s \in Spans : s.upper \in Int /\ s.lower \in Int \cup {None} /\ s.upperIn = TRUE
BY DEF Spans, Quantity

LEMMA SlabInputs ==
  ASSUME NEW cs \in Slabs
  PROVE  V!SlabsApart(Context(cs))
<1> DEFINE ctx == Context(cs)
<1>1. PICK a \in Quantities, b \in Quantities, c \in Quantities : cs = <<[a EXCEPT !.row = 1], [b EXCEPT !.row = 2], [c EXCEPT !.row = 3]>>
  BY DEF Slabs
<1>2. ASSUME NEW q \in Quantities, NEW n PROVE [q EXCEPT !.row = n].slab \in Spans
  <2>1. PICK s \in Spans : q = [Plain EXCEPT !.slab = s]
    BY DEF Quantities
  <2> QED
    BY <2>1, PlainIs
<1> DEFINE d == [a EXCEPT !.row = 1]
           e == [b EXCEPT !.row = 2]
           f == [c EXCEPT !.row = 3]
           Rec == {d, e, f}
<1>3. d.slab \in Spans /\ e.slab \in Spans /\ f.slab \in Spans /\ cs = <<d, e, f>>
  BY <1>1, <1>2
<1> HIDE DEF d, e, f
<1>4. cs \in Seq(Rec)
  BY <1>3, SequenceOfThree
<1>5. \A r \in Rec : r.slab \in Spans
  BY <1>3
<1> HIDE DEF Rec
<1>6. ctx.candidates \in Seq(Rec)
  BY <1>4, ContextIs
<1>7. \A r \in V!Slabbed(ctx) : r.slab \in Spans
  <2>1. \A i \in DOMAIN ctx.candidates : ctx.candidates[i] \in Rec
    BY <1>6
  <2> HIDE DEF ctx
  <2>2. V!Slabbed(ctx) \subseteq {ctx.candidates[i] : i \in DOMAIN ctx.candidates}
    BY DEF V!Slabbed, V!Retail, V!Cs, V!ToSet
  <2> QED
    BY <1>5, <2>1, <2>2
<1>8. SlabsOK(ctx)
  <2> HIDE DEF ctx
  <2> QED
    BY <1>7, SpansAre DEF SlabsOK
<1> QED
  BY <1>6, <1>8, SlabsDoNotMeet, FindingsAssumption

LEMMA BandInputs ==
  ASSUME NEW cs \in Bands
  PROVE  V!DayCovered(Context(cs))
<1> DEFINE ctx == Context(cs)
           Read == DayBands \cup {UnreadBand}
<1>1. PICK a \in Times, b \in Times, c \in Times : cs = <<[a EXCEPT !.row = 1], [b EXCEPT !.row = 2], [c EXCEPT !.row = 3]>>
  BY DEF Bands
<1>2. ASSUME NEW q \in Times, NEW n PROVE [q EXCEPT !.row = n].band \in Read
  <2>1. PICK t \in Read : \E s : q = TimeOf(t, s)
    BY DEF Times, Halves
  <2>2. PICK s : q = TimeOf(t, s)
    BY <2>1
  <2>3. q = [Plain EXCEPT !.component = "tod_adjustment", !.band = t, !.season = s]
    BY <2>2 DEF TimeOf
  <2> HIDE DEF Read
  <2> QED
    BY <2>3, PlainIs
<1> DEFINE d == [a EXCEPT !.row = 1]
           e == [b EXCEPT !.row = 2]
           f == [c EXCEPT !.row = 3]
           Rec == {d, e, f}
<1>3. cs = <<d, e, f>> /\ \A r \in Rec : r.band \in Read
  BY <1>1, <1>2
<1> HIDE DEF d, e, f
<1>4. cs \in Seq(Rec)
  BY <1>3, SequenceOfThree
<1> HIDE DEF Rec
<1>5. \A t \in Read : t.from = None \/ (t.from \in 0 .. 23 /\ t.to \in 0 .. 24)
  BY DEF DayBands, UnreadBand
<1> HIDE DEF Read
<1>6. ctx.candidates \in Seq(Rec)
  BY <1>4, ContextIs
<1>7. \A r \in V!Cs(ctx) : r \in Rec
  <2>1. \A i \in DOMAIN ctx.candidates : ctx.candidates[i] \in Rec
    BY <1>6
  <2> HIDE DEF ctx
  <2> QED
    BY <2>1 DEF V!Cs, V!ToSet
<1>8. BandsOK(ctx)
  <2> HIDE DEF ctx
  <2> QED
    BY <1>3, <1>5, <1>7 DEF BandsOK, V!Banded, V!Unread
<1> QED
  BY <1>6, <1>8, DayIsCovered

\* What the word of a heading finds is the value of one of the inputs, if there is any.
LEMMA FoundInput ==
  ASSUME NEW N, NEW inputs \in Seq(N), Len(inputs) <= 3, \A x \in N : x.value \in Int \cup {None}, NEW word
  PROVE  V!InputOf(inputs, word) \in Int \cup {None}
<1> DEFINE I == {i \in 1 .. Len(inputs) : word \in inputs[i].heading /\ inputs[i].value # None}
           n == IF I # {} THEN V!Min(I) ELSE 0
<1>1. V!InputOf(inputs, word) = IF n = 0 THEN None ELSE inputs[n].value
  BY DEF V!InputOf, V!SelectInSeq
<1>2. I \in SUBSET (1 .. Len(inputs)) /\ Len(inputs) \in Nat
  OBVIOUS
<1> HIDE DEF I
<1>3. I # {} => V!Min(I) \in I
  <2>1. ASSUME I # {} PROVE \E x \in I : \A y \in I : x <= y
    <3>1. \A x \in I : x = 1 \/ x = 2 \/ x = 3
      BY <1>2
    <3> QED
      BY <2>1, <3>1
  <2> QED
    BY <2>1 DEF V!Min
<1>4. n # 0 => n \in 1 .. Len(inputs)
  BY <1>2, <1>3
<1> HIDE DEF n
<1> QED
  BY <1>1, <1>4

\* An input as it is printed under a heading.
PrintedInputs == {InputUnder(w, v) : w \in SUBSET {"arr", "sales", "cap", "tariff"}, v \in Int \cup {None}}

LEMMA InputsPrinted ==
  ASSUME NEW inputs \in Seq(PrintedInputs), Len(inputs) <= 3
  PROVE  \A word : V!InputOf(inputs, word) \in Int \cup {None}
<1>1. \A x \in PrintedInputs : x.value \in Int \cup {None}
  BY DEF PrintedInputs, InputUnder
<1> QED
  BY <1>1, FoundInput

LEMMA DerivationsPrinted ==
  ASSUME NEW d \in FormulasPrinted \cup RulesPrinted
  PROVE  /\ d.formula # None => d.formula.T \in Int \cup {None} /\ d.formula.CAP \in Int \cup {None}
         /\ \A word : V!InputOf(d.inputs, word) \in Int \cup {None}
<1> DEFINE Words == SUBSET {"arr", "sales", "cap", "tariff"}
           Numbers == Int \cup {None}
<1>0. \A w \in Words, v \in Numbers : InputUnder(w, v) \in PrintedInputs
  BY DEF PrintedInputs
<1>1. CASE d \in FormulasPrinted
  <2> DEFINE Ts == {700, 703}
             Ks == {None, 139, 140, 141, 142}
             Ls == {None, 20, 30, 100}
             Os == {None, 100}
             Ws == {None, 20}
             Ss == {None, 28, 29, 100, 101}
             F(t, l, o, w, s, k) == [Surcharge EXCEPT !.T = t, !.L = l, !.D = o, !.DC = 40, !.TC = 40, !.WC = w, !.S = s, !.CAP = k]
  <2>1. FormulasPrinted = {By(None, <<>>, F(t, l, o, w, s, k)) : t \in Ts, l \in Ls, o \in Os, w \in Ws, s \in Ss, k \in Ks}
    BY DEF FormulasPrinted
  <2>2. \A t, l, o, w, s, k : F(t, l, o, w, s, k).T = t /\ F(t, l, o, w, s, k).CAP = k
    BY DEF Surcharge
  <2>3. Ts \subseteq Int /\ Ks \subseteq Int \cup {None}
    OBVIOUS
  <2> HIDE DEF F, Ts, Ls, Os, Ws, Ss, Ks
  <2>4. PICK t \in Ts, l \in Ls, o \in Os, w \in Ws, s \in Ss, k \in Ks : d = By(None, <<>>, F(t, l, o, w, s, k))
    BY <1>1, <2>1
  <2>5. d.formula = F(t, l, o, w, s, k) /\ d.inputs = <<>>
    BY <2>4 DEF By
  <2> DEFINE none == <<>>
  <2>6. none \in Seq(PrintedInputs) /\ Len(none) <= 3
    OBVIOUS
  <2>e. none = <<>>
    OBVIOUS
  <2> HIDE DEF none
  <2>7. \A word : V!InputOf(none, word) \in Int \cup {None}
    BY <2>6, InputsPrinted
  <2>8. d.inputs = none
    BY <2>5, <2>e
  <2> QED
    BY <2>2, <2>3, <2>5, <2>7, <2>8
<1>2. CASE d \in RulesPrinted
  <2> DEFINE Ws == {{}, {"cap"}, {"cap", "tariff"}}
             Ks == {None, 139, 140, 142}
             Ts == {None, 700, 703}
             Sold(a, n) == By("arr_over_sales", <<InputUnder({"arr"}, a), InputUnder({"sales"}, n)>>, None)
             Ruled(r, w, x, k, t) == By(r, <<InputUnder(w, x), InputUnder({"tariff"}, t), InputUnder({"cap"}, k)>>, None)
             As == {None, 100}
             Ns == {None, 0, 710, 720}
  <2>1. RulesPrinted = {Sold(a, n) : a \in As, n \in Ns} \cup {Ruled(r, w, x, k, t) : r \in {"lower_of", "cap"}, w \in Ws, x, k \in Ks, t \in Ts}
    BY DEF RulesPrinted
  <2>2. /\ As \subseteq Numbers /\ Ns \subseteq Numbers /\ Ks \subseteq Numbers /\ Ts \subseteq Numbers
        /\ Ws \subseteq Words /\ {"arr"} \in Words /\ {"sales"} \in Words /\ {"tariff"} \in Words /\ {"cap"} \in Words
    OBVIOUS
  <2>3. \A a, n : Sold(a, n).inputs = <<InputUnder({"arr"}, a), InputUnder({"sales"}, n)>> /\ Sold(a, n).formula = None
    BY DEF By
  <2>4. \A r, w, x, k, t : /\ Ruled(r, w, x, k, t).inputs = <<InputUnder(w, x), InputUnder({"tariff"}, t), InputUnder({"cap"}, k)>>
                           /\ Ruled(r, w, x, k, t).formula = None
    BY DEF By
  <2> HIDE DEF Sold, Ruled, Ws, Ks, Ts, As, Ns, Words, Numbers
  <2>5. d.formula = None /\ d.inputs \in Seq(PrintedInputs) /\ Len(d.inputs) <= 3
    <3>1. ASSUME NEW a \in As, NEW n \in Ns, d = Sold(a, n) PROVE d.formula = None /\ d.inputs \in Seq(PrintedInputs) /\ Len(d.inputs) <= 3
      <4>1. InputUnder({"arr"}, a) \in PrintedInputs /\ InputUnder({"sales"}, n) \in PrintedInputs
        BY <1>0, <2>2
      <4>2. d.formula = None /\ d.inputs = <<InputUnder({"arr"}, a), InputUnder({"sales"}, n)>>
        BY <2>3, <3>1
      <4> QED
        BY <4>1, <4>2
    <3>2. ASSUME NEW r, NEW w \in Ws, NEW x \in Ks, NEW k \in Ks, NEW t \in Ts, d = Ruled(r, w, x, k, t)
          PROVE  d.formula = None /\ d.inputs \in Seq(PrintedInputs) /\ Len(d.inputs) <= 3
      <4>1. InputUnder(w, x) \in PrintedInputs /\ InputUnder({"tariff"}, t) \in PrintedInputs /\ InputUnder({"cap"}, k) \in PrintedInputs
        BY <1>0, <2>2
      <4>2. d.formula = None /\ d.inputs = <<InputUnder(w, x), InputUnder({"tariff"}, t), InputUnder({"cap"}, k)>>
        BY <2>4, <3>2
      <4> QED
        BY <4>1, <4>2
    <3> QED
      BY <1>2, <2>1, <3>1, <3>2
  <2> QED
    BY <2>5, InputsPrinted
<1> QED
  BY <1>1, <1>2

LEMMA DerivedInputs ==
  ASSUME NEW c \in DerivedValues
  PROVE  V!CapsHold(Context(<<c>>))
<1> DEFINE ctx == Context(<<c>>)
<1>1. PICK d \in FormulasPrinted \cup RulesPrinted, v \in 138 .. 142 : c = DerivedBy(d, v)
  BY DEF DerivedValues
<1>2. c.value \in Int /\ c.derivation \in FormulasPrinted \cup RulesPrinted
  <2>1. c.value = v /\ c.derivation = d
    BY <1>1, PlainIs DEF DerivedBy
  <2>2. v \in Int
    OBVIOUS
  <2> QED
    BY <2>1, <2>2
<1>3. V!Cs(ctx) = {c}
  <2>1. ctx.candidates = <<c>>
    BY ContextIs
  <2> HIDE DEF ctx
  <2> QED
    BY <2>1 DEF V!Cs, V!ToSet
<1> HIDE DEF ctx
<1>4. DerivationsOK(ctx)
  BY <1>2, <1>3, DerivationsPrinted DEF DerivationsOK, V!Derived
<1> QED
  BY <1>4, CapsAreKept, FindingsAssumption DEF ctx

LEMMA RowInputs ==
  ASSUME NEW rows \in Stored
  PROVE  V!RowsBlocked(rows, Context(<<>>), V!ValidateRows(rows, Context(<<>>)))
<1> DEFINE fresh(r) == /\ r.flagged = FALSE /\ r.batch = TRUE
                       /\ {"flagged", "batch", "confidence", "findings", "blocking"} \subseteq DOMAIN r
<1>1. \A c, s : fresh(V!ExtractedRow(c, s))
  BY DEF V!ExtractedRow
<1> HIDE DEF fresh
<1> DEFINE Subs == {None, "s"}
           Others == {Plain, [Plain EXCEPT !.row = "q"]}
<1>2. Stored = {Extracted(a, s, b, t, c) : a \in Records, b \in Records, s \in Subs, t \in Subs, c \in Others}
  BY DEF Stored
<1> HIDE DEF Subs, Others
<1>3. PICK a \in Records, b \in Records, s \in Subs, t \in Subs, c \in Others : rows = Extracted(a, s, b, t, c)
  BY <1>2
<1> DEFINE x == V!ExtractedRow(a, s)
           y == V!ExtractedRow(b, t)
           z == V!ExtractedRow(c, None)
           Rec == {x, y, z}
<1>4. rows = <<x, y, z>> /\ fresh(x) /\ fresh(y) /\ fresh(z)
  BY <1>1, <1>3 DEF Extracted
<1> HIDE DEF x, y, z
<1>5. rows \in Seq(Rec)
  BY <1>4, SequenceOfThree
<1>6. \A i \in DOMAIN rows : fresh(rows[i])
  BY <1>4, <1>5
<1>7. \A i \in DOMAIN rows : RowOK(rows[i])
  BY <1>6 DEF RowOK, fresh
<1> HIDE DEF Rec
<1> QED
  BY <1>5, <1>7, ContextIs, RowsAreBlocked

LEMMA LeftFields ==
  ASSUME NEW n
  PROVE  LET l == Left(n) IN
         /\ {"name", "family", "category", "component", "status", "blocking", "findings", "disagrees", "tags", "confidence",
             "page", "grid", "spot"} \subseteq DOMAIN l
         /\ l.name = n /\ l.family = "retail_tariff" /\ l.category = 1 /\ l.component = "energy" /\ l.blocking = 0 /\ l.findings = 0
         /\ l.disagrees = FALSE /\ l.tags = {} /\ l.confidence = "high" /\ l.page = 4 /\ l.grid = 1 /\ l.spot = <<1, 1, 0>>
BY DEF Left

LEMMA RiskyIs ==
  ASSUME NEW n \in {1, 2, 3}, NEW r \in Risky(n)
  PROVE  /\ r.name = n /\ r.family \in {"retail_tariff", "oa_loss"} /\ r.component \in {"energy", "fixed", "loss"}
         /\ r.blocking \in Nat /\ r.findings \in Nat /\ r.disagrees \in BOOLEAN
         /\ r.tags \in {{}, {"new_profile"}, {"new_profile", "ocr"}} /\ r.confidence \in {"low", "high"}
         /\ r.page \in Int /\ r.grid \in Int /\ r.category \in Int /\ r.spot \in {<<1, 1, 0>>, <<1, 2, 0>>}
<1> DEFINE l == Left(n)
<1>1. \/ r = l \/ r = [l EXCEPT !.blocking = 1, !.findings = 1] \/ r = [l EXCEPT !.findings = 2] \/ r = [l EXCEPT !.disagrees = TRUE]
      \/ r = [l EXCEPT !.tags = {"new_profile"}] \/ r = [l EXCEPT !.tags = {"new_profile", "ocr"}, !.page = 3]
      \/ r = [l EXCEPT !.status = "approved"] \/ r = [l EXCEPT !.category = 2, !.confidence = "low"]
      \/ r = [l EXCEPT !.component = "fixed", !.spot = <<1, 2, 0>>]
      \/ r = [l EXCEPT !.family = "oa_loss", !.category = 0, !.component = "loss", !.page = 2] \/ r = [l EXCEPT !.status = "unresolved"]
  <2> HIDE DEF l
  <2> QED
    BY DEF Risky, l
<1>2. /\ {"name", "family", "category", "component", "status", "blocking", "findings", "disagrees", "tags", "confidence",
          "page", "grid", "spot"} \subseteq DOMAIN l
      /\ l.name = n /\ l.family = "retail_tariff" /\ l.category = 1 /\ l.component = "energy" /\ l.blocking = 0 /\ l.findings = 0
      /\ l.disagrees = FALSE /\ l.tags = {} /\ l.confidence = "high" /\ l.page = 4 /\ l.grid = 1 /\ l.spot = <<1, 1, 0>>
  BY LeftFields
<1> HIDE DEF l
<1>3. /\ r.name = n /\ r.family \in {"retail_tariff", "oa_loss"} /\ r.component \in {"energy", "fixed", "loss"}
  BY <1>1, <1>2
<1>4. r.blocking \in Nat /\ r.findings \in Nat /\ r.disagrees \in BOOLEAN
  <2>1. r.blocking \in {0, 1}
    BY <1>1, <1>2
  <2>2. r.findings \in {0, 1, 2}
    BY <1>1, <1>2
  <2>3. r.disagrees \in {TRUE, FALSE}
    BY <1>1, <1>2
  <2>4. r.disagrees \in BOOLEAN
    BY <2>3, Zenon
  <2>5. r.blocking \in Nat /\ r.findings \in Nat
    BY <2>1, <2>2
  <2> QED
    BY <2>4, <2>5, Zenon
<1>5. r.tags \in {{}, {"new_profile"}, {"new_profile", "ocr"}} /\ r.confidence \in {"low", "high"}
  BY <1>1, <1>2
<1>6. r.page \in Int /\ r.grid \in Int /\ r.category \in Int /\ r.spot \in {<<1, 1, 0>>, <<1, 2, 0>>}
  <2>1. r.page \in {2, 3, 4} /\ r.grid = 1
    BY <1>1, <1>2
  <2>2. r.category \in {0, 1, 2}
    BY <1>1, <1>2
  <2>3. r.spot \in {<<1, 1, 0>>, <<1, 2, 0>>}
    BY <1>1, <1>2
  <2> QED
    BY <2>1, <2>2, <2>3
<1> QED
  BY <1>3, <1>4, <1>5, <1>6

LEMMA LossIsOfTheNetwork == "oa_loss" \in K!NetworkFamilies
<1>1. "oa_loss" \in DOMAIN K!FamilyOrder
  BY DEF K!FamilyOrder
<1> QED
  BY <1>1 DEF K!NetworkFamilies

LEMMA FiledFamily ==
  ASSUME NEW n \in {1, 2, 3}, NEW r \in Filed(n)
  PROVE  r.family \in {"retail_tariff", "oa_loss"}
<1>1. PICK f \in Facts, s \in Decided : r = About(n, f, s)
  BY DEF Filed
<1>2. f[1] \in {"retail_tariff", "oa_loss"}
  BY DEF Facts
<1>3. r.family = f[1]
  BY <1>1, LeftFields DEF About
<1> QED
  BY <1>2, <1>3

LEMMA ChecklistInputs ==
  ASSUME NEW rows \in Worklists
  PROVE  K!ChecklistHolds(rows, {1, 2}, {"oa_loss"}, K!Checklist(rows, {1, 2}, {"oa_loss"}))
<1>1. KnownFamilies(rows) /\ IsFiniteSet(rows)
  <2>1. CASE rows = {}
    BY <2>1, FS_EmptySet DEF KnownFamilies
  <2>2. CASE rows # {}
    <3>1. PICK a \in Filed(1), b \in Filed(2), c \in Risky(3) : rows = {a, b, c}
      BY <2>2 DEF Worklists
    <3> QED
      <4>1. \A r \in rows : r.family \in {"retail_tariff", "oa_loss"}
        BY <3>1, FiledFamily, RiskyIs
      <4>2. KnownFamilies(rows)
        BY <4>1, LossIsOfTheNetwork DEF KnownFamilies
      <4>3. IsFiniteSet({a, b, c})
        BY ThreeAreFinite
      <4> QED
        BY <3>1, <4>2, <4>3
  <2> QED
    BY <2>1, <2>2
<1>2. IsFiniteSet({1, 2})
  <2>1. {1, 2} = {1, 2, 2}
    OBVIOUS
  <2> QED
    BY <2>1, ThreeAreFinite
<1> QED
  BY <1>1, <1>2, ChecklistIsComplete

LEMMA RiskyIsOK ==
  ASSUME NEW n \in {1, 2, 3}, NEW r \in Risky(n)
  PROVE  CandidateOK(r)
<1>1. /\ r.name = n /\ r.family \in {"retail_tariff", "oa_loss"} /\ r.component \in {"energy", "fixed", "loss"}
      /\ r.blocking \in Nat /\ r.findings \in Nat /\ r.disagrees \in BOOLEAN
      /\ r.tags \in {{}, {"new_profile"}, {"new_profile", "ocr"}} /\ r.confidence \in {"low", "high"}
      /\ r.page \in Int /\ r.grid \in Int /\ r.category \in Int /\ r.spot \in {<<1, 1, 0>>, <<1, 2, 0>>}
  BY RiskyIs
<1>3. IsFiniteSet(r.tags)
  <2>1. IsFiniteSet({"new_profile"}) /\ IsFiniteSet({"new_profile", "ocr"})
    <3>1. {"new_profile"} = {"new_profile", "new_profile", "new_profile"} /\ {"new_profile", "ocr"} = {"new_profile", "ocr", "ocr"}
      OBVIOUS
    <3> QED
      BY <3>1, ThreeAreFinite
  <2> QED
    BY <1>1, <2>1, FS_EmptySet
<1>4. r.component \in DOMAIN K!ComponentOrder
  BY <1>1 DEF K!ComponentOrder
<1>5. r.spot \in [1 .. 3 -> Int]
  BY <1>1
<1>6. r.family \in K!NetworkFamilies \cup {"retail_tariff"} /\ r.name \in Int
  BY <1>1, LossIsOfTheNetwork
<1> QED
  BY <1>1, <1>3, <1>4, <1>5, <1>6 DEF CandidateOK

LEMMA QueueInputs ==
  ASSUME NEW x \in Queues
  PROVE  K!QueueHolds(x.rows, x.q, K!OrderedQueue(x.rows, x.q))
<1>1. PICK a \in Risky(1), b \in Risky(2), c \in Risky(3), q \in Asked : x = [rows |-> {a, b, c}, q |-> q]
  BY DEF Queues
<1>2. CandidateOK(a) /\ CandidateOK(b) /\ CandidateOK(c)
  BY RiskyIsOK
<1>3. a.name = 1 /\ b.name = 2 /\ c.name = 3
  BY RiskyIs
<1>4. IsFiniteSet({a, b, c})
  BY ThreeAreFinite
<1>6. Named({a, b, c}) /\ \A r \in {a, b, c} : CandidateOK(r)
  BY <1>2, <1>3 DEF Named
<1>5. K!QueueHolds({a, b, c}, q, K!OrderedQueue({a, b, c}, q))
  BY <1>4, <1>6, QueueIsComplete
<1> QED
  BY <1>1, <1>5

\* A computation that has ended is that of one of its inputs.
FindingsInv ==
    /\ Is("queue") => figure.input \in Queues /\ figure.result = K!OrderedQueue(figure.input.rows, figure.input.q)
    /\ Is("checklist") => figure.input \in Worklists /\ figure.result = K!Checklist(figure.input, {1, 2}, {"oa_loss"})
    /\ Is("slabbed") => figure.input \in Slabs
    /\ Is("banded") => figure.input \in Bands
    /\ Is("derived") => figure.input \in DerivedValues
    /\ Is("rows") => figure.input \in Stored /\ figure.result = V!ValidateRows(figure.input, Context(<<>>))

LEMMA FindingsInductive == FindingsSpec => []FindingsInv
<1>1. FindingsInit => FindingsInv
  BY DEF FindingsInit, FindingsInv, Is
<1>2. FindingsInv /\ [FindingsNext]_figure => FindingsInv'
  <2> SUFFICES ASSUME FindingsInv, [FindingsNext]_figure PROVE FindingsInv'
    OBVIOUS
  <2>1. CASE ValidateFacts
    <3>1. CASE \E cs \in Slabs : figure' = [of |-> "slabbed", input |-> cs, result |-> V!Val03(Context(cs))]
      BY <3>1 DEF FindingsInv, Is
    <3>2. CASE \E cs \in Bands : figure' = [of |-> "banded", input |-> cs, result |-> V!Val10(Context(cs))]
      BY <3>2 DEF FindingsInv, Is
    <3>3. CASE \E rows \in Stored : figure' = [of |-> "rows", input |-> rows, result |-> V!ValidateRows(rows, Context(<<>>))]
      BY <3>3 DEF FindingsInv, Is
    <3>4. CASE \E c \in DerivedValues : figure' = [of |-> "derived", input |-> c, result |-> V!Val07(Context(<<c>>))]
      BY <3>4 DEF FindingsInv, Is
    <3> QED
      BY <2>1, <3>1, <3>2, <3>3, <3>4 DEF ValidateFacts, Compute
  <2>2. CASE ReviewFacts
    <3>1. CASE \E x \in Queues : figure' = [of |-> "queue", input |-> x, result |-> K!OrderedQueue(x.rows, x.q)]
      BY <3>1 DEF FindingsInv, Is
    <3>2. CASE \E rows \in Worklists : figure' = [of |-> "checklist", input |-> rows, result |-> K!Checklist(rows, {1, 2}, {"oa_loss"})]
      BY <3>2 DEF FindingsInv, Is
    <3> QED
      BY <2>2, <3>1, <3>2 DEF ReviewFacts, Compute
  <2>3. CASE UNCHANGED figure
    BY <2>3 DEF FindingsInv, Is
  <2> QED
    BY <2>1, <2>2, <2>3 DEF FindingsNext
<1> QED
  BY <1>1, <1>2, PTL DEF FindingsSpec

\* The queue and the checklist leave no candidate out, and the findings of the validators cover
\* what they are about and reach the rows that stand under a key they name (services/review.py,
\* validators.py, stages/validate.py).
THEOREM FindingsCover == FindingsSpec => []FindingsStand
<1>1. FindingsInv => FindingsStand
  <2> SUFFICES ASSUME FindingsInv PROVE FindingsStand
    OBVIOUS
  <2>1. Is("queue") => K!QueueHolds(figure.input.rows, figure.input.q, figure.result)
    BY QueueInputs DEF FindingsInv
  <2>2. Is("checklist") => K!ChecklistHolds(figure.input, {1, 2}, {"oa_loss"}, figure.result)
    BY ChecklistInputs DEF FindingsInv
  <2>3. Is("slabbed") => V!SlabsApart(Context(figure.input))
    BY SlabInputs DEF FindingsInv
  <2>4. Is("banded") => V!DayCovered(Context(figure.input))
    BY BandInputs DEF FindingsInv
  <2>5. Is("derived") => V!CapsHold(Context(<<figure.input>>))
    BY DerivedInputs DEF FindingsInv
  <2>6. Is("rows") => V!RowsBlocked(figure.input, Context(<<>>), figure.result)
    BY RowInputs DEF FindingsInv
  <2> QED
    BY <2>1, <2>2, <2>3, <2>4, <2>5, <2>6 DEF FindingsStand
<1> QED
  BY <1>1, FindingsInductive, PTL
=============================================================================
