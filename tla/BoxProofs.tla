------------------------------- MODULE BoxProofs -------------------------------
(***************************************************************************)
(* What holds of the rows of a box, for any products, template, extras and *)
(* compensations: a locked box is charged for what is in it, however many  *)
(* requests edit it (ChargedRight); and for a member who makes one request *)
(* at a time, it keeps its size and her preferences (BoxStaysWhole).  And  *)
(* what holds of its bills, for any goods, coupons, prices and settings:   *)
(* quotes add up (QuotesExact), rights to a discount are spent exactly     *)
(* once (RightsExact), and the first box's extra charge is the difference  *)
(* (ExtraChargeExact).                                                     *)
(***************************************************************************)
EXTENDS BoxContents, BoxBills, FiniteSetTheorems, SequenceTheorems, WellFoundedInduction, TLAPS

(* What is charged.                                                          *)

\* While the lock job holds the row, only compensations come in, which are free.
Frozen == /\ job.holds => status = "SCHEDULED" /\ Chargeable(job.items) = Chargeable(items)
          /\ ChargedForContents

LEMMA FreeRow ==
  ASSUME NEW I, NEW x, x.free = TRUE
  PROVE  Chargeable(I \cup {x}) = Chargeable(I)
BY DEF Chargeable, ExtraRows, BoxRows

LEMMA SameCharge ==
  ASSUME NEW I, NEW J, Chargeable(I) = Chargeable(J)
  PROVE  Charge(I) = Charge(J)
BY DEF Charge, Units

LEMMA FrozenInit == Init => Frozen
BY DEF Init, Frozen, ChargedForContents, NotHeld

\* What keeps the books as they are keeps them right.
LEMMA FrozenCalm ==
  ASSUME Frozen, UNCHANGED <<status, items, charged, job>>
  PROVE  Frozen'
BY DEF Frozen, ChargedForContents

\* An edit finds the row unlocked and not held.
LEMMA FrozenEdit ==
  ASSUME Frozen, NEW r, LockCycle(r), UNCHANGED <<status, charged, job>>
  PROVE  Frozen'
<1>1. status' = "SCHEDULED" /\ ~job'.holds
  BY DEF LockCycle
<1>. QED BY <1>1 DEF Frozen, ChargedForContents

LEMMA FrozenStep == Frozen /\ [Next]_vars => Frozen'
<1>. SUFFICES ASSUME Frozen, [Next]_vars PROVE Frozen'
  OBVIOUS
<1>1. ASSUME NEW r \in Requests, ReadSub(r) \/ ReadBox(r) \/ Drop(r) PROVE Frozen'
  BY <1>1, FrozenCalm DEF ReadSub, ReadBox, Drop
<1>2. ASSUME NEW r \in Requests, PatchCurrentCycle(r) PROVE Frozen'
  <2>1. LockCycle(r) /\ UNCHANGED <<status, charged, job>>
    BY <1>2 DEF PatchCurrentCycle, Save
  <2>. QED BY <2>1, FrozenEdit
<1>3. ASSUME NEW r \in Requests, MergeCart(r) PROVE Frozen'
  <2>1. LockCycle(r) /\ UNCHANGED <<status, charged, job>>
    BY <1>3 DEF MergeCart, Save
  <2>. QED BY <2>1, FrozenEdit
<1>4. CASE Skip
  BY <1>4 DEF Skip, Frozen, ChargedForContents
<1>5. CASE Unskip
  BY <1>5 DEF Unskip, Frozen, ChargedForContents
<1>6. ASSUME NEW a \in Admins, ChooseBox(a) PROVE Frozen'
  BY <1>6, FrozenCalm DEF ChooseBox
<1>7. ASSUME NEW a \in Admins, Compensate(a) PROVE Frozen'
  <2>1. PICK p \in Extras : items' = items \cup {ExtraRow(created + 1, "EXTRA", p, helping[a], TRUE)}
    BY <1>7 DEF Compensate
  <2>2. ExtraRow(created + 1, "EXTRA", p, helping[a], TRUE).free = TRUE
    BY DEF ExtraRow
  <2>3. Chargeable(items') = Chargeable(items)
    BY <2>1, <2>2, FreeRow
  <2>4. Charge(items') = Charge(items)
    BY <2>3, SameCharge
  <2>5. UNCHANGED <<status, charged, job>>
    BY <1>7 DEF Compensate
  <2>. QED BY <2>3, <2>4, <2>5 DEF Frozen, ChargedForContents
<1>8. CASE Cutoff
  BY <1>8, FrozenCalm DEF Cutoff
<1>9. CASE LockPhaseA
  BY <1>9 DEF LockPhaseA, Frozen, ChargedForContents
<1>10. CASE Commit
  <2>1. Chargeable(job.items) = Chargeable(items') /\ charged' = Charge(job.items) /\ ~job'.holds
    BY <1>10 DEF Commit, Frozen, NotHeld
  <2>2. charged' = Charge(items')
    BY <2>1, SameCharge
  <2>. QED BY <2>1, <2>2 DEF Frozen, ChargedForContents
<1>11. CASE UNCHANGED vars
  BY <1>11, FrozenCalm DEF vars
<1>. QED
  BY <1>1, <1>2, <1>3, <1>4, <1>5, <1>6, <1>7, <1>8, <1>9, <1>10, <1>11 DEF Next, Member

\* A locked box is charged for exactly the extras that are in it, whatever requests of the member
\* and compensations of admins meet the lock job (lockPhaseA, cycleCharge).
THEOREM ChargedRight == Spec => []ChargedForContents
<1>1. Frozen => ChargedForContents
  BY DEF Frozen
<1>. QED BY <1>1, FrozenInit, FrozenStep, PTL DEF Spec

-------------------------------------------------------------------------------
(* What is in the box.                                                       *)

\* One request of the member at a time.
OneRequest == \A r, s \in Requests : r = s

BoxItems == [id : Nat \ {0}, source : BoxSources, product : Products, sort : Nat,
             of : Products \cup {None}, pref : Prefs \cup {None}, qty : {1}, free : {FALSE}]
ExtraItems == [id : Nat \ {0}, source : {"EXTRA", "CART_MERGE"}, product : Extras, sort : Nat,
               of : {None}, pref : {None}, qty : 1..MaxRows, free : BOOLEAN]
AnyRow == BoxItems \cup ExtraItems
PrefMap == [Products -> Prefs \cup {None}]

\* Rows of their types, numbered up to n, each with a number of its own.
Rows(I, n) == /\ I \subseteq AnyRow
              /\ \A i \in I : i.id <= n
              /\ \A i, j \in I : i.id = j.id => i = j

\* As many products as the box is for, each once and with its preference.
Contents(I) == {i.product : i \in BoxRows(I)}
Whole(I, prefs) ==
  /\ \A i, j \in BoxRows(I) : i.product = j.product => i = j
  /\ Cardinality(Contents(I)) = BoxSize
  /\ \A i \in BoxRows(I) : prefs[i.product] # None => i.pref = prefs[i.product]

LEMMA RowKinds ==
  /\ \A i \in BoxItems : i.source \in BoxSources
  /\ \A i \in ExtraItems : i.source \notin BoxSources
BY DEF BoxItems, ExtraItems, BoxSources

LEMMA RowsFinite ==
  ASSUME NEW I, NEW n \in Nat, Rows(I, n)
  PROVE  IsFiniteSet(I) /\ Cardinality(I) \in Nat
<1>. DEFINE f == [i \in I |-> i.id]
<1>1. ASSUME NEW i \in I PROVE i.id \in 1..n
  <2>1. i.id \in Nat \ {0} /\ i.id <= n
    BY DEF Rows, AnyRow, BoxItems, ExtraItems
  <2>. QED BY <2>1
<1>2. f \in Injection(I, 1..n)
  BY <1>1 DEF Rows, Injection, IsInjective
<1>3. IsFiniteSet(1..n)
  BY FS_Interval
<1>4. IsFiniteSet(I)
  BY <1>2, <1>3, FS_Injection
<1>. QED BY <1>4, FS_CardinalityType

\* Counting rows is counting products.
LEMMA BoxCount ==
  ASSUME NEW I, IsFiniteSet(I), \A i, j \in BoxRows(I) : i.product = j.product => i = j
  PROVE  IsFiniteSet(BoxRows(I)) /\ Cardinality(BoxRows(I)) = Cardinality(Contents(I))
<1>. DEFINE f == [i \in BoxRows(I) |-> i.product]
<1>1. IsFiniteSet(BoxRows(I))
  BY FS_Subset DEF BoxRows
<1>2. f \in Surjection(BoxRows(I), Contents(I)) /\ f \in Injection(BoxRows(I), Contents(I))
  BY DEF Contents, Surjection, Injection, IsInjective
<1>. QED BY <1>1, <1>2, FS_Surjection

\* A list of different products has as many products as places.
LEMMA ListCount ==
  ASSUME NEW n \in Nat, NEW s \in Lists(n)
  PROVE  /\ DOMAIN s = 1..n /\ \A k \in 1..n : s[k] \in Products
         /\ \A k, m \in 1..n : s[k] = s[m] => k = m
         /\ Range(s) = {s[k] : k \in 1..n} /\ Cardinality(Range(s)) = n
<1>1. s \in [1..n -> Products] /\ \A k, m \in 1..n : s[k] = s[m] => k = m
  BY DEF Lists, IsInjective
<1>2. Range(s) = {s[k] : k \in 1..n}
  BY <1>1 DEF Range
<1>3. s \in Surjection(1..n, Range(s)) /\ s \in Injection(1..n, Range(s))
  BY <1>1, <1>2 DEF Surjection, Injection, IsInjective
<1>4. IsFiniteSet(1..n) /\ Cardinality(1..n) = n
  BY FS_Interval
<1>. QED BY <1>1, <1>2, <1>3, <1>4, FS_Surjection

\* Place numbers the elements of a finite set.
LEMMA Places ==
  ASSUME NEW N \in SUBSET Nat, IsFiniteSet(N)
  PROVE  /\ Cardinality(N) \in Nat
         /\ \A n \in N : Place(n, N) \in 1..Cardinality(N)
         /\ \A m, n \in N : Place(m, N) = Place(n, N) => m = n
<1>. DEFINE Upto(n) == {m \in N : m <= n}
<1>1. ASSUME NEW n \in N
      PROVE  /\ IsFiniteSet(Upto(n)) /\ Cardinality(Upto(n)) \in Nat
             /\ Cardinality(Upto(n)) <= Cardinality(N) /\ Cardinality(Upto(n)) # 0
  <2>1. Upto(n) \in SUBSET N /\ n \in Upto(n)
    OBVIOUS
  <2>2. IsFiniteSet(Upto(n)) /\ Cardinality(Upto(n)) <= Cardinality(N)
    BY <2>1, FS_Subset
  <2>. QED BY <2>1, <2>2, FS_CardinalityType, FS_EmptySet
<1>2. ASSUME NEW m \in N, NEW n \in N, m < n PROVE Cardinality(Upto(m)) # Cardinality(Upto(n))
  <2>. m \in Nat /\ n \in Nat
    OBVIOUS
  <2>0. \A k \in N : k \in Nat /\ (k <= m => k <= n)
    BY <1>2
  <2>1. Upto(m) \in SUBSET Upto(n)
    BY <2>0
  <2>3. n \in Upto(n) /\ n \notin Upto(m)
    BY <1>2
  <2>2. IsFiniteSet(Upto(n))
    BY <1>1
  <2>. QED BY <2>1, <2>2, <2>3, FS_Subset
<1>3. Cardinality(N) \in Nat
  BY FS_CardinalityType
<1>4. ASSUME NEW n \in N PROVE Place(n, N) \in 1..Cardinality(N)
  <2>1. Place(n, N) = Cardinality(Upto(n))
    BY DEF Place
  <2>. QED BY <1>1, <1>3, <2>1
<1>5. ASSUME NEW m \in N, NEW n \in N, Place(m, N) = Place(n, N) PROVE m = n
  <2>1. Cardinality(Upto(m)) = Cardinality(Upto(n))
    BY <1>5 DEF Place
  <2>2. ~(m < n) /\ ~(n < m)
    BY <2>1, <1>2
  <2>. QED BY <2>2
<1>. QED BY <1>3, <1>4, <1>5

\* SetToSeq lists each element of a finite set once.
LEMMA Listing ==
  ASSUME NEW S, IsFiniteSet(S)
  PROVE  /\ Cardinality(S) \in Nat
         /\ SetToSeq(S) \in [1..Cardinality(S) -> S]
         /\ \A m, n \in 1..Cardinality(S) : SetToSeq(S)[m] = SetToSeq(S)[n] => m = n
<1>1. Cardinality(S) \in Nat /\ ExistsBijection(1..Cardinality(S), S)
  BY FS_CardinalityType
<1>2. PICK f : f \in [1..Cardinality(S) -> S] /\ IsInjective(f)
  BY <1>1 DEF ExistsBijection, Bijection, Injection
<1>3. SetToSeq(S) \in [1..Cardinality(S) -> S] /\ IsInjective(SetToSeq(S))
  BY <1>2 DEF SetToSeq
<1>. QED BY <1>1, <1>3 DEF IsInjective

(* The steps of a patch.  A draft is good if its rows are sound and the box  *)
(* is whole; it is the same box if it has the rows the request read.         *)

Drafts == [items : SUBSET AnyRow, created : Nat, prefs : PrefMap, writes : BOOLEAN]
Good(d, r) ==
  /\ d \in Drafts /\ created <= d.created
  /\ ~d.writes => d.prefs = itemPrefs
  /\ Rows(d.items, d.created) /\ Whole(d.items, d.prefs)
  /\ \A i \in BoxRows(d.items), j \in ExtraRows(req[r].items) : i.id # j.id
SameBox(d, r) ==
  /\ \A j \in BoxRows(req[r].items) : \E i \in BoxRows(d.items) : i.id = j.id /\ i.product = j.product
  /\ \A i \in BoxRows(d.items) : \E j \in BoxRows(req[r].items) : i.id = j.id /\ i.product = j.product

Requested == [at : {None, "sub", "box"}, prefs : PrefMap, items : SUBSET AnyRow]
ReqOK == /\ req \in [Requests -> Requested]
         /\ \A r \in Requests : /\ req[r].at # None => req[r].prefs = itemPrefs
                                /\ req[r].at # "box" => req[r].items = {}
                                /\ req[r].items \subseteq items
                                /\ req[r].at = "box" => BoxRows(req[r].items) = BoxRows(items)
StateOK == /\ status \in {"SCHEDULED", "SKIPPED", "LOCKED"} /\ past \in BOOLEAN
           /\ charged \in [Products -> Nat] /\ helping \in [Admins -> Nat]
JobOK == job.holds \in BOOLEAN /\ job.items \subseteq ItemRow /\ IsFiniteSet(job.items)
BoxOK == /\ created \in 0..MaxRows /\ itemPrefs \in PrefMap
         /\ Rows(items, created) /\ Whole(items, itemPrefs)

LEMMA RowTypes ==
  ASSUME NEW I, NEW n \in Nat, Rows(I, n), n <= MaxRows
  PROVE  I \subseteq ItemRow
<1>. SUFFICES ASSUME NEW i \in I PROVE i \in ItemRow
  OBVIOUS
<1>. MaxRows \in Nat
  BY BoundAssumption
<1>1. i \in AnyRow /\ i.id <= n
  BY DEF Rows
<1>2. CASE i \in BoxItems
  <2>1. i.id \in 1..MaxRows
    BY <1>1, <1>2 DEF BoxItems
  <2>. QED BY <1>2, <2>1 DEF BoxItems, ItemRow, BoxItem
<1>3. CASE i \in ExtraItems
  <2>1. i.id \in 1..MaxRows
    BY <1>1, <1>3 DEF ExtraItems
  <2>. QED BY <1>3, <2>1 DEF ExtraItems, ItemRow, ExtraItem
<1>. QED BY <1>1, <1>2, <1>3 DEF AnyRow

\* What the request read of the box is the box.
LEMMA SeenBox ==
  ASSUME BoxOK, ReqOK, NEW r \in Requests, req[r].at = "box"
  PROVE  /\ BoxRows(req[r].items) = BoxRows(items)
         /\ req[r].items \subseteq items /\ IsFiniteSet(req[r].items)
         /\ BoxSize \in Nat /\ Cardinality(BoxRows(req[r].items)) = BoxSize
         /\ \A i, j \in BoxRows(req[r].items) : i.product = j.product => i = j
         /\ \A i, j \in req[r].items : i.id = j.id => i = j
         /\ \A i \in BoxRows(req[r].items) : i \in BoxItems
         /\ \A i \in req[r].items : i.id \in Nat /\ i.id <= created
<1>1. BoxRows(req[r].items) = BoxRows(items) /\ req[r].items \subseteq items
  BY DEF ReqOK
<1>2. created \in Nat /\ Rows(items, created) /\ Whole(items, itemPrefs)
  BY DEF BoxOK
<1>3. IsFiniteSet(items)
  BY <1>2, RowsFinite
<1>4. IsFiniteSet(req[r].items)
  BY <1>1, <1>3, FS_Subset
<1>5. Cardinality(BoxRows(items)) = BoxSize
  BY <1>2, <1>3, BoxCount DEF Whole
<1>6. BoxSize \in Nat
  BY TemplateAssumption, ProductAssumption, FS_Subset, FS_CardinalityType DEF BoxSize
<1>7. \A i \in BoxRows(items) : i \in BoxItems
  BY <1>2, RowKinds DEF Rows, BoxRows, AnyRow
<1>8. \A i \in items : i.id \in Nat /\ i.id <= created
  BY <1>2 DEF Rows, AnyRow, BoxItems, ExtraItems
<1>9. \A i, j \in items : i.id = j.id => i = j
  BY <1>2 DEF Rows
<1>10. \A i, j \in BoxRows(items) : i.product = j.product => i = j
  BY <1>2 DEF Whole
<1>. QED BY <1>1, <1>4, <1>5, <1>6, <1>7, <1>8, <1>9, <1>10

LEMMA DraftGood ==
  ASSUME BoxOK, ReqOK, NEW r \in Requests, req[r].at = "box"
  PROVE  Good(Draft(r), r) /\ SameBox(Draft(r), r)
<1>. DEFINE d == Draft(r)
<1>1. /\ d.items = items /\ d.created = created /\ d.prefs = itemPrefs /\ d.writes = FALSE
      /\ d = [items |-> items, created |-> created, prefs |-> itemPrefs, writes |-> FALSE]
  <2>1. req[r].prefs = itemPrefs
    BY DEF ReqOK, None
  <2>. QED BY <2>1 DEF Draft
<1>2. created \in Nat /\ Rows(items, created) /\ Whole(items, itemPrefs) /\ itemPrefs \in PrefMap
  BY DEF BoxOK
<1>3. d \in Drafts
  BY <1>1, <1>2 DEF Drafts, Rows
<1>4. \A i \in BoxRows(items), j \in ExtraRows(req[r].items) : i.id # j.id
  BY SeenBox, <1>2 DEF Rows, ExtraRows, BoxRows
<1>5. Good(d, r)
  BY <1>1, <1>2, <1>3, <1>4 DEF Good
<1>6. SameBox(d, r)
  BY <1>1, SeenBox DEF SameBox
<1>. QED BY <1>5, <1>6

WithPref(own, v, i) == IF i.id \in own THEN [i EXCEPT !.pref = v] ELSE i

\* itemPrefs: the rows of the product follow the map.
LEMMA PrefKeeps ==
  ASSUME NEW r \in Requests, NEW d, Good(d, r), SameBox(d, r),
         NEW p \in Products, NEW v \in Prefs \cup {None}
  PROVE  Good(SetPref(d, r, p, v), r) /\ SameBox(SetPref(d, r, p, v), r)
<1>. DEFINE e == SetPref(d, r, p, v)
            own == {i.id : i \in {j \in BoxRows(req[r].items) : j.product = p}}
<1>0. d \in Drafts /\ d.prefs \in PrefMap
  BY DEF Good, Drafts
<1>1. /\ e.items = IF v = None THEN d.items ELSE {WithPref(own, v, i) : i \in d.items}
      /\ e.created = d.created /\ e.prefs = [d.prefs EXCEPT ![p] = v] /\ e.writes = TRUE
      /\ e = [items |-> e.items, created |-> e.created, prefs |-> e.prefs, writes |-> e.writes]
  <2>. DEFINE new == IF v = None THEN d.items ELSE {WithPref(own, v, i) : i \in d.items}
  <2>1. e = [d EXCEPT !.prefs[p] = v, !.writes = TRUE, !.items = new]
    BY DEF SetPref, WithPref
  <2>. HIDE DEF e, new
  <2>2. e = [items |-> new, created |-> d.created, prefs |-> [d.prefs EXCEPT ![p] = v], writes |-> TRUE]
    BY <1>0, <2>1 DEF Drafts
  <2>3. e.items = new
    BY <2>2
  <2>. QED BY <2>2, <2>3 DEF new
<1>. HIDE DEF e
<1>2. e.prefs \in PrefMap
  BY <1>0, <1>1 DEF PrefMap
<1>3. e.prefs[p] = v /\ \A q \in Products : q # p => e.prefs[q] = d.prefs[q]
  BY <1>0, <1>1 DEF PrefMap
<1>4. \A i \in BoxRows(d.items) : i.product \in Products
  BY <1>0, ProductAssumption DEF Drafts, BoxRows, AnyRow, BoxItems, ExtraItems
<1>5. CASE v = None
  <2>1. e.items = d.items
    BY <1>1, <1>5
  <2>2. Whole(e.items, e.prefs)
    BY <2>1, <1>3, <1>4, <1>5 DEF Good, Whole
  <2>3. e \in Drafts
    BY <2>1, <1>0, <1>1, <1>2 DEF Drafts
  <2>4. Good(e, r) /\ SameBox(e, r)
    BY <2>1, <2>2, <2>3, <1>1 DEF Good, SameBox
  <2>. QED BY <2>4 DEF e
<1>6. CASE v # None
  <2>1. e.items = {WithPref(own, v, i) : i \in d.items}
    BY <1>1, <1>6
  <2>2. ASSUME NEW i \in d.items, i.id \in own PROVE i \in BoxRows(d.items) /\ i.product = p
    <3>1. PICK j \in BoxRows(req[r].items) : j.product = p /\ j.id = i.id
      BY <2>2
    <3>2. PICK k \in BoxRows(d.items) : k.id = j.id /\ k.product = j.product
      BY DEF SameBox
    <3>3. k = i
      BY <3>1, <3>2 DEF Good, Rows, BoxRows
    <3>. QED BY <3>1, <3>2, <3>3
  <2>3. ASSUME NEW i \in BoxRows(d.items), i.product = p PROVE i.id \in own
    BY <2>3 DEF SameBox
  <2>4. ASSUME NEW i \in d.items
        PROVE  /\ WithPref(own, v, i) \in AnyRow
               /\ WithPref(own, v, i).id = i.id /\ WithPref(own, v, i).product = i.product
               /\ WithPref(own, v, i).source = i.source
               /\ i.id \in own => WithPref(own, v, i).pref = v
               /\ i.id \notin own => WithPref(own, v, i) = i
    <3>1. i \in AnyRow
      BY <1>0 DEF Drafts
    <3>2. CASE i.id \in own
      <4>1. i \in BoxItems
        BY <2>2, <3>1, <3>2, RowKinds DEF BoxRows, AnyRow
      <4>. QED BY <4>1, <3>2 DEF BoxItems, AnyRow, WithPref
    <3>. QED BY <3>1, <3>2 DEF WithPref
  <2>. HIDE DEF own
  <2>5. /\ \A i \in BoxRows(d.items) : WithPref(own, v, i) \in BoxRows(e.items)
        /\ \A k \in BoxRows(e.items) : \E i \in BoxRows(d.items) : k = WithPref(own, v, i)
    <3>1. ASSUME NEW i \in BoxRows(d.items) PROVE WithPref(own, v, i) \in BoxRows(e.items)
      <4>1. i \in d.items /\ i.source \in BoxSources
        BY DEF BoxRows
      <4>2. WithPref(own, v, i) \in e.items /\ WithPref(own, v, i).source = i.source
        BY <4>1, <2>1, <2>4
      <4>. QED BY <4>1, <4>2 DEF BoxRows
    <3>2. ASSUME NEW k \in BoxRows(e.items) PROVE \E i \in BoxRows(d.items) : k = WithPref(own, v, i)
      <4>1. k \in e.items /\ k.source \in BoxSources
        BY DEF BoxRows
      <4>2. PICK i \in d.items : k = WithPref(own, v, i)
        BY <4>1, <2>1
      <4>3. i \in BoxRows(d.items)
        BY <4>1, <4>2, <2>4 DEF BoxRows
      <4>. QED BY <4>2, <4>3
    <3>. QED BY <3>1, <3>2
  <2>6. Rows(e.items, e.created)
    BY <2>1, <2>4, <1>1 DEF Good, Rows
  <2>7. Contents(e.items) = Contents(d.items)
    <3>1. ASSUME NEW q \in Contents(e.items) PROVE q \in Contents(d.items)
      <4>1. PICK k \in BoxRows(e.items) : q = k.product
        BY DEF Contents
      <4>2. PICK i \in BoxRows(d.items) : k = WithPref(own, v, i)
        BY <2>5
      <4>3. i \in d.items
        BY DEF BoxRows
      <4>. QED BY <4>1, <4>2, <4>3, <2>4 DEF Contents
    <3>2. ASSUME NEW q \in Contents(d.items) PROVE q \in Contents(e.items)
      <4>1. PICK i \in BoxRows(d.items) : q = i.product
        BY DEF Contents
      <4>2. i \in d.items
        BY DEF BoxRows
      <4>. QED BY <4>1, <4>2, <2>4, <2>5 DEF Contents
    <3>. QED BY <3>1, <3>2
  <2>8. ASSUME NEW k \in BoxRows(e.items), e.prefs[k.product] # None
        PROVE  k.pref = e.prefs[k.product]
    <3>1. PICK i \in BoxRows(d.items) : k = WithPref(own, v, i)
      BY <2>5
    <3>2. i \in d.items
      BY DEF BoxRows
    <3>3. CASE i.product = p
      <4>1. i.id \in own
        BY <3>3, <2>3
      <4>2. k.pref = v /\ k.product = p
        BY <4>1, <3>1, <3>2, <3>3, <2>4
      <4>. QED BY <4>2, <1>3
    <3>4. CASE i.product # p
      <4>1. k = i
        BY <3>1, <3>2, <3>4, <2>2, <2>4
      <4>2. e.prefs[k.product] = d.prefs[k.product]
        BY <4>1, <3>4, <1>3, <1>4
      <4>. QED BY <4>1, <4>2, <2>8 DEF Good, Whole
    <3>. QED BY <3>3, <3>4
  <2>9. ASSUME NEW k \in BoxRows(e.items), NEW m \in BoxRows(e.items), k.product = m.product
        PROVE  k = m
    <3>1. PICK i \in BoxRows(d.items) : k = WithPref(own, v, i)
      BY <2>5
    <3>2. PICK j \in BoxRows(d.items) : m = WithPref(own, v, j)
      BY <2>5
    <3>3. i \in d.items /\ j \in d.items
      BY DEF BoxRows
    <3>4. i = j
      BY <3>1, <3>2, <3>3, <2>4, <2>9 DEF Good, Whole
    <3>. QED BY <3>1, <3>2, <3>4
  <2>10. Whole(e.items, e.prefs)
    <3>1. Cardinality(Contents(e.items)) = BoxSize
      BY <2>7 DEF Good, Whole
    <3>. QED BY <3>1, <2>8, <2>9 DEF Whole
  <2>11. e \in Drafts
    <3>1. e.items \subseteq AnyRow /\ e.created \in Nat
      BY <2>1, <2>4, <1>0, <1>1 DEF Drafts
    <3>. QED BY <3>1, <1>1, <1>2 DEF Drafts
  <2>12. \A i \in BoxRows(e.items), j \in ExtraRows(req[r].items) : i.id # j.id
    <3>. SUFFICES ASSUME NEW k \in BoxRows(e.items), NEW j \in ExtraRows(req[r].items)
                  PROVE k.id # j.id
      OBVIOUS
    <3>1. PICK i \in BoxRows(d.items) : k = WithPref(own, v, i)
      BY <2>5
    <3>2. i \in d.items
      BY DEF BoxRows
    <3>. QED BY <3>1, <3>2, <2>4 DEF Good
  <2>13. Good(e, r)
    BY <2>6, <2>10, <2>11, <2>12, <1>1 DEF Good
  <2>14. SameBox(e, r)
    <3>1. ASSUME NEW j \in BoxRows(req[r].items)
          PROVE \E i \in BoxRows(e.items) : i.id = j.id /\ i.product = j.product
      <4>1. PICK i \in BoxRows(d.items) : i.id = j.id /\ i.product = j.product
        BY DEF SameBox
      <4>2. i \in d.items
        BY DEF BoxRows
      <4>. QED BY <4>1, <4>2, <2>4, <2>5
    <3>2. ASSUME NEW k \in BoxRows(e.items)
          PROVE \E j \in BoxRows(req[r].items) : k.id = j.id /\ k.product = j.product
      <4>1. PICK i \in BoxRows(d.items) : k = WithPref(own, v, i)
        BY <2>5
      <4>2. i \in d.items
        BY DEF BoxRows
      <4>3. PICK j \in BoxRows(req[r].items) : i.id = j.id /\ i.product = j.product
        BY DEF SameBox
      <4>. QED BY <4>1, <4>2, <4>3, <2>4
    <3>. QED BY <3>1, <3>2 DEF SameBox
  <2>. QED BY <2>13, <2>14 DEF e
<1>. QED BY <1>5, <1>6

LEMMA LeftSlotType ==
  ASSUME NEW seen, NEW s, NEW n, \A i \in BoxRows(seen) : i \in BoxItems
  PROVE  LeftSlot(seen, s, n) \in Products \cup {None}
<1>. DEFINE left == {i \in BoxRows(seen) : i.product \notin Range(s)}
            nth == {i \in left : Cardinality({j \in left : NotAfter(j, i)}) = n}
            i == CHOOSE j \in nth : TRUE
<1>1. LeftSlot(seen, s, n) = IF nth = {} THEN None
                             ELSE IF i.source = "SWAP" /\ i.of # None THEN i.of ELSE i.product
  BY DEF LeftSlot
<1>2. nth # {} => i \in BoxItems
  OBVIOUS
<1>. HIDE DEF i, nth
<1>. QED BY <1>1, <1>2 DEF BoxItems

\* The rows that a new list of products leaves, and those it adds.
LEMMA KeptRows ==
  ASSUME BoxOK, ReqOK, NEW r \in Requests, req[r].at = "box", NEW s
  PROVE  Kept(req[r].items, s) = {i \in BoxRows(req[r].items) : i.product \in Range(s)}
<1>1. \A i \in BoxRows(req[r].items) : i.id \in Nat
  BY SeenBox DEF BoxRows
<1>2. \A i \in BoxRows(req[r].items) : \A j \in BoxRows(req[r].items) :
        j.product = i.product => NotAfter(j, i)
  BY <1>1, SeenBox DEF NotAfter
<1>. QED BY <1>2 DEF Kept

LEMMA AddedRows ==
  ASSUME BoxOK, ReqOK, NEW r \in Requests, req[r].at = "box",
         NEW d, Good(d, r), NEW s \in Lists(BoxSize), NEW N, N = NewPlaces(req[r].items, s)
  PROVE  /\ N \subseteq 1..BoxSize /\ Cardinality(N) \in Nat
         /\ \A n \in N : /\ AddedRow(d, r, s, n) \in BoxItems
                         /\ AddedRow(d, r, s, n).id = d.created + Place(n, N)
                         /\ AddedRow(d, r, s, n).id \in (d.created + 1)..(d.created + Cardinality(N))
                         /\ AddedRow(d, r, s, n).product = s[n]
                         /\ AddedRow(d, r, s, n).pref = d.prefs[s[n]]
         /\ \A m, n \in N : AddedRow(d, r, s, m).id = AddedRow(d, r, s, n).id => m = n
<1>1. BoxSize \in Nat /\ \A i \in BoxRows(req[r].items) : i \in BoxItems
  BY SeenBox
<1>2. DOMAIN s = 1..BoxSize /\ \A k \in 1..BoxSize : s[k] \in Products
  BY <1>1, ListCount
<1>3. N \subseteq 1..BoxSize
  <2>1. N \subseteq DOMAIN s
    BY DEF NewPlaces
  <2>. QED BY <2>1, <1>2
<1>4. IsFiniteSet(N)
  <2>1. IsFiniteSet(1..BoxSize)
    BY <1>1, FS_Interval
  <2>. QED BY <2>1, <1>3, FS_Subset
<1>5. N \in SUBSET Nat
  BY <1>1, <1>3
<1>6. /\ Cardinality(N) \in Nat
      /\ \A n \in N : Place(n, N) \in 1..Cardinality(N)
      /\ \A m, n \in N : Place(m, N) = Place(n, N) => m = n
  BY <1>4, <1>5, Places
<1>7. d.created \in Nat /\ d.prefs \in PrefMap
  BY DEF Good, Drafts
<1>8. ASSUME NEW n \in N
      PROVE  /\ AddedRow(d, r, s, n) \in BoxItems
             /\ AddedRow(d, r, s, n).id = d.created + Place(n, N)
             /\ AddedRow(d, r, s, n).product = s[n]
             /\ AddedRow(d, r, s, n).pref = d.prefs[s[n]]
  <2>1. s[n] \in Products /\ n \in Nat /\ d.prefs[s[n]] \in Prefs \cup {None}
    BY <1>2, <1>3, <1>5, <1>7 DEF PrefMap
  <2>2. d.created + Place(n, N) \in Nat \ {0}
    BY <1>6, <1>7
  <2>3. LeftSlot(req[r].items, s, Place(n, SwapPlaces(req[r].items, s))) \in Products \cup {None}
    BY <1>1, LeftSlotType
  <2>4. CASE s[n] \in Template
    <3>1. AddedRow(d, r, s, n) = BoxRow(d.created + Place(n, N), "TEMPLATE", s[n], n, d.prefs, None)
      BY <2>4 DEF AddedRow, PrefsForNew
    <3>. QED BY <3>1, <2>1, <2>2 DEF BoxRow, BoxItems, BoxSources
  <2>5. CASE s[n] \notin Template
    <3>1. AddedRow(d, r, s, n) = BoxRow(d.created + Place(n, N), "SWAP", s[n], n, d.prefs,
                                        LeftSlot(req[r].items, s, Place(n, SwapPlaces(req[r].items, s))))
      BY <2>5 DEF AddedRow, PrefsForNew
    <3>. QED BY <3>1, <2>1, <2>2, <2>3 DEF BoxRow, BoxItems, BoxSources
  <2>. QED BY <2>4, <2>5
<1>9. ASSUME NEW n \in N
      PROVE  AddedRow(d, r, s, n).id \in (d.created + 1)..(d.created + Cardinality(N))
  <2>1. Place(n, N) \in 1..Cardinality(N) /\ AddedRow(d, r, s, n).id = d.created + Place(n, N)
    BY <1>6, <1>8
  <2>. QED BY <2>1, <1>6, <1>7
<1>10. ASSUME NEW m \in N, NEW n \in N, AddedRow(d, r, s, m).id = AddedRow(d, r, s, n).id
       PROVE  m = n
  <2>1. Place(m, N) = Place(n, N)
    <3>1. d.created + Place(m, N) = d.created + Place(n, N)
      BY <1>8, <1>10
    <3>2. Place(m, N) \in Nat /\ Place(n, N) \in Nat
      BY <1>6
    <3>. QED BY <3>1, <3>2, <1>7
  <2>. QED BY <2>1, <1>6
<1>. QED BY <1>3, <1>6, <1>8, <1>9, <1>10

\* items: a new list of products takes the place of the box's.
LEMMA ItemsKeep ==
  ASSUME BoxOK, ReqOK, NEW r \in Requests, req[r].at = "box",
         NEW d, Good(d, r), SameBox(d, r), NEW s \in Lists(BoxSize)
  PROVE  Good(SetItems(d, r, s), r)
<1>. DEFINE seen == req[r].items
            K == Kept(seen, s)
            gone == {i.id : i \in BoxRows(seen) \ K}
            old == {i \in d.items : i.id \notin gone}
            N == NewPlaces(seen, s)
            new == {AddedRow(d, r, s, n) : n \in N}
            e == SetItems(d, r, s)
<1>0. d \in Drafts /\ created <= d.created /\ d.created \in Nat /\ created \in Nat
  BY DEF Good, Drafts, BoxOK
<1>1. /\ BoxSize \in Nat
      /\ \A i, j \in seen : i.id = j.id => i = j
      /\ \A i \in seen : i.id \in Nat /\ i.id <= created
  BY SeenBox
<1>2. K = {i \in BoxRows(seen) : i.product \in Range(s)}
  BY KeptRows
<1>3. /\ DOMAIN s = 1..BoxSize
      /\ \A k, m \in 1..BoxSize : s[k] = s[m] => k = m
      /\ Range(s) = {s[k] : k \in 1..BoxSize} /\ Cardinality(Range(s)) = BoxSize
  BY <1>1, ListCount
<1>4. /\ N \subseteq 1..BoxSize /\ Cardinality(N) \in Nat
      /\ \A n \in N : /\ AddedRow(d, r, s, n) \in BoxItems
                      /\ AddedRow(d, r, s, n).id \in (d.created + 1)..(d.created + Cardinality(N))
                      /\ AddedRow(d, r, s, n).product = s[n]
                      /\ AddedRow(d, r, s, n).pref = d.prefs[s[n]]
      /\ \A m, n \in N : AddedRow(d, r, s, m).id = AddedRow(d, r, s, n).id => m = n
  BY AddedRows
<1>5. /\ e.items = old \cup new /\ e.created = d.created + Cardinality(N)
      /\ e.prefs = d.prefs /\ e.writes = d.writes
      /\ e = [items |-> e.items, created |-> e.created, prefs |-> e.prefs, writes |-> e.writes]
  <2>1. e = [d EXCEPT !.items = old \cup new, !.created = d.created + Cardinality(N)]
    BY DEF SetItems
  <2>. HIDE DEF e, old, new, N
  <2>2. e = [items |-> old \cup new, created |-> d.created + Cardinality(N), prefs |-> d.prefs,
             writes |-> d.writes]
    BY <1>0, <2>1 DEF Drafts
  <2>. QED BY <2>2
<1>6. \A n \in N : s[n] \in Range(s) /\ \A i \in K : i.product # s[n]
  BY <1>3, <1>4 DEF NewPlaces
<1>7. \A n \in 1..BoxSize : n \notin N => \E i \in K : i.product = s[n]
  BY <1>3 DEF NewPlaces
<1>. HIDE DEF e, N, K
\* The old rows of the box are those of the products that are kept.
<1>8. ASSUME NEW i \in BoxRows(d.items)
      PROVE  /\ i.id \notin gone <=> i.product \in Range(s)
             /\ i.product \in Range(s) => \E j \in K : j.product = i.product
  <2>1. PICK j \in BoxRows(seen) : i.id = j.id /\ i.product = j.product
    BY DEF SameBox
  <2>2. \A k \in BoxRows(seen) : k.id = i.id => k = j
    BY <1>1, <2>1 DEF BoxRows
  <2>. QED BY <1>2, <2>1, <2>2
<1>9. ASSUME NEW i \in BoxRows(e.items)
      PROVE  \/ i \in BoxRows(d.items) /\ i.product \in Range(s)
             \/ \E n \in N : i = AddedRow(d, r, s, n)
  BY <1>5, <1>8, <1>9 DEF BoxRows
<1>10. /\ \A i \in BoxRows(d.items) : i.product \in Range(s) => i \in BoxRows(e.items)
       /\ \A n \in N : AddedRow(d, r, s, n) \in BoxRows(e.items)
  <2>1. \A n \in N : AddedRow(d, r, s, n).source \in BoxSources
    BY <1>4, RowKinds
  <2>. QED BY <1>5, <1>8, <2>1 DEF BoxRows
<1>11. Rows(e.items, e.created)
  <2>1. Rows(d.items, d.created)
    BY DEF Good
  <2>2. old \subseteq AnyRow /\ \A i \in old : i.id \in Nat /\ i.id <= d.created
    BY <2>1 DEF Rows, AnyRow, BoxItems, ExtraItems
  <2>3. new \subseteq AnyRow /\ \A i \in new : i.id \in (d.created + 1)..(d.created + Cardinality(N))
    BY <1>4 DEF AnyRow
  <2>4. \A i, j \in old : i.id = j.id => i = j
    BY <2>1 DEF Rows
  <2>5. \A i, j \in new : i.id = j.id => i = j
    BY <1>4
  <2>. HIDE DEF old, new
  <2>6. \A i \in old, j \in new : i.id # j.id
    BY <2>2, <2>3, <1>0, <1>4
  <2>7. \A i \in old \cup new : i.id <= d.created + Cardinality(N)
    BY <2>2, <2>3, <1>0, <1>4
  <2>. QED BY <2>2, <2>3, <2>4, <2>5, <2>6, <2>7, <1>5 DEF Rows
<1>12. Whole(e.items, e.prefs)
  <2>0. Whole(d.items, d.prefs)
    BY DEF Good
  <2>1. ASSUME NEW i \in BoxRows(e.items), NEW j \in BoxRows(e.items), i.product = j.product
        PROVE  i = j
    <3>1. CASE i \in BoxRows(d.items) /\ j \in BoxRows(d.items)
      BY <2>0, <2>1, <3>1 DEF Whole
    <3>2. ASSUME NEW k \in BoxRows(d.items), k.product \in Range(s), NEW n \in N
          PROVE  k.product # AddedRow(d, r, s, n).product
      BY <3>2, <1>4, <1>6, <1>8
    <3>3. ASSUME NEW m \in N, NEW n \in N,
                 AddedRow(d, r, s, m).product = AddedRow(d, r, s, n).product
          PROVE  m = n
      BY <3>3, <1>3, <1>4
    <3>. QED BY <3>1, <3>2, <3>3, <1>9, <2>1
  <2>2. Contents(e.items) = Range(s)
    <3>1. ASSUME NEW i \in BoxRows(e.items) PROVE i.product \in Range(s)
      BY <1>4, <1>6, <1>9
    <3>2. ASSUME NEW n \in 1..BoxSize PROVE \E i \in BoxRows(e.items) : i.product = s[n]
      <4>1. CASE n \in N
        BY <4>1, <1>4, <1>10
      <4>2. CASE n \notin N
        <5>1. PICK j \in K : j.product = s[n]
          BY <1>7, <4>2
        <5>2. j \in BoxRows(seen) /\ j.product \in Range(s)
          BY <1>2, <5>1
        <5>3. PICK i \in BoxRows(d.items) : i.product = j.product
          BY <5>2 DEF SameBox
        <5>. QED BY <5>1, <5>2, <5>3, <1>10
      <4>. QED BY <4>1, <4>2
    <3>. QED BY <3>1, <3>2, <1>3 DEF Contents
  <2>3. ASSUME NEW i \in BoxRows(e.items), e.prefs[i.product] # None
        PROVE  i.pref = e.prefs[i.product]
    <3>1. CASE i \in BoxRows(d.items)
      BY <2>0, <2>3, <3>1, <1>5 DEF Whole
    <3>2. ASSUME NEW n \in N, i = AddedRow(d, r, s, n) PROVE i.pref = e.prefs[i.product]
      BY <3>2, <1>4, <1>5
    <3>. QED BY <3>1, <3>2, <1>9
  <2>. QED BY <2>1, <2>2, <2>3, <1>3 DEF Whole
<1>13. \A i \in BoxRows(e.items), j \in ExtraRows(seen) : i.id # j.id
  <2>. SUFFICES ASSUME NEW i \in BoxRows(e.items), NEW j \in ExtraRows(seen) PROVE i.id # j.id
    OBVIOUS
  <2>1. CASE i \in BoxRows(d.items)
    BY <2>1 DEF Good
  <2>2. ASSUME NEW n \in N, i = AddedRow(d, r, s, n) PROVE i.id # j.id
    <3>1. i.id \in (d.created + 1)..(d.created + Cardinality(N))
      BY <1>4, <2>2
    <3>2. j.id \in Nat /\ j.id <= created
      BY <1>1 DEF ExtraRows
    <3>. QED BY <3>1, <3>2, <1>0, <1>4
  <2>. QED BY <2>1, <2>2, <1>9
<1>14. e \in Drafts /\ created <= e.created
  <2>1. e.items \subseteq AnyRow
    BY <1>11 DEF Rows
  <2>2. e.created \in Nat /\ created <= e.created
    BY <1>0, <1>4, <1>5
  <2>. QED BY <2>1, <2>2, <1>0, <1>5 DEF Drafts
<1>15. ~e.writes => e.prefs = itemPrefs
  BY <1>5 DEF Good
<1>16. Good(e, r)
  BY <1>11, <1>12, <1>13, <1>14, <1>15 DEF Good
<1>. QED BY <1>16 DEF e

\* extras: the rows of the box stay as they are.
LEMMA ExtrasKeep ==
  ASSUME BoxOK, ReqOK, NEW r \in Requests, req[r].at = "box",
         NEW d, Good(d, r), NEW E \in SUBSET Extras
  PROVE  Good(SetExtras(d, r, E), r)
<1>. DEFINE seen == ExtraRows(req[r].items)
            match == {i \in seen : i.qty = 1 /\ i.product \in E}
            keep == {i \in match : \A j \in match : j.product = i.product => NotAfter(i, j)}
            gone == {i.id : i \in seen \ keep}
            A == E \ {i.product : i \in keep}
            added == SetToSeq(A)
            row(n) == ExtraRow(d.created + n, "EXTRA", added[n], Cardinality(req[r].items) + n, FALSE)
            new == {row(n) : n \in DOMAIN added}
            old == {i \in d.items : i.id \notin gone}
            e == SetExtras(d, r, E)
<1>0. d \in Drafts /\ created <= d.created /\ d.created \in Nat /\ created \in Nat
  BY DEF Good, Drafts, BoxOK
<1>1. Cardinality(req[r].items) \in Nat
  BY SeenBox, FS_CardinalityType
<1>2. IsFiniteSet(A)
  BY ProductAssumption, TemplateAssumption, FS_Subset
<1>3. PICK c \in Nat : /\ c = Cardinality(A) /\ added \in [1..c -> A]
                       /\ \A m, n \in 1..c : added[m] = added[n] => m = n
  BY ZenonT(40), <1>2, Listing
<1>4. DOMAIN added = 1..c /\ Len(added) = c
  BY <1>3
<1>5. MaxRows \in Nat /\ 1 <= MaxRows
  <2>1. IsFiniteSet(Template)
    BY ProductAssumption, TemplateAssumption, FS_Subset
  <2>2. Cardinality(Template) \in Nat /\ Cardinality(Template) # 0
    BY <2>1, TemplateAssumption, FS_CardinalityType, FS_EmptySet
  <2>. QED BY <2>2, BoundAssumption
<1>6. /\ e.items = old \cup new /\ e.created = d.created + c
      /\ e.prefs = d.prefs /\ e.writes = d.writes
      /\ e = [items |-> e.items, created |-> e.created, prefs |-> e.prefs, writes |-> e.writes]
  <2>1. e = [d EXCEPT !.items = old \cup new, !.created = d.created + Len(added)]
    BY DEF SetExtras
  <2>. HIDE DEF e, old, new, added
  <2>2. e = [items |-> old \cup new, created |-> d.created + c, prefs |-> d.prefs,
             writes |-> d.writes]
    BY <1>0, <1>4, <2>1 DEF Drafts
  <2>. QED BY <2>2
<1>. HIDE DEF e
<1>7. ASSUME NEW n \in 1..c
      PROVE  row(n) \in ExtraItems /\ row(n).id = d.created + n
  <2>1. added[n] \in Extras /\ n \in Nat \ {0}
    BY <1>3
  <2>. HIDE DEF added
  <2>2. d.created + n \in Nat \ {0} /\ Cardinality(req[r].items) + n \in Nat
    BY <2>1, <1>0, <1>1
  <2>. QED BY <2>1, <2>2, <1>5 DEF ExtraRow, ExtraItems
<1>8. new = {row(n) : n \in 1..c}
  BY <1>4
<1>9. new \subseteq ExtraItems
  BY <1>7, <1>8
<1>10. \A i \in new : i.id \in (d.created + 1)..(d.created + c)
  <2>. SUFFICES ASSUME NEW n \in 1..c PROVE row(n).id \in (d.created + 1)..(d.created + c)
    BY <1>8
  <2>1. row(n).id = d.created + n
    BY <1>7
  <2>2. d.created + n \in (d.created + 1)..(d.created + c)
    BY <1>0, <1>3
  <2>. QED BY <2>1, <2>2
<1>11. \A i, j \in new : i.id = j.id => i = j
  <2>. SUFFICES ASSUME NEW m \in 1..c, NEW n \in 1..c, row(m).id = row(n).id PROVE row(m) = row(n)
    BY ZenonT(40), <1>8
  <2>1. d.created + m = d.created + n
    BY <1>7
  <2>2. d.created \in Int /\ m \in Int /\ n \in Int
    BY <1>0
  <2>3. m = n
    BY <2>1, <2>2
  <2>. QED BY <2>3
<1>12. BoxRows(e.items) = BoxRows(d.items)
  <2>1. \A i \in BoxRows(d.items) : i.id \notin gone
    BY DEF Good
  <2>. HIDE DEF new, gone
  <2>. QED BY <2>1, <1>6, <1>9, RowKinds DEF BoxRows
<1>. HIDE DEF new, gone
<1>13. Rows(e.items, e.created)
  <2>1. Rows(d.items, d.created)
    BY DEF Good
  <2>2. old \subseteq AnyRow /\ \A i \in old : i.id \in Nat /\ i.id <= d.created
    BY <2>1 DEF Rows, AnyRow, BoxItems, ExtraItems
  <2>3. \A i, j \in old : i.id = j.id => i = j
    BY <2>1 DEF Rows
  <2>. HIDE DEF old
  <2>4. \A i \in old, j \in new : i.id # j.id
    BY <2>2, <1>10, <1>0, <1>3
  <2>5. \A i \in old \cup new : i.id <= d.created + c
    BY <2>2, <1>10, <1>0, <1>3
  <2>. QED BY <2>2, <2>3, <2>4, <2>5, <1>6, <1>9, <1>11 DEF Rows, AnyRow
<1>14. Whole(e.items, e.prefs)
  BY <1>6, <1>12 DEF Good, Whole, Contents
<1>15. \A i \in BoxRows(e.items), j \in seen : i.id # j.id
  BY <1>12 DEF Good
<1>16. e \in Drafts /\ created <= e.created
  <2>1. e.items \subseteq AnyRow
    BY <1>13 DEF Rows
  <2>2. e.created \in Nat /\ created <= e.created
    BY <1>0, <1>3, <1>6
  <2>. QED BY <2>1, <2>2, <1>0, <1>6 DEF Drafts
<1>17. ~e.writes => e.prefs = itemPrefs
  BY <1>6 DEF Good
<1>18. Good(e, r)
  BY <1>13, <1>14, <1>15, <1>16, <1>17 DEF Good
<1>. QED BY <1>18 DEF e

\* The box, the requests that read it, and the rest of the state.
BoxInv == BoxOK /\ ReqOK /\ StateOK /\ JobOK

LEMMA SaveKeeps ==
  ASSUME BoxInv, OneRequest, NEW r \in Requests, NEW d, Good(d, r), Save(r, d)
  PROVE  BoxInv'
<1>1. /\ d.created <= MaxRows /\ items' = d.items /\ created' = d.created
      /\ itemPrefs' = d.prefs /\ req' = [req EXCEPT ![r] = Idle]
      /\ UNCHANGED <<status, past, charged, job, helping>>
  BY DEF Save, Good
<1>2. BoxOK'
  <2>1. d.created \in 0..MaxRows /\ d.prefs \in PrefMap
    BY <1>1, BoundAssumption DEF Good, Drafts
  <2>. QED BY <1>1, <2>1 DEF Good, BoxOK
<1>3. ReqOK'
  <2>1. NoPrefs \in PrefMap
    BY DEF NoPrefs, PrefMap
  <2>2. Idle \in Requested /\ Idle.at = None /\ Idle.items = {}
    BY <2>1 DEF Idle, Requested
  <2>3. req' \in [Requests -> Requested]
    BY <1>1, <2>2 DEF BoxInv, ReqOK
  <2>4. \A q \in Requests : req'[q] = Idle
    BY <1>1 DEF BoxInv, ReqOK, OneRequest
  <2>5. None # "box"
    BY DEF None
  <2>. QED BY <2>2, <2>3, <2>4, <2>5 DEF ReqOK
<1>4. StateOK' /\ JobOK'
  BY <1>1 DEF BoxInv, StateOK, JobOK
<1>. QED BY <1>2, <1>3, <1>4 DEF BoxInv

LEMMA PatchKeeps ==
  ASSUME BoxInv, OneRequest, NEW r \in Requests, PatchCurrentCycle(r)
  PROVE  BoxInv'
<1>. USE DEF BoxInv
<1>0. req[r].at = "box"
  BY DEF PatchCurrentCycle, LockCycle
<1>1. Cardinality(BoxRows(req[r].items)) = BoxSize
  BY <1>0, SeenBox
<1>2. PICK pref \in Field("prefs", Products \X (Prefs \cup {None})),
           list \in Field("items", Lists(BoxSize)),
           extras \in Field("extras", SUBSET Extras) :
        LET d1 == IF pref = <<>> THEN Draft(r) ELSE SetPref(Draft(r), r, pref[1][1], pref[1][2])
            d2 == IF list = <<>> THEN d1 ELSE SetItems(d1, r, list[1])
        IN Save(r, IF extras = <<>> THEN d2 ELSE SetExtras(d2, r, extras[1]))
  BY <1>1 DEF PatchCurrentCycle
<1>. DEFINE d1 == IF pref = <<>> THEN Draft(r) ELSE SetPref(Draft(r), r, pref[1][1], pref[1][2])
            d2 == IF list = <<>> THEN d1 ELSE SetItems(d1, r, list[1])
            d3 == IF extras = <<>> THEN d2 ELSE SetExtras(d2, r, extras[1])
<1>3. /\ pref # <<>> => pref[1] \in Products \X (Prefs \cup {None})
      /\ list # <<>> => list[1] \in Lists(BoxSize)
      /\ extras # <<>> => extras[1] \in SUBSET Extras
  BY DEF Field
<1>4. Good(Draft(r), r) /\ SameBox(Draft(r), r)
  BY <1>0, DraftGood
<1>5. Good(d1, r) /\ SameBox(d1, r)
  <2>1. CASE pref = <<>>
    BY <2>1, <1>4
  <2>2. CASE pref # <<>>
    <3>1. pref[1][1] \in Products /\ pref[1][2] \in Prefs \cup {None}
      BY <2>2, <1>3
    <3>2. Good(SetPref(Draft(r), r, pref[1][1], pref[1][2]), r)
          /\ SameBox(SetPref(Draft(r), r, pref[1][1], pref[1][2]), r)
      BY <3>1, <1>4, PrefKeeps
    <3>. QED BY <2>2, <3>2
  <2>. QED BY <2>1, <2>2
<1>. HIDE DEF d1
<1>6. Good(d2, r)
  <2>1. CASE list = <<>>
    BY <2>1, <1>5
  <2>2. CASE list # <<>>
    <3>1. Good(SetItems(d1, r, list[1]), r)
      BY <2>2, <1>0, <1>3, <1>5, ItemsKeep
    <3>. QED BY <2>2, <3>1
  <2>. QED BY <2>1, <2>2
<1>. HIDE DEF d2
<1>7. Good(d3, r)
  <2>1. CASE extras = <<>>
    BY <2>1, <1>6
  <2>2. CASE extras # <<>>
    <3>1. Good(SetExtras(d2, r, extras[1]), r)
      BY <2>2, <1>0, <1>3, <1>6, ExtrasKeep
    <3>. QED BY <2>2, <3>1
  <2>. QED BY <2>1, <2>2
<1>8. Save(r, d3)
  BY <1>2 DEF d1, d2, d3
<1>. HIDE DEF d3
<1>. QED BY <1>7, <1>8, SaveKeeps

\* A draft whose box is untouched and whose extras are sound is good.
LEMMA ExtrasOnly ==
  ASSUME NEW r \in Requests, NEW d, Good(d, r), NEW I, NEW n \in Nat,
         d.created <= n, Rows(I, n), BoxRows(I) = BoxRows(d.items), created \in Nat
  PROVE  Good([items |-> I, created |-> n, prefs |-> d.prefs, writes |-> d.writes], r)
<1>. DEFINE e == [items |-> I, created |-> n, prefs |-> d.prefs, writes |-> d.writes]
<1>1. d \in Drafts /\ created <= n
  BY DEF Good, Drafts
<1>2. e \in Drafts
  BY <1>1 DEF Drafts, Rows
<1>3. Whole(e.items, e.prefs)
  BY DEF Good, Whole, Contents
<1>. QED BY <1>1, <1>2, <1>3 DEF Good

MoreOf(i, j) == IF j.id = i.id THEN [j EXCEPT !.qty = i.qty + 1] ELSE j

LEMMA MergeKeeps ==
  ASSUME BoxInv, OneRequest, NEW r \in Requests, MergeCart(r)
  PROVE  BoxInv'
<1>. USE DEF BoxInv
<1>0. req[r].at = "box"
  BY DEF MergeCart, LockCycle
<1>1. PICK p \in Extras :
        IF RowsToMerge(r, p) = {}
        THEN Save(r, [Draft(r) EXCEPT
                        !.items = @ \cup {ExtraRow(created + 1, "CART_MERGE", p,
                                                   Cardinality(req[r].items) + 1, FALSE)},
                        !.created = @ + 1])
        ELSE \E i \in RowsToMerge(r, p) :
               /\ \E j \in items : j.id = i.id
               /\ i.qty < MaxRows
               /\ Save(r, [Draft(r) EXCEPT !.items = {IF j.id = i.id
                             THEN [j EXCEPT !.qty = i.qty + 1] ELSE j : j \in @}])
  BY DEF MergeCart
<1>2. created \in Nat /\ Rows(items, created) /\ MaxRows \in Nat
  BY BoundAssumption DEF BoxOK
<1>3. Cardinality(req[r].items) \in Nat /\ req[r].items \subseteq items
  BY <1>0, SeenBox, FS_CardinalityType
<1>6. /\ Good(Draft(r), r) /\ Draft(r) \in Drafts
      /\ Draft(r).items = items /\ Draft(r).created = created
  BY <1>0, DraftGood DEF Good, Draft
<1>4. CASE RowsToMerge(r, p) = {}
  <2>. DEFINE x == ExtraRow(created + 1, "CART_MERGE", p, Cardinality(req[r].items) + 1, FALSE)
              I == items \cup {x}
              n == created + 1
  <2>1. 1 <= MaxRows
    <3>1. Save(r, [Draft(r) EXCEPT !.items = @ \cup {x}, !.created = @ + 1])
      BY <1>1, <1>4
    <3>2. [Draft(r) EXCEPT !.items = @ \cup {x}, !.created = @ + 1].created = created + 1
      BY DEF Draft
    <3>3. created + 1 <= MaxRows
      BY <3>1, <3>2 DEF Save
    <3>. QED BY <3>3, <1>2
  <2>2. x \in ExtraItems /\ x.id = created + 1
    <3>1. created + 1 \in Nat \ {0} /\ Cardinality(req[r].items) + 1 \in Nat
      BY <1>2, <1>3
    <3>. QED BY <3>1, <2>1, <1>2 DEF ExtraRow, ExtraItems
  <2>. HIDE DEF x
  <2>3. Rows(I, n) /\ n \in Nat /\ created <= n
    <3>1. \A i \in items : i.id \in Nat /\ i.id <= created
      BY <1>2 DEF Rows, AnyRow, BoxItems, ExtraItems
    <3>. QED BY <3>1, <2>2, <1>2 DEF Rows, AnyRow
  <2>4. BoxRows(I) = BoxRows(items)
    BY <2>2, RowKinds DEF BoxRows
  <2>. DEFINE e == [items |-> I, created |-> n, prefs |-> Draft(r).prefs, writes |-> Draft(r).writes]
  <2>5. Good(e, r)
    BY <2>3, <2>4, <1>2, <1>6, ExtrasOnly
  <2>. DEFINE f == [Draft(r) EXCEPT !.items = I, !.created = n]
  <2>6. f = e
    <3>. DEFINE D == Draft(r)
    <3>0. D \in Drafts /\ D.created = created
      BY <1>6
    <3>. HIDE DEF I, n, D
    <3>1. f = [D EXCEPT !.items = I, !.created = n]
      BY DEF D
    <3>. HIDE DEF f
    <3>2. f = [items |-> I, created |-> n, prefs |-> D.prefs, writes |-> D.writes]
      BY <3>0, <3>1 DEF Drafts
    <3>. QED BY <3>2 DEF D
  <2>7. Save(r, [Draft(r) EXCEPT !.items = Draft(r).items \cup {x}, !.created = Draft(r).created + 1])
    BY <1>1, <1>4 DEF x
  <2>8. Save(r, e)
    BY <2>6, <2>7, <1>6
  <2>. HIDE DEF e
  <2>. QED BY <2>5, <2>8, SaveKeeps
<1>5. ASSUME NEW i \in RowsToMerge(r, p), i.qty < MaxRows,
             Save(r, [Draft(r) EXCEPT !.items = {IF j.id = i.id
                        THEN [j EXCEPT !.qty = i.qty + 1] ELSE j : j \in @}])
      PROVE  BoxInv'
  <2>. DEFINE I == {MoreOf(i, j) : j \in items}
              e == [items |-> I, created |-> created, prefs |-> Draft(r).prefs,
                    writes |-> Draft(r).writes]
  <2>1. i \in items /\ i \in ExtraItems
    <3>1. i \in items /\ i.source = "CART_MERGE"
      BY <1>3 DEF RowsToMerge
    <3>. QED BY <3>1, <1>2 DEF Rows, AnyRow, BoxItems, BoxSources
  <2>2. [i EXCEPT !.qty = i.qty + 1] \in ExtraItems /\ [i EXCEPT !.qty = i.qty + 1].id = i.id
    <3>1. i.qty + 1 \in 1..MaxRows
      BY <2>1, <1>2, <1>5 DEF ExtraItems
    <3>. QED BY <3>1, <2>1 DEF ExtraItems
  <2>3. \A j \in items : j.id = i.id => j = i
    BY <1>2, <2>1 DEF Rows
  <2>4. ASSUME NEW j \in items
        PROVE  /\ MoreOf(i, j) \in AnyRow /\ MoreOf(i, j).id = j.id
               /\ j \in BoxItems => MoreOf(i, j) = j
               /\ j \notin BoxItems => MoreOf(i, j) \in ExtraItems
    <3>1. CASE j = i
      <4>1. MoreOf(i, j) = [i EXCEPT !.qty = i.qty + 1]
        BY <3>1 DEF MoreOf
      <4>2. j \notin BoxItems
        BY <3>1, <2>1, RowKinds
      <4>. QED BY <4>1, <4>2, <3>1, <2>2 DEF AnyRow
    <3>2. CASE j # i
      <4>1. MoreOf(i, j) = j
        BY <3>2, <2>3 DEF MoreOf
      <4>. QED BY <4>1, <1>2 DEF Rows, AnyRow
    <3>. QED BY <3>1, <3>2
  <2>5. BoxRows(I) = BoxRows(items)
    <3>1. \A j \in items : j.source \in BoxSources <=> j \in BoxItems
      BY <1>2, RowKinds DEF Rows, AnyRow
    <3>2. ASSUME NEW k \in BoxRows(I) PROVE k \in BoxRows(items)
      <4>1. k \in I /\ k.source \in BoxSources
        BY DEF BoxRows
      <4>2. PICK j \in items : k = MoreOf(i, j)
        BY <4>1
      <4>3. j \in BoxItems
        BY <4>1, <4>2, <2>4, RowKinds
      <4>. QED BY <4>1, <4>2, <4>3, <2>4 DEF BoxRows
    <3>3. ASSUME NEW j \in BoxRows(items) PROVE j \in BoxRows(I)
      <4>1. j \in items /\ j.source \in BoxSources
        BY DEF BoxRows
      <4>2. j = MoreOf(i, j)
        BY <4>1, <3>1, <2>4
      <4>3. j \in I
        BY <4>1, <4>2
      <4>. QED BY <4>1, <4>3 DEF BoxRows
    <3>. QED BY <3>2, <3>3
  <2>6. Rows(I, created)
    <3>1. I \subseteq AnyRow /\ \A k \in I : k.id <= created
      BY <2>4, <1>2 DEF Rows
    <3>2. ASSUME NEW k \in I, NEW m \in I, k.id = m.id PROVE k = m
      <4>1. PICK j \in items : k = MoreOf(i, j)
        OBVIOUS
      <4>2. PICK n \in items : m = MoreOf(i, n)
        OBVIOUS
      <4>3. j = n
        BY <3>2, <4>1, <4>2, <2>4, <1>2 DEF Rows
      <4>. QED BY <4>1, <4>2, <4>3
    <3>. QED BY <3>1, <3>2 DEF Rows
  <2>7. Good(e, r)
    BY <2>5, <2>6, <1>2, <1>6, ExtrasOnly
  <2>. DEFINE f == [Draft(r) EXCEPT !.items = I]
  <2>8. f = e
    <3>. DEFINE D == Draft(r)
    <3>0. D \in Drafts /\ D.created = created
      BY <1>6
    <3>. HIDE DEF I, D
    <3>1. f = [D EXCEPT !.items = I]
      BY DEF D
    <3>. HIDE DEF f
    <3>2. f = [items |-> I, created |-> created, prefs |-> D.prefs, writes |-> D.writes]
      BY <3>0, <3>1 DEF Drafts
    <3>. QED BY <3>2 DEF D
  <2>9. Save(r, [Draft(r) EXCEPT !.items = {MoreOf(i, j) : j \in Draft(r).items}])
    BY <1>5 DEF MoreOf
  <2>10. Save(r, e)
    BY <2>8, <2>9, <1>6
  <2>. HIDE DEF e
  <2>. QED BY <2>7, <2>10, SaveKeeps
<1>. QED BY <1>1, <1>4, <1>5

LEMMA ReadKeeps ==
  ASSUME BoxInv, NEW r \in Requests, ReadSub(r) \/ ReadBox(r) \/ Drop(r)
  PROVE  BoxInv'
<1>. USE DEF BoxInv
<1>1. /\ NoPrefs \in PrefMap /\ itemPrefs \in PrefMap /\ items \subseteq AnyRow
      /\ None # "sub" /\ None # "box" /\ "sub" # "box"
  BY DEF NoPrefs, PrefMap, BoxOK, Rows, None
<1>2. UNCHANGED <<status, past, items, created, itemPrefs, charged, job, helping>>
  BY DEF ReadSub, ReadBox, Drop
<1>3. ReqOK'
  <2>1. CASE ReadSub(r)
    <3>. DEFINE e == [Idle EXCEPT !.at = "sub", !.prefs = itemPrefs]
    <3>0. req' = [req EXCEPT ![r] = e]
      BY <2>1 DEF ReadSub
    <3>2. Idle \in Requested /\ Idle.items = {} /\ e = [Idle EXCEPT !.at = "sub", !.prefs = itemPrefs]
      BY <1>1 DEF Idle, Requested
    <3>. HIDE DEF e
    <3>3. e = [at |-> "sub", prefs |-> itemPrefs, items |-> {}]
      BY <3>2 DEF Requested
    <3>1. req' = [req EXCEPT ![r] = [at |-> "sub", prefs |-> itemPrefs, items |-> {}]]
      BY <3>0, <3>3
    <3>. QED BY <3>1, <1>1, <1>2 DEF ReqOK, Requested
  <2>2. CASE ReadBox(r)
    <3>1. req[r] \in Requested /\ req[r].prefs = itemPrefs
      BY <2>2, <1>1 DEF ReqOK, ReadBox
    <3>. DEFINE D == req[r]
                e == [D EXCEPT !.at = "box", !.items = items]
    <3>2. req' = [req EXCEPT ![r] = e]
      BY <2>2 DEF ReadBox, ReqOK
    <3>. HIDE DEF D
    <3>4. D \in Requested /\ D.prefs = itemPrefs /\ e = [D EXCEPT !.at = "box", !.items = items]
      BY <3>1 DEF D
    <3>. HIDE DEF e
    <3>5. e = [at |-> "box", prefs |-> itemPrefs, items |-> items]
      BY <3>4 DEF Requested
    <3>3. req' = [req EXCEPT ![r] = [at |-> "box", prefs |-> itemPrefs, items |-> items]]
      BY <3>2, <3>5
    <3>. QED BY <3>3, <1>1, <1>2 DEF ReqOK, Requested
  <2>3. CASE Drop(r)
    <3>1. req' = [req EXCEPT ![r] = [at |-> None, prefs |-> NoPrefs, items |-> {}]]
      BY <2>3 DEF Drop, Idle
    <3>. QED BY <3>1, <1>1, <1>2 DEF ReqOK, Requested
  <2>. QED BY <2>1, <2>2, <2>3
<1>4. BoxOK' /\ StateOK' /\ JobOK'
  BY <1>2 DEF BoxOK, StateOK, JobOK
<1>. QED BY <1>3, <1>4

LEMMA CompensateKeeps ==
  ASSUME BoxInv, NEW a \in Admins, Compensate(a)
  PROVE  BoxInv'
<1>. USE DEF BoxInv
<1>1. PICK p \in Extras : items' = items \cup {ExtraRow(created + 1, "EXTRA", p, helping[a], TRUE)}
  BY DEF Compensate
<1>. DEFINE x == ExtraRow(created + 1, "EXTRA", p, helping[a], TRUE)
<1>2. /\ created \in Nat /\ created < MaxRows /\ MaxRows \in Nat /\ created' = created + 1
      /\ helping' = [helping EXCEPT ![a] = 0]
      /\ UNCHANGED <<status, past, itemPrefs, charged, job, req>>
  BY BoundAssumption DEF Compensate, BoxOK
<1>3. x \in ExtraItems /\ x.id = created + 1
  <2>1. created + 1 \in Nat \ {0} /\ 1 \in 1..MaxRows /\ helping[a] \in Nat
    BY <1>2 DEF StateOK
  <2>. QED BY <2>1 DEF ExtraRow, ExtraItems
<1>. HIDE DEF x
<1>4. BoxRows(items') = BoxRows(items)
  BY <1>1, <1>3, RowKinds DEF BoxRows, x
<1>5. BoxOK'
  <2>1. Rows(items, created) /\ \A i \in items : i.id \in Nat /\ i.id <= created
    BY DEF BoxOK, Rows, AnyRow, BoxItems, ExtraItems
  <2>2. items' = items \cup {x}
    BY <1>1 DEF x
  <2>3. Rows(items', created')
    BY <2>1, <2>2, <1>2, <1>3 DEF Rows, AnyRow
  <2>. QED BY <2>3, <1>2, <1>4 DEF BoxOK, Whole, Contents
<1>6. ReqOK'
  BY <1>1, <1>2, <1>4 DEF ReqOK
<1>7. StateOK' /\ JobOK'
  BY <1>2 DEF StateOK, JobOK
<1>. QED BY <1>5, <1>6, <1>7

\* What is charged is a number of units for each product.
LEMMA ChargeType ==
  ASSUME NEW I, IsFiniteSet(I)
  PROVE  Charge(I) \in [Products -> Nat]
<1>. SUFFICES ASSUME NEW p \in Products PROVE Cardinality(Units(I, p)) \in Nat
  BY DEF Charge
<1>1. IsFiniteSet(Chargeable(I)) /\ IsFiniteSet(1..MaxRows)
  BY BoundAssumption, FS_Interval, FS_Subset DEF Chargeable, ExtraRows
<1>2. IsFiniteSet(Chargeable(I) \X (1..MaxRows))
  BY <1>1, FS_Product
<1>3. IsFiniteSet(Units(I, p))
  BY <1>2, FS_Subset DEF Units
<1>. QED BY <1>3, FS_CardinalityType

LEMMA LockKeeps ==
  ASSUME BoxInv, LockPhaseA \/ Commit
  PROVE  BoxInv'
<1>. USE DEF BoxInv
<1>1. UNCHANGED <<past, items, created, itemPrefs, req, helping>>
  BY DEF LockPhaseA, Commit
<1>2. CASE LockPhaseA
  <2>1. Rows(items, created) /\ created \in Nat /\ created <= MaxRows
    BY BoundAssumption DEF BoxOK
  <2>2. items \subseteq ItemRow /\ IsFiniteSet(items)
    BY <2>1, RowTypes, RowsFinite
  <2>3. JobOK' /\ StateOK'
    BY <1>2, <2>2 DEF LockPhaseA, JobOK, StateOK
  <2>. QED BY <2>3, <1>1 DEF BoxOK, ReqOK
<1>3. CASE Commit
  <2>1. Charge(job.items) \in [Products -> Nat]
    BY ChargeType DEF JobOK
  <2>2. StateOK'
    BY <1>1, <1>3, <2>1 DEF Commit, StateOK
  <2>3. JobOK'
    BY <1>3, FS_EmptySet DEF Commit, JobOK, NotHeld
  <2>. QED BY <2>2, <2>3, <1>1 DEF BoxOK, ReqOK
<1>. QED BY <1>2, <1>3

LEMMA BoxInit == Init => BoxInv
<1>. SUFFICES ASSUME Init PROVE BoxInv
  OBVIOUS
<1>1. BoxSize \in Nat /\ BoxSize <= MaxRows
  BY ProductAssumption, TemplateAssumption, BoundAssumption, FS_Subset, FS_CardinalityType DEF BoxSize
<1>. DEFINE row(s, n) == BoxRow(n, IF s[n] \in Template THEN "TEMPLATE" ELSE "SWAP", s[n], n, NoPrefs, None)
<1>2. PICK s \in Lists(BoxSize) : items = {row(s, n) : n \in 1..BoxSize}
  BY DEF Init
<1>3. /\ \A k \in 1..BoxSize : s[k] \in Products
      /\ \A k, m \in 1..BoxSize : s[k] = s[m] => k = m
      /\ Range(s) = {s[k] : k \in 1..BoxSize} /\ Cardinality(Range(s)) = BoxSize
  BY <1>1, ListCount
<1>4. NoPrefs \in PrefMap /\ \A p \in Products : NoPrefs[p] = None
  BY DEF NoPrefs, PrefMap
<1>5. ASSUME NEW n \in 1..BoxSize
      PROVE  /\ row(s, n) \in BoxItems /\ row(s, n).id = n /\ row(s, n).product = s[n]
             /\ row(s, n).source \in BoxSources
  <2>1. s[n] \in Products /\ n \in Nat \ {0} /\ NoPrefs[s[n]] = None
    BY <1>1, <1>3, <1>4
  <2>. QED BY <2>1 DEF BoxRow, BoxItems, BoxSources
<1>. HIDE DEF row
<1>6. created = BoxSize /\ itemPrefs = NoPrefs
  BY DEF Init
<1>7. \A i \in items : \E n \in 1..BoxSize : i = row(s, n)
  BY <1>2
<1>8. BoxRows(items) = items
  BY <1>5, <1>7 DEF BoxRows
<1>9. Rows(items, created)
  <2>1. \A i \in items : i \in AnyRow /\ i.id <= created
    BY <1>1, <1>5, <1>6, <1>7 DEF AnyRow
  <2>2. \A i, j \in items : i.id = j.id => i = j
    BY <1>5, <1>7
  <2>. QED BY <2>1, <2>2 DEF Rows
<1>10. Whole(items, itemPrefs)
  <2>1. \A i, j \in items : i.product = j.product => i = j
    BY <1>3, <1>5, <1>7
  <2>2. Contents(items) = Range(s)
    <3>1. \A i \in items : \E k \in 1..BoxSize : i.product = s[k]
      BY <1>5, <1>7
    <3>2. \A k \in 1..BoxSize : \E i \in items : i.product = s[k]
      BY <1>2, <1>5
    <3>. QED BY <3>1, <3>2, <1>3, <1>8 DEF Contents
  <2>3. \A i \in items : itemPrefs[i.product] = None
    BY <1>3, <1>4, <1>5, <1>6, <1>7
  <2>. QED BY <2>1, <2>2, <2>3, <1>3, <1>8 DEF Whole
<1>11. BoxOK
  BY <1>1, <1>4, <1>6, <1>9, <1>10 DEF BoxOK
<1>12. ReqOK
  <2>1. Idle \in Requested /\ Idle.at = None /\ Idle.items = {} /\ None # "box"
    BY <1>4 DEF Idle, Requested, None
  <2>. QED BY <2>1 DEF Init, ReqOK
<1>13. StateOK
  <2>1. [p \in Products |-> 0] \in [Products -> Nat] /\ [a \in Admins |-> 0] \in [Admins -> Nat]
    OBVIOUS
  <2>. QED BY <2>1 DEF Init, StateOK, NothingCharged
<1>14. JobOK
  BY FS_EmptySet DEF Init, JobOK, NotHeld
<1>. QED BY <1>11, <1>12, <1>13, <1>14 DEF BoxInv

LEMMA BoxStep == OneRequest /\ BoxInv /\ [Next]_vars => BoxInv'
<1>. SUFFICES ASSUME OneRequest, BoxInv, [Next]_vars PROVE BoxInv'
  OBVIOUS
<1>1. ASSUME NEW r \in Requests, ReadSub(r) \/ ReadBox(r) \/ Drop(r) PROVE BoxInv'
  BY <1>1, ReadKeeps
<1>2. ASSUME NEW r \in Requests, PatchCurrentCycle(r) PROVE BoxInv'
  BY <1>2, PatchKeeps
<1>3. ASSUME NEW r \in Requests, MergeCart(r) PROVE BoxInv'
  BY <1>3, MergeKeeps
<1>4. CASE Skip \/ Unskip \/ Cutoff
  BY <1>4 DEF Skip, Unskip, Cutoff, BoxInv, BoxOK, ReqOK, StateOK, JobOK
<1>5. ASSUME NEW a \in Admins, ChooseBox(a) PROVE BoxInv'
  <2>1. Cardinality(items) + 1 \in Nat
    BY RowsFinite, BoundAssumption DEF BoxInv, BoxOK
  <2>2. StateOK'
    BY <1>5, <2>1 DEF ChooseBox, BoxInv, StateOK
  <2>. QED BY <1>5, <2>2 DEF ChooseBox, BoxInv, BoxOK, ReqOK, JobOK
<1>6. ASSUME NEW a \in Admins, Compensate(a) PROVE BoxInv'
  BY <1>6, CompensateKeeps
<1>7. CASE LockPhaseA \/ Commit
  BY <1>7, LockKeeps
<1>8. CASE UNCHANGED vars
  BY <1>8 DEF vars, BoxInv, BoxOK, ReqOK, StateOK, JobOK
<1>. QED BY <1>1, <1>2, <1>3, <1>4, <1>5, <1>6, <1>7, <1>8 DEF Next, Member

\* Whatever a member who makes one request at a time edits, merges, skips and unskips, and whatever
\* compensations and the lock job do meanwhile, the box keeps as many products as it was made with,
\* none twice, each with the preference she has set (patchCurrentCycle, mergeCart).
THEOREM BoxStaysWhole ==
  ASSUME OneRequest
  PROVE  Spec => []BoxKept
<1>1. BoxInv => BoxKept
  <2>. SUFFICES ASSUME BoxInv PROVE BoxKept
    OBVIOUS
  <2>. USE DEF BoxInv
  <2>1. Rows(items, created) /\ Whole(items, itemPrefs) /\ created \in Nat /\ created <= MaxRows
    BY BoundAssumption DEF BoxOK
  <2>2. items \subseteq ItemRow /\ IsFiniteSet(items)
    BY <2>1, RowTypes, RowsFinite
  <2>3. \A r \in Requests : req[r].at \in {None, "sub", "box"} /\ req[r].items \subseteq items
    BY DEF ReqOK, Requested
  <2>4. TypeOK
    BY <2>2, <2>3 DEF TypeOK, BoxOK, StateOK, JobOK, PrefMap
  <2>5. BoxSizeKept
    BY <2>1, <2>2, BoxCount DEF Whole, BoxSizeKept
  <2>6. PrefsApplied
    BY <2>1 DEF Whole, PrefsApplied
  <2>. QED BY <2>4, <2>5, <2>6 DEF BoxKept
<1>. QED BY <1>1, BoxInit, BoxStep, PTL DEF Spec

-----------------------------------------------------------------------------
LEMMA NatOrder == OpToRel(<, Nat) = {ss \in Nat \X Nat : ss[1] < ss[2]}
BY DEF OpToRel

\* A set of naturals has a least element.
LEMMA Least ==
  ASSUME NEW T \in SUBSET Nat, T # {}
  PROVE  \E n \in T : \A m \in T : n <= m
<1>1. IsWellFoundedOn({ss \in Nat \X Nat : ss[1] < ss[2]}, Nat) BY NatLessThanWellFounded, NatOrder
<1>2. PICK n \in T : \A m \in T : ~(<<m, n>> \in {ss \in Nat \X Nat : ss[1] < ss[2]}) BY <1>1, WFMin
<1>3. ASSUME NEW m \in T PROVE n <= m
  <2>1. <<m, n>> \in Nat \X Nat OBVIOUS
  <2>2. ~(m < n) BY <1>2, <2>1
  <2>. QED BY <2>2
<1>. QED BY <1>3

\* Induction up to a bound, with a set for the predicate.
LEMMA UpTo ==
  ASSUME NEW n \in Nat, NEW T, 0 \in T, \A k \in 1..n : k - 1 \in T => k \in T
  PROVE  \A k \in 0..n : k \in T
<1>. SUFFICES ASSUME (0..n) \ T # {} PROVE FALSE OBVIOUS
<1>0. (0..n) \ T \in SUBSET Nat OBVIOUS
<1>1. PICK k \in (0..n) \ T : \A m \in (0..n) \ T : k <= m BY <1>0, Least
<1>2. k # 0 /\ k \in 1..n /\ k - 1 \in 0..n OBVIOUS
<1>3. k - 1 \in T BY <1>1, <1>2
<1>. QED BY <1>1, <1>2, <1>3

Top(S) == CHOOSE x \in S : \A y \in S : x >= y

LEMMA LastOf ==
  ASSUME NEW n \in Nat, NEW S \in SUBSET (1..n), S # {}
  PROVE  Top(S) \in S /\ \A y \in S : Top(S) >= y
<1>. DEFINE R == {m \in Nat : \E x \in S : m = n - x}
<1>0. R \in SUBSET Nat /\ R # {}
  <2>1. PICK x \in S : TRUE OBVIOUS
  <2>2. n - x \in Nat BY <2>1
  <2>. QED BY <2>1, <2>2
<1>1. PICK m \in R : \A k \in R : m <= k BY <1>0, Least
<1>2. PICK x \in S : m = n - x BY <1>1
<1>3. ASSUME NEW y \in S PROVE x >= y
  <2>1. n - y \in R OBVIOUS
  <2>2. x \in Int /\ y \in Int OBVIOUS
  <2>3. n - x <= n - y BY <1>1, <1>2, <2>1
  <2>. QED BY <2>2, <2>3
<1>. QED BY <1>2, <1>3 DEF Top

\* The places up to k.
LEMMA PrefixLast ==
  ASSUME NEW k \in Nat, k > 0
  PROVE  Top(1..k) = k /\ (1..k) \ {k} = 1..(k - 1) /\ 1..k # {}
<1>1. 1..k \in SUBSET (1..k) /\ 1..k # {} /\ k \in 1..k OBVIOUS
<1>2. Top(1..k) \in 1..k /\ Top(1..k) >= k BY <1>1, LastOf
<1>. QED BY <1>1, <1>2
-----------------------------------------------------------------------------
(* Folds over a sequence, from the left *)

\* What a fold over the places 1..n computes: G takes the value so far and a place.
FoldEq(f, start, G, n) ==
  f = [S \in SUBSET (1..n) |-> IF S = {} THEN start ELSE G[<<f[S \ {Top(S)}], Top(S)>>]]

Small(n, k) == {S \in SUBSET (1..n) : \A x \in S : x <= k}
PartEq(f, start, G, n, k) ==
  f = [S \in Small(n, k) |-> IF S = {} THEN start ELSE G[<<f[S \ {Top(S)}], Top(S)>>]]

\* Its equation has a solution, place by place.
LEMMA FoldExists ==
  ASSUME NEW n \in Nat, NEW start, NEW G
  PROVE  \E f : FoldEq(f, start, G, n)
<1>. DEFINE T == {k \in 0..n : \E f : PartEq(f, start, G, n, k)}
<1>1. 0 \in T
  <2>. DEFINE f == [S \in Small(n, 0) |-> start]
  <2>1. \A S \in Small(n, 0) : S = {} BY DEF Small
  <2>2. PartEq(f, start, G, n, 0) BY <2>1 DEF PartEq
  <2>. QED BY <2>2
<1>2. ASSUME NEW k \in 1..n, k - 1 \in T PROVE k \in T
  <2>1. PICK f : PartEq(f, start, G, n, k - 1) BY <1>2
  <2>. DEFINE g == [S \in Small(n, k) |-> IF S = {} THEN start ELSE G[<<f[S \ {Top(S)}], Top(S)>>]]
  <2>2. ASSUME NEW S \in Small(n, k), S # {} PROVE g[S \ {Top(S)}] = f[S \ {Top(S)}]
    <3>. DEFINE R == S \ {Top(S)}
    <3>1. R \in Small(n, k - 1) /\ R \in Small(n, k)
      <4>1. Top(S) \in S /\ \A y \in S : Top(S) >= y BY <2>2, LastOf DEF Small
      <4>2. S \in SUBSET (1..n) /\ (\A x \in S : x <= k) BY <2>2 DEF Small
      <4>3. ASSUME NEW x \in R PROVE x <= k - 1
        <5>1. x \in 1..n /\ Top(S) \in 1..n BY <4>1, <4>2
        <5>2. x # Top(S) OBVIOUS
        <5>3. Top(S) >= x BY <4>1, <4>2
        <5>4. Top(S) <= k BY <4>1, <4>2
        <5>. QED BY <5>1, <5>2, <5>3, <5>4
      <4>. QED BY <4>2, <4>3 DEF Small
    <3>2. f[R] = IF R = {} THEN start ELSE G[<<f[R \ {Top(R)}], Top(R)>>] BY <2>1, <3>1 DEF PartEq
    <3>3. g[R] = IF R = {} THEN start ELSE G[<<f[R \ {Top(R)}], Top(R)>>] BY <3>1
    <3>. QED BY <3>2, <3>3
  <2>3. g = [S \in Small(n, k) |-> IF S = {} THEN start ELSE G[<<g[S \ {Top(S)}], Top(S)>>]]
    BY <2>2
  <2>4. PartEq(g, start, G, n, k) BY <2>3 DEF PartEq
  <2>. QED BY <2>4
<1>. HIDE DEF T
<1>3. n \in T BY <1>1, <1>2, UpTo
<1>4. PICK f : PartEq(f, start, G, n, n) BY <1>3 DEF T
<1>5. Small(n, n) = SUBSET (1..n) BY DEF Small
<1>6. FoldEq(f, start, G, n) BY <1>4, <1>5 DEF FoldEq, PartEq
<1>. QED BY <1>6

\* A fold goes along the places.
LEMMA FoldSteps ==
  ASSUME NEW n \in Nat, NEW start, NEW G, NEW f, FoldEq(f, start, G, n)
  PROVE  /\ f[1..0] = start
         /\ \A k \in 1..n : f[1..k] = G[<<f[1..(k - 1)], k>>]
<1>1. f[1..0] = start
  <2>1. 1..0 = {} /\ 1..0 \in SUBSET (1..n) OBVIOUS
  <2>. QED BY <2>1 DEF FoldEq
<1>2. ASSUME NEW k \in 1..n PROVE f[1..k] = G[<<f[1..(k - 1)], k>>]
  <2>1. 1..k \in SUBSET (1..n) OBVIOUS
  <2>2. Top(1..k) = k /\ (1..k) \ {k} = 1..(k - 1) /\ 1..k # {} BY PrefixLast, k \in Nat, k > 0
  <2>. QED BY <2>1, <2>2 DEF FoldEq
<1>. QED BY <1>1, <1>2

\* A fold stays in a set its steps do not leave.
LEMMA FoldStays ==
  ASSUME NEW n \in Nat, NEW start, NEW G, NEW h, FoldEq(h, start, G, n),
         NEW V, start \in V, \A v \in V, k \in 1..n : G[<<v, k>>] \in V
  PROVE  \A S \in SUBSET (1..n) : h[S] \in V
<1>. DEFINE T == {k \in 0..n : \A S \in Small(n, k) : h[S] \in V}
<1>1. 0 \in T
  <2>1. \A S \in Small(n, 0) : S = {} BY DEF Small
  <2>2. h[{}] = start BY DEF FoldEq
  <2>3. ASSUME NEW S \in Small(n, 0) PROVE h[S] \in V
    <3>1. S = {} BY <2>1
    <3>. QED BY <2>2, <3>1
  <2>4. 0 \in 0..n OBVIOUS
  <2>. QED BY <2>3, <2>4
<1>2. ASSUME NEW k \in 1..n, k - 1 \in T PROVE k \in T
  <2>. SUFFICES ASSUME NEW S \in Small(n, k), S # {} PROVE h[S] \in V
    <3>1. h[{}] = start BY DEF FoldEq
    <3>. QED BY <3>1
  <2>1. S \in SUBSET (1..n) BY DEF Small
  <2>2. Top(S) \in S /\ \A y \in S : Top(S) >= y BY <2>1, LastOf
  <2>3. S \ {Top(S)} \in Small(n, k - 1)
    <3>1. \A x \in S : x <= k BY DEF Small
    <3>2. ASSUME NEW x \in S \ {Top(S)} PROVE x <= k - 1
      <4>1. x \in 1..n /\ Top(S) \in 1..n BY <2>1, <2>2, <3>1
      <4>2. x # Top(S) OBVIOUS
      <4>3. Top(S) >= x BY <2>1, <2>2, <3>1
      <4>4. Top(S) <= k BY <2>1, <2>2, <3>1
      <4>. QED BY <4>1, <4>2, <4>3, <4>4
    <3>. QED BY <2>1, <3>2 DEF Small
  <2>4. h[S \ {Top(S)}] \in V BY <1>2, <2>3
  <2>5. h[S] = G[<<h[S \ {Top(S)}], Top(S)>>] BY <2>1 DEF FoldEq
  <2>6. Top(S) \in 1..n BY <2>1, <2>2
  <2>. QED BY <2>4, <2>5, <2>6
<1>. HIDE DEF T
<1>3. n \in T BY <1>1, <1>2, UpTo
<1>. QED BY <1>3 DEF T, Small
-----------------------------------------------------------------------------
(* Sums over a sequence *)

SumEq(f, s) == f = [S \in SUBSET DOMAIN s |-> IF S = {} THEN 0 ELSE f[S \ {Top(S)}] + s[Top(S)]]

LEMMA SumUnfold == ASSUME NEW s PROVE Sum(s) = (CHOOSE f : SumEq(f, s))[DOMAIN s]
BY DEF Sum, FoldLeft, MapThenFoldSet, SumEq, Top, Max

Ints(s, n) == DOMAIN s = 1..n /\ \A i \in 1..n : s[i] \in Int

\* A sum has partial sums.
LEMMA PartialSums ==
  ASSUME NEW n \in Nat, NEW s, Ints(s, n)
  PROVE  \E g \in [0..n -> Int] : /\ g[0] = 0 /\ g[n] = Sum(s)
                                  /\ \A k \in 1..n : g[k] = g[k - 1] + s[k]
<1>. DEFINE G == [p \in Int \X (1..n) |-> p[1] + s[p[2]]]
<1>1. PICK h : FoldEq(h, 0, G, n) BY FoldExists
<1>2. \A S \in SUBSET (1..n) : h[S] \in Int
  <2>1. \A v \in Int, k \in 1..n : G[<<v, k>>] \in Int BY DEF Ints
  <2>. HIDE DEF G
  <2>2. 0 \in Int OBVIOUS
  <2>. QED BY <1>1, <2>1, <2>2, FoldStays
<1>3. SumEq(h, s)
  <2>1. ASSUME NEW S \in SUBSET (1..n), S # {}
        PROVE  G[<<h[S \ {Top(S)}], Top(S)>>] = h[S \ {Top(S)}] + s[Top(S)]
    BY <1>2, <2>1, LastOf
  <2>. HIDE DEF G
  <2>2. h = [S \in SUBSET (1..n) |-> IF S = {} THEN 0 ELSE h[S \ {Top(S)}] + s[Top(S)]]
    BY <1>1, <2>1 DEF FoldEq
  <2>. QED BY <2>2 DEF SumEq, Ints
<1>. DEFINE f == CHOOSE f : SumEq(f, s)
<1>4. SumEq(f, s) BY <1>3
<1>. HIDE DEF f
<1>5. f[1..0] = 0 /\ \A k \in 1..n : f[1..k] = f[1..(k - 1)] + s[k]
  <2>1. 1..0 = {} /\ 1..0 \in SUBSET (1..n) OBVIOUS
  <2>2. ASSUME NEW k \in 1..n PROVE f[1..k] = f[1..(k - 1)] + s[k]
    <3>1. 1..k \in SUBSET (1..n) OBVIOUS
    <3>2. Top(1..k) = k /\ (1..k) \ {k} = 1..(k - 1) /\ 1..k # {} BY PrefixLast, k \in Nat, k > 0
    <3>. QED BY <1>4, <3>1, <3>2 DEF SumEq, Ints
  <2>. QED BY <1>4, <2>1, <2>2 DEF SumEq, Ints
<1>. DEFINE g == [k \in 0..n |-> f[1..k]]
<1>6. g[0] = 0 /\ (\A k \in 1..n : g[k] = g[k - 1] + s[k]) /\ g[n] = Sum(s)
  <2>1. Sum(s) = f[1..n] BY SumUnfold DEF f, Ints
  <2>2. 0 \in 0..n /\ n \in 0..n /\ \A k \in 1..n : k \in 0..n /\ k - 1 \in 0..n OBVIOUS
  <2>. QED BY <2>1, <2>2, <1>5
<1>7. \A k \in 0..n : g[k] \in Int
  <2>. DEFINE T == {k \in 0..n : g[k] \in Int}
  <2>. HIDE DEF g
  <2>1. 0 \in T BY <1>6
  <2>2. ASSUME NEW k \in 1..n, k - 1 \in T PROVE k \in T BY <2>2, <1>6 DEF Ints
  <2>. HIDE DEF T
  <2>3. \A k \in 0..n : k \in T BY <2>1, <2>2, UpTo
  <2>. QED BY <2>3 DEF T
<1>8. g \in [0..n -> Int] BY <1>7
<1>. HIDE DEF g
<1>. QED BY <1>6, <1>8

\* q is the sum so far of the first n terms of s, from 0.
Along(q, s, n) == q[0] = 0 /\ \A k \in 1..n : q[k] = q[k - 1] + s[k]

\* What goes along with the places is the sum.
LEMMA SumAlong ==
  ASSUME NEW n \in Nat, NEW s, Ints(s, n), NEW q, Along(q, s, n)
  PROVE  /\ Sum(s) = q[n] /\ Sum(s) \in Int
         /\ \A k \in 0..n : q[k] \in Int
<1>1. PICK g \in [0..n -> Int] : /\ g[0] = 0 /\ g[n] = Sum(s)
                                 /\ \A k \in 1..n : g[k] = g[k - 1] + s[k]
  BY PartialSums
<1>. DEFINE T == {k \in 0..n : g[k] = q[k]}
<1>0. q[0] = 0 /\ \A k \in 1..n : q[k] = q[k - 1] + s[k] BY DEF Along
<1>2. 0 \in T BY <1>0, <1>1
<1>3. ASSUME NEW k \in 1..n, k - 1 \in T PROVE k \in T
  <2>1. q[k] = q[k - 1] + s[k] /\ g[k] = g[k - 1] + s[k] /\ g[k - 1] = q[k - 1] BY <1>0, <1>1, <1>3
  <2>. QED BY <2>1
<1>. HIDE DEF T
<1>4. \A k \in 0..n : k \in T BY <1>2, <1>3, UpTo
<1>5. \A k \in 0..n : g[k] = q[k] BY <1>4 DEF T
<1>6. n \in 0..n OBVIOUS
<1>. QED BY <1>1, <1>5, <1>6

LEMMA SumInt == ASSUME NEW n \in Nat, NEW s, Ints(s, n) PROVE Sum(s) \in Int
<1>1. n \in 0..n OBVIOUS
<1>. QED BY <1>1, PartialSums

\* Term by term: sums are ordered as their terms are.
LEMMA SumLe ==
  ASSUME NEW n \in Nat, NEW s, Ints(s, n), NEW t, Ints(t, n), \A i \in 1..n : s[i] <= t[i]
  PROVE  Sum(s) <= Sum(t)
<1>1. PICK g \in [0..n -> Int] : /\ g[0] = 0 /\ g[n] = Sum(s)
                                 /\ \A k \in 1..n : g[k] = g[k - 1] + s[k]
  BY PartialSums
<1>2. PICK h \in [0..n -> Int] : /\ h[0] = 0 /\ h[n] = Sum(t)
                                 /\ \A k \in 1..n : h[k] = h[k - 1] + t[k]
  BY PartialSums
<1>. DEFINE T == {k \in 0..n : g[k] <= h[k]}
<1>3. 0 \in T BY <1>1, <1>2
<1>4. ASSUME NEW k \in 1..n, k - 1 \in T PROVE k \in T
  <2>1. g[k] = g[k - 1] + s[k] /\ h[k] = h[k - 1] + t[k] /\ g[k - 1] <= h[k - 1] BY <1>1, <1>2, <1>4
  <2>2. k - 1 \in 0..n /\ k \in 0..n OBVIOUS
  <2>3. g[k - 1] \in Int /\ h[k - 1] \in Int /\ s[k] \in Int /\ t[k] \in Int BY <2>2 DEF Ints
  <2>. QED BY SMTT(20), <2>1, <2>2, <2>3
<1>. HIDE DEF T
<1>5. \A k \in 0..n : k \in T BY <1>3, <1>4, UpTo
<1>6. n \in 0..n OBVIOUS
<1>. QED BY <1>1, <1>2, <1>5, <1>6 DEF T

\* Sums of sums, and of multiples.
LEMMA SumPlus ==
  ASSUME NEW n \in Nat, NEW s, Ints(s, n), NEW t, Ints(t, n), NEW r, DOMAIN r = 1..n,
         \A i \in 1..n : r[i] = s[i] + t[i]
  PROVE  Ints(r, n) /\ Sum(r) = Sum(s) + Sum(t)
<1>0. Ints(r, n) BY DEF Ints
<1>1. PICK g \in [0..n -> Int] : /\ g[0] = 0 /\ g[n] = Sum(s)
                                 /\ \A k \in 1..n : g[k] = g[k - 1] + s[k]
  BY PartialSums
<1>2. PICK h \in [0..n -> Int] : /\ h[0] = 0 /\ h[n] = Sum(t)
                                 /\ \A k \in 1..n : h[k] = h[k - 1] + t[k]
  BY PartialSums
<1>. DEFINE q == [k \in 0..n |-> g[k] + h[k]]
<1>3. q[0] = 0 /\ q[n] = Sum(s) + Sum(t)
  <2>1. 0 \in 0..n /\ n \in 0..n OBVIOUS
  <2>. QED BY <1>1, <1>2, <2>1
<1>4. ASSUME NEW k \in 1..n PROVE q[k] = q[k - 1] + r[k]
  <2>1. k - 1 \in 0..n /\ k \in 0..n OBVIOUS
  <2>2. g[k - 1] \in Int /\ h[k - 1] \in Int /\ s[k] \in Int /\ t[k] \in Int BY <2>1 DEF Ints
  <2>3. q[k] = g[k] + h[k] /\ q[k - 1] = g[k - 1] + h[k - 1] BY <2>1
  <2>4. q[k] = (g[k - 1] + s[k]) + (h[k - 1] + t[k]) BY <1>1, <1>2, <2>3
  <2>5. r[k] = s[k] + t[k] OBVIOUS
  <2>6. \A a, b, c, d \in Int : (a + b) + (c + d) = (a + c) + (b + d) OBVIOUS
  <2>. HIDE DEF q
  <2>7. q[k] = (g[k - 1] + h[k - 1]) + (s[k] + t[k]) BY SMTT(30), <2>2, <2>4, <2>6
  <2>. QED BY <2>3, <2>5, <2>7
<1>. HIDE DEF q
<1>5. q[0] = 0 /\ \A k \in 1..n : q[k] = q[k - 1] + r[k] BY <1>3, <1>4
<1>6. Along(q, r, n) BY <1>5 DEF Along
<1>7. Sum(r) = q[n] BY <1>0, <1>6, SumAlong
<1>. QED BY <1>0, <1>3, <1>7

LEMMA Distribute ==
  ASSUME NEW c \in Int, NEW a \in Int, NEW b \in Int
  PROVE  c * (a + b) = c * a + c * b /\ c * a \in Int /\ c * (a - b) = c * a - c * b
BY SMTT(30)

LEMMA SumTimes ==
  ASSUME NEW n \in Nat, NEW s, Ints(s, n), NEW c \in Int, NEW r, DOMAIN r = 1..n,
         \A i \in 1..n : r[i] = c * s[i]
  PROVE  Ints(r, n) /\ Sum(r) = c * Sum(s)
<1>0. Ints(r, n)
  <2>1. \A i \in 1..n : c * s[i] \in Int BY Distribute DEF Ints
  <2>. QED BY <2>1 DEF Ints
<1>1. PICK g \in [0..n -> Int] : /\ g[0] = 0 /\ g[n] = Sum(s)
                                 /\ \A k \in 1..n : g[k] = g[k - 1] + s[k]
  BY PartialSums
<1>. DEFINE q == [k \in 0..n |-> c * g[k]]
<1>2. q[0] = 0 /\ q[n] = c * Sum(s)
  <2>1. 0 \in 0..n /\ n \in 0..n OBVIOUS
  <2>2. c * 0 = 0 OBVIOUS
  <2>. QED BY <1>1, <2>1, <2>2
<1>3. ASSUME NEW k \in 1..n PROVE q[k] = q[k - 1] + r[k]
  <2>1. k - 1 \in 0..n /\ k \in 0..n OBVIOUS
  <2>2. g[k - 1] \in Int /\ s[k] \in Int BY <2>1 DEF Ints
  <2>3. c * (g[k - 1] + s[k]) = c * g[k - 1] + c * s[k] BY <2>2, Distribute
  <2>4. q[k] = c * g[k] /\ q[k - 1] = c * g[k - 1] BY <2>1
  <2>5. g[k] = g[k - 1] + s[k] /\ r[k] = c * s[k] BY <1>1
  <2>. HIDE DEF q
  <2>. QED BY <2>3, <2>4, <2>5
<1>. HIDE DEF q
<1>4. Along(q, r, n) BY <1>2, <1>3 DEF Along
<1>. QED BY <1>0, <1>2, <1>4, SumAlong

\* n equal terms.
LEMMA SumEach ==
  ASSUME NEW n \in Nat, NEW c \in Int, NEW r, DOMAIN r = 1..n, \A i \in 1..n : r[i] = c
  PROVE  Ints(r, n) /\ Sum(r) = c * n
<1>0. Ints(r, n) BY DEF Ints
<1>. DEFINE q == [k \in 0..n |-> c * k]
<1>1. q[0] = 0 /\ q[n] = c * n
  <2>1. 0 \in 0..n /\ n \in 0..n /\ c * 0 = 0 OBVIOUS
  <2>. QED BY <2>1
<1>2. ASSUME NEW k \in 1..n PROVE q[k] = q[k - 1] + r[k]
  <2>1. k - 1 \in 0..n /\ k \in 0..n /\ k \in Int OBVIOUS
  <2>2. c * (k - 1) = c * k - c * 1 /\ c * 1 = c /\ c * k \in Int BY <2>1, Distribute
  <2>3. q[k] = c * k /\ q[k - 1] = c * (k - 1) BY <2>1
  <2>. HIDE DEF q
  <2>. QED BY <2>2, <2>3
<1>. HIDE DEF q
<1>3. Along(q, r, n) BY <1>1, <1>2 DEF Along
<1>. QED BY <1>0, <1>1, <1>3, SumAlong

\* A sum with a single term.
LEMMA SumOne ==
  ASSUME NEW n \in Nat, NEW s, Ints(s, n), NEW j \in 1..n, \A i \in 1..n : i # j => s[i] = 0
  PROVE  Sum(s) = s[j]
<1>. DEFINE q == [k \in 0..n |-> IF k >= j THEN s[j] ELSE 0]
<1>1. q[0] = 0 /\ q[n] = s[j] OBVIOUS
<1>2. ASSUME NEW k \in 1..n PROVE q[k] = q[k - 1] + s[k]
  <2>1. k - 1 \in 0..n /\ k \in 0..n /\ s[j] \in Int BY DEF Ints
  <2>2. CASE k = j BY <2>1, <2>2
  <2>3. CASE k # j
    <3>1. k >= j <=> k - 1 >= j BY <2>3
    <3>. QED BY <2>1, <2>3, <3>1
  <2>. QED BY <2>2, <2>3
<1>. HIDE DEF q
<1>3. Along(q, s, n) BY <1>1, <1>2 DEF Along
<1>. QED BY <1>1, <1>3, SumAlong

\* A sequence that grows.
LEMMA SumAppend ==
  ASSUME NEW s \in Seq(Int), NEW x \in Int
  PROVE  Append(s, x) \in Seq(Int) /\ Sum(Append(s, x)) = Sum(s) + x
<1>. DEFINE n == Len(s)
            t == Append(s, x)
<1>0. n \in Nat /\ Ints(s, n)
  BY ElementOfSeq, LenProperties DEF Ints
<1>1. /\ t \in Seq(Int) /\ Len(t) = n + 1 /\ t[n + 1] = x
      /\ \A i \in 1..n : t[i] = s[i]
  BY AppendProperties
<1>2. n + 1 \in Nat /\ Ints(t, n + 1)
  BY <1>0, <1>1, ElementOfSeq, LenProperties DEF Ints
<1>. HIDE DEF n, t
<1>3. PICK g \in [0..n -> Int] : /\ g[0] = 0 /\ g[n] = Sum(s)
                                 /\ \A k \in 1..n : g[k] = g[k - 1] + s[k]
  BY <1>0, PartialSums
<1>. DEFINE q == [k \in 0..(n + 1) |-> IF k = n + 1 THEN g[n] + x ELSE g[k]]
<1>4. q[0] = 0 /\ q[n + 1] = Sum(s) + x
  <2>1. 0 \in 0..(n + 1) /\ 0 # n + 1 /\ n + 1 \in 0..(n + 1) BY <1>0
  <2>. QED BY <1>3, <2>1
<1>5. ASSUME NEW k \in 1..(n + 1) PROVE q[k] = q[k - 1] + t[k]
  <2>0. k - 1 \in 0..n /\ k - 1 # n + 1 /\ k \in 0..(n + 1) /\ k - 1 \in 0..(n + 1) BY <1>0
  <2>1. q[k - 1] = g[k - 1] BY <2>0
  <2>2. CASE k = n + 1
    <3>1. k - 1 = n BY <1>0, <2>2
    <3>. QED BY <1>1, <2>0, <2>1, <2>2, <3>1
  <2>3. CASE k # n + 1
    <3>1. k \in 1..n BY <1>0, <2>3
    <3>2. q[k] = g[k] BY <2>0, <2>3
    <3>. QED BY <1>1, <1>3, <2>1, <3>1, <3>2
  <2>. QED BY <2>2, <2>3
<1>. HIDE DEF q
<1>6. Along(q, t, n + 1) BY <1>4, <1>5 DEF Along
<1>7. Sum(t) = q[n + 1] BY <1>2, <1>6, SumAlong
<1>. QED BY <1>1, <1>4, <1>7 DEF t

LEMMA DivIs ==
  ASSUME NEW x \in Int, NEW d \in Nat, d > 0
  PROVE  /\ x \div d \in Int
         /\ d * (x \div d) <= x /\ x < d * (x \div d) + d
BY SMTT(30)

LEMMA ProductBounds ==
  ASSUME NEW a \in Int, NEW b \in Int, b > 0
  PROVE  /\ a < 0 => b * a <= -b
         /\ a >= 0 => b * a >= 0
         /\ b * a \in Int /\ b * a = a * b
BY SMTT(30)

\* A rounded quotient is off by half a unit at most, and keeps its bounds.
LEMMA NearestIs ==
  ASSUME NEW a \in Int, NEW b \in Nat, b > 0
  PROVE  /\ Nearest(a, b) \in Int
         /\ 2 * (b * Nearest(a, b)) <= 2 * a + b
         /\ 2 * (b * Nearest(a, b)) >= 2 * a - b
<1>. DEFINE x == IF TiesUp THEN 2 * a + b ELSE 2 * a + b - 1
            r == x \div (2 * b)
<1>1. Nearest(a, b) = r
  BY DEF Nearest
<1>2. x \in Int /\ 2 * a + b - 1 <= x /\ x <= 2 * a + b /\ 2 * b \in Nat /\ 2 * b > 0
  OBVIOUS
<1>. HIDE DEF x
<1>3. r \in Int /\ (2 * b) * r <= x /\ x < (2 * b) * r + 2 * b
  BY <1>2, DivIs
<1>. HIDE DEF r
<1>4. (2 * b) * r = 2 * (b * r) /\ b * r \in Int
  BY <1>3, SMTT(30)
<1>. QED BY <1>1, <1>2, <1>3, <1>4

LEMMA NearestNat ==
  ASSUME NEW a \in Nat, NEW b \in Nat, b > 0
  PROVE  Nearest(a, b) \in Nat
<1>. DEFINE r == Nearest(a, b)
<1>1. r \in Int /\ 2 * (b * r) >= 2 * a - b
  BY NearestIs
<1>. HIDE DEF r
<1>2. b * r \in Int /\ (r < 0 => b * r <= -b)
  BY <1>1, ProductBounds
<1>3. r >= 0
  BY <1>1, <1>2
<1>. QED BY <1>1, <1>3 DEF r

LEMMA NearestBelow ==
  ASSUME NEW a \in Int, NEW b \in Nat, b > 0, NEW m \in Int, a <= b * m
  PROVE  Nearest(a, b) <= m
<1>. DEFINE r == Nearest(a, b)
<1>1. r \in Int /\ 2 * (b * r) <= 2 * a + b
  BY NearestIs
<1>. HIDE DEF r
<1>2. b * (m - r) = b * m - b * r /\ b * m \in Int /\ b * r \in Int /\ m - r \in Int
  BY <1>1, Distribute
<1>3. m - r < 0 => b * (m - r) <= -b
  BY <1>2, ProductBounds
<1>4. m - r >= 0
  BY <1>1, <1>2, <1>3
<1>. QED BY <1>1, <1>4 DEF r

LEMMA LiraNat ==
  ASSUME NEW a \in Nat, NEW b \in Nat, b > 0
  PROVE  WholeLira(a, b) \in Nat
<1>. DEFINE q == (2 * a + 100 * b) \div (200 * b)
<1>1. 2 * a + 100 * b \in Int /\ 200 * b \in Nat /\ 200 * b > 0 /\ 2 * a + 100 * b >= 0
  OBVIOUS
<1>2. q \in Int /\ 2 * a + 100 * b < (200 * b) * q + 200 * b
  BY <1>1, DivIs
<1>. HIDE DEF q
<1>3. q < 0 => (200 * b) * q <= -(200 * b)
  BY <1>1, <1>2, ProductBounds
<1>4. (200 * b) * q \in Int
  BY <1>1, <1>2, ProductBounds
<1>5. q >= 0
  BY <1>1, <1>2, <1>3, <1>4
<1>6. WholeLira(a, b) = 100 * q
  BY DEF WholeLira, q
<1>. QED BY <1>2, <1>5, <1>6

LEMMA PercentNat ==
  ASSUME NEW a \in Nat, NEW p \in Nat, NEW r
  PROVE  PercentOf(a, p, r) \in Nat /\ PercentOf(a, 0, r) = 0
<1>1. a * p \in Nat /\ a * 0 = 0
  BY SMTT(30)
<1>2. PercentOf(a, p, r) \in Nat
  BY <1>1, NearestNat, LiraNat DEF PercentOf
<1>3. Nearest(0, 100) = 0 /\ WholeLira(0, 100) = 0
  BY DEF Nearest, WholeLira
<1>. QED BY <1>1, <1>2, <1>3 DEF PercentOf

Kinds == {"BOX", "EXTRA", "PRODUCT"}

LEMMA GoodIs ==
  ASSUME NEW good \in Goods
  PROVE  /\ good.kind \in Kinds /\ good.price \in Nat /\ good.qty \in Nat /\ good.vat \in Nat
         /\ good.kind = "BOX" => good.qty = 4
         /\ VatBase % (100 + good.vat) = 0
BY GoodsAssumption DEF Kinds

LEMMA LineTotalNat ==
  ASSUME NEW good \in Goods
  PROVE  /\ LineTotal(good) \in Nat
         /\ good.kind = "BOX" => LineTotal(good) = good.price
         /\ good.kind = "EXTRA" => WholeLira(good.price * good.qty, 4) = LineTotal(good)
<1>0. good.price \in Nat /\ good.qty \in Nat /\ (good.kind = "BOX" => good.qty = 4)
  BY GoodIs
<1>1. good.price * good.qty \in Nat
  BY <1>0, SMTT(30)
<1>2. LineTotal(good) \in Nat
  BY <1>1, NearestNat, LiraNat DEF LineTotal
<1>3. ASSUME good.kind = "BOX" PROVE LineTotal(good) = good.price
  <2>. DEFINE p == good.price
              r == Nearest(p * 4, 4)
  <2>1. LineTotal(good) = r
    BY <1>0, <1>3 DEF LineTotal
  <2>2. p \in Nat /\ p * 4 \in Int
    BY <1>0
  <2>. HIDE DEF p
  <2>3. r \in Int /\ 2 * (4 * r) <= 2 * (p * 4) + 4 /\ 2 * (4 * r) >= 2 * (p * 4) - 4
    BY <2>2, NearestIs
  <2>4. r = (IF TiesUp THEN (2 * (p * 4) + 4) \div 8 ELSE (2 * (p * 4) + 4 - 1) \div 8)
    BY DEF Nearest
  <2>5. r = p
    BY <2>2, <2>4
  <2>. QED BY <2>1, <2>5 DEF p
<1>. QED BY <1>2, <1>3 DEF LineTotal

\* A line of a quote, and lines 1..n.
LineOK(line) == /\ line \in [kind : Kinds, vat : Nat, total : Nat, discount : Nat]
                /\ line.discount <= line.total
                /\ VatBase % (100 + line.vat) = 0
Lined(lines, n) == DOMAIN lines = 1..n /\ Len(lines) = n /\ \A i \in 1..n : LineOK(lines[i])

\* Terms near one another have sums near one another.
LEMMA SumNear ==
  ASSUME NEW n \in Nat, NEW s, Ints(s, n), NEW t, Ints(t, n), NEW c \in Int,
         \A i \in 1..n : s[i] <= t[i] + c /\ s[i] >= t[i] - c
  PROVE  Sum(s) <= Sum(t) + c * n /\ Sum(s) >= Sum(t) - c * n
<1>. DEFINE e == [i \in 1..n |-> c]
            up == [i \in 1..n |-> t[i] + e[i]]
            top == [i \in 1..n |-> s[i] + e[i]]
<1>1. Ints(e, n) /\ Sum(e) = c * n
  BY SumEach
<1>. HIDE DEF e
<1>2. Ints(up, n) /\ Sum(up) = Sum(t) + Sum(e)
  <2>1. DOMAIN up = 1..n /\ \A i \in 1..n : up[i] = t[i] + e[i] OBVIOUS
  <2>. HIDE DEF up
  <2>. QED BY <1>1, <2>1, SumPlus
<1>3. Ints(top, n) /\ Sum(top) = Sum(s) + Sum(e)
  <2>1. DOMAIN top = 1..n /\ \A i \in 1..n : top[i] = s[i] + e[i] OBVIOUS
  <2>. HIDE DEF top
  <2>. QED BY <1>1, <2>1, SumPlus
<1>4. \A i \in 1..n : s[i] <= up[i] /\ t[i] <= top[i]
  BY DEF e, Ints
<1>. HIDE DEF up, top
<1>5. Sum(s) <= Sum(up)
  BY <1>2, <1>4, SumLe
<1>6. Sum(t) <= Sum(top)
  BY <1>3, <1>4, SumLe
<1>7. Sum(s) \in Int /\ Sum(t) \in Int /\ c * n \in Int
  BY SumInt, Distribute
<1>. QED BY <1>1, <1>2, <1>3, <1>5, <1>6, <1>7

LEMMA NetNat ==
  ASSUME NEW line, LineOK(line)
  PROVE  /\ Net(line) \in Nat /\ line.total \in Nat /\ line.discount \in Nat
         /\ Net(line) = line.total - line.discount /\ line.vat \in Nat
BY DEF LineOK, Net

\* One line's VAT, scaled up to the VAT base.
LEMMA ScaledVat ==
  ASSUME NEW line, LineOK(line)
  PROVE  LET x == Net(line) * line.vat * (VatBase \div (100 + line.vat))
         IN  /\ LineVat(line) \in Nat /\ x \in Nat
             /\ 2 * (VatBase * LineVat(line)) <= 2 * x + VatBase
             /\ 2 * (VatBase * LineVat(line)) >= 2 * x - VatBase
<1>. DEFINE d == 100 + line.vat
            m == VatBase \div d
            a == Net(line) * line.vat
            r == Nearest(a, d)
<1>0. Net(line) \in Nat /\ line.vat \in Nat /\ d \in Nat /\ d > 0 /\ VatBase \in Nat /\ VatBase > 0
  BY NetNat, PricingAssumption
<1>1. VatBase % d = 0
  BY DEF LineOK
<1>2. m \in Int /\ m >= 0 /\ d * m = VatBase
  <2>. HIDE DEF d
  <2>. QED BY <1>0, <1>1, SMTT(30)
<1>3. a \in Nat
  BY <1>0, SMTT(30)
<1>4. LineVat(line) = r
  BY DEF LineVat
<1>. HIDE DEF a, d
<1>5. r \in Nat /\ 2 * (d * r) <= 2 * a + d /\ 2 * (d * r) >= 2 * a - d
  BY <1>0, <1>3, NearestIs, NearestNat
<1>. HIDE DEF r, m
<1>6. a * m \in Nat /\ m * (d * r) = VatBase * r /\ m * d = VatBase
      /\ m * a = a * m /\ d * r \in Int /\ VatBase * r \in Int
  <2>1. m * (d * r) = (d * m) * r /\ m * d = d * m
    BY <1>0, <1>2, <1>5, SMTT(30)
  <2>2. a * m \in Nat /\ m * a = a * m /\ d * r \in Int /\ VatBase * r \in Int
    BY <1>0, <1>2, <1>3, <1>5, SMTT(30)
  <2>. QED BY <1>2, <2>1, <2>2
<1>7. m * (2 * (d * r)) <= m * (2 * a + d) /\ m * (2 * (d * r)) >= m * (2 * a - d)
  <2>. DEFINE u == 2 * (d * r)
              v == 2 * a + d
              w == 2 * a - d
  <2>1. u \in Int /\ v \in Int /\ w \in Int /\ u <= v /\ u >= w
    BY <1>0, <1>3, <1>5, <1>6
  <2>. HIDE DEF u, v, w
  <2>2. m * u <= m * v /\ m * u >= m * w
    BY <1>2, <2>1, SMTT(30)
  <2>. QED BY <2>2 DEF u, v, w
<1>8. /\ m * (2 * (d * r)) = 2 * (m * (d * r))
      /\ m * (2 * a + d) = 2 * (m * a) + m * d
      /\ m * (2 * a - d) = 2 * (m * a) - m * d
  <2>. DEFINE u == d * r
  <2>1. u \in Int BY <1>6
  <2>. HIDE DEF u
  <2>2. m * (2 * u) = 2 * (m * u)
    BY <1>2, <2>1, SMTT(30)
  <2>3. /\ m * (2 * a + d) = 2 * (m * a) + m * d
        /\ m * (2 * a - d) = 2 * (m * a) - m * d
    BY <1>0, <1>2, <1>3, SMTT(30)
  <2>. QED BY <2>2, <2>3 DEF u
<1>9. 2 * (VatBase * r) <= 2 * (a * m) + VatBase /\ 2 * (VatBase * r) >= 2 * (a * m) - VatBase
  BY <1>6, <1>7, <1>8
<1>. QED BY <1>4, <1>5, <1>6, <1>9 DEF a, d, m

\* The order's VAT is the sum of its lines' to half a kuruş each, and half for the order.
LEMMA VatClose ==
  ASSUME NEW n \in Nat, NEW lines, Lined(lines, n)
  PROVE  LET all == Sum([i \in DOMAIN lines |-> LineVat(lines[i])])
         IN  /\ VatTotal(lines) \in Nat
             /\ 2 * (all - VatTotal(lines)) \in (-(n + 1))..(n + 1)
<1>. DEFINE L == [i \in DOMAIN lines |-> LineVat(lines[i])]
            X == [i \in DOMAIN lines |->
                    Net(lines[i]) * lines[i].vat * (VatBase \div (100 + lines[i].vat))]
            P == [i \in 1..n |-> (2 * VatBase) * L[i]]
            Q == [i \in 1..n |-> 2 * X[i]]
            vat == VatTotal(lines)
<1>0. VatBase \in Nat /\ VatBase > 0 /\ 2 * VatBase \in Int
  BY PricingAssumption
<1>1. /\ DOMAIN L = 1..n /\ DOMAIN X = 1..n
      /\ \A i \in 1..n : /\ L[i] \in Nat /\ X[i] \in Nat
                         /\ 2 * (VatBase * L[i]) <= 2 * X[i] + VatBase
                         /\ 2 * (VatBase * L[i]) >= 2 * X[i] - VatBase
  BY ScaledVat DEF Lined
<1>2. vat = Nearest(Sum(X), VatBase)
  BY DEF VatTotal
<1>. HIDE DEF L, X, vat
<1>3. Ints(L, n) /\ Ints(X, n) /\ Sum(L) \in Int
  BY <1>1, SumInt DEF Ints
<1>4. Ints(P, n) /\ Sum(P) = (2 * VatBase) * Sum(L)
  <2>1. DOMAIN P = 1..n /\ \A i \in 1..n : P[i] = (2 * VatBase) * L[i] OBVIOUS
  <2>. HIDE DEF P
  <2>. QED BY <1>0, <1>3, <2>1, SumTimes
<1>5. Ints(Q, n) /\ Sum(Q) = 2 * Sum(X)
  <2>1. DOMAIN Q = 1..n /\ \A i \in 1..n : Q[i] = 2 * X[i] OBVIOUS
  <2>2. 2 \in Int OBVIOUS
  <2>. HIDE DEF Q
  <2>. QED BY ZenonT(40), <1>3, <2>1, <2>2, SumTimes
<1>6. \A i \in 1..n : P[i] <= Q[i] + VatBase /\ P[i] >= Q[i] - VatBase
  <2>. SUFFICES ASSUME NEW i \in 1..n PROVE P[i] <= Q[i] + VatBase /\ P[i] >= Q[i] - VatBase
    OBVIOUS
  <2>1. L[i] \in Nat BY <1>1
  <2>2. (2 * VatBase) * L[i] = 2 * (VatBase * L[i])
    BY <1>0, <2>1, SMTT(30)
  <2>. QED BY <1>1, <2>2
<1>. HIDE DEF P, Q
<1>7. Sum(P) <= Sum(Q) + VatBase * n /\ Sum(P) >= Sum(Q) - VatBase * n
  BY <1>0, <1>4, <1>5, <1>6, SumNear
<1>8. Sum(X) \in Nat
  <2>. DEFINE Z == [i \in 1..n |-> 0]
  <2>1. Ints(Z, n) /\ Sum(Z) = 0 * n
    BY SumEach
  <2>2. \A i \in 1..n : Z[i] <= X[i]
    BY <1>1
  <2>. HIDE DEF Z
  <2>3. Sum(Z) <= Sum(X)
    BY <1>3, <2>1, <2>2, SumLe
  <2>4. Sum(X) \in Int
    BY <1>3, SumInt
  <2>. QED BY <2>1, <2>3, <2>4
<1>9. vat \in Nat /\ 2 * (VatBase * vat) <= 2 * Sum(X) + VatBase /\ 2 * (VatBase * vat) >= 2 * Sum(X) - VatBase
  <2>. DEFINE S == Sum(X)
  <2>1. S \in Nat /\ S \in Int BY <1>8
  <2>. HIDE DEF S
  <2>2. /\ Nearest(S, VatBase) \in Nat
        /\ 2 * (VatBase * Nearest(S, VatBase)) <= 2 * S + VatBase
        /\ 2 * (VatBase * Nearest(S, VatBase)) >= 2 * S - VatBase
    BY <1>0, <2>1, NearestIs, NearestNat
  <2>. QED BY <1>2, <2>2 DEF S
<1>. DEFINE z == Sum(L) - vat
<1>10. z \in Int
  BY <1>3, <1>9
<1>11. (2 * VatBase) * Sum(L) = 2 * (VatBase * vat) + VatBase * (2 * z)
  <2>. DEFINE S == Sum(L)
  <2>0. S \in Int BY <1>3
  <2>. HIDE DEF S
  <2>1. (2 * VatBase) * S = 2 * (VatBase * vat) + VatBase * (2 * (S - vat))
    BY <1>0, <1>9, <2>0, SMTT(30)
  <2>. QED BY <2>1 DEF S
<1>. HIDE DEF z
<1>12. VatBase * (2 * z) <= VatBase * n + VatBase /\ VatBase * (2 * z) >= -(VatBase * n + VatBase)
  <2>1. /\ VatBase * (2 * z) \in Int /\ VatBase * vat \in Int /\ VatBase * n \in Int
        /\ Sum(X) \in Int /\ (2 * VatBase) * Sum(L) \in Int
    BY <1>0, <1>3, <1>8, <1>9, <1>10, Distribute
  <2>. DEFINE A == (2 * VatBase) * Sum(L)
              B == VatBase * vat
              C == VatBase * (2 * z)
              D == VatBase * n
              E == Sum(X)
  <2>2. /\ A <= 2 * E + D /\ A >= 2 * E - D
        /\ 2 * B <= 2 * E + VatBase /\ 2 * B >= 2 * E - VatBase
        /\ A = 2 * B + C
    BY <1>4, <1>5, <1>7, <1>9, <1>11
  <2>3. A \in Int /\ B \in Int /\ C \in Int /\ D \in Int /\ E \in Int BY <2>1
  <2>. HIDE DEF A, B, C, D, E
  <2>4. C <= D + VatBase /\ C >= -(D + VatBase) BY <1>0, <2>2, <2>3
  <2>. QED BY <2>4 DEF C, D
<1>13. 2 * z <= n + 1 /\ 2 * z >= -(n + 1)
  <2>. DEFINE y == 2 * z
  <2>0. y \in Int BY <1>10
  <2>. HIDE DEF y
  <2>1. VatBase * y <= VatBase * n + VatBase /\ VatBase * y >= -(VatBase * n + VatBase)
    BY <1>12 DEF y
  <2>2. y <= n + 1
    <3>. SUFFICES ASSUME y > n + 1 PROVE FALSE BY <2>0
    <3>1. (y - (n + 1)) > 0 /\ y - (n + 1) \in Int BY <2>0
    <3>2. VatBase * (y - (n + 1)) > 0
      BY <1>0, <3>1, SMTT(30)
    <3>3. VatBase * (y - (n + 1)) = VatBase * y - (VatBase * n + VatBase)
      BY <1>0, <2>0, SMTT(30)
    <3>4. VatBase * y \in Int /\ VatBase * n \in Int BY <1>0, <2>0, Distribute
    <3>. QED BY <1>0, <2>1, <3>2, <3>3, <3>4
  <2>3. y >= -(n + 1)
    <3>. SUFFICES ASSUME y < -(n + 1) PROVE FALSE BY <2>0
    <3>1. -(y + (n + 1)) > 0 /\ y + (n + 1) \in Int BY <2>0
    <3>2. VatBase * (-(y + (n + 1))) > 0
      BY <1>0, <3>1, SMTT(30)
    <3>3. VatBase * (-(y + (n + 1))) = -(VatBase * y) - (VatBase * n + VatBase)
      BY <1>0, <2>0, SMTT(30)
    <3>4. VatBase * y \in Int /\ VatBase * n \in Int BY <1>0, <2>0, Distribute
    <3>. QED BY <1>0, <2>1, <3>2, <3>3, <3>4
  <2>. QED BY <2>2, <2>3 DEF y
<1>. QED BY <1>9, <1>10, <1>13 DEF z, L, vat

\* A number is at most the sum it is part of.
LEMMA SumTerm ==
  ASSUME NEW n \in Nat, NEW s, Ints(s, n), \A i \in 1..n : s[i] >= 0, NEW j \in 1..n
  PROVE  s[j] <= Sum(s)
<1>. DEFINE t == [i \in 1..n |-> IF i = j THEN s[j] ELSE 0]
<1>1. Ints(t, n) /\ (\A i \in 1..n : i # j => t[i] = 0) /\ t[j] = s[j]
  BY DEF Ints
<1>2. \A i \in 1..n : t[i] <= s[i]
  BY DEF Ints
<1>. HIDE DEF t
<1>3. Sum(t) = s[j]
  BY <1>1, SumOne
<1>4. Sum(t) <= Sum(s)
  BY <1>1, <1>2, SumLe
<1>. QED BY <1>3, <1>4

LEMMA SumNat ==
  ASSUME NEW n \in Nat, NEW s, Ints(s, n), \A i \in 1..n : s[i] >= 0
  PROVE  Sum(s) \in Nat
<1>. DEFINE Z == [i \in 1..n |-> 0]
<1>1. Ints(Z, n) /\ Sum(Z) = 0 * n
  BY SumEach
<1>2. \A i \in 1..n : Z[i] <= s[i]
  OBVIOUS
<1>. HIDE DEF Z
<1>3. Sum(Z) <= Sum(s)
  BY <1>1, <1>2, SumLe
<1>4. Sum(s) \in Int
  BY SumInt
<1>. QED BY <1>1, <1>3, <1>4
-----------------------------------------------------------------------------
(* The shares of a coupon *)

\* What the line at place i is given, when those before it were given so much.
PartOf(quote, scope, wanted, given, i) ==
  IF i \in Eligible(quote, scope)
  THEN Clamp(IF \E j \in Eligible(quote, scope) : j > i
             THEN Nearest(wanted * Net(quote.lines[i]), Capacity(quote, scope))
             ELSE wanted - Sum(given),
             Net(quote.lines[i]))
  ELSE 0

ShareEq(f, quote, scope, wanted, D) ==
  f = [S \in SUBSET D |->
         IF S = {} THEN <<>>
         ELSE Append(f[S \ {Top(S)}],
                     PartOf(quote, scope, wanted, f[S \ {Top(S)}], [i \in D |-> i][Top(S)]))]

LEMMA SharesUnfold ==
  ASSUME NEW quote, NEW scope, NEW wanted
  PROVE  LET D == DOMAIN quote.lines
         IN  Shares(quote, scope, wanted) = (CHOOSE f : ShareEq(f, quote, scope, wanted, D))[D]
<1>. DEFINE D == DOMAIN quote.lines
            numbers == [i \in D |-> i]
<1>1. DOMAIN numbers = D
  OBVIOUS
<1>2. Shares(quote, scope, wanted) =
        (CHOOSE f : ShareEq(f, quote, scope, wanted, DOMAIN numbers))[DOMAIN numbers]
  BY DEF Shares, FoldLeft, MapThenFoldSet, ShareEq, PartOf, Top, Max
<1>. QED BY <1>1, <1>2

\* What the places before the last eligible one can carry.
LEMMA CapacityIs ==
  ASSUME NEW n \in Nat, NEW quote, NEW scope, Lined(quote.lines, n)
  PROVE  LET term == [i \in 1..n |-> IF i \in Eligible(quote, scope) THEN Net(quote.lines[i]) ELSE 0]
         IN  /\ Ints(term, n) /\ Capacity(quote, scope) = Sum(term) /\ Capacity(quote, scope) \in Nat
             /\ \A i \in 1..n : term[i] \in Nat
             /\ \A i \in Eligible(quote, scope) :
                  i \in 1..n /\ Net(quote.lines[i]) \in Nat /\ Net(quote.lines[i]) > 0
                  /\ Net(quote.lines[i]) <= Capacity(quote, scope)
<1>. DEFINE E == Eligible(quote, scope)
            term == [i \in 1..n |-> IF i \in E THEN Net(quote.lines[i]) ELSE 0]
<1>1. \A i \in 1..n : Net(quote.lines[i]) \in Nat
  BY NetNat DEF Lined
<1>2. Ints(term, n) /\ \A i \in 1..n : term[i] \in Nat
  BY <1>1 DEF Ints
<1>3. Capacity(quote, scope) = Sum(term)
  BY DEF Capacity, Lined
<1>4. \A i \in E : i \in 1..n /\ Net(quote.lines[i]) > 0
  BY DEF Eligible, Lined
<1>5. \A i \in E : term[i] = Net(quote.lines[i]) /\ term[i] > 0
  BY <1>4
<1>. HIDE DEF term, E
<1>6. \A i \in 1..n : term[i] >= 0
  BY <1>2
<1>7. \A i \in 1..n : term[i] <= Sum(term)
  BY <1>2, <1>6, SumTerm
<1>8. Sum(term) \in Nat
  BY <1>2, <1>6, SumNat
<1>9. \A i \in E : i \in 1..n /\ Net(quote.lines[i]) \in Nat /\ Net(quote.lines[i]) > 0
                 /\ Net(quote.lines[i]) <= Capacity(quote, scope)
  BY <1>1, <1>3, <1>4, <1>5, <1>7
<1>. QED BY <1>2, <1>3, <1>8, <1>9 DEF term, E

LEMMA PartIs ==
  ASSUME NEW n \in Nat, NEW quote, NEW scope, Lined(quote.lines, n), NEW wanted \in Nat,
         NEW given \in Seq(Int), NEW i \in 1..n
  PROVE  /\ PartOf(quote, scope, wanted, given, i) \in 0..Net(quote.lines[i])
         /\ i \notin Eligible(quote, scope) => PartOf(quote, scope, wanted, given, i) = 0
<1>. DEFINE net == Net(quote.lines[i])
            c == Capacity(quote, scope)
            x == IF \E j \in Eligible(quote, scope) : j > i
                 THEN Nearest(wanted * net, c) ELSE wanted - Sum(given)
<1>1. net \in Nat
  BY NetNat DEF Lined
<1>2. CASE i \in Eligible(quote, scope)
  <2>1. c \in Nat /\ c > 0
    <3>1. net > 0 /\ net <= c
      BY <1>2, CapacityIs
    <3>2. c \in Nat
      BY CapacityIs
    <3>. QED BY <1>1, <3>1, <3>2
  <2>2. wanted * net \in Int
    BY <1>1, Distribute
  <2>3. Nearest(wanted * net, c) \in Int
    BY <2>1, <2>2, NearestIs
  <2>4. Sum(given) \in Int
    <3>1. Len(given) \in Nat /\ Ints(given, Len(given))
      BY ElementOfSeq, LenProperties DEF Ints
    <3>. QED BY <3>1, SumInt
  <2>5. x \in Int
    BY <2>3, <2>4
  <2>6. PartOf(quote, scope, wanted, given, i) = Clamp(x, net)
    BY <1>2 DEF PartOf
  <2>. HIDE DEF x, net, c
  <2>7. Clamp(x, net) \in 0..net
    BY <1>1, <2>5 DEF Clamp
  <2>. QED BY <1>2, <2>6, <2>7 DEF net
<1>3. CASE i \notin Eligible(quote, scope)
  BY <1>1, <1>3 DEF PartOf
<1>. QED BY <1>2, <1>3

\* The shares given so far, after each place.
GivenSoFar(h, n, quote, scope, wanted) ==
  /\ h \in [0..n -> Seq(Int)]
  /\ h[0] = <<>> /\ h[n] = Shares(quote, scope, wanted)
  /\ \A k \in 1..n : h[k] = Append(h[k - 1], PartOf(quote, scope, wanted, h[k - 1], k))

\* The shares are given place by place.
LEMMA ShareSteps ==
  ASSUME NEW n \in Nat, NEW quote, NEW scope, Lined(quote.lines, n), NEW wanted \in Nat
  PROVE  \E h : GivenSoFar(h, n, quote, scope, wanted)
<1>. DEFINE G == [p \in Seq(Int) \X (1..n) |->
                    Append(p[1], PartOf(quote, scope, wanted, p[1], p[2]))]
<1>1. PICK f : FoldEq(f, <<>>, G, n)
  BY FoldExists
<1>2. \A S \in SUBSET (1..n) : f[S] \in Seq(Int)
  <2>1. ASSUME NEW v \in Seq(Int), NEW k \in 1..n PROVE G[<<v, k>>] \in Seq(Int)
    <3>1. PartOf(quote, scope, wanted, v, k) \in Int
      <4>1. PartOf(quote, scope, wanted, v, k) \in 0..Net(quote.lines[k])
        BY PartIs
      <4>. QED BY <4>1
    <3>2. G[<<v, k>>] = Append(v, PartOf(quote, scope, wanted, v, k))
      OBVIOUS
    <3>. QED BY <3>1, <3>2, AppendProperties
  <2>. HIDE DEF G
  <2>2. <<>> \in Seq(Int)
    OBVIOUS
  <2>. QED BY <1>1, <2>1, <2>2, FoldStays
<1>3. ShareEq(f, quote, scope, wanted, 1..n)
  <2>1. ASSUME NEW S \in SUBSET (1..n), S # {}
        PROVE  G[<<f[S \ {Top(S)}], Top(S)>>] =
                 Append(f[S \ {Top(S)}],
                        PartOf(quote, scope, wanted, f[S \ {Top(S)}], [i \in 1..n |-> i][Top(S)]))
    <3>1. Top(S) \in 1..n
      BY <2>1, LastOf
    <3>2. f[S \ {Top(S)}] \in Seq(Int)
      BY <1>2, <2>1
    <3>. QED BY <3>1, <3>2
  <2>. HIDE DEF G
  <2>2. f = [S \in SUBSET (1..n) |->
               IF S = {} THEN <<>>
               ELSE Append(f[S \ {Top(S)}],
                           PartOf(quote, scope, wanted, f[S \ {Top(S)}], [i \in 1..n |-> i][Top(S)]))]
    BY <1>1, <2>1 DEF FoldEq
  <2>. QED BY <2>2 DEF ShareEq
<1>. DEFINE e == CHOOSE e : ShareEq(e, quote, scope, wanted, 1..n)
<1>4. ShareEq(e, quote, scope, wanted, 1..n)
  BY <1>3
<1>5. e[1..n] = Shares(quote, scope, wanted)
  BY SharesUnfold DEF Lined
<1>. HIDE DEF e
<1>6. e[1..0] = <<>>
  <2>1. 1..0 = {} /\ 1..0 \in SUBSET (1..n) OBVIOUS
  <2>. QED BY <1>4, <2>1 DEF ShareEq
<1>7. ASSUME NEW k \in 1..n
      PROVE  e[1..k] = Append(e[1..(k - 1)], PartOf(quote, scope, wanted, e[1..(k - 1)], k))
  <2>1. 1..k \in SUBSET (1..n) OBVIOUS
  <2>2. Top(1..k) = k /\ (1..k) \ {k} = 1..(k - 1) /\ 1..k # {}
    BY PrefixLast, k \in Nat, k > 0
  <2>3. e[1..k] = Append(e[(1..k) \ {k}], PartOf(quote, scope, wanted, e[(1..k) \ {k}], [i \in 1..n |-> i][k]))
    BY <1>4, <2>1, <2>2 DEF ShareEq
  <2>. QED BY <2>2, <2>3
<1>. DEFINE h == [k \in 0..n |-> e[1..k]]
            T == {k \in 0..n : h[k] \in Seq(Int)}
<1>8. h[0] = <<>> /\ h[n] = Shares(quote, scope, wanted)
  BY <1>5, <1>6
<1>9. \A k \in 1..n : h[k] = Append(h[k - 1], PartOf(quote, scope, wanted, h[k - 1], k))
  <2>1. \A k \in 1..n : k \in 0..n /\ k - 1 \in 0..n
    OBVIOUS
  <2>. QED BY <2>1, <1>7
<1>. HIDE DEF h
<1>10. 0 \in T
  <2>1. <<>> \in Seq(Int)
    OBVIOUS
  <2>2. h[0] \in Seq(Int)
    BY <1>8, <2>1
  <2>. QED BY <2>2
<1>11. ASSUME NEW k \in 1..n, k - 1 \in T PROVE k \in T
  <2>1. h[k - 1] \in Seq(Int)
    BY <1>11
  <2>2. PartOf(quote, scope, wanted, h[k - 1], k) \in 0..Net(quote.lines[k])
    BY <2>1, PartIs
  <2>3. PartOf(quote, scope, wanted, h[k - 1], k) \in Int
    BY <2>2
  <2>4. Append(h[k - 1], PartOf(quote, scope, wanted, h[k - 1], k)) \in Seq(Int)
    BY <2>1, <2>3, AppendProperties
  <2>5. h[k] \in Seq(Int)
    BY <1>9, <2>4
  <2>6. k \in 0..n
    OBVIOUS
  <2>. QED BY <2>5, <2>6
<1>. HIDE DEF T
<1>12. \A k \in 0..n : k \in T
  BY <1>10, <1>11, UpTo
<1>13. h \in [0..n -> Seq(Int)]
  BY <1>12 DEF T, h
<1>. QED BY <1>8, <1>9, <1>13 DEF GivenSoFar

\* The error of two parts together, and of a part cut to its bounds.
LEMMA ErrorAdds ==
  ASSUME NEW c \in Nat, NEW w \in Nat, NEW H \in Int, NEW P \in Int, NEW g \in Int, NEW t \in Int,
         NEW N \in Nat,
         2 * (c * H - w * g) <= c * N, 2 * (c * H - w * g) >= -(c * N),
         2 * (c * P - w * t) <= c, 2 * (c * P - w * t) >= -c
  PROVE  /\ 2 * (c * (H + P) - w * (g + t)) <= c * (N + 1)
         /\ 2 * (c * (H + P) - w * (g + t)) >= -(c * (N + 1))
<1>. DEFINE cH == c * H
            cP == c * P
            wg == w * g
            wt == w * t
            cN == c * N
<1>1. cH \in Int /\ cP \in Int /\ wg \in Int /\ wt \in Int /\ cN \in Int
  BY Distribute
<1>2. c * (H + P) = cH + cP /\ w * (g + t) = wg + wt /\ c * (N + 1) = cN + c
  BY Distribute
<1>3. 2 * (cH - wg) <= cN /\ 2 * (cH - wg) >= -cN /\ 2 * (cP - wt) <= c /\ 2 * (cP - wt) >= -c
  OBVIOUS
<1>. HIDE DEF cH, cP, wg, wt, cN
<1>4. 2 * (cH + cP - (wg + wt)) <= cN + c /\ 2 * (cH + cP - (wg + wt)) >= -(cN + c)
  BY <1>1, <1>3
<1>. QED BY <1>2, <1>4

\* What a proportional share is before the last line.
LEMMA RoundedShare ==
  ASSUME NEW c \in Nat, c > 0, NEW w \in Nat, w <= c, NEW t \in Nat
  PROVE  LET P == Clamp(Nearest(w * t, c), t)
         IN  P \in Int /\ 2 * (c * P - w * t) <= c /\ 2 * (c * P - w * t) >= -c
<1>. DEFINE a == w * t
            r == Nearest(a, c)
            cr == c * r
<1>1. a \in Nat /\ a <= c * t
  <2>1. t * w \in Int /\ t * c \in Int /\ w * t = t * w /\ c * t = t * c
    BY SMTT(30)
  <2>2. t * w >= 0
    <3>1. CASE t = 0
      BY <3>1, SMTT(30)
    <3>2. CASE t > 0
      BY <3>2, ProductBounds
    <3>. QED BY <3>1, <3>2
  <2>3. t * (c - w) >= 0
    <3>1. CASE t = 0
      BY <3>1, SMTT(30)
    <3>2. CASE t > 0
      BY <3>2, ProductBounds
    <3>. QED BY <3>1, <3>2
  <2>4. t * (c - w) = t * c - t * w
    BY Distribute
  <2>. DEFINE tw == t * w
              tc == t * c
  <2>5. tw \in Int /\ tc \in Int /\ tw >= 0 /\ tc - tw >= 0
    BY <2>1, <2>2, <2>3, <2>4
  <2>6. a = tw /\ c * t = tc
    BY <2>1
  <2>. HIDE DEF tw, tc, a
  <2>7. tw \in Nat /\ tw <= tc
    BY <2>5
  <2>. QED BY <2>6, <2>7
<1>. HIDE DEF a
<1>2. r \in Int /\ 2 * cr <= 2 * a + c /\ 2 * cr >= 2 * a - c
  BY <1>1, NearestIs
<1>3. r \in Nat
  BY <1>1, NearestNat
<1>4. r <= t
  BY <1>1, NearestBelow
<1>. HIDE DEF r
<1>5. Clamp(r, t) = r
  BY <1>3, <1>4 DEF Clamp
<1>6. cr \in Int
  BY <1>2, Distribute
<1>. HIDE DEF cr
<1>7. 2 * (cr - a) <= c /\ 2 * (cr - a) >= -c
  BY <1>1, <1>2, <1>6
<1>. QED BY <1>2, <1>5, <1>7 DEF r, a, cr

\* What the last line takes: the rest, cut to its price.
LEMMA RestOfShare ==
  ASSUME NEW c \in Nat, c > 0, NEW w \in Nat, w <= c, NEW t \in Nat, NEW g \in Int, g = c - t,
         NEW H \in Int, NEW N \in Nat,
         2 * (c * H - w * g) <= c * N, 2 * (c * H - w * g) >= -(c * N)
  PROVE  LET P == Clamp(w - H, t)
         IN  P \in Int /\ 2 * (c * P - w * t) <= c * N /\ 2 * (c * P - w * t) >= -(c * N)
<1>. DEFINE x == w - H
            P == Clamp(x, t)
            cw == c * w
            cH == c * H
            wt == w * t
            ct == c * t
            cN == c * N
            cP == c * P
<1>1. cw \in Int /\ cH \in Int /\ wt \in Int /\ ct \in Int /\ cN \in Int /\ w * g \in Int /\ c * x \in Int
  BY Distribute
<1>2. c * x = cw - cH
  BY Distribute
<1>3. w * g = cw - wt
  <2>1. w * (c - t) = w * c - w * t
    BY Distribute
  <2>2. w * c = c * w
    BY SMTT(30)
  <2>. QED BY <2>1, <2>2
<1>4. 0 <= wt /\ wt <= ct
  <2>1. CASE t = 0
    BY <2>1, SMTT(30)
  <2>2. CASE t > 0
    <3>1. t * w >= 0 /\ t * (c - w) >= 0
      BY <2>2, ProductBounds
    <3>2. t * (c - w) = t * c - t * w /\ t * c \in Int /\ t * w \in Int
      BY Distribute
    <3>3. t * c = ct /\ t * w = wt
      BY SMTT(30)
    <3>4. ct - wt >= 0 /\ wt >= 0
      BY <3>1, <3>2, <3>3
    <3>. HIDE DEF ct, wt
    <3>. QED BY <3>4, <1>1
  <2>. QED BY <2>1, <2>2
<1>5. cN >= 0
  <2>1. c * N >= 0
    BY ProductBounds
  <2>. QED BY <2>1
<1>6. /\ x < 0 => c * x <= 0
      /\ x > t => c * x >= ct
  <2>1. ASSUME x < 0 PROVE c * x <= 0
    <3>1. c * x <= -c
      BY <2>1, ProductBounds
    <3>. HIDE DEF x
    <3>. QED BY <3>1, <1>1
  <2>2. ASSUME x > t PROVE c * x >= ct
    <3>1. x - t \in Int /\ x - t >= 0 /\ x \in Int
      BY <2>2
    <3>2. c * (x - t) >= 0
      BY <3>1, ProductBounds
    <3>. HIDE DEF x
    <3>3. c * (x - t) = c * x - c * t
      BY <3>1, Distribute
    <3>. DEFINE cx == c * x
    <3>4. cx - ct >= 0 /\ cx \in Int
      BY <3>2, <3>3, <1>1
    <3>. HIDE DEF cx, ct
    <3>5. cx >= ct
      BY <3>4, <1>1
    <3>. QED BY <3>5 DEF cx
  <2>. QED BY <2>1, <2>2
<1>7. /\ x < 0 => P = 0
      /\ x > t => P = t
      /\ ~(x < 0) /\ ~(x > t) => P = x
      /\ P \in Int
  BY DEF Clamp
<1>8. /\ x < 0 => cP = 0
      /\ x > t => cP = ct
      /\ ~(x < 0) /\ ~(x > t) => cP = c * x
  <2>1. c * 0 = 0
    BY SMTT(30)
  <2>. HIDE DEF P, x
  <2>. QED BY <1>7, <2>1
<1>. DEFINE cx == c * x
<1>9. 2 * (cH - (cw - wt)) <= cN /\ 2 * (cH - (cw - wt)) >= -cN
  BY <1>3
<1>10. cx = cw - cH /\ cx \in Int
  BY <1>1, <1>2
<1>11. /\ x < 0 => cx <= 0 /\ cP = 0
       /\ x > t => cx >= ct /\ cP = ct
       /\ ~(x < 0) /\ ~(x > t) => cP = cx
  BY <1>6, <1>8
<1>. HIDE DEF cx, cP, cN, ct, wt, cH, cw, P, x
<1>12. 2 * (cP - wt) <= cN /\ 2 * (cP - wt) >= -cN
  BY <1>1, <1>4, <1>5, <1>9, <1>10, <1>11
<1>. QED BY <1>7, <1>12 DEF cP, wt, cN, P, x

Later(E, i) == \E j \in E : j > i

\* The places before and at k, one more when k is among them.
LEMMA CountUpTo ==
  ASSUME NEW n \in Nat, NEW E \in SUBSET (1..n)
  PROVE  /\ Cardinality(E \cap (1..0)) = 0
         /\ \A k \in 0..n : /\ Cardinality(E \cap (1..k)) \in Nat
                            /\ Cardinality(E \cap (1..k)) <= Cardinality(E)
         /\ \A k \in 1..n :
              /\ k \in E => Cardinality(E \cap (1..k)) = Cardinality(E \cap (1..(k - 1))) + 1
              /\ k \notin E => Cardinality(E \cap (1..k)) = Cardinality(E \cap (1..(k - 1)))
              /\ k \in E => Cardinality(E \cap (1..(k - 1))) < Cardinality(E)
<1>1. IsFiniteSet(E)
  <2>1. IsFiniteSet(1..n)
    BY FS_Interval
  <2>. QED BY <2>1, FS_Subset
<1>2. E \cap (1..0) = {}
  OBVIOUS
<1>3. Cardinality(E \cap (1..0)) = 0
  BY <1>2, FS_EmptySet
<1>4. ASSUME NEW k \in 0..n
      PROVE  Cardinality(E \cap (1..k)) \in Nat /\ Cardinality(E \cap (1..k)) <= Cardinality(E)
  <2>1. E \cap (1..k) \in SUBSET E
    OBVIOUS
  <2>2. IsFiniteSet(E \cap (1..k)) /\ Cardinality(E \cap (1..k)) <= Cardinality(E)
    BY <1>1, <2>1, FS_Subset
  <2>. QED BY <2>2, FS_CardinalityType
<1>5. ASSUME NEW k \in 1..n
      PROVE  /\ k \in E => Cardinality(E \cap (1..k)) = Cardinality(E \cap (1..(k - 1))) + 1
             /\ k \notin E => Cardinality(E \cap (1..k)) = Cardinality(E \cap (1..(k - 1)))
             /\ k \in E => Cardinality(E \cap (1..(k - 1))) < Cardinality(E)
  <2>. DEFINE A == E \cap (1..(k - 1))
              B == E \cap (1..k)
  <2>1. IsFiniteSet(A)
    <3>1. A \in SUBSET E
      OBVIOUS
    <3>. QED BY <1>1, <3>1, FS_Subset
  <2>2. k \notin A
    OBVIOUS
  <2>3. CASE k \in E
    <3>1. B = A \cup {k}
      BY <2>3
    <3>2. Cardinality(B) = Cardinality(A) + 1
      BY <2>1, <2>2, <3>1, FS_AddElement
    <3>3. k \in 0..n /\ k - 1 \in 0..n
      OBVIOUS
    <3>4. Cardinality(A) \in Nat /\ Cardinality(B) \in Nat /\ Cardinality(B) <= Cardinality(E)
          /\ Cardinality(E) \in Nat
      BY <1>1, <1>4, <3>3, FS_CardinalityType
    <3>. HIDE DEF A, B
    <3>5. Cardinality(A) < Cardinality(E)
      BY <3>2, <3>4
    <3>. QED BY <2>3, <3>2, <3>5 DEF A, B
  <2>4. CASE k \notin E
    <3>1. B = A
      BY <2>4
    <3>. HIDE DEF A, B
    <3>2. Cardinality(B) = Cardinality(A)
      BY <3>1
    <3>. QED BY <2>4, <3>2 DEF A, B
  <2>. QED BY <2>3, <2>4
<1>. QED BY <1>3, <1>4, <1>5

\* What has been given after each place, and what the next line gets.
Running(H, n, quote, scope, wanted) ==
  /\ H \in [0..n -> Int] /\ H[0] = 0 /\ H[n] = Sum(Shares(quote, scope, wanted))
  /\ \A k \in 1..n : H[k] = H[k - 1] + Shares(quote, scope, wanted)[k]
  /\ \A k \in Eligible(quote, scope) :
       Shares(quote, scope, wanted)[k] =
         Clamp(IF Later(Eligible(quote, scope), k)
               THEN Nearest(wanted * Net(quote.lines[k]), Capacity(quote, scope))
               ELSE wanted - H[k - 1],
               Net(quote.lines[k]))

\* The shares of a coupon, line by line, with what has been given so far.
LEMMA SharesAre ==
  ASSUME NEW n \in Nat, NEW quote, NEW scope, Lined(quote.lines, n), NEW wanted \in Nat
  PROVE  LET sh == Shares(quote, scope, wanted)
         IN  /\ sh \in Seq(Int) /\ Len(sh) = n /\ Ints(sh, n)
             /\ \A i \in 1..n : sh[i] \in 0..Net(quote.lines[i])
             /\ \A i \in 1..n : i \notin Eligible(quote, scope) => sh[i] = 0
             /\ \E H : Running(H, n, quote, scope, wanted)
<1>. DEFINE E == Eligible(quote, scope)
            sh == Shares(quote, scope, wanted)
<1>. HIDE DEF E, sh
<1>0. PICK h : GivenSoFar(h, n, quote, scope, wanted)
  BY ShareSteps
<1>1. /\ h \in [0..n -> Seq(Int)] /\ h[0] = <<>> /\ h[n] = sh
      /\ \A k \in 1..n : h[k] = Append(h[k - 1], PartOf(quote, scope, wanted, h[k - 1], k))
  BY <1>0 DEF GivenSoFar, sh
<1>. DEFINE P == [k \in 1..n |-> PartOf(quote, scope, wanted, h[k - 1], k)]
            H == [k \in 0..n |-> Sum(h[k])]
<1>2. ASSUME NEW k \in 1..n
      PROVE  /\ P[k] \in 0..Net(quote.lines[k]) /\ P[k] \in Int
             /\ k \notin E => P[k] = 0
             /\ h[k - 1] \in Seq(Int) /\ h[k] = Append(h[k - 1], P[k])
  <2>1. k - 1 \in 0..n
    OBVIOUS
  <2>2. h[k - 1] \in Seq(Int)
    BY <1>1, <2>1
  <2>3. P[k] = PartOf(quote, scope, wanted, h[k - 1], k)
    OBVIOUS
  <2>4. /\ PartOf(quote, scope, wanted, h[k - 1], k) \in 0..Net(quote.lines[k])
        /\ k \notin Eligible(quote, scope) => PartOf(quote, scope, wanted, h[k - 1], k) = 0
    <3>. DEFINE given == h[k - 1]
    <3>. HIDE DEF given
    <3>1. given \in Seq(Int)
      BY <2>2 DEF given
    <3>2. /\ PartOf(quote, scope, wanted, given, k) \in 0..Net(quote.lines[k])
          /\ k \notin Eligible(quote, scope) => PartOf(quote, scope, wanted, given, k) = 0
      BY <3>1, PartIs
    <3>. QED BY <3>2 DEF given
  <2>5. h[k] = Append(h[k - 1], P[k])
    BY <1>1, <2>3
  <2>. HIDE DEF P
  <2>6. P[k] \in 0..Net(quote.lines[k]) /\ (k \notin E => P[k] = 0)
    BY <2>3, <2>4 DEF E
  <2>7. P[k] \in Int
    BY <2>6
  <2>. QED BY <2>2, <2>5, <2>6, <2>7
<1>. DEFINE T == {m \in 0..n : Len(h[m]) = m /\ \A k \in 1..m : h[m][k] = P[k]}
<1>. HIDE DEF P
<1>3. 0 \in T
  BY <1>1
<1>4. ASSUME NEW m \in 1..n, m - 1 \in T PROVE m \in T
  <2>1. Len(h[m - 1]) = m - 1 /\ \A k \in 1..(m - 1) : h[m - 1][k] = P[k]
    BY <1>4
  <2>2. h[m - 1] \in Seq(Int) /\ P[m] \in Int /\ h[m] = Append(h[m - 1], P[m])
    BY <1>2
  <2>3. /\ Len(h[m]) = m
        /\ \A k \in 1..(m - 1) : h[m][k] = h[m - 1][k]
        /\ h[m][m] = P[m]
    BY <2>1, <2>2, AppendProperties
  <2>4. \A k \in 1..m : h[m][k] = P[k]
    BY <2>1, <2>3
  <2>. QED BY <2>3, <2>4
<1>. HIDE DEF T
<1>5. \A m \in 0..n : m \in T
  BY <1>3, <1>4, UpTo
<1>6. sh \in Seq(Int) /\ Len(sh) = n /\ \A k \in 1..n : sh[k] = P[k]
  <2>1. n \in 0..n
    OBVIOUS
  <2>. QED BY <1>1, <1>5, <2>1 DEF T
<1>7. Ints(sh, n)
  BY <1>6, <1>2, ElementOfSeq, LenProperties DEF Ints
<1>8. /\ \A i \in 1..n : sh[i] \in 0..Net(quote.lines[i])
      /\ \A i \in 1..n : i \notin E => sh[i] = 0
  BY <1>2, <1>6
<1>9. \A k \in 0..n : H[k] \in Int
  <2>. SUFFICES ASSUME NEW k \in 0..n PROVE Sum(h[k]) \in Int
    OBVIOUS
  <2>1. h[k] \in Seq(Int)
    BY <1>1
  <2>2. Len(h[k]) \in Nat /\ Ints(h[k], Len(h[k]))
    BY <2>1, ElementOfSeq, LenProperties DEF Ints
  <2>. QED BY <2>2, SumInt
<1>10. H[0] = 0 /\ H[n] = Sum(sh)
  <2>1. Sum(<<>>) = 0
    <3>1. Ints(<<>>, 0)
      BY DEF Ints
    <3>2. PICK g \in [0..0 -> Int] : g[0] = 0 /\ g[0] = Sum(<<>>)
      BY <3>1, PartialSums
    <3>. QED BY <3>2
  <2>. QED BY <1>1, <2>1
<1>11. \A k \in 1..n : H[k] = H[k - 1] + sh[k]
  <2>. SUFFICES ASSUME NEW k \in 1..n PROVE H[k] = H[k - 1] + sh[k]
    OBVIOUS
  <2>1. k \in 0..n /\ k - 1 \in 0..n
    OBVIOUS
  <2>2. h[k - 1] \in Seq(Int) /\ P[k] \in Int /\ h[k] = Append(h[k - 1], P[k])
    BY <1>2
  <2>3. Sum(h[k]) = Sum(h[k - 1]) + P[k]
    BY <2>2, SumAppend
  <2>. QED BY <2>1, <2>3, <1>6
<1>12. ASSUME NEW k \in E
       PROVE  sh[k] = Clamp(IF Later(E, k)
                            THEN Nearest(wanted * Net(quote.lines[k]), Capacity(quote, scope))
                            ELSE wanted - H[k - 1],
                            Net(quote.lines[k]))
  <2>1. k \in 1..n
    BY CapacityIs DEF E
  <2>2. k - 1 \in 0..n
    BY <2>1
  <2>3. H[k - 1] = Sum(h[k - 1])
    BY <2>2
  <2>4. P[k] = PartOf(quote, scope, wanted, h[k - 1], k)
    BY <2>1 DEF P
  <2>5. PartOf(quote, scope, wanted, h[k - 1], k) =
          Clamp(IF Later(E, k)
                THEN Nearest(wanted * Net(quote.lines[k]), Capacity(quote, scope))
                ELSE wanted - Sum(h[k - 1]),
                Net(quote.lines[k]))
    BY <1>12 DEF PartOf, Later, E
  <2>. QED BY <1>6, <2>1, <2>3, <2>4, <2>5
<1>13. H \in [0..n -> Int]
  BY <1>9
<1>. HIDE DEF H
<1>14. Running(H, n, quote, scope, wanted)
  BY <1>10, <1>11, <1>12, <1>13 DEF Running, E, sh
<1>. QED BY <1>6, <1>7, <1>8, <1>14 DEF E, sh

\* Two sums so far that differ by less than c/2 for each of N lines.
Near(c, w, H, g, N) == 2 * (c * H - w * g) <= c * N /\ 2 * (c * H - w * g) >= -(c * N)

\* Shares of w, c the capacity and term the lines' prices: H what was given
\* so far, g what the lines so far can carry.
Proportional(n, E, c, w, term, sh, H, g) ==
  /\ c > 0 /\ w <= c
  /\ Ints(term, n) /\ \A k \in 1..n : term[k] \in Nat
  /\ Ints(sh, n) /\ \A k \in 1..n : k \notin E => sh[k] = 0 /\ term[k] = 0
  /\ \A k \in E : Later(E, k) => sh[k] = Clamp(Nearest(w * term[k], c), term[k])
  /\ H \in [0..n -> Int] /\ H[0] = 0 /\ \A k \in 1..n : H[k] = H[k - 1] + sh[k]
  /\ g \in [0..n -> Int] /\ g[0] = 0 /\ \A k \in 1..n : g[k] = g[k - 1] + term[k]

\* After the places before the last eligible one, what was given and what
\* is owed differ by at most half a kuruş for each of them.
LEMMA GivenNear ==
  ASSUME NEW n \in Nat, NEW E \in SUBSET (1..n), NEW c \in Nat, NEW w \in Nat,
         NEW term, NEW sh, NEW H, NEW g, Proportional(n, E, c, w, term, sh, H, g)
  PROVE  \A k \in 0..n : Later(E, k) => Near(c, w, H[k], g[k], Cardinality(E \cap (1..k)))
<1>. DEFINE N(k) == Cardinality(E \cap (1..k))
            T == {k \in 0..n : Later(E, k) => Near(c, w, H[k], g[k], N(k))}
<1>0. /\ c > 0 /\ w <= c
      /\ Ints(term, n) /\ \A k \in 1..n : term[k] \in Nat
      /\ Ints(sh, n) /\ \A k \in 1..n : k \notin E => sh[k] = 0 /\ term[k] = 0
      /\ \A k \in E : Later(E, k) => sh[k] = Clamp(Nearest(w * term[k], c), term[k])
      /\ H \in [0..n -> Int] /\ H[0] = 0 /\ \A k \in 1..n : H[k] = H[k - 1] + sh[k]
      /\ g \in [0..n -> Int] /\ g[0] = 0 /\ \A k \in 1..n : g[k] = g[k - 1] + term[k]
  BY DEF Proportional
<1>1. 0 \in T
  <2>1. N(0) = 0
    BY CountUpTo
  <2>2. c * 0 = 0 /\ w * 0 = 0
    BY SMTT(30)
  <2>. QED BY <1>0, <2>1, <2>2 DEF Near
<1>2. ASSUME NEW k \in 1..n, k - 1 \in T PROVE k \in T
  <2>. SUFFICES ASSUME Later(E, k) PROVE Near(c, w, H[k], g[k], N(k))
    OBVIOUS
  <2>1. k \in 0..n /\ k - 1 \in 0..n /\ H[k] \in Int /\ H[k - 1] \in Int /\ g[k] \in Int /\ g[k - 1] \in Int
    BY <1>0
  <2>2. Later(E, k - 1)
    BY DEF Later
  <2>3. Near(c, w, H[k - 1], g[k - 1], N(k - 1))
    BY <1>2, <2>2
  <2>4. /\ N(k - 1) \in Nat
        /\ k \in E => N(k) = N(k - 1) + 1
        /\ k \notin E => N(k) = N(k - 1)
    BY ZenonT(40), <2>1, CountUpTo
  <2>5. sh[k] \in Int /\ term[k] \in Nat /\ H[k] = H[k - 1] + sh[k] /\ g[k] = g[k - 1] + term[k]
    BY <1>0 DEF Ints
  <2>6. CASE k \in E
    <3>1. sh[k] = Clamp(Nearest(w * term[k], c), term[k])
      BY <1>0, <2>6
    <3>2. 2 * (c * sh[k] - w * term[k]) <= c /\ 2 * (c * sh[k] - w * term[k]) >= -c
      BY <1>0, <2>5, <3>1, RoundedShare
    <3>. DEFINE m == N(k - 1)
                h == H[k - 1]
                p == sh[k]
                a == g[k - 1]
                t == term[k]
    <3>3. m \in Nat /\ h \in Int /\ p \in Int /\ a \in Int /\ t \in Int
      BY <2>1, <2>4, <2>5
    <3>4. 2 * (c * h - w * a) <= c * m /\ 2 * (c * h - w * a) >= -(c * m)
      BY <2>3 DEF Near
    <3>5. 2 * (c * p - w * t) <= c /\ 2 * (c * p - w * t) >= -c
      BY <3>2
    <3>6. H[k] = h + p /\ g[k] = a + t /\ N(k) = m + 1
      BY <2>4, <2>5, <2>6
    <3>. HIDE DEF m, h, p, a, t
    <3>7. Near(c, w, h + p, a + t, m + 1)
      BY <3>3, <3>4, <3>5, ErrorAdds DEF Near
    <3>. HIDE DEF N
    <3>. QED BY <3>6, <3>7
  <2>7. CASE k \notin E
    <3>1. sh[k] = 0 /\ term[k] = 0
      BY <1>0, <2>7
    <3>2. H[k] = H[k - 1] /\ g[k] = g[k - 1]
      BY <2>1, <2>5, <3>1
    <3>3. N(k) = N(k - 1)
      BY <2>4, <2>7
    <3>. HIDE DEF N
    <3>. QED BY <2>3, <3>2, <3>3
  <2>. QED BY <2>6, <2>7
<1>. HIDE DEF T
<1>3. \A k \in 0..n : k \in T
  BY <1>1, <1>2, UpTo
<1>. QED BY <1>3 DEF T

LEMMA SharesFair ==
  ASSUME NEW n \in Nat, NEW quote, NEW scope, Lined(quote.lines, n), NEW wanted \in Nat,
         wanted <= Capacity(quote, scope), NEW i \in Eligible(quote, scope)
  PROVE  LET c == Capacity(quote, scope)
             off == c * Shares(quote, scope, wanted)[i] - wanted * Net(quote.lines[i])
             slack == IF Later(Eligible(quote, scope), i) THEN 1 ELSE Cardinality(Eligible(quote, scope))
         IN  2 * off <= c * slack /\ 2 * off >= -(c * slack) /\ slack \in Nat
<1>. DEFINE E == Eligible(quote, scope)
            c == Capacity(quote, scope)
            sh == Shares(quote, scope, wanted)
            term == [k \in 1..n |-> IF k \in E THEN Net(quote.lines[k]) ELSE 0]
<1>1. /\ Ints(term, n) /\ c = Sum(term) /\ c \in Nat
      /\ \A k \in 1..n : term[k] \in Nat
      /\ \A k \in E : k \in 1..n /\ Net(quote.lines[k]) > 0 /\ Net(quote.lines[k]) <= c
  BY CapacityIs
<1>2. /\ Ints(sh, n)
      /\ \A k \in 1..n : k \notin E => sh[k] = 0
  BY SharesAre
<1>a. PICK H : Running(H, n, quote, scope, wanted)
  BY SharesAre
<1>3. /\ H \in [0..n -> Int] /\ H[0] = 0
      /\ \A k \in 1..n : H[k] = H[k - 1] + sh[k]
      /\ \A k \in E : sh[k] = Clamp(IF Later(E, k) THEN Nearest(wanted * Net(quote.lines[k]), c)
                                                    ELSE wanted - H[k - 1], Net(quote.lines[k]))
  BY <1>a DEF Running
<1>4. PICK g \in [0..n -> Int] : g[0] = 0 /\ g[n] = Sum(term) /\ \A k \in 1..n : g[k] = g[k - 1] + term[k]
  BY <1>1, PartialSums
<1>5. /\ \A k \in E : term[k] = Net(quote.lines[k]) /\ term[k] \in Nat
      /\ \A k \in 1..n : k \notin E => term[k] = 0
      /\ E \in SUBSET (1..n) /\ i \in E /\ i \in 1..n /\ i \in 0..n /\ i - 1 \in 0..n
  <2>1. \A k \in E : k \in 1..n
    BY <1>1
  <2>2. \A k \in E : term[k] = Net(quote.lines[k]) /\ term[k] \in Nat
    BY <1>1
  <2>3. \A k \in 1..n : k \notin E => term[k] = 0
    OBVIOUS
  <2>4. i \in E
    OBVIOUS
  <2>. HIDE DEF E, term
  <2>5. i \in 1..n /\ E \in SUBSET (1..n)
    BY <2>1, <2>4
  <2>6. i \in 0..n /\ i - 1 \in 0..n
    BY <2>5
  <2>. QED BY <2>2, <2>3, <2>4, <2>5, <2>6
<1>. HIDE DEF term, E, c, sh
<1>6. c > 0
  <2>1. Net(quote.lines[i]) > 0 /\ Net(quote.lines[i]) <= c /\ Net(quote.lines[i]) \in Nat
    BY <1>1, <1>5
  <2>. QED BY <1>1, <2>1
<1>7. \A k \in E : sh[k] = Clamp(IF Later(E, k) THEN Nearest(wanted * term[k], c)
                                                ELSE wanted - H[k - 1], term[k])
  BY <1>3, <1>5
<1>8. wanted <= c
  BY DEF c
<1>9. CASE Later(E, i)
  <2>1. sh[i] = Clamp(Nearest(wanted * term[i], c), term[i])
    BY <1>5, <1>7, <1>9
  <2>2. 2 * (c * sh[i] - wanted * term[i]) <= c /\ 2 * (c * sh[i] - wanted * term[i]) >= -c
    BY <1>1, <1>5, <1>6, <1>8, <2>1, RoundedShare
  <2>3. c * 1 = c
    BY <1>1
  <2>. QED BY <1>5, <1>9, <2>2, <2>3 DEF E, c, sh
<1>10. CASE ~Later(E, i)
  <2>. DEFINE N(k) == Cardinality(E \cap (1..k))
  <2>1. Later(E, i - 1)
    BY <1>5 DEF Later
  <2>2. \A k \in E : Later(E, k) => sh[k] = Clamp(Nearest(wanted * term[k], c), term[k])
    BY <1>7
  <2>3. \A k \in 0..n : Later(E, k) => Near(c, wanted, H[k], g[k], Cardinality(E \cap (1..k)))
    <3>1. Proportional(n, E, c, wanted, term, sh, H, g)
      BY <1>1, <1>2, <1>3, <1>4, <1>5, <1>6, <1>8, <2>2 DEF Proportional
    <3>. QED BY <1>1, <1>5, <3>1, GivenNear
  <2>4. Near(c, wanted, H[i - 1], g[i - 1], N(i - 1))
    BY <1>5, <2>1, <2>3
  <2>5. g[i] = c
    <3>. DEFINE T == {k \in 0..n : k >= i => g[k] = g[i]}
    <3>1. 0 \in T
      BY <1>5
    <3>2. ASSUME NEW k \in 1..n, k - 1 \in T PROVE k \in T
      <4>. SUFFICES ASSUME k > i PROVE g[k] = g[i]
        BY <1>5
      <4>1. g[k - 1] = g[i]
        BY <3>2, <1>5
      <4>2. k \notin E
        BY <1>10 DEF Later
      <4>3. term[k] = 0
        BY <1>5, <4>2
      <4>4. g[k] = g[k - 1] + term[k] /\ g[k - 1] \in Int
        BY <1>4
      <4>. QED BY <4>1, <4>3, <4>4
    <3>. HIDE DEF T
    <3>3. \A k \in 0..n : k \in T
      BY <3>1, <3>2, UpTo
    <3>4. n \in 0..n /\ n >= i
      BY <1>5
    <3>. QED BY <1>1, <1>4, <3>3, <3>4 DEF T
  <2>6. g[i - 1] = c - term[i] /\ g[i - 1] \in Int
    BY <1>1, <1>4, <1>5, <2>5
  <2>7. sh[i] = Clamp(wanted - H[i - 1], term[i])
    BY <1>5, <1>7, <1>10
  <2>8. N(i - 1) \in Nat /\ N(i - 1) < Cardinality(E)
    BY <1>5, CountUpTo
  <2>9. Cardinality(E) \in Nat
    <3>1. IsFiniteSet(1..n)
      BY FS_Interval
    <3>2. IsFiniteSet(E)
      BY <1>5, <3>1, FS_Subset
    <3>. QED BY <3>2, FS_CardinalityType
  <2>. DEFINE m == N(i - 1)
              h == H[i - 1]
              a == g[i - 1]
              t == term[i]
  <2>10. m \in Nat /\ h \in Int /\ a \in Int /\ t \in Nat /\ a = c - t
    BY <1>3, <1>5, <2>6, <2>8
  <2>11. 2 * (c * h - wanted * a) <= c * m /\ 2 * (c * h - wanted * a) >= -(c * m)
    BY <2>4 DEF Near
  <2>12. sh[i] = Clamp(wanted - h, t)
    BY <2>7
  <2>. DEFINE p == Clamp(wanted - h, t)
  <2>. HIDE DEF m, h, a, t
  <2>13. /\ 2 * (c * sh[i] - wanted * t) <= c * m
         /\ 2 * (c * sh[i] - wanted * t) >= -(c * m)
         /\ sh[i] \in Int
    <3>1. p \in Int /\ 2 * (c * p - wanted * t) <= c * m /\ 2 * (c * p - wanted * t) >= -(c * m)
      BY <1>1, <1>6, <1>8, <2>10, <2>11, RestOfShare, ZenonT(40)
    <3>2. sh[i] = p
      BY <2>12
    <3>. HIDE DEF p
    <3>. QED BY <3>1, <3>2
  <2>14. c * m <= c * Cardinality(E)
    <3>1. Cardinality(E) - m \in Int /\ Cardinality(E) - m >= 0
      BY <2>8, <2>9, <2>10 DEF m
    <3>2. c * (Cardinality(E) - m) >= 0
      BY <1>1, <1>6, <3>1, ProductBounds
    <3>3. c * (Cardinality(E) - m) = c * Cardinality(E) - c * m
      BY <1>1, <2>9, <2>10, Distribute
    <3>4. c * Cardinality(E) \in Int /\ c * m \in Int
      BY <1>1, <2>9, <2>10, Distribute
    <3>. DEFINE cE == c * Cardinality(E)
                cm == c * m
    <3>5. cE - cm >= 0 /\ cE \in Int /\ cm \in Int
      BY <3>2, <3>3, <3>4
    <3>. HIDE DEF cE, cm
    <3>6. cm <= cE
      BY <3>5
    <3>. QED BY <3>6 DEF cE, cm
  <2>. DEFINE off == c * sh[i] - wanted * t
              cE == c * Cardinality(E)
              cm == c * m
  <2>15. off \in Int /\ cE \in Int /\ cm \in Int
    <3>1. c * sh[i] \in Int /\ wanted * t \in Int
      BY SMTT(30), <1>1, <2>10, <2>13, Distribute
    <3>2. cE \in Int /\ cm \in Int
      BY <1>1, <2>9, <2>10, Distribute
    <3>. QED BY <3>1, <3>2
  <2>16. 2 * off <= cm /\ 2 * off >= -cm /\ cm <= cE
    BY <2>13, <2>14
  <2>. HIDE DEF off, cE, cm
  <2>17. 2 * off <= cE /\ 2 * off >= -cE
    BY <2>15, <2>16
  <2>18. t = Net(quote.lines[i])
    BY <1>5 DEF t
  <2>. QED BY <1>10, <2>9, <2>17, <2>18 DEF off, cE, E, c, sh
<1>. QED BY <1>9, <1>10 DEF E

LEMMA ContextIs ==
  ASSUME NEW c \in Contexts
  PROVE  /\ c.asSubscription \in BOOLEAN /\ c.live \in BOOLEAN /\ c.left \in Nat /\ c.retention \in Nat
         /\ c.pct \in Nat /\ c.fee \in Nat /\ c.rounding \in {"kurus", "tl"}
BY ContextsAssumption

LEMMA BoxDiscountIs ==
  ASSUME NEW t \in Nat, NEW c, c.left \in Nat, c.retention \in Nat, c.pct \in Nat
  PROVE  /\ BoxDiscount(t, c).amount \in Nat
         /\ BoxDiscount(t, c).kind \in {"FIRST_BOXES", "RETENTION", "none"}
         /\ BoxDiscount(t, c) = [amount |-> BoxDiscount(t, c).amount, kind |-> BoxDiscount(t, c).kind]
<1>. DEFINE first == IF c.left > 0 THEN PercentOf(t, c.pct, c.rounding) ELSE 0
            kept == PercentOf(t, c.retention, c.rounding)
<1>1. first \in Nat /\ kept \in Nat
  BY PercentNat
<1>. HIDE DEF first, kept
<1>2. BoxDiscount(t, c) = CASE first > 0              -> [amount |-> first, kind |-> "FIRST_BOXES"]
                            [] first = 0 /\ kept > 0  -> [amount |-> kept, kind |-> "RETENTION"]
                            [] first = 0 /\ kept = 0  -> [amount |-> 0, kind |-> "none"]
  BY DEF BoxDiscount, first, kept
<1>3. CASE first > 0
  BY <1>1, <1>2, <1>3
<1>4. CASE first = 0 /\ kept > 0
  BY <1>1, <1>2, <1>4
<1>5. CASE first = 0 /\ kept = 0
  BY <1>1, <1>2, <1>5
<1>. QED BY <1>1, <1>3, <1>4, <1>5

LEMMA ShippingNat ==
  ASSUME NEW c, c.fee \in Nat, NEW after, NEW kind
  PROVE  Shipping(after, kind, c) \in Nat
BY DEF Shipping

\* The totals of lines, and that they are no less than nothing.
LEMMA TotalsAre ==
  ASSUME NEW n \in Nat, NEW lines, Lined(lines, n), NEW kind, NEW c, c.fee \in Nat
  PROVE  LET q == Totals(lines, kind, c)
             net == [i \in 1..n |-> Net(lines[i])]
         IN  /\ q.kind = kind /\ q.lines = lines /\ q.vat = VatTotal(lines)
             /\ q.subtotal \in Nat /\ q.discount \in Nat /\ q.shipping \in Nat
             /\ q.vat \in Nat /\ q.grand \in Nat
             /\ q.subtotal - q.discount = Sum(net)
             /\ lines # <<>> => q.shipping = Shipping(q.subtotal - q.discount, kind, c)
<1>. DEFINE q == Totals(lines, kind, c)
            net == [i \in 1..n |-> Net(lines[i])]
            full == [i \in DOMAIN lines |-> lines[i].total]
            off == [i \in DOMAIN lines |-> lines[i].discount]
<1>1. DOMAIN lines = 1..n /\ \A i \in 1..n : LineOK(lines[i])
  BY DEF Lined
<1>2. \A i \in 1..n : /\ lines[i].total \in Nat /\ lines[i].discount \in Nat /\ Net(lines[i]) \in Nat
                      /\ Net(lines[i]) = lines[i].total - lines[i].discount
  BY <1>1, NetNat
<1>3. /\ Ints(full, n) /\ \A i \in 1..n : full[i] >= 0
      /\ Ints(off, n) /\ \A i \in 1..n : off[i] >= 0
      /\ Ints(net, n) /\ \A i \in 1..n : net[i] >= 0
      /\ \A i \in 1..n : full[i] = net[i] + off[i]
  BY <1>1, <1>2 DEF Ints
<1>4. /\ q.kind = kind /\ q.lines = lines /\ q.vat = VatTotal(lines)
      /\ q.subtotal = Sum(full) /\ q.discount = Sum(off)
      /\ q.shipping = (IF lines = <<>> THEN 0 ELSE Shipping(Sum(full) - Sum(off), kind, c))
      /\ q.grand = Sum(full) - Sum(off) + q.shipping
  BY DEF Totals
<1>. HIDE DEF q, net, full, off
<1>5. Sum(full) \in Nat /\ Sum(off) \in Nat /\ Sum(net) \in Nat
  BY <1>3, SumNat
<1>6. Sum(full) = Sum(net) + Sum(off)
  <2>1. DOMAIN full = 1..n
    BY <1>3 DEF Ints
  <2>. QED BY <1>3, <2>1, SumPlus
<1>7. q.shipping \in Nat
  BY <1>4, ShippingNat
<1>8. VatTotal(lines) \in Nat
  BY VatClose
<1>9. q.grand \in Nat /\ Sum(full) - Sum(off) = Sum(net)
  BY <1>4, <1>5, <1>6, <1>7
<1>10. lines # <<>> => q.shipping = Shipping(q.subtotal - q.discount, kind, c)
  BY <1>4
<1>. QED BY <1>4, <1>5, <1>7, <1>8, <1>9, <1>10 DEF q, net

\* The lines of a quote without a coupon.
LEMMA QuoteIs ==
  ASSUME DiscountsFit, NEW s \in Seq(Goods), NEW c \in Contexts
  PROVE  LET q == Quote(s, c)
             kind == OrderKind(s, c.asSubscription)
         IN  /\ Lined(q.lines, Len(s)) /\ q = Totals(q.lines, kind, c)
             /\ q.kind = kind /\ kind \in {"SINGLE", "BOX_ONE_TIME", "SUBSCRIPTION"}
             /\ \A i \in 1..Len(s) :
                  /\ q.lines[i].kind = s[i].kind
                  /\ Net(q.lines[i]) = LineTotal(s[i]) -
                       (IF kind = "SUBSCRIPTION" /\ s[i].kind = "BOX"
                        THEN BoxDiscount(LineTotal(s[i]), c).amount ELSE 0)
<1>. DEFINE n == Len(s)
            kind == OrderKind(s, c.asSubscription)
            Off(i) == IF kind = "SUBSCRIPTION" /\ s[i].kind = "BOX"
                      THEN BoxDiscount(LineTotal(s[i]), c).amount ELSE 0
            lines == [i \in DOMAIN s |->
                        LET line == Priced(s)[i]
                        IN  IF kind = "SUBSCRIPTION" /\ line.kind = "BOX"
                            THEN [line EXCEPT !.discount = BoxDiscount(line.total, c).amount]
                            ELSE line]
<1>1. n \in Nat /\ DOMAIN s = 1..n /\ \A i \in 1..n : s[i] \in Goods
  BY LenProperties, ElementOfSeq
<1>2. Quote(s, c) = Totals(lines, kind, c)
  BY DEF Quote
<1>3. ASSUME NEW i \in 1..n
      PROVE  /\ LineOK(lines[i]) /\ lines[i].kind = s[i].kind
             /\ Net(lines[i]) = LineTotal(s[i]) - Off(i)
  <2>1. s[i] \in Goods
    BY <1>1
  <2>2. s[i].kind \in Kinds /\ s[i].vat \in Nat /\ VatBase % (100 + s[i].vat) = 0
        /\ LineTotal(s[i]) \in Nat
    BY <2>1, GoodIs, LineTotalNat
  <2>. DEFINE p == [kind |-> s[i].kind, vat |-> s[i].vat, total |-> LineTotal(s[i]), discount |-> 0]
  <2>3. Priced(s)[i] = p
    BY <1>1 DEF Priced
  <2>4. lines[i] = IF kind = "SUBSCRIPTION" /\ s[i].kind = "BOX"
                   THEN [p EXCEPT !.discount = BoxDiscount(LineTotal(s[i]), c).amount] ELSE p
    BY <1>1, <2>3
  <2>. HIDE DEF lines, kind
  <2>5. BoxDiscount(LineTotal(s[i]), c).amount \in Nat
    BY <2>2, ContextIs, BoxDiscountIs
  <2>6. s[i].kind = "BOX" => BoxDiscount(LineTotal(s[i]), c).amount <= LineTotal(s[i])
    BY <2>1 DEF DiscountsFit
  <2>7. Off(i) \in Nat /\ Off(i) <= LineTotal(s[i])
    BY <2>2, <2>5, <2>6
  <2>8. lines[i] = [kind |-> s[i].kind, vat |-> s[i].vat, total |-> LineTotal(s[i]), discount |-> Off(i)]
    BY <2>4
  <2>. HIDE DEF Off
  <2>. QED BY <2>2, <2>7, <2>8 DEF LineOK, Net
<1>4. Lined(lines, n)
  <2>. DEFINE X == {lines[i] : i \in 1..n}
  <2>1. DOMAIN lines = 1..n /\ lines \in [1..n -> X]
    BY <1>1
  <2>. HIDE DEF lines, X
  <2>2. Len(lines) = n
    BY <1>1, <2>1
  <2>. QED BY <1>3, <2>1, <2>2 DEF Lined
<1>5. kind \in {"SINGLE", "BOX_ONE_TIME", "SUBSCRIPTION"}
  BY DEF OrderKind
<1>. HIDE DEF lines, kind
<1>6. Quote(s, c).lines = lines /\ Quote(s, c).kind = kind
  BY <1>2 DEF Totals
<1>. HIDE DEF Off
<1>7. \A i \in 1..n : lines[i].kind = s[i].kind /\ Net(lines[i]) = LineTotal(s[i]) - Off(i)
  BY <1>3
<1>. QED BY <1>2, <1>4, <1>5, <1>6, <1>7 DEF kind, Off

LEMMA CouponIs ==
  ASSUME NEW k \in Coupons \cup {NoCoupon}
  PROVE  k.scope \in {"SINGLE", "BOX", "ALL"} /\ k.kind \in {"PERCENT", "AMOUNT"} /\ k.value \in Nat
BY CouponsAssumption DEF NoCoupon

LEMMA WantedIs ==
  ASSUME NEW n \in Nat, NEW quote, Lined(quote.lines, n), NEW k \in Coupons \cup {NoCoupon}, NEW r
  PROVE  /\ Wanted(quote, k, r) \in Nat /\ Wanted(quote, k, r) <= Capacity(quote, k.scope)
         /\ k = NoCoupon => Wanted(quote, k, r) = 0
<1>. DEFINE amount == ScopeAmount(quote, k.scope)
            term == [i \in DOMAIN quote.lines |->
                       IF InScope(quote.lines[i], k.scope) THEN Net(quote.lines[i]) ELSE 0]
            top == Capacity(quote, k.scope)
            x == CouponAmount(quote, k, r)
<1>1. k.scope \in {"SINGLE", "BOX", "ALL"} /\ k.kind \in {"PERCENT", "AMOUNT"} /\ k.value \in Nat
  BY CouponIs
<1>2. amount \in Int
  <2>1. \A i \in 1..n : Net(quote.lines[i]) \in Nat
    BY NetNat DEF Lined
  <2>2. Ints(term, n)
    BY <2>1 DEF Ints, Lined
  <2>3. amount = Sum(term)
    BY DEF ScopeAmount
  <2>. HIDE DEF term, amount
  <2>. QED BY <2>2, <2>3, SumInt
<1>3. top \in Nat
  BY CapacityIs
<1>. HIDE DEF amount
<1>4. x = IF quote.subtotal < k.min \/ amount <= 0 THEN 0
          ELSE IF k.kind = "PERCENT" THEN PercentOf(amount, k.value, r)
          ELSE IF k.value < amount THEN k.value ELSE amount
  BY DEF CouponAmount, CouponDiscount, amount
<1>5. amount > 0 => PercentOf(amount, k.value, r) \in Nat
  BY <1>1, <1>2, PercentNat
<1>6. x \in Int /\ (k = NoCoupon => x = 0)
  <2>1. k = NoCoupon => k.kind = "AMOUNT" /\ k.value = 0
    BY DEF NoCoupon
  <2>. HIDE DEF x
  <2>. QED BY <1>1, <1>2, <1>4, <1>5, <2>1
<1>7. Wanted(quote, k, r) = Clamp(x, top)
  BY DEF Wanted
<1>. HIDE DEF x, top
<1>8. Clamp(x, top) \in Nat /\ Clamp(x, top) <= top /\ (x = 0 => Clamp(x, top) = 0)
  BY <1>3, <1>6 DEF Clamp
<1>. QED BY <1>6, <1>7, <1>8 DEF top

\* The lines of q are those of the quote, w shared out over those in the coupon's scope.
Shared(q, quote, scope, w, n) ==
  /\ Lined(q.lines, n)
  /\ \A i \in 1..n :
       /\ q.lines[i].discount = quote.lines[i].discount + (IF w = 0 THEN 0 ELSE Shares(quote, scope, w)[i])
       /\ ~InScope(quote.lines[i], scope) => q.lines[i] = quote.lines[i]
       /\ q.lines[i].kind = quote.lines[i].kind

\* The lines with the coupon: each has its share more discount, no line more
\* than it costs, and only those in the coupon's scope have any.
LEMMA WithCouponIs ==
  ASSUME NEW n \in Nat, NEW quote, Lined(quote.lines, n), NEW k \in Coupons \cup {NoCoupon},
         NEW c, c.fee \in Nat, NEW kind,
         quote = Totals(quote.lines, kind, c)
  PROVE  /\ Shared(WithCoupon(quote, k, c), quote, k.scope, Wanted(quote, k, c.rounding), n)
         /\ WithCoupon(quote, k, c) = Totals(WithCoupon(quote, k, c).lines, kind, c)
<1>. DEFINE q == WithCoupon(quote, k, c)
            w == Wanted(quote, k, c.rounding)
            sh == Shares(quote, k.scope, w)
            lines == [i \in DOMAIN quote.lines |-> [quote.lines[i] EXCEPT !.discount = @ + sh[i]]]
<1>1. w \in Nat
  BY WantedIs
<1>2. /\ q = IF w = 0 THEN quote ELSE Totals(lines, quote.kind, c)
      /\ quote.kind = kind
  BY DEF WithCoupon, Totals
<1>3. DOMAIN quote.lines = 1..n /\ \A i \in 1..n : LineOK(quote.lines[i])
  BY DEF Lined
<1>4. CASE w = 0
  <2>1. q = quote
    BY <1>2, <1>4
  <2>2. \A i \in 1..n : quote.lines[i].discount \in Nat
    BY <1>3 DEF LineOK
  <2>3. \A i \in 1..n : quote.lines[i].discount = quote.lines[i].discount + 0
    BY <2>2
  <2>. HIDE DEF q, w
  <2>. QED BY <1>4, <2>1, <2>3 DEF q, w, Shared
<1>5. CASE w # 0
  <2>1. q = Totals(lines, kind, c)
    BY <1>2, <1>5
  <2>2. \A i \in 1..n : /\ sh[i] \in 0..Net(quote.lines[i])
                        /\ i \notin Eligible(quote, k.scope) => sh[i] = 0
    <3>. HIDE DEF w
    <3>1. \A i \in 1..n : Shares(quote, k.scope, w)[i] \in 0..Net(quote.lines[i])
      BY <1>1, SharesAre
    <3>2. \A i \in 1..n : i \notin Eligible(quote, k.scope) => Shares(quote, k.scope, w)[i] = 0
      BY <1>1, SharesAre
    <3>. QED BY <3>1, <3>2
  <2>. HIDE DEF sh, q, w
  <2>3. ASSUME NEW i \in 1..n
        PROVE  /\ LineOK(lines[i]) /\ lines[i].discount = quote.lines[i].discount + sh[i]
               /\ ~InScope(quote.lines[i], k.scope) => lines[i] = quote.lines[i]
               /\ lines[i].kind = quote.lines[i].kind
    <3>. DEFINE l == quote.lines[i]
    <3>1. lines[i] = [l EXCEPT !.discount = @ + sh[i]]
      BY <1>3
    <3>2. LineOK(l)
      BY <1>3
    <3>3. sh[i] \in 0..Net(l) /\ (i \notin Eligible(quote, k.scope) => sh[i] = 0)
      BY <2>2
    <3>4. ~InScope(l, k.scope) => i \notin Eligible(quote, k.scope)
      BY DEF Eligible
    <3>. HIDE DEF l, lines
    <3>5. Net(l) \in Nat /\ Net(l) = l.total - l.discount /\ l.total \in Nat /\ l.discount \in Nat
      BY <3>2, NetNat
    <3>. DEFINE d == l.discount + sh[i]
    <3>6. d \in Nat /\ d <= l.total /\ (~InScope(l, k.scope) => d = l.discount)
      BY <3>3, <3>4, <3>5
    <3>7. lines[i] = [l EXCEPT !.discount = d]
      BY <3>1
    <3>. HIDE DEF d
    <3>8. l \in [kind : Kinds, vat : Nat, total : Nat, discount : Nat] /\ VatBase % (100 + l.vat) = 0
      BY <3>2 DEF LineOK
    <3>9. lines[i] = [kind |-> l.kind, vat |-> l.vat, total |-> l.total, discount |-> d]
      BY <3>7, <3>8
    <3>10. LineOK(lines[i]) /\ lines[i].discount = d /\ lines[i].kind = l.kind
      BY <3>6, <3>8, <3>9 DEF LineOK
    <3>11. l = [kind |-> l.kind, vat |-> l.vat, total |-> l.total, discount |-> l.discount]
      BY <3>8
    <3>12. ~InScope(l, k.scope) => lines[i] = l
      BY <3>6, <3>9, <3>11
    <3>. QED BY <3>10, <3>12 DEF l, d
  <2>. DEFINE X == {lines[i] : i \in 1..n}
  <2>4. DOMAIN lines = 1..n /\ lines \in [1..n -> X]
    BY <1>3
  <2>. HIDE DEF lines, X
  <2>a. Len(lines) = n
    BY <2>4
  <2>5. Lined(lines, n)
    BY <2>3, <2>4, <2>a DEF Lined
  <2>6. q.lines = lines
    BY <2>1 DEF Totals
  <2>7. \A i \in 1..n :
          /\ q.lines[i].discount = quote.lines[i].discount + (IF w = 0 THEN 0 ELSE sh[i])
          /\ ~InScope(quote.lines[i], k.scope) => q.lines[i] = quote.lines[i]
          /\ q.lines[i].kind = quote.lines[i].kind
    BY <1>5, <2>3, <2>6
  <2>. QED BY <2>1, <2>5, <2>6, <2>7 DEF q, w, sh, Shared
<1>. QED BY <1>4, <1>5

WorthEq(f, S) == f = [s \in SUBSET S |-> IF s = {} THEN 0
                        ELSE LineTotal(CHOOSE x \in s : TRUE) + f[s \ {CHOOSE x \in s : TRUE}]]

\* What goods are worth is a fold, a function over the subsets chosen by its equation.
LEMMA WorthUnfold ==
  ASSUME NEW S
  PROVE  Worth(S) = (CHOOSE f : WorthEq(f, S))[S]
BY DEF Worth, MapThenSumSet, MapThenFoldSet, WorthEq

\* Induction over the naturals, with a set for the predicate.
LEMMA NatInd ==
  ASSUME NEW T \in SUBSET Nat, 0 \in T, \A n \in T : n + 1 \in T
  PROVE  \A n \in Nat : n \in T
<1>. SUFFICES ASSUME Nat \ T # {} PROVE FALSE OBVIOUS
<1>1. PICK n \in Nat \ T : \A m \in Nat \ T : n <= m BY Least
<1>2. n # 0 /\ n - 1 \in Nat OBVIOUS
<1>3. n - 1 \in T BY <1>1, <1>2
<1>4. (n - 1) + 1 \in T BY <1>3
<1>. QED BY <1>1, <1>4

AnyOf(s) == CHOOSE x \in s : TRUE
UpToSize(S, n) == {s \in SUBSET S : Cardinality(s) <= n}
WorthUpTo(f, S, n) ==
  f = [s \in UpToSize(S, n) |-> IF s = {} THEN 0 ELSE LineTotal(AnyOf(s)) + f[s \ {AnyOf(s)}]]

LEMMA AnyIs ==
  ASSUME NEW S, IsFiniteSet(S), NEW s \in SUBSET S, s # {}
  PROVE  /\ AnyOf(s) \in s /\ s \ {AnyOf(s)} \in SUBSET S
         /\ Cardinality(s) \in Nat /\ Cardinality(s \ {AnyOf(s)}) = Cardinality(s) - 1
         /\ IsFiniteSet(s)
<1>1. AnyOf(s) \in s BY DEF AnyOf
<1>2. IsFiniteSet(s) BY FS_Subset
<1>. QED BY <1>1, <1>2, FS_RemoveElement, FS_CardinalityType

\* The equation has a solution, size by size, and CHOOSE finds it.
LEMMA WorthExists ==
  ASSUME NEW S, IsFiniteSet(S)
  PROVE  \E f : WorthEq(f, S) /\ Worth(S) = f[S]
<1>. DEFINE T == {n \in Nat : \E f : WorthUpTo(f, S, n)}
<1>1. 0 \in T
  <2>. DEFINE f == [s \in UpToSize(S, 0) |-> 0]
  <2>1. ASSUME NEW s \in UpToSize(S, 0) PROVE s = {}
    <3>1. IsFiniteSet(s) /\ Cardinality(s) \in Nat /\ Cardinality(s) <= 0
      BY <2>1, FS_Subset, FS_CardinalityType DEF UpToSize
    <3>. QED BY <3>1, FS_EmptySet
  <2>2. WorthUpTo(f, S, 0) BY <2>1 DEF WorthUpTo
  <2>. QED BY <2>2
<1>2. ASSUME NEW n \in T PROVE n + 1 \in T
  <2>1. PICK f : WorthUpTo(f, S, n) OBVIOUS
  <2>. DEFINE g == [s \in UpToSize(S, n + 1) |->
                      IF s = {} THEN 0 ELSE LineTotal(AnyOf(s)) + f[s \ {AnyOf(s)}]]
  <2>2. ASSUME NEW s \in UpToSize(S, n + 1), s # {} PROVE g[s \ {AnyOf(s)}] = f[s \ {AnyOf(s)}]
    <3>. DEFINE t == s \ {AnyOf(s)}
    <3>1. t \in UpToSize(S, n) /\ t \in UpToSize(S, n + 1)
      BY AnyIs, <2>2 DEF UpToSize
    <3>2. f[t] = IF t = {} THEN 0 ELSE LineTotal(AnyOf(t)) + f[t \ {AnyOf(t)}]
      BY <2>1, <3>1 DEF WorthUpTo
    <3>3. g[t] = IF t = {} THEN 0 ELSE LineTotal(AnyOf(t)) + f[t \ {AnyOf(t)}] BY <3>1
    <3>. QED BY <3>2, <3>3
  <2>3. g = [s \in UpToSize(S, n + 1) |->
               IF s = {} THEN 0 ELSE LineTotal(AnyOf(s)) + g[s \ {AnyOf(s)}]]
    BY <2>2
  <2>4. WorthUpTo(g, S, n + 1) BY <2>3 DEF WorthUpTo
  <2>. QED BY <2>4
<1>. HIDE DEF T
<1>3. T \in SUBSET Nat BY DEF T
<1>4. \A n \in Nat : n \in T BY <1>1, <1>2, <1>3, NatInd
<1>5. Cardinality(S) \in Nat BY FS_CardinalityType
<1>6. PICK f : WorthUpTo(f, S, Cardinality(S)) BY <1>4, <1>5 DEF T
<1>7. UpToSize(S, Cardinality(S)) = SUBSET S BY FS_Subset DEF UpToSize
<1>8. WorthEq(f, S) BY <1>6, <1>7 DEF WorthEq, WorthUpTo, AnyOf
<1>. QED BY <1>8, WorthUnfold

\* Induction over the subsets of a finite set.
LEMMA SubsetInd ==
  ASSUME NEW S, IsFiniteSet(S), NEW P, {} \in P,
         \A s \in SUBSET S : s # {} /\ (\A x \in s : s \ {x} \in P) => s \in P
  PROVE  \A s \in SUBSET S : s \in P
<1>. DEFINE N == {n \in Nat : \A s \in SUBSET S : Cardinality(s) = n => s \in P}
<1>1. 0 \in N BY FS_EmptySet, FS_Subset
<1>2. ASSUME NEW n \in N PROVE n + 1 \in N
  <2>. SUFFICES ASSUME NEW s \in SUBSET S, Cardinality(s) = n + 1 PROVE s \in P OBVIOUS
  <2>1. IsFiniteSet(s) BY FS_Subset
  <2>2. n + 1 # 0 OBVIOUS
  <2>3. s # {} BY <2>2, FS_EmptySet
  <2>4. ASSUME NEW x \in s PROVE s \ {x} \in P
    <3>1. Cardinality(s \ {x}) = Cardinality(s) - 1 BY <2>1, FS_RemoveElement
    <3>2. Cardinality(s \ {x}) = n BY <3>1
    <3>. QED BY <3>2
  <2>. QED BY <2>3, <2>4
<1>. HIDE DEF N
<1>3. N \in SUBSET Nat BY DEF N
<1>4. \A n \in Nat : n \in N BY <1>1, <1>2, <1>3, NatInd
<1>5. ASSUME NEW s \in SUBSET S PROVE s \in P
  <2>1. Cardinality(s) \in Nat BY FS_Subset, FS_CardinalityType
  <2>2. Cardinality(s) \in N BY <2>1, <1>4
  <2>. QED BY <2>2 DEF N
<1>. QED BY <1>5

LEMMA WorthStep ==
  ASSUME NEW f, NEW S, WorthEq(f, S)
  PROVE  /\ f[{}] = 0
         /\ \A s \in SUBSET S : s # {} => AnyOf(s) \in s /\ f[s] = LineTotal(AnyOf(s)) + f[s \ {AnyOf(s)}]
BY DEF WorthEq, AnyOf

\* The worth of a subset is the same in both.
LEMMA WorthAgree ==
  ASSUME NEW f, NEW g, NEW S, NEW T, WorthEq(f, S), WorthEq(g, T),
         NEW U, U \subseteq S, U \subseteq T, IsFiniteSet(U)
  PROVE  f[U] = g[U]
<1>. DEFINE P == {s \in SUBSET U : f[s] = g[s]}
<1>1. {} \in P BY WorthStep
<1>2. ASSUME NEW s \in SUBSET U, s # {}, \A x \in s : s \ {x} \in P PROVE s \in P
  <2>1. s \in SUBSET S /\ s \in SUBSET T OBVIOUS
  <2>2. AnyOf(s) \in s /\ f[s] = LineTotal(AnyOf(s)) + f[s \ {AnyOf(s)}] BY <2>1, <1>2, WorthStep
  <2>3. g[s] = LineTotal(AnyOf(s)) + g[s \ {AnyOf(s)}] BY <2>1, <1>2, WorthStep
  <2>4. f[s \ {AnyOf(s)}] = g[s \ {AnyOf(s)}] BY <2>2, <1>2
  <2>. QED BY <2>2, <2>3, <2>4
<1>. HIDE DEF P
<1>3. \A s \in SUBSET U : s \in P BY <1>1, <1>2, SubsetInd
<1>. QED BY <1>3 DEF P

\* The order of the goods does not matter: any of them may be the last.
LEMMA WorthAny ==
  ASSUME NEW f, WorthEq(f, Goods)
  PROVE  \A s \in SUBSET Goods : f[s] \in Nat /\ \A x \in s : f[s] = LineTotal(x) + f[s \ {x}]
<1>0. \A s \in SUBSET Goods : s # {} => AnyOf(s) \in s /\ f[s] = LineTotal(AnyOf(s)) + f[s \ {AnyOf(s)}]
  <2>1. WorthEq(f, Goods) OBVIOUS
  <2>. QED BY ONLY <2>1, WorthStep
<1>. DEFINE R == {s \in SUBSET Goods : f[s] \in Nat}
            P == {s \in SUBSET Goods : \A x \in s : f[s] = LineTotal(x) + f[s \ {x}]}
<1>1. IsFiniteSet(Goods) BY GoodsAssumption
<1>2. \A s \in SUBSET Goods : f[s] \in Nat
  <2>1. {} \in R BY WorthStep
  <2>2. ASSUME NEW s \in SUBSET Goods, s # {}, \A y \in s : s \ {y} \in R PROVE s \in R
    <3>1. AnyOf(s) \in s /\ f[s] = LineTotal(AnyOf(s)) + f[s \ {AnyOf(s)}]
      BY <2>2, <1>0
    <3>2. LineTotal(AnyOf(s)) \in Nat /\ f[s \ {AnyOf(s)}] \in Nat
      BY <3>1, <2>2, LineTotalNat
    <3>. QED BY <3>1, <3>2
  <2>. HIDE DEF R
  <2>3. \A s \in SUBSET Goods : s \in R BY <1>1, <2>1, <2>2, SubsetInd
  <2>. QED BY <2>3 DEF R
<1>3. {} \in P OBVIOUS
<1>4. ASSUME NEW s \in SUBSET Goods, s # {}, \A x \in s : s \ {x} \in P PROVE s \in P
  <2>. SUFFICES ASSUME NEW x \in s PROVE f[s] = LineTotal(x) + f[s \ {x}] OBVIOUS
  <2>. DEFINE r == (s \ {x}) \ {AnyOf(s)}
  <2>1. AnyOf(s) \in s /\ f[s] = LineTotal(AnyOf(s)) + f[s \ {AnyOf(s)}]
    <3>1. s # {} BY <1>4
    <3>. QED BY <3>1, <1>0
  <2>2. CASE x = AnyOf(s) BY <2>1, <2>2
  <2>3. CASE x # AnyOf(s)
    <3>1. r = (s \ {AnyOf(s)}) \ {x} OBVIOUS
    <3>2. f[s \ {AnyOf(s)}] = LineTotal(x) + f[r]
      <4>1. s \ {AnyOf(s)} \in P BY <1>4, <2>1
      <4>. QED BY <4>1, <2>3, <3>1
    <3>3. f[s \ {x}] = LineTotal(AnyOf(s)) + f[r]
      <4>1. s \ {x} \in P BY <1>4
      <4>. QED BY <4>1, <2>1, <2>3
    <3>4. LineTotal(AnyOf(s)) \in Nat /\ LineTotal(x) \in Nat BY <2>1, LineTotalNat
    <3>5. r \in SUBSET Goods OBVIOUS
    <3>6. f[r] \in Nat BY <3>5, <1>2
    <3>7. f[s] = LineTotal(AnyOf(s)) + (LineTotal(x) + f[r]) BY <2>1, <3>2
    <3>. HIDE DEF r
    <3>. QED BY <3>3, <3>4, <3>6, <3>7
  <2>. QED BY <2>2, <2>3
<1>. HIDE DEF P
<1>5. \A s \in SUBSET Goods : s \in P BY <1>1, <1>3, <1>4, SubsetInd
<1>. QED BY <1>2, <1>5 DEF P

\* What goods are worth, whatever the order they are added up in.
LEMMA WorthIs ==
  /\ Worth({}) = 0
  /\ \A s \in SUBSET Goods : /\ Worth(s) \in Nat /\ IsFiniteSet(s)
                             /\ \A x \in s : Worth(s) = LineTotal(x) + Worth(s \ {x})
<1>1. IsFiniteSet(Goods) BY GoodsAssumption
<1>2. PICK f : WorthEq(f, Goods) BY <1>1, WorthExists
<1>3. ASSUME NEW s \in SUBSET Goods PROVE IsFiniteSet(s) /\ Worth(s) = f[s]
  <2>1. IsFiniteSet(s) BY <1>1, FS_Subset
  <2>2. PICK g : WorthEq(g, s) /\ Worth(s) = g[s] BY <2>1, WorthExists
  <2>3. f[s] = g[s] BY <1>2, <2>1, <2>2, WorthAgree
  <2>. QED BY <2>1, <2>2, <2>3
<1>4. Worth({}) = 0 BY <1>2, <1>3, WorthStep
<1>5. \A s \in SUBSET Goods : f[s] \in Nat /\ \A x \in s : f[s] = LineTotal(x) + f[s \ {x}]
  BY <1>2, WorthAny
<1>6. ASSUME NEW s \in SUBSET Goods
      PROVE  /\ Worth(s) \in Nat /\ IsFiniteSet(s)
             /\ \A x \in s : Worth(s) = LineTotal(x) + Worth(s \ {x})
  <2>1. Worth(s) \in Nat /\ IsFiniteSet(s) BY <1>3, <1>5
  <2>2. ASSUME NEW x \in s PROVE Worth(s) = LineTotal(x) + Worth(s \ {x})
    <3>1. s \ {x} \in SUBSET Goods OBVIOUS
    <3>. QED BY <3>1, <1>3, <1>5
  <2>. QED BY <2>1, <2>2
<1>. QED BY <1>4, <1>6

\* More goods are worth no less.
LEMMA WorthMore ==
  ASSUME NEW s \in SUBSET Goods, NEW t \in SUBSET s
  PROVE  /\ Worth(t) <= Worth(s) /\ Worth(s \ t) = Worth(s) - Worth(t)
<1>. DEFINE P == {u \in SUBSET s : Worth(s \ u) = Worth(s) - Worth(u)}
<1>0. IsFiniteSet(s) /\ Worth(s) \in Nat BY WorthIs
<1>1. {} \in P
  <2>1. s \ {} = s OBVIOUS
  <2>. QED BY <2>1, <1>0, WorthIs
<1>2. ASSUME NEW u \in SUBSET s, u # {}, \A x \in u : u \ {x} \in P PROVE u \in P
  <2>1. PICK x \in u : TRUE BY <1>2
  <2>. DEFINE v == u \ {x}
  <2>2. Worth(s \ v) = Worth(s) - Worth(v) BY <1>2, <2>1
  <2>3. Worth(u) = LineTotal(x) + Worth(v)
    <3>1. u \in SUBSET Goods OBVIOUS
    <3>. QED BY <3>1, WorthIs
  <2>4. Worth(s \ v) = LineTotal(x) + Worth(s \ u)
    <3>1. s \ v \in SUBSET Goods /\ x \in s \ v /\ (s \ v) \ {x} = s \ u OBVIOUS
    <3>2. Worth(s \ v) = LineTotal(x) + Worth((s \ v) \ {x})
      BY <3>1, WorthIs
    <3>. QED BY <3>1, <3>2
  <2>5. Worth(v) \in Nat /\ Worth(u) \in Nat /\ Worth(s \ u) \in Nat
    <3>1. v \in SUBSET Goods /\ u \in SUBSET Goods /\ s \ u \in SUBSET Goods OBVIOUS
    <3>. QED BY <3>1, WorthIs
  <2>6. LineTotal(x) \in Nat
    <3>1. x \in Goods OBVIOUS
    <3>. QED BY <3>1, LineTotalNat
  <2>. HIDE DEF v
  <2>7. Worth(s \ u) = Worth(s) - Worth(u) BY <1>0, <2>2, <2>3, <2>4, <2>5, <2>6
  <2>. QED BY <2>7
<1>. HIDE DEF P
<1>3. \A u \in SUBSET s : u \in P BY <1>0, <1>1, <1>2, SubsetInd
<1>4. Worth(s \ t) = Worth(s) - Worth(t) BY <1>3 DEF P
<1>5. Worth(s \ t) \in Nat /\ Worth(t) \in Nat
  <2>1. s \ t \in SUBSET Goods /\ t \in SUBSET Goods OBVIOUS
  <2>. QED BY <2>1, WorthIs
<1>. QED BY <1>0, <1>4, <1>5

\* Goods, each once, at the places 1..n.
Once(t, n) == /\ DOMAIN t = 1..n /\ \A i \in 1..n : t[i] \in Goods
              /\ \A i, j \in 1..n : t[i] = t[j] => i = j

\* Added up in the order of a sequence, goods come to what they are worth.
LEMMA SumOfGoods ==
  ASSUME NEW n \in Nat, NEW t, Once(t, n), NEW B
  PROVE  LET term == [i \in 1..n |-> IF t[i] \in B THEN LineTotal(t[i]) ELSE 0]
         IN  /\ Sum(term) = Worth({t[i] : i \in 1..n} \cap B) /\ Ints(term, n)
             /\ \A i \in 1..n : term[i] \in Nat
<1>. DEFINE term == [i \in 1..n |-> IF t[i] \in B THEN LineTotal(t[i]) ELSE 0]
            So == [k \in 0..n |-> {t[i] : i \in 1..k} \cap B]
<1>1. \A i \in 1..n : t[i] \in Goods /\ LineTotal(t[i]) \in Nat
  BY LineTotalNat DEF Once
<1>2. Ints(term, n) /\ \A i \in 1..n : term[i] \in Nat
  BY <1>1 DEF Ints
<1>3. PICK g \in [0..n -> Int] : g[0] = 0 /\ g[n] = Sum(term) /\ \A k \in 1..n : g[k] = g[k - 1] + term[k]
  BY <1>2, PartialSums
<1>. DEFINE T == {k \in 0..n : g[k] = Worth(So[k])}
<1>4. 0 \in T
  <2>1. So[0] = {}
    OBVIOUS
  <2>2. g[0] = Worth(So[0])
    BY <1>3, <2>1, WorthIs
  <2>. QED BY <2>2
<1>5. ASSUME NEW k \in 1..n, k - 1 \in T PROVE k \in T
  <2>0. k \in 0..n /\ k - 1 \in 0..n
    OBVIOUS
  <2>1. So[k] = So[k - 1] \cup ({t[k]} \cap B)
    <3>1. {t[i] : i \in 1..k} \cap B = ({t[i] : i \in 1..(k - 1)} \cap B) \cup ({t[k]} \cap B)
      OBVIOUS
    <3>. QED BY <2>0, <3>1
  <2>2. t[k] \notin So[k - 1]
    <3>1. ASSUME NEW i \in 1..(k - 1) PROVE t[i] # t[k]
      <4>1. i \in 1..n /\ i # k
        OBVIOUS
      <4>. QED BY <4>1 DEF Once
    <3>. QED BY <2>0, <3>1
  <2>3. So[k] \in SUBSET Goods /\ So[k - 1] \in SUBSET Goods
    <3>1. \A i \in 1..k : t[i] \in Goods
      BY <1>1
    <3>. QED BY <2>0, <3>1
  <2>4. g[k] = g[k - 1] + term[k] /\ g[k - 1] = Worth(So[k - 1])
    BY <1>3, <1>5
  <2>5. Worth(So[k - 1]) \in Nat
    BY <2>3, WorthIs
  <2>6. LineTotal(t[k]) \in Nat
    BY <1>1
  <2>7. term[k] = IF t[k] \in B THEN LineTotal(t[k]) ELSE 0
    OBVIOUS
  <2>. HIDE DEF So, term
  <2>8. CASE t[k] \in B
    <3>1. So[k] \ {t[k]} = So[k - 1] /\ t[k] \in So[k]
      BY <2>1, <2>2, <2>8
    <3>2. Worth(So[k]) = LineTotal(t[k]) + Worth(So[k] \ {t[k]})
      BY <2>3, <3>1, WorthIs
    <3>3. term[k] = LineTotal(t[k])
      BY <2>7, <2>8
    <3>4. g[k] = Worth(So[k - 1]) + LineTotal(t[k])
      BY <2>4, <3>3
    <3>5. Worth(So[k]) = LineTotal(t[k]) + Worth(So[k - 1])
      BY <3>1, <3>2
    <3>6. g[k] = Worth(So[k])
      BY <2>5, <2>6, <3>4, <3>5
    <3>. QED BY <3>6
  <2>9. CASE t[k] \notin B
    <3>1. So[k] = So[k - 1]
      BY <2>1, <2>9
    <3>2. g[k] = Worth(So[k])
      BY <2>4, <2>5, <2>7, <2>9, <3>1
    <3>. QED BY <3>2
  <2>. QED BY <2>8, <2>9
<1>. HIDE DEF T
<1>6. \A k \in 0..n : k \in T
  BY <1>4, <1>5, UpTo
<1>7. g[n] = Worth(So[n])
  <2>1. n \in 0..n
    OBVIOUS
  <2>. QED BY <1>6, <2>1 DEF T
<1>8. So[n] = {t[i] : i \in 1..n} \cap B
  OBVIOUS
<1>. QED BY <1>2, <1>3, <1>7, <1>8

\* A set has a sequence that lists each element once.
LEMMA Listed ==
  ASSUME NEW S, IsFiniteSet(S)
  PROVE  LET t == SetToSeq(S)
             n == Cardinality(S)
         IN  /\ n \in Nat /\ t \in [1..n -> S] /\ {t[i] : i \in 1..n} = S
             /\ \A i, j \in 1..n : t[i] = t[j] => i = j
<1>. DEFINE n == Cardinality(S)
            t == SetToSeq(S)
<1>1. n \in Nat /\ ExistsBijection(1..n, S)
  BY FS_CardinalityType
<1>2. PICK b \in Bijection(1..n, S) : TRUE
  BY <1>1 DEF ExistsBijection
<1>3. b \in [1..n -> S] /\ IsInjective(b)
  BY <1>2 DEF Bijection, Injection
<1>4. t \in [1..n -> S] /\ IsInjective(t)
  BY <1>3 DEF SetToSeq
<1>. HIDE DEF t
<1>5. \A i, j \in 1..n : t[i] = t[j] => i = j
  BY <1>4 DEF IsInjective
<1>. DEFINE T == {t[i] : i \in 1..n}
<1>6. T \in SUBSET S /\ t \in [1..n -> T] /\ \A y \in T : \E i \in 1..n : t[i] = y
  BY <1>4
<1>. HIDE DEF T
<1>7. t \in Injection(1..n, T) /\ t \in Surjection(1..n, T)
  BY <1>4, <1>6 DEF Injection, Surjection
<1>8. IsFiniteSet(1..n) /\ Cardinality(1..n) = n
  BY <1>1, FS_Interval
<1>9. Cardinality(T) = n
  BY <1>7, <1>8, FS_Surjection
<1>10. T = S
  BY <1>6, <1>9, FS_Subset
<1>. QED BY <1>1, <1>4, <1>5, <1>10 DEF T, t

\* The extras of a bill come to what they are worth.
LEMMA ChargeIs ==
  ASSUME NEW xs \in SUBSET ExtraGoods, NEW box, NEW oneTime, NEW prepaid, NEW c
  PROVE  LET q == CycleCharge(box, SetToSeq(xs), oneTime, prepaid, c)
             discount == IF oneTime THEN [amount |-> 0, kind |-> "none"] ELSE BoxDiscount(box, c)
             after == box + Worth(xs) - discount.amount
         IN  /\ q.extras = Worth(xs) /\ q.discountKind = discount.kind
             /\ q.shipping = Shipping(after, IF oneTime THEN "BOX_ONE_TIME" ELSE "SUBSCRIPTION",
                                      [c EXCEPT !.live = ~oneTime])
             /\ q.total = after + q.shipping /\ q.due = after + q.shipping - prepaid
<1>. DEFINE t == SetToSeq(xs)
            n == Cardinality(xs)
            term == [i \in 1..n |-> IF t[i] \in xs THEN LineTotal(t[i]) ELSE 0]
            sold == [i \in DOMAIN t |-> WholeLira(t[i].price * t[i].qty, 4)]
<1>1. IsFiniteSet(xs) /\ xs \in SUBSET Goods
  <2>1. xs \in SUBSET Goods
    BY DEF ExtraGoods
  <2>. QED BY <2>1, WorthIs
<1>2. /\ n \in Nat /\ t \in [1..n -> xs] /\ {t[i] : i \in 1..n} = xs
      /\ \A i, j \in 1..n : t[i] = t[j] => i = j
  BY <1>1, Listed
<1>. HIDE DEF t, n
<1>3. Once(t, n)
  BY <1>1, <1>2 DEF Once
<1>4. Sum(term) = Worth({t[i] : i \in 1..n} \cap xs)
  BY <1>2, <1>3, SumOfGoods
<1>5. {t[i] : i \in 1..n} \cap xs = xs
  BY <1>2
<1>6. sold = term
  <2>1. ASSUME NEW i \in 1..n PROVE WholeLira(t[i].price * t[i].qty, 4) = LineTotal(t[i])
    <3>1. t[i] \in xs
      BY <1>2
    <3>2. t[i] \in Goods /\ t[i].kind = "EXTRA"
      BY <3>1 DEF ExtraGoods
    <3>. QED BY <3>2, LineTotalNat
  <2>2. DOMAIN t = 1..n /\ \A i \in 1..n : t[i] \in xs
    BY <1>2
  <2>. QED BY <2>1, <2>2
<1>7. Sum(sold) = Worth(xs)
  BY <1>4, <1>5, <1>6
<1>. HIDE DEF sold, term
<1>8. Sum([i \in DOMAIN SetToSeq(xs) |-> WholeLira(SetToSeq(xs)[i].price * SetToSeq(xs)[i].qty, 4)]) = Worth(xs)
  BY <1>7 DEF sold, t
<1>. QED BY <1>8 DEF CycleCharge

OneBox(s) == \A i, j \in DOMAIN s : s[i].kind = "BOX" /\ s[j].kind = "BOX" => i = j

\* Nothing but a box and extras: as many lines as there are extras, and one.
LEMMA OnlyExtras ==
  ASSUME NEW n \in Nat, NEW s, Once(s, n), NEW i \in 1..n, s[i].kind = "BOX", NEW j \in 1..n,
         s[j].kind = "PRODUCT"
  PROVE  n # Cardinality({s[k] : k \in 1..n} \cap ExtraGoods) + 1
<1>. DEFINE xs == {s[k] : k \in 1..n} \cap ExtraGoods
            K == {k \in 1..n : s[k] \in ExtraGoods}
            f == [k \in K |-> s[k]]
            J == (1..n) \ {i}
<1>1. IsFiniteSet(1..n) /\ Cardinality(1..n) = n
  BY FS_Interval
<1>2. i # j
  OBVIOUS
<1>3. IsFiniteSet(J) /\ Cardinality(J) = n - 1
  BY <1>1, FS_RemoveElement
<1>4. j \in J
  BY <1>2
<1>5. IsFiniteSet(J \ {j}) /\ Cardinality(J \ {j}) = Cardinality(J) - 1
  BY <1>3, <1>4, FS_RemoveElement
<1>6. K \in SUBSET (J \ {j})
  BY DEF ExtraGoods
<1>7. IsFiniteSet(K) /\ Cardinality(K) <= Cardinality(J \ {j})
  BY <1>5, <1>6, FS_Subset
<1>8. f \in Surjection(K, xs)
  BY DEF Surjection
<1>9. IsFiniteSet(xs) /\ Cardinality(xs) <= Cardinality(K)
  BY <1>7, <1>8, FS_Surjection
<1>10. Cardinality(K) \in Nat /\ Cardinality(xs) \in Nat
  BY <1>7, <1>9, FS_CardinalityType
<1>. HIDE DEF xs, K, J
<1>11. n # Cardinality(xs) + 1
  BY <1>3, <1>5, <1>7, <1>9, <1>10
<1>. QED BY <1>11 DEF xs

\* The box and the extras of a quote.
LEMMA BoxOfQuote ==
  ASSUME DiscountsFit, NEW s \in Seq(Goods), Once(s, Len(s)), OneBox(s), NEW c \in Contexts,
         NEW i \in 1..Len(s), s[i].kind = "BOX"
  PROVE  LET q == Quote(s, c)
             xs == {s[k] : k \in 1..Len(s)} \cap ExtraGoods
             off == IF c.asSubscription THEN BoxDiscount(LineTotal(s[i]), c).amount ELSE 0
         IN  /\ Prepaid(q) = LineTotal(s[i]) + Worth(xs) - off
             /\ q.kind = IF c.asSubscription THEN "SUBSCRIPTION" ELSE "BOX_ONE_TIME"
             /\ Len(s) = Cardinality(xs) + 1 => q.subtotal - q.discount = Prepaid(q)
             /\ q.shipping = Shipping(q.subtotal - q.discount, q.kind, c)
<1>. DEFINE n == Len(s)
            q == Quote(s, c)
            kind == OrderKind(s, c.asSubscription)
            off == IF c.asSubscription THEN BoxDiscount(LineTotal(s[i]), c).amount ELSE 0
            xs == {s[k] : k \in 1..n} \cap ExtraGoods
            ext == [k \in 1..n |-> IF s[k] \in ExtraGoods THEN LineTotal(s[k]) ELSE 0]
            own == LineTotal(s[i]) - off
            bx == [k \in 1..n |-> IF k = i THEN own ELSE 0]
            pre == [k \in DOMAIN q.lines |-> IF q.lines[k].kind = "PRODUCT" THEN 0 ELSE Net(q.lines[k])]
            net == [k \in 1..n |-> Net(q.lines[k])]
<1>1. n \in Nat /\ DOMAIN s = 1..n /\ \A k \in 1..n : s[k] \in Goods
  BY LenProperties, ElementOfSeq
<1>2. kind = IF c.asSubscription THEN "SUBSCRIPTION" ELSE "BOX_ONE_TIME"
  BY <1>1 DEF OrderKind
<1>3. Lined(q.lines, n) /\ q = Totals(q.lines, kind, c) /\ q.kind = kind
  BY QuoteIs
<1>4. \A k \in 1..n :
         /\ q.lines[k].kind = s[k].kind
         /\ Net(q.lines[k]) = LineTotal(s[k]) -
              (IF kind = "SUBSCRIPTION" /\ s[k].kind = "BOX" THEN BoxDiscount(LineTotal(s[k]), c).amount ELSE 0)
  BY QuoteIs
<1>5. \A k \in 1..n : LineTotal(s[k]) \in Nat /\ s[k].kind \in Kinds
  BY <1>1, LineTotalNat, GoodIs
<1>6. off \in Nat /\ own \in Int
  <2>1. BoxDiscount(LineTotal(s[i]), c).amount \in Nat
    BY <1>5, ContextIs, BoxDiscountIs
  <2>2. LineTotal(s[i]) \in Nat
    BY <1>5
  <2>. QED BY <2>1, <2>2
<1>. HIDE DEF q, kind
<1>7. ASSUME NEW k \in 1..n, k # i PROVE s[k].kind # "BOX" /\ Net(q.lines[k]) = LineTotal(s[k])
  <2>1. s[k].kind # "BOX"
    BY <1>1, <1>7 DEF OneBox
  <2>2. Net(q.lines[k]) = LineTotal(s[k]) - 0
    BY <1>4, <2>1
  <2>. QED BY <1>5, <2>1, <2>2
<1>8. Net(q.lines[i]) = own
  <2>1. kind = "SUBSCRIPTION" <=> c.asSubscription
    <3>1. c.asSubscription \in BOOLEAN
      BY ContextIs
    <3>. QED BY <1>2, <3>1
  <2>. QED BY <1>4, <2>1
<1>9. \A k \in 1..n : s[k] \in ExtraGoods <=> s[k].kind = "EXTRA"
  BY <1>1 DEF ExtraGoods
<1>10. DOMAIN q.lines = 1..n
  BY <1>3 DEF Lined
<1>. HIDE DEF own, off
<1>11. \A k \in 1..n : pre[k] = ext[k] + bx[k]
  <2>. SUFFICES ASSUME NEW k \in 1..n PROVE pre[k] = ext[k] + bx[k]
    OBVIOUS
  <2>1. pre[k] = IF s[k].kind = "PRODUCT" THEN 0 ELSE Net(q.lines[k])
    BY <1>4, <1>10
  <2>2. ext[k] = IF s[k].kind = "EXTRA" THEN LineTotal(s[k]) ELSE 0
    BY <1>9
  <2>3. bx[k] = IF k = i THEN own ELSE 0
    OBVIOUS
  <2>. HIDE DEF pre, ext, bx
  <2>4. CASE k = i
    <3>1. pre[k] = own /\ ext[k] = 0 /\ bx[k] = own
      BY <1>8, <2>1, <2>2, <2>3, <2>4
    <3>. QED BY <1>6, <3>1
  <2>5. CASE k # i
    <3>1. s[k].kind \in {"EXTRA", "PRODUCT"} /\ Net(q.lines[k]) = LineTotal(s[k]) /\ LineTotal(s[k]) \in Nat
      BY <1>5, <1>7, <2>5 DEF Kinds
    <3>. QED BY <2>1, <2>2, <2>3, <2>5, <3>1
  <2>. QED BY <2>4, <2>5
<1>12. Ints(ext, n) /\ Sum(ext) = Worth(xs)
  BY ZenonT(40), <1>1, SumOfGoods
<1>13. Ints(bx, n) /\ Sum(bx) = own
  <2>1. Ints(bx, n) /\ \A k \in 1..n : k # i => bx[k] = 0
    BY <1>6 DEF Ints
  <2>2. bx[i] = own
    OBVIOUS
  <2>. HIDE DEF bx
  <2>. QED BY <1>1, <2>1, <2>2, SumOne
<1>14. DOMAIN pre = 1..n
  BY <1>10
<1>15. Prepaid(q) = Sum(pre)
  BY DEF Prepaid
<1>16. Worth(xs) \in Nat
  <2>1. xs \in SUBSET Goods
    BY DEF ExtraGoods
  <2>. QED BY <2>1, WorthIs
<1>. HIDE DEF ext, bx, xs
<1>17. Sum(pre) = Sum(ext) + Sum(bx)
  <2>. HIDE DEF pre
  <2>. QED BY <1>1, <1>11, <1>12, <1>13, <1>14, SumPlus
<1>18. Prepaid(q) = LineTotal(s[i]) + Worth(xs) - off
  <2>1. Prepaid(q) = Worth(xs) + own
    BY <1>12, <1>13, <1>15, <1>17
  <2>2. own = LineTotal(s[i]) - off /\ LineTotal(s[i]) \in Nat
    BY <1>5 DEF own
  <2>. QED BY <1>6, <1>16, <2>1, <2>2
<1>19. q.subtotal - q.discount = Sum(net)
       /\ (q.lines # <<>> => q.shipping = Shipping(q.subtotal - q.discount, kind, c))
  <2>1. c.fee \in Nat
    BY ContextIs
  <2>. QED BY <1>1, <1>3, <2>1, TotalsAre
<1>20. ASSUME n = Cardinality(xs) + 1 PROVE q.subtotal - q.discount = Prepaid(q)
  <2>1. \A k \in 1..n : s[k].kind # "PRODUCT"
    BY <1>1, <1>20, OnlyExtras DEF xs
  <2>2. \A k \in 1..n : pre[k] = net[k]
    BY <1>4, <1>10, <2>1
  <2>3. pre = net
    BY <1>14, <2>2
  <2>. QED BY <1>15, <1>19, <2>3
<1>21. q.lines # <<>>
  <2>1. i \in DOMAIN q.lines
    BY <1>10
  <2>. QED BY <2>1
<1>22. q.shipping = Shipping(q.subtotal - q.discount, q.kind, c)
  BY <1>3, <1>19, <1>21
<1>. QED BY <1>2, <1>3, <1>18, <1>20, <1>22 DEF q, kind, xs, off

\* The quotes are those of the basket; a basket holds each good once, and one box.
QuoteIInv ==
  /\ basket \in Seq(Goods) /\ Len(basket) <= MaxLines
  /\ Once(basket, Len(basket)) /\ OneBox(basket)
  /\ ctx \in Contexts /\ coupon \in Coupons \cup {NoCoupon}
  /\ base = Quote(basket, ctx)
  /\ shown = IF coupon = NoCoupon THEN base ELSE WithCoupon(base, coupon, ctx)

LEMMA BasketIs ==
  ASSUME QuoteIInv
  PROVE  Len(basket) \in Nat /\ DOMAIN basket = 1..Len(basket)
BY LenProperties DEF QuoteIInv

\* The lines of both quotes.
LEMMA QuotesAre ==
  ASSUME QuoteIInv, DiscountsFit
  PROVE  LET n == Len(basket)
             w == Wanted(base, coupon, ctx.rounding)
             kind == OrderKind(basket, ctx.asSubscription)
         IN  /\ Lined(base.lines, n) /\ base = Totals(base.lines, kind, ctx)
             /\ Lined(shown.lines, n) /\ shown = Totals(shown.lines, kind, ctx)
             /\ kind \in {"SINGLE", "BOX_ONE_TIME", "SUBSCRIPTION"}
             /\ w \in Nat /\ w <= Capacity(base, coupon.scope)
             /\ Shared(shown, base, coupon.scope, w, n)
<1>. DEFINE n == Len(basket)
            w == Wanted(base, coupon, ctx.rounding)
            kind == OrderKind(basket, ctx.asSubscription)
<1>1. n \in Nat /\ basket \in Seq(Goods) /\ ctx \in Contexts /\ coupon \in Coupons \cup {NoCoupon}
      /\ base = Quote(basket, ctx)
  BY BasketIs DEF QuoteIInv
<1>2. /\ Lined(base.lines, n) /\ base = Totals(base.lines, kind, ctx)
      /\ kind \in {"SINGLE", "BOX_ONE_TIME", "SUBSCRIPTION"}
  BY <1>1, QuoteIs
<1>3. ctx.fee \in Nat
  BY <1>1, ContextIs
<1>4. /\ w \in Nat /\ w <= Capacity(base, coupon.scope)
      /\ coupon = NoCoupon => w = 0
  <2>. DEFINE r == ctx.rounding
  <2>. HIDE DEF n, r
  <2>1. /\ Wanted(base, coupon, r) \in Nat /\ Wanted(base, coupon, r) <= Capacity(base, coupon.scope)
        /\ coupon = NoCoupon => Wanted(base, coupon, r) = 0
    BY <1>1, <1>2, WantedIs
  <2>. QED BY <2>1 DEF r
<1>5. CASE coupon = NoCoupon
  <2>1. shown = base /\ w = 0
    BY <1>4, <1>5 DEF QuoteIInv
  <2>2. \A i \in 1..n : base.lines[i].discount \in Nat
    BY <1>2 DEF Lined, LineOK
  <2>. HIDE DEF w, n, kind
  <2>3. Shared(shown, base, coupon.scope, w, n)
    BY <1>2, <2>1, <2>2 DEF Shared
  <2>. QED BY <1>2, <1>4, <2>1, <2>3 DEF w, n, kind
<1>6. CASE coupon # NoCoupon
  <2>1. shown = WithCoupon(base, coupon, ctx)
    BY <1>6 DEF QuoteIInv
  <2>. HIDE DEF n, kind
  <2>2. n \in Nat /\ coupon \in Coupons \cup {NoCoupon} /\ Lined(base.lines, n)
        /\ ctx.fee \in Nat /\ base = Totals(base.lines, kind, ctx)
    BY <1>1, <1>2, <1>3
  <2>3. /\ Shared(WithCoupon(base, coupon, ctx), base, coupon.scope, Wanted(base, coupon, ctx.rounding), n)
        /\ WithCoupon(base, coupon, ctx) = Totals(WithCoupon(base, coupon, ctx).lines, kind, ctx)
    BY <2>2, WithCouponIs
  <2>4. Shared(shown, base, coupon.scope, w, n) /\ shown = Totals(shown.lines, kind, ctx)
    BY <2>1, <2>3
  <2>. QED BY <1>2, <1>4, <2>4 DEF n, kind, Shared
<1>. QED BY <1>5, <1>6

LEMMA TypesHold ==
  ASSUME QuoteIInv, DiscountsFit
  PROVE  QuoteTypeOK /\ VatAddsUp
<1>. DEFINE n == Len(basket)
            kind == OrderKind(basket, ctx.asSubscription)
<1>1. /\ n \in Nat /\ ctx \in Contexts
      /\ Lined(base.lines, n) /\ base = Totals(base.lines, kind, ctx)
      /\ Lined(shown.lines, n) /\ shown = Totals(shown.lines, kind, ctx)
      /\ kind \in {"SINGLE", "BOX_ONE_TIME", "SUBSCRIPTION"}
  BY BasketIs, QuotesAre DEF QuoteIInv
<1>2. ctx.fee \in Nat
  BY <1>1, ContextIs
<1>. HIDE DEF n, kind
<1>3. ASSUME NEW q \in {base, shown}
      PROVE  /\ q.kind \in {"SINGLE", "BOX_ONE_TIME", "SUBSCRIPTION"}
             /\ {q.subtotal, q.discount, q.shipping, q.vat, q.grand} \subseteq Nat
             /\ LET lines == Sum([i \in DOMAIN q.lines |-> LineVat(q.lines[i])])
                IN  2 * (lines - q.vat) \in (-(Len(q.lines) + 1))..(Len(q.lines) + 1)
  <2>1. Lined(q.lines, n) /\ q = Totals(q.lines, kind, ctx)
    BY <1>1
  <2>. DEFINE ls == q.lines
              t == Totals(ls, kind, ctx)
  <2>. HIDE DEF ls
  <2>2. Lined(ls, n)
    BY <2>1 DEF ls
  <2>3. /\ t.kind = kind /\ t.subtotal \in Nat /\ t.discount \in Nat /\ t.shipping \in Nat
        /\ t.vat \in Nat /\ t.grand \in Nat /\ t.vat = VatTotal(ls)
    <3>1. t.kind = kind /\ t.vat = VatTotal(ls)
      BY DEF Totals
    <3>2. t.subtotal \in Nat /\ t.discount \in Nat /\ t.shipping \in Nat
      BY <1>1, <1>2, <2>2, TotalsAre
    <3>3. t.vat \in Nat /\ t.grand \in Nat
      BY <1>1, <1>2, <2>2, TotalsAre
    <3>. QED BY <3>1, <3>2, <3>3
  <2>4. q = t
    BY <2>1 DEF ls
  <2>5. 2 * (Sum([i \in DOMAIN ls |-> LineVat(ls[i])]) - VatTotal(ls)) \in (-(n + 1))..(n + 1)
    BY <1>1, <2>2, VatClose
  <2>6. Len(ls) = n
    BY <2>2 DEF Lined
  <2>7. q.lines = ls
    BY DEF ls
  <2>. HIDE DEF t
  <2>. QED BY <1>1, <2>3, <2>4, <2>5, <2>6, <2>7
<1>. QED BY <1>3 DEF QuoteTypeOK, VatAddsUp, QuoteIInv

LEMMA PricesKept ==
  ASSUME QuoteIInv, DiscountsFit
  PROVE  LinesKeepTheirPrice
<1>1. /\ Lined(shown.lines, Len(basket))
      /\ Shared(shown, base, coupon.scope, Wanted(base, coupon, ctx.rounding), Len(basket))
  BY QuotesAre
<1>. SUFFICES ASSUME NEW i \in DOMAIN shown.lines
              PROVE  /\ Net(shown.lines[i]) >= 0
                     /\ ~InScope(shown.lines[i], coupon.scope) => shown.lines[i] = base.lines[i]
  BY DEF LinesKeepTheirPrice
<1>2. i \in 1..Len(basket) /\ LineOK(shown.lines[i])
  BY <1>1 DEF Lined
<1>3. Net(shown.lines[i]) \in Nat
  BY <1>2, NetNat
<1>4. /\ shown.lines[i].kind = base.lines[i].kind
      /\ ~InScope(base.lines[i], coupon.scope) => shown.lines[i] = base.lines[i]
  BY <1>1, <1>2 DEF Shared
<1>5. InScope(shown.lines[i], coupon.scope) <=> InScope(base.lines[i], coupon.scope)
  BY <1>4 DEF InScope
<1>. QED BY <1>3, <1>4, <1>5

LEMMA Fair ==
  ASSUME QuoteIInv, DiscountsFit
  PROVE  SharesAreFair
<1>. DEFINE n == Len(basket)
            w == Wanted(base, coupon, ctx.rounding)
            c == Capacity(base, coupon.scope)
            E == Eligible(base, coupon.scope)
            sh == Shares(base, coupon.scope, w)
<1>1. /\ n \in Nat /\ Lined(base.lines, n) /\ w \in Nat /\ w <= c
      /\ Shared(shown, base, coupon.scope, w, n)
  BY BasketIs, QuotesAre
<1>. HIDE DEF n, w
<1>2. c \in Nat /\ (\A i \in E : i \in 1..n /\ Net(base.lines[i]) \in Nat)
  BY <1>1, CapacityIs
<1>3. ASSUME NEW i \in E
      PROVE  LET slack == IF \E j \in E : j > i THEN 1 ELSE Cardinality(E)
             IN  2 * ((shown.lines[i].discount - base.lines[i].discount) * c - w * Net(base.lines[i]))
                   \in (-slack * c)..(slack * c)
  <2>. DEFINE slack == IF Later(E, i) THEN 1 ELSE Cardinality(E)
              d == shown.lines[i].discount - base.lines[i].discount
              net == Net(base.lines[i])
              off == c * sh[i] - w * net
  <2>1. 2 * off <= c * slack /\ 2 * off >= -(c * slack) /\ slack \in Nat
    BY <1>1, SharesFair
  <2>2. i \in 1..n /\ net \in Nat
    BY <1>2
  <2>3. sh[i] \in Int
    <3>1. Ints(sh, n)
      BY <1>1, SharesAre
    <3>. QED BY <2>2, <3>1 DEF Ints
  <2>4. base.lines[i].discount \in Nat
    BY <1>1, <2>2 DEF Lined, LineOK
  <2>5. d * c = (IF w = 0 THEN 0 ELSE c * sh[i])
    <3>1. shown.lines[i].discount = base.lines[i].discount + (IF w = 0 THEN 0 ELSE sh[i])
      BY <1>1, <2>2 DEF Shared
    <3>2. d = IF w = 0 THEN 0 ELSE sh[i]
      BY <2>3, <2>4, <3>1
    <3>. HIDE DEF d, sh, c
    <3>3. 0 * c = 0 /\ sh[i] * c = c * sh[i]
      BY <1>2, <2>3, SMTT(30)
    <3>. QED BY <3>2, <3>3
  <2>. DEFINE cs == c * slack
              own == d * c - w * net
  <2>6. 2 * own <= cs /\ 2 * own >= -cs /\ own \in Int /\ cs \in Int
    <3>. HIDE DEF d, sh, c, net, slack
    <3>1. c * sh[i] \in Int /\ w * net \in Int /\ cs \in Int
      BY <1>1, <1>2, <2>1, <2>2, <2>3, Distribute
    <3>2. CASE w = 0
      <4>1. w * net = 0
        BY <2>2, <3>2, SMTT(30)
      <4>2. own = 0
        BY <2>5, <3>2, <4>1
      <4>3. cs >= 0
        <5>1. CASE c = 0
          <6>1. 0 * slack = 0
            BY <2>1, SMTT(30)
          <6>. QED BY <5>1, <6>1
        <5>2. CASE c > 0
          BY <1>2, <2>1, <5>2, ProductBounds
        <5>. QED BY <1>2, <5>1, <5>2
      <4>. HIDE DEF own, cs
      <4>. QED BY <3>1, <4>2, <4>3
    <3>3. CASE w # 0
      <4>1. own = off
        BY <2>5, <3>3
      <4>2. off \in Int
        BY <3>1
      <4>3. 2 * off <= cs /\ 2 * off >= -cs
        BY <2>1
      <4>. HIDE DEF own, off, cs
      <4>. QED BY <3>1, <4>1, <4>2, <4>3
    <3>. QED BY <3>2, <3>3
  <2>7. slack * c = cs /\ -slack * c = -cs
    <3>. HIDE DEF slack, c
    <3>. QED BY <1>2, <2>1, SMTT(30)
  <2>. HIDE DEF own, cs
  <2>8. 2 * own \in (-cs)..cs
    BY <2>6
  <2>9. 2 * own \in (-slack * c)..(slack * c)
    BY <2>7, <2>8
  <2>. QED BY <2>9 DEF own, Later
<1>. QED BY <1>3 DEF SharesAreFair, w

LEMMA BasketSet ==
  ASSUME QuoteIInv
  PROVE  ToSet(basket) = {basket[k] : k \in 1..Len(basket)}
BY BasketIs DEF ToSet

LEMMA ShippingSame ==
  ASSUME NEW c \in Contexts, NEW after
  PROVE  /\ Shipping(after, "SUBSCRIPTION", c) = 0
         /\ \A b \in BOOLEAN : Shipping(after, "SUBSCRIPTION", [c EXCEPT !.live = b]) = 0
         /\ \A b \in BOOLEAN, k \in {"BOX_ONE_TIME", "SUBSCRIPTION"} :
               Shipping(after, k, [c EXCEPT !.live = b]) \in Nat
         /\ ~c.live => Shipping(after, "BOX_ONE_TIME", [c EXCEPT !.live = FALSE]) =
                       Shipping(after, "BOX_ONE_TIME", c)
<1>1. Shipping(after, "SUBSCRIPTION", c) = 0
      /\ \A b \in BOOLEAN : Shipping(after, "SUBSCRIPTION", [c EXCEPT !.live = b]) = 0
  BY DEF Shipping
<1>2. c \in [asSubscription : BOOLEAN, live : BOOLEAN, left : Nat, retention : Nat,
             pct : Nat, rounding : {"kurus", "tl"}, rule : {"gt", "gte"},
             subscriberFree : BOOLEAN, fee : Nat, threshold : Nat \cup {NoThreshold}]
  BY ContextsAssumption
<1>3. ASSUME NEW b \in BOOLEAN, NEW k \in {"BOX_ONE_TIME", "SUBSCRIPTION"}
      PROVE  Shipping(after, k, [c EXCEPT !.live = b]) \in Nat
  <2>1. [c EXCEPT !.live = b].fee = c.fee /\ c.fee \in Nat
    BY <1>2
  <2>. QED BY <2>1, ShippingNat
<1>4. ASSUME ~c.live PROVE [c EXCEPT !.live = FALSE] = c
  <2>1. c.live = FALSE
    BY <1>2, <1>4
  <2>. QED BY <1>2, <2>1
<1>. QED BY <1>1, <1>3, <1>4

LEMMA Agree ==
  ASSUME QuoteIInv, DiscountsFit
  PROVE  CheckoutAndEngineAgree
<1>. DEFINE xs == ToSet(basket) \cap ExtraGoods
<1>. SUFFICES ASSUME NEW i \in DOMAIN basket, basket[i].kind = "BOX"
              PROVE  LET q == CycleCharge(LineTotal(basket[i]), SetToSeq(xs), ~ctx.asSubscription, 0, ctx)
                     IN  /\ Prepaid(base) = q.total - q.shipping
                         /\ (base.kind = "SUBSCRIPTION" \/ (~ctx.live /\ Len(basket) = Cardinality(xs) + 1))
                               => base.shipping = q.shipping
  BY DEF CheckoutAndEngineAgree
<1>. DEFINE box == LineTotal(basket[i])
            one == ~ctx.asSubscription
            off == IF ctx.asSubscription THEN BoxDiscount(box, ctx).amount ELSE 0
            q == CycleCharge(box, SetToSeq(xs), one, 0, ctx)
            after == box + Worth(xs) - off
            kind == IF ctx.asSubscription THEN "SUBSCRIPTION" ELSE "BOX_ONE_TIME"
<1>1. /\ Len(basket) \in Nat /\ i \in 1..Len(basket) /\ basket \in Seq(Goods) /\ ctx \in Contexts
      /\ Once(basket, Len(basket)) /\ OneBox(basket) /\ base = Quote(basket, ctx)
      /\ xs = {basket[k] : k \in 1..Len(basket)} \cap ExtraGoods
  BY BasketIs, BasketSet DEF QuoteIInv
<1>2. /\ Prepaid(base) = after
      /\ base.kind = kind
      /\ Len(basket) = Cardinality(xs) + 1 => base.subtotal - base.discount = Prepaid(base)
      /\ base.shipping = Shipping(base.subtotal - base.discount, base.kind, ctx)
  BY <1>1, BoxOfQuote
<1>3. ctx.asSubscription \in BOOLEAN /\ ctx.left \in Nat /\ ctx.retention \in Nat /\ ctx.pct \in Nat
  BY <1>1, ContextIs
<1>4. box \in Nat
  <2>1. basket[i] \in Goods
    BY <1>1 DEF Once
  <2>. QED BY <2>1, LineTotalNat
<1>5. off \in Nat
  BY <1>3, <1>4, BoxDiscountIs
<1>6. Worth(xs) \in Nat /\ xs \in SUBSET ExtraGoods
  <2>1. xs \in SUBSET ExtraGoods
    OBVIOUS
  <2>2. xs \in SUBSET Goods
    BY <2>1 DEF ExtraGoods
  <2>. QED BY <2>1, <2>2, WorthIs
<1>. HIDE DEF xs, box
<1>7. /\ q.shipping = Shipping(after, kind, [ctx EXCEPT !.live = ~one])
      /\ q.total = after + q.shipping
  <2>. DEFINE discount == IF one THEN [amount |-> 0, kind |-> "none"] ELSE BoxDiscount(box, ctx)
              a == box + Worth(xs) - discount.amount
  <2>1. /\ q.shipping = Shipping(a, IF one THEN "BOX_ONE_TIME" ELSE "SUBSCRIPTION",
                                 [ctx EXCEPT !.live = ~one])
        /\ q.total = a + q.shipping
    <3>. HIDE DEF one
    <3>. QED BY <1>6, ChargeIs
  <2>2. discount.amount = off
    BY <1>3
  <2>. QED BY <1>3, <2>1, <2>2
<1>. HIDE DEF q
<1>8. after \in Int
  BY <1>4, <1>5, <1>6
<1>. HIDE DEF off, after
<1>9. q.shipping \in Nat
  BY <1>1, <1>3, <1>7, ShippingSame
<1>10. Prepaid(base) = q.total - q.shipping
  BY <1>2, <1>7, <1>8, <1>9
<1>11. CASE ctx.asSubscription
  <2>1. base.kind = "SUBSCRIPTION" /\ kind = "SUBSCRIPTION" /\ (~one) \in BOOLEAN
    BY <1>2, <1>3, <1>11
  <2>2. base.shipping = 0
    BY <1>1, <1>2, <2>1, ShippingSame
  <2>3. q.shipping = 0
    BY <1>1, <1>7, <2>1, ShippingSame
  <2>. QED BY <1>10, <2>2, <2>3 DEF q, box
<1>12. CASE ~ctx.asSubscription
  <2>1. base.kind = "BOX_ONE_TIME" /\ kind = "BOX_ONE_TIME" /\ (~one) = FALSE
    BY <1>2, <1>3, <1>12
  <2>2. ASSUME ~ctx.live, Len(basket) = Cardinality(xs) + 1 PROVE base.shipping = q.shipping
    <3>1. base.shipping = Shipping(after, "BOX_ONE_TIME", ctx)
      BY <1>2, <2>1, <2>2
    <3>2. q.shipping = Shipping(after, "BOX_ONE_TIME", [ctx EXCEPT !.live = FALSE])
      BY <1>7, <2>1
    <3>. QED BY <1>1, <2>2, <3>1, <3>2, ShippingSame
  <2>. QED BY <1>10, <2>1, <2>2 DEF q, box
<1>. QED BY <1>11, <1>12

LEMMA QuotesAddUp ==
  ASSUME QuoteIInv, DiscountsFit
  PROVE  QuoteAddsUp
BY TypesHold, PricesKept, Fair, Agree DEF QuoteAddsUp
-----------------------------------------------------------------------------
\* Taking a line out leaves the others, in their order.
LEMMA Without ==
  ASSUME NEW s \in Seq(Goods), NEW i \in 1..Len(s)
  PROVE  LET t == RemoveAt(s, i)
         IN  /\ t \in Seq(Goods) /\ Len(t) = Len(s) - 1
             /\ \A j \in 1..Len(t) : t[j] = s[IF j < i THEN j ELSE j + 1]
<1>. DEFINE n == Len(s)
            a == SubSeq(s, 1, i - 1)
            b == SubSeq(s, i + 1, n)
<1>1. n \in Nat /\ i \in Nat /\ i >= 1 /\ i <= n /\ \A k \in 1..n : s[k] \in Goods
  BY LenProperties, ElementOfSeq
<1>. HIDE DEF n
<1>2. a \in Seq(Goods) /\ Len(a) = i - 1 /\ \A k \in 1..(i - 1) : a[k] = s[k]
  <2>1. \A k \in 1..(i - 1) : s[k] \in Goods
    BY <1>1
  <2>2. /\ a \in Seq(Goods) /\ Len(a) = IF 1 <= i - 1 THEN (i - 1) - 1 + 1 ELSE 0
        /\ \A k \in 1..((i - 1) - 1 + 1) : a[k] = s[1 + k - 1]
    BY <1>1, <2>1, SubSeqProperties
  <2>. QED BY <1>1, <2>2
<1>3. b \in Seq(Goods) /\ Len(b) = n - i /\ \A k \in 1..(n - i) : b[k] = s[i + k]
  <2>1. \A k \in (i + 1)..n : s[k] \in Goods
    BY <1>1
  <2>2. /\ b \in Seq(Goods) /\ Len(b) = IF i + 1 <= n THEN n - (i + 1) + 1 ELSE 0
        /\ \A k \in 1..(n - (i + 1) + 1) : b[k] = s[(i + 1) + k - 1]
    BY <1>1, <2>1, SubSeqProperties
  <2>. QED BY <1>1, <2>2
<1>4. RemoveAt(s, i) = a \o b
  BY DEF RemoveAt, n
<1>. HIDE DEF a, b
<1>5. /\ a \o b \in Seq(Goods) /\ Len(a \o b) = Len(a) + Len(b)
      /\ \A k \in 1..(Len(a) + Len(b)) : (a \o b)[k] = IF k <= Len(a) THEN a[k] ELSE b[k - Len(a)]
  BY <1>2, <1>3, ConcatProperties
<1>6. Len(a \o b) = n - 1
  BY <1>1, <1>2, <1>3, <1>5
<1>7. ASSUME NEW j \in 1..(n - 1) PROVE (a \o b)[j] = s[IF j < i THEN j ELSE j + 1]
  <2>1. (a \o b)[j] = IF j <= i - 1 THEN a[j] ELSE b[j - (i - 1)]
    BY SMTT(30), <1>1, <1>2, <1>3, <1>5
  <2>2. CASE j < i
    <3>1. j \in 1..(i - 1)
      BY <1>1, <2>2
    <3>. QED BY <1>1, <1>2, <2>1, <2>2, <3>1
  <2>3. CASE ~(j < i)
    <3>1. j - (i - 1) \in 1..(n - i) /\ i + (j - (i - 1)) = j + 1
      BY <1>1, <2>3
    <3>2. b[j - (i - 1)] = s[i + (j - (i - 1))]
      BY <1>3, <3>1
    <3>. QED BY <1>1, <2>1, <2>3, <3>1, <3>2
  <2>. QED BY <2>2, <2>3
<1>. QED BY <1>4, <1>5, <1>6, <1>7 DEF n

BasketOK(b) == b \in Seq(Goods) /\ Len(b) <= MaxLines /\ Once(b, Len(b)) /\ OneBox(b)

LEMMA EmptyBasket == BasketOK(<<>>)
<1>1. <<>> \in Seq(Goods) /\ Len(<<>>) = 0
  BY EmptySeq
<1>2. DOMAIN <<>> = 1..0 /\ 1..0 = {}
  OBVIOUS
<1>. QED BY <1>1, <1>2, GoodsAssumption DEF BasketOK, Once, OneBox

LEMMA MoreInBasket ==
  ASSUME NEW b, BasketOK(b), NEW good \in Goods, Len(b) < MaxLines, good \notin ToSet(b),
         good.kind = "BOX" => \A i \in DOMAIN b : b[i].kind # "BOX"
  PROVE  BasketOK(Append(b, good))
<1>. DEFINE t == Append(b, good)
            n == Len(b)
<1>1. b \in Seq(Goods) /\ n \in Nat /\ DOMAIN b = 1..n /\ Once(b, n) /\ OneBox(b) /\ MaxLines \in Nat
  BY LenProperties, GoodsAssumption DEF BasketOK
<1>2. t \in Seq(Goods) /\ Len(t) = n + 1 /\ (\A i \in 1..n : t[i] = b[i]) /\ t[n + 1] = good
  BY <1>1, AppendProperties
<1>3. DOMAIN t = 1..(n + 1)
  BY <1>2, LenProperties
<1>4. \A i \in 1..n : b[i] # good
  BY <1>1 DEF ToSet
<1>. HIDE DEF t, n
<1>5. \A i \in 1..(n + 1) : t[i] \in Goods
  BY <1>1, <1>2 DEF Once
<1>6. ASSUME NEW i \in 1..(n + 1), NEW j \in 1..(n + 1), t[i] = t[j] PROVE i = j
  <2>1. (i \in 1..n \/ i = n + 1) /\ (j \in 1..n \/ j = n + 1)
    BY <1>1
  <2>2. CASE i \in 1..n /\ j \in 1..n
    BY <1>1, <1>2, <1>6, <2>2 DEF Once
  <2>3. CASE i \in 1..n /\ j = n + 1
    BY <1>2, <1>4, <1>6, <2>3
  <2>4. CASE i = n + 1 /\ j \in 1..n
    BY <1>2, <1>4, <1>6, <2>4
  <2>. QED BY <2>1, <2>2, <2>3, <2>4
<1>7. ASSUME NEW i \in 1..(n + 1), NEW j \in 1..(n + 1), t[i].kind = "BOX", t[j].kind = "BOX" PROVE i = j
  <2>1. (i \in 1..n \/ i = n + 1) /\ (j \in 1..n \/ j = n + 1)
    BY <1>1
  <2>2. CASE i \in 1..n /\ j \in 1..n
    <3>1. i \in DOMAIN b /\ j \in DOMAIN b /\ b[i].kind = "BOX" /\ b[j].kind = "BOX"
      BY <1>1, <1>2, <1>7, <2>2
    <3>. QED BY <1>1, <3>1 DEF OneBox
  <2>3. CASE i \in 1..n /\ j = n + 1
    BY <1>1, <1>2, <1>7, <2>3
  <2>4. CASE i = n + 1 /\ j \in 1..n
    BY <1>1, <1>2, <1>7, <2>4
  <2>. QED BY <2>1, <2>2, <2>3, <2>4
<1>8. Once(t, Len(t))
  BY <1>2, <1>3, <1>5, <1>6 DEF Once
<1>9. OneBox(t)
  BY <1>3, <1>7 DEF OneBox
<1>10. Len(t) <= MaxLines
  BY <1>1, <1>2 DEF n
<1>. QED BY <1>2, <1>8, <1>9, <1>10 DEF BasketOK, t

LEMMA LessInBasket ==
  ASSUME NEW b, BasketOK(b), NEW i \in DOMAIN b
  PROVE  BasketOK(RemoveAt(b, i))
<1>. DEFINE t == RemoveAt(b, i)
            n == Len(b)
            At(j) == IF j < i THEN j ELSE j + 1
<1>1. b \in Seq(Goods) /\ n \in Nat /\ DOMAIN b = 1..n /\ Once(b, n) /\ OneBox(b) /\ MaxLines \in Nat
      /\ n <= MaxLines /\ i \in 1..n
  BY LenProperties, GoodsAssumption DEF BasketOK
<1>2. t \in Seq(Goods) /\ Len(t) = n - 1 /\ (\A j \in 1..Len(t) : t[j] = b[At(j)])
  BY <1>1, Without
<1>3. DOMAIN t = 1..(n - 1)
  BY <1>2, LenProperties
<1>. HIDE DEF t, n
<1>4. ASSUME NEW j \in 1..(n - 1) PROVE At(j) \in 1..n /\ t[j] = b[At(j)] /\ t[j] \in Goods
  <2>1. At(j) \in 1..n
    BY <1>1
  <2>. QED BY <1>1, <1>2, <2>1 DEF Once
<1>5. ASSUME NEW j \in 1..(n - 1), NEW k \in 1..(n - 1), At(j) = At(k) PROVE j = k
  BY <1>1, <1>5
<1>6. ASSUME NEW j \in 1..(n - 1), NEW k \in 1..(n - 1), t[j] = t[k] PROVE j = k
  <2>1. At(j) = At(k)
    BY <1>1, <1>4, <1>6 DEF Once
  <2>. QED BY <1>5, <2>1
<1>7. ASSUME NEW j \in 1..(n - 1), NEW k \in 1..(n - 1), t[j].kind = "BOX", t[k].kind = "BOX" PROVE j = k
  <2>1. At(j) = At(k)
    BY <1>1, <1>4, <1>7 DEF OneBox
  <2>. QED BY <1>5, <2>1
<1>8. Once(t, Len(t))
  BY <1>2, <1>3, <1>4, <1>6 DEF Once
<1>9. OneBox(t)
  BY <1>3, <1>7 DEF OneBox
<1>10. Len(t) <= MaxLines
  BY <1>1, <1>2
<1>. QED BY <1>2, <1>8, <1>9, <1>10 DEF BasketOK, t

LEMMA QuoteStart == QuoteInit => QuoteIInv
<1>. SUFFICES ASSUME QuoteInit PROVE QuoteIInv
  OBVIOUS
<1>1. BasketOK(basket)
  BY EmptyBasket DEF QuoteInit
<1>. QED BY <1>1 DEF QuoteInit, QuoteIInv, BasketOK

LEMMA Repriced ==
  ASSUME BasketOK(basket'), ctx' \in Contexts, coupon' \in Coupons \cup {NoCoupon}, Reprice
  PROVE  QuoteIInv'
BY DEF QuoteIInv, BasketOK, Reprice

LEMMA QuoteStep == QuoteIInv /\ QuoteNext => QuoteIInv'
<1>. SUFFICES ASSUME QuoteIInv, QuoteNext PROVE QuoteIInv'
  OBVIOUS
<1>1. BasketOK(basket) /\ ctx \in Contexts /\ coupon \in Coupons \cup {NoCoupon}
  BY DEF QuoteIInv, BasketOK
<1>2. ASSUME NEW good \in Goods, AddLine(good) PROVE QuoteIInv'
  <2>1. BasketOK(Append(basket, good))
    BY <1>1, <1>2, MoreInBasket DEF AddLine
  <2>2. basket' = Append(basket, good) /\ ctx' = ctx /\ coupon' = coupon /\ Reprice
    BY <1>2 DEF AddLine
  <2>. QED BY <1>1, <2>1, <2>2, Repriced
<1>3. ASSUME NEW i \in DOMAIN basket, DropLine(i) PROVE QuoteIInv'
  <2>1. BasketOK(RemoveAt(basket, i))
    BY <1>1, LessInBasket
  <2>2. basket' = RemoveAt(basket, i) /\ ctx' = ctx /\ coupon' = coupon /\ Reprice
    BY <1>3 DEF DropLine
  <2>. QED BY <1>1, <2>1, <2>2, Repriced
<1>4. ASSUME NEW c \in Coupons \cup {NoCoupon}, EnterCoupon(c) PROVE QuoteIInv'
  <2>1. basket' = basket /\ ctx' = ctx /\ coupon' = c /\ Reprice
    BY <1>4 DEF EnterCoupon
  <2>. QED BY <1>1, <2>1, Repriced
<1>5. ASSUME NEW c \in Contexts, ChangeContext(c) PROVE QuoteIInv'
  <2>1. basket' = basket /\ ctx' = c /\ coupon' = coupon /\ Reprice
    BY <1>5 DEF ChangeContext
  <2>. QED BY <1>1, <2>1, Repriced
<1>. QED BY <1>2, <1>3, <1>4, <1>5 DEF QuoteNext

DiscountKinds == {"FIRST_BOXES", "RETENTION", "none"}
BillSet == [status : {"none", "SCHEDULED", "LOCKED", "CHARGED", "SKIPPED"}, extras : SUBSET ExtraGoods,
            prepaid : Nat, extrasTotal : Nat, total : Nat, due : Int, kind : DiscountKinds]
SubSet == [status : {"none", "PENDING", "ACTIVE"}, left : 0..Boxes, retention : {0, RetentionPct},
           offered : BOOLEAN]

BillsTyped ==
  /\ tierPrice \in TierPrices /\ pct \in {0, Pct} /\ sub \in SubSet /\ bill \in [Numbers -> BillSet]
  /\ paid \in [box : TierPrices \cup {0}, extras : SUBSET ExtraGoods]

\* Before the activation nothing is locked and no right is spent.
Early ==
  sub.status # "ACTIVE" =>
    /\ pct = Pct /\ sub.retention = 0 /\ ~sub.offered
    /\ \A n \in Numbers : bill[n].status \in {"none", "SCHEDULED"}
    /\ sub.left = IF sub.status = "PENDING" THEN Boxes ELSE 0
    /\ sub.status = "PENDING" => bill[1].status = "SCHEDULED"

\* The boxes are billed in their order.
InOrder ==
  \A n \in Numbers : bill[n].status \in {"LOCKED", "CHARGED", "SKIPPED"} =>
    \A m \in 1..(n - 1) : bill[m].status \in {"CHARGED", "SKIPPED"}

\* What was prepaid is the first box at the price and the rights of its checkout.
FirstPaid ==
  /\ bill[1].kind # "RETENTION" /\ bill[1].status # "SKIPPED"
  /\ bill[1].status = "LOCKED" => bill[1].extrasTotal <= bill[1].total
  /\ sub.status # "none" /\ bill[1].status = "SCHEDULED" =>
       /\ bill[1].prepaid = paid.box + Worth(paid.extras)
                              - (IF Boxes > 0 THEN PercentOf(paid.box, Pct, ctx.rounding) ELSE 0)
       /\ sub.status = "ACTIVE" => sub.left = IF Boxes > 0 THEN Boxes - 1 ELSE 0

\* The right of a box's discount is still there.
HasRight(b) == /\ b.kind = "FIRST_BOXES" => sub.left > 0
               /\ b.kind = "RETENTION" => sub.retention # 0 /\ (pct = Pct => sub.left = 0)

\* A box at its collection still has the right its discount comes from.
LockedKeepsRight == \A n \in Numbers : n > 1 /\ bill[n].status = "LOCKED" => HasRight(bill[n])

\* The rights, spent and left.
Counted ==
  sub.status = "ACTIVE" =>
    /\ Boxes > 0 => sub.left + Cardinality(Discounted("FIRST_BOXES") \cup {1}) <= Boxes
    /\ Boxes > 0 /\ pct = Pct => sub.left + Cardinality(Discounted("FIRST_BOXES") \cup {1}) = Boxes
    /\ ~sub.offered => sub.retention = 0 /\ Discounted("RETENTION") = {}
    /\ pct = Pct => /\ sub.offered => (sub.retention = 0 <=> Discounted("RETENTION") # {})
                    /\ Cardinality(Discounted("RETENTION")) <= 1

BillsIInv == BillsTyped /\ Early /\ InOrder /\ FirstPaid /\ LockedKeepsRight /\ Counted

Spent(bs, kind) == {n \in Numbers : bs[n].status = "CHARGED" /\ bs[n].kind = kind}

LEMMA SettingsAre ==
  /\ Boxes \in Nat /\ Pct \in Nat \ {0} /\ RetentionPct \in Nat \ {0} /\ TierPrices \subseteq Nat
  /\ LastBox \in Nat /\ 1 \in Numbers /\ Numbers \subseteq Nat
BY BoxBillsAssumption DEF Numbers

LEMMA CardIs ==
  ASSUME NEW S \in SUBSET Numbers
  PROVE  /\ IsFiniteSet(S) /\ Cardinality(S) \in Nat
         /\ \A n \in Numbers \ S : Cardinality(S \cup {n}) = Cardinality(S) + 1
<1>1. IsFiniteSet(Numbers)
  BY SettingsAre, FS_Interval DEF Numbers
<1>2. IsFiniteSet(S)
  BY <1>1, FS_Subset
<1>. QED BY <1>2, FS_AddElement, FS_CardinalityType

\* What a right is worth on a box of today's price.
LEMMA RightIs ==
  ASSUME PricesFit, ctx \in Contexts, pct \in {0, Pct}, NEW p \in TierPrices,
         NEW l \in 0..Boxes, NEW r \in {0, RetentionPct}
  PROVE  LET d == BoxDiscount(p, Ctx(l, r))
         IN  /\ d.amount \in Nat /\ d.amount <= p /\ d.kind \in DiscountKinds
             /\ l > 0 /\ pct = Pct => /\ d.kind = "FIRST_BOXES"
                                      /\ d.amount = PercentOf(p, Pct, ctx.rounding)
             /\ d.kind = "FIRST_BOXES" => l > 0
             /\ d.kind = "RETENTION" => r # 0 /\ (pct = Pct => l = 0)
             /\ l = 0 /\ r = 0 => d.amount = 0
<1>. DEFINE c == Ctx(l, r)
            round == ctx.rounding
            first == IF l > 0 THEN PercentOf(p, pct, round) ELSE 0
            kept == PercentOf(p, r, round)
<1>1. p \in Nat /\ Boxes \in Nat /\ Pct \in Nat \ {0} /\ RetentionPct \in Nat \ {0} /\ l \in Nat
  BY SettingsAre
<1>2. ctx.rounding \in {"kurus", "tl"}
  BY ContextIs
<1>3. c.left = l /\ c.retention = r /\ c.pct = pct /\ c.rounding = round
  <2>1. ctx \in [asSubscription : BOOLEAN, live : BOOLEAN, left : Nat, retention : Nat,
             pct : Nat, rounding : {"kurus", "tl"}, rule : {"gt", "gte"},
             subscriberFree : BOOLEAN, fee : Nat, threshold : Nat \cup {NoThreshold}]
    BY ContextsAssumption
  <2>. QED BY <2>1 DEF Ctx
<1>4. /\ PercentOf(p, Pct, round) \in 1..p
      /\ PercentOf(p, RetentionPct, round) \in Nat /\ PercentOf(p, RetentionPct, round) <= p
      /\ PercentOf(p, 0, round) = 0
  BY <1>1, <1>2, PercentNat DEF PricesFit
<1>. HIDE DEF c
<1>5. BoxDiscount(p, c) = CASE first > 0              -> [amount |-> first, kind |-> "FIRST_BOXES"]
                            [] first = 0 /\ kept > 0  -> [amount |-> kept, kind |-> "RETENTION"]
                            [] first = 0 /\ kept = 0  -> [amount |-> 0, kind |-> "none"]
  BY <1>3 DEF BoxDiscount
<1>6. /\ first \in Nat /\ first <= p /\ kept \in Nat /\ kept <= p
      /\ l > 0 /\ pct = Pct => first > 0 /\ first = PercentOf(p, Pct, round)
      /\ first > 0 => l > 0
      /\ kept > 0 => r # 0
  BY <1>1, <1>4
<1>. HIDE DEF first, kept, round
<1>. DEFINE d == BoxDiscount(p, c)
<1>7. CASE first > 0
  <2>1. d = [amount |-> first, kind |-> "FIRST_BOXES"]
    BY <1>5, <1>7
  <2>. HIDE DEF d
  <2>. QED BY <1>1, <1>6, <1>7, <2>1 DEF c, d, DiscountKinds, round
<1>8. CASE first = 0 /\ kept > 0
  <2>1. d = [amount |-> kept, kind |-> "RETENTION"]
    BY <1>5, <1>8
  <2>. HIDE DEF d
  <2>. QED BY <1>1, <1>6, <1>8, <2>1 DEF c, d, DiscountKinds
<1>9. CASE first = 0 /\ kept = 0
  <2>1. d = [amount |-> 0, kind |-> "none"]
    BY <1>5, <1>9
  <2>. HIDE DEF d
  <2>. QED BY <1>1, <1>6, <1>9, <2>1 DEF c, d, DiscountKinds
<1>. QED BY <1>6, <1>7, <1>8, <1>9

\* The bill of a box at its lock.
LEMMA LockedBill ==
  ASSUME PricesFit, ctx \in Contexts, BillsTyped, NEW n \in Numbers
  PROVE  LET q == CycleCharge(tierPrice, SetToSeq(bill[n].extras), FALSE, bill[n].prepaid,
                              Ctx(sub.left, sub.retention))
             d == BoxDiscount(tierPrice, Ctx(sub.left, sub.retention))
         IN  /\ q.extras = Worth(bill[n].extras) /\ q.extras \in Nat /\ q.discountKind = d.kind
             /\ q.total = tierPrice + q.extras - d.amount /\ q.total \in Nat /\ q.extras <= q.total
             /\ q.due = q.total - bill[n].prepaid /\ q.due \in Int
<1>. DEFINE c == Ctx(sub.left, sub.retention)
            d == BoxDiscount(tierPrice, c)
            xs == bill[n].extras
            pre == bill[n].prepaid
            q == CycleCharge(tierPrice, SetToSeq(xs), FALSE, pre, c)
            after == tierPrice + Worth(xs) - d.amount
<1>1. /\ tierPrice \in TierPrices /\ tierPrice \in Nat /\ pct \in {0, Pct} /\ sub.left \in 0..Boxes
      /\ sub.retention \in {0, RetentionPct} /\ xs \in SUBSET ExtraGoods /\ pre \in Nat
  BY SettingsAre DEF BillsTyped, SubSet, BillSet
<1>2. d.amount \in Nat /\ d.amount <= tierPrice
  BY <1>1, RightIs
<1>3. Worth(xs) \in Nat
  <2>1. xs \in SUBSET Goods
    BY <1>1 DEF ExtraGoods
  <2>. QED BY <2>1, WorthIs
<1>. HIDE DEF c, xs, pre
<1>4. /\ q.extras = Worth(xs) /\ q.discountKind = d.kind
      /\ q.shipping = Shipping(after, "SUBSCRIPTION", [c EXCEPT !.live = TRUE])
      /\ q.total = after + q.shipping /\ q.due = after + q.shipping - pre
  <2>. DEFINE one == FALSE
              discount == IF one THEN [amount |-> 0, kind |-> "none"] ELSE BoxDiscount(tierPrice, c)
              a == tierPrice + Worth(xs) - discount.amount
  <2>1. /\ q.extras = Worth(xs) /\ q.discountKind = discount.kind
        /\ q.shipping = Shipping(a, IF one THEN "BOX_ONE_TIME" ELSE "SUBSCRIPTION",
                                 [c EXCEPT !.live = ~one])
        /\ q.total = a + q.shipping /\ q.due = a + q.shipping - pre
    <3>1. q = CycleCharge(tierPrice, SetToSeq(xs), one, pre, c)
      OBVIOUS
    <3>. HIDE DEF one, q
    <3>. QED BY <1>1, <3>1, ChargeIs
  <2>2. discount = d
    OBVIOUS
  <2>. QED BY <2>1, <2>2
<1>5. q.shipping = 0
  BY <1>4 DEF Shipping
<1>. HIDE DEF q, d
<1>6. /\ q.extras = Worth(xs) /\ q.extras \in Nat /\ q.discountKind = d.kind
      /\ q.total = tierPrice + q.extras - d.amount /\ q.total \in Nat /\ q.extras <= q.total
      /\ q.due = q.total - pre /\ q.due \in Int
  BY <1>1, <1>2, <1>3, <1>4, <1>5
<1>. QED BY ONLY <1>6 DEF q, d, c, xs, pre

\* One bill changed.
LEMMA BillChanged ==
  ASSUME BillsTyped, NEW n \in Numbers, NEW b \in BillSet, bill' = [bill EXCEPT ![n] = b]
  PROVE  /\ bill' \in [Numbers -> BillSet]
         /\ \A m \in Numbers : bill'[m] = IF m = n THEN b ELSE bill[m]
BY DEF BillsTyped

LEMMA SpentIn ==
  ASSUME NEW kind
  PROVE  /\ Discounted(kind) = Spent(bill, kind) /\ Discounted(kind)' = Spent(bill', kind)
         /\ Spent(bill, kind) \in SUBSET Numbers
BY DEF Discounted, Spent

\* A box that is paid spends the right of its discount, and no other.
LEMMA RightGone ==
  ASSUME BillsTyped, Counted, sub.status = "ACTIVE", pct' = pct,
         NEW n \in Numbers, NEW b \in BillSet, bill' = [bill EXCEPT ![n] = b],
         bill[n].status # "CHARGED", b.status = "CHARGED",
         n = 1 => b.kind # "RETENTION", n > 1 => HasRight(b), sub' = RightsSpent(n, b)
  PROVE  Counted' /\ sub' \in SubSet /\ sub'.status = "ACTIVE"
<1>. DEFINE F == Spent(bill, "FIRST_BOXES")
            R == Spent(bill, "RETENTION")
            F1 == Spent(bill', "FIRST_BOXES")
            R1 == Spent(bill', "RETENTION")
<1>1. /\ Boxes \in Nat /\ Pct \in Nat \ {0} /\ RetentionPct \in Nat \ {0} /\ 1 \in Numbers /\ n \in Nat /\ n >= 1
      /\ sub \in SubSet /\ pct \in {0, Pct} /\ b.kind \in DiscountKinds
  BY SettingsAre DEF BillsTyped, BillSet, Numbers
<1>2. \A m \in Numbers : bill'[m] = IF m = n THEN b ELSE bill[m]
  BY BillChanged
<1>3. /\ F1 = IF b.kind = "FIRST_BOXES" THEN F \cup {n} ELSE F
      /\ R1 = IF b.kind = "RETENTION" THEN R \cup {n} ELSE R
      /\ n \notin F /\ n \notin R
  BY <1>2 DEF Spent
<1>4. F \in SUBSET Numbers /\ R \in SUBSET Numbers
  BY DEF Spent
<1>. HIDE DEF F, R, F1, R1
<1>5. /\ Boxes > 0 => sub.left + Cardinality(F \cup {1}) <= Boxes
      /\ Boxes > 0 /\ pct = Pct => sub.left + Cardinality(F \cup {1}) = Boxes
      /\ ~sub.offered => sub.retention = 0 /\ R = {}
      /\ pct = Pct => /\ sub.offered => (sub.retention = 0 <=> R # {})
                      /\ Cardinality(R) <= 1
  BY SpentIn DEF Counted, F, R
<1>. DEFINE Fine(s, f, r) ==
              /\ Boxes > 0 => s.left + Cardinality(f \cup {1}) <= Boxes
              /\ Boxes > 0 /\ pct = Pct => s.left + Cardinality(f \cup {1}) = Boxes
              /\ ~s.offered => s.retention = 0 /\ r = {}
              /\ pct = Pct => /\ s.offered => (s.retention = 0 <=> r # {})
                              /\ Cardinality(r) <= 1
<1>6. SUFFICES Fine(sub', F1, R1) /\ sub' \in SubSet /\ sub'.status = "ACTIVE"
  BY SpentIn DEF Counted, F1, R1
<1>7. /\ sub.left \in 0..Boxes /\ sub.retention \in {0, RetentionPct} /\ sub.offered \in BOOLEAN
      /\ sub = [status |-> sub.status, left |-> sub.left, retention |-> sub.retention, offered |-> sub.offered]
  BY <1>1 DEF SubSet
<1>8. CASE n = 1
  <2>1. F1 \cup {1} = F \cup {1} /\ R1 = R /\ sub' = sub
    BY <1>1, <1>3, <1>8 DEF RightsSpent
  <2>. QED BY <1>1, <1>5, <2>1
<1>9. CASE n > 1 /\ b.kind = "none"
  <2>1. F1 = F /\ R1 = R /\ sub' = sub
    BY <1>1, <1>3, <1>9 DEF RightsSpent
  <2>. QED BY <1>1, <1>5, <2>1
<1>10. CASE n > 1 /\ b.kind = "FIRST_BOXES"
  <2>1. sub.left > 0 /\ n # 1
    BY <1>1, <1>10 DEF HasRight
  <2>2. R1 = R /\ F1 \cup {1} = (F \cup {1}) \cup {n} /\ n \in Numbers \ (F \cup {1})
    BY <1>1, <1>3, <1>10, <2>1
  <2>3. F \cup {1} \in SUBSET Numbers
    BY <1>1, <1>4
  <2>4. /\ Cardinality(F \cup {1}) \in Nat
        /\ Cardinality(F1 \cup {1}) = Cardinality(F \cup {1}) + 1
    BY <2>2, <2>3, CardIs
  <2>5. sub' = [sub EXCEPT !.left = @ - 1]
    BY <1>1, <1>10, <2>1 DEF RightsSpent
  <2>6. /\ sub'.left = sub.left - 1 /\ sub'.retention = sub.retention /\ sub'.offered = sub.offered
        /\ sub'.status = sub.status /\ sub' \in SubSet
    BY <1>1, <1>7, <2>1, <2>5 DEF SubSet
  <2>. QED BY <1>1, <1>5, <1>7, <2>1, <2>2, <2>4, <2>6
<1>11. CASE n > 1 /\ b.kind = "RETENTION"
  <2>1. sub.retention # 0 /\ sub.offered /\ (pct = Pct => sub.left = 0) /\ n # 1
    BY <1>1, <1>5, <1>11 DEF HasRight
  <2>2. F1 = F /\ R1 = R \cup {n} /\ R1 # {}
    BY <1>3, <1>11
  <2>3. CASE sub.left > 0
    <3>1. sub' = [sub EXCEPT !.left = @ - 1]
      BY <1>1, <1>11, <2>1, <2>3 DEF RightsSpent
    <3>2. /\ sub'.left = sub.left - 1 /\ sub'.retention = sub.retention /\ sub'.offered = sub.offered
          /\ sub'.status = sub.status /\ sub' \in SubSet
      BY <1>1, <1>7, <2>3, <3>1 DEF SubSet
    <3>3. F \cup {1} \in SUBSET Numbers
      BY <1>1, <1>4
    <3>4. Cardinality(F \cup {1}) \in Nat
      BY <3>3, CardIs
    <3>. QED BY <1>1, <1>5, <1>7, <2>1, <2>2, <2>3, <3>2, <3>4
  <2>4. CASE sub.left = 0
    <3>1. sub' = [sub EXCEPT !.retention = 0]
      BY <1>1, <1>11, <2>1, <2>4 DEF RightsSpent
    <3>2. /\ sub'.left = sub.left /\ sub'.retention = 0 /\ sub'.offered = sub.offered
          /\ sub'.status = sub.status /\ sub' \in SubSet
      BY <1>1, <1>7, <3>1 DEF SubSet
    <3>3. pct = Pct => R = {}
      BY <1>5, <2>1
    <3>4. pct = Pct => Cardinality(R1) <= 1
      <4>1. Cardinality({}) = 0 /\ Cardinality({} \cup {n}) = Cardinality({}) + 1
        BY CardIs, FS_EmptySet
      <4>. QED BY <2>2, <3>3, <4>1
    <3>. QED BY <1>1, <1>5, <2>1, <2>2, <3>2, <3>4
  <2>. QED BY <1>1, <1>7, <2>3, <2>4
<1>. QED BY <1>1, <1>8, <1>9, <1>10, <1>11 DEF DiscountKinds

\* A box that is not paid leaves the rights alone.
LEMMA RightsSame ==
  ASSUME BillsTyped, Counted, pct' = pct, sub' = sub,
         NEW n \in Numbers, NEW b \in BillSet, bill' = [bill EXCEPT ![n] = b],
         bill[n].status # "CHARGED", b.status # "CHARGED"
  PROVE  Counted'
<1>1. \A m \in Numbers : bill'[m] = IF m = n THEN b ELSE bill[m]
  BY BillChanged
<1>2. \A kind : Spent(bill', kind) = Spent(bill, kind)
  BY <1>1 DEF Spent
<1>3. \A kind : Discounted(kind)' = Discounted(kind)
  BY <1>2, SpentIn
<1>4. Discounted("FIRST_BOXES")' = Discounted("FIRST_BOXES") /\ Discounted("RETENTION")' = Discounted("RETENTION")
  BY <1>3
<1>. QED BY <1>4 DEF Counted

Billed == {"LOCKED", "CHARGED", "SKIPPED"}
Settled == {"CHARGED", "SKIPPED"}

\* The box in turn: every earlier one is settled, no later one is locked.
LEMMA InTurn ==
  ASSUME BillsTyped, InOrder, NEW n \in Numbers, bill[n].status \in {"SCHEDULED", "LOCKED"},
         \A m \in 1..(n - 1) : bill[m].status \in Settled
  PROVE  \A m \in Numbers : /\ m < n => bill[m].status \in Settled
                            /\ m > n => bill[m].status \notin Billed
<1>. SUFFICES ASSUME NEW m \in Numbers
              PROVE  /\ m < n => bill[m].status \in Settled
                     /\ m > n => bill[m].status \notin Billed
  OBVIOUS
<1>1. m \in Nat /\ n \in Nat /\ m >= 1 /\ n >= 1
  BY DEF Numbers
<1>2. ASSUME m > n, bill[m].status \in Billed PROVE FALSE
  <2>1. n \in 1..(m - 1)
    BY <1>1, <1>2
  <2>2. bill[n].status \in Settled
    BY <1>2, <2>1 DEF InOrder, Billed, Settled
  <2>. QED BY <2>2 DEF Settled
<1>. QED BY <1>1, <1>2

\* The box in turn is locked, or a locked one is settled.
LEMMA Moved ==
  ASSUME BillsIInv, sub.status = "ACTIVE", UNCHANGED <<ctx, tierPrice, pct, paid>>,
         NEW n \in Numbers, NEW b \in BillSet, bill' = [bill EXCEPT ![n] = b],
         bill[n].status \in {"SCHEDULED", "LOCKED"}, \A m \in 1..(n - 1) : bill[m].status \in Settled,
         b.status \in Billed,
         n = 1 => /\ b.kind # "RETENTION" /\ b.status # "SKIPPED"
                  /\ b.status = "LOCKED" => b.extrasTotal <= b.total,
         n > 1 => HasRight(b),
         sub' = IF b.status = "CHARGED" THEN RightsSpent(n, b) ELSE sub
  PROVE  BillsIInv'
<1>1. BillsTyped /\ InOrder /\ FirstPaid /\ LockedKeepsRight /\ Counted
  BY DEF BillsIInv
<1>2. /\ bill' \in [Numbers -> BillSet]
      /\ \A m \in Numbers : bill'[m] = IF m = n THEN b ELSE bill[m]
  BY <1>1, BillChanged
<1>3. \A m \in Numbers : /\ m < n => bill[m].status \in Settled
                         /\ m > n => bill[m].status \notin Billed
  BY <1>1, InTurn
<1>4. \A m \in Numbers : m \in Nat /\ m >= 1
  BY DEF Numbers
<1>5. 1 \in Numbers /\ Boxes \in Nat
  BY SettingsAre
<1>6. Counted' /\ sub' \in SubSet /\ sub'.status = "ACTIVE"
  <2>1. CASE b.status = "CHARGED"
    <3>1. bill[n].status # "CHARGED" /\ sub' = RightsSpent(n, b) /\ (n = 1 => b.kind # "RETENTION")
      BY <2>1
    <3>. QED BY <1>1, <2>1, <3>1, RightGone
  <2>2. CASE b.status # "CHARGED"
    <3>1. bill[n].status # "CHARGED" /\ sub' = sub
      BY <2>2
    <3>. QED BY <1>1, <2>2, <3>1, RightsSame DEF BillsTyped
  <2>. QED BY <2>1, <2>2
<1>7. BillsTyped'
  BY <1>1, <1>2, <1>6 DEF BillsTyped
<1>8. Early'
  BY <1>6 DEF Early
<1>9. InOrder'
  <2>. SUFFICES ASSUME NEW k \in Numbers, bill'[k].status \in {"LOCKED", "CHARGED", "SKIPPED"},
                       NEW m \in 1..(k - 1)
                PROVE  bill'[m].status \in {"CHARGED", "SKIPPED"}
    BY DEF InOrder
  <2>1. m \in Numbers /\ m < k /\ k \in Nat /\ m \in Nat /\ n \in Nat /\ m # k
    BY <1>4, SettingsAre DEF Numbers
  <2>2. CASE k = n
    BY <1>2, <1>3, <2>1, <2>2 DEF Settled
  <2>3. CASE k < n
    <3>1. m < n /\ m # n
      BY <2>1, <2>3
    <3>. QED BY <1>2, <1>3, <2>1, <3>1 DEF Settled
  <2>4. CASE k > n
    <3>1. k # n
      BY <2>1, <2>4
    <3>. QED BY <1>2, <1>3, <2>4, <3>1 DEF Billed
  <2>. QED BY <2>1, <2>2, <2>3, <2>4
<1>10. FirstPaid'
  <2>1. CASE n = 1
    <3>1. bill'[1] = b
      BY <1>2, <1>5, <2>1
    <3>. QED BY <2>1, <3>1 DEF FirstPaid, Billed
  <2>2. CASE n # 1
    <3>1. bill'[1] = bill[1] /\ bill[1].status \in Settled
      BY <1>2, <1>3, <1>4, <1>5, <2>2
    <3>. QED BY <1>1, <3>1 DEF FirstPaid, Settled
  <2>. QED BY <2>1, <2>2
<1>11. LockedKeepsRight'
  <2>. SUFFICES ASSUME NEW m \in Numbers, m > 1, bill'[m].status = "LOCKED"
                PROVE  HasRight(bill[m])'
    BY DEF LockedKeepsRight
  <2>1. m = n
    <3>1. CASE m < n
      BY <1>2, <1>3, <1>4, <3>1 DEF Settled
    <3>2. CASE m > n
      BY <1>2, <1>3, <1>4, <3>2 DEF Billed
    <3>. QED BY <1>4, <3>1, <3>2
  <2>2. bill'[m] = b /\ b.status = "LOCKED"
    BY <1>2, <2>1
  <2>3. sub' = sub /\ pct' = pct /\ HasRight(b)
    BY <2>1, <2>2
  <2>. QED BY <2>2, <2>3 DEF HasRight
<1>. QED BY <1>6, <1>7, <1>8, <1>9, <1>10, <1>11 DEF BillsIInv

\* Nobody locks or bills before the activation.
LEMMA WhenBilled ==
  ASSUME BillsIInv, NEW n \in Numbers, bill[n].status = "LOCKED"
  PROVE  /\ sub.status = "ACTIVE" /\ \A m \in 1..(n - 1) : bill[m].status \in Settled
         /\ bill[n] \in BillSet /\ (n > 1 => HasRight(bill[n]))
BY DEF BillsIInv, Early, InOrder, BillsTyped, LockedKeepsRight, Settled

LEMMA Collected ==
  ASSUME BillsIInv, NEW n \in Numbers, Collect(n), UNCHANGED ctx
  PROVE  BillsIInv'
<1>. DEFINE b == [bill[n] EXCEPT !.status = "CHARGED"]
<1>1. /\ bill[n].status = "LOCKED" /\ bill' = [bill EXCEPT ![n] = b] /\ sub' = RightsSpent(n, bill[n])
      /\ UNCHANGED <<tierPrice, pct, paid>>
  BY DEF Collect
<1>2. /\ sub.status = "ACTIVE" /\ \A m \in 1..(n - 1) : bill[m].status \in Settled
      /\ bill[n] \in BillSet /\ (n > 1 => HasRight(bill[n]))
  BY <1>1, WhenBilled
<1>3. b \in BillSet /\ b.status = "CHARGED" /\ b.kind = bill[n].kind
  BY <1>2 DEF BillSet
<1>4. n = 1 => b.kind # "RETENTION"
  BY <1>3 DEF BillsIInv, FirstPaid
<1>5. (n > 1 => HasRight(b)) /\ RightsSpent(n, bill[n]) = RightsSpent(n, b)
  BY <1>2, <1>3 DEF HasRight, RightsSpent
<1>. HIDE DEF b
<1>6. sub' = IF b.status = "CHARGED" THEN RightsSpent(n, b) ELSE sub
  BY <1>1, <1>3, <1>5
<1>7. b.status \in Billed /\ b.status # "SKIPPED" /\ b.status # "LOCKED"
  BY <1>3 DEF Billed
<1>. QED BY <1>1, <1>2, <1>3, <1>4, <1>5, <1>6, <1>7, Moved

LEMMA Unpaid ==
  ASSUME BillsIInv, NEW n \in Numbers, SkipUnpaid(n), UNCHANGED ctx
  PROVE  BillsIInv'
<1>. DEFINE b == [bill[n] EXCEPT !.status = "SKIPPED"]
<1>1. /\ bill[n].status = "LOCKED" /\ bill' = [bill EXCEPT ![n] = b] /\ sub' = sub /\ n > 1
      /\ UNCHANGED <<tierPrice, pct, paid>>
  BY DEF SkipUnpaid
<1>2. /\ sub.status = "ACTIVE" /\ \A m \in 1..(n - 1) : bill[m].status \in Settled
      /\ bill[n] \in BillSet /\ HasRight(bill[n])
  BY <1>1, WhenBilled
<1>3. b \in BillSet /\ b.status = "SKIPPED" /\ b.kind = bill[n].kind
  BY <1>2 DEF BillSet
<1>4. HasRight(b) /\ n # 1
  BY <1>1, <1>2, <1>3 DEF HasRight, Numbers
<1>. HIDE DEF b
<1>5. b.status \in Billed /\ b.status # "CHARGED"
  BY <1>3 DEF Billed
<1>. QED BY <1>1, <1>2, <1>3, <1>4, <1>5, Moved

LEMMA DeltaDropped ==
  ASSUME BillsIInv, DropDelta, UNCHANGED ctx
  PROVE  BillsIInv'
<1>. DEFINE b == [bill[1] EXCEPT !.status = "CHARGED", !.extras = {}, !.extrasTotal = 0,
                                 !.total = @ - bill[1].extrasTotal]
<1>1. 1 \in Numbers
  BY SettingsAre
<1>2. bill[1].status = "LOCKED" /\ sub' = sub /\ UNCHANGED <<tierPrice, pct, paid>>
  BY DEF DropDelta
<1>3. /\ sub.status = "ACTIVE" /\ \A m \in 1..(1 - 1) : bill[m].status \in Settled
      /\ bill[1] \in BillSet
  BY <1>1, <1>2, WhenBilled
<1>4. bill[1].kind # "RETENTION" /\ bill[1].extrasTotal <= bill[1].total
  BY <1>2 DEF BillsIInv, FirstPaid
<1>5. bill' = [bill EXCEPT ![1] = b]
  <2>1. bill \in [Numbers -> BillSet]
    BY DEF BillsIInv, BillsTyped
  <2>. QED BY <1>1, <1>3, <2>1 DEF DropDelta
<1>6. b \in BillSet /\ b.status = "CHARGED" /\ b.kind = bill[1].kind
  <2>1. bill[1].total \in Nat /\ bill[1].extrasTotal \in Nat /\ bill[1].total - bill[1].extrasTotal \in Nat
    BY <1>3, <1>4 DEF BillSet
  <2>. QED BY <1>3, <2>1 DEF BillSet
<1>. HIDE DEF b
<1>7. /\ b.status \in Billed /\ b.status # "SKIPPED" /\ b.status # "LOCKED" /\ b.kind # "RETENTION"
      /\ sub' = IF b.status = "CHARGED" THEN RightsSpent(1, b) ELSE sub
      /\ bill[1].status \in {"SCHEDULED", "LOCKED"}
  BY <1>2, <1>4, <1>6 DEF Billed, RightsSpent
<1>8. PICK n \in Numbers : n = 1
  BY <1>1
<1>9. /\ bill' = [bill EXCEPT ![n] = b] /\ bill[n].status \in {"SCHEDULED", "LOCKED"}
      /\ \A m \in 1..(n - 1) : bill[m].status \in Settled
      /\ sub' = IF b.status = "CHARGED" THEN RightsSpent(n, b) ELSE sub
      /\ ~(n > 1)
  BY <1>3, <1>5, <1>7, <1>8
<1>. QED BY <1>2, <1>3, <1>6, <1>7, <1>9, Moved

LEMMA DayLocked ==
  ASSUME BillsIInv, PricesFit, ctx \in Contexts, NEW n \in Numbers, Lock(n), UNCHANGED ctx
  PROVE  BillsIInv'
<1>. DEFINE q == CycleCharge(tierPrice, SetToSeq(bill[n].extras), FALSE, bill[n].prepaid,
                             Ctx(sub.left, sub.retention))
            d == BoxDiscount(tierPrice, Ctx(sub.left, sub.retention))
            b == [bill[n] EXCEPT !.status = IF q.due <= 0 THEN "CHARGED" ELSE "LOCKED",
                                !.extrasTotal = q.extras, !.total = q.total, !.due = q.due,
                                !.kind = IF n = 1 THEN @ ELSE q.discountKind]
<1>1. /\ sub.status = "ACTIVE" /\ bill[n].status = "SCHEDULED"
      /\ \A m \in 1..(n - 1) : bill[m].status \in Settled
      /\ bill' = [bill EXCEPT ![n] = b] /\ sub' = (IF q.due <= 0 THEN RightsSpent(n, b) ELSE sub)
      /\ UNCHANGED <<tierPrice, pct, paid>>
  BY DEF Lock, Settled
<1>2. /\ BillsTyped /\ bill[n] \in BillSet /\ tierPrice \in TierPrices /\ pct \in {0, Pct}
      /\ sub.left \in 0..Boxes /\ sub.retention \in {0, RetentionPct}
  BY DEF BillsIInv, BillsTyped, SubSet
<1>3. /\ q.extras \in Nat /\ q.discountKind = d.kind /\ q.total \in Nat /\ q.extras <= q.total /\ q.due \in Int
  BY <1>2, LockedBill
<1>4. /\ d.kind \in DiscountKinds
      /\ d.kind = "FIRST_BOXES" => sub.left > 0
      /\ d.kind = "RETENTION" => sub.retention # 0 /\ (pct = Pct => sub.left = 0)
  BY <1>2, RightIs
<1>. HIDE DEF q, d
<1>5. /\ b \in BillSet /\ b.status = (IF q.due <= 0 THEN "CHARGED" ELSE "LOCKED")
      /\ b.extrasTotal = q.extras /\ b.total = q.total
      /\ b.kind = IF n = 1 THEN bill[n].kind ELSE d.kind
  BY <1>2, <1>3, <1>4 DEF BillSet
<1>. HIDE DEF b
<1>6. n = 1 => /\ b.kind # "RETENTION" /\ b.status # "SKIPPED"
               /\ b.status = "LOCKED" => b.extrasTotal <= b.total
  BY <1>3, <1>5 DEF BillsIInv, FirstPaid
<1>7. n > 1 => HasRight(b)
  <2>1. n > 1 => n # 1
    BY DEF Numbers
  <2>. QED BY <1>4, <1>5, <2>1 DEF HasRight
<1>8. /\ b.status \in Billed
      /\ sub' = IF b.status = "CHARGED" THEN RightsSpent(n, b) ELSE sub
  BY <1>1, <1>5 DEF Billed
<1>. QED BY <1>1, <1>5, <1>6, <1>7, <1>8, Moved

LEMMA Activated ==
  ASSUME BillsIInv, Activate, UNCHANGED ctx
  PROVE  BillsIInv'
<1>1. /\ sub.status = "PENDING" /\ UNCHANGED <<tierPrice, pct, paid>>
      /\ sub' = [sub EXCEPT !.status = "ACTIVE", !.left = IF @ > 0 THEN @ - 1 ELSE 0]
      /\ bill' = [n \in Numbers |-> IF n = 1 THEN bill[1] ELSE [Blank EXCEPT !.status = "SCHEDULED"]]
  BY DEF Activate
<1>2. /\ BillsTyped /\ sub \in SubSet /\ sub.left = Boxes /\ sub.retention = 0 /\ ~sub.offered
      /\ pct = Pct /\ bill[1].status = "SCHEDULED" /\ FirstPaid
  BY <1>1 DEF BillsIInv, Early, BillsTyped
<1>3. 1 \in Numbers /\ Boxes \in Nat /\ Pct \in Nat \ {0}
  BY SettingsAre
<1>4. /\ sub'.status = "ACTIVE" /\ sub'.left = (IF Boxes > 0 THEN Boxes - 1 ELSE 0)
      /\ sub'.retention = 0 /\ ~sub'.offered /\ sub' \in SubSet
  <2>. DEFINE left == IF Boxes > 0 THEN Boxes - 1 ELSE 0
  <2>1. left \in 0..Boxes
    BY <1>3
  <2>2. left = IF sub.left > 0 THEN sub.left - 1 ELSE 0
    BY <1>2
  <2>. HIDE DEF left
  <2>3. sub' = [sub EXCEPT !.status = "ACTIVE", !.left = left]
    BY <1>1, <2>2
  <2>4. /\ sub'.status = "ACTIVE" /\ sub'.left = left
        /\ sub'.retention = sub.retention /\ sub'.offered = sub.offered /\ sub' \in SubSet
    BY <1>2, <2>1, <2>3 DEF SubSet
  <2>. QED BY <1>2, <2>4 DEF left
<1>5. [Blank EXCEPT !.status = "SCHEDULED"] \in BillSet
  BY DEF Blank, BillSet, DiscountKinds
<1>6. /\ bill' \in [Numbers -> BillSet] /\ bill'[1] = bill[1]
      /\ \A n \in Numbers : bill'[n].status = "SCHEDULED"
  <2>1. bill \in [Numbers -> BillSet]
    BY <1>2 DEF BillsTyped
  <2>2. ASSUME NEW n \in Numbers PROVE bill'[n] \in BillSet /\ bill'[n].status = "SCHEDULED"
    <3>1. CASE n = 1
      BY <1>1, <1>2, <2>1, <3>1
    <3>2. CASE n # 1
      <4>1. bill'[n] = [Blank EXCEPT !.status = "SCHEDULED"]
        BY <1>1, <3>2
      <4>2. [Blank EXCEPT !.status = "SCHEDULED"].status = "SCHEDULED"
        BY DEF Blank
      <4>. QED BY <1>5, <4>1, <4>2
    <3>. QED BY <3>1, <3>2
  <2>. QED BY <1>1, <1>3, <2>2
<1>7. \A kind : Discounted(kind)' = {}
  BY <1>6 DEF Discounted
<1>8. Counted'
  <2>1. Discounted("FIRST_BOXES")' = {} /\ Discounted("RETENTION")' = {}
    BY <1>7
  <2>2. Cardinality({}) = 0 /\ Cardinality({} \cup {1}) = Cardinality({}) + 1
    BY <1>3, CardIs, FS_EmptySet
  <2>3. Boxes > 0 => sub'.left + 1 = Boxes
    BY <1>3, <1>4
  <2>4. Boxes > 0 => sub'.left + Cardinality(Discounted("FIRST_BOXES")' \cup {1}) = Boxes
    BY <2>1, <2>2, <2>3
  <2>. QED BY <1>3, <1>4, <2>1, <2>2, <2>4 DEF Counted
<1>9. BillsTyped'
  BY <1>1, <1>2, <1>4, <1>6 DEF BillsTyped
<1>10. FirstPaid'
  BY <1>1, <1>2, <1>4, <1>6 DEF FirstPaid
<1>11. Early' /\ InOrder' /\ LockedKeepsRight'
  BY <1>4, <1>6 DEF Early, InOrder, LockedKeepsRight
<1>. QED BY <1>8, <1>9, <1>10, <1>11 DEF BillsIInv

LEMMA Edited ==
  ASSUME BillsIInv, NEW n \in Numbers, NEW xs \in SUBSET ExtraGoods, EditExtras(n, xs), UNCHANGED ctx
  PROVE  BillsIInv'
<1>. DEFINE b == [bill[n] EXCEPT !.extras = xs]
<1>1. /\ sub.status = "ACTIVE" /\ bill[n].status = "SCHEDULED" /\ bill' = [bill EXCEPT ![n] = b]
      /\ UNCHANGED <<tierPrice, pct, sub, paid>>
  BY DEF EditExtras
<1>2. BillsTyped /\ bill[n] \in BillSet /\ bill \in [Numbers -> BillSet]
  BY DEF BillsIInv, BillsTyped
<1>3. b \in BillSet /\ b.status = "SCHEDULED" /\ b.prepaid = bill[n].prepaid /\ b.kind = bill[n].kind
  BY <1>1, <1>2 DEF BillSet
<1>. HIDE DEF b
<1>4. /\ bill' \in [Numbers -> BillSet]
      /\ \A m \in Numbers : bill'[m] = IF m = n THEN b ELSE bill[m]
  BY <1>1, <1>2, <1>3, BillChanged
<1>5. \A m \in Numbers : /\ bill'[m].status = bill[m].status /\ bill'[m].prepaid = bill[m].prepaid
                         /\ bill'[m].kind = bill[m].kind
                         /\ bill[m].status = "LOCKED" => bill'[m] = bill[m]
  BY <1>1, <1>3, <1>4
<1>6. Counted'
  <2>1. bill[n].status # "CHARGED" /\ b.status # "CHARGED" /\ pct' = pct /\ sub' = sub
    BY <1>1, <1>3
  <2>. QED BY <1>1, <1>2, <1>3, <2>1, RightsSame DEF BillsIInv
<1>7. 1 \in Numbers /\ \A m \in Numbers : \A k \in 1..(m - 1) : k \in Numbers
  BY SettingsAre DEF Numbers
<1>8. BillsTyped'
  BY <1>1, <1>2, <1>4 DEF BillsTyped
<1>9. FirstPaid'
  BY <1>1, <1>5, <1>7 DEF FirstPaid, BillsIInv
<1>10. Early' /\ InOrder'
  BY <1>1, <1>5, <1>7 DEF Early, InOrder, BillsIInv
<1>11. LockedKeepsRight'
  BY <1>1, <1>5 DEF LockedKeepsRight, HasRight, BillsIInv
<1>. QED BY <1>6, <1>8, <1>9, <1>10, <1>11 DEF BillsIInv

LEMMA OfferTaken ==
  ASSUME BillsIInv, AcceptOffer, UNCHANGED ctx
  PROVE  BillsIInv'
<1>1. /\ sub.status = "ACTIVE" /\ ~sub.offered /\ UNCHANGED <<tierPrice, pct, bill, paid>>
      /\ sub' = [sub EXCEPT !.retention = RetentionPct, !.offered = TRUE]
  BY DEF AcceptOffer
<1>2. /\ BillsTyped /\ sub \in SubSet /\ Counted /\ FirstPaid /\ InOrder /\ LockedKeepsRight
  BY DEF BillsIInv, BillsTyped
<1>3. RetentionPct \in Nat \ {0}
  BY SettingsAre
<1>4. /\ sub'.status = "ACTIVE" /\ sub'.left = sub.left /\ sub'.retention = RetentionPct
      /\ sub'.offered /\ sub' \in SubSet
  BY <1>1, <1>2 DEF SubSet
<1>5. \A kind : Discounted(kind)' = Discounted(kind)
  BY <1>1 DEF Discounted
<1>6. sub.retention = 0 /\ Discounted("RETENTION") = {}
  BY <1>1, <1>2 DEF Counted
<1>7. Counted'
  <2>1. Cardinality({}) = 0
    BY FS_EmptySet
  <2>2. Discounted("FIRST_BOXES")' = Discounted("FIRST_BOXES") /\ Discounted("RETENTION")' = {}
    BY <1>5, <1>6
  <2>. QED BY <1>1, <1>2, <1>3, <1>4, <2>1, <2>2 DEF Counted
<1>8. BillsTyped' /\ FirstPaid' /\ InOrder' /\ Early'
  BY <1>1, <1>2, <1>4 DEF BillsTyped, FirstPaid, InOrder, Early
<1>9. LockedKeepsRight'
  BY <1>1, <1>2, <1>3, <1>4, <1>6 DEF LockedKeepsRight, HasRight
<1>. QED BY <1>7, <1>8, <1>9 DEF BillsIInv

LEMMA PriceSet ==
  ASSUME BillsIInv, NEW p \in TierPrices, SetTierPrice(p), UNCHANGED ctx
  PROVE  BillsIInv'
<1>1. tierPrice' = p /\ UNCHANGED <<pct, sub, bill, paid>>
  BY DEF SetTierPrice
<1>2. \A kind : Discounted(kind)' = Discounted(kind)
  BY <1>1 DEF Discounted
<1>3. Discounted("FIRST_BOXES")' = Discounted("FIRST_BOXES") /\ Discounted("RETENTION")' = Discounted("RETENTION")
  BY <1>2
<1>4. BillsTyped' /\ Counted'
  BY <1>1, <1>3 DEF BillsIInv, BillsTyped, Counted
<1>5. FirstPaid' /\ InOrder' /\ Early' /\ LockedKeepsRight'
  BY <1>1 DEF BillsIInv, FirstPaid, InOrder, Early, LockedKeepsRight, HasRight
<1>. QED BY <1>4, <1>5 DEF BillsIInv

LEMMA PromoEnded ==
  ASSUME BillsIInv, EndPromo, UNCHANGED ctx
  PROVE  BillsIInv'
<1>1. sub.status = "ACTIVE" /\ pct' = 0 /\ UNCHANGED <<tierPrice, sub, bill, paid>>
  BY DEF EndPromo
<1>2. \A kind : Discounted(kind)' = Discounted(kind)
  BY <1>1 DEF Discounted
<1>3. Discounted("FIRST_BOXES")' = Discounted("FIRST_BOXES") /\ Discounted("RETENTION")' = Discounted("RETENTION")
  BY <1>2
<1>4. Pct # 0
  BY SettingsAre
<1>5. BillsTyped' /\ Counted'
  BY <1>1, <1>3, <1>4 DEF BillsIInv, BillsTyped, Counted
<1>6. FirstPaid' /\ InOrder' /\ Early'
  BY <1>1 DEF BillsIInv, FirstPaid, InOrder, Early
<1>7. LockedKeepsRight'
  BY <1>1, <1>4 DEF BillsIInv, LockedKeepsRight, HasRight
<1>. QED BY <1>5, <1>6, <1>7 DEF BillsIInv

\* What of a new member's basket is prepaid.
LEMMA OrderIs ==
  ASSUME QuoteIInv, BillsIInv, DiscountsFit, PricesFit, Orderable
  PROVE  LET xs == ToSet(basket) \cap ExtraGoods
         IN  /\ xs \in SUBSET ExtraGoods /\ Prepaid(base) \in Nat
             /\ Prepaid(base) = tierPrice + Worth(xs)
                                  - (IF Boxes > 0 THEN PercentOf(tierPrice, Pct, ctx.rounding) ELSE 0)
             /\ BoxDiscount(tierPrice, ctx).kind \in {"FIRST_BOXES", "none"}
<1>. DEFINE xs == ToSet(basket) \cap ExtraGoods
            d == BoxDiscount(tierPrice, ctx)
<1>1. /\ basket \in Seq(Goods) /\ Once(basket, Len(basket)) /\ OneBox(basket) /\ ctx \in Contexts
      /\ base = Quote(basket, ctx) /\ DOMAIN basket = 1..Len(basket)
      /\ xs = {basket[k] : k \in 1..Len(basket)} \cap ExtraGoods
  BY BasketIs, BasketSet DEF QuoteIInv
<1>2. /\ sub.status = "none" /\ base.kind = "SUBSCRIPTION"
      /\ ctx.left = Boxes /\ ctx.retention = 0 /\ ctx.pct = pct
  BY DEF Orderable
<1>3. PICK i \in 1..Len(basket) : basket[i].kind = "BOX" /\ basket[i].price = tierPrice
  BY <1>1 DEF Orderable
<1>4. basket[i] \in Goods /\ LineTotal(basket[i]) = tierPrice
  <2>1. basket[i] \in Goods
    BY <1>1 DEF Once
  <2>. QED BY <1>3, <2>1, LineTotalNat
<1>5. /\ pct = Pct /\ tierPrice \in TierPrices /\ pct \in {0, Pct}
  BY <1>2 DEF BillsIInv, Early, BillsTyped
<1>6. Boxes \in Nat /\ tierPrice \in Nat
  BY <1>5, SettingsAre
<1>7. /\ Prepaid(base) = tierPrice + Worth(xs) - (IF ctx.asSubscription THEN d.amount ELSE 0)
      /\ base.kind = IF ctx.asSubscription THEN "SUBSCRIPTION" ELSE "BOX_ONE_TIME"
  <2>. DEFINE t == basket[i]
  <2>1. LET off == IF ctx.asSubscription THEN BoxDiscount(LineTotal(basket[i]), ctx).amount ELSE 0
        IN  /\ Prepaid(base) = LineTotal(basket[i]) + Worth(xs) - off
            /\ base.kind = IF ctx.asSubscription THEN "SUBSCRIPTION" ELSE "BOX_ONE_TIME"
    BY <1>1, <1>3, BoxOfQuote
  <2>. QED BY <1>4, <2>1
<1>8. ctx.asSubscription
  BY <1>2, <1>7
<1>9. Ctx(Boxes, 0) = ctx
  <2>1. ctx \in [asSubscription : BOOLEAN, live : BOOLEAN, left : Nat, retention : Nat,
             pct : Nat, rounding : {"kurus", "tl"}, rule : {"gt", "gte"},
             subscriberFree : BOOLEAN, fee : Nat, threshold : Nat \cup {NoThreshold}]
    BY <1>1, ContextsAssumption
  <2>. QED BY <1>2, <2>1 DEF Ctx
<1>10. LET e == BoxDiscount(tierPrice, Ctx(Boxes, 0))
       IN  /\ e.amount \in Nat /\ e.amount <= tierPrice /\ e.kind \in DiscountKinds
           /\ Boxes > 0 /\ pct = Pct => /\ e.kind = "FIRST_BOXES"
                                        /\ e.amount = PercentOf(tierPrice, Pct, ctx.rounding)
           /\ e.kind = "RETENTION" => 0 # 0 /\ (pct = Pct => Boxes = 0)
           /\ Boxes = 0 /\ 0 = 0 => e.amount = 0
  <2>1. Boxes \in 0..Boxes /\ 0 \in {0, RetentionPct}
    BY <1>6
  <2>. QED BY <1>1, <1>5, <2>1, RightIs
<1>11. /\ d.amount \in Nat /\ d.amount <= tierPrice /\ d.kind \in {"FIRST_BOXES", "none"}
       /\ d.amount = IF Boxes > 0 THEN PercentOf(tierPrice, Pct, ctx.rounding) ELSE 0
  BY <1>5, <1>6, <1>9, <1>10 DEF DiscountKinds
<1>12. Worth(xs) \in Nat /\ xs \in SUBSET ExtraGoods
  <2>1. xs \in SUBSET ExtraGoods
    OBVIOUS
  <2>2. xs \in SUBSET Goods
    BY <2>1 DEF ExtraGoods
  <2>. QED BY <2>1, <2>2, WorthIs
<1>. HIDE DEF xs, d
<1>13. Prepaid(base) = tierPrice + Worth(xs) - d.amount /\ Prepaid(base) \in Nat
  BY <1>6, <1>7, <1>8, <1>11, <1>12
<1>. QED BY <1>11, <1>12, <1>13 DEF xs, d

LEMMA CheckedOut ==
  ASSUME QuoteIInv, BillsIInv, DiscountsFit, PricesFit, Checkout
  PROVE  QuoteIInv' /\ BillsIInv'
<1>. DEFINE xs == ToSet(basket) \cap ExtraGoods
            pre == Prepaid(base)
            d == BoxDiscount(tierPrice, ctx)
            b == [Blank EXCEPT !.status = "SCHEDULED", !.extras = xs, !.prepaid = pre, !.kind = d.kind]
<1>1. /\ Orderable /\ bill' = [bill EXCEPT ![1] = b] /\ paid' = [box |-> tierPrice, extras |-> xs]
      /\ sub' = [sub EXCEPT !.status = "PENDING", !.left = Boxes]
      /\ basket' = <<>> /\ coupon' = NoCoupon /\ Reprice
      /\ UNCHANGED <<ctx, tierPrice, pct>>
  BY DEF Checkout, Subscribe
<1>2. /\ xs \in SUBSET ExtraGoods /\ pre \in Nat
      /\ pre = tierPrice + Worth(xs) - (IF Boxes > 0 THEN PercentOf(tierPrice, Pct, ctx.rounding) ELSE 0)
      /\ d.kind \in {"FIRST_BOXES", "none"}
  BY <1>1, OrderIs
<1>3. QuoteIInv'
  <2>1. ctx \in Contexts
    BY DEF QuoteIInv
  <2>2. BasketOK(basket') /\ ctx' \in Contexts /\ coupon' \in Coupons \cup {NoCoupon}
    BY <1>1, <2>1, EmptyBasket
  <2>. QED BY <1>1, <2>2, Repriced
<1>. HIDE DEF xs, pre, d
<1>4. sub.status = "none"
  BY <1>1 DEF Orderable
<1>5. /\ BillsTyped /\ sub \in SubSet /\ sub.retention = 0 /\ ~sub.offered /\ pct = Pct
      /\ \A n \in Numbers : bill[n].status \in {"none", "SCHEDULED"}
  BY <1>4 DEF BillsIInv, Early, BillsTyped
<1>6. /\ b \in BillSet /\ b.status = "SCHEDULED" /\ b.prepaid = pre /\ b.kind = d.kind
  <2>. DEFINE k == d.kind
  <2>1. Blank \in BillSet
    BY DEF Blank, BillSet, DiscountKinds
  <2>2. k \in DiscountKinds
    BY <1>2 DEF DiscountKinds
  <2>. HIDE DEF k
  <2>3. [Blank EXCEPT !.status = "SCHEDULED", !.extras = xs, !.prepaid = pre, !.kind = k] \in BillSet
    BY <1>2, <2>1, <2>2 DEF BillSet
  <2>4. b = [Blank EXCEPT !.status = "SCHEDULED", !.extras = xs, !.prepaid = pre, !.kind = k]
    BY DEF k
  <2>. HIDE DEF b
  <2>5. b.status = "SCHEDULED" /\ b.prepaid = pre /\ b.kind = k
    BY <2>1, <2>4 DEF BillSet
  <2>. QED BY <2>3, <2>4, <2>5 DEF k
<1>. HIDE DEF b
<1>7. 1 \in Numbers /\ Boxes \in Nat
  BY SettingsAre
<1>8. /\ bill' \in [Numbers -> BillSet] /\ bill'[1] = b
      /\ \A n \in Numbers : bill'[n].status \in {"none", "SCHEDULED"}
  <2>1. /\ bill' \in [Numbers -> BillSet]
        /\ \A m \in Numbers : bill'[m] = IF m = 1 THEN b ELSE bill[m]
    <3>1. PICK n \in Numbers : n = 1
      BY <1>7
    <3>2. bill' = [bill EXCEPT ![n] = b]
      BY <1>1, <3>1
    <3>. QED BY <1>5, <1>6, <3>1, <3>2, BillChanged
  <2>. QED BY <1>5, <1>6, <1>7, <2>1
<1>9. /\ sub' \in SubSet /\ sub'.status = "PENDING" /\ sub'.left = Boxes
      /\ sub'.retention = 0 /\ ~sub'.offered
  <2>1. Boxes \in 0..Boxes
    BY <1>7
  <2>. QED BY <1>1, <1>5, <2>1 DEF SubSet
<1>10. BillsTyped'
  BY <1>1, <1>2, <1>5, <1>8, <1>9 DEF BillsTyped
<1>11. Early' /\ InOrder' /\ LockedKeepsRight' /\ Counted'
  BY <1>1, <1>5, <1>6, <1>8, <1>9 DEF Early, InOrder, LockedKeepsRight, Counted
<1>12. FirstPaid'
  <2>1. paid'.box = tierPrice /\ paid'.extras = xs /\ ctx' = ctx
    BY <1>1
  <2>. QED BY <1>2, <1>6, <1>8, <1>9, <2>1 DEF FirstPaid
<1>. QED BY <1>3, <1>10, <1>11, <1>12 DEF BillsIInv

LEMMA Browsed ==
  ASSUME QuoteIInv, BillsIInv, Browse
  PROVE  QuoteIInv' /\ BillsIInv'
<1>1. sub.status = "none" /\ QuoteNext /\ UNCHANGED <<tierPrice, pct, sub, bill, paid>>
  BY DEF Browse, billVars
<1>2. QuoteIInv'
  BY <1>1, QuoteStep
<1>3. BillsTyped' /\ Early' /\ InOrder' /\ LockedKeepsRight' /\ Counted'
  BY <1>1 DEF BillsIInv, BillsTyped, Early, InOrder, LockedKeepsRight, HasRight, Counted, Discounted
<1>4. FirstPaid'
  BY <1>1 DEF BillsIInv, FirstPaid
<1>. QED BY <1>2, <1>3, <1>4 DEF BillsIInv

LEMMA Lived ==
  ASSUME QuoteIInv, BillsIInv, PricesFit, Live, UNCHANGED quoteVars
  PROVE  QuoteIInv' /\ BillsIInv'
<1>1. UNCHANGED <<basket, ctx, coupon, base, shown>> /\ ctx \in Contexts
  BY DEF quoteVars, QuoteIInv
<1>2. QuoteIInv'
  BY <1>1 DEF QuoteIInv
<1>3. CASE Activate \/ AcceptOffer \/ EndPromo \/ DropDelta
  BY <1>1, <1>2, <1>3, Activated, OfferTaken, PromoEnded, DeltaDropped
<1>4. CASE \E p \in TierPrices : SetTierPrice(p)
  BY <1>1, <1>2, <1>4, PriceSet
<1>5. CASE \E n \in Numbers : Lock(n) \/ Collect(n) \/ SkipUnpaid(n)
  BY <1>1, <1>2, <1>5, DayLocked, Collected, Unpaid
<1>6. CASE \E n \in Numbers, xs \in SUBSET ExtraGoods : EditExtras(n, xs)
  BY <1>1, <1>2, <1>6, Edited
<1>. QED BY <1>3, <1>4, <1>5, <1>6 DEF Live

LEMMA Begun == BillsInit => QuoteIInv /\ BillsIInv
<1>. SUFFICES ASSUME BillsInit PROVE QuoteIInv /\ BillsIInv
  OBVIOUS
<1>1. QuoteIInv
  BY QuoteStart DEF BillsInit
<1>2. 1 \in Numbers /\ Boxes \in Nat
  BY SettingsAre
<1>3. Blank \in BillSet /\ Blank.status = "none" /\ Blank.kind = "none"
  BY DEF Blank, BillSet, DiscountKinds
<1>4. /\ bill = [n \in Numbers |-> Blank] /\ pct = Pct /\ tierPrice \in TierPrices
      /\ sub = [status |-> "none", left |-> 0, retention |-> 0, offered |-> FALSE]
      /\ paid = [box |-> 0, extras |-> {}]
  BY DEF BillsInit
<1>5. sub \in SubSet /\ bill \in [Numbers -> BillSet]
  BY <1>2, <1>3, <1>4 DEF SubSet
<1>6. BillsTyped
  BY <1>4, <1>5 DEF BillsTyped
<1>7. Early /\ InOrder /\ FirstPaid /\ LockedKeepsRight /\ Counted
  BY <1>2, <1>3, <1>4 DEF Early, InOrder, FirstPaid, LockedKeepsRight, Counted
<1>. QED BY <1>1, <1>6, <1>7 DEF BillsIInv

LEMMA QuotesStay ==
  QuoteIInv /\ [BillsNext]_purchaseVars => QuoteIInv'
<1>. SUFFICES ASSUME QuoteIInv, [BillsNext]_purchaseVars PROVE QuoteIInv'
  OBVIOUS
<1>1. CASE Browse
  BY <1>1, QuoteStep DEF Browse
<1>2. CASE Checkout
  <2>1. basket' = <<>> /\ coupon' = NoCoupon /\ Reprice /\ ctx' = ctx
    BY <1>2 DEF Checkout, Subscribe
  <2>2. ctx \in Contexts
    BY DEF QuoteIInv
  <2>3. BasketOK(basket') /\ ctx' \in Contexts /\ coupon' \in Coupons \cup {NoCoupon}
    BY <2>1, <2>2, EmptyBasket
  <2>. QED BY <2>1, <2>3, Repriced
<1>3. CASE UNCHANGED quoteVars
  BY <1>3 DEF quoteVars, QuoteIInv
<1>4. CASE UNCHANGED purchaseVars
  BY <1>3, <1>4 DEF purchaseVars
<1>. QED BY <1>1, <1>2, <1>3, <1>4 DEF BillsNext

LEMMA BillsStay ==
  ASSUME DiscountsFit, PricesFit
  PROVE  QuoteIInv /\ BillsIInv /\ [BillsNext]_purchaseVars => QuoteIInv' /\ BillsIInv'
<1>. SUFFICES ASSUME QuoteIInv, BillsIInv, [BillsNext]_purchaseVars PROVE QuoteIInv' /\ BillsIInv'
  OBVIOUS
<1>1. CASE Browse
  BY <1>1, Browsed
<1>2. CASE Checkout
  BY <1>2, CheckedOut
<1>3. CASE Live /\ UNCHANGED quoteVars
  BY <1>3, Lived
<1>4. CASE UNCHANGED purchaseVars
  <2>1. UNCHANGED quoteVars /\ UNCHANGED <<tierPrice, pct, sub, bill, paid>> /\ ctx' = ctx
    BY <1>4 DEF purchaseVars, billVars, quoteVars
  <2>2. QuoteIInv'
    BY <2>1, QuotesStay
  <2>3. BillsTyped' /\ Early' /\ InOrder' /\ LockedKeepsRight' /\ Counted'
    BY <2>1 DEF BillsIInv, BillsTyped, Early, InOrder, LockedKeepsRight, HasRight, Counted, Discounted
  <2>4. FirstPaid'
    BY <2>1 DEF BillsIInv, FirstPaid
  <2>. QED BY <2>2, <2>3, <2>4 DEF BillsIInv
<1>. QED BY <1>1, <1>2, <1>3, <1>4 DEF BillsNext

LEMMA RightsAreKept ==
  ASSUME QuoteIInv, BillsIInv, DiscountsFit
  PROVE  RightsKept
<1>1. QuoteTypeOK
  BY TypesHold
<1>2. BillsTyped /\ FirstPaid /\ Early /\ Counted
  BY DEF BillsIInv
<1>3. 1 \in Numbers /\ Boxes \in Nat
  BY SettingsAre
<1>4. BillsTypeOK
  <2>1. /\ tierPrice \in TierPrices /\ pct \in {0, Pct}
        /\ sub.status \in {"none", "PENDING", "ACTIVE"} /\ sub.left \in 0..Boxes
        /\ sub.retention \in {0, RetentionPct}
    BY <1>2 DEF BillsTyped, SubSet
  <2>2. paid.extras \subseteq ExtraGoods /\ paid.box \in TierPrices \cup {0}
    BY <1>2 DEF BillsTyped
  <2>3. ASSUME NEW n \in Numbers
        PROVE  /\ bill[n].status \in {"none", "SCHEDULED", "LOCKED", "CHARGED", "SKIPPED"}
               /\ bill[n].extras \subseteq ExtraGoods
               /\ bill[n].total \in Nat /\ bill[n].prepaid \in Nat /\ bill[n].due \in Int
               /\ n = 1 => bill[n].status # "SKIPPED"
    BY <1>2 DEF BillsTyped, BillSet, FirstPaid
  <2>. QED BY <1>1, <2>1, <2>2, <2>3 DEF BillsTypeOK
<1>5. RightsSpentOnce
  <2>1. sub.left \in 0..Boxes
    BY <1>2 DEF BillsTyped, SubSet
  <2>. QED BY <1>2, <1>3, <2>1 DEF RightsSpentOnce, Counted
<1>6. PromoWithinGrant
  <2>1. CASE sub.status = "ACTIVE"
    <3>1. sub.left \in Nat
      BY <1>2, <1>3 DEF BillsTyped, SubSet
    <3>2. Discounted("FIRST_BOXES") \cup {1} \in SUBSET Numbers
      BY <1>3 DEF Discounted
    <3>3. Cardinality(Discounted("FIRST_BOXES") \cup {1}) \in Nat
      BY <3>2, CardIs
    <3>. QED BY <1>2, <1>3, <2>1, <3>1, <3>3 DEF PromoWithinGrant, Counted
  <2>2. CASE sub.status # "ACTIVE"
    <3>1. Discounted("FIRST_BOXES") = {}
      BY <1>2, <2>2 DEF Discounted, Early
    <3>2. Cardinality({}) = 0 /\ Cardinality({} \cup {1}) = Cardinality({}) + 1
      BY <1>3, CardIs, FS_EmptySet
    <3>. QED BY <1>3, <3>1, <3>2 DEF PromoWithinGrant
  <2>. QED BY <2>1, <2>2
<1>. QED BY <1>4, <1>5, <1>6 DEF RightsKept

\* The only step that bills the first box is its lock.
LEMMA FirstLockIs ==
  ASSUME BillsIInv, [BillsNext]_purchaseVars, FirstLock
  PROVE  Lock(1)
<1>1. /\ bill[1].status = "SCHEDULED" /\ bill'[1].status \in {"LOCKED", "CHARGED"}
      /\ bill \in [Numbers -> BillSet] /\ 1 \in Numbers /\ bill[1] \in BillSet
  BY SettingsAre DEF FirstLock, BillsIInv, BillsTyped
<1>2. bill'[1].status # bill[1].status
  BY <1>1
<1>3. ASSUME UNCHANGED bill PROVE FALSE
  BY <1>2, <1>3
<1>4. CASE Browse \/ UNCHANGED purchaseVars
  BY <1>3, <1>4 DEF Browse, purchaseVars, billVars
<1>5. CASE Checkout
  <2>. DEFINE b == [Blank EXCEPT !.status = "SCHEDULED", !.extras = ToSet(basket) \cap ExtraGoods,
                                 !.prepaid = Prepaid(base), !.kind = BoxDiscount(tierPrice, ctx).kind]
  <2>1. bill' = [bill EXCEPT ![1] = b]
    BY <1>5 DEF Checkout, Subscribe
  <2>2. b.status = "SCHEDULED"
    BY DEF Blank
  <2>. HIDE DEF b
  <2>. QED BY <1>1, <2>1, <2>2
<1>6. CASE Activate \/ AcceptOffer \/ EndPromo \/ \E p \in TierPrices : SetTierPrice(p)
  <2>1. bill'[1] = bill[1]
    BY <1>1, <1>6 DEF Activate, AcceptOffer, EndPromo, SetTierPrice
  <2>. QED BY <1>2, <2>1
<1>7. CASE DropDelta
  BY <1>1, <1>7 DEF DropDelta
<1>8. ASSUME NEW n \in Numbers, Collect(n) \/ SkipUnpaid(n) PROVE FALSE
  <2>1. bill[n].status = "LOCKED" /\ n # 1
    BY <1>1, <1>8 DEF Collect, SkipUnpaid
  <2>2. bill'[1] = bill[1]
    BY <1>1, <1>8, <2>1 DEF Collect, SkipUnpaid
  <2>. QED BY <1>2, <2>2
<1>9. ASSUME NEW n \in Numbers, NEW xs, EditExtras(n, xs) PROVE FALSE
  <2>1. bill' = [bill EXCEPT ![n].extras = xs]
    BY <1>9 DEF EditExtras
  <2>2. bill'[1].status = bill[1].status
    BY <1>1, <2>1 DEF BillSet
  <2>. QED BY <1>2, <2>2
<1>10. ASSUME NEW n \in Numbers, Lock(n) PROVE n = 1
  <2>1. n # 1 => bill'[1] = bill[1]
    BY <1>1, <1>10 DEF Lock
  <2>. QED BY <1>2, <2>1
<1>11. CASE Live
  <2>1. CASE \E n \in Numbers : Lock(n) \/ Collect(n) \/ SkipUnpaid(n)
    BY <1>8, <1>10, <2>1
  <2>2. CASE \E n \in Numbers, xs \in SUBSET ExtraGoods : EditExtras(n, xs)
    BY <1>9, <2>2
  <2>. QED BY <1>6, <1>7, <1>11, <2>1, <2>2 DEF Live
<1>. QED BY <1>4, <1>5, <1>11 DEF BillsNext

\* What the lock of the first box finds due.
LEMMA FirstDue ==
  ASSUME QuoteIInv, BillsIInv, PricesFit, Boxes >= 2, Lock(1), SamePrice
  PROVE  /\ bill'[1].due = Worth(bill[1].extras) - Worth(paid.extras)
         /\ bill'[1].extras = bill[1].extras /\ paid' = paid
         /\ bill'[1].due <= 0 => bill'[1].status = "CHARGED"
         /\ bill[1].extras \in SUBSET Goods /\ paid.extras \in SUBSET Goods
<1>. DEFINE q == CycleCharge(tierPrice, SetToSeq(bill[1].extras), FALSE, bill[1].prepaid,
                             Ctx(sub.left, sub.retention))
            d == BoxDiscount(tierPrice, Ctx(sub.left, sub.retention))
            b == [bill[1] EXCEPT !.status = IF q.due <= 0 THEN "CHARGED" ELSE "LOCKED",
                                !.extrasTotal = q.extras, !.total = q.total, !.due = q.due,
                                !.kind = IF 1 = 1 THEN @ ELSE q.discountKind]
<1>1. /\ sub.status = "ACTIVE" /\ bill[1].status = "SCHEDULED" /\ bill' = [bill EXCEPT ![1] = b]
      /\ paid' = paid
  BY DEF Lock
<1>2. /\ BillsTyped /\ bill[1] \in BillSet /\ tierPrice \in TierPrices /\ pct \in {0, Pct} /\ 1 \in Numbers
      /\ sub.left \in 0..Boxes /\ sub.retention \in {0, RetentionPct} /\ ctx \in Contexts
      /\ bill \in [Numbers -> BillSet] /\ Boxes \in Nat /\ tierPrice \in Nat
  BY SettingsAre DEF BillsIInv, BillsTyped, SubSet, QuoteIInv
<1>3. /\ q.extras = Worth(bill[1].extras) /\ q.extras \in Nat
      /\ q.total = tierPrice + q.extras - d.amount
      /\ q.due = q.total - bill[1].prepaid
  BY <1>2, LockedBill
<1>4. /\ bill[1].prepaid = paid.box + Worth(paid.extras) - PercentOf(paid.box, Pct, ctx.rounding)
      /\ sub.left = Boxes - 1 /\ tierPrice = paid.box /\ pct = Pct
  BY <1>1, <1>2 DEF BillsIInv, FirstPaid, SamePrice
<1>5. d.amount \in Nat /\ d.amount = PercentOf(paid.box, Pct, ctx.rounding)
  BY <1>2, <1>4, RightIs
<1>6. bill[1].extras \in SUBSET Goods /\ paid.extras \in SUBSET Goods
  <2>1. bill[1].extras \in SUBSET ExtraGoods /\ paid.extras \in SUBSET ExtraGoods
    BY <1>2 DEF BillsTyped, BillSet
  <2>. QED BY <2>1 DEF ExtraGoods
<1>7. Worth(paid.extras) \in Nat
  BY <1>6, WorthIs
<1>. HIDE DEF q, d
<1>8. b.due = q.due /\ b.extras = bill[1].extras /\ (q.due <= 0 => b.status = "CHARGED")
  BY <1>2 DEF BillSet
<1>. HIDE DEF b
<1>9. bill'[1] = b
  BY <1>1, <1>2
<1>10. q.due = Worth(bill[1].extras) - Worth(paid.extras)
  BY <1>2, <1>3, <1>4, <1>5, <1>7
<1>. QED BY <1>1, <1>6, <1>8, <1>9, <1>10

LEMMA ChargeAddsUp ==
  ASSUME PricesFit, Boxes >= 2
  PROVE  QuoteIInv /\ BillsIInv /\ [BillsNext]_purchaseVars => DueOfLock /\ OrderOfLock
<1>. SUFFICES ASSUME QuoteIInv, BillsIInv, [BillsNext]_purchaseVars, FirstLock, SamePrice
              PROVE  /\ bill'[1].due = Worth(bill[1].extras) - Worth(paid.extras)
                     /\ bill'[1].status = "LOCKED"
                          => (DeltaOrder.subtotal - DeltaOrder.discount = DeltaOrder.grand)'
  BY DEF DueOfLock, OrderOfLock
<1>. DEFINE E == bill[1].extras
            P == paid.extras
            due == bill'[1].due
            lines == IF E \ P = {} THEN E ELSE E \ P
<1>1. /\ due = Worth(E) - Worth(P) /\ bill'[1].extras = E /\ paid' = paid
      /\ due <= 0 => bill'[1].status = "CHARGED"
      /\ E \in SUBSET Goods /\ P \in SUBSET Goods
  BY FirstLockIs, FirstDue
<1>2. Worth(E) \in Nat /\ Worth(P) \in Nat
  BY <1>1, WorthIs
<1>3. Worth(lines) \in Nat /\ Worth(lines) >= due
  <2>1. CASE E \ P = {}
    BY <1>1, <1>2, <2>1
  <2>2. CASE E \ P # {}
    <3>. DEFINE both == E \cap P
    <3>1. both \in SUBSET E /\ both \in SUBSET P /\ E \ P = E \ both /\ both \in SUBSET Goods
          /\ E \ P \in SUBSET Goods
      BY <1>1
    <3>. HIDE DEF both
    <3>2. Worth(E \ both) = Worth(E) - Worth(both)
      BY <1>1, <3>1, WorthMore
    <3>3. Worth(both) <= Worth(P)
      BY <1>1, <3>1, WorthMore
    <3>4. Worth(both) \in Nat /\ Worth(E \ P) \in Nat
      BY <3>1, WorthIs
    <3>5. Worth(E \ P) = Worth(E) - Worth(both)
      BY <3>1, <3>2
    <3>6. lines = E \ P
      BY <2>2
    <3>. HIDE DEF E, P, lines, due
    <3>. QED BY <1>1, <1>2, <3>3, <3>4, <3>5, <3>6
  <2>. QED BY <2>1, <2>2
<1>4. /\ DeltaOrder.subtotal' = Worth(lines) /\ DeltaOrder.grand' = due
      /\ DeltaOrder.discount' = IF Worth(lines) > due THEN Worth(lines) - due ELSE 0
  BY <1>1 DEF DeltaOrder
<1>. HIDE DEF E, P, lines, due
<1>5. Worth(lines) - (IF Worth(lines) > due THEN Worth(lines) - due ELSE 0) = due
  BY <1>1, <1>2, <1>3
<1>. QED BY <1>1, <1>4, <1>5 DEF E, P, due

\* Quotes add up, for any goods, coupons and settings, if no discount exceeds
\* its box: no line below nothing, fair shares of the coupon, the VAT, and the
\* engine's bill of the same box.
THEOREM QuotesExact ==
  ASSUME DiscountsFit
  PROVE  BillsSpec => []QuoteAddsUp
<1>1. BillsInit => QuoteIInv
  BY Begun
<1>2. QuoteIInv /\ [BillsNext]_purchaseVars => QuoteIInv'
  BY QuotesStay
<1>3. QuoteIInv => QuoteAddsUp
  BY QuotesAddUp
<1>. QED BY <1>1, <1>2, <1>3, PTL DEF BillsSpec

\* The rights to a discount are spent exactly once, for any prices, edits and
\* settings changed meanwhile.
THEOREM RightsExact ==
  ASSUME DiscountsFit, PricesFit
  PROVE  BillsSpec => []RightsKept
<1>1. BillsInit => QuoteIInv /\ BillsIInv
  BY Begun
<1>2. QuoteIInv /\ BillsIInv /\ [BillsNext]_purchaseVars => QuoteIInv' /\ BillsIInv'
  BY BillsStay
<1>3. QuoteIInv /\ BillsIInv => RightsKept
  BY RightsAreKept
<1>. QED BY <1>1, <1>2, <1>3, PTL DEF BillsSpec

\* What is collected for a first box whose extras were changed is the
\* difference, and an order that adds up to it, if more than one box has the
\* discount.
THEOREM ExtraChargeExact ==
  ASSUME DiscountsFit, PricesFit, Boxes >= 2
  PROVE  BillsSpec => ExtraCharge
<1>1. BillsInit => QuoteIInv /\ BillsIInv
  BY Begun
<1>2. QuoteIInv /\ BillsIInv /\ [BillsNext]_purchaseVars => QuoteIInv' /\ BillsIInv'
  BY BillsStay
<1>3. QuoteIInv /\ BillsIInv /\ [BillsNext]_purchaseVars => DueOfLock /\ OrderOfLock
  BY ChargeAddsUp
<1>4. BillsSpec => DueIsDelta
  BY <1>1, <1>2, <1>3, PTL DEF BillsSpec, DueIsDelta
<1>5. BillsSpec => DeltaAddsUp
  BY <1>1, <1>2, <1>3, PTL DEF BillsSpec, DeltaAddsUp
<1>. QED BY <1>4, <1>5 DEF ExtraCharge
=============================================================================
