---------------------------- MODULE CartPageProofs ----------------------------
(***************************************************************************)
(* What a patient shopper sees of the cart page, for any products, tabs,   *)
(* codes and bounds: the total belongs to what is shown (TotalRight), and  *)
(* no unit is lost, or sold and kept (UnitsBalance).  Patient: nothing is  *)
(* edited, left or started while an order or a move to the box is under    *)
(* way; answers may be late, in any order, or lost.                        *)
(***************************************************************************)
EXTENDS CartPage, FiniteSetTheorems, TLAPS

Patient == ~Hasty

\* A cart as the handlers keep it: a product has one line.
Apart(lines) == \A k, m \in 1..Len(lines) : lines[k].id = lines[m].id => k = m
Carts == {lines \in Seq(Line) : Apart(lines)}

LEMMA CartFacts ==
  ASSUME NEW lines \in Carts
  PROVE  /\ Len(lines) \in Nat /\ DOMAIN lines = 1..Len(lines) /\ lines \in Seq(Line)
         /\ \A k \in 1..Len(lines) : /\ lines[k] \in Line /\ lines[k].id \in Items
                                     /\ lines[k].qty \in 1..MaxUnits
         /\ \A k, m \in 1..Len(lines) : lines[k].id = lines[m].id => k = m
         /\ lines = <<>> <=> Len(lines) = 0
<1>1. lines \in Seq(Line) /\ Apart(lines)
  BY DEF Carts
<1>2. Len(lines) \in Nat /\ DOMAIN lines = 1..Len(lines) /\ (lines = <<>> <=> Len(lines) = 0)
  BY <1>1
<1>3. \A k \in 1..Len(lines) : lines[k] \in Line
  BY <1>1
<1>. QED BY <1>1, <1>2, <1>3 DEF Apart, Line

\* So it has at most as many lines as there are products.
LEMMA CartsAreLines == Carts \subseteq Lines
<1>. SUFFICES ASSUME NEW s \in Carts PROVE s \in Lines
  OBVIOUS
<1>. DEFINE n == Len(s)
<1>1. /\ n \in Nat /\ DOMAIN s = 1..n /\ s \in Seq(Line)
      /\ \A k \in 1..n : s[k].id \in Items
      /\ \A k, m \in 1..n : s[k].id = s[m].id => k = m
      /\ s = <<>> <=> n = 0
  BY CartFacts
<1>2. s \in [1..n -> Line]
  BY <1>1
<1>. DEFINE f == [k \in 1..n |-> s[k].id]
<1>3. f \in Injection(1..n, Items)
  BY <1>1 DEF Injection, IsInjective
<1>4. IsFiniteSet(Items)
  BY CartPageAssumption
<1>5. Cardinality(1..n) <= Cardinality(Items)
  BY <1>3, <1>4, FS_Injection
<1>6. Cardinality(1..n) = n
  BY <1>1, FS_Interval
<1>7. Cardinality(Items) \in Nat
  BY <1>4, FS_CardinalityType
<1>8. s = <<>> \/ n \in 1..Cardinality(Items)
  BY <1>1, <1>5, <1>6, <1>7
<1>. HIDE DEF n
<1>. QED BY <1>2, <1>8 DEF Lines

\* The units of a product are those of its one line.
LEMMA UnitsIs ==
  ASSUME NEW lines \in Carts
  PROVE  /\ \A k \in 1..Len(lines) : Units(lines, lines[k].id) = lines[k].qty
         /\ \A i : (\A k \in 1..Len(lines) : lines[k].id # i) => Units(lines, i) = 0
         /\ \A i : Units(lines, i) \in 0..MaxUnits
<1>1. /\ DOMAIN lines = 1..Len(lines)
      /\ \A k \in 1..Len(lines) : lines[k].qty \in 1..MaxUnits
      /\ \A k, m \in 1..Len(lines) : lines[k].id = lines[m].id => k = m
      /\ MaxUnits \in Nat
  BY CartFacts, CartPageAssumption
<1>2. ASSUME NEW i PROVE /\ \A k \in 1..Len(lines) : lines[k].id = i => Units(lines, i) = lines[k].qty
                         /\ (\A k \in 1..Len(lines) : lines[k].id # i) => Units(lines, i) = 0
  <2>. DEFINE at == {k \in DOMAIN lines : lines[k].id = i}
  <2>1. Units(lines, i) = IF at = {} THEN 0 ELSE lines[CHOOSE k \in at : TRUE].qty
    BY DEF Units
  <2>2. ASSUME NEW k \in 1..Len(lines), lines[k].id = i PROVE Units(lines, i) = lines[k].qty
    <3>1. at = {k}
      BY <1>1, <2>2
    <3>2. (CHOOSE m \in at : TRUE) = k
      BY <3>1
    <3>. QED BY <2>1, <3>1, <3>2
  <2>3. (\A k \in 1..Len(lines) : lines[k].id # i) => at = {}
    BY <1>1
  <2>. QED BY <2>1, <2>2, <2>3
<1>3. ASSUME NEW i PROVE Units(lines, i) \in 0..MaxUnits
  <2>1. CASE \E k \in 1..Len(lines) : lines[k].id = i
    BY <1>1, <1>2, <2>1
  <2>2. CASE \A k \in 1..Len(lines) : lines[k].id # i
    BY <1>1, <1>2, <2>2
  <2>. QED BY <2>1, <2>2
<1>. QED BY <1>2, <1>3

LEMMA EmptyCart == <<>> \in Carts /\ \A i : Units(<<>>, i) = 0
<1>1. <<>> \in Seq(Line) /\ Len(<<>>) = 0
  OBVIOUS
<1>2. <<>> \in Carts
  BY <1>1 DEF Carts, Apart
<1>. QED BY <1>1, <1>2, UnitsIs

\* A function on an interval of line numbers is a sequence.
LEMMA LinesOf ==
  ASSUME NEW n \in Nat, NEW s \in [1..n -> Line]
  PROVE  s \in Seq(Line) /\ Len(s) = n
OBVIOUS

\* Carts with the same products in the same places.
LEMMA SamePlaces ==
  ASSUME NEW lines \in Carts, NEW s \in Seq(Line), Len(s) = Len(lines),
         \A k \in 1..Len(lines) : s[k].id = lines[k].id
  PROVE  /\ s \in Carts
         /\ \A j \in Items : (\A k \in 1..Len(lines) : lines[k].id = j => s[k].qty = lines[k].qty)
                              => Units(s, j) = Units(lines, j)
<1>1. /\ Len(lines) \in Nat
      /\ \A k, m \in 1..Len(lines) : lines[k].id = lines[m].id => k = m
  BY CartFacts
<1>2. s \in Carts
  BY <1>1 DEF Carts, Apart
<1>3. ASSUME NEW j \in Items, \A k \in 1..Len(lines) : lines[k].id = j => s[k].qty = lines[k].qty
      PROVE  Units(s, j) = Units(lines, j)
  <2>1. CASE \E k \in 1..Len(lines) : lines[k].id = j
    <3>1. PICK k \in 1..Len(lines) : lines[k].id = j
      BY <2>1
    <3>2. Units(lines, j) = lines[k].qty
      BY <3>1, UnitsIs
    <3>3. Units(s, j) = s[k].qty
      BY <3>1, <1>2, UnitsIs
    <3>. QED BY <3>1, <3>2, <3>3, <1>3
  <2>2. CASE \A k \in 1..Len(lines) : lines[k].id # j
    <3>1. Units(lines, j) = 0
      BY <2>2, UnitsIs
    <3>2. Units(s, j) = 0
      BY ZenonT(40), <2>2, <1>2, UnitsIs
    <3>. QED BY <3>1, <3>2
  <2>. QED BY <2>1, <2>2
<1>. QED BY <1>2, <1>3

\* add: one unit more of the product, the others as they are.
LEMMA OneMore ==
  ASSUME NEW lines \in Carts, NEW i \in Items, Units(lines, i) < MaxUnits
  PROVE  /\ WithOneMore(lines, i) \in Carts
         /\ \A j \in Items : Units(WithOneMore(lines, i), j) = Units(lines, j) + (IF j = i THEN 1 ELSE 0)
<1>. DEFINE n == Len(lines)
            s == WithOneMore(lines, i)
<1>1. /\ n \in Nat /\ DOMAIN lines = 1..n /\ lines \in Seq(Line)
      /\ \A k \in 1..n : lines[k] \in Line /\ lines[k].id \in Items /\ lines[k].qty \in 1..MaxUnits
      /\ \A k, m \in 1..n : lines[k].id = lines[m].id => k = m
  BY CartFacts
<1>2. MaxUnits \in Nat
  BY CartPageAssumption
<1>3. \A j \in Items : Units(lines, j) \in Nat
  BY <1>2, UnitsIs
<1>4. CASE \E k \in 1..n : lines[k].id = i
  <2>1. PICK k \in 1..n : lines[k].id = i
    BY <1>4
  <2>. DEFINE more == [lines[k] EXCEPT !.qty = lines[k].qty + 1]
  <2>2. Units(lines, i) = lines[k].qty
    BY <2>1, UnitsIs
  <2>3. more \in Line /\ more.id = i /\ more.qty = lines[k].qty + 1
    <3>1. lines[k].qty + 1 \in 1..MaxUnits
      BY <1>1, <1>2, <2>2
    <3>. QED BY <1>1, <2>1, <3>1 DEF Line
  <2>4. s = [m \in 1..n |-> IF m = k THEN more ELSE lines[m]]
    <3>1. s = [m \in 1..n |-> IF lines[m].id = i THEN [lines[m] EXCEPT !.qty = @ + 1] ELSE lines[m]]
      BY <1>1, <1>4 DEF WithOneMore
    <3>2. \A m \in 1..n : lines[m].id = i <=> m = k
      BY <1>1, <2>1
    <3>. QED BY <3>1, <3>2
  <2>. HIDE DEF s, more, n
  <2>5. s \in [1..n -> Line]
    BY <2>3, <2>4, <1>1
  <2>6. s \in Seq(Line) /\ Len(s) = n
    BY <2>5, <1>1, LinesOf
  <2>7. \A m \in 1..n : s[m].id = lines[m].id
    BY <2>1, <2>3, <2>4
  <2>8. s \in Carts
    BY <2>6, <2>7, SamePlaces DEF n
  <2>9. Units(s, i) = Units(lines, i) + 1
    <3>1. s[k].id = i /\ s[k].qty = lines[k].qty + 1
      BY <2>3, <2>4
    <3>2. Units(s, s[k].id) = s[k].qty
      BY <2>6, <2>8, UnitsIs
    <3>. QED BY <3>1, <3>2, <2>2
  <2>10. ASSUME NEW j \in Items, j # i PROVE Units(s, j) = Units(lines, j)
    <3>1. \A m \in 1..n : lines[m].id = j => s[m].qty = lines[m].qty
      BY <2>1, <2>4, <2>10
    <3>. QED BY <3>1, <2>6, <2>7, SamePlaces DEF n
  <2>. QED BY <2>8, <2>9, <2>10, <1>3 DEF s
<1>5. CASE \A k \in 1..n : lines[k].id # i
  <2>. DEFINE new == [id |-> i, qty |-> 1]
  <2>1. s = Append(lines, new)
    BY <1>1, <1>5 DEF WithOneMore
  <2>2. Units(lines, i) = 0
    BY <1>5, UnitsIs
  <2>3. new \in Line /\ new.id = i /\ new.qty = 1
    BY <2>2, <1>2 DEF Line
  <2>. HIDE DEF s, new
  <2>4. /\ s \in Seq(Line) /\ Len(s) = n + 1 /\ s[n + 1] = new
        /\ \A k \in 1..n : s[k] = lines[k]
    BY <2>1, <2>3, <1>1
  <2>. HIDE DEF n
  <2>5. \A k \in 1..(n + 1) : k \in 1..n \/ k = n + 1
    BY <1>1
  <2>6. \A k, m \in 1..(n + 1) : s[k].id = s[m].id => k = m
    BY <2>3, <2>4, <2>5, <1>1, <1>5
  <2>7. s \in Carts
    BY <2>4, <2>6 DEF Carts, Apart
  <2>8. Units(s, i) = 1
    <3>1. n + 1 \in 1..(n + 1)
      BY <1>1
    <3>. QED BY <3>1, <2>3, <2>4, <2>7, UnitsIs
  <2>9. ASSUME NEW j \in Items, j # i PROVE Units(s, j) = Units(lines, j)
    <3>1. CASE \E k \in 1..n : lines[k].id = j
      <4>1. PICK k \in 1..n : lines[k].id = j
        BY <3>1
      <4>2. k \in 1..(n + 1)
        BY <1>1
      <4>3. Units(lines, j) = lines[k].qty
        BY <4>1, UnitsIs DEF n
      <4>4. Units(s, j) = lines[k].qty
        BY <4>1, <4>2, <2>4, <2>7, UnitsIs
      <4>. QED BY <4>3, <4>4
    <3>2. CASE \A k \in 1..n : lines[k].id # j
      <4>1. \A k \in 1..(n + 1) : s[k].id # j
        BY <3>2, <2>3, <2>4, <2>5, <2>9
      <4>2. Units(s, j) = 0
        BY <4>1, <2>4, <2>7, UnitsIs
      <4>3. Units(lines, j) = 0
        BY <3>2, UnitsIs DEF n
      <4>. QED BY <4>2, <4>3
    <3>. QED BY <3>1, <3>2
  <2>. QED BY <2>2, <2>7, <2>8, <2>9, <1>3 DEF s
<1>. QED BY <1>4, <1>5

\* removeAt: the lines behind move up.
LEMMA LineRemoved ==
  ASSUME NEW s \in Seq(Line), NEW k \in 1..Len(s)
  PROVE  /\ RemoveAt(s, k) \in Seq(Line) /\ Len(RemoveAt(s, k)) = Len(s) - 1
         /\ \A m \in 1..(Len(s) - 1) : RemoveAt(s, k)[m] = IF m < k THEN s[m] ELSE s[m + 1]
<1>. DEFINE a == SubSeq(s, 1, k - 1)
            b == SubSeq(s, k + 1, Len(s))
<1>0. Len(s) \in Nat /\ k \in Nat /\ 1 <= k /\ k <= Len(s)
  OBVIOUS
<1>1. a \in Seq(Line) /\ Len(a) = k - 1 /\ \A m \in 1..(k - 1) : a[m] = s[m]
  BY <1>0
<1>2. b \in Seq(Line) /\ Len(b) = Len(s) - k /\ \A m \in 1..(Len(s) - k) : b[m] = s[m + k]
  BY <1>0
<1>3. RemoveAt(s, k) = a \o b
  BY DEF RemoveAt
<1>. HIDE DEF a, b
<1>4. a \o b \in Seq(Line) /\ Len(a \o b) = Len(s) - 1
  <2>1. a \in Seq(Line) /\ b \in Seq(Line)
    BY <1>1, <1>2
  <2>2. a \o b \in Seq(Line) /\ Len(a \o b) = Len(a) + Len(b)
    BY <2>1
  <2>3. (k - 1) + (Len(s) - k) = Len(s) - 1
    BY <1>0
  <2>. QED BY <2>2, <2>3, <1>1, <1>2
<1>5. ASSUME NEW m \in 1..(Len(s) - 1)
      PROVE  (a \o b)[m] = IF m < k THEN s[m] ELSE s[m + 1]
  <2>1. CASE m < k
    BY <2>1, <1>0, <1>1, <1>2
  <2>2. CASE ~(m < k)
    <3>1. m - (k - 1) \in 1..(Len(s) - k) /\ (m - (k - 1)) + k = m + 1
      BY <2>2, <1>0
    <3>2. (a \o b)[m] = b[m - (k - 1)]
      BY <2>2, <3>1, <1>0, <1>1, <1>2
    <3>. QED BY <2>2, <3>1, <3>2, <1>2
  <2>. QED BY <2>1, <2>2
<1>. QED BY <1>3, <1>4, <1>5

\* setQty: the product of the line gets its new quantity, the others keep theirs.
LEMMA NewQty ==
  ASSUME NEW lines \in Carts, NEW k \in 1..Len(lines), NEW q \in 0..MaxUnits
  PROVE  /\ WithQty(lines, k, q) \in Carts
         /\ \A j \in Items : Units(WithQty(lines, k, q), j)
                              = IF j = lines[k].id THEN q ELSE Units(lines, j)
<1>. DEFINE n == Len(lines)
            s == WithQty(lines, k, q)
<1>1. /\ n \in Nat /\ DOMAIN lines = 1..n /\ lines \in Seq(Line)
      /\ \A m \in 1..n : lines[m] \in Line /\ lines[m].id \in Items /\ lines[m].qty \in 1..MaxUnits
      /\ \A m, p \in 1..n : lines[m].id = lines[p].id => m = p
  BY CartFacts
<1>2. CASE q # 0
  <2>. DEFINE new == [lines[k] EXCEPT !.qty = q]
  <2>1. new \in Line /\ new.id = lines[k].id /\ new.qty = q
    BY <1>1, <1>2 DEF Line
  <2>2. s = [m \in 1..n |-> IF m = k THEN new ELSE lines[m]]
    BY <1>1, <1>2 DEF WithQty
  <2>. HIDE DEF s, new, n
  <2>3. s \in [1..n -> Line]
    BY <2>1, <2>2, <1>1
  <2>4. s \in Seq(Line) /\ Len(s) = n
    BY <2>3, <1>1, LinesOf
  <2>5. \A m \in 1..n : s[m].id = lines[m].id
    BY <2>1, <2>2
  <2>6. s \in Carts
    BY <2>4, <2>5, SamePlaces DEF n
  <2>7. Units(s, lines[k].id) = q
    <3>1. k \in 1..n /\ s[k].id = lines[k].id /\ s[k].qty = q
      BY <2>1, <2>2 DEF n
    <3>2. Units(s, s[k].id) = s[k].qty
      BY <3>1, <2>4, <2>6, UnitsIs
    <3>. QED BY <3>1, <3>2
  <2>8. ASSUME NEW j \in Items, j # lines[k].id PROVE Units(s, j) = Units(lines, j)
    <3>1. \A m \in 1..n : lines[m].id = j => s[m].qty = lines[m].qty
      BY <2>2, <2>8
    <3>. QED BY <3>1, <2>4, <2>5, SamePlaces DEF n
  <2>. QED BY <2>6, <2>7, <2>8 DEF s
<1>3. CASE q = 0
  <2>1. s = RemoveAt(lines, k)
    BY <1>3 DEF WithQty
  <2>. HIDE DEF s
  <2>2. /\ s \in Seq(Line) /\ Len(s) = n - 1
        /\ \A m \in 1..(n - 1) : s[m] = IF m < k THEN lines[m] ELSE lines[m + 1]
    BY <2>1, <1>1, LineRemoved
  <2>. DEFINE old(m) == IF m < k THEN m ELSE m + 1
  <2>3. \A m \in 1..(n - 1) : old(m) \in 1..n /\ old(m) # k /\ s[m] = lines[old(m)]
    BY <2>2, <1>1
  <2>4. \A m, p \in 1..(n - 1) : old(m) = old(p) => m = p
    BY <1>1
  <2>5. \A p \in 1..n : p # k => \E m \in 1..(n - 1) : old(m) = p
    <3>. SUFFICES ASSUME NEW p \in 1..n, p # k PROVE \E m \in 1..(n - 1) : old(m) = p
      OBVIOUS
    <3>1. CASE p < k
      <4>1. p \in 1..(n - 1) /\ old(p) = p
        BY <3>1, <1>1
      <4>. QED BY <4>1
    <3>2. CASE p > k
      <4>1. p - 1 \in 1..(n - 1) /\ old(p - 1) = p
        BY <3>2, <1>1
      <4>. QED BY <4>1
    <3>. QED BY <3>1, <3>2
  <2>6. ASSUME NEW m \in 1..(n - 1), NEW p \in 1..(n - 1), s[m].id = s[p].id PROVE m = p
    <3>1. old(m) = old(p)
      BY <2>3, <2>6, <1>1
    <3>. QED BY <3>1, <2>4
  <2>7. s \in Carts
    BY <2>2, <2>6 DEF Carts, Apart
  <2>8. Units(s, lines[k].id) = 0
    <3>1. \A m \in 1..Len(s) : s[m].id # lines[k].id
      BY <2>2, <2>3, <1>1
    <3>. QED BY <3>1, <2>7, UnitsIs
  <2>9. ASSUME NEW j \in Items, j # lines[k].id PROVE Units(s, j) = Units(lines, j)
    <3>1. CASE \E p \in 1..n : lines[p].id = j
      <4>1. PICK p \in 1..n : lines[p].id = j
        BY <3>1
      <4>2. PICK m \in 1..(n - 1) : old(m) = p
        BY <4>1, <2>5, <2>9
      <4>3. s[m] = lines[p]
        BY <4>2, <2>3
      <4>4. Units(lines, j) = lines[p].qty
        BY <4>1, UnitsIs
      <4>5. Units(s, j) = s[m].qty
        BY <4>1, <4>3, <2>2, <2>7, UnitsIs
      <4>. QED BY <4>3, <4>4, <4>5
    <3>2. CASE \A p \in 1..n : lines[p].id # j
      <4>1. \A m \in 1..Len(s) : s[m].id # j
        BY <3>2, <2>2, <2>3
      <4>2. Units(s, j) = 0
        BY <4>1, <2>7, UnitsIs
      <4>3. Units(lines, j) = 0
        BY <3>2, UnitsIs
      <4>. QED BY <4>2, <4>3
    <3>. QED BY <3>1, <3>2
  <2>. QED BY <2>7, <2>8, <2>9, <1>3 DEF s
<1>. QED BY <1>2, <1>3

-----------------------------------------------------------------------------
(* The invariant *)

Page ==
  [at : BOOLEAN, rows : Carts, coupon : Codes \cup {Nothing},
   quote : Keys \cup {Nothing}, err : BOOLEAN, seq : 0..MaxQuotes,
   lastKey : Keys \cup {Nothing}, timer : BOOLEAN, button : BOOLEAN,
   st : {"idle", "saving", "posting", "awaiting", "paid"},
   order : 0..MaxOrders, polls : 0..MaxPolls]
Quote == [tab : Tabs, seq : 1..MaxQuotes, key : Keys]
Merge == [tab : Tabs, lines : Carts, st : {"sent", "done"}]
Order == [lines : Carts, bank : {"asks", "yes", "no"},
          st : {"PENDING", "PAID", "FAILED"}, back : BOOLEAN]

Typed ==
  /\ cart \in Carts /\ page \in [Tabs -> Page]
  /\ quotes \subseteq Quote /\ merges \subseteq Merge
  /\ orders \in Seq(Order) /\ Len(orders) <= MaxOrders
  /\ \A o \in 1..Len(orders) : orders[o].lines # <<>>
  /\ added \in [Items -> 0..MaxUnits] /\ removed \in [Items -> Nat]
  /\ boxed \in [Items -> Nat] /\ unsure \in BOOLEAN

InFlow(pg) == pg.st \in {"saving", "posting", "awaiting"}
Waits(pg) == pg.st \in {"posting", "awaiting"}

\* One order or one move to the box at a time.
OneAtATime ==
  /\ \A t, u \in Tabs : InFlow(page[t]) /\ InFlow(page[u]) => t = u
  /\ \A m, n \in merges : m = n
  /\ merges # {} => \A t \in Tabs : ~InFlow(page[t])

\* ... and it is about the cart as it is.
AboutTheCart ==
  /\ \A t \in Tabs : InFlow(page[t]) => page[t].at
  /\ \A t \in Tabs : Waits(page[t]) =>
        page[t].order \in 1..Len(orders) /\ orders[page[t].order].lines = cart
  /\ \A m \in merges : /\ m.lines = cart /\ cart # <<>>
                        /\ page[m.tab].at /\ page[m.tab].rows # <<>>

\* An order is settled as the bank decided.
AsTheBankSaid ==
  \A o \in 1..Len(orders) : /\ orders[o].st = "PAID" => orders[o].bank = "yes"
                            /\ orders[o].st = "FAILED" => orders[o].bank = "no"

\* The lines are sold or boxed already, and still in the cart: the page has
\* not heard of it.
Taken ==
  \/ \E m \in merges : m.st = "done"
  \/ \E t \in Tabs : Waits(page[t]) /\ orders[page[t].order].st = "PAID"

\* The units the books show.
Shown(i) == (IF Taken THEN 0 ELSE Units(cart, i)) + removed[i] + Bought(i) + boxed[i]

Books ==
  /\ \A i \in Items : Units(cart, i) + removed[i] <= added[i]
  /\ \A i \in Items : added[i] <= Shown(i)
  /\ ~unsure => \A i \in Items : Shown(i) = added[i]

\* Without a doubt, an order that may still be paid has a page waiting for it.
Waited ==
  ~unsure => \A o \in 1..Len(orders) :
               orders[o].st = "PENDING" /\ orders[o].bank # "no"
               => \E t \in Tabs : Waits(page[t]) /\ page[t].order = o

Goods == OneAtATime /\ AboutTheCart /\ AsTheBankSaid /\ Books /\ Waited

\* What a page knows of its total: the last question is under way, or its
\* answer is what is shown.
Knows(t, pg, qs) ==
  /\ \A q \in qs : q.tab = t =>
        /\ pg.at /\ q.seq <= pg.seq
        /\ q.seq = pg.seq => q.key = pg.lastKey \/ \E c : pg.lastKey = <<<<>>, c>>
  /\ pg.at /\ pg.rows # <<>> /\ ~pg.timer /\ (\A q \in qs : ~(q.tab = t /\ q.seq = pg.seq))
     => pg.err \/ (pg.quote = pg.lastKey /\ Key(pg, pg.rows) = pg.lastKey)
  /\ pg.timer => pg.at

Asking == \A t \in Tabs : Knows(t, page[t], quotes)

IInv == Typed /\ Goods /\ Asking

-----------------------------------------------------------------------------
(* Counting *)

LEMMA UpTo ==
  ASSUME NEW n \in Nat
  PROVE  IsFiniteSet(1..n) /\ Cardinality(1..n) = n
BY FS_Interval

LEMMA UnitsNat ==
  ASSUME NEW lines \in Carts, NEW i
  PROVE  Units(lines, i) \in 0..MaxUnits /\ Units(lines, i) \in Nat
BY UnitsIs, CartPageAssumption

\* Below the bound in all, so below it each.
LEMMA TotalBound ==
  ASSUME NEW f \in [Items -> 0..MaxUnits], Total(f) < MaxUnits, NEW i \in Items
  PROVE  f[i] < MaxUnits
<1>. DEFINE U == {u \in Items \X (1..MaxUnits) : u[2] <= f[u[1]]}
            g == [n \in 1..MaxUnits |-> <<i, n>>]
<1>1. MaxUnits \in Nat /\ IsFiniteSet(Items)
  BY CartPageAssumption
<1>2. IsFiniteSet(1..MaxUnits) /\ Cardinality(1..MaxUnits) = MaxUnits
  BY <1>1, FS_Interval
<1>3. IsFiniteSet(Items \X (1..MaxUnits))
  BY <1>1, <1>2, FS_Product
<1>4. IsFiniteSet(U) /\ Cardinality(U) \in Nat
  BY <1>3, FS_Subset, FS_CardinalityType
<1>. SUFFICES ASSUME f[i] = MaxUnits PROVE FALSE
  BY <1>1
<1>5. g \in [1..MaxUnits -> U]
  BY <1>1
<1>6. g \in Injection(1..MaxUnits, U)
  BY <1>5 DEF Injection, IsInjective
<1>7. Cardinality(1..MaxUnits) <= Cardinality(U)
  BY <1>4, <1>6, FS_Injection
<1>8. Total(f) = Cardinality(U)
  BY DEF Total
<1>. HIDE DEF U, g
<1>. QED BY <1>1, <1>2, <1>4, <1>7, <1>8

\* The units of product i that these orders have sold, one pair for each.
Sold(ords, i) ==
  {u \in (DOMAIN ords) \X (1..MaxUnits) :
     ords[u[1]].st = "PAID" /\ u[2] <= Units(ords[u[1]].lines, i)}

LEMMA SoldFinite ==
  ASSUME NEW ords \in Seq(Order), NEW i
  PROVE  IsFiniteSet(Sold(ords, i)) /\ Cardinality(Sold(ords, i)) \in Nat
<1>1. MaxUnits \in Nat /\ Len(ords) \in Nat /\ DOMAIN ords = 1..Len(ords)
  BY CartPageAssumption
<1>2. IsFiniteSet(1..MaxUnits)
  BY <1>1, FS_Interval
<1>3. IsFiniteSet(1..Len(ords))
  BY <1>1, FS_Interval
<1>4. IsFiniteSet((1..Len(ords)) \X (1..MaxUnits))
  BY <1>2, <1>3, FS_Product
<1>5. Sold(ords, i) \subseteq (1..Len(ords)) \X (1..MaxUnits)
  BY <1>1 DEF Sold
<1>. QED BY <1>4, <1>5, FS_Subset, FS_CardinalityType

\* What is not paid adds nothing.
LEMMA SoldSame ==
  ASSUME NEW ords \in Seq(Order), NEW more \in Seq(Order), NEW i,
         Len(ords) <= Len(more),
         \A o \in 1..Len(ords) : more[o].lines = ords[o].lines /\ (more[o].st = "PAID" <=> ords[o].st = "PAID"),
         \A o \in 1..Len(more) : o \notin 1..Len(ords) => more[o].st # "PAID"
  PROVE  Sold(more, i) = Sold(ords, i)
<1>1. /\ Len(ords) \in Nat /\ DOMAIN ords = 1..Len(ords)
      /\ Len(more) \in Nat /\ DOMAIN more = 1..Len(more)
  OBVIOUS
<1>2. 1..Len(ords) \subseteq 1..Len(more)
  BY <1>1
<1>3. ASSUME NEW o, NEW n PROVE <<o, n>> \in Sold(more, i) <=> <<o, n>> \in Sold(ords, i)
  BY <1>1, <1>2 DEF Sold
<1>. QED BY <1>3 DEF Sold

\* An order that is paid adds its units.
LEMMA SoldMore ==
  ASSUME NEW ords \in Seq(Order), NEW more \in Seq(Order), NEW i, NEW p \in 1..Len(ords),
         Len(ords) = Len(more), ords[p].st # "PAID", more[p].st = "PAID",
         \A o \in 1..Len(ords) : more[o].lines = ords[o].lines,
         \A o \in 1..Len(ords) : o # p => (more[o].st = "PAID" <=> ords[o].st = "PAID")
  PROVE  Cardinality(Sold(more, i)) = Cardinality(Sold(ords, i)) + Units(ords[p].lines, i)
<1>. DEFINE c == Units(ords[p].lines, i)
            new == {p} \X (1..c)
<1>1. /\ Len(ords) \in Nat /\ DOMAIN ords = 1..Len(ords) /\ DOMAIN more = 1..Len(ords)
      /\ MaxUnits \in Nat
  BY CartPageAssumption
<1>2. c \in 0..MaxUnits
  <2>1. ords[p] \in Order
    OBVIOUS
  <2>2. ords[p].lines \in Carts
    BY <2>1 DEF Order
  <2>. QED BY <2>2, UnitsNat
<1>. HIDE DEF c
<1>3. c \in Nat /\ c = Units(more[p].lines, i)
  BY <1>1, <1>2 DEF c
<1>4. ASSUME NEW o, NEW n
      PROVE  <<o, n>> \in Sold(more, i) <=> <<o, n>> \in Sold(ords, i) \cup new
  <2>1. CASE o = p
    BY <2>1, <1>1, <1>2, <1>3 DEF Sold
  <2>2. CASE o # p
    BY <2>2, <1>1 DEF Sold
  <2>. QED BY <2>1, <2>2
<1>5. Sold(more, i) = Sold(ords, i) \cup new
  <2>1. Sold(more, i) \subseteq Sold(ords, i) \cup new
    BY <1>4 DEF Sold
  <2>2. Sold(ords, i) \cup new \subseteq Sold(more, i)
    BY <1>4 DEF Sold
  <2>. QED BY <2>1, <2>2
<1>6. Sold(ords, i) \cap new = {}
  BY DEF Sold
<1>7. IsFiniteSet(1..c) /\ Cardinality(1..c) = c
  BY <1>3, UpTo
<1>8. IsFiniteSet({p}) /\ Cardinality({p}) = 1
  BY FS_Singleton
<1>9. IsFiniteSet(new) /\ Cardinality(new) = 1 * c
  <2>1. /\ IsFiniteSet({p} \X (1..c))
        /\ Cardinality({p} \X (1..c)) = Cardinality({p}) * Cardinality(1..c)
    BY <1>7, <1>8, FS_Product
  <2>. QED BY <1>7, <1>8, <2>1
<1>10. IsFiniteSet(Sold(ords, i)) /\ Cardinality(Sold(ords, i)) \in Nat
  BY SoldFinite
<1>. HIDE DEF new
<1>11. Cardinality(Sold(ords, i) \cup new)
        = Cardinality(Sold(ords, i)) + Cardinality(new) - Cardinality(Sold(ords, i) \cap new)
  BY <1>9, <1>10, FS_Union
<1>12. Cardinality(Sold(ords, i) \cap new) = 0
  BY <1>6, FS_EmptySet
<1>. QED BY <1>3, <1>5, <1>9, <1>10, <1>11, <1>12 DEF c

-----------------------------------------------------------------------------
(* The page's drawing *)

LEMMA KeysAre ==
  ASSUME NEW pg \in Page, NEW lines \in Carts
  PROVE  Key(pg, lines) \in Keys /\ Key(pg, lines) # Nothing /\ Key(pg, lines)[1] = lines
BY CartsAreLines, NothingIsNoValue DEF Key, Keys, Page

LEMMA DrawnIs ==
  ASSUME NEW pg \in Page, NEW lines \in Carts
  PROVE  LET d == Drawn(pg, lines) IN
         /\ d \in Page /\ d.rows = lines /\ d.quote = (IF lines = <<>> THEN Nothing ELSE pg.quote)
         /\ d.at = pg.at /\ d.coupon = pg.coupon /\ d.err = pg.err /\ d.seq = pg.seq
         /\ d.lastKey = pg.lastKey /\ d.timer = pg.timer /\ d.st = pg.st
         /\ d.order = pg.order /\ d.polls = pg.polls
BY DEF Drawn, Page

LEMMA PricedIs ==
  ASSUME NEW pg \in Page, NEW lines \in Carts
  PROVE  LET d == DrawnAndPriced(pg, lines) IN
         /\ d \in Page /\ d.rows = lines /\ d.quote = (IF lines = <<>> THEN Nothing ELSE pg.quote)
         /\ d.at = pg.at /\ d.coupon = pg.coupon /\ d.err = pg.err /\ d.seq = pg.seq
         /\ d.lastKey = pg.lastKey /\ d.st = pg.st /\ d.order = pg.order /\ d.polls = pg.polls
         /\ d.timer = (pg.timer \/ (lines # <<>> /\ Key(pg, lines) # pg.lastKey))
<1>. DEFINE e == Drawn(pg, lines)
            on == pg.timer \/ (lines # <<>> /\ Key(pg, lines) # pg.lastKey)
<1>1. /\ e \in Page /\ e.rows = lines /\ e.quote = (IF lines = <<>> THEN Nothing ELSE pg.quote)
      /\ e.at = pg.at /\ e.coupon = pg.coupon /\ e.err = pg.err /\ e.seq = pg.seq
      /\ e.lastKey = pg.lastKey /\ e.timer = pg.timer /\ e.st = pg.st
      /\ e.order = pg.order /\ e.polls = pg.polls
  BY DrawnIs
<1>2. DrawnAndPriced(pg, lines) = [e EXCEPT !.timer = @ \/ (lines # <<>> /\ Key(pg, lines) # pg.lastKey)]
  BY DEF DrawnAndPriced
<1>. HIDE DEF e
<1>3. DrawnAndPriced(pg, lines) = [e EXCEPT !.timer = on]
  BY <1>1, <1>2 DEF Page
<1>4. on \in BOOLEAN
  BY DEF Page
<1>. HIDE DEF on
<1>. QED BY ZenonT(40), <1>1, <1>3, <1>4 DEF Page, on

LEMMA AskedIs ==
  ASSUME NEW pg \in Page, NEW lines \in Carts, pg.seq < MaxQuotes
  PROVE  LET d == Asked(pg, lines) IN
         /\ d \in Page /\ d.at = pg.at /\ d.coupon = pg.coupon /\ d.st = pg.st
         /\ d.order = pg.order /\ d.polls = pg.polls /\ ~d.timer /\ d.lastKey = Key(pg, lines)
         /\ lines = <<>> => d.rows = <<>> /\ d.seq = pg.seq
         /\ lines # <<>> => d.rows = pg.rows /\ d.seq = pg.seq + 1
<1>1. Key(pg, lines) \in Keys
  BY KeysAre
<1>2. MaxQuotes \in Nat /\ pg.seq \in 0..MaxQuotes
  BY CartPageAssumption DEF Page
<1>3. CASE lines # <<>>
  <2>1. Asked(pg, lines) = [pg EXCEPT !.timer = FALSE, !.lastKey = Key(pg, lines), !.seq = pg.seq + 1]
    BY <1>3 DEF Asked, Page
  <2>2. pg.seq + 1 \in 0..MaxQuotes
    BY <1>2
  <2>. QED BY ZenonT(40), <1>1, <1>3, <2>1, <2>2 DEF Page
<1>4. CASE lines = <<>>
  <2>. DEFINE e == [pg EXCEPT !.timer = FALSE, !.lastKey = Key(pg, lines), !.err = FALSE]
  <2>1. /\ e \in Page /\ e.at = pg.at /\ e.coupon = pg.coupon /\ e.st = pg.st /\ e.order = pg.order
        /\ e.polls = pg.polls /\ ~e.timer /\ e.lastKey = Key(pg, lines) /\ e.seq = pg.seq
    BY <1>1 DEF Page
  <2>2. Asked(pg, lines) = Drawn(e, lines)
    BY <1>4 DEF Asked
  <2>. HIDE DEF e
  <2>. QED BY <1>4, <2>1, <2>2, DrawnIs
<1>. QED BY <1>3, <1>4

LEMMA BlankIs == Blank \in Page
BY EmptyCart, CartPageAssumption DEF Blank, Page

LEMMA LoadedIs ==
  ASSUME cart \in Carts
  PROVE  /\ Loaded \in Page /\ Loaded.at /\ Loaded.rows = cart /\ Loaded.st = "idle"
         /\ Loaded.seq = 0 /\ Loaded.timer = (cart # <<>>)
<1>. DEFINE e == [Blank EXCEPT !.at = TRUE]
<1>1. e \in Page /\ e.at /\ e.st = "idle" /\ e.seq = 0 /\ ~e.timer /\ e.lastKey = Nothing
  BY BlankIs DEF Blank, Page
<1>2. Loaded = DrawnAndPriced(e, cart)
  BY DEF Loaded
<1>. HIDE DEF e
<1>. QED BY <1>1, <1>2, PricedIs, KeysAre

-----------------------------------------------------------------------------
(* The total: what a page knows after each of its steps *)

LEMMA KnowsSame ==
  ASSUME NEW t, NEW qs, NEW pg \in Page, NEW new \in Page, Knows(t, pg, qs),
         new.at = pg.at, new.rows = pg.rows, new.coupon = pg.coupon, new.quote = pg.quote,
         new.err = pg.err, new.seq = pg.seq, new.lastKey = pg.lastKey, new.timer = pg.timer
  PROVE  Knows(t, new, qs)
BY DEF Knows, Key

LEMMA KnowsPriced ==
  ASSUME NEW t, NEW qs, NEW pg \in Page, Knows(t, pg, qs), NEW lines \in Carts,
         pg.at, pg.rows # <<>> \/ lines = <<>>
  PROVE  Knows(t, DrawnAndPriced(pg, lines), qs)
<1>. DEFINE d == DrawnAndPriced(pg, lines)
<1>1. /\ d.rows = lines /\ d.quote = (IF lines = <<>> THEN Nothing ELSE pg.quote)
      /\ d.at = pg.at /\ d.coupon = pg.coupon /\ d.err = pg.err /\ d.seq = pg.seq
      /\ d.lastKey = pg.lastKey
      /\ d.timer = (pg.timer \/ (lines # <<>> /\ Key(pg, lines) # pg.lastKey))
  BY ZenonT(40), PricedIs
<1>2. Key(d, d.rows) = Key(pg, lines)
  BY <1>1 DEF Key
<1>. HIDE DEF d
<1>3. ASSUME d.at, d.rows # <<>>, ~d.timer, \A q \in qs : ~(q.tab = t /\ q.seq = d.seq)
      PROVE  d.err \/ (d.quote = d.lastKey /\ Key(d, d.rows) = d.lastKey)
  <2>1. pg.at /\ pg.rows # <<>> /\ ~pg.timer /\ \A q \in qs : ~(q.tab = t /\ q.seq = pg.seq)
    BY <1>1, <1>3
  <2>2. pg.err \/ pg.quote = pg.lastKey
    BY <2>1 DEF Knows
  <2>3. Key(pg, lines) = pg.lastKey /\ lines # <<>>
    BY <1>1, <1>3
  <2>. QED BY <1>1, <1>2, <2>2, <2>3
<1>4. \A q \in qs : q.tab = t =>
        /\ d.at /\ q.seq <= d.seq
        /\ q.seq = d.seq => q.key = d.lastKey \/ \E c : d.lastKey = <<<<>>, c>>
  BY <1>1 DEF Knows
<1>5. Knows(t, d, qs)
  BY <1>1, <1>3, <1>4 DEF Knows
<1>. QED BY <1>5 DEF d

LEMMA KnowsAsked ==
  ASSUME NEW t, NEW qs, NEW pg \in Page, pg.at, pg.seq < MaxQuotes, NEW lines \in Carts,
         \A q \in qs : q.tab = t => q.seq \in Nat /\ q.seq <= pg.seq
  PROVE  Knows(t, Asked(pg, lines),
               IF lines = <<>> THEN qs
               ELSE qs \cup {[tab |-> t, seq |-> pg.seq + 1, key |-> Key(pg, lines)]})
<1>. DEFINE d == Asked(pg, lines)
            new == [tab |-> t, seq |-> pg.seq + 1, key |-> Key(pg, lines)]
<1>1. /\ d.at /\ ~d.timer /\ d.lastKey = Key(pg, lines)
      /\ lines = <<>> => d.rows = <<>> /\ d.seq = pg.seq
      /\ lines # <<>> => d.seq = pg.seq + 1
  BY AskedIs
<1>2. pg.seq \in Nat
  BY CartPageAssumption DEF Page
<1>3. new.tab = t /\ new.seq = pg.seq + 1 /\ new.key = Key(pg, lines)
  OBVIOUS
<1>. HIDE DEF d, new
<1>4. CASE lines = <<>>
  <2>1. d.lastKey = <<<<>>, pg.coupon>>
    BY <1>1, <1>4 DEF Key
  <2>2. Knows(t, d, qs)
    BY <1>1, <1>4, <2>1 DEF Knows
  <2>. QED BY <1>4, <2>2 DEF d
<1>5. CASE lines # <<>>
  <2>1. ASSUME NEW q \in qs \cup {new}, q.tab = t
        PROVE  q.seq <= d.seq /\ (q.seq = d.seq => q.key = d.lastKey)
    <3>1. CASE q \in qs
      BY <2>1, <3>1, <1>1, <1>2, <1>5
    <3>2. CASE q = new
      BY <3>2, <1>1, <1>2, <1>3, <1>5
    <3>. QED BY <2>1, <3>1, <3>2
  <2>2. new \in qs \cup {new} /\ new.tab = t /\ new.seq = d.seq
    BY <1>1, <1>3, <1>5
  <2>3. Knows(t, d, qs \cup {new})
    BY <1>1, <2>1, <2>2 DEF Knows
  <2>. QED BY <1>5, <2>3 DEF d, new
<1>. QED BY <1>4, <1>5

\* A page that has just been loaded, and one that is gone.
LEMMA KnowsLoaded ==
  ASSUME NEW t, NEW qs, NEW pg \in Page, \A q \in qs : q.tab # t,
         pg.timer \/ pg.rows = <<>>, pg.timer => pg.at
  PROVE  Knows(t, pg, qs)
BY DEF Knows

LEMMA OtherPages ==
  ASSUME Typed, Asking, NEW t \in Tabs, NEW new, page' = [page EXCEPT ![t] = new],
         Knows(t, new, quotes'),
         \A q \in quotes' : q.tab # t => q \in quotes,
         \A q \in quotes : q.tab # t => q \in quotes'
  PROVE  Asking'
<1>. SUFFICES ASSUME NEW u \in Tabs PROVE Knows(u, page'[u], quotes')
  BY DEF Asking
<1>1. page \in [Tabs -> Page]
  BY DEF Typed
<1>2. CASE u = t
  <2>1. page'[u] = new
    BY <1>1, <1>2
  <2>. QED BY <1>2, <2>1
<1>3. CASE u # t
  <2>1. page'[u] = page[u]
    BY <1>1, <1>3
  <2>2. Knows(u, page[u], quotes)
    BY DEF Asking
  <2>3. Knows(u, page[u], quotes')
    BY <1>3, <2>2 DEF Knows
  <2>. QED BY <2>1, <2>3
<1>. QED BY <1>2, <1>3

-----------------------------------------------------------------------------
(* The goods *)

LEMMA OrderFacts ==
  ASSUME Typed, NEW o \in 1..Len(orders)
  PROVE  /\ orders[o] \in Order /\ orders[o].lines \in Carts /\ orders[o].lines # <<>>
         /\ DOMAIN orders = 1..Len(orders) /\ Len(orders) \in Nat
<1>1. orders \in Seq(Order) /\ orders[o].lines # <<>>
  BY DEF Typed
<1>2. orders[o] \in Order
  BY <1>1
<1>. QED BY <1>1, <1>2 DEF Order

\* What a patient shopper waits for before doing anything else.
LEMMA FreeMeans ==
  ASSUME Patient, Typed, Free
  PROVE  merges = {} /\ ~Taken /\ \A t \in Tabs : ~InFlow(page[t]) /\ ~Waits(page[t])
<1>1. \A t \in Tabs : ~Busy(t)
  BY DEF Patient, Free
<1>2. \A m \in merges : m.tab \in Tabs
  BY DEF Typed, Merge
<1>3. merges = {}
  BY <1>1, <1>2 DEF Busy, Merging
<1>4. \A t \in Tabs : ~InFlow(page[t]) /\ ~Waits(page[t])
  BY <1>1 DEF Busy, InFlow, Waits
<1>. QED BY <1>3, <1>4 DEF Taken

LEMMA BoughtNat ==
  ASSUME Typed, NEW i
  PROVE  Bought(i) \in Nat /\ Bought(i) = Cardinality(Sold(orders, i))
<1>1. Bought(i) = Cardinality(Sold(orders, i))
  BY DEF Bought, Sold
<1>. QED BY <1>1, SoldFinite DEF Typed

LEMMA CountsAre ==
  ASSUME Typed, NEW i \in Items
  PROVE  /\ Units(cart, i) \in Nat /\ Bought(i) \in Nat /\ added[i] \in Nat
         /\ removed[i] \in Nat /\ boxed[i] \in Nat /\ MaxUnits \in Nat
         /\ added[i] <= MaxUnits
<1>1. MaxUnits \in Nat
  BY CartPageAssumption
<1>2. added[i] \in 0..MaxUnits /\ removed[i] \in Nat /\ boxed[i] \in Nat /\ cart \in Carts
  BY DEF Typed
<1>. QED BY <1>1, <1>2, UnitsNat, BoughtNat

\* The books are as before when nothing they show has moved.
LEMMA BooksSame ==
  ASSUME Books, UNCHANGED <<cart, added, removed, boxed, unsure>>, Taken' <=> Taken,
         \A i \in Items : Bought(i)' = Bought(i)
  PROVE  Books'
<1>1. ASSUME NEW i \in Items PROVE Shown(i)' = Shown(i)
  BY DEF Shown
<1>. QED BY <1>1 DEF Books

\* The same orders, as far as the books look at them.
SameOrders(ords, more) ==
  /\ more \in Seq(Order) /\ Len(more) = Len(ords)
  /\ \A o \in 1..Len(ords) : /\ more[o].lines = ords[o].lines
                             /\ more[o].st = ords[o].st /\ more[o].bank = ords[o].bank

LEMMA BoughtSame ==
  ASSUME Typed, SameOrders(orders, orders'), NEW i
  PROVE  Bought(i)' = Bought(i)
<1>1. orders \in Seq(Order) /\ orders' \in Seq(Order) /\ Len(orders') = Len(orders)
  BY DEF Typed, SameOrders
<1>2. Len(orders) \in Nat
  BY <1>1
<1>3. Sold(orders', i) = Sold(orders, i)
  BY <1>1, <1>2, SoldSame DEF SameOrders
<1>4. Bought(i) = Cardinality(Sold(orders, i)) /\ Bought(i)' = Cardinality(Sold(orders', i))
  BY DEF Bought, Sold
<1>. QED BY <1>3, <1>4

\* A step of one page that neither starts nor ends an order, nor leaves a
\* move to the box without its page.
LEMMA QuietStep ==
  ASSUME Typed, Goods, NEW t \in Tabs, NEW new \in Page, page' = [page EXCEPT ![t] = new],
         InFlow(new) <=> InFlow(page[t]), Waits(new) <=> Waits(page[t]),
         Waits(new) => new.order = page[t].order, InFlow(new) => new.at,
         Merging(t) => new.at /\ new.rows # <<>>,
         quotes' \subseteq Quote, SameOrders(orders, orders'),
         UNCHANGED <<cart, merges, ledger>>
  PROVE  Typed' /\ Goods'
<1>1. page \in [Tabs -> Page]
  BY DEF Typed
<1>2. page' \in [Tabs -> Page] /\ page'[t] = new /\ \A u \in Tabs : u # t => page'[u] = page[u]
  BY <1>1
<1>3. /\ cart' = cart /\ merges' = merges /\ added' = added /\ removed' = removed
      /\ boxed' = boxed /\ unsure' = unsure /\ orders' \in Seq(Order) /\ Len(orders') = Len(orders)
      /\ \A o \in 1..Len(orders) : /\ orders'[o].lines = orders[o].lines
                                 /\ orders'[o].st = orders[o].st /\ orders'[o].bank = orders[o].bank
  BY DEF ledger, SameOrders
<1>4. Typed'
  BY <1>2, <1>3 DEF Typed
<1>5. \A u \in Tabs :
        /\ InFlow(page'[u]) <=> InFlow(page[u])
        /\ Waits(page'[u]) <=> Waits(page[u])
        /\ Waits(page[u]) => page'[u].order = page[u].order
  BY <1>2
<1>6. OneAtATime'
  BY <1>3, <1>5 DEF OneAtATime, Goods
<1>7. AboutTheCart'
  <2>1. \A u \in Tabs : InFlow(page'[u]) => page'[u].at
    BY <1>2, <1>5 DEF AboutTheCart, Goods
  <2>2. \A u \in Tabs : Waits(page'[u]) =>
          page'[u].order \in 1..Len(orders) /\ orders'[page'[u].order].lines = cart
    BY <1>3, <1>5 DEF AboutTheCart, Goods
  <2>3. ASSUME NEW m \in merges PROVE page'[m.tab].at /\ page'[m.tab].rows # <<>>
    <3>1. m.tab \in Tabs
      BY DEF Typed, Merge
    <3>2. CASE m.tab = t
      BY <3>2, <1>2 DEF Merging
    <3>3. CASE m.tab # t
      BY <3>1, <3>3, <1>2 DEF AboutTheCart, Goods
    <3>. QED BY <3>2, <3>3
  <2>. QED BY <1>3, <2>1, <2>2, <2>3 DEF AboutTheCart, Goods
<1>8. AsTheBankSaid'
  BY <1>3 DEF AsTheBankSaid, Goods
<1>9. Taken' <=> Taken
  <2>1. \A u \in Tabs : Waits(page[u]) => page[u].order \in 1..Len(orders)
    BY DEF AboutTheCart, Goods
  <2>. QED BY <1>3, <1>5, <2>1 DEF Taken
<1>10. \A i \in Items : Bought(i)' = Bought(i)
  BY BoughtSame
<1>11. Books'
  BY <1>3, <1>9, <1>10, BooksSame DEF Goods
<1>12. Waited'
  BY <1>3, <1>5 DEF Waited, Goods
<1>. QED BY <1>4, <1>6, <1>7, <1>8, <1>11, <1>12 DEF Goods

LEMMA QuietPage ==
  ASSUME Typed, Goods, NEW t \in Tabs, NEW new \in Page, page' = [page EXCEPT ![t] = new],
         InFlow(new) <=> InFlow(page[t]), Waits(new) <=> Waits(page[t]),
         Waits(new) => new.order = page[t].order, InFlow(new) => new.at,
         Merging(t) => new.at /\ new.rows # <<>>,
         quotes' \subseteq Quote, UNCHANGED <<cart, merges, orders, ledger>>
  PROVE  Typed' /\ Goods'
<1>1. SameOrders(orders, orders')
  BY DEF Typed, SameOrders
<1>. QED BY <1>1, QuietStep

-----------------------------------------------------------------------------
(* The steps that are about the page alone *)

LEMMA PageFacts ==
  ASSUME Typed, NEW t \in Tabs
  PROVE  /\ page[t] \in Page /\ page[t].seq \in Nat /\ page[t].at \in BOOLEAN
         /\ page[t].rows \in Carts /\ cart \in Carts /\ page \in [Tabs -> Page]
<1>1. page \in [Tabs -> Page] /\ cart \in Carts
  BY DEF Typed
<1>2. page[t] \in Page /\ MaxQuotes \in Nat
  BY <1>1, CartPageAssumption
<1>. QED BY <1>1, <1>2 DEF Page

LEMMA QuoteFacts ==
  ASSUME Typed, NEW q \in quotes
  PROVE  q.tab \in Tabs /\ q.seq \in Nat /\ q.seq >= 1 /\ q.key \in Keys
<1>1. q \in Quote /\ MaxQuotes \in Nat
  BY CartPageAssumption DEF Typed
<1>. QED BY <1>1 DEF Quote

\* While lines are on their way to the box, they are in the cart and shown.
LEMMA MergingMeans ==
  ASSUME Goods, NEW t, Merging(t)
  PROVE  cart # <<>> /\ page[t].at /\ page[t].rows # <<>>
BY DEF Merging, Goods, AboutTheCart

LEMMA OpenCartKept ==
  ASSUME IInv, NEW t \in Tabs, OpenCart(t)
  PROVE  IInv'
<1>1. /\ ~page[t].at /\ page' = [page EXCEPT ![t] = Loaded] /\ quotes' = quotes
      /\ UNCHANGED <<cart, merges, orders, ledger>> /\ Typed /\ Goods /\ Asking
  BY DEF OpenCart, IInv
<1>2. page[t] \in Page /\ cart \in Carts
  BY <1>1, PageFacts
<1>3. /\ Loaded \in Page /\ Loaded.at /\ Loaded.rows = cart /\ Loaded.st = "idle"
      /\ Loaded.timer = (cart # <<>>)
  BY <1>2, LoadedIs
<1>4. ~InFlow(page[t]) /\ ~Waits(page[t]) /\ ~Merging(t)
  BY <1>1, MergingMeans DEF Goods, AboutTheCart, InFlow, Waits
<1>5. ~InFlow(Loaded) /\ ~Waits(Loaded)
  BY <1>3 DEF InFlow, Waits
<1>6. Typed' /\ Goods'
  BY <1>1, <1>3, <1>4, <1>5, QuietPage DEF Typed
<1>7. \A q \in quotes : q.tab # t
  BY <1>1 DEF Asking, Knows
<1>8. Knows(t, Loaded, quotes')
  BY <1>1, <1>3, <1>7, KnowsLoaded
<1>9. Asking'
  BY <1>1, <1>8, OtherPages
<1>. QED BY <1>6, <1>9 DEF IInv

LEMMA LeaveCartKept ==
  ASSUME Patient, IInv, NEW t \in Tabs, LeaveCart(t)
  PROVE  IInv'
<1>1. /\ Free /\ page' = [page EXCEPT ![t] = Blank] /\ quotes' = {q \in quotes : q.tab # t}
      /\ UNCHANGED <<cart, orders, ledger>> /\ Typed /\ Goods /\ Asking
  BY DEF LeaveCart, IInv
<1>2. merges = {} /\ ~InFlow(page[t]) /\ ~Waits(page[t])
  BY <1>1, FreeMeans
<1>3. UNCHANGED <<cart, merges, orders, ledger>>
  <2>1. merges' = {}
    BY <1>2 DEF LeaveCart
  <2>. QED BY <1>1, <1>2, <2>1
<1>4. /\ Blank \in Page /\ ~InFlow(Blank) /\ ~Waits(Blank) /\ ~Blank.timer
      /\ Blank.rows = <<>>
  BY BlankIs DEF Blank, InFlow, Waits
<1>5. ~Merging(t)
  BY <1>2 DEF Merging
<1>6. quotes' \subseteq Quote
  BY <1>1 DEF Typed
<1>7. Typed' /\ Goods'
  BY <1>1, <1>2, <1>3, <1>4, <1>5, <1>6, QuietPage
<1>8. \A q \in quotes' : q.tab # t
  BY <1>1
<1>9. Knows(t, Blank, quotes')
  BY <1>4, <1>8, KnowsLoaded
<1>10. Asking'
  BY <1>1, <1>9, OtherPages
<1>. QED BY <1>7, <1>10 DEF IInv

\* A question: the page goes on from pg, which is in the place of page[t].
LEMMA AskKept ==
  ASSUME IInv, NEW t \in Tabs, NEW pg \in Page, pg.at, pg.seq = page[t].seq,
         pg.st = page[t].st, pg.order = page[t].order, Merging(t) => pg.rows # <<>>,
         Ask(t, pg), UNCHANGED <<cart, merges, orders, ledger>>
  PROVE  IInv'
<1>. DEFINE new == Asked(pg, cart)
            asked == [tab |-> t, seq |-> pg.seq + 1, key |-> Key(pg, cart)]
<1>1. /\ pg.seq < MaxQuotes /\ page' = [page EXCEPT ![t] = new]
      /\ quotes' = (IF cart = <<>> THEN quotes ELSE quotes \cup {asked})
      /\ Typed /\ Goods /\ Asking
  BY DEF Ask, IInv
<1>2. cart \in Carts /\ pg.seq \in Nat /\ MaxQuotes \in Nat
  BY <1>1, PageFacts, CartPageAssumption
<1>3. /\ new \in Page /\ new.at = pg.at /\ new.st = pg.st /\ new.order = pg.order
      /\ cart # <<>> => new.rows = pg.rows
  BY <1>1, <1>2, AskedIs
<1>4. asked \in Quote /\ asked.tab = t
  <2>1. pg.seq + 1 \in 1..MaxQuotes /\ Key(pg, cart) \in Keys
    BY <1>1, <1>2, KeysAre
  <2>. QED BY <2>1 DEF Quote
<1>5. quotes' \subseteq Quote
  BY <1>1, <1>4 DEF Typed
<1>6. Knows(t, new, quotes')
  <2>1. \A q \in quotes : q.tab = t => q.seq \in Nat /\ q.seq <= pg.seq
    BY <1>1, QuoteFacts DEF Asking, Knows
  <2>. QED BY <1>1, <1>2, <2>1, KnowsAsked
<1>. HIDE DEF new, asked
<1>7. Typed' /\ Goods'
  <2>1. InFlow(new) <=> InFlow(page[t])
    BY <1>3 DEF InFlow
  <2>2. Waits(new) <=> Waits(page[t])
    BY <1>3 DEF Waits
  <2>3. Merging(t) => new.rows # <<>>
    BY <1>1, <1>3, MergingMeans
  <2>. QED BY <1>1, <1>3, <1>5, <2>1, <2>2, <2>3, QuietPage
<1>8. Asking'
  BY <1>1, <1>4, <1>6, OtherPages
<1>. QED BY <1>7, <1>8 DEF IInv

LEMMA AskForTotalKept ==
  ASSUME IInv, NEW t \in Tabs, AskForTotal(t)
  PROVE  IInv'
<1>1. page[t] \in Page /\ page[t].timer
  BY PageFacts DEF IInv, AskForTotal
<1>2. page[t].at
  BY <1>1 DEF IInv, Asking, Knows
<1>3. Merging(t) => page[t].rows # <<>>
  BY MergingMeans DEF IInv
<1>. QED BY <1>1, <1>2, <1>3, AskKept DEF AskForTotal

LEMMA AskAgainKept ==
  ASSUME IInv, NEW t \in Tabs, AskAgain(t)
  PROVE  IInv'
<1>1. page[t] \in Page /\ page[t].at /\ page[t].rows # <<>>
  BY PageFacts DEF IInv, AskAgain
<1>. QED BY <1>1, AskKept DEF AskAgain

LEMMA ApplyCouponKept ==
  ASSUME Patient, IInv, NEW t \in Tabs, NEW c \in Codes \cup {Nothing}, ApplyCoupon(t, c)
  PROVE  IInv'
<1>. DEFINE e == [page[t] EXCEPT !.coupon = c]
            pg == DrawnAndPriced(e, cart)
<1>1. page[t] \in Page /\ page[t].at /\ cart \in Carts /\ Free /\ Typed
  BY PageFacts DEF IInv, ApplyCoupon
<1>2. /\ e \in Page /\ e.at = page[t].at /\ e.seq = page[t].seq /\ e.st = page[t].st
      /\ e.order = page[t].order
  BY <1>1 DEF Page
<1>3. Ask(t, pg) /\ UNCHANGED <<cart, merges, orders, ledger>>
  BY DEF ApplyCoupon
<1>. HIDE DEF e
<1>4. /\ pg \in Page /\ pg.at = e.at /\ pg.seq = e.seq /\ pg.st = e.st /\ pg.order = e.order
  BY <1>1, <1>2, PricedIs
<1>5. ~Merging(t)
  BY <1>1, FreeMeans DEF Merging
<1>. HIDE DEF pg
<1>. QED BY <1>1, <1>2, <1>3, <1>4, <1>5, AskKept

LEMMA TotalArrivesKept ==
  ASSUME IInv, NEW q \in quotes, TotalArrives(q)
  PROVE  IInv'
<1>. DEFINE t == q.tab
            old == page[t]
            e == [old EXCEPT !.quote = q.key, !.err = FALSE]
            d == DrawnAndPriced(e, cart)
            new == IF q.seq # old.seq THEN old ELSE d
<1>1. /\ quotes' = quotes \ {q} /\ UNCHANGED <<cart, merges, orders, ledger>>
      /\ Typed /\ Goods /\ Asking
  BY DEF TotalArrives, IInv
<1>2. t \in Tabs /\ q.key \in Keys /\ q.seq \in Nat
  BY <1>1, QuoteFacts
<1>3. old \in Page /\ cart \in Carts /\ page \in [Tabs -> Page]
  BY <1>1, <1>2, PageFacts
<1>4. page' = [page EXCEPT ![t] = new]
  BY <1>2, <1>3 DEF TotalArrives
<1>5. Knows(t, old, quotes) /\ old.at
  BY <1>1, <1>2 DEF Asking, Knows
<1>6. /\ e \in Page /\ e.at = old.at /\ e.rows = old.rows /\ e.coupon = old.coupon
      /\ e.seq = old.seq /\ e.lastKey = old.lastKey /\ e.timer = old.timer /\ e.st = old.st
      /\ e.order = old.order /\ e.quote = q.key
  BY <1>2, <1>3 DEF Page
<1>. HIDE DEF e
<1>7. /\ d \in Page /\ d.at = e.at /\ d.rows = cart /\ d.seq = e.seq /\ d.lastKey = e.lastKey
      /\ d.st = e.st /\ d.order = e.order /\ d.coupon = e.coupon
      /\ d.quote = (IF cart = <<>> THEN Nothing ELSE e.quote)
      /\ d.timer = (e.timer \/ (cart # <<>> /\ Key(e, cart) # e.lastKey))
  BY <1>3, <1>6, PricedIs
<1>. HIDE DEF d
<1>8. /\ new \in Page /\ new.at = old.at /\ new.st = old.st /\ new.order = old.order
      /\ new.rows = old.rows \/ new.rows = cart
  BY <1>3, <1>6, <1>7
<1>9. Knows(t, new, quotes')
  <2>1. CASE q.seq # old.seq
    BY <2>1, <1>1, <1>5 DEF Knows
  <2>2. CASE q.seq = old.seq
    <3>1. \A r \in quotes' : r.tab = t =>
            /\ d.at /\ r.seq <= d.seq
            /\ r.seq = d.seq => r.key = d.lastKey \/ \E c : d.lastKey = <<<<>>, c>>
      BY <1>1, <1>5, <1>6, <1>7 DEF Knows
    <3>2. ASSUME d.rows # <<>>, ~d.timer
          PROVE  d.quote = d.lastKey /\ Key(d, d.rows) = d.lastKey
      <4>1. cart # <<>> /\ Key(e, cart) = e.lastKey /\ d.quote = q.key
        BY <3>2, <1>6, <1>7
      <4>2. Key(d, d.rows) = Key(e, cart)
        BY <1>7 DEF Key
      <4>3. Key(e, cart)[1] = cart
        BY DEF Key
      <4>4. q.key = old.lastKey \/ \E c : old.lastKey = <<<<>>, c>>
        BY <1>5, <2>2 DEF Knows
      <4>5. \A c : <<<<>>, c>>[1] = <<>>
        OBVIOUS
      <4>6. q.key = old.lastKey
        BY <4>1, <4>3, <4>4, <4>5, <1>6
      <4>. QED BY <4>1, <4>2, <4>6, <1>6, <1>7
    <3>3. Knows(t, d, quotes')
      BY <3>1, <3>2, <1>5, <1>6, <1>7 DEF Knows
    <3>. QED BY <2>2, <3>3
  <2>. QED BY <2>1, <2>2
<1>10. Asking'
  BY <1>1, <1>2, <1>4, <1>9, OtherPages
<1>11. Typed' /\ Goods'
  <2>1. (InFlow(new) <=> InFlow(old)) /\ (Waits(new) <=> Waits(old))
    BY <1>8 DEF InFlow, Waits
  <2>2. Merging(t) => new.at /\ new.rows # <<>>
    BY <1>1, <1>8, MergingMeans
  <2>3. quotes' \subseteq Quote
    BY <1>1 DEF Typed
  <2>. QED BY <1>1, <1>2, <1>4, <1>5, <1>8, <2>1, <2>2, <2>3, QuietPage
<1>. QED BY <1>10, <1>11 DEF IInv

LEMMA TotalFailsKept ==
  ASSUME IInv, NEW q \in quotes, TotalFails(q)
  PROVE  IInv'
<1>. DEFINE t == q.tab
            old == page[t]
            e == [old EXCEPT !.err = TRUE]
            d == Drawn(e, cart)
            new == IF q.seq # old.seq THEN old ELSE d
<1>1. /\ quotes' = quotes \ {q} /\ UNCHANGED <<cart, merges, orders, ledger>>
      /\ Typed /\ Goods /\ Asking
  BY DEF TotalFails, IInv
<1>2. t \in Tabs /\ q.seq \in Nat
  BY <1>1, QuoteFacts
<1>3. old \in Page /\ cart \in Carts /\ page \in [Tabs -> Page]
  BY <1>1, <1>2, PageFacts
<1>4. page' = [page EXCEPT ![t] = new]
  BY <1>2, <1>3 DEF TotalFails
<1>5. Knows(t, old, quotes) /\ old.at
  BY <1>1, <1>2 DEF Asking, Knows
<1>6. /\ e \in Page /\ e.at = old.at /\ e.seq = old.seq /\ e.lastKey = old.lastKey
      /\ e.st = old.st /\ e.order = old.order /\ e.err
  BY <1>3 DEF Page
<1>. HIDE DEF e
<1>7. /\ d \in Page /\ d.at = e.at /\ d.rows = cart /\ d.seq = e.seq /\ d.lastKey = e.lastKey
      /\ d.st = e.st /\ d.order = e.order /\ d.err = e.err
  BY <1>3, <1>6, DrawnIs
<1>. HIDE DEF d
<1>8. /\ new \in Page /\ new.at = old.at /\ new.st = old.st /\ new.order = old.order
      /\ new.rows = old.rows \/ new.rows = cart
  BY <1>3, <1>6, <1>7
<1>9. Knows(t, new, quotes')
  <2>1. CASE q.seq # old.seq
    BY <2>1, <1>1, <1>5 DEF Knows
  <2>2. CASE q.seq = old.seq
    <3>1. Knows(t, d, quotes')
      BY <1>1, <1>5, <1>6, <1>7 DEF Knows
    <3>. QED BY <2>2, <3>1
  <2>. QED BY <2>1, <2>2
<1>10. Asking'
  BY <1>1, <1>2, <1>4, <1>9, OtherPages
<1>11. Typed' /\ Goods'
  <2>1. (InFlow(new) <=> InFlow(old)) /\ (Waits(new) <=> Waits(old))
    BY <1>8 DEF InFlow, Waits
  <2>2. Merging(t) => new.at /\ new.rows # <<>>
    BY <1>1, <1>8, MergingMeans
  <2>3. quotes' \subseteq Quote
    BY <1>1 DEF Typed
  <2>. QED BY <1>1, <1>2, <1>4, <1>5, <1>8, <2>1, <2>2, <2>3, QuietPage
<1>. QED BY <1>10, <1>11 DEF IInv

-----------------------------------------------------------------------------
(* The steps that move goods *)

\* Nothing is under way, before and after.
LEMMA Idle ==
  ASSUME Goods, merges = {}, merges' = {}, orders' = orders, unsure' = unsure,
         \A t \in Tabs : ~InFlow(page[t]) /\ ~Waits(page[t]),
         \A t \in Tabs : ~InFlow(page'[t]) /\ ~Waits(page'[t])
  PROVE  /\ OneAtATime' /\ AboutTheCart' /\ AsTheBankSaid' /\ Waited' /\ ~Taken /\ ~Taken'
         /\ \A i \in Items : Bought(i)' = Bought(i)
<1>1. OneAtATime'
  BY DEF OneAtATime
<1>2. AboutTheCart'
  BY DEF AboutTheCart
<1>3. AsTheBankSaid'
  BY DEF AsTheBankSaid, Goods
<1>4. Waited'
  BY DEF Waited, Goods
<1>5. ~Taken /\ ~Taken'
  BY DEF Taken
<1>6. \A i \in Items : Bought(i)' = Bought(i)
  BY DEF Bought
<1>. QED BY <1>1, <1>2, <1>3, <1>4, <1>5, <1>6

LEMMA AddToCartKept ==
  ASSUME Patient, IInv, NEW i \in Items, AddToCart(i)
  PROVE  IInv'
<1>1. /\ Free /\ Total(added) < MaxUnits /\ cart' = WithOneMore(cart, i)
      /\ added' = [added EXCEPT ![i] = @ + 1]
      /\ page' = page /\ quotes' = quotes /\ merges' = merges /\ orders' = orders
      /\ removed' = removed /\ boxed' = boxed /\ unsure' = unsure
      /\ Typed /\ Goods /\ Asking
  BY DEF AddToCart, IInv
<1>2. merges = {} /\ \A t \in Tabs : ~InFlow(page[t]) /\ ~Waits(page[t])
  BY <1>1, FreeMeans
<1>3. added \in [Items -> 0..MaxUnits] /\ cart \in Carts
  BY <1>1 DEF Typed
<1>4. added[i] < MaxUnits /\ MaxUnits \in Nat
  BY <1>1, <1>3, TotalBound, CartPageAssumption
<1>5. \A j \in Items : /\ Units(cart, j) \in Nat /\ Bought(j) \in Nat /\ added[j] \in Nat
                       /\ removed[j] \in Nat /\ boxed[j] \in Nat
  BY <1>1, CountsAre
<1>6. Units(cart, i) < MaxUnits
  <2>1. Units(cart, i) + removed[i] <= added[i]
    BY <1>1 DEF Goods, Books
  <2>. QED BY <1>4, <1>5, <2>1
<1>7. /\ cart' \in Carts
      /\ \A j \in Items : Units(cart', j) = Units(cart, j) + (IF j = i THEN 1 ELSE 0)
  BY <1>1, <1>3, <1>6, OneMore
<1>8. /\ added' \in [Items -> 0..MaxUnits]
      /\ \A j \in Items : added'[j] = added[j] + (IF j = i THEN 1 ELSE 0)
  BY <1>1, <1>3, <1>4, <1>5
<1>9. Typed'
  BY <1>1, <1>7, <1>8 DEF Typed
<1>10. /\ OneAtATime' /\ AboutTheCart' /\ AsTheBankSaid' /\ Waited' /\ ~Taken /\ ~Taken'
       /\ \A j \in Items : Bought(j)' = Bought(j)
  BY <1>1, <1>2, Idle
<1>11. Books'
  <2>1. \A j \in Items : /\ Shown(j) = Units(cart, j) + removed[j] + Bought(j) + boxed[j]
                         /\ Shown(j)' = Units(cart', j) + removed[j] + Bought(j) + boxed[j]
    BY <1>1, <1>10 DEF Shown
  <2>2. \A j \in Items : Shown(j)' = Shown(j) + (IF j = i THEN 1 ELSE 0)
    BY <2>1, <1>5, <1>7
  <2>3. \A j \in Items : Shown(j) \in Nat
    BY <2>1, <1>5
  <2>4. \A j \in Items : Units(cart', j) + removed'[j] <= added'[j]
    BY <1>1, <1>5, <1>7, <1>8 DEF Goods, Books
  <2>5. \A j \in Items : added'[j] <= Shown(j)'
    BY <1>1, <1>5, <1>8, <2>2, <2>3 DEF Goods, Books
  <2>6. ~unsure => \A j \in Items : Shown(j)' = added'[j]
    BY <1>1, <1>5, <1>8, <2>2, <2>3 DEF Goods, Books
  <2>. QED BY <1>1, <2>4, <2>5, <2>6 DEF Books
<1>12. Asking'
  BY <1>1 DEF Asking
<1>. QED BY <1>9, <1>10, <1>11, <1>12 DEF IInv, Goods

\* One counter of a table of counters goes up.
LEMMA Bumped ==
  ASSUME NEW S, NEW T \in SUBSET Int, NEW f \in [S -> T], NEW i \in S, NEW n \in Nat,
         NEW g, g = [f EXCEPT ![i] = f[i] + n], f[i] + n \in T
  PROVE  /\ g \in [S -> T]
         /\ \A j \in S : g[j] = f[j] + (IF j = i THEN n ELSE 0)
<1>1. \A j \in S : f[j] \in Int
  OBVIOUS
<1>2. g \in [S -> T]
  OBVIOUS
<1>3. \A j \in S : g[j] = IF j = i THEN f[i] + n ELSE f[j]
  OBVIOUS
<1>. QED BY <1>1, <1>2, <1>3

LEMMA ClickKept ==
  ASSUME Patient, IInv, NEW t \in Tabs, NEW k, NEW d \in {-1, 1}, Click(t, k, d)
  PROVE  IInv'
<1>. DEFINE i == cart[k].id
            q == cart[k].qty + d
            new == DrawnAndPriced(page[t], cart')
<1>1. /\ Free /\ page[t].at /\ k \in DOMAIN page[t].rows /\ k \in DOMAIN cart
      /\ cart' = WithQty(cart, k, q) /\ (d = 1 => Total(added) < MaxUnits)
      /\ added' = [added EXCEPT ![i] = @ + (IF d = 1 THEN 1 ELSE 0)]
      /\ removed' = [removed EXCEPT ![i] = @ + (IF d = 1 THEN 0 ELSE 1)]
      /\ quotes' = quotes /\ merges' = merges /\ orders' = orders
      /\ boxed' = boxed /\ unsure' = unsure /\ Typed /\ Goods /\ Asking
  BY DEF Click, IInv
<1>2. merges = {} /\ \A u \in Tabs : ~InFlow(page[u]) /\ ~Waits(page[u])
  BY <1>1, FreeMeans
<1>3. /\ added \in [Items -> 0..MaxUnits] /\ removed \in [Items -> Nat] /\ cart \in Carts
      /\ page \in [Tabs -> Page] /\ page[t] \in Page /\ MaxUnits \in Nat
  BY <1>1, PageFacts, CartPageAssumption DEF Typed
<1>4. k \in 1..Len(cart) /\ i \in Items /\ cart[k].qty \in 1..MaxUnits
  BY <1>1, <1>3, CartFacts
<1>5. \A j \in Items : /\ Units(cart, j) \in Nat /\ Bought(j) \in Nat /\ added[j] \in Nat
                       /\ removed[j] \in Nat /\ boxed[j] \in Nat
  BY <1>1, CountsAre
<1>6. Units(cart, i) = cart[k].qty
  BY <1>3, <1>4, UnitsIs
<1>7. d = 1 => added[i] < MaxUnits /\ Units(cart, i) < MaxUnits
  <2>1. ASSUME d = 1 PROVE added[i] < MaxUnits
    BY <1>1, <1>3, <1>4, <2>1, TotalBound
  <2>2. Units(cart, i) + removed[i] <= added[i]
    BY <1>1, <1>4 DEF Goods, Books
  <2>. QED BY <1>3, <1>4, <1>5, <2>1, <2>2
<1>8. q \in 0..MaxUnits
  BY <1>3, <1>4, <1>6, <1>7
<1>9. /\ cart' \in Carts
      /\ \A j \in Items : Units(cart', j) = IF j = i THEN q ELSE Units(cart, j)
  BY <1>1, <1>3, <1>4, <1>8, NewQty
<1>10. page' = [page EXCEPT ![t] = new]
  BY <1>3 DEF Click
<1>11. new \in Page /\ new.st = page[t].st
  BY <1>3, <1>9, PricedIs
<1>12. page[t].rows # <<>>
  BY <1>1
<1>13. Knows(t, new, quotes')
  <2>1. Knows(t, page[t], quotes)
    BY <1>1 DEF Asking
  <2>. QED BY <1>1, <1>3, <1>9, <1>12, <2>1, KnowsPriced
<1>14. Asking'
  BY <1>1, <1>10, <1>13, OtherPages
<1>. HIDE DEF new, q, i
<1>15. /\ added' \in [Items -> 0..MaxUnits] /\ removed' \in [Items -> Nat]
       /\ \A j \in Items : added'[j] = added[j] + (IF j = i /\ d = 1 THEN 1 ELSE 0)
       /\ \A j \in Items : removed'[j] = removed[j] + (IF j = i /\ d # 1 THEN 1 ELSE 0)
  <2>1. CASE d = 1
    <3>1. added' = [added EXCEPT ![i] = added[i] + 1] /\ added[i] + 1 \in 0..MaxUnits
      BY <1>1, <1>3, <1>4, <1>5, <1>7, <2>1
    <3>2. removed' = [removed EXCEPT ![i] = removed[i] + 0] /\ removed[i] + 0 \in Nat
      BY <1>1, <1>3, <1>4, <1>5, <2>1
    <3>3. /\ added' \in [Items -> 0..MaxUnits]
          /\ \A j \in Items : added'[j] = added[j] + (IF j = i THEN 1 ELSE 0)
      BY <1>3, <1>4, <3>1, Bumped
    <3>4. /\ removed' \in [Items -> Nat]
          /\ \A j \in Items : removed'[j] = removed[j] + (IF j = i THEN 0 ELSE 0)
      BY <1>3, <1>4, <3>2, Bumped
    <3>. QED BY <2>1, <3>3, <3>4
  <2>2. CASE d = -1
    <3>1. added' = [added EXCEPT ![i] = added[i] + 0] /\ added[i] + 0 \in 0..MaxUnits
      BY <1>1, <1>3, <1>4, <1>5, <2>2
    <3>2. removed' = [removed EXCEPT ![i] = removed[i] + 1] /\ removed[i] + 1 \in Nat
      BY <1>1, <1>3, <1>4, <1>5, <2>2
    <3>3. /\ added' \in [Items -> 0..MaxUnits]
          /\ \A j \in Items : added'[j] = added[j] + (IF j = i THEN 0 ELSE 0)
      BY <1>3, <1>4, <3>1, Bumped
    <3>4. /\ removed' \in [Items -> Nat]
          /\ \A j \in Items : removed'[j] = removed[j] + (IF j = i THEN 1 ELSE 0)
      BY <1>3, <1>4, <3>2, Bumped
    <3>. QED BY <2>2, <3>3, <3>4
  <2>. QED BY <2>1, <2>2
<1>16. Typed'
  <2>1. page' \in [Tabs -> Page]
    BY <1>3, <1>10, <1>11
  <2>. QED BY <1>1, <1>9, <1>15, <2>1 DEF Typed
<1>17. \A u \in Tabs : ~InFlow(page'[u]) /\ ~Waits(page'[u])
  BY <1>2, <1>3, <1>10, <1>11 DEF InFlow, Waits
<1>18. /\ OneAtATime' /\ AboutTheCart' /\ AsTheBankSaid' /\ Waited' /\ ~Taken /\ ~Taken'
       /\ \A j \in Items : Bought(j)' = Bought(j)
  BY <1>1, <1>2, <1>17, Idle
<1>19. Books'
  <2>1. \A j \in Items : /\ Shown(j) = Units(cart, j) + removed[j] + Bought(j) + boxed[j]
                         /\ Shown(j)' = Units(cart', j) + removed'[j] + Bought(j) + boxed[j]
    BY <1>1, <1>18 DEF Shown
  <2>2. \A j \in Items : Units(cart', j) = Units(cart, j) + (IF j = i THEN d ELSE 0)
    BY <1>5, <1>6, <1>9 DEF q
  <2>3. \A j \in Items : Shown(j)' = Shown(j) + (IF j = i /\ d = 1 THEN 1 ELSE 0)
    BY <2>1, <2>2, <1>5, <1>15
  <2>4. \A j \in Items : Shown(j) \in Nat
    BY <2>1, <1>5
  <2>5. \A j \in Items : Units(cart', j) + removed'[j] <= added'[j]
    BY <1>1, <1>5, <1>15, <2>2 DEF Goods, Books
  <2>6. \A j \in Items : added'[j] <= Shown(j)'
    BY <1>1, <1>5, <1>15, <2>3, <2>4 DEF Goods, Books
  <2>7. ~unsure => \A j \in Items : Shown(j)' = added'[j]
    BY <1>1, <1>5, <1>15, <2>3, <2>4 DEF Goods, Books
  <2>. QED BY <1>1, <2>5, <2>6, <2>7 DEF Books
<1>. QED BY <1>14, <1>16, <1>18, <1>19 DEF IInv, Goods

LEMMA AddToBoxKept ==
  ASSUME Patient, IInv, NEW t \in Tabs, AddToBox(t)
  PROVE  IInv'
<1>. DEFINE new == [page[t] EXCEPT !.button = FALSE]
            m == [tab |-> t, lines |-> cart, st |-> "sent"]
<1>1. /\ Free /\ page[t].at /\ page[t].rows # <<>> /\ cart # <<>>
      /\ merges' = merges \cup {m} /\ quotes' = quotes /\ orders' = orders
      /\ cart' = cart /\ added' = added /\ removed' = removed /\ boxed' = boxed
      /\ unsure' = unsure /\ Typed /\ Goods /\ Asking
  BY DEF AddToBox, IInv, ledger
<1>2. merges = {} /\ ~Taken /\ \A u \in Tabs : ~InFlow(page[u]) /\ ~Waits(page[u])
  BY <1>1, FreeMeans
<1>3. page \in [Tabs -> Page] /\ page[t] \in Page /\ cart \in Carts
  BY <1>1, PageFacts
<1>4. page' = [page EXCEPT ![t] = new]
  BY <1>3 DEF AddToBox
<1>5. /\ new \in Page /\ new.at = page[t].at /\ new.rows = page[t].rows /\ new.st = page[t].st
      /\ new.coupon = page[t].coupon /\ new.quote = page[t].quote /\ new.err = page[t].err
      /\ new.seq = page[t].seq /\ new.lastKey = page[t].lastKey /\ new.timer = page[t].timer
  BY <1>3 DEF Page
<1>6. m \in Merge /\ m.tab = t /\ m.lines = cart /\ m.st = "sent"
  BY <1>3 DEF Merge
<1>. HIDE DEF new, m
<1>7. merges' = {m}
  BY <1>1, <1>2
<1>8. page' \in [Tabs -> Page] /\ page'[t] = new /\ \A u \in Tabs : u # t => page'[u] = page[u]
  BY <1>3, <1>4, <1>5
<1>9. Typed'
  BY <1>1, <1>6, <1>7, <1>8 DEF Typed
<1>10. \A u \in Tabs : ~InFlow(page'[u]) /\ ~Waits(page'[u])
  BY <1>2, <1>5, <1>8 DEF InFlow, Waits
<1>11. OneAtATime'
  BY <1>7, <1>10 DEF OneAtATime
<1>12. AboutTheCart'
  BY <1>1, <1>5, <1>6, <1>7, <1>8, <1>10 DEF AboutTheCart
<1>13. AsTheBankSaid' /\ Waited'
  BY <1>1, <1>2 DEF AsTheBankSaid, Waited, Goods
<1>14. ~Taken'
  BY <1>6, <1>7, <1>10 DEF Taken
<1>15. Books'
  <2>1. \A i \in Items : Bought(i)' = Bought(i)
    BY <1>1 DEF Bought
  <2>. QED BY <1>1, <1>2, <1>14, <2>1, BooksSame DEF Goods
<1>16. Knows(t, new, quotes')
  BY <1>1, <1>3, <1>5, KnowsSame DEF Asking
<1>17. Asking'
  BY <1>1, <1>4, <1>16, OtherPages
<1>. QED BY <1>9, <1>11, <1>12, <1>13, <1>15, <1>17 DEF IInv, Goods

\* A move to the box is the only thing under way.
LEMMA MergeFacts ==
  ASSUME Typed, Goods, NEW m \in merges
  PROVE  /\ m \in Merge /\ m.tab \in Tabs /\ m.tab # Nothing /\ m.lines = cart /\ cart # <<>>
         /\ page[m.tab].at /\ page[m.tab].rows # <<>> /\ merges = {m}
         /\ \A t \in Tabs : ~InFlow(page[t]) /\ ~Waits(page[t])
         /\ Taken <=> m.st = "done"
<1>1. m \in Merge /\ m.tab \in Tabs /\ m.tab # Nothing
  BY NothingIsNoValue DEF Typed, Merge
<1>2. /\ m.lines = cart /\ cart # <<>> /\ page[m.tab].at /\ page[m.tab].rows # <<>>
  BY DEF Goods, AboutTheCart
<1>3. merges = {m} /\ \A t \in Tabs : ~InFlow(page[t]) /\ ~Waits(page[t])
  BY DEF Goods, OneAtATime, InFlow, Waits
<1>4. Taken <=> m.st = "done"
  BY <1>3 DEF Taken
<1>. QED BY <1>1, <1>2, <1>3, <1>4

LEMMA BoxTakesKept ==
  ASSUME IInv, NEW m \in merges, BoxTakes(m)
  PROVE  IInv'
<1>. DEFINE n == [m EXCEPT !.st = "done"]
<1>1. /\ m.st = "sent" /\ boxed' = [i \in Items |-> boxed[i] + Units(m.lines, i)]
      /\ merges' = (merges \ {m}) \cup {n} /\ quotes' = quotes /\ orders' = orders /\ page' = page
      /\ cart' = cart /\ added' = added /\ removed' = removed
      /\ unsure' = unsure /\ Typed /\ Goods /\ Asking
  BY DEF BoxTakes, IInv
<1>2. /\ m \in Merge /\ m.tab \in Tabs /\ m.lines = cart /\ cart # <<>> /\ merges = {m}
      /\ page[m.tab].at /\ page[m.tab].rows # <<>> /\ ~Taken
      /\ \A t \in Tabs : ~InFlow(page[t]) /\ ~Waits(page[t])
  BY <1>1, MergeFacts
<1>3. n \in Merge /\ n.tab = m.tab /\ n.lines = cart /\ n.st = "done"
  BY <1>2 DEF Merge
<1>. HIDE DEF n
<1>4. merges' = {n}
  BY <1>1, <1>2
<1>5. \A i \in Items : /\ Units(cart, i) \in Nat /\ Bought(i) \in Nat /\ added[i] \in Nat
                       /\ removed[i] \in Nat /\ boxed[i] \in Nat
  BY <1>1, CountsAre
<1>6. boxed' \in [Items -> Nat] /\ \A i \in Items : boxed'[i] = boxed[i] + Units(cart, i)
  BY <1>1, <1>2, <1>5
<1>7. Typed'
  BY <1>1, <1>3, <1>4, <1>6 DEF Typed
<1>8. OneAtATime'
  BY <1>1, <1>2, <1>4 DEF OneAtATime
<1>9. AboutTheCart'
  BY <1>1, <1>2, <1>3, <1>4 DEF AboutTheCart
<1>10. AsTheBankSaid' /\ Waited'
  BY <1>1 DEF AsTheBankSaid, Waited, Goods
<1>11. Taken'
  BY <1>3, <1>4 DEF Taken
<1>12. Books'
  <2>1. ASSUME NEW i \in Items PROVE Shown(i)' = Shown(i)
    <3>1. Bought(i)' = Bought(i)
      BY <1>1 DEF Bought
    <3>2. Shown(i)' = 0 + removed[i] + Bought(i) + boxed'[i]
      BY <1>1, <1>11, <3>1 DEF Shown
    <3>3. Shown(i) = Units(cart, i) + removed[i] + Bought(i) + boxed[i]
      BY <1>2 DEF Shown
    <3>. QED BY <1>5, <1>6, <3>2, <3>3
  <2>. QED BY <1>1, <2>1 DEF Books, Goods
<1>13. Asking'
  BY <1>1 DEF Asking
<1>. QED BY <1>7, <1>8, <1>9, <1>10, <1>12, <1>13 DEF IInv, Goods

\* Its page hears how it ended, or nothing.
LEMMA BoxEnds ==
  ASSUME Typed, Goods, NEW m \in merges, NEW new \in Page, new.st = page[m.tab].st,
         page' = [page EXCEPT ![m.tab] = new], merges' = merges \ {m}, cart' \in Carts,
         quotes' = quotes, orders' = orders, added' = added, removed' = removed, boxed' = boxed,
         unsure' \in BOOLEAN, unsure => unsure'
  PROVE  /\ Typed' /\ OneAtATime' /\ AboutTheCart' /\ AsTheBankSaid' /\ Waited'
         /\ ~Taken' /\ \A i \in Items : Bought(i)' = Bought(i)
<1>1. /\ m.tab \in Tabs /\ merges = {m} /\ page \in [Tabs -> Page]
      /\ \A t \in Tabs : ~InFlow(page[t]) /\ ~Waits(page[t])
  BY MergeFacts DEF Typed
<1>2. merges' = {}
  BY <1>1
<1>3. page' \in [Tabs -> Page] /\ \A t \in Tabs : page'[t] = (IF t = m.tab THEN new ELSE page[t])
  BY <1>1
<1>4. \A t \in Tabs : ~InFlow(page'[t]) /\ ~Waits(page'[t])
  BY <1>1, <1>3 DEF InFlow, Waits
<1>5. Typed'
  BY <1>2, <1>3 DEF Typed
<1>6. OneAtATime' /\ AboutTheCart'
  BY <1>2, <1>4 DEF OneAtATime, AboutTheCart
<1>7. AsTheBankSaid'
  BY DEF AsTheBankSaid, Goods
<1>8. Waited'
  BY <1>1 DEF Waited, Goods
<1>9. ~Taken'
  BY <1>2, <1>4 DEF Taken
<1>10. \A i \in Items : Bought(i)' = Bought(i)
  BY DEF Bought
<1>. QED BY <1>5, <1>6, <1>7, <1>8, <1>9, <1>10

LEMMA BoxAnswersKept ==
  ASSUME IInv, NEW m \in merges, BoxAnswers(m)
  PROVE  IInv'
<1>. DEFINE t == m.tab
            new == DrawnAndPriced(page[t], <<>>)
<1>1. /\ m.st = "done" /\ merges' = merges \ {m} /\ cart' = <<>> /\ quotes' = quotes
      /\ orders' = orders /\ added' = added /\ removed' = removed /\ boxed' = boxed
      /\ unsure' = unsure /\ Typed /\ Goods /\ Asking
  BY DEF BoxAnswers, IInv, ledger
<1>2. t \in Tabs /\ page[t].at /\ Taken
  BY <1>1, MergeFacts
<1>3. page[t] \in Page /\ page \in [Tabs -> Page] /\ <<>> \in Carts
  BY <1>1, <1>2, PageFacts, EmptyCart
<1>4. page' = [page EXCEPT ![t] = new]
  BY <1>3 DEF BoxAnswers
<1>5. new \in Page /\ new.st = page[t].st
  BY <1>3, PricedIs
<1>6. Knows(t, new, quotes')
  BY <1>1, <1>2, <1>3, KnowsPriced DEF Asking
<1>. HIDE DEF new
<1>7. Asking'
  BY <1>1, <1>2, <1>4, <1>6, OtherPages
<1>8. /\ Typed' /\ OneAtATime' /\ AboutTheCart' /\ AsTheBankSaid' /\ Waited'
      /\ ~Taken' /\ \A i \in Items : Bought(i)' = Bought(i)
  <2>1. unsure' \in BOOLEAN /\ cart' \in Carts
    BY <1>1, <1>3 DEF Typed
  <2>. QED BY <1>1, <1>4, <1>5, <2>1, BoxEnds
<1>9. Books'
  <2>1. \A i \in Items : /\ Units(cart, i) \in Nat /\ Bought(i) \in Nat /\ added[i] \in Nat
                         /\ removed[i] \in Nat /\ boxed[i] \in Nat /\ Units(cart', i) = 0
    BY <1>1, CountsAre, EmptyCart
  <2>2. ASSUME NEW i \in Items PROVE Shown(i)' = Shown(i)
    <3>1. Shown(i) = 0 + removed[i] + Bought(i) + boxed[i]
      BY <1>2 DEF Shown
    <3>2. Shown(i)' = Units(cart', i) + removed[i] + Bought(i) + boxed[i]
      BY <1>1, <1>8 DEF Shown
    <3>. QED BY <2>1, <3>1, <3>2
  <2>3. \A i \in Items : Units(cart', i) + removed'[i] <= added'[i]
    BY <1>1, <2>1 DEF Books, Goods
  <2>. QED BY <1>1, <2>2, <2>3 DEF Books, Goods
<1>. QED BY <1>7, <1>8, <1>9 DEF IInv, Goods

LEMMA BoxFailsKept ==
  ASSUME IInv, NEW m \in merges, BoxFails(m)
  PROVE  IInv'
<1>. DEFINE t == m.tab
            new == DrawnAndPriced(page[t], cart)
<1>1. /\ merges' = merges \ {m} /\ cart' = cart /\ quotes' = quotes
      /\ orders' = orders /\ added' = added /\ removed' = removed /\ boxed' = boxed
      /\ unsure' = (unsure \/ m.st = "done") /\ Typed /\ Goods /\ Asking
  BY DEF BoxFails, IInv
<1>2. t \in Tabs /\ page[t].at /\ page[t].rows # <<>> /\ (Taken <=> m.st = "done")
  BY <1>1, MergeFacts
<1>3. page[t] \in Page /\ page \in [Tabs -> Page] /\ cart \in Carts
  BY <1>1, <1>2, PageFacts
<1>4. page' = [page EXCEPT ![t] = new]
  BY <1>3 DEF BoxFails
<1>5. new \in Page /\ new.st = page[t].st
  BY <1>3, PricedIs
<1>6. Knows(t, new, quotes')
  BY <1>1, <1>2, <1>3, KnowsPriced DEF Asking
<1>. HIDE DEF new
<1>7. Asking'
  BY <1>1, <1>2, <1>4, <1>6, OtherPages
<1>8. /\ Typed' /\ OneAtATime' /\ AboutTheCart' /\ AsTheBankSaid' /\ Waited'
      /\ ~Taken' /\ \A i \in Items : Bought(i)' = Bought(i)
  <2>1. unsure' \in BOOLEAN /\ cart' \in Carts /\ (unsure => unsure')
    BY <1>1, <1>3 DEF Typed
  <2>. QED BY <1>1, <1>4, <1>5, <2>1, BoxEnds
<1>9. Books'
  <2>1. \A i \in Items : /\ Units(cart, i) \in Nat /\ Bought(i) \in Nat /\ added[i] \in Nat
                         /\ removed[i] \in Nat /\ boxed[i] \in Nat
    BY <1>1, CountsAre
  <2>2. \A i \in Items :
          /\ Shown(i) = (IF Taken THEN 0 ELSE Units(cart, i)) + removed[i] + Bought(i) + boxed[i]
          /\ Shown(i)' = Units(cart, i) + removed[i] + Bought(i) + boxed[i]
    BY <1>1, <1>8 DEF Shown
  <2>3. \A i \in Items : Shown(i) <= Shown(i)' /\ Shown(i) \in Nat /\ Shown(i)' \in Nat
    BY <2>1, <2>2
  <2>4. \A i \in Items : added'[i] <= Shown(i)'
    BY <1>1, <2>1, <2>3 DEF Books, Goods
  <2>5. ~unsure' => \A i \in Items : Shown(i)' = added'[i]
    BY <1>1, <1>2, <2>2 DEF Books, Goods
  <2>. QED BY <1>1, <2>4, <2>5 DEF Books, Goods
<1>. QED BY <1>7, <1>8, <1>9 DEF IInv, Goods

-----------------------------------------------------------------------------
(* The steps of an order *)

LEMMA SubmitKept ==
  ASSUME Patient, IInv, NEW t \in Tabs, Submit(t)
  PROVE  IInv'
<1>. DEFINE new == [page[t] EXCEPT !.st = "saving"]
<1>1. /\ Free /\ page[t].at /\ cart' = cart /\ quotes' = quotes /\ merges' = merges
      /\ orders' = orders /\ added' = added /\ removed' = removed /\ boxed' = boxed
      /\ unsure' = unsure /\ Typed /\ Goods /\ Asking
  BY DEF Submit, IInv, ledger
<1>2. merges = {} /\ ~Taken /\ \A u \in Tabs : ~InFlow(page[u]) /\ ~Waits(page[u])
  BY <1>1, FreeMeans
<1>3. page \in [Tabs -> Page] /\ page[t] \in Page
  BY <1>1, PageFacts
<1>4. page' = [page EXCEPT ![t] = new]
  BY <1>3 DEF Submit
<1>5. /\ new \in Page /\ new.at = page[t].at /\ new.rows = page[t].rows /\ new.st = "saving"
      /\ new.coupon = page[t].coupon /\ new.quote = page[t].quote /\ new.err = page[t].err
      /\ new.seq = page[t].seq /\ new.lastKey = page[t].lastKey /\ new.timer = page[t].timer
  BY <1>3 DEF Page
<1>. HIDE DEF new
<1>6. page' \in [Tabs -> Page] /\ page'[t] = new /\ \A u \in Tabs : u # t => page'[u] = page[u]
  BY <1>3, <1>4, <1>5
<1>7. Typed'
  BY <1>1, <1>6 DEF Typed
<1>8. \A u \in Tabs : ~Waits(page'[u]) /\ (InFlow(page'[u]) => u = t)
  BY <1>2, <1>5, <1>6 DEF InFlow, Waits
<1>9. OneAtATime'
  BY <1>1, <1>2, <1>8 DEF OneAtATime
<1>10. AboutTheCart'
  BY <1>1, <1>2, <1>5, <1>6, <1>8 DEF AboutTheCart
<1>11. AsTheBankSaid' /\ Waited'
  BY <1>1, <1>2 DEF AsTheBankSaid, Waited, Goods
<1>12. ~Taken'
  BY <1>1, <1>2, <1>8 DEF Taken
<1>13. Books'
  <2>1. \A i \in Items : Bought(i)' = Bought(i)
    BY <1>1 DEF Bought
  <2>. QED BY <1>1, <1>2, <1>12, <2>1, BooksSame DEF Goods
<1>14. Knows(t, new, quotes')
  BY <1>1, <1>3, <1>5, KnowsSame DEF Asking
<1>15. Asking'
  BY <1>1, <1>4, <1>14, OtherPages
<1>. QED BY <1>7, <1>9, <1>10, <1>11, <1>13, <1>15 DEF IInv, Goods

\* A page with an order under way: nothing else is.
LEMMA FlowFacts ==
  ASSUME Typed, Goods, NEW t \in Tabs, InFlow(page[t])
  PROVE  /\ page[t].at /\ merges = {} /\ \A u \in Tabs : u # t => ~InFlow(page[u]) /\ ~Waits(page[u])
         /\ Waits(page[t]) => /\ page[t].order \in 1..Len(orders)
                              /\ orders[page[t].order].lines = cart
         /\ Taken <=> Waits(page[t]) /\ StatusOf(t) = "PAID"
<1>1. /\ merges = {} /\ \A u \in Tabs : u # t => ~InFlow(page[u]) /\ ~Waits(page[u])
  BY DEF Goods, OneAtATime, InFlow, Waits
<1>2. /\ page[t].at
      /\ Waits(page[t]) => /\ page[t].order \in 1..Len(orders)
                           /\ orders[page[t].order].lines = cart
  BY DEF Goods, AboutTheCart
<1>3. Taken <=> Waits(page[t]) /\ StatusOf(t) = "PAID"
  BY <1>1 DEF Taken, StatusOf
<1>. QED BY <1>1, <1>2, <1>3

\* It ends, for the page: by the answer, or without one.
LEMMA FlowEnds ==
  ASSUME Typed, Goods, NEW t \in Tabs, InFlow(page[t]), NEW new \in Page,
         ~InFlow(new), ~Waits(new), page' = [page EXCEPT ![t] = new],
         quotes' \subseteq Quote, merges' = merges, SameOrders(orders, orders'),
         cart' \in Carts, added' = added, removed' = removed, boxed' = boxed,
         unsure' \in BOOLEAN, unsure => unsure',
         ~unsure' /\ Waits(page[t]) => \/ StatusOf(t) # "PENDING"
                                      \/ orders[page[t].order].bank = "no"
  PROVE  /\ Typed' /\ OneAtATime' /\ AboutTheCart' /\ AsTheBankSaid' /\ Waited'
         /\ ~Taken' /\ \A i \in Items : Bought(i)' = Bought(i)
<1>1. /\ merges = {} /\ page \in [Tabs -> Page]
      /\ \A u \in Tabs : u # t => ~InFlow(page[u]) /\ ~Waits(page[u])
  BY FlowFacts DEF Typed
<1>2. page' \in [Tabs -> Page] /\ \A u \in Tabs : page'[u] = (IF u = t THEN new ELSE page[u])
  BY <1>1
<1>3. \A u \in Tabs : ~InFlow(page'[u]) /\ ~Waits(page'[u])
  BY <1>1, <1>2
<1>4. /\ orders' \in Seq(Order) /\ Len(orders') = Len(orders)
      /\ \A o \in 1..Len(orders) : /\ orders'[o].lines = orders[o].lines
                                 /\ orders'[o].st = orders[o].st /\ orders'[o].bank = orders[o].bank
  BY DEF SameOrders
<1>5. Typed'
  BY <1>1, <1>2, <1>4 DEF Typed
<1>6. OneAtATime' /\ AboutTheCart'
  BY <1>1, <1>3 DEF OneAtATime, AboutTheCart
<1>7. AsTheBankSaid'
  BY <1>4 DEF AsTheBankSaid, Goods
<1>8. Waited'
  <2>1. ASSUME ~unsure', NEW o \in 1..Len(orders), orders[o].st = "PENDING", orders[o].bank # "no"
        PROVE  FALSE
    <3>1. PICK u \in Tabs : Waits(page[u]) /\ page[u].order = o
      BY <2>1 DEF Waited, Goods
    <3>2. u = t
      BY <1>1, <3>1
    <3>. QED BY <2>1, <3>1, <3>2 DEF StatusOf
  <2>. QED BY <1>4, <2>1 DEF Waited
<1>9. ~Taken'
  BY <1>1, <1>3 DEF Taken
<1>10. \A i \in Items : Bought(i)' = Bought(i)
  BY BoughtSame
<1>. QED BY <1>5, <1>6, <1>7, <1>8, <1>9, <1>10

\* The books after it has ended with the cart kept.
LEMMA CartKept ==
  ASSUME Typed, Books, cart' = cart, added' = added, removed' = removed, boxed' = boxed,
         ~Taken', \A i \in Items : Bought(i)' = Bought(i),
         ~unsure' => ~unsure /\ ~Taken
  PROVE  Books'
<1>1. \A i \in Items : /\ Units(cart, i) \in Nat /\ Bought(i) \in Nat /\ added[i] \in Nat
                       /\ removed[i] \in Nat /\ boxed[i] \in Nat
  BY CountsAre
<1>2. \A i \in Items :
        /\ Shown(i) = (IF Taken THEN 0 ELSE Units(cart, i)) + removed[i] + Bought(i) + boxed[i]
        /\ Shown(i)' = Units(cart, i) + removed[i] + Bought(i) + boxed[i]
  BY DEF Shown
<1>3. \A i \in Items : Shown(i) <= Shown(i)' /\ Shown(i) \in Nat /\ Shown(i)' \in Nat
  BY <1>1, <1>2
<1>4. \A i \in Items : added'[i] <= Shown(i)'
  BY <1>1, <1>3 DEF Books
<1>5. ~unsure' => \A i \in Items : Shown(i)' = added'[i]
  BY <1>2 DEF Books
<1>. QED BY <1>4, <1>5 DEF Books

\* ... and with the cart emptied, what was in it being sold.
LEMMA CartEmptied ==
  ASSUME Typed, Books, cart' = <<>>, added' = added, removed' = removed, boxed' = boxed,
         Taken, ~Taken', \A i \in Items : Bought(i)' = Bought(i), unsure' = unsure
  PROVE  Books'
<1>1. \A i \in Items : /\ Units(cart, i) \in Nat /\ Bought(i) \in Nat /\ added[i] \in Nat
                       /\ removed[i] \in Nat /\ boxed[i] \in Nat /\ Units(cart', i) = 0
  BY CountsAre, EmptyCart
<1>2. ASSUME NEW i \in Items PROVE Shown(i)' = Shown(i)
  <2>1. Shown(i) = 0 + removed[i] + Bought(i) + boxed[i]
    BY DEF Shown
  <2>2. Shown(i)' = Units(cart', i) + removed[i] + Bought(i) + boxed[i]
    BY DEF Shown
  <2>. QED BY <1>1, <2>1, <2>2
<1>3. \A i \in Items : Units(cart', i) + removed'[i] <= added'[i]
  BY <1>1 DEF Books
<1>. QED BY <1>2, <1>3 DEF Books

LEMMA ThankedKept ==
  ASSUME IInv, NEW t \in Tabs, Waits(page[t]), StatusOf(t) = "PAID", Thanked(t),
         UNCHANGED <<quotes, merges, orders, added, removed, boxed>>
  PROVE  IInv'
<1>. DEFINE new == [page[t] EXCEPT !.st = "paid"]
<1>1. cart' = <<>> /\ unsure' = unsure /\ Typed /\ Goods /\ Asking
  BY DEF Thanked, IInv
<1>2. InFlow(page[t])
  BY DEF InFlow, Waits
<1>3. Taken
  BY <1>1, <1>2, FlowFacts
<1>4. page \in [Tabs -> Page] /\ page[t] \in Page
  BY <1>1, PageFacts
<1>5. page' = [page EXCEPT ![t] = new]
  BY <1>4 DEF Thanked
<1>6. /\ new \in Page /\ new.at = page[t].at /\ new.rows = page[t].rows /\ new.st = "paid"
      /\ new.coupon = page[t].coupon /\ new.quote = page[t].quote /\ new.err = page[t].err
      /\ new.seq = page[t].seq /\ new.lastKey = page[t].lastKey /\ new.timer = page[t].timer
  BY <1>4 DEF Page
<1>. HIDE DEF new
<1>7. /\ Typed' /\ OneAtATime' /\ AboutTheCart' /\ AsTheBankSaid' /\ Waited'
      /\ ~Taken' /\ \A i \in Items : Bought(i)' = Bought(i)
  <2>1. ~InFlow(new) /\ ~Waits(new)
    BY <1>6 DEF InFlow, Waits
  <2>2. SameOrders(orders, orders') /\ quotes' \subseteq Quote /\ unsure' \in BOOLEAN /\ cart' \in Carts
    BY <1>1, EmptyCart DEF SameOrders, Typed
  <2>. QED BY <1>1, <1>2, <1>5, <1>6, <2>1, <2>2, FlowEnds
<1>8. Books'
  BY <1>1, <1>3, <1>7, CartEmptied DEF Goods
<1>9. Knows(t, new, quotes')
  BY <1>1, <1>4, <1>6, KnowsSame DEF Asking
<1>10. Asking'
  BY <1>1, <1>5, <1>9, OtherPages
<1>. QED BY <1>7, <1>8, <1>10 DEF IInv, Goods

LEMMA FormBackKept ==
  ASSUME IInv, NEW t \in Tabs, Waits(page[t]), FormBack(t),
         UNCHANGED <<quotes, merges, orders, added, removed, boxed>>
  PROVE  IInv'
<1>. DEFINE new == [page[t] EXCEPT !.st = "idle", !.order = 0, !.polls = 0]
<1>1. /\ cart' = cart /\ unsure' = (unsure \/ StatusOf(t) # "FAILED") /\ Typed /\ Goods /\ Asking
  BY DEF FormBack, IInv, StatusOf
<1>2. InFlow(page[t])
  BY DEF InFlow, Waits
<1>3. page \in [Tabs -> Page] /\ page[t] \in Page
  BY <1>1, PageFacts
<1>4. page' = [page EXCEPT ![t] = new]
  BY <1>3 DEF FormBack
<1>5. /\ new \in Page /\ new.at = page[t].at /\ new.rows = page[t].rows /\ new.st = "idle"
      /\ new.coupon = page[t].coupon /\ new.quote = page[t].quote /\ new.err = page[t].err
      /\ new.seq = page[t].seq /\ new.lastKey = page[t].lastKey /\ new.timer = page[t].timer
  <2>1. 0 \in 0..MaxOrders /\ 0 \in 0..MaxPolls
    BY CartPageAssumption
  <2>. QED BY <1>3, <2>1 DEF Page
<1>. HIDE DEF new
<1>6. /\ Typed' /\ OneAtATime' /\ AboutTheCart' /\ AsTheBankSaid' /\ Waited'
      /\ ~Taken' /\ \A i \in Items : Bought(i)' = Bought(i)
  <2>1. ~InFlow(new) /\ ~Waits(new)
    BY <1>5 DEF InFlow, Waits
  <2>2. SameOrders(orders, orders') /\ quotes' \subseteq Quote /\ unsure' \in BOOLEAN /\ cart' \in Carts
    BY <1>1 DEF SameOrders, Typed
  <2>3. ~unsure' => StatusOf(t) # "PENDING"
    BY <1>1
  <2>. QED BY <1>1, <1>2, <1>4, <1>5, <2>1, <2>2, <2>3, FlowEnds
<1>7. ~unsure' => ~unsure /\ ~Taken
  BY <1>1, <1>2, FlowFacts
<1>8. Books'
  BY <1>1, <1>6, <1>7, CartKept DEF Goods
<1>9. Knows(t, new, quotes')
  BY <1>1, <1>3, <1>5, KnowsSame DEF Asking
<1>10. Asking'
  BY <1>1, <1>4, <1>9, OtherPages
<1>. QED BY <1>6, <1>8, <1>10 DEF IInv, Goods

\* A page that goes on waiting for the same order.
LEMMA WaitsOn ==
  ASSUME IInv, NEW t \in Tabs, Waits(page[t]), NEW p \in 0..MaxPolls,
         page' = [page EXCEPT ![t].st = "awaiting", ![t].polls = p],
         UNCHANGED <<cart, quotes, merges, orders, ledger>>
  PROVE  IInv'
<1>. DEFINE new == [page[t] EXCEPT !.st = "awaiting", !.polls = p]
<1>1. Typed /\ Goods /\ Asking
  BY DEF IInv
<1>2. page \in [Tabs -> Page] /\ page[t] \in Page
  BY <1>1, PageFacts
<1>3. page' = [page EXCEPT ![t] = new]
  BY <1>2
<1>4. /\ new \in Page /\ new.at = page[t].at /\ new.rows = page[t].rows /\ new.st = "awaiting"
      /\ new.coupon = page[t].coupon /\ new.quote = page[t].quote /\ new.err = page[t].err
      /\ new.seq = page[t].seq /\ new.lastKey = page[t].lastKey /\ new.timer = page[t].timer
      /\ new.order = page[t].order
  BY <1>2 DEF Page
<1>. HIDE DEF new
<1>5. InFlow(page[t]) /\ InFlow(new) /\ Waits(new)
  BY <1>4 DEF InFlow, Waits
<1>6. page[t].at /\ ~Merging(t)
  BY <1>1, <1>5, FlowFacts DEF Merging
<1>7. Typed' /\ Goods'
  BY <1>1, <1>3, <1>4, <1>5, <1>6, QuietPage DEF Typed
<1>8. Knows(t, new, quotes')
  BY <1>1, <1>2, <1>4, KnowsSame DEF Asking
<1>9. Asking'
  BY <1>1, <1>3, <1>8, OtherPages
<1>. QED BY <1>7, <1>9 DEF IInv

LEMMA OrderAnsweredKept ==
  ASSUME IInv, NEW t \in Tabs, OrderAnswered(t)
  PROVE  IInv'
<1>1. Waits(page[t]) /\ UNCHANGED <<quotes, merges, orders, added, removed, boxed>>
  BY DEF OrderAnswered, Waits
<1>2. CASE StatusOf(t) = "PAID" /\ Thanked(t)
  BY <1>1, <1>2, ThankedKept
<1>3. CASE FormBack(t)
  BY <1>1, <1>3, FormBackKept
<1>4. CASE /\ StatusOf(t) = "PENDING" /\ cart' = cart /\ unsure' = unsure
           /\ page' = [page EXCEPT ![t].st = "awaiting", ![t].polls = 0]
  <2>1. 0 \in 0..MaxPolls
    BY CartPageAssumption
  <2>. QED BY <1>1, <1>4, <2>1, WaitsOn DEF ledger
<1>. QED BY <1>2, <1>3, <1>4 DEF OrderAnswered

LEMMA PollKept ==
  ASSUME IInv, NEW t \in Tabs, Poll(t)
  PROVE  IInv'
<1>1. /\ page[t].st = "awaiting" /\ Waits(page[t])
      /\ UNCHANGED <<quotes, merges, orders, added, removed, boxed>>
  BY DEF Poll, Waits
<1>2. CASE StatusOf(t) = "PAID" /\ Thanked(t)
  BY <1>1, <1>2, ThankedKept
<1>3. CASE FormBack(t)
  BY <1>1, <1>3, FormBackKept
<1>4. CASE /\ page[t].polls < MaxPolls /\ cart' = cart /\ unsure' = unsure
           /\ page' = [page EXCEPT ![t].polls = @ + 1]
  <2>1. page \in [Tabs -> Page] /\ page[t] \in Page
    BY PageFacts DEF IInv
  <2>2. page[t].polls + 1 \in 0..MaxPolls
    BY <1>4, <2>1, CartPageAssumption DEF Page
  <2>3. [page[t] EXCEPT !.polls = @ + 1] = [page[t] EXCEPT !.st = "awaiting", !.polls = page[t].polls + 1]
    BY <1>1, <2>1 DEF Page
  <2>4. page' = [page EXCEPT ![t] = [page[t] EXCEPT !.polls = @ + 1]]
    BY <1>4, <2>1
  <2>5. page' = [page EXCEPT ![t].st = "awaiting", ![t].polls = page[t].polls + 1]
    BY <2>1, <2>3, <2>4
  <2>. QED BY <1>1, <1>4, <2>2, <2>5, WaitsOn DEF ledger
<1>. QED BY <1>2, <1>3, <1>4 DEF Poll

LEMMA PostKept ==
  ASSUME IInv, NEW t \in Tabs, Post(t)
  PROVE  IInv'
<1>1. /\ page[t].st = "saving" /\ Len(orders) < MaxOrders /\ cart' = cart /\ quotes' = quotes
      /\ merges' = merges /\ added' = added /\ removed' = removed /\ boxed' = boxed
      /\ unsure' = unsure /\ Typed /\ Goods /\ Asking
  BY DEF Post, IInv, ledger
<1>2. InFlow(page[t]) /\ ~Waits(page[t])
  BY <1>1 DEF InFlow, Waits
<1>3. /\ page[t].at /\ merges = {} /\ ~Taken
      /\ \A u \in Tabs : u # t => ~InFlow(page[u]) /\ ~Waits(page[u])
  BY <1>1, <1>2, FlowFacts
<1>4. page \in [Tabs -> Page] /\ page[t] \in Page /\ cart \in Carts
  BY <1>1, PageFacts
<1>5. CASE cart = <<>>
  <2>. DEFINE new == [page[t] EXCEPT !.st = "idle"]
  <2>1. orders' = orders /\ page' = [page EXCEPT ![t] = new]
    BY <1>4, <1>5 DEF Post
  <2>2. /\ new \in Page /\ new.at = page[t].at /\ new.rows = page[t].rows /\ new.st = "idle"
        /\ new.coupon = page[t].coupon /\ new.quote = page[t].quote /\ new.err = page[t].err
        /\ new.seq = page[t].seq /\ new.lastKey = page[t].lastKey /\ new.timer = page[t].timer
    BY <1>4 DEF Page
  <2>. HIDE DEF new
  <2>3. /\ Typed' /\ OneAtATime' /\ AboutTheCart' /\ AsTheBankSaid' /\ Waited'
        /\ ~Taken' /\ \A i \in Items : Bought(i)' = Bought(i)
    <3>1. ~InFlow(new) /\ ~Waits(new)
      BY <2>2 DEF InFlow, Waits
    <3>2. SameOrders(orders, orders') /\ quotes' \subseteq Quote /\ unsure' \in BOOLEAN /\ cart' \in Carts
      BY <1>1, <2>1 DEF SameOrders, Typed
    <3>. QED BY <1>1, <1>2, <2>1, <2>2, <3>1, <3>2, FlowEnds
  <2>4. Books'
    BY <1>1, <1>3, <2>3, CartKept DEF Goods
  <2>5. Knows(t, new, quotes')
    BY <1>1, <1>4, <2>2, KnowsSame DEF Asking
  <2>6. Asking'
    BY <1>1, <2>1, <2>5, OtherPages
  <2>. QED BY <2>3, <2>4, <2>6 DEF IInv, Goods
<1>6. CASE cart # <<>>
  <2>. DEFINE new == [page[t] EXCEPT !.st = "posting", !.order = Len(orders) + 1]
              rec == [lines |-> cart, bank |-> "asks", st |-> "PENDING", back |-> FALSE]
              n == Len(orders) + 1
  <2>1. orders' = Append(orders, rec) /\ page' = [page EXCEPT ![t] = new]
    BY <1>4, <1>6 DEF Post
  <2>2. orders \in Seq(Order) /\ Len(orders) \in Nat /\ MaxOrders \in Nat
    BY <1>1, CartPageAssumption DEF Typed
  <2>3. n \in 1..MaxOrders /\ n \in 0..MaxOrders /\ n \notin 1..Len(orders)
    BY <1>1, <2>2
  <2>4. /\ new \in Page /\ new.at = page[t].at /\ new.rows = page[t].rows /\ new.st = "posting"
        /\ new.coupon = page[t].coupon /\ new.quote = page[t].quote /\ new.err = page[t].err
        /\ new.seq = page[t].seq /\ new.lastKey = page[t].lastKey /\ new.timer = page[t].timer
        /\ new.order = n
    BY <1>4, <2>3 DEF Page
  <2>5. rec \in Order /\ rec.lines = cart /\ rec.st = "PENDING"
    BY <1>4 DEF Order
  <2>. HIDE DEF new, rec
  <2>6. /\ orders' \in Seq(Order) /\ Len(orders') = n /\ orders'[n] = rec
        /\ \A o \in 1..Len(orders) : orders'[o] = orders[o]
    BY <2>1, <2>2, <2>5
  <2>7. \A o \in 1..n : o \in 1..Len(orders) \/ o = n
    BY <2>2
  <2>8. n \in 1..n /\ \A o \in 1..Len(orders) : o \in 1..n
    BY <2>2
  <2>. HIDE DEF n
  <2>9. page' \in [Tabs -> Page] /\ page'[t] = new /\ \A u \in Tabs : u # t => page'[u] = page[u]
    BY <1>4, <2>1, <2>4
  <2>10. Typed'
    <3>1. \A o \in 1..Len(orders') : orders'[o].lines # <<>>
      BY <1>1, <1>6, <2>5, <2>6, <2>7 DEF Typed
    <3>2. Len(orders') <= MaxOrders
      BY <2>2, <2>3, <2>6
    <3>. QED BY <1>1, <2>6, <2>9, <3>1, <3>2 DEF Typed
  <2>11. \A u \in Tabs : u # t => ~InFlow(page'[u]) /\ ~Waits(page'[u])
    BY <1>3, <2>9
  <2>12. OneAtATime'
    BY <1>1, <1>3, <2>11 DEF OneAtATime
  <2>13. AboutTheCart'
    BY ZenonT(40), <1>1, <1>3, <2>4, <2>5, <2>6, <2>8, <2>9, <2>11 DEF AboutTheCart, InFlow, Waits
  <2>14. AsTheBankSaid'
    BY <1>1, <2>5, <2>6, <2>7 DEF AsTheBankSaid, Goods
  <2>15. Waits(page'[t])
    BY <2>4, <2>9 DEF Waits
  <2>16. Waited'
    <3>1. ~unsure => \A o \in 1..Len(orders) : ~(orders[o].st = "PENDING" /\ orders[o].bank # "no")
      BY <1>1, <1>2, <1>3 DEF Waited, Goods
    <3>. QED BY <1>1, <2>4, <2>6, <2>7, <2>9, <2>15, <3>1 DEF Waited
  <2>17. ~Taken'
    BY <1>1, <1>3, <2>4, <2>5, <2>6, <2>9, <2>11 DEF Taken
  <2>18. Books'
    <3>1. ASSUME NEW i \in Items PROVE Bought(i)' = Bought(i)
      <4>1. Len(orders) <= Len(orders')
        BY <2>2, <2>6 DEF n
      <4>2. Sold(orders', i) = Sold(orders, i)
        BY <2>2, <2>5, <2>6, <2>7, <4>1, SoldSame
      <4>3. Bought(i) = Cardinality(Sold(orders, i)) /\ Bought(i)' = Cardinality(Sold(orders', i))
        BY DEF Bought, Sold
      <4>. QED BY <4>2, <4>3
    <3>. QED BY <1>1, <1>3, <2>17, <3>1, BooksSame DEF Goods
  <2>19. Knows(t, new, quotes')
    BY <1>1, <1>4, <2>4, KnowsSame DEF Asking
  <2>20. Asking'
    BY <1>1, <2>1, <2>19, OtherPages
  <2>. QED BY <2>10, <2>12, <2>13, <2>14, <2>16, <2>18, <2>20 DEF IInv, Goods
<1>. QED BY <1>5, <1>6

LEMMA ReturnFromBankKept ==
  ASSUME IInv, NEW t \in Tabs, ReturnFromBank(t)
  PROVE  IInv'
<1>. DEFINE o == page[t].order
            back == [Loaded EXCEPT !.st = "awaiting", !.order = o]
            new == IF orders[o].bank = "no" THEN Loaded ELSE back
<1>1. /\ page[t].st = "awaiting" /\ orders' = [orders EXCEPT ![o].back = TRUE]
      /\ page' = [page EXCEPT ![t] = new] /\ quotes' = {q \in quotes : q.tab # t}
      /\ UNCHANGED <<cart, ledger>> /\ Typed /\ Goods /\ Asking
  BY DEF ReturnFromBank, IInv
<1>2. InFlow(page[t]) /\ Waits(page[t])
  BY <1>1 DEF InFlow, Waits
<1>3. /\ merges = {} /\ o \in 1..Len(orders) /\ (Taken <=> StatusOf(t) = "PAID")
  BY <1>1, <1>2, FlowFacts
<1>4. merges' = merges /\ ~Merging(t)
  <2>1. merges' = {}
    BY <1>3 DEF ReturnFromBank
  <2>. QED BY <1>3, <2>1 DEF Merging
<1>5. page \in [Tabs -> Page] /\ page[t] \in Page /\ cart \in Carts
  BY <1>1, PageFacts
<1>6. /\ Loaded \in Page /\ Loaded.at /\ Loaded.rows = cart /\ Loaded.st = "idle"
      /\ Loaded.timer = (cart # <<>>)
  BY <1>5, LoadedIs
<1>7. /\ back \in Page /\ back.at /\ back.rows = cart /\ back.st = "awaiting" /\ back.order = o
      /\ back.timer = (cart # <<>>)
  <2>1. o \in 0..MaxOrders
    BY <1>5 DEF Page
  <2>. QED BY <1>6, <2>1 DEF Page
<1>8. SameOrders(orders, orders')
  <2>1. orders \in Seq(Order) /\ orders[o] \in Order
    BY <1>1, <1>3, OrderFacts DEF Typed
  <2>. DEFINE e == [orders[o] EXCEPT !.back = TRUE]
  <2>2. /\ e \in Order /\ e.lines = orders[o].lines /\ e.st = orders[o].st
        /\ e.bank = orders[o].bank
    BY <2>1 DEF Order
  <2>3. orders' = [orders EXCEPT ![o] = e]
    BY <1>1, <1>3, <2>1
  <2>. HIDE DEF e, o
  <2>4. orders' \in Seq(Order) /\ Len(orders') = Len(orders)
    BY <1>3, <2>1, <2>2, <2>3
  <2>5. \A p \in 1..Len(orders) : orders'[p] = IF p = o THEN e ELSE orders[p]
    BY <1>3, <2>1, <2>3
  <2>. QED BY <2>2, <2>4, <2>5 DEF SameOrders
<1>9. quotes' \subseteq Quote
  BY <1>1 DEF Typed
<1>10. Asking'
  <2>1. \A q \in quotes' : q.tab # t
    BY <1>1
  <2>2. new \in Page /\ new.at /\ (new.timer \/ new.rows = <<>>)
    BY <1>6, <1>7
  <2>3. Knows(t, new, quotes')
    BY <2>1, <2>2, KnowsLoaded
  <2>. QED BY <1>1, <2>3, OtherPages
<1>. HIDE DEF back
<1>11. CASE orders[o].bank = "no"
  <2>1. ~InFlow(Loaded) /\ ~Waits(Loaded)
    BY <1>6 DEF InFlow, Waits
  <2>2. unsure' \in BOOLEAN /\ cart' \in Carts
    BY <1>1, <1>5 DEF Typed, ledger
  <2>3. /\ Typed' /\ OneAtATime' /\ AboutTheCart' /\ AsTheBankSaid' /\ Waited'
        /\ ~Taken' /\ \A i \in Items : Bought(i)' = Bought(i)
    BY <1>1, <1>2, <1>4, <1>6, <1>8, <1>9, <1>11, <2>1, <2>2, FlowEnds DEF ledger
  <2>4. ~Taken
    BY <1>1, <1>3, <1>11 DEF Goods, AsTheBankSaid, StatusOf
  <2>5. Books'
    BY <1>1, <2>3, <2>4, CartKept DEF Goods, ledger
  <2>. QED BY <1>10, <2>3, <2>5 DEF IInv, Goods
<1>12. CASE orders[o].bank # "no"
  <2>1. InFlow(back) /\ Waits(back)
    BY <1>7 DEF InFlow, Waits
  <2>2. page' = [page EXCEPT ![t] = back]
    BY <1>1, <1>12
  <2>3. Typed' /\ Goods'
    BY <1>1, <1>2, <1>4, <1>7, <1>8, <1>9, <2>1, <2>2, QuietStep
  <2>. QED BY <1>10, <2>3 DEF IInv
<1>. QED BY <1>11, <1>12

LEMMA BankDecidesKept ==
  ASSUME IInv, NEW o \in DOMAIN orders, NEW answer \in {"yes", "no"}, BankDecides(o, answer)
  PROVE  IInv'
<1>. DEFINE e == [orders[o] EXCEPT !.bank = answer]
<1>1. /\ orders[o].bank = "asks" /\ orders' = [orders EXCEPT ![o].bank = answer]
      /\ cart' = cart /\ page' = page /\ quotes' = quotes /\ merges' = merges
      /\ added' = added /\ removed' = removed /\ boxed' = boxed /\ unsure' = unsure
      /\ Typed /\ Goods /\ Asking
  BY DEF BankDecides, IInv, ledger
<1>2. orders \in Seq(Order) /\ o \in 1..Len(orders)
  BY <1>1 DEF Typed
<1>3. orders[o] \in Order /\ orders[o].lines # <<>>
  BY <1>1, <1>2, OrderFacts
<1>4. /\ e \in Order /\ e.lines = orders[o].lines /\ e.st = orders[o].st /\ e.bank = answer
  BY <1>3 DEF Order
<1>5. orders' = [orders EXCEPT ![o] = e]
  BY <1>1, <1>2, <1>3
<1>. HIDE DEF e
<1>6. orders' \in Seq(Order) /\ Len(orders') = Len(orders)
  BY <1>2, <1>4, <1>5
<1>7. \A p \in 1..Len(orders) : orders'[p] = IF p = o THEN e ELSE orders[p]
  BY <1>2, <1>5
<1>8. \A p \in 1..Len(orders) : orders'[p].lines = orders[p].lines /\ orders'[p].st = orders[p].st
  BY <1>4, <1>7
<1>9. orders[o].st = "PENDING"
  <2>1. orders[o].st # "PAID" /\ orders[o].st # "FAILED"
    BY <1>1, <1>2 DEF Goods, AsTheBankSaid
  <2>. QED BY <1>3, <2>1 DEF Order
<1>10. Typed'
  BY <1>1, <1>6, <1>8 DEF Typed
<1>11. OneAtATime'
  BY <1>1 DEF OneAtATime, Goods
<1>12. AboutTheCart'
  BY <1>1, <1>6, <1>8 DEF AboutTheCart, Goods
<1>13. AsTheBankSaid'
  BY <1>1, <1>4, <1>6, <1>7, <1>9 DEF AsTheBankSaid, Goods
<1>14. Waited'
  BY <1>1, <1>4, <1>6, <1>7 DEF Waited, Goods
<1>15. Taken' <=> Taken
  <2>1. \A u \in Tabs : Waits(page[u]) => page[u].order \in 1..Len(orders)
    BY <1>1 DEF AboutTheCart, Goods
  <2>. QED BY <1>1, <1>8, <2>1 DEF Taken
<1>16. Books'
  <2>1. ASSUME NEW i \in Items PROVE Bought(i)' = Bought(i)
    <3>1. Len(orders) <= Len(orders')
      BY <1>2, <1>6
    <3>2. Sold(orders', i) = Sold(orders, i)
      BY <1>2, <1>6, <1>8, <3>1, SoldSame
    <3>3. Bought(i) = Cardinality(Sold(orders, i)) /\ Bought(i)' = Cardinality(Sold(orders', i))
      BY DEF Bought, Sold
    <3>. QED BY <3>2, <3>3
  <2>. QED BY <1>1, <1>15, <2>1, BooksSame DEF Goods
<1>17. Asking'
  BY <1>1 DEF Asking
<1>. QED BY <1>10, <1>11, <1>12, <1>13, <1>14, <1>16, <1>17 DEF IInv, Goods

LEMMA SettleKept ==
  ASSUME IInv, NEW o \in DOMAIN orders, Settle(o)
  PROVE  IInv'
<1>. DEFINE st == IF orders[o].bank = "yes" THEN "PAID" ELSE "FAILED"
            e == [orders[o] EXCEPT !.st = st]
<1>1. /\ orders[o].st = "PENDING" /\ orders[o].bank # "asks" /\ orders' = [orders EXCEPT ![o].st = st]
      /\ cart' = cart /\ page' = page /\ quotes' = quotes /\ merges' = merges
      /\ added' = added /\ removed' = removed /\ boxed' = boxed /\ unsure' = unsure
      /\ Typed /\ Goods /\ Asking
  BY DEF Settle, IInv, ledger
<1>2. orders \in Seq(Order) /\ o \in 1..Len(orders)
  BY <1>1 DEF Typed
<1>3. orders[o] \in Order /\ orders[o].lines # <<>> /\ orders[o].lines \in Carts
  BY <1>1, <1>2, OrderFacts
<1>4. /\ e \in Order /\ e.lines = orders[o].lines /\ e.st = st /\ e.bank = orders[o].bank
  BY <1>3 DEF Order
<1>5. orders' = [orders EXCEPT ![o] = e]
  BY <1>1, <1>2, <1>3
<1>6. \/ orders[o].bank = "yes" /\ st = "PAID"
      \/ orders[o].bank = "no" /\ st = "FAILED"
  BY <1>1, <1>3 DEF Order
<1>. HIDE DEF e, st
<1>7. orders' \in Seq(Order) /\ Len(orders') = Len(orders)
  BY <1>2, <1>4, <1>5
<1>8. \A p \in 1..Len(orders) : orders'[p] = IF p = o THEN e ELSE orders[p]
  BY <1>2, <1>5
<1>9. \A p \in 1..Len(orders) : orders'[p].lines = orders[p].lines
  BY <1>4, <1>8
<1>10. Typed'
  BY <1>1, <1>7, <1>9 DEF Typed
<1>11. OneAtATime'
  BY <1>1 DEF OneAtATime, Goods
<1>12. AboutTheCart'
  BY <1>1, <1>7, <1>9 DEF AboutTheCart, Goods
<1>13. AsTheBankSaid'
  BY <1>1, <1>4, <1>6, <1>7, <1>8 DEF AsTheBankSaid, Goods
<1>14. Waited'
  BY <1>1, <1>4, <1>6, <1>7, <1>8 DEF Waited, Goods
<1>15. \A u \in Tabs : Waits(page[u]) => page[u].order \in 1..Len(orders) /\ orders[page[u].order].lines = cart
  BY <1>1 DEF AboutTheCart, Goods
<1>16. \A i : /\ Bought(i) = Cardinality(Sold(orders, i))
              /\ Bought(i)' = Cardinality(Sold(orders', i))
  BY DEF Bought, Sold
<1>17. Books'
  <2>1. CASE st = "FAILED"
    <3>1. Taken' <=> Taken
      BY <1>1, <1>4, <1>8, <1>15, <2>1 DEF Taken
    <3>2. ASSUME NEW i \in Items PROVE Bought(i)' = Bought(i)
      <4>1. \A p \in 1..Len(orders) : orders'[p].st = "PAID" <=> orders[p].st = "PAID"
        BY <1>1, <1>4, <1>8, <2>1
      <4>2. Len(orders) <= Len(orders')
        BY <1>2, <1>7
      <4>3. Sold(orders', i) = Sold(orders, i)
        BY <1>2, <1>7, <1>9, <4>1, <4>2, SoldSame
      <4>. QED BY <1>16, <4>3
    <3>. QED BY <1>1, <3>1, <3>2, BooksSame DEF Goods
  <2>2. CASE st = "PAID"
    <3>1. \A i \in Items : /\ Units(cart, i) \in Nat /\ Bought(i) \in Nat /\ added[i] \in Nat
                           /\ removed[i] \in Nat /\ boxed[i] \in Nat
                           /\ Units(orders[o].lines, i) \in Nat
      BY <1>1, <1>3, CountsAre, UnitsNat
    <3>2. ASSUME NEW i \in Items PROVE Bought(i)' = Bought(i) + Units(orders[o].lines, i)
      <4>1. orders[o].st # "PAID" /\ orders'[o].st = "PAID"
        BY <1>1, <1>2, <1>4, <1>8, <2>2
      <4>2. \A p \in 1..Len(orders) : p # o => (orders'[p].st = "PAID" <=> orders[p].st = "PAID")
        BY <1>8
      <4>3. Cardinality(Sold(orders', i)) = Cardinality(Sold(orders, i)) + Units(orders[o].lines, i)
        BY <1>2, <1>7, <1>9, <4>1, <4>2, SoldMore
      <4>. QED BY <1>16, <4>3
    <3>3. \A i \in Items :
            /\ Shown(i) = (IF Taken THEN 0 ELSE Units(cart, i)) + removed[i] + Bought(i) + boxed[i]
            /\ Shown(i)' = (IF Taken' THEN 0 ELSE Units(cart, i)) + removed[i] + Bought(i)' + boxed[i]
      BY <1>1 DEF Shown
    <3>4. CASE \E u \in Tabs : Waits(page[u]) /\ page[u].order = o
      <4>1. PICK u \in Tabs : Waits(page[u]) /\ page[u].order = o
        BY <3>4
      <4>2. InFlow(page[u])
        BY <4>1 DEF InFlow, Waits
      <4>3. ~Taken
        BY <1>1, <4>1, <4>2, FlowFacts DEF StatusOf
      <4>4. Taken'
        BY <1>1, <1>2, <1>4, <1>8, <2>2, <4>1 DEF Taken
      <4>5. orders[o].lines = cart
        BY <1>15, <4>1
      <4>6. \A i \in Items : Shown(i)' = Shown(i)
        BY <3>1, <3>2, <3>3, <4>3, <4>4, <4>5
      <4>. QED BY <1>1, <4>6 DEF Books, Goods
    <3>5. CASE ~\E u \in Tabs : Waits(page[u]) /\ page[u].order = o
      <4>1. unsure
        BY <1>1, <1>2, <1>6, <2>2, <3>5 DEF Waited, Goods
      <4>2. Taken' <=> Taken
        BY <1>1, <1>8, <1>15, <3>5 DEF Taken
      <4>3. \A i \in Items : Shown(i) \in Nat /\ Shown(i)' \in Nat /\ Shown(i) <= Shown(i)'
        BY <3>1, <3>2, <3>3, <4>2
      <4>4. \A i \in Items : added[i] <= Shown(i)'
        BY <1>1, <3>1, <4>3 DEF Books, Goods
      <4>. QED BY <1>1, <4>1, <4>4 DEF Books, Goods
    <3>. QED BY <3>4, <3>5
  <2>. QED BY <1>6, <2>1, <2>2
<1>18. Asking'
  BY <1>1 DEF Asking
<1>. QED BY <1>10, <1>11, <1>12, <1>13, <1>14, <1>17, <1>18 DEF IInv, Goods

-----------------------------------------------------------------------------
(* The theorems *)

LEMMA InitHolds ==
  ASSUME Init
  PROVE  IInv
<1>1. /\ cart = <<>> /\ page = [t \in Tabs |-> Blank] /\ quotes = {} /\ merges = {} /\ orders = <<>>
      /\ added = [i \in Items |-> 0] /\ removed = added /\ boxed = added /\ unsure = FALSE
  BY DEF Init
<1>2. /\ cart \in Carts /\ Blank \in Page /\ ~InFlow(Blank) /\ ~Waits(Blank) /\ Blank.rows = <<>>
      /\ ~Blank.timer
  BY <1>1, EmptyCart, BlankIs DEF Blank, InFlow, Waits
<1>3. MaxUnits \in Nat /\ MaxOrders \in Nat
  BY CartPageAssumption
<1>4. /\ orders \in Seq(Order) /\ Len(orders) = 0 /\ DOMAIN orders = {} /\ 1..Len(orders) = {}
  BY <1>1
<1>5. Typed
  <2>1. page \in [Tabs -> Page]
    BY <1>1, <1>2
  <2>2. /\ added \in [Items -> 0..MaxUnits] /\ removed \in [Items -> Nat] /\ boxed \in [Items -> Nat]
    BY <1>1, <1>3
  <2>3. Len(orders) <= MaxOrders
    BY <1>3, <1>4
  <2>4. quotes \subseteq Quote /\ merges \subseteq Merge /\ unsure \in BOOLEAN
    BY <1>1
  <2>. QED BY <1>2, <1>4, <2>1, <2>2, <2>3, <2>4 DEF Typed
<1>6. OneAtATime /\ AboutTheCart /\ AsTheBankSaid /\ Waited /\ ~Taken
  BY <1>1, <1>2, <1>4 DEF OneAtATime, AboutTheCart, AsTheBankSaid, Waited, Taken
<1>7. Books
  <2>1. ASSUME NEW i \in Items PROVE Bought(i) = 0
    <3>1. Bought(i) = Cardinality({})
      BY <1>4 DEF Bought
    <3>. QED BY <3>1, FS_EmptySet
  <2>2. \A i \in Items : Units(cart, i) = 0
    BY <1>1, EmptyCart
  <2>3. \A i \in Items : Shown(i) = 0
    BY <1>1, <1>6, <2>1, <2>2 DEF Shown
  <2>. QED BY <1>1, <2>2, <2>3 DEF Books
<1>8. Asking
  BY <1>1, <1>2 DEF Asking, Knows
<1>. QED BY <1>5, <1>6, <1>7, <1>8 DEF IInv, Goods

LEMMA TabStepKept ==
  ASSUME Patient, IInv, NEW t \in Tabs, TabStep(t)
  PROVE  IInv'
<1>1. CASE OpenCart(t)
  BY <1>1, OpenCartKept
<1>2. CASE LeaveCart(t)
  BY <1>2, LeaveCartKept
<1>3. CASE \E k \in 1..Cardinality(Items), d \in {-1, 1} : Click(t, k, d)
  BY <1>3, ClickKept
<1>4. CASE AskForTotal(t)
  BY <1>4, AskForTotalKept
<1>5. CASE AskAgain(t)
  BY <1>5, AskAgainKept
<1>6. CASE \E c \in Codes \cup {Nothing} : ApplyCoupon(t, c)
  BY <1>6, ApplyCouponKept
<1>7. CASE AddToBox(t)
  BY <1>7, AddToBoxKept
<1>8. CASE Submit(t)
  BY <1>8, SubmitKept
<1>9. CASE Post(t)
  BY <1>9, PostKept
<1>10. CASE OrderAnswered(t)
  BY <1>10, OrderAnsweredKept
<1>11. CASE Poll(t)
  BY <1>11, PollKept
<1>12. CASE ReturnFromBank(t)
  BY <1>12, ReturnFromBankKept
<1>. QED BY <1>1, <1>2, <1>3, <1>4, <1>5, <1>6, <1>7, <1>8, <1>9, <1>10, <1>11, <1>12 DEF TabStep

LEMMA StepKept ==
  ASSUME Patient, IInv, [Next]_vars
  PROVE  IInv'
<1>1. CASE \E i \in Items : AddToCart(i)
  BY <1>1, AddToCartKept
<1>2. CASE \E t \in Tabs : TabStep(t)
  BY <1>2, TabStepKept
<1>3. CASE \E q \in quotes : TotalArrives(q) \/ TotalFails(q)
  BY <1>3, TotalArrivesKept, TotalFailsKept
<1>4. CASE \E m \in merges : BoxTakes(m) \/ BoxAnswers(m) \/ BoxFails(m) \/ BoxOrphan(m)
  <2>1. PICK m \in merges : BoxTakes(m) \/ BoxAnswers(m) \/ BoxFails(m) \/ BoxOrphan(m)
    BY <1>4
  <2>2. ~BoxOrphan(m)
    BY MergeFacts DEF BoxOrphan, IInv
  <2>. QED BY <2>1, <2>2, BoxTakesKept, BoxAnswersKept, BoxFailsKept
<1>5. CASE \E o \in DOMAIN orders :
             Settle(o) \/ \E answer \in {"yes", "no"} : BankDecides(o, answer)
  BY <1>5, SettleKept, BankDecidesKept
<1>6. CASE UNCHANGED vars
  <2>1. /\ cart' = cart /\ page' = page /\ quotes' = quotes /\ merges' = merges /\ orders' = orders
        /\ added' = added /\ removed' = removed /\ boxed' = boxed /\ unsure' = unsure
    BY <1>6 DEF vars
  <2>2. Typed'
    BY <2>1 DEF IInv, Typed
  <2>3. OneAtATime' /\ AboutTheCart' /\ AsTheBankSaid' /\ Waited'
    BY <2>1 DEF IInv, Goods, OneAtATime, AboutTheCart, AsTheBankSaid, Waited
  <2>4. Books'
    <3>1. Taken' <=> Taken
      BY <2>1 DEF Taken
    <3>2. \A i \in Items : Bought(i)' = Bought(i)
      BY <2>1 DEF Bought
    <3>. QED BY <2>1, <3>1, <3>2, BooksSame DEF IInv, Goods
  <2>5. Asking'
    BY <2>1 DEF IInv, Asking
  <2>. QED BY <2>2, <2>3, <2>4, <2>5 DEF IInv, Goods
<1>. QED BY <1>1, <1>2, <1>3, <1>4, <1>5, <1>6 DEF Next

\* What a patient shopper's shop keeps true in every state.
THEOREM CartInvariant == ASSUME Patient PROVE Spec => []IInv
<1>1. Init => IInv
  BY InitHolds
<1>2. IInv /\ [Next]_vars => IInv'
  BY StepKept
<1>. QED BY <1>1, <1>2, PTL DEF Spec

\* A cart page that has nothing more to ask, and whose last question did not
\* fail, shows the total of the lines and the code it shows, for any number of
\* tabs and whichever answers come late, twice overtaken or never
\* (views/sepet.hbs requestQuote).
THEOREM TotalRight == ASSUME Patient PROVE Spec => []TotalIsCurrent
<1>1. IInv => TotalIsCurrent
  <2>. SUFFICES ASSUME IInv, NEW t \in Tabs,
                       page[t].at, page[t].rows # <<>>, ~page[t].timer,
                       ~\E q \in quotes : q.tab = t /\ q.seq = page[t].seq
                PROVE  page[t].quote = Key(page[t], page[t].rows) \/ page[t].err
    BY DEF TotalIsCurrent
  <2>. QED BY DEF IInv, Asking, Knows
<1>. QED BY <1>1, CartInvariant, PTL

\* Every unit put in the cart is in it, or was taken out, bought or moved to
\* the box; and once only, as long as no page has given up on an order or a
\* move without its outcome (mergeCartIntoBox, onPaid, pollOrderStatus).
THEOREM UnitsBalance == ASSUME Patient PROVE Spec => []UnitsAccounted
<1>1. ASSUME IInv PROVE TypeOK
  <2>1. Typed
    BY <1>1 DEF IInv
  <2>2. cart \in Lines /\ \A t \in Tabs : page[t] \in Page /\ page[t].rows \in Lines
    BY <2>1, PageFacts, CartsAreLines DEF Typed
  <2>3. page \in [Tabs -> [
          at : BOOLEAN, rows : Lines, coupon : Codes \cup {Nothing},
          quote : Keys \cup {Nothing}, err : BOOLEAN,
          seq : 0..MaxQuotes, lastKey : Keys \cup {Nothing},
          timer : BOOLEAN, button : BOOLEAN,
          st : {"idle", "saving", "posting", "awaiting", "paid"},
          order : 0..MaxOrders, polls : 0..MaxPolls]]
    <3>1. Page \subseteq [
            at : BOOLEAN, rows : Lines, coupon : Codes \cup {Nothing},
            quote : Keys \cup {Nothing}, err : BOOLEAN,
            seq : 0..MaxQuotes, lastKey : Keys \cup {Nothing},
            timer : BOOLEAN, button : BOOLEAN,
            st : {"idle", "saving", "posting", "awaiting", "paid"},
            order : 0..MaxOrders, polls : 0..MaxPolls]
      BY CartsAreLines DEF Page
    <3>2. page \in [Tabs -> Page]
      BY <2>1 DEF Typed
    <3>. QED BY <3>1, <3>2
  <2>4. \A q \in quotes : q.tab \in Tabs /\ q.seq \in 1..MaxQuotes
    BY <2>1 DEF Typed, Quote
  <2>5. \A m \in merges : m.tab \in Tabs \cup {Nothing} /\ m.lines \in Lines
    BY <2>1, CartsAreLines DEF Typed, Merge
  <2>6. \A o \in DOMAIN orders : orders[o].lines \in Lines \ {<<>>}
    <3>1. DOMAIN orders = 1..Len(orders)
      BY <2>1 DEF Typed
    <3>. QED BY <2>1, <3>1, OrderFacts, CartsAreLines
  <2>7. {added, removed, boxed} \subseteq [Items -> Nat] /\ unsure \in BOOLEAN
    <3>1. MaxUnits \in Nat /\ 0..MaxUnits \subseteq Nat
      BY CartPageAssumption
    <3>. QED BY <2>1, <3>1 DEF Typed
  <2>. QED BY <2>2, <2>3, <2>4, <2>5, <2>6, <2>7 DEF TypeOK
<1>2. ASSUME IInv PROVE NothingTwice /\ NothingVanishes
  <2>1. Typed /\ Books
    BY <1>2 DEF IInv, Goods
  <2>2. \A i \in Items : /\ Units(cart, i) \in Nat /\ Bought(i) \in Nat /\ added[i] \in Nat
                         /\ removed[i] \in Nat /\ boxed[i] \in Nat
    BY <2>1, CountsAre
  <2>3. \A i \in Items :
          Shown(i) = (IF Taken THEN 0 ELSE Units(cart, i)) + removed[i] + Bought(i) + boxed[i]
    BY DEF Shown
  <2>4. \A i \in Items : /\ Bought(i) + boxed[i] + removed[i] <= Shown(i)
                         /\ Shown(i) <= Units(cart, i) + removed[i] + Bought(i) + boxed[i]
                         /\ Shown(i) \in Nat
    BY <2>2, <2>3
  <2>5. NothingTwice
    BY <2>1, <2>2, <2>4 DEF NothingTwice, Books
  <2>6. NothingVanishes
    BY <2>1, <2>2, <2>4 DEF NothingVanishes, Books
  <2>. QED BY <2>5, <2>6
<1>3. IInv => UnitsAccounted
  BY <1>1, <1>2 DEF UnitsAccounted
<1>. QED BY <1>3, CartInvariant, PTL
===============================================================================
