--------------------------- MODULE FulfilmentProofs ---------------------------
(***************************************************************************)
(* What TLAPS proves of Fulfilment, for any orders, desks, refunders and   *)
(* selections: an order that is closed gave its slot and its coupon back   *)
(* exactly once.  With one refund at a time and no lost answer the refunds *)
(* add up; with one admin at the desk no box leaves its table.             *)
(*                                                                         *)
(* The sum of the refunds that succeeded is a fold over the rows.  The     *)
(* first part shows what it does when one row changes or one is added, by  *)
(* induction over the finite sets of rows (NatInd, SubsetInd), itself from *)
(* the least element of a set of naturals.                                 *)
(***************************************************************************)
EXTENDS Fulfilment, FiniteSetTheorems, SequenceTheorems, WellFoundedInduction, TLAPS

SumEq(f, v, S) == f = [s \in SUBSET S |-> IF s = {} THEN 0
                        ELSE v[CHOOSE x \in s : TRUE] + f[s \ {CHOOSE x \in s : TRUE}]]

\* The sum of the community module is a fold, a function over the subsets chosen by its equation.
LEMMA SumUnfold ==
  ASSUME NEW v, NEW S
  PROVE  SumFunctionOnSet(v, S) = (CHOOSE f : SumEq(f, v, S))[S]
BY DEF SumFunctionOnSet, FoldFunctionOnSet, MapThenFoldSet, SumEq

LEMMA NatOrder == OpToRel(<, Nat) = {ss \in Nat \X Nat : ss[1] < ss[2]}
BY DEF OpToRel

\* A set of naturals has a least element.
LEMMA Least ==
  ASSUME NEW T \in SUBSET Nat, T # {}
  PROVE  \E n \in T : \A m \in T : n <= m
<1>1. IsWellFoundedOn({ss \in Nat \X Nat : ss[1] < ss[2]}, Nat) BY NatLessThanWellFounded, NatOrder
<1>2. PICK n \in T : \A m \in T : ~(<<m, n>> \in {ss \in Nat \X Nat : ss[1] < ss[2]}) BY <1>1, WFMin
<1>3. ASSUME NEW m \in T PROVE n <= m
  <2>1. <<m, n>> \in Nat \X Nat OBVIOUS
  <2>2. ~(m < n) BY <1>2, <2>1
  <2>. QED BY <2>2
<1>. QED BY <1>3

\* Induction over the naturals, with a set for the predicate.
LEMMA NatInd ==
  ASSUME NEW T \in SUBSET Nat, 0 \in T, \A n \in T : n + 1 \in T
  PROVE  \A n \in Nat : n \in T
<1>. SUFFICES ASSUME Nat \ T # {} PROVE FALSE OBVIOUS
<1>1. PICK n \in Nat \ T : \A m \in Nat \ T : n <= m BY Least
<1>2. n # 0 /\ n - 1 \in Nat OBVIOUS
<1>3. n - 1 \in T BY <1>1, <1>2
<1>4. (n - 1) + 1 \in T BY <1>3
<1>. QED BY <1>1, <1>4

Pick(s) == CHOOSE x \in s : TRUE
Small(S, n) == {s \in SUBSET S : Cardinality(s) <= n}
PartEq(f, v, S, n) ==
  f = [s \in Small(S, n) |-> IF s = {} THEN 0 ELSE v[Pick(s)] + f[s \ {Pick(s)}]]

LEMMA SmallFacts ==
  ASSUME NEW S, IsFiniteSet(S), NEW s \in SUBSET S, s # {}
  PROVE  /\ Pick(s) \in s /\ s \ {Pick(s)} \in SUBSET S
         /\ Cardinality(s) \in Nat /\ Cardinality(s \ {Pick(s)}) = Cardinality(s) - 1
         /\ IsFiniteSet(s)
<1>1. Pick(s) \in s BY DEF Pick
<1>2. IsFiniteSet(s) BY FS_Subset
<1>. QED BY <1>1, <1>2, FS_RemoveElement, FS_CardinalityType

\* The equation has a solution up to every size of subset.
LEMMA PartExists ==
  ASSUME NEW v, NEW S, IsFiniteSet(S)
  PROVE  \A n \in Nat : \E f : PartEq(f, v, S, n)
<1>. DEFINE T == {n \in Nat : \E f : PartEq(f, v, S, n)}
<1>1. 0 \in T
  <2>. DEFINE f == [s \in Small(S, 0) |-> 0]
  <2>1. ASSUME NEW s \in Small(S, 0) PROVE s = {}
    <3>1. IsFiniteSet(s) /\ Cardinality(s) \in Nat /\ Cardinality(s) <= 0
      BY <2>1, FS_Subset, FS_CardinalityType DEF Small
    <3>. QED BY <3>1, FS_EmptySet
  <2>2. PartEq(f, v, S, 0) BY <2>1 DEF PartEq
  <2>. QED BY <2>2
<1>2. ASSUME NEW n \in T PROVE n + 1 \in T
  <2>1. PICK f : PartEq(f, v, S, n) OBVIOUS
  <2>. DEFINE g == [s \in Small(S, n + 1) |-> IF s = {} THEN 0 ELSE v[Pick(s)] + f[s \ {Pick(s)}]]
  <2>2. ASSUME NEW s \in Small(S, n + 1), s # {} PROVE g[s \ {Pick(s)}] = f[s \ {Pick(s)}]
    <3>. DEFINE t == s \ {Pick(s)}
    <3>1. t \in Small(S, n) /\ t \in Small(S, n + 1)
      BY SmallFacts, <2>2 DEF Small
    <3>2. f[t] = IF t = {} THEN 0 ELSE v[Pick(t)] + f[t \ {Pick(t)}] BY <2>1, <3>1 DEF PartEq
    <3>3. g[t] = IF t = {} THEN 0 ELSE v[Pick(t)] + f[t \ {Pick(t)}] BY <3>1
    <3>. QED BY <3>2, <3>3
  <2>3. g = [s \in Small(S, n + 1) |-> IF s = {} THEN 0 ELSE v[Pick(s)] + g[s \ {Pick(s)}]]
    BY <2>2
  <2>4. PartEq(g, v, S, n + 1) BY <2>3 DEF PartEq
  <2>. QED BY <2>4
<1>. HIDE DEF T
<1>3. T \in SUBSET Nat BY DEF T
<1>4. \A n \in Nat : n \in T BY <1>1, <1>2, <1>3, NatInd
<1>. QED BY <1>4 DEF T

\* So it has one, and CHOOSE finds it.
LEMMA SumExists ==
  ASSUME NEW v, NEW S, IsFiniteSet(S)
  PROVE  \E f : SumEq(f, v, S)
<1>1. Cardinality(S) \in Nat BY FS_CardinalityType
<1>2. PICK f : PartEq(f, v, S, Cardinality(S)) BY <1>1, PartExists
<1>3. Small(S, Cardinality(S)) = SUBSET S BY FS_Subset DEF Small
<1>4. SumEq(f, v, S) BY <1>2, <1>3 DEF SumEq, PartEq, Pick
<1>. QED BY <1>4

\* Induction over the subsets of a finite set.
LEMMA SubsetInd ==
  ASSUME NEW S, IsFiniteSet(S), NEW P, {} \in P,
         \A s \in SUBSET S : s # {} /\ (\A x \in s : s \ {x} \in P) => s \in P
  PROVE  \A s \in SUBSET S : s \in P
<1>. DEFINE N == {n \in Nat : \A s \in SUBSET S : Cardinality(s) = n => s \in P}
<1>1. 0 \in N BY FS_EmptySet, FS_Subset
<1>2. ASSUME NEW n \in N PROVE n + 1 \in N
  <2>. SUFFICES ASSUME NEW s \in SUBSET S, Cardinality(s) = n + 1 PROVE s \in P OBVIOUS
  <2>1. IsFiniteSet(s) BY FS_Subset
  <2>2. n + 1 # 0 OBVIOUS
  <2>3. s # {} BY <2>2, FS_EmptySet
  <2>4. ASSUME NEW x \in s PROVE s \ {x} \in P
    <3>1. Cardinality(s \ {x}) = Cardinality(s) - 1 BY <2>1, FS_RemoveElement
    <3>2. Cardinality(s \ {x}) = n BY <3>1
    <3>. QED BY <3>2
  <2>. QED BY <2>3, <2>4
<1>. HIDE DEF N
<1>3. N \in SUBSET Nat BY DEF N
<1>4. \A n \in Nat : n \in N BY <1>1, <1>2, <1>3, NatInd
<1>5. ASSUME NEW s \in SUBSET S PROVE s \in P
  <2>1. Cardinality(s) \in Nat BY FS_Subset, FS_CardinalityType
  <2>2. Cardinality(s) \in N BY <2>1, <1>4
  <2>. QED BY <2>2 DEF N
<1>. QED BY <1>5

LEMMA SumFn ==
  ASSUME NEW v, NEW S, IsFiniteSet(S)
  PROVE  \E f : SumEq(f, v, S) /\ SumFunctionOnSet(v, S) = f[S]
BY SumExists, SumUnfold

LEMMA SumStep ==
  ASSUME NEW v, NEW f, NEW S, SumEq(f, v, S)
  PROVE  /\ f[{}] = 0
         /\ \A s \in SUBSET S : s # {} => Pick(s) \in s /\ f[s] = v[Pick(s)] + f[s \ {Pick(s)}]
BY DEF SumEq, Pick

\* A sum over a subset is the same in both.
LEMMA SumAgree ==
  ASSUME NEW v, NEW w, NEW f, NEW g, NEW S, NEW T, SumEq(f, v, S), SumEq(g, w, T),
         NEW U, U \subseteq S, U \subseteq T, IsFiniteSet(U), \A x \in U : v[x] = w[x]
  PROVE  f[U] = g[U]
<1>. DEFINE P == {s \in SUBSET U : f[s] = g[s]}
<1>1. {} \in P BY SumStep
<1>2. ASSUME NEW s \in SUBSET U, s # {}, \A x \in s : s \ {x} \in P PROVE s \in P
  <2>1. s \in SUBSET S /\ s \in SUBSET T OBVIOUS
  <2>2. Pick(s) \in s /\ f[s] = v[Pick(s)] + f[s \ {Pick(s)}] BY <2>1, <1>2, SumStep
  <2>3. g[s] = w[Pick(s)] + g[s \ {Pick(s)}] BY <2>1, <1>2, SumStep
  <2>4. f[s \ {Pick(s)}] = g[s \ {Pick(s)}] BY <2>2, <1>2
  <2>. QED BY <2>2, <2>3, <2>4
<1>. HIDE DEF P
<1>3. \A s \in SUBSET U : s \in P BY <1>1, <1>2, SubsetInd
<1>. QED BY <1>3 DEF P

LEMMA SumNat ==
  ASSUME NEW v, NEW f, NEW S, IsFiniteSet(S), SumEq(f, v, S), \A x \in S : v[x] \in Nat
  PROVE  \A s \in SUBSET S : f[s] \in Nat
<1>. DEFINE P == {s \in SUBSET S : f[s] \in Nat}
<1>1. {} \in P BY SumStep
<1>2. ASSUME NEW s \in SUBSET S, s # {}, \A x \in s : s \ {x} \in P PROVE s \in P
  <2>1. Pick(s) \in s /\ f[s] = v[Pick(s)] + f[s \ {Pick(s)}] BY <1>2, SumStep
  <2>2. f[s \ {Pick(s)}] \in Nat /\ v[Pick(s)] \in Nat BY <2>1, <1>2
  <2>. QED BY <2>1, <2>2
<1>. HIDE DEF P
<1>3. \A s \in SUBSET S : s \in P BY <1>1, <1>2, SubsetInd
<1>. QED BY <1>3 DEF P

\* The order of the summands does not matter: any of them may be the last.
LEMMA SumAny ==
  ASSUME NEW v, NEW f, NEW S, IsFiniteSet(S), SumEq(f, v, S), \A x \in S : v[x] \in Nat
  PROVE  \A s \in SUBSET S : \A x \in s : f[s] = v[x] + f[s \ {x}]
<1>0. \A s \in SUBSET S : s # {} => Pick(s) \in s /\ f[s] = v[Pick(s)] + f[s \ {Pick(s)}]
  <2>1. SumEq(f, v, S) OBVIOUS
  <2>. QED BY ONLY <2>1, SumStep
<1>. DEFINE P == {s \in SUBSET S : \A x \in s : f[s] = v[x] + f[s \ {x}]}
<1>1. {} \in P OBVIOUS
<1>2. ASSUME NEW s \in SUBSET S, s # {}, \A x \in s : s \ {x} \in P PROVE s \in P
  <2>. SUFFICES ASSUME NEW x \in s PROVE f[s] = v[x] + f[s \ {x}] OBVIOUS
  <2>. DEFINE r == (s \ {x}) \ {Pick(s)}
  <2>1. Pick(s) \in s /\ f[s] = v[Pick(s)] + f[s \ {Pick(s)}]
    <3>1. s # {} OBVIOUS
    <3>. QED BY <3>1, <1>0
  <2>2. CASE x = Pick(s) BY <2>1, <2>2
  <2>3. CASE x # Pick(s)
    <3>1. r = (s \ {Pick(s)}) \ {x} OBVIOUS
    <3>2. f[s \ {Pick(s)}] = v[x] + f[r]
      <4>1. s \ {Pick(s)} \in P BY <1>2, <2>1
      <4>. QED BY <4>1, <2>3, <3>1
    <3>3. f[s \ {x}] = v[Pick(s)] + f[r]
      <4>1. s \ {x} \in P BY <1>2
      <4>. QED BY <4>1, <2>1, <2>3
    <3>4. v[Pick(s)] \in Nat /\ v[x] \in Nat BY <2>1
    <3>5. r \in SUBSET S OBVIOUS
    <3>6. f[r] \in Nat BY <3>5, SumNat
    <3>7. f[s] = v[Pick(s)] + (v[x] + f[r]) BY <2>1, <3>2
    <3>. HIDE DEF r
    <3>. QED BY <3>7, <3>3, <3>4, <3>6
  <2>. QED BY <2>2, <2>3
<1>. HIDE DEF P
<1>3. \A s \in SUBSET S : s \in P BY <1>1, <1>2, SubsetInd
<1>. QED BY <1>3 DEF P

\* Numbers add up to a number.
LEMMA SumIsNat ==
  ASSUME NEW S, IsFiniteSet(S), NEW v, \A x \in S : v[x] \in Nat
  PROVE  SumFunctionOnSet(v, S) \in Nat
BY SumFn, SumNat

\* Nothing adds up to nothing.
LEMMA SumEmpty ==
  ASSUME NEW v PROVE SumFunctionOnSet(v, {}) = 0
<1>1. IsFiniteSet({}) BY FS_EmptySet
<1>. QED BY <1>1, SumFn, SumStep

\* Equal summands, equal sums.
LEMMA SumSame ==
  ASSUME NEW S, IsFiniteSet(S), NEW v, NEW w, \A x \in S : v[x] = w[x]
  PROVE  SumFunctionOnSet(v, S) = SumFunctionOnSet(w, S)
BY SumFn, SumAgree

\* Any summand can be taken out.
LEMMA SumSplit ==
  ASSUME NEW S, IsFiniteSet(S), NEW v, \A x \in S : v[x] \in Nat, NEW k \in S
  PROVE  SumFunctionOnSet(v, S) = v[k] + SumFunctionOnSet(v, S \ {k})
<1>1. PICK f : SumEq(f, v, S) /\ SumFunctionOnSet(v, S) = f[S] BY SumFn
<1>2. IsFiniteSet(S \ {k}) BY FS_RemoveElement
<1>3. PICK g : SumEq(g, v, S \ {k}) /\ SumFunctionOnSet(v, S \ {k}) = g[S \ {k}] BY <1>2, SumFn
<1>4. f[S \ {k}] = g[S \ {k}] BY <1>1, <1>2, <1>3, SumAgree
<1>5. f[S] = v[k] + f[S \ {k}] BY <1>1, SumAny
<1>. QED BY <1>1, <1>3, <1>4, <1>5
-------------------------------------------------------------------------------
(* What a handler holds at each of its steps.                               *)

RefundRow == [amount : 1..Amount, status : {"PENDING", "SUCCEEDED", "FAILED"}]
Handler == [pc : {"idle", "read", "write", "cycle", "lock", "move", "apply", "call", "paid", "settle"},
            by : {None, "desk", "customer", "bulk", "some", "refund"},
            o : Orders \cup {None}, to : OrderStatus \cup {None},
            from : OrderStatus \cup {None}, todo : SUBSET UNION Selections,
            done : SUBSET Orders, failed : SUBSET Orders, sum : 0..Amount,
            n : 0..MaxRefunds, status : PaymentStatus \cup {None}]

OnBox == {"cycle", "lock", "move"}
Paying == {"call", "paid", "settle"}

\* A row is named before it is worked on; a write follows an assertion; a refund stands alone.
Fit(h) ==
  /\ h.pc \in {"read", "write"} => h.o \in Orders /\ h.to \in OrderStatus
  /\ h.pc \in OnBox => h.o \in Boxes /\ h.to \in CycleTargets
  /\ h.pc = "write" => h.from \in OrderStatus /\ CanOrder(h.from, h.to)
  /\ h.pc = "move" => h.from \in OrderStatus
  /\ h.pc \in Paying => h.o \in Orders /\ h.by = "refund" /\ h.todo = {} /\ h.from \in OrderStatus
  /\ \A x \in h.todo : h.to \in BulkTargets /\ (x[1] = "cycle" => h.to \in CycleTargets)

HandlersOK == proc \in [Procs -> Handler] /\ \A p \in Procs : Fit(proc[p])

\* The row a refund works on is there, and only refunders pay back.
OnRow(p) == At(p, "call") \/ At(p, "paid") \/ At(p, "settle")
            => p \in Refunders /\ proc[p].n \in 1..Len(refund[proc[p].o])

\* The customer only ever cancels.
CustomerCancels == /\ proc[Customer].pc \in {"idle", "read", "write"}
                   /\ proc[Customer].by \in {None, "customer"}

Rows == /\ refund \in [Orders -> Seq(RefundRow)]
        /\ \A o \in Orders : Len(refund[o]) <= MaxRefunds
        /\ returned \in [Orders -> Nat]

Basic == /\ order \in [Orders -> OrderStatus] /\ cycle \in [Boxes -> CycleStatus]
         /\ pay \in [Orders -> PaymentStatus] /\ cut \in BOOLEAN
         /\ Rows /\ HandlersOK /\ CustomerCancels
         /\ \A p \in Procs : OnRow(p)

LEMMA Statuses ==
  /\ CycleTargets \subseteq OrderStatus /\ CycleTargets \subseteq CycleStatus
  /\ BulkTargets \subseteq OrderStatus
  /\ \A s \in OrderStatus : OrderTransitions[s] \subseteq OrderStatus
BY DEF CycleTargets, BulkTargets, OrderStatus, CycleStatus, OrderTransitions

LEMMA People == Boxes \subseteq Orders /\ Customer \in Procs /\ Customer \notin Desk /\ Desk \subseteq Procs
                /\ MaxRefunds \in Nat /\ Amount \in Nat
BY OrdersAssumption, DeskAssumption, AmountAssumption DEF Procs

LEMMA IdleOK == Idle \in Handler /\ Fit(Idle) /\ Idle.pc = "idle" /\ Idle.by = None
BY People DEF Idle, Handler, Fit, OnBox, Paying, None

\* One handler moves, the others stay.
LEMMA Moves ==
  ASSUME HandlersOK, NEW p \in Procs, NEW h \in Handler, Fit(h), proc' = [proc EXCEPT ![p] = h]
  PROVE  HandlersOK'
<1>1. proc' \in [Procs -> Handler] BY DEF HandlersOK
<1>2. ASSUME NEW q \in Procs PROVE Fit(proc'[q])
  <2>1. CASE q = p BY <2>1 DEF HandlersOK
  <2>2. CASE q # p
    <3>1. proc'[q] = proc[q] BY <2>2 DEF HandlersOK
    <3>. QED BY <3>1 DEF HandlersOK
  <2>. QED BY <2>1, <2>2
<1>3. \A q \in Procs : Fit(proc[q])' BY <1>2 DEF Fit
<1>. QED BY <1>1, <1>3 DEF HandlersOK

LEMMA MovesRow ==
  ASSUME HandlersOK, \A q \in Procs : OnRow(q), CustomerCancels,
         NEW p \in Procs, NEW h \in Handler, proc' = [proc EXCEPT ![p] = h],
         h.pc \notin Paying, p = Customer => h.pc \in {"idle", "read", "write"} /\ h.by \in {None, "customer"},
         UNCHANGED refund
  PROVE  (\A q \in Procs : OnRow(q)') /\ CustomerCancels'
<1>1. proc'[p] = h BY DEF HandlersOK
<1>2. \A q \in Procs : q # p => proc'[q] = proc[q] BY DEF HandlersOK
<1>3. ASSUME NEW q \in Procs PROVE OnRow(q)'
  <2>1. CASE q = p BY <2>1, <1>1 DEF OnRow, At, Paying
  <2>2. CASE q # p BY <2>2, <1>2 DEF OnRow, At
  <2>. QED BY <2>1, <2>2
<1>4. CustomerCancels' BY <1>1, <1>2, People DEF CustomerCancels
<1>. QED BY <1>3, <1>4

LEMMA AfterRowOK ==
  ASSUME NEW h \in Handler, Fit(h), NEW ok \in BOOLEAN, h.pc \in OnBox \cup {"read", "write"}
  PROVE  /\ AfterRow(h, ok) \in Handler /\ Fit(AfterRow(h, ok))
         /\ AfterRow(h, ok).pc \in {"idle", "apply"}
         /\ h.by \in {None, "customer"} => AfterRow(h, ok) = Idle
<1>1. CASE h.by \notin {"bulk", "some"} BY <1>1, IdleOK DEF AfterRow, None
<1>2. CASE h.by \in {"bulk", "some"}
  <2>1. h.o \in Orders BY People DEF Fit, OnBox
  <2>. PICK g : g = [h EXCEPT !.pc = "apply", !.done = IF ok THEN @ \cup {h.o} ELSE @,
                              !.failed = IF ok THEN @ ELSE @ \cup {h.o}] OBVIOUS
  <2>2. g \in Handler BY <2>1 DEF Handler
  <2>3. g.pc = "apply" /\ g.todo = h.todo /\ g.to = h.to BY DEF Handler
  <2>4. Fit(g) BY <2>3 DEF Fit, OnBox, Paying
  <2>5. AfterRow(h, ok) = g BY <1>2 DEF AfterRow
  <2>. QED BY <1>2, <2>2, <2>3, <2>4, <2>5 DEF None
<1>. QED BY <1>1, <1>2

LEMMA Ends ==
  ASSUME Basic, NEW p \in Procs, NEW ok \in BOOLEAN, Ended(p, ok),
         proc[p].pc \in OnBox \cup {"read", "write"}, UNCHANGED refund
  PROVE  HandlersOK' /\ CustomerCancels' /\ \A q \in Procs : OnRow(q)'
<1>. PICK h : h = proc[p] OBVIOUS
<1>1. h \in Handler /\ Fit(h) BY DEF Basic, HandlersOK
<1>. PICK g : g = AfterRow(h, ok) OBVIOUS
<1>2. g \in Handler /\ Fit(g) /\ g.pc \in {"idle", "apply"} /\ (h.by \in {None, "customer"} => g = Idle)
  BY <1>1, AfterRowOK
<1>3. proc' = [proc EXCEPT ![p] = g] BY DEF Ended
<1>4. p = Customer => g = Idle BY <1>2 DEF Basic, CustomerCancels
<1>5. HandlersOK' BY <1>2, <1>3, Moves DEF Basic
<1>6. g.pc \notin Paying BY <1>2 DEF Paying
<1>7. p = Customer => g.pc \in {"idle", "read", "write"} /\ g.by \in {None, "customer"} BY <1>4, IdleOK
<1>. QED BY <1>2, <1>3, <1>5, <1>6, <1>7, MovesRow DEF Basic
-------------------------------------------------------------------------------
(* Each step keeps `Basic`.                                                 *)

\* A step of handler p to the local state h that touches no row of the database.
LEMMA Local ==
  ASSUME Basic, NEW p \in Procs, NEW h \in Handler, Fit(h), proc' = [proc EXCEPT ![p] = h],
         h.pc \notin Paying, p = Customer => h.pc \in {"idle", "read", "write"} /\ h.by \in {None, "customer"},
         UNCHANGED <<order, cycle, pay, refund, returned, cut>>
  PROVE  Basic'
<1>1. HandlersOK' BY Moves DEF Basic
<1>2. (\A q \in Procs : OnRow(q)') /\ CustomerCancels' BY MovesRow DEF Basic
<1>3. Rows' BY DEF Basic, Rows
<1>. QED BY <1>1, <1>2, <1>3 DEF Basic

\* It holds at the start.
LEMMA BasicInit == Init => Basic
<1>. SUFFICES ASSUME Init PROVE Basic OBVIOUS
<1>1. order \in [Orders -> OrderStatus] /\ cycle \in [Boxes -> CycleStatus]
      /\ pay \in [Orders -> PaymentStatus] /\ cut \in BOOLEAN
  BY DEF Init, OrderStatus, CycleStatus, PaymentStatus
<1>2. Rows
  <2>1. <<>> \in Seq(RefundRow) /\ Len(<<>>) = 0 OBVIOUS
  <2>2. \A o \in Orders : refund[o] = <<>> BY DEF Init
  <2>3. refund \in [Orders -> Seq(RefundRow)] BY <2>1 DEF Init
  <2>4. returned \in [Orders -> Nat] BY DEF Init
  <2>. QED BY <2>1, <2>2, <2>3, <2>4, People DEF Rows
<1>3. \A p \in Procs : proc[p] = Idle BY DEF Init
<1>4. HandlersOK
  <2>1. proc \in [Procs -> Handler] BY IdleOK DEF Init
  <2>. QED BY <2>1, <1>3, IdleOK DEF HandlersOK
<1>5. CustomerCancels BY <1>3, IdleOK, People DEF CustomerCancels
<1>6. \A p \in Procs : OnRow(p) BY <1>3, IdleOK DEF OnRow, At
<1>. QED BY <1>1, <1>2, <1>4, <1>5, <1>6 DEF Basic

LEMMA ReadBasic == ASSUME Basic, NEW p \in Procs, TransitionRead(p) PROVE Basic'
<1>. PICK h : h = proc[p] OBVIOUS
<1>0. h \in Handler /\ Fit(h) /\ h.pc = "read" BY DEF Basic, HandlersOK, TransitionRead, At
<1>1. UNCHANGED <<order, cycle, pay, refund, returned, cut>>
  BY DEF TransitionRead, dbVars, orderVars, moneyVars
<1>2. CASE CanOrder(order[h.o], h.to)
  <2>. PICK g : g = [h EXCEPT !.pc = "write", !.from = order[h.o]] OBVIOUS
  <2>1. proc' = [proc EXCEPT ![p] = g] BY <1>2 DEF TransitionRead
  <2>2. h.o \in Orders /\ h.to \in OrderStatus BY <1>0 DEF Fit
  <2>3. order[h.o] \in OrderStatus BY <2>2 DEF Basic
  <2>4. g \in Handler BY ZenonT(40), <1>0, <2>3 DEF Handler
  <2>5. g.pc = "write" /\ g.o = h.o /\ g.to = h.to /\ g.from = order[h.o] /\ g.todo = h.todo /\ g.by = h.by
    BY <1>0 DEF Handler
  <2>6. Fit(g) BY <2>5, <2>2, <2>3, <1>0, <1>2 DEF Fit, OnBox, Paying
  <2>7. p = Customer => g.by \in {None, "customer"} BY <2>5 DEF Basic, CustomerCancels
  <2>8. g.pc \notin Paying BY <2>5 DEF Paying
  <2>. QED BY <1>1, <2>1, <2>4, <2>5, <2>6, <2>7, <2>8, Local
<1>3. CASE ~CanOrder(order[h.o], h.to)
  <2>1. Ended(p, FALSE) BY <1>3 DEF TransitionRead
  <2>2. HandlersOK' /\ CustomerCancels' /\ \A q \in Procs : OnRow(q)' BY <2>1, <1>0, <1>1, Ends
  <2>. QED BY <2>2, <1>1 DEF Basic, Rows
<1>. QED BY <1>2, <1>3

LEMMA WriteBasic == ASSUME Basic, NEW p \in Procs, TransitionWrite(p) PROVE Basic'
<1>. PICK h : h = proc[p] OBVIOUS
<1>0. h \in Handler /\ Fit(h) /\ h.pc = "write" BY DEF Basic, HandlersOK, TransitionWrite, At
<1>1. UNCHANGED <<cycle, pay, refund, returned, cut>> BY DEF TransitionWrite, moneyVars
<1>2. PICK ok \in BOOLEAN : Ended(p, ok) BY DEF TransitionWrite
<1>3. HandlersOK' /\ CustomerCancels' /\ \A q \in Procs : OnRow(q)' BY <1>2, <1>0, <1>1, Ends
<1>4. order' \in [Orders -> OrderStatus]
  <2>1. order' = order \/ order' = [order EXCEPT ![h.o] = h.to] BY DEF TransitionWrite, orderVars
  <2>2. h.to \in OrderStatus BY <1>0 DEF Fit
  <2>. QED BY <2>1, <2>2 DEF Basic
<1>. QED BY <1>1, <1>3, <1>4 DEF Basic, Rows

\* A handler begins.
Fresh(pc, by, o, to) == [Idle EXCEPT !.pc = pc, !.by = by, !.o = o, !.to = to]

LEMMA FreshOK ==
  ASSUME NEW pc \in {"read", "cycle"}, NEW by \in {"desk", "customer"}, NEW o \in Orders, NEW to \in OrderStatus,
         pc = "cycle" => o \in Boxes /\ to \in CycleTargets
  PROVE  Fresh(pc, by, o, to) \in Handler /\ Fit(Fresh(pc, by, o, to))
         /\ Fresh(pc, by, o, to).pc = pc /\ Fresh(pc, by, o, to).by = by
         /\ Fresh(pc, by, o, to).o = o /\ Fresh(pc, by, o, to).to = to
<1>. PICK g : g = Fresh(pc, by, o, to) OBVIOUS
<1>1. g.pc = pc /\ g.by = by /\ g.o = o /\ g.to = to /\ g.todo = {} BY DEF Fresh, Idle
<1>2. g \in Handler
  <2>1. g = [pc |-> pc, by |-> by, o |-> o, to |-> to, from |-> None, todo |-> {}, done |-> {},
             failed |-> {}, sum |-> 0, n |-> 0, status |-> None]
    BY DEF Fresh, Idle
  <2>. QED BY <2>1, People DEF Handler
<1>3. Fit(g) BY <1>1 DEF Fit, OnBox, Paying
<1>. QED BY <1>1, <1>2, <1>3

LEMMA DeskBasic ==
  ASSUME Basic, NEW p, NEW o \in Orders, NEW to, UpdateStatusAdmin(p, o, to) PROVE Basic'
<1>1. p \in Procs /\ p # Customer /\ to \in OrderStatus BY People, DeskAssumption DEF UpdateStatusAdmin
<1>2. proc' = [proc EXCEPT ![p] = Fresh("read", "desk", o, to)] BY DEF UpdateStatusAdmin, Fresh
<1>3. UNCHANGED <<order, cycle, pay, refund, returned, cut>>
  BY DEF UpdateStatusAdmin, dbVars, orderVars, moneyVars
<1>. PICK g : g = Fresh("read", "desk", o, to) OBVIOUS
<1>4. g \in Handler /\ Fit(g) /\ g.pc = "read" BY <1>1, FreshOK
<1>5. g.pc \notin Paying BY <1>4 DEF Paying
<1>. QED BY <1>1, <1>2, <1>3, <1>4, <1>5, Local

LEMMA CustomerBasic ==
  ASSUME Basic, NEW o \in Orders, CancelByCustomer(o) PROVE Basic'
<1>2. proc' = [proc EXCEPT ![Customer] = Fresh("read", "customer", o, "CANCELLED")] BY DEF CancelByCustomer, Fresh
<1>3. UNCHANGED <<order, cycle, pay, refund, returned, cut>>
  BY DEF CancelByCustomer, dbVars, orderVars, moneyVars
<1>. PICK g : g = Fresh("read", "customer", o, "CANCELLED") OBVIOUS
<1>1. "CANCELLED" \in OrderStatus BY DEF OrderStatus
<1>4. g \in Handler /\ Fit(g) /\ g.pc = "read" /\ g.by = "customer" BY <1>1, FreshOK
<1>5. g.pc \notin Paying BY <1>4 DEF Paying
<1>. QED BY <1>2, <1>3, <1>4, <1>5, Local, People

LEMMA AdminBasic ==
  ASSUME Basic, NEW p, NEW b, NEW to, AdminSetStatus(p, b, to) PROVE Basic'
<1>1. p \in Procs /\ p # Customer /\ to \in OrderStatus /\ b \in Orders /\ b \in Boxes /\ to \in CycleTargets
  BY People, Statuses DEF AdminSetStatus
<1>2. proc' = [proc EXCEPT ![p] = Fresh("cycle", "desk", b, to)] BY DEF AdminSetStatus, Fresh
<1>3. UNCHANGED <<order, cycle, pay, refund, returned, cut>>
  BY DEF AdminSetStatus, dbVars, orderVars, moneyVars
<1>. PICK g : g = Fresh("cycle", "desk", b, to) OBVIOUS
<1>4. g \in Handler /\ Fit(g) /\ g.pc = "cycle" BY <1>1, FreshOK
<1>5. g.pc \notin Paying BY <1>4 DEF Paying
<1>. QED BY <1>1, <1>2, <1>3, <1>4, <1>5, Local

\* The customer stays out of what only the desk does.
LEMMA NotCustomer ==
  ASSUME Basic, NEW p \in Procs, proc[p].pc \notin {"idle", "read", "write"} PROVE p # Customer
BY DEF Basic, CustomerCancels

LEMMA CycleReadBasic == ASSUME Basic, NEW p \in Procs, CycleRead(p) PROVE Basic'
<1>. PICK h : h = proc[p] OBVIOUS
<1>0. h \in Handler /\ Fit(h) /\ h.pc = "cycle" BY DEF Basic, HandlersOK, CycleRead, At
<1>1. UNCHANGED <<order, cycle, pay, refund, returned, cut>>
  BY DEF CycleRead, dbVars, orderVars, moneyVars
<1>2. CASE CanCycle(cycle[h.o], h.to)
  <2>. PICK g : g = [h EXCEPT !.pc = "lock"] OBVIOUS
  <2>1. proc' = [proc EXCEPT ![p] = g] BY <1>2 DEF CycleRead, Goto
  <2>2. g \in Handler BY <1>0 DEF Handler
  <2>3. g.pc = "lock" /\ g.o = h.o /\ g.to = h.to /\ g.todo = h.todo BY <1>0 DEF Handler
  <2>4. Fit(g) BY <2>3, <1>0 DEF Fit, OnBox, Paying
  <2>5. p # Customer BY <1>0, NotCustomer
  <2>6. g.pc \notin Paying BY <2>3 DEF Paying
  <2>. QED BY <1>1, <2>1, <2>2, <2>4, <2>5, <2>6, Local
<1>3. CASE ~CanCycle(cycle[h.o], h.to)
  <2>1. Ended(p, FALSE) BY <1>3 DEF CycleRead
  <2>2. HandlersOK' /\ CustomerCancels' /\ \A q \in Procs : OnRow(q)' BY <2>1, <1>0, <1>1, Ends DEF OnBox
  <2>. QED BY <2>2, <1>1 DEF Basic, Rows
<1>. QED BY <1>2, <1>3

LEMMA CycleLockBasic == ASSUME Basic, NEW p \in Procs, CycleLock(p) PROVE Basic'
<1>. PICK h : h = proc[p] OBVIOUS
<1>0. h \in Handler /\ Fit(h) /\ h.pc = "lock" BY DEF Basic, HandlersOK, CycleLock, At
<1>1. UNCHANGED <<order, cycle, pay, refund, returned, cut>>
  BY DEF CycleLock, dbVars, orderVars, moneyVars
<1>. PICK g : g = [h EXCEPT !.pc = "move", !.from = order[h.o]] OBVIOUS
<1>2. proc' = [proc EXCEPT ![p] = g] BY DEF CycleLock
<1>3. order[h.o] \in OrderStatus BY <1>0, People DEF Fit, OnBox, Basic
<1>4. g \in Handler BY ZenonT(40), <1>0, <1>3 DEF Handler
<1>5. g.pc = "move" /\ g.o = h.o /\ g.to = h.to /\ g.todo = h.todo /\ g.from = order[h.o] BY <1>0 DEF Handler
<1>6. Fit(g) BY <1>5, <1>0, <1>3 DEF Fit, OnBox, Paying
<1>7. p # Customer BY <1>0, NotCustomer
<1>8. g.pc \notin Paying BY <1>5 DEF Paying
<1>. QED BY <1>1, <1>2, <1>4, <1>6, <1>7, <1>8, Local

LEMMA CycleMoveBasic == ASSUME Basic, NEW p \in Procs, CycleMove(p) PROVE Basic'
<1>. PICK h : h = proc[p] OBVIOUS
<1>0. h \in Handler /\ Fit(h) /\ h.pc = "move" BY DEF Basic, HandlersOK, CycleMove, At
<1>1. UNCHANGED <<pay, refund, returned, cut>> /\ Ended(p, TRUE) BY DEF CycleMove, moneyVars
<1>2. HandlersOK' /\ CustomerCancels' /\ \A q \in Procs : OnRow(q)' BY <1>0, <1>1, Ends DEF OnBox
<1>3. h.to \in CycleStatus /\ h.to \in OrderStatus BY <1>0, Statuses DEF Fit, OnBox
<1>4. cycle' = [cycle EXCEPT ![h.o] = h.to] BY DEF CycleMove
<1>5. order' = order \/ order' = [order EXCEPT ![h.o] = h.to]
  <2>1. order' = [order EXCEPT ![h.o] = IF CanOrder(h.from, h.to) /\ Matches(h.o, h.from)
                                         THEN h.to ELSE order[h.o]]
    BY DEF CycleMove
  <2>. QED BY <2>1 DEF Basic
<1>6. cycle' \in [Boxes -> CycleStatus] BY <1>3, <1>4 DEF Basic
<1>7. order' \in [Orders -> OrderStatus] BY <1>3, <1>5 DEF Basic
<1>. QED BY <1>1, <1>2, <1>6, <1>7 DEF Basic, Rows

LEMMA BulkBasic ==
  ASSUME Basic, NEW p, NEW sel \in Selections, NEW to, NEW skipInvalid \in BOOLEAN,
         BulkStatus(p, sel, to, skipInvalid)
  PROVE  Basic'
<1>. DEFINE todo == {x \in sel : Applicable(x, to)}
<1>. PICK g : g = [Idle EXCEPT !.pc = "apply", !.to = to,
                   !.by = IF skipInvalid THEN "some" ELSE "bulk", !.todo = todo] OBVIOUS
<1>1. p \in Procs /\ p # Customer /\ to \in OrderStatus /\ to \in BulkTargets
  BY People, Statuses DEF BulkStatus
<1>2. proc' = [proc EXCEPT ![p] = g] BY DEF BulkStatus
<1>3. UNCHANGED <<order, cycle, pay, refund, returned, cut>>
  BY DEF BulkStatus, dbVars, orderVars, moneyVars
<1>4. \A x \in todo : x[1] = "cycle" => to \in CycleTargets BY DEF Applicable
<1>5. todo \in SUBSET UNION Selections OBVIOUS
<1>. HIDE DEF todo
<1>6. g.pc = "apply" /\ g.to = to /\ g.todo = todo BY DEF Idle
<1>7. g \in Handler
  <2>. PICK by : by = IF skipInvalid THEN "some" ELSE "bulk" OBVIOUS
  <2>1. g = [pc |-> "apply", by |-> by, o |-> None, to |-> to,
             from |-> None, todo |-> todo, done |-> {}, failed |-> {}, sum |-> 0, n |-> 0, status |-> None]
    BY DEF Idle
  <2>2. by \in {"some", "bulk"} OBVIOUS
  <2>. QED BY ONLY <2>1, <2>2, <1>1, <1>5, People DEF Handler
<1>8. Fit(g) BY <1>1, <1>4, <1>6 DEF Fit, OnBox, Paying
<1>9. g.pc \notin Paying BY <1>6 DEF Paying
<1>. QED BY <1>1, <1>2, <1>3, <1>7, <1>8, <1>9, Local

LEMMA ApplyBasic == ASSUME Basic, NEW p \in Procs, ApplyNext(p) PROVE Basic'
<1>. PICK h : h = proc[p] OBVIOUS
<1>0. h \in Handler /\ Fit(h) /\ h.pc = "apply" BY DEF Basic, HandlersOK, ApplyNext, At
<1>1. UNCHANGED <<order, cycle, pay, refund, returned, cut>>
  BY DEF ApplyNext, dbVars, orderVars, moneyVars
<1>2. PICK item \in h.todo :
        proc' = [proc EXCEPT ![p] = [h EXCEPT !.pc = IF item[1] = "cycle" THEN "cycle" ELSE "read",
                                             !.o = item[2], !.todo = h.todo \ {item}]]
  BY DEF ApplyNext
<1>3. item \in Items BY <1>0, DeskAssumption DEF Handler
<1>4. item[2] \in Orders /\ (item[1] = "cycle" => item[2] \in Boxes) BY <1>3, People DEF Items
<1>5. h.to \in OrderStatus /\ (item[1] = "cycle" => h.to \in CycleTargets) BY <1>0, Statuses DEF Fit
<1>. PICK pc : pc = IF item[1] = "cycle" THEN "cycle" ELSE "read" OBVIOUS
<1>. PICK r : r = item[2] OBVIOUS
<1>. PICK left : left = h.todo \ {item} OBVIOUS
<1>. PICK g : g = [h EXCEPT !.pc = pc, !.o = r, !.todo = left] OBVIOUS
<1>6. proc' = [proc EXCEPT ![p] = g] BY <1>2
<1>7. pc \in {"cycle", "read"} /\ (pc = "cycle" => item[1] = "cycle") OBVIOUS
<1>8. left \in SUBSET UNION Selections BY <1>0 DEF Handler
<1>9. g \in Handler
  <2>1. r \in Orders /\ h \in Handler /\ g = [h EXCEPT !.pc = pc, !.o = r, !.todo = left] BY <1>0, <1>4
  <2>. QED BY ONLY <2>1, <1>7, <1>8 DEF Handler
<1>10. g.pc = pc /\ g.o = r /\ g.todo = left /\ g.to = h.to BY <1>0 DEF Handler
<1>11. Fit(g)
  <2>1. \A x \in g.todo : g.to \in BulkTargets /\ (x[1] = "cycle" => g.to \in CycleTargets)
    BY <1>0, <1>10 DEF Fit
  <2>. QED BY <1>4, <1>5, <1>7, <1>10, <2>1 DEF Fit, OnBox, Paying
<1>12. p # Customer BY <1>0, NotCustomer
<1>13. g.pc \notin Paying BY <1>7, <1>10 DEF Paying
<1>. QED BY <1>1, <1>6, <1>9, <1>11, <1>12, <1>13, Local

LEMMA ReplyBasic == ASSUME Basic, NEW p \in Procs, BulkReply(p) PROVE Basic'
<1>1. UNCHANGED <<order, cycle, pay, refund, returned, cut>>
  BY DEF BulkReply, dbVars, orderVars, moneyVars
<1>2. proc' = [proc EXCEPT ![p] = Idle] BY DEF BulkReply
<1>3. Idle.pc \notin Paying BY IdleOK DEF Paying
<1>. QED BY <1>1, <1>2, <1>3, IdleOK, Local
-------------------------------------------------------------------------------
(* The rows of the refunds.                                                 *)

\* The number a row counts for.
Counts(r) == IF r.status = "SUCCEEDED" THEN r.amount ELSE 0
SumOf(s) == SumFunction([i \in DOMAIN s |-> Counts(s[i])])

LEMMA SucceededIs == \A o : Succeeded(o) = SumOf(refund[o])
BY DEF Succeeded, SumOf, Counts

LEMMA CountsNat == ASSUME NEW r \in RefundRow PROVE Counts(r) \in Nat
BY People DEF Counts, RefundRow

LEMMA SumOfIs ==
  ASSUME NEW s \in Seq(RefundRow), NEW v, v = [i \in DOMAIN s |-> Counts(s[i])]
  PROVE  /\ SumOf(s) = SumFunctionOnSet(v, 1..Len(s)) /\ IsFiniteSet(1..Len(s)) /\ Len(s) \in Nat
         /\ \A i \in 1..Len(s) : v[i] = Counts(s[i]) /\ v[i] \in Nat
<1>1. DOMAIN s = 1..Len(s) /\ Len(s) \in Nat /\ DOMAIN v = DOMAIN s OBVIOUS
<1>2. \A i \in 1..Len(s) : s[i] \in RefundRow OBVIOUS
<1>3. SumOf(s) = SumFunctionOnSet(v, 1..Len(s)) BY <1>1 DEF SumOf, SumFunction
<1>4. \A i \in 1..Len(s) : v[i] = Counts(s[i]) /\ v[i] \in Nat BY <1>1, <1>2, CountsNat
<1>5. IsFiniteSet(1..Len(s)) BY <1>1, FS_Interval
<1>. QED BY <1>1, <1>3, <1>4, <1>5

\* The refunds add up to a number.
LEMMA SumOfNat == ASSUME NEW s \in Seq(RefundRow) PROVE SumOf(s) \in Nat
BY SumOfIs, SumIsNat

\* A new row that has not succeeded leaves the sum as it was.
LEMMA SumOfAppend ==
  ASSUME NEW s \in Seq(RefundRow), NEW r \in RefundRow, r.status # "SUCCEEDED"
  PROVE  SumOf(Append(s, r)) = SumOf(s)
<1>. PICK t : t = Append(s, r) OBVIOUS
<1>1. t \in Seq(RefundRow) /\ Len(t) = Len(s) + 1 /\ t[Len(s) + 1] = r /\ Len(s) \in Nat
      /\ \A i \in 1..Len(s) : t[i] = s[i]
  BY AppendProperties
<1>. PICK k \in Nat : k = Len(s) + 1 BY <1>1
<1>. PICK v : v = [i \in DOMAIN s |-> Counts(s[i])] OBVIOUS
<1>. PICK w : w = [i \in DOMAIN t |-> Counts(t[i])] OBVIOUS
<1>2. SumOf(s) = SumFunctionOnSet(v, 1..Len(s)) /\ IsFiniteSet(1..Len(s))
      /\ \A i \in 1..Len(s) : v[i] = Counts(s[i])
  BY SumOfIs
<1>3. SumOf(t) = SumFunctionOnSet(w, 1..k) /\ IsFiniteSet(1..k)
      /\ \A i \in 1..k : w[i] = Counts(t[i]) /\ w[i] \in Nat
  <2>1. /\ SumOf(t) = SumFunctionOnSet(w, 1..Len(t)) /\ IsFiniteSet(1..Len(t))
        /\ \A i \in 1..Len(t) : w[i] = Counts(t[i]) /\ w[i] \in Nat
    <3>1. t \in Seq(RefundRow) /\ w = [i \in DOMAIN t |-> Counts(t[i])] BY <1>1
    <3>. QED BY ONLY <3>1, SumOfIs
  <2>2. Len(t) = k BY <1>1
  <2>. QED BY ONLY <2>1, <2>2
<1>4. k \in 1..k /\ (1..k) \ {k} = 1..Len(s) BY <1>1
<1>5. SumOf(t) = w[k] + SumFunctionOnSet(w, 1..Len(s))
  <2>1. \A i \in 1..k : w[i] \in Nat BY <1>3
  <2>2. SumFunctionOnSet(w, 1..k) = w[k] + SumFunctionOnSet(w, (1..k) \ {k}) BY ONLY <1>3, <1>4, <2>1, SumSplit
  <2>. QED BY <2>2, <1>3, <1>4
<1>6. w[k] = 0 BY <1>1, <1>3, <1>4 DEF Counts
<1>7. \A i \in 1..Len(s) : w[i] = v[i] /\ w[i] \in Nat BY <1>1, <1>2, <1>3
<1>8. SumFunctionOnSet(w, 1..Len(s)) = SumFunctionOnSet(v, 1..Len(s)) BY ONLY <1>2, <1>7, SumSame
<1>9. SumFunctionOnSet(v, 1..Len(s)) \in Nat BY <1>2, SumOfNat
<1>10. SumOf(s) = SumFunctionOnSet(v, 1..Len(s)) BY <1>2
<1>11. SumOf(t) = SumOf(s) BY ONLY <1>5, <1>6, <1>8, <1>9, <1>10
<1>. QED BY <1>11

\* When one row changes, the sum changes by what that row counts for.
LEMMA SumOfChange ==
  ASSUME NEW s \in Seq(RefundRow), NEW t \in Seq(RefundRow), Len(t) = Len(s), NEW n \in 1..Len(s),
         \A i \in 1..Len(s) : i # n => t[i] = s[i]
  PROVE  \E rest \in Nat : SumOf(s) = Counts(s[n]) + rest /\ SumOf(t) = Counts(t[n]) + rest
<1>. PICK v : v = [i \in DOMAIN s |-> Counts(s[i])] OBVIOUS
<1>. PICK w : w = [i \in DOMAIN t |-> Counts(t[i])] OBVIOUS
<1>2. SumOf(s) = SumFunctionOnSet(v, 1..Len(s)) /\ IsFiniteSet(1..Len(s))
      /\ \A i \in 1..Len(s) : v[i] = Counts(s[i]) /\ v[i] \in Nat
  BY SumOfIs
<1>3. SumOf(t) = SumFunctionOnSet(w, 1..Len(s)) /\ \A i \in 1..Len(s) : w[i] = Counts(t[i]) /\ w[i] \in Nat
  BY SumOfIs
<1>. PICK S : S = (1..Len(s)) \ {n} OBVIOUS
<1>4. IsFiniteSet(S) BY <1>2, FS_RemoveElement
<1>5. SumOf(s) = v[n] + SumFunctionOnSet(v, S)
  <2>1. \A i \in 1..Len(s) : v[i] \in Nat BY <1>2
  <2>2. n \in 1..Len(s) /\ IsFiniteSet(1..Len(s)) BY <1>2
  <2>3. SumFunctionOnSet(v, 1..Len(s)) = v[n] + SumFunctionOnSet(v, (1..Len(s)) \ {n})
    BY ONLY <2>1, <2>2, SumSplit
  <2>. QED BY <2>3, <1>2
<1>6. SumOf(t) = w[n] + SumFunctionOnSet(w, S)
  <2>1. \A i \in 1..Len(s) : w[i] \in Nat BY <1>3
  <2>2. n \in 1..Len(s) /\ IsFiniteSet(1..Len(s)) BY <1>2
  <2>3. SumFunctionOnSet(w, 1..Len(s)) = w[n] + SumFunctionOnSet(w, (1..Len(s)) \ {n})
    BY ONLY <2>1, <2>2, SumSplit
  <2>. QED BY <2>3, <1>3
<1>7. \A i \in S : v[i] = w[i] /\ v[i] \in Nat BY <1>2, <1>3
<1>8. SumFunctionOnSet(w, S) = SumFunctionOnSet(v, S) BY ONLY <1>4, <1>7, SumSame
<1>9. SumFunctionOnSet(v, S) \in Nat BY ONLY <1>4, <1>7, SumIsNat
<1>. QED BY <1>2, <1>3, <1>5, <1>6, <1>8, <1>9

\* The rows of one payment.
LEMMA RowsFacts ==
  ASSUME Rows, NEW o \in Orders
  PROVE  /\ refund[o] \in Seq(RefundRow) /\ Len(refund[o]) \in Nat /\ Len(refund[o]) <= MaxRefunds
         /\ Succeeded(o) = SumOf(refund[o]) /\ Succeeded(o) \in Nat /\ returned[o] \in Nat
         /\ \A i \in 1..Len(refund[o]) : refund[o][i] \in RefundRow
<1>1. refund[o] \in Seq(RefundRow) BY DEF Rows
<1>2. SumOf(refund[o]) \in Nat BY <1>1, SumOfNat
<1>3. Succeeded(o) = SumOf(refund[o]) BY SucceededIs
<1>4. \A i \in 1..Len(refund[o]) : refund[o][i] \in RefundRow BY <1>1
<1>. QED BY <1>1, <1>2, <1>3, <1>4 DEF Rows

\* Writing the status of one row.
LEMMA SetRow ==
  ASSUME Rows, NEW o \in Orders, NEW n \in 1..Len(refund[o]), NEW st \in {"PENDING", "SUCCEEDED", "FAILED"},
         refund' = [refund EXCEPT ![o][n].status = st], UNCHANGED returned
  PROVE  /\ Rows' /\ \A q \in Orders : Len(refund'[q]) = Len(refund[q])
         /\ \A q \in Orders \ {o} : refund'[q] = refund[q]
         /\ refund'[o][n] = [refund[o][n] EXCEPT !.status = st]
         /\ \A i \in 1..Len(refund[o]) : i # n => refund'[o][i] = refund[o][i]
<1>. PICK s \in Seq(RefundRow) : s = refund[o] BY DEF Rows
<1>. PICK r \in RefundRow : r = s[n] OBVIOUS
<1>. PICK x : x = [r EXCEPT !.status = st] OBVIOUS
<1>1. x \in RefundRow BY DEF RefundRow
<1>. PICK t : t = [s EXCEPT ![n] = x] OBVIOUS
<1>2. t \in Seq(RefundRow) /\ Len(t) = Len(s) /\ t[n] = x /\ \A i \in 1..Len(s) : i # n => t[i] = s[i]
  BY <1>1
<1>3. refund' = [refund EXCEPT ![o] = t]
  <2>1. t = [s EXCEPT ![n] = [s[n] EXCEPT !.status = st]] OBVIOUS
  <2>. QED BY <2>1
<1>4. refund'[o] = t /\ \A q \in Orders \ {o} : refund'[q] = refund[q] BY <1>3 DEF Rows
<1>5. \A q \in Orders : Len(refund'[q]) = Len(refund[q]) BY <1>2, <1>4
<1>6. refund' \in [Orders -> Seq(RefundRow)] BY <1>2, <1>3 DEF Rows
<1>7. Rows' BY <1>5, <1>6 DEF Rows
<1>. QED BY <1>2, <1>4, <1>5, <1>7

\* A handler of the desk moves while rows are added or written.
LEMMA MovesOnRow ==
  ASSUME HandlersOK, \A q \in Procs : OnRow(q), CustomerCancels, NEW p \in Procs, NEW h \in Handler,
         proc' = [proc EXCEPT ![p] = h], p # Customer,
         h.pc \in Paying => p \in Refunders /\ h.n \in 1..Len(refund'[h.o]),
         \A o \in Orders : Len(refund[o]) \in Nat /\ Len(refund'[o]) \in Nat /\ Len(refund[o]) <= Len(refund'[o])
  PROVE  (\A q \in Procs : OnRow(q)') /\ CustomerCancels'
<1>1. proc'[p] = h BY DEF HandlersOK
<1>2. \A q \in Procs : q # p => proc'[q] = proc[q] BY DEF HandlersOK
<1>3. ASSUME NEW q \in Procs PROVE OnRow(q)'
  <2>1. CASE q = p BY <2>1, <1>1 DEF OnRow, At, Paying
  <2>2. CASE q # p
    <3>. SUFFICES ASSUME proc[q].pc \in Paying
                  PROVE  q \in Refunders /\ proc[q].n \in 1..Len(refund'[proc[q].o])
      BY <2>2, <1>2 DEF OnRow, At, Paying
    <3>1. proc[q].o \in Orders BY DEF HandlersOK, Fit
    <3>2. q \in Refunders /\ proc[q].n \in 1..Len(refund[proc[q].o]) BY DEF OnRow, At, Paying
    <3>. QED BY <3>1, <3>2
  <2>. QED BY <2>1, <2>2
<1>4. CustomerCancels' BY <1>2, People DEF CustomerCancels
<1>. QED BY <1>3, <1>4

\* What a handler that pays back holds.
LEMMA PayingFacts ==
  ASSUME Basic, NEW p \in Procs, proc[p].pc \in Paying
  PROVE  /\ proc[p] \in Handler /\ Fit(proc[p]) /\ proc[p].o \in Orders /\ p # Customer /\ p \in Refunders
         /\ proc[p].n \in 1..Len(refund[proc[p].o])
         /\ refund[proc[p].o][proc[p].n] \in RefundRow
         /\ proc[p].todo = {} /\ proc[p].by = "refund" /\ proc[p].from \in OrderStatus
<1>1. proc[p] \in Handler /\ Fit(proc[p]) BY DEF Basic, HandlersOK
<1>2. proc[p].o \in Orders /\ proc[p].todo = {} /\ proc[p].by = "refund" /\ proc[p].from \in OrderStatus
  BY <1>1 DEF Fit
<1>3. p # Customer BY NotCustomer DEF Paying
<1>4. p \in Refunders /\ proc[p].n \in 1..Len(refund[proc[p].o]) BY DEF Basic, OnRow, At, Paying
<1>5. refund[proc[p].o][proc[p].n] \in RefundRow BY <1>2, <1>4, RowsFacts DEF Basic
<1>. QED BY <1>1, <1>2, <1>3, <1>4, <1>5

LEMMA IdleAgain ==
  ASSUME Basic, NEW p \in Procs, p # Customer, proc' = [proc EXCEPT ![p] = Idle],
         \A o \in Orders : Len(refund'[o]) = Len(refund[o])
  PROVE  HandlersOK' /\ CustomerCancels' /\ \A q \in Procs : OnRow(q)'
<1>1. Idle.pc \notin Paying BY IdleOK DEF Paying
<1>2. \A o \in Orders : Len(refund[o]) \in Nat BY RowsFacts DEF Basic
<1>3. \A o \in Orders : Len(refund[o]) \in Nat /\ Len(refund'[o]) \in Nat /\ Len(refund[o]) <= Len(refund'[o])
  BY <1>2
<1>4. HandlersOK' BY IdleOK, Moves DEF Basic
<1>5. HandlersOK /\ CustomerCancels /\ \A q \in Procs : OnRow(q) BY DEF Basic
<1>6. (\A q \in Procs : OnRow(q)') /\ CustomerCancels' BY <1>1, <1>3, <1>5, IdleOK, MovesOnRow
<1>. QED BY <1>4, <1>6

LEMMA GoesOn ==
  ASSUME Basic, NEW p \in Procs, proc[p].pc \in Paying, NEW pc \in Paying,
         proc' = [proc EXCEPT ![p] = [proc[p] EXCEPT !.pc = pc]],
         \A o \in Orders : Len(refund'[o]) = Len(refund[o])
  PROVE  HandlersOK' /\ CustomerCancels' /\ \A q \in Procs : OnRow(q)'
<1>. PICK h : h = proc[p] OBVIOUS
<1>. PICK g : g = [h EXCEPT !.pc = pc] OBVIOUS
<1>1. h \in Handler /\ Fit(h) /\ h.o \in Orders /\ p # Customer /\ p \in Refunders /\ h.pc \in Paying
      /\ h.n \in 1..Len(refund[h.o])
  BY PayingFacts
<1>2. g \in Handler BY <1>1 DEF Handler, Paying
<1>3. g.pc = pc /\ g.o = h.o /\ g.by = h.by /\ g.todo = h.todo /\ g.from = h.from /\ g.n = h.n /\ g.to = h.to
  BY <1>1 DEF Handler
<1>4. Fit(g) BY <1>1, <1>3 DEF Fit, OnBox, Paying
<1>5. \A o \in Orders : Len(refund[o]) \in Nat BY RowsFacts DEF Basic
<1>6. g.n \in 1..Len(refund'[g.o]) BY <1>1, <1>3
<1>7. \A o \in Orders : Len(refund[o]) \in Nat /\ Len(refund'[o]) \in Nat /\ Len(refund[o]) <= Len(refund'[o])
  BY <1>5
<1>8. HandlersOK /\ CustomerCancels /\ \A q \in Procs : OnRow(q) BY DEF Basic
<1>9. HandlersOK' BY <1>2, <1>4, <1>8, Moves
<1>10. (\A q \in Procs : OnRow(q)') /\ CustomerCancels' BY <1>1, <1>2, <1>6, <1>7, <1>8, MovesOnRow
<1>. QED BY <1>9, <1>10

LEMMA RefundBasic ==
  ASSUME Basic, NEW p, NEW o \in Orders, NEW amount \in 1..Amount, p \in Desk, Refund(p, o, amount)
  PROVE  Basic'
<1>1. p \in Procs /\ p # Customer /\ p \in Refunders BY People DEF Refund
<1>2. UNCHANGED <<order, cycle, pay, returned, cut>> BY DEF Refund, orderVars
<1>. PICK row : row = [amount |-> amount, status |-> "PENDING"] OBVIOUS
<1>3. row \in RefundRow BY DEF RefundRow
<1>. PICK t : t = Append(refund[o], row) OBVIOUS
<1>4. refund[o] \in Seq(RefundRow) /\ Len(refund[o]) \in Nat /\ Succeeded(o) \in Nat BY RowsFacts DEF Basic
<1>5. t \in Seq(RefundRow) /\ Len(t) = Len(refund[o]) + 1 BY <1>3, <1>4
<1>6. refund' = [refund EXCEPT ![o] = t] BY DEF Refund
<1>7. refund'[o] = t /\ \A q \in Orders : q # o => refund'[q] = refund[q] BY <1>6 DEF Basic, Rows
<1>8. Len(refund[o]) + 1 <= MaxRefunds BY <1>4, People DEF Refund
<1>9. Rows'
  <2>1. refund' \in [Orders -> Seq(RefundRow)] BY <1>5, <1>6 DEF Basic, Rows
  <2>2. \A q \in Orders : Len(refund'[q]) <= MaxRefunds BY <1>5, <1>7, <1>8 DEF Basic, Rows
  <2>. QED BY <2>1, <2>2, <1>2 DEF Basic, Rows
<1>. PICK g : g = [Idle EXCEPT !.pc = "call", !.by = "refund", !.o = o,
       !.from = order[o], !.status = pay[o], !.sum = Succeeded(o), !.n = Len(refund[o]) + 1] OBVIOUS
<1>10. proc' = [proc EXCEPT ![p] = g] BY DEF Refund
<1>11. Succeeded(o) \in 0..Amount /\ Len(refund[o]) + 1 \in 0..MaxRefunds
  BY <1>4, <1>8, People DEF Refund, WithinRemaining
<1>12. order[o] \in OrderStatus /\ pay[o] \in PaymentStatus BY DEF Basic
<1>13. g = [pc |-> "call", by |-> "refund", o |-> o, to |-> None, from |-> order[o], todo |-> {}, done |-> {},
            failed |-> {}, sum |-> Succeeded(o), n |-> Len(refund[o]) + 1, status |-> pay[o]]
  BY DEF Idle
<1>14. g \in Handler BY ONLY <1>11, <1>12, <1>13, o \in Orders DEF Handler
<1>15. Fit(g)
  <2>1. g.pc = "call" /\ g.o = o /\ g.by = "refund" /\ g.todo = {} /\ g.from = order[o] BY ONLY <1>13
  <2>. QED BY ONLY <2>1, <1>12, o \in Orders DEF Fit, OnBox, Paying
<1>16. g.n \in 1..Len(refund'[g.o]) BY <1>13, <1>4, <1>5, <1>7
<1>17. \A q \in Orders : Len(refund[q]) \in Nat /\ Len(refund'[q]) \in Nat /\ Len(refund[q]) <= Len(refund'[q])
  <2>1. \A q \in Orders : Len(refund[q]) \in Nat BY RowsFacts DEF Basic
  <2>. QED BY <2>1, <1>4, <1>5, <1>7
<1>18. HandlersOK' BY <1>1, <1>10, <1>14, <1>15, Moves DEF Basic
<1>19. (\A q \in Procs : OnRow(q)') /\ CustomerCancels' BY <1>1, <1>10, <1>14, <1>16, <1>17, MovesOnRow DEF Basic
<1>. QED BY <1>2, <1>9, <1>18, <1>19 DEF Basic

LEMMA PaysBasic == ASSUME Basic, NEW p \in Procs, ProviderPays(p) PROVE Basic'
<1>1. proc[p].pc \in Paying BY DEF ProviderPays, At, Paying
<1>2. UNCHANGED <<order, cycle, pay, refund, cut>> BY DEF ProviderPays, orderVars
<1>3. Rows'
  <2>. PICK a : a = RefundAmount(p) OBVIOUS
  <2>1. a \in Nat BY <1>1, PayingFacts, People DEF RefundAmount, RefundRow
  <2>2. returned' = [returned EXCEPT ![proc[p].o] = returned[proc[p].o] + a] BY DEF ProviderPays
  <2>3. returned \in [Orders -> Nat] BY DEF Basic, Rows
  <2>4. returned[proc[p].o] + a \in Nat BY <1>1, <2>1, <2>3, PayingFacts
  <2>5. returned' \in [Orders -> Nat] BY ONLY <2>2, <2>3, <2>4
  <2>. QED BY <2>5, <1>2 DEF Basic, Rows
<1>4. HandlersOK' /\ CustomerCancels' /\ \A q \in Procs : OnRow(q)'
  <2>1. CASE Goto(p, "paid")
    <3>1. proc' = [proc EXCEPT ![p] = [proc[p] EXCEPT !.pc = "paid"]] BY <2>1 DEF Goto
    <3>2. "paid" \in Paying BY DEF Paying
    <3>. QED BY <3>1, <3>2, <1>1, <1>2, GoesOn
  <2>2. CASE proc' = [proc EXCEPT ![p] = Idle] BY <2>2, <1>1, <1>2, PayingFacts, IdleAgain
  <2>. QED BY <2>1, <2>2 DEF ProviderPays
<1>. QED BY <1>2, <1>3, <1>4 DEF Basic

LEMMA RefusesBasic == ASSUME Basic, NEW p \in Procs, ProviderRefuses(p) PROVE Basic'
<1>1. proc[p].pc \in Paying BY DEF ProviderRefuses, At, Paying
<1>2. UNCHANGED <<order, cycle, pay, returned, cut>> BY DEF ProviderRefuses, orderVars
<1>3. refund' = [refund EXCEPT ![proc[p].o][proc[p].n].status = "FAILED"] BY DEF ProviderRefuses, SetRefund
<1>4. Rows' /\ \A q \in Orders : Len(refund'[q]) = Len(refund[q]) BY <1>1, <1>2, <1>3, PayingFacts, SetRow DEF Basic
<1>5. proc' = [proc EXCEPT ![p] = Idle] BY DEF ProviderRefuses
<1>6. HandlersOK' /\ CustomerCancels' /\ \A q \in Procs : OnRow(q)' BY <1>1, <1>4, <1>5, PayingFacts, IdleAgain
<1>. QED BY <1>2, <1>4, <1>6 DEF Basic

LEMMA SucceedsBasic == ASSUME Basic, NEW p \in Procs, RefundSucceeds(p) PROVE Basic'
<1>1. proc[p].pc \in Paying /\ "settle" \in Paying BY DEF RefundSucceeds, At, Paying
<1>2. UNCHANGED <<order, cycle, pay, returned, cut>> BY DEF RefundSucceeds, orderVars
<1>3. refund' = [refund EXCEPT ![proc[p].o][proc[p].n].status = "SUCCEEDED"] BY DEF RefundSucceeds, SetRefund
<1>4. Rows' /\ \A q \in Orders : Len(refund'[q]) = Len(refund[q]) BY <1>1, <1>2, <1>3, PayingFacts, SetRow DEF Basic
<1>5. proc' = [proc EXCEPT ![p] = [proc[p] EXCEPT !.pc = "settle"]] BY DEF RefundSucceeds, Goto
<1>6. HandlersOK' /\ CustomerCancels' /\ \A q \in Procs : OnRow(q)' BY <1>1, <1>4, <1>5, GoesOn
<1>. QED BY <1>2, <1>4, <1>6 DEF Basic

LEMMA SettleBasic == ASSUME Basic, NEW p \in Procs, SettleRefund(p) PROVE Basic'
<1>1. proc[p].pc \in Paying BY DEF SettleRefund, At, Paying
<1>2. UNCHANGED <<order, cycle, refund, returned, cut>> BY DEF SettleRefund, orderVars
<1>. PICK h : h = proc[p] OBVIOUS
<1>3. h \in Handler /\ Fit(h) /\ h.o \in Orders /\ p # Customer /\ h.from \in OrderStatus /\ h.todo = {}
      /\ h.by = "refund"
  BY <1>1, PayingFacts
<1>. PICK target : target = IF RefundedTotal(p) >= Amount THEN "REFUNDED" ELSE "PARTIAL_REFUNDED" OBVIOUS
<1>4. pay' \in [Orders -> PaymentStatus]
  <2>1. target \in PaymentStatus BY DEF PaymentStatus
  <2>2. pay' = [pay EXCEPT ![h.o] = IF h.status # target THEN target ELSE pay[h.o]] BY DEF SettleRefund
  <2>3. pay' = pay \/ pay' = [pay EXCEPT ![h.o] = target] BY <2>2 DEF Basic
  <2>. QED BY <2>1, <2>3 DEF Basic
<1>5. proc' = [proc EXCEPT ![p] = IF target = "REFUNDED" /\ CanOrder(h.from, "REFUNDED")
                                  THEN [h EXCEPT !.pc = "read", !.to = "REFUNDED"] ELSE Idle]
  BY DEF SettleRefund
<1>6. HandlersOK' /\ CustomerCancels' /\ \A q \in Procs : OnRow(q)'
  <2>1. CASE proc' = [proc EXCEPT ![p] = Idle] BY <2>1, <1>2, <1>3, IdleAgain
  <2>2. CASE proc' = [proc EXCEPT ![p] = [h EXCEPT !.pc = "read", !.to = "REFUNDED"]]
    <3>. PICK g : g = [h EXCEPT !.pc = "read", !.to = "REFUNDED"] OBVIOUS
    <3>1. "REFUNDED" \in OrderStatus BY DEF OrderStatus
    <3>2. g \in Handler BY ZenonT(40), <1>3, <3>1 DEF Handler
    <3>3. g.pc = "read" /\ g.to = "REFUNDED" /\ g.o = h.o /\ g.todo = h.todo BY <1>3 DEF Handler
    <3>4. Fit(g) BY <1>3, <3>1, <3>3 DEF Fit, OnBox, Paying
    <3>5. g.pc \notin Paying BY <3>3 DEF Paying
    <3>6. proc' = [proc EXCEPT ![p] = g] BY <2>2
    <3>8. HandlersOK /\ CustomerCancels /\ \A q \in Procs : OnRow(q) BY DEF Basic
    <3>9. HandlersOK' BY <3>2, <3>4, <3>6, <3>8, Moves
    <3>10. (\A q \in Procs : OnRow(q)') /\ CustomerCancels'
      BY <1>2, <1>3, <3>2, <3>5, <3>6, <3>8, MovesRow
    <3>. QED BY <3>9, <3>10
  <2>. QED BY <1>5, <2>1, <2>2
<1>. QED BY <1>2, <1>4, <1>6 DEF Basic, Rows

LEMMA CutBasic == ASSUME Basic, CutoffPasses PROVE Basic'
BY DEF CutoffPasses, orderVars, moneyVars, Basic, Rows, HandlersOK, CustomerCancels, OnRow, At, Fit

LEMMA StutterBasic == ASSUME Basic, UNCHANGED vars PROVE Basic'
BY DEF vars, orderVars, moneyVars, Basic, Rows, HandlersOK, CustomerCancels, OnRow, At, Fit

LEMMA StepBasic == ASSUME Basic, [Next]_vars PROVE Basic'
<1>1. ASSUME NEW p \in Procs, Continue(p) PROVE Basic'
  BY <1>1, ReadBasic, WriteBasic, CycleReadBasic, CycleLockBasic, CycleMoveBasic, ApplyBasic, ReplyBasic,
     PaysBasic, RefusesBasic, SucceedsBasic, SettleBasic DEF Continue
<1>2. ASSUME NEW p \in Desk, NEW o \in Orders, NEW to, UpdateStatusAdmin(p, o, to) PROVE Basic' BY <1>2, DeskBasic
<1>3. ASSUME NEW p \in Desk, NEW o \in Orders, NEW to, AdminSetStatus(p, o, to) PROVE Basic' BY <1>3, AdminBasic
<1>4. ASSUME NEW p \in Desk, NEW o \in Orders, NEW amount \in 1..Amount, Refund(p, o, amount) PROVE Basic'
  BY <1>4, RefundBasic
<1>5. ASSUME NEW p \in Desk, NEW sel \in Selections, NEW to, NEW skipInvalid \in BOOLEAN,
             BulkStatus(p, sel, to, skipInvalid)
      PROVE  Basic'
  BY <1>5, BulkBasic
<1>6. ASSUME NEW o \in Orders, CancelByCustomer(o) PROVE Basic' BY <1>6, CustomerBasic
<1>. QED BY <1>1, <1>2, <1>3, <1>4, <1>5, <1>6, CutBasic, StutterBasic DEF Next
-------------------------------------------------------------------------------
(* A closed order gave its slot and its coupon back once.                   *)

Closed == {"CANCELLED", "REFUNDED"}

Back == freed \in [Orders -> 0..1] /\ SlotBackOnce /\ CouponCounted

LEMMA ClosedIsFinal ==
  ASSUME NEW from \in OrderStatus, NEW to, CanOrder(from, to) PROVE from \notin Closed /\ to \in OrderStatus
<1>1. from # "CANCELLED" /\ from # "REFUNDED" BY DEF CanOrder, OrderTransitions
<1>. QED BY <1>1, Statuses DEF CanOrder, Closed

LEMMA BackInit == Init => Back
<1>. SUFFICES ASSUME Init PROVE Back OBVIOUS
<1>1. \A o \in Orders : order[o] = "PAID" /\ freed[o] = 0 BY DEF Init
<1>2. freed \in [Orders -> 0..1] BY DEF Init
<1>3. redeemed = Couponed /\ used = Cardinality(Couponed) BY DEF Init
<1>4. SlotBackOnce BY <1>1 DEF SlotBackOnce
<1>5. redeemed = {o \in Couponed : order[o] \notin {"CANCELLED", "REFUNDED"}} BY <1>1, <1>3, OrdersAssumption
<1>. QED BY <1>2, <1>3, <1>4, <1>5 DEF Back, CouponCounted

LEMMA BackKept == ASSUME Back, UNCHANGED orderVars PROVE Back'
BY DEF Back, SlotBackOnce, CouponCounted, orderVars, OwnsSlot

LEMMA BackWrite == ASSUME Basic, Back, NEW p \in Procs, TransitionWrite(p) PROVE Back'
<1>. PICK h : h = proc[p] OBVIOUS
<1>. PICK o : o = h.o OBVIOUS
<1>. PICK from : from = h.from OBVIOUS
<1>. PICK to : to = h.to OBVIOUS
<1>0. h.pc = "write" /\ Fit(h) BY DEF Basic, HandlersOK, TransitionWrite, At
<1>1. o \in Orders /\ from \in OrderStatus /\ CanOrder(from, to) BY <1>0 DEF Fit
<1>2. from \notin Closed /\ to \in OrderStatus BY <1>1, ClosedIsFinal
<1>3. CASE ~Matches(o, from)
  <2>1. UNCHANGED orderVars BY <1>3 DEF TransitionWrite
  <2>. QED BY <2>1, BackKept
<1>4. CASE Matches(o, from)
  <2>1. /\ order' = [order EXCEPT ![o] = to]
        /\ freed' = [freed EXCEPT ![o] = IF OwnsSlot(o) /\ Releases(from, to) THEN freed[o] + 1 ELSE freed[o]]
        /\ redeemed' = IF FreesCoupon(o, to) THEN redeemed \ {o} ELSE redeemed
        /\ used' = IF FreesCoupon(o, to) /\ used > 0 THEN used - 1 ELSE used
    BY <1>4 DEF TransitionWrite
  <2>2. order[o] = from BY <1>4 DEF Matches
  <2>3. freed[o] = 0
    <3>1. freed[o] \in 0..1 BY <1>1 DEF Back
    <3>2. ~(freed[o] > 0) BY <1>1, <1>2, <2>2 DEF Back, SlotBackOnce, Closed
    <3>. QED BY <3>1, <3>2
  <2>4. order'[o] = to /\ \A q \in Orders : q # o => order'[q] = order[q] BY <1>1, <2>1 DEF Basic
  <2>. PICK x : x = IF OwnsSlot(o) /\ Releases(from, to) THEN 1 ELSE 0 OBVIOUS
  <2>5. freed' = [freed EXCEPT ![o] = x] BY <2>1, <2>3
  <2>6. x \in 0..1 /\ (x = 1 => OwnsSlot(o) /\ to \in Closed) /\ (to = "CANCELLED" /\ OwnsSlot(o) => x = 1)
    BY DEF Releases, Closed
  <2>7. freed' \in [Orders -> 0..1] BY <2>5, <2>6 DEF Back
  <2>8. freed'[o] = x /\ \A q \in Orders : q # o => freed'[q] = freed[q] BY <1>1, <2>5 DEF Back
  <2>9. SlotBackOnce'
    <3>1. ASSUME NEW q \in Orders
          PROVE  /\ order'[q] = "CANCELLED" /\ OwnsSlot(q) => freed'[q] = 1
                 /\ freed'[q] > 0 => OwnsSlot(q) /\ order'[q] \in {"CANCELLED", "REFUNDED"}
      <4>1. CASE q = o BY <4>1, <2>4, <2>6, <2>8 DEF Closed
      <4>2. CASE q # o BY <4>2, <2>4, <2>8 DEF Back, SlotBackOnce
      <4>. QED BY <4>1, <4>2
    <3>. QED BY <3>1 DEF SlotBackOnce, OwnsSlot
  <2>10. CouponCounted'
    <3>1. redeemed = {q \in Couponed : order[q] \notin Closed} /\ used = Cardinality(redeemed)
      BY DEF Back, CouponCounted, Closed
    <3>2. IsFiniteSet(redeemed) BY <3>1, OrdersAssumption, FS_Subset
    <3>3. Couponed \subseteq Orders BY OrdersAssumption
    <3>4. CASE FreesCoupon(o, to)
      <4>1. o \in redeemed /\ to \in Closed BY <3>4 DEF FreesCoupon, Closed
      <4>2. redeemed' = redeemed \ {o} BY <2>1, <3>4
      <4>3. redeemed' = {q \in Couponed : order'[q] \notin Closed} BY <3>1, <3>3, <4>1, <4>2, <2>4
      <4>4. Cardinality(redeemed) \in Nat /\ Cardinality(redeemed \ {o}) = Cardinality(redeemed) - 1
        BY <3>2, <4>1, FS_CardinalityType, FS_RemoveElement
      <4>5. Cardinality(redeemed) # 0 BY <3>2, <4>1, FS_EmptySet
      <4>6. used' = Cardinality(redeemed') BY <2>1, <3>1, <3>4, <4>2, <4>4, <4>5
      <4>. QED BY <4>3, <4>6 DEF CouponCounted, Closed
    <3>5. CASE ~FreesCoupon(o, to)
      <4>1. redeemed' = redeemed /\ used' = used BY <2>1, <3>5
      <4>2. o \notin redeemed \/ to \notin Closed BY <3>5 DEF FreesCoupon, Closed
      <4>3. ASSUME NEW q \in Couponed PROVE (order'[q] \notin Closed) <=> (order[q] \notin Closed)
        <5>1. CASE q # o BY <5>1, <2>4, <3>3
        <5>2. CASE q = o
          <6>1. o \in redeemed BY <5>2, <3>1, <2>2, <1>2
          <6>. QED BY <6>1, <4>2, <5>2, <2>2, <2>4, <1>2
        <5>. QED BY <5>1, <5>2
      <4>4. redeemed' = {q \in Couponed : order'[q] \notin Closed} BY <3>1, <4>1, <4>3
      <4>. QED BY <4>1, <4>4, <3>1 DEF CouponCounted, Closed
    <3>. QED BY <3>4, <3>5
  <2>. QED BY <2>7, <2>9, <2>10 DEF Back
<1>. QED BY <1>3, <1>4

LEMMA BackMove == ASSUME Basic, Back, NEW p \in Procs, CycleMove(p) PROVE Back'
<1>. PICK h : h = proc[p] OBVIOUS
<1>. PICK b : b = h.o OBVIOUS
<1>0. h.pc = "move" /\ Fit(h) BY DEF Basic, HandlersOK, CycleMove, At
<1>1. b \in Orders /\ h.from \in OrderStatus /\ h.to \in CycleTargets BY <1>0, People DEF Fit, OnBox
<1>2. order' = [order EXCEPT ![b] = IF CanOrder(h.from, h.to) /\ Matches(b, h.from) THEN h.to ELSE order[b]]
  BY DEF CycleMove
<1>3. UNCHANGED <<freed, used, redeemed>> BY DEF CycleMove
<1>4. CASE ~(CanOrder(h.from, h.to) /\ Matches(b, h.from))
  <2>1. order' = order BY <1>2, <1>4 DEF Basic
  <2>. QED BY <2>1, <1>3, BackKept DEF orderVars
<1>5. CASE CanOrder(h.from, h.to) /\ Matches(b, h.from)
  <2>1. order'[b] = h.to /\ \A q \in Orders : q # b => order'[q] = order[q] BY <1>1, <1>2, <1>5 DEF Basic
  <2>2. order[b] \notin Closed BY <1>1, <1>5, ClosedIsFinal DEF Matches
  <2>3. h.to \notin Closed BY <1>1 DEF CycleTargets, Closed
  <2>4. \A q \in Orders : order'[q] \in Closed <=> order[q] \in Closed BY <2>1, <2>2, <2>3
  <2>5. \A q \in Orders : order'[q] = "CANCELLED" <=> order[q] = "CANCELLED" BY <2>1, <2>2, <2>3 DEF Closed
  <2>6. SlotBackOnce' BY <2>4, <2>5, <1>3 DEF Back, SlotBackOnce, OwnsSlot, Closed
  <2>7. {q \in Couponed : order'[q] \notin Closed} = {q \in Couponed : order[q] \notin Closed}
    BY <2>4, OrdersAssumption
  <2>8. CouponCounted' BY <2>7, <1>3 DEF Back, CouponCounted, Closed
  <2>. QED BY <2>6, <2>8, <1>3 DEF Back
<1>. QED BY <1>4, <1>5

\* Every other step leaves orders, slots and the coupon alone.
LEMMA StepBack == ASSUME Basic, Back, [Next]_vars PROVE Back'
<1>1. ASSUME NEW p \in Procs, Continue(p) PROVE Back'
  <2>1. CASE TransitionWrite(p) BY <2>1, BackWrite
  <2>2. CASE CycleMove(p) BY <2>2, BackMove
  <2>3. CASE UNCHANGED orderVars BY <2>3, BackKept
  <2>. QED BY <1>1, <2>1, <2>2, <2>3
    DEF Continue, TransitionRead, CycleRead, CycleLock, ApplyNext, BulkReply, ProviderPays, ProviderRefuses,
        RefundSucceeds, SettleRefund, dbVars
<1>2. ASSUME UNCHANGED orderVars PROVE Back' BY <1>2, BackKept
<1>. QED BY <1>1, <1>2
  DEF Next, UpdateStatusAdmin, AdminSetStatus, Refund, BulkStatus, CancelByCustomer, CutoffPasses, dbVars, vars

\* Together they give every variable its type.
LEMMA TypeFromBasic == ASSUME Basic, Back PROVE TypeOK
<1>1. used \in 0..Cardinality(Couponed) /\ redeemed \subseteq Couponed
  <2>1. redeemed \subseteq Couponed /\ used = Cardinality(redeemed) BY DEF Back, CouponCounted
  <2>2. IsFiniteSet(Couponed) BY OrdersAssumption, FS_Subset
  <2>3. Cardinality(redeemed) \in Nat /\ Cardinality(Couponed) \in Nat
        /\ Cardinality(redeemed) <= Cardinality(Couponed)
    BY <2>1, <2>2, FS_Subset, FS_CardinalityType
  <2>. QED BY <2>1, <2>3
<1>2. ASSUME NEW o \in Orders
      PROVE  /\ Len(refund[o]) <= MaxRefunds /\ returned[o] \in Nat
             /\ \A i \in DOMAIN refund[o] : refund[o][i] \in RefundRow
  BY RowsFacts DEF Basic
<1>. QED BY <1>1, <1>2 DEF TypeOK, Basic, Back, HandlersOK, Handler, RefundRow

\* However the desk, the bulk page, the customer's cancellation and the refunds interleave, an order that is
\* closed gave its slot back once (unless it is a box's, whose slot its cycle holds) and freed its coupon once
\* (OrdersService.transition).
THEOREM SlotAndCouponOnce == Spec => []ClosedOnce
<1>1. Init => Basic /\ Back BY BasicInit, BackInit
<1>2. Basic /\ Back /\ [Next]_vars => (Basic /\ Back)' BY StepBasic, StepBack
<1>3. Basic /\ Back => ClosedOnce BY TypeFromBasic DEF ClosedOnce, Back
<1>. QED BY <1>1, <1>2, <1>3, PTL DEF Spec
-------------------------------------------------------------------------------
(* The money that went back, with one refund at a time.                     *)

OneRefunder == \A r, q \in Refunders : r = q

PayIs(r) == IF r = 0 THEN "SUCCEEDED" ELSE IF r < Amount THEN "PARTIAL_REFUNDED" ELSE "REFUNDED"
Settled(o) == returned[o] = Succeeded(o) /\ returned[o] <= Amount /\ pay[o] = PayIs(returned[o])

\* A refund under way: what it read still holds, and its row is counted from "settle" on.
Part(h, row, s, r, st) ==
  /\ h.status = st /\ st = PayIs(h.sum) /\ h.sum + row.amount <= Amount
  /\ h.pc = "call" => s = h.sum /\ r = h.sum /\ row.status = "PENDING"
  /\ h.pc = "paid" => s = h.sum /\ r = h.sum + row.amount /\ row.status = "PENDING"
  /\ h.pc = "settle" => s = h.sum + row.amount /\ r = h.sum + row.amount
UnderWay(h) == h.pc \in Paying => Part(h, refund[h.o][h.n], Succeeded(h.o), returned[h.o], pay[h.o])

Money == /\ \A o \in Orders : (\A p \in Procs : ~(proc[p].o = o /\ proc[p].pc \in Paying)) => Settled(o)
         /\ \A p \in Procs : UnderWay(proc[p])

LEMMA MoneyAddsUp == ASSUME Money PROVE RefundsAddUp
BY DEF Money, RefundsAddUp, Refunding, Settled, PayIs, Paying

LEMMA MoneyInit == Init => Money
<1>. SUFFICES ASSUME Init PROVE Money OBVIOUS
<1>1. \A p \in Procs : proc[p].pc \notin Paying BY IdleOK DEF Init, Paying
<1>2. ASSUME NEW o \in Orders PROVE Settled(o)
  <2>1. refund[o] = <<>> /\ returned[o] = 0 /\ pay[o] = "SUCCEEDED" BY DEF Init
  <2>. PICK v : v = [i \in DOMAIN <<>> |-> Counts(<<>>[i])] OBVIOUS
  <2>2. <<>> \in Seq(RefundRow) /\ 1..Len(<<>>) = {} OBVIOUS
  <2>3. SumOf(<<>>) = SumFunctionOnSet(v, 1..Len(<<>>)) BY <2>2, SumOfIs
  <2>4. SumOf(<<>>) = 0 BY <2>2, <2>3, SumEmpty
  <2>5. Succeeded(o) = 0 BY <2>1, <2>4, SucceededIs
  <2>. QED BY <2>1, <2>5, People DEF Settled, PayIs
<1>. QED BY <1>1, <1>2 DEF Money, UnderWay

\* Nobody else pays back meanwhile.
LEMMA OnlyOne ==
  ASSUME Basic, OneRefunder, NEW p \in Refunders, NEW q \in Procs, q # p PROVE proc[q].pc \notin Paying
BY PayingFacts DEF OneRefunder

\* One refund takes a step; the other orders are left alone.
LEMMA MoneyStep ==
  ASSUME Money, NEW p \in Procs, NEW o \in Orders, NEW g, proc \in [Procs -> Handler],
         \A q \in Procs : q # p => proc[q].pc \notin Paying,
         proc[p].pc \in Paying => proc[p].o = o,
         proc' = [proc EXCEPT ![p] = g],
         \A x \in Orders \ {o} : refund'[x] = refund[x] /\ returned'[x] = returned[x] /\ pay'[x] = pay[x],
         \/ g.pc \in Paying /\ g.o = o /\ Part(g, refund'[o][g.n], SumOf(refund'[o]), returned'[o], pay'[o])
         \/ /\ g.pc \notin Paying /\ returned'[o] = SumOf(refund'[o]) /\ returned'[o] <= Amount
            /\ pay'[o] = PayIs(returned'[o])
  PROVE  Money'
<1>1. proc'[p] = g /\ \A q \in Procs : q # p => proc'[q] = proc[q] OBVIOUS
<1>2. \A x : Succeeded(x)' = SumOf(refund'[x]) /\ Succeeded(x) = SumOf(refund[x])
  BY SucceededIs DEF Succeeded, SumOf, Counts
<1>3. ASSUME NEW x \in Orders, \A q \in Procs : ~(proc'[q].o = x /\ proc'[q].pc \in Paying) PROVE Settled(x)'
  <2>1. CASE x = o
    <3>1. ~(g.o = o /\ g.pc \in Paying) BY <1>1, <1>3, <2>1
    <3>2. returned'[o] = SumOf(refund'[o]) /\ returned'[o] <= Amount /\ pay'[o] = PayIs(returned'[o]) BY <3>1
    <3>. QED BY <3>2, <2>1, <1>2 DEF Settled, PayIs
  <2>2. CASE x # o
    <3>1. \A q \in Procs : ~(proc[q].o = x /\ proc[q].pc \in Paying) BY <2>2
    <3>2. Settled(x) BY <3>1 DEF Money
    <3>. QED BY <3>2, <2>2, <1>2 DEF Settled, PayIs
  <2>. QED BY <2>1, <2>2
<1>4. ASSUME NEW q \in Procs PROVE UnderWay(proc[q])'
  <2>1. CASE q # p BY <2>1, <1>1 DEF UnderWay
  <2>2. CASE q = p
    <3>1. CASE g.pc \notin Paying BY <3>1, <2>2, <1>1 DEF UnderWay
    <3>2. CASE g.pc \in Paying
      <4>1. g.o = o /\ Part(g, refund'[o][g.n], SumOf(refund'[o]), returned'[o], pay'[o]) BY <3>2
      <4>. QED BY <4>1, <2>2, <1>1, <1>2 DEF UnderWay, Part, PayIs
    <3>. QED BY <3>1, <3>2
  <2>. QED BY <2>1, <2>2
<1>. QED BY <1>3, <1>4 DEF Money

\* A step that leaves the money and the refunds under way alone.
LEMMA MoneyKept ==
  ASSUME Money, NEW p \in Procs, NEW g, proc \in [Procs -> Handler], proc' = [proc EXCEPT ![p] = g],
         proc[p].pc \notin Paying, g.pc \notin Paying, UNCHANGED moneyVars
  PROVE  Money'
<1>1. proc'[p] = g /\ \A q \in Procs : q # p => proc'[q] = proc[q] OBVIOUS
<1>2. \A x : Succeeded(x)' = Succeeded(x) BY DEF moneyVars, Succeeded
<1>3. ASSUME NEW x \in Orders, \A q \in Procs : ~(proc'[q].o = x /\ proc'[q].pc \in Paying) PROVE Settled(x)'
  <2>1. \A q \in Procs : ~(proc[q].o = x /\ proc[q].pc \in Paying) BY <1>1, <1>3
  <2>2. Settled(x) BY <2>1 DEF Money
  <2>. QED BY <2>2, <1>2 DEF Settled, PayIs, moneyVars
<1>4. ASSUME NEW q \in Procs PROVE UnderWay(proc[q])'
  <2>1. CASE q = p BY <2>1, <1>1 DEF UnderWay
  <2>2. CASE q # p
    <3>1. UnderWay(proc[q]) /\ proc'[q] = proc[q] BY <2>2, <1>1 DEF Money
    <3>. QED BY <3>1, <1>2 DEF UnderWay, Part, PayIs, moneyVars
  <2>. QED BY <2>1, <2>2
<1>. QED BY <1>3, <1>4 DEF Money

\* What is known of the refund that p makes.
LEMMA InHand ==
  ASSUME Basic, Money, OneRefunder, NEW p \in Procs, proc[p].pc \in Paying
  PROVE  /\ proc \in [Procs -> Handler] /\ proc[p].o \in Orders /\ proc[p] \in Handler
         /\ \A q \in Procs : q # p => proc[q].pc \notin Paying
         /\ proc[p].n \in 1..Len(refund[proc[p].o]) /\ refund[proc[p].o][proc[p].n] \in RefundRow
         /\ Part(proc[p], refund[proc[p].o][proc[p].n], SumOf(refund[proc[p].o]),
                 returned[proc[p].o], pay[proc[p].o])
         /\ proc[p].sum \in Nat /\ refund[proc[p].o][proc[p].n].amount \in Nat \ {0}
<1>1. UnderWay(proc[p]) BY DEF Money
<1>2. Part(proc[p], refund[proc[p].o][proc[p].n], SumOf(refund[proc[p].o]), returned[proc[p].o], pay[proc[p].o])
  BY <1>1, SucceededIs DEF UnderWay
<1>3. p \in Refunders /\ proc[p].o \in Orders /\ proc[p] \in Handler
      /\ proc[p].n \in 1..Len(refund[proc[p].o]) /\ refund[proc[p].o][proc[p].n] \in RefundRow
  BY PayingFacts
<1>4. \A q \in Procs : q # p => proc[q].pc \notin Paying BY <1>3, OnlyOne
<1>5. proc[p].sum \in Nat /\ refund[proc[p].o][proc[p].n].amount \in Nat \ {0}
  BY <1>3, People DEF Handler, RefundRow
<1>6. proc \in [Procs -> Handler] BY DEF Basic, HandlersOK
<1>. QED BY <1>2, <1>3, <1>4, <1>5, <1>6

LEMMA MoneyRefund ==
  ASSUME Basic, Money, OneRefunder, NEW p \in Desk, NEW o \in Orders, NEW amount \in 1..Amount,
         Refund(p, o, amount)
  PROVE  Money'
<1>1. p \in Procs /\ p \in Refunders /\ proc[p].pc = "idle" BY People DEF Refund, At
<1>2. \A q \in Procs : proc[q].pc \notin Paying BY <1>1, OnlyOne DEF Paying
<1>3. Settled(o) /\ Succeeded(o) = SumOf(refund[o]) BY <1>2, SucceededIs DEF Money
<1>. PICK row : row = [amount |-> amount, status |-> "PENDING"] OBVIOUS
<1>. PICK t : t = Append(refund[o], row) OBVIOUS
<1>. PICK n : n = Len(refund[o]) + 1 OBVIOUS
<1>4. row \in RefundRow /\ row.status = "PENDING" /\ row.amount = amount BY DEF RefundRow
<1>5. refund[o] \in Seq(RefundRow) BY RowsFacts DEF Basic
<1>6. t[n] = row /\ SumOf(t) = SumOf(refund[o])
  <2>1. SumOf(t) = SumOf(refund[o]) BY <1>4, <1>5, SumOfAppend
  <2>. QED BY <2>1, <1>4, <1>5
<1>7. refund' = [refund EXCEPT ![o] = t] /\ returned' = returned /\ pay' = pay BY DEF Refund
<1>8. refund'[o] = t /\ \A x \in Orders \ {o} : refund'[x] = refund[x] BY <1>7 DEF Basic, Rows
<1>. PICK g : g = [Idle EXCEPT !.pc = "call", !.by = "refund", !.o = o,
       !.from = order[o], !.status = pay[o], !.sum = Succeeded(o), !.n = Len(refund[o]) + 1] OBVIOUS
<1>9. proc' = [proc EXCEPT ![p] = g] BY DEF Refund
<1>10. g.pc = "call" /\ g.o = o /\ g.status = pay[o] /\ g.sum = Succeeded(o) /\ g.n = n BY DEF Idle
<1>11. Succeeded(o) \in Nat /\ amount \in Nat /\ amount <= Amount - Succeeded(o)
  BY RowsFacts DEF Basic, Refund, WithinRemaining
<1>12. Succeeded(o) + amount <= Amount BY <1>11, People
<1>13. returned[o] = Succeeded(o) /\ pay[o] = PayIs(Succeeded(o)) BY <1>3 DEF Settled
<1>14. Part(g, t[n], SumOf(t), returned[o], pay[o]) BY <1>3, <1>4, <1>6, <1>10, <1>12, <1>13 DEF Part
<1>15. Part(g, refund'[o][g.n], SumOf(refund'[o]), returned'[o], pay'[o]) BY <1>7, <1>8, <1>10, <1>14
<1>16. proc \in [Procs -> Handler] BY DEF Basic, HandlersOK
<1>17. g.pc \in Paying BY <1>10 DEF Paying
<1>. QED BY <1>1, <1>2, <1>7, <1>8, <1>9, <1>10, <1>15, <1>16, <1>17, MoneyStep

LEMMA MoneyPays ==
  ASSUME Basic, Money, OneRefunder, ~LostReplies, NEW p \in Procs, ProviderPays(p) PROVE Money'
<1>. PICK h : h = proc[p] OBVIOUS
<1>. PICK o : o = h.o OBVIOUS
<1>. PICK row : row = refund[o][h.n] OBVIOUS
<1>1. h.pc = "call" /\ h.pc \in Paying BY DEF ProviderPays, At, Paying
<1>2. /\ proc \in [Procs -> Handler] /\ o \in Orders /\ h \in Handler /\ \A q \in Procs : q # p => proc[q].pc \notin Paying
      /\ Part(h, row, SumOf(refund[o]), returned[o], pay[o]) /\ h.sum \in Nat /\ row.amount \in Nat \ {0}
  BY <1>1, InHand
<1>3. refund' = refund /\ pay' = pay /\ returned' = [returned EXCEPT ![o] = returned[o] + row.amount]
  BY DEF ProviderPays, RefundAmount
<1>. PICK g : g = [h EXCEPT !.pc = "paid"] OBVIOUS
<1>4. proc' = [proc EXCEPT ![p] = g] BY DEF ProviderPays, Goto
<1>5. g.pc = "paid" /\ g.o = h.o /\ g.sum = h.sum /\ g.n = h.n /\ g.status = h.status BY <1>2 DEF Handler
<1>6. returned'[o] = returned[o] + row.amount /\ \A x \in Orders \ {o} : returned'[x] = returned[x]
  BY <1>2, <1>3 DEF Basic, Rows
<1>7. Part(g, row, SumOf(refund[o]), returned'[o], pay[o]) BY <1>1, <1>2, <1>5, <1>6 DEF Part
<1>8. Part(g, refund'[o][g.n], SumOf(refund'[o]), returned'[o], pay'[o]) BY <1>3, <1>5, <1>7
<1>9. g.pc \in Paying BY <1>5 DEF Paying
<1>. QED BY ZenonT(40), <1>2, <1>3, <1>4, <1>5, <1>6, <1>8, <1>9, MoneyStep

LEMMA MoneyRefuses ==
  ASSUME Basic, Money, OneRefunder, NEW p \in Procs, ProviderRefuses(p) PROVE Money'
<1>. PICK h : h = proc[p] OBVIOUS
<1>. PICK o : o = h.o OBVIOUS
<1>. PICK n : n = h.n OBVIOUS
<1>1. h.pc = "call" /\ h.pc \in Paying BY DEF ProviderRefuses, At, Paying
<1>2. /\ proc \in [Procs -> Handler] /\ o \in Orders /\ h \in Handler /\ \A q \in Procs : q # p => proc[q].pc \notin Paying
      /\ n \in 1..Len(refund[o]) /\ refund[o][n] \in RefundRow
      /\ Part(h, refund[o][n], SumOf(refund[o]), returned[o], pay[o]) /\ h.sum \in Nat
      /\ refund[o][n].amount \in Nat \ {0}
  BY <1>1, InHand
<1>3. returned' = returned /\ pay' = pay /\ refund' = [refund EXCEPT ![o][n].status = "FAILED"]
  BY DEF ProviderRefuses, SetRefund
<1>4. /\ Rows' /\ \A q \in Orders : Len(refund'[q]) = Len(refund[q])
      /\ \A q \in Orders \ {o} : refund'[q] = refund[q]
      /\ refund'[o][n] = [refund[o][n] EXCEPT !.status = "FAILED"]
      /\ \A i \in 1..Len(refund[o]) : i # n => refund'[o][i] = refund[o][i]
  <2>1. Rows /\ UNCHANGED returned BY <1>3 DEF Basic
  <2>2. o \in Orders /\ n \in 1..Len(refund[o]) BY <1>2
  <2>. QED BY ONLY <2>1, <2>2, <1>3, SetRow
<1>5. SumOf(refund'[o]) = SumOf(refund[o])
  <2>1. refund[o] \in Seq(RefundRow) /\ refund'[o] \in Seq(RefundRow) BY <1>2, <1>4 DEF Basic, Rows
  <2>2. PICK rest \in Nat : SumOf(refund[o]) = Counts(refund[o][n]) + rest
                            /\ SumOf(refund'[o]) = Counts(refund'[o][n]) + rest
    <3>1. n \in 1..Len(refund[o]) /\ Len(refund'[o]) = Len(refund[o]) BY <1>2, <1>4
    <3>2. \A i \in 1..Len(refund[o]) : i # n => refund'[o][i] = refund[o][i] BY <1>4
    <3>. QED BY ONLY <3>1, <3>2, <2>1, SumOfChange
  <2>3. refund[o][n].status = "PENDING" BY <1>1, <1>2 DEF Part
  <2>4. refund'[o][n].status = "FAILED" BY <1>2, <1>4 DEF RefundRow
  <2>. QED BY <2>2, <2>3, <2>4 DEF Counts
<1>6. returned[o] = SumOf(refund[o]) /\ returned[o] <= Amount /\ pay[o] = PayIs(returned[o])
  BY <1>1, <1>2, People DEF Part
<1>7. proc' = [proc EXCEPT ![p] = Idle] BY DEF ProviderRefuses
<1>8. Idle.pc \notin Paying BY IdleOK DEF Paying
<1>9. returned'[o] = SumOf(refund'[o]) /\ returned'[o] <= Amount /\ pay'[o] = PayIs(returned'[o]) BY <1>3, <1>5, <1>6
<1>10. \A x \in Orders \ {o} : refund'[x] = refund[x] /\ returned'[x] = returned[x] /\ pay'[x] = pay[x]
  BY <1>3, <1>4
<1>. QED BY <1>2, <1>7, <1>8, <1>9, <1>10, MoneyStep

LEMMA MoneySucceeds ==
  ASSUME Basic, Money, OneRefunder, NEW p \in Procs, RefundSucceeds(p) PROVE Money'
<1>. PICK h : h = proc[p] OBVIOUS
<1>. PICK o : o = h.o OBVIOUS
<1>. PICK n : n = h.n OBVIOUS
<1>1. h.pc = "paid" /\ h.pc \in Paying BY DEF RefundSucceeds, At, Paying
<1>2. /\ proc \in [Procs -> Handler] /\ o \in Orders /\ h \in Handler /\ \A q \in Procs : q # p => proc[q].pc \notin Paying
      /\ n \in 1..Len(refund[o]) /\ refund[o][n] \in RefundRow
      /\ Part(h, refund[o][n], SumOf(refund[o]), returned[o], pay[o]) /\ h.sum \in Nat
      /\ refund[o][n].amount \in Nat \ {0}
  BY <1>1, InHand
<1>3. returned' = returned /\ pay' = pay /\ refund' = [refund EXCEPT ![o][n].status = "SUCCEEDED"]
  BY DEF RefundSucceeds, SetRefund
<1>4. /\ Rows' /\ \A q \in Orders : Len(refund'[q]) = Len(refund[q])
      /\ \A q \in Orders \ {o} : refund'[q] = refund[q]
      /\ refund'[o][n] = [refund[o][n] EXCEPT !.status = "SUCCEEDED"]
      /\ \A i \in 1..Len(refund[o]) : i # n => refund'[o][i] = refund[o][i]
  <2>1. Rows /\ UNCHANGED returned BY <1>3 DEF Basic
  <2>2. o \in Orders /\ n \in 1..Len(refund[o]) BY <1>2
  <2>. QED BY ONLY <2>1, <2>2, <1>3, SetRow
<1>5. refund'[o][n].status = "SUCCEEDED" /\ refund'[o][n].amount = refund[o][n].amount BY <1>2, <1>4 DEF RefundRow
<1>6. SumOf(refund'[o]) = SumOf(refund[o]) + refund[o][n].amount
  <2>1. refund[o] \in Seq(RefundRow) /\ refund'[o] \in Seq(RefundRow) BY <1>2, <1>4 DEF Basic, Rows
  <2>2. PICK rest \in Nat : SumOf(refund[o]) = Counts(refund[o][n]) + rest
                            /\ SumOf(refund'[o]) = Counts(refund'[o][n]) + rest
    <3>1. n \in 1..Len(refund[o]) /\ Len(refund'[o]) = Len(refund[o]) BY <1>2, <1>4
    <3>2. \A i \in 1..Len(refund[o]) : i # n => refund'[o][i] = refund[o][i] BY <1>4
    <3>. QED BY ONLY <3>1, <3>2, <2>1, SumOfChange
  <2>3. refund[o][n].status = "PENDING" BY <1>1, <1>2 DEF Part
  <2>. QED BY SMTT(30), <2>2, <2>3, <1>2, <1>5 DEF Counts
<1>. PICK g : g = [h EXCEPT !.pc = "settle"] OBVIOUS
<1>7. proc' = [proc EXCEPT ![p] = g] BY DEF RefundSucceeds, Goto
<1>8. g.pc = "settle" /\ g.o = h.o /\ g.sum = h.sum /\ g.n = h.n /\ g.status = h.status BY <1>2 DEF Handler
<1>9. Part(g, refund'[o][n], SumOf(refund'[o]), returned[o], pay[o]) BY <1>1, <1>2, <1>5, <1>6, <1>8 DEF Part
<1>10. Part(g, refund'[o][g.n], SumOf(refund'[o]), returned'[o], pay'[o]) BY <1>3, <1>8, <1>9
<1>11. g.pc \in Paying BY <1>8 DEF Paying
<1>12. \A x \in Orders \ {o} : refund'[x] = refund[x] /\ returned'[x] = returned[x] /\ pay'[x] = pay[x]
  BY <1>3, <1>4
<1>. QED BY <1>2, <1>7, <1>8, <1>10, <1>11, <1>12, MoneyStep

LEMMA MoneySettles ==
  ASSUME Basic, Money, OneRefunder, NEW p \in Procs, SettleRefund(p) PROVE Money'
<1>. PICK h : h = proc[p] OBVIOUS
<1>. PICK o : o = h.o OBVIOUS
<1>. PICK row : row = refund[o][h.n] OBVIOUS
<1>1. h.pc = "settle" /\ h.pc \in Paying BY DEF SettleRefund, At, Paying
<1>2. /\ proc \in [Procs -> Handler] /\ o \in Orders /\ h \in Handler /\ \A q \in Procs : q # p => proc[q].pc \notin Paying
      /\ Part(h, row, SumOf(refund[o]), returned[o], pay[o]) /\ h.sum \in Nat /\ row.amount \in Nat \ {0}
  BY <1>1, InHand
<1>. PICK total : total = h.sum + row.amount OBVIOUS
<1>. PICK target : target = IF total >= Amount THEN "REFUNDED" ELSE "PARTIAL_REFUNDED" OBVIOUS
<1>3. refund' = refund /\ returned' = returned BY DEF SettleRefund
<1>4. pay' = [pay EXCEPT ![o] = IF h.status # target THEN target ELSE pay[o]]
  BY DEF SettleRefund, RefundedTotal, RefundAmount
<1>5. h.status = pay[o] /\ total <= Amount /\ SumOf(refund[o]) = total /\ returned[o] = total
  BY <1>1, <1>2 DEF Part
<1>6. target = PayIs(total)
  <2>1. total \in Nat \ {0} BY SMTT(30), <1>2
  <2>2. total <= Amount /\ Amount \in Nat BY <1>5, People
  <2>. QED BY SMTT(30), <2>1, <2>2 DEF PayIs
<1>7. pay'[o] = target /\ \A x \in Orders \ {o} : pay'[x] = pay[x] BY <1>2, <1>4, <1>5 DEF Basic
<1>8. PICK g : proc' = [proc EXCEPT ![p] = g] /\ g.pc \notin Paying
  <2>1. \/ proc' = [proc EXCEPT ![p] = [h EXCEPT !.pc = "read", !.to = "REFUNDED"]]
        \/ proc' = [proc EXCEPT ![p] = Idle]
    BY DEF SettleRefund
  <2>2. [h EXCEPT !.pc = "read", !.to = "REFUNDED"].pc \notin Paying BY <1>2 DEF Handler, Paying
  <2>3. Idle.pc \notin Paying BY IdleOK DEF Paying
  <2>. QED BY <2>1, <2>2, <2>3
<1>9. returned'[o] = SumOf(refund'[o]) /\ returned'[o] <= Amount /\ pay'[o] = PayIs(returned'[o])
  BY <1>3, <1>5, <1>6, <1>7
<1>. QED BY <1>2, <1>3, <1>7, <1>8, <1>9, MoneyStep

\* A handler that is not paying back, and does not begin to.
LEMMA MoneyOther ==
  ASSUME Basic, Money, NEW p \in Procs, UNCHANGED moneyVars,
         \/ TransitionRead(p) \/ TransitionWrite(p) \/ CycleRead(p) \/ CycleLock(p) \/ CycleMove(p)
         \/ ApplyNext(p) \/ BulkReply(p)
  PROVE  Money'
<1>. PICK h : h = proc[p] OBVIOUS
<1>1. h \in Handler /\ proc \in [Procs -> Handler] BY DEF Basic, HandlersOK
<1>2. h.pc \in {"read", "write", "cycle", "lock", "move", "apply"} /\ h.pc \notin Paying
  BY DEF TransitionRead, TransitionWrite, CycleRead, CycleLock, CycleMove, ApplyNext, BulkReply, At, Paying
<1>3. ASSUME NEW g, proc' = [proc EXCEPT ![p] = g], g.pc \notin Paying PROVE Money'
  BY <1>1, <1>2, <1>3, MoneyKept
<1>4. ASSUME NEW ok \in BOOLEAN, Ended(p, ok), h.pc \in OnBox \cup {"read", "write"} PROVE Money'
  <2>1. Fit(h) BY DEF Basic, HandlersOK
  <2>2. AfterRow(h, ok).pc \in {"idle", "apply"} BY <1>1, <1>4, <2>1, AfterRowOK
  <2>3. AfterRow(h, ok).pc \notin Paying BY <2>2 DEF Paying
  <2>. QED BY <2>3, <1>3, <1>4 DEF Ended
<1>5. \A pc \in {"read", "write", "cycle", "lock", "move"} : pc \notin Paying BY DEF Paying
<1>6. CASE TransitionRead(p)
  <2>1. h.pc = "read" BY <1>6 DEF TransitionRead, At
  <2>2. [h EXCEPT !.pc = "write", !.from = order[h.o]].pc = "write" BY <1>1 DEF Handler
  <2>. QED BY <1>3, <1>4, <1>5, <1>6, <2>1, <2>2 DEF TransitionRead
<1>7. CASE TransitionWrite(p)
  <2>1. h.pc = "write" BY <1>7 DEF TransitionWrite, At
  <2>. QED BY <1>4, <1>7, <2>1 DEF TransitionWrite
<1>8. CASE CycleRead(p)
  <2>1. h.pc = "cycle" BY <1>8 DEF CycleRead, At
  <2>2. [h EXCEPT !.pc = "lock"].pc = "lock" BY <1>1 DEF Handler
  <2>. QED BY <1>3, <1>4, <1>5, <1>8, <2>1, <2>2 DEF CycleRead, Goto, OnBox
<1>9. CASE CycleLock(p)
  <2>1. [h EXCEPT !.pc = "move", !.from = order[h.o]].pc = "move" BY <1>1 DEF Handler
  <2>. QED BY <1>3, <1>5, <1>9, <2>1 DEF CycleLock
<1>10. CASE CycleMove(p)
  <2>1. h.pc = "move" BY <1>10 DEF CycleMove, At
  <2>. QED BY <1>4, <1>10, <2>1 DEF CycleMove, OnBox
<1>11. CASE ApplyNext(p)
  <2>1. PICK item : proc' = [proc EXCEPT ![p] = [h EXCEPT !.pc = IF item[1] = "cycle" THEN "cycle" ELSE "read",
                                             !.o = item[2], !.todo = h.todo \ {item}]]
    BY <1>11 DEF ApplyNext
  <2>2. [h EXCEPT !.pc = IF item[1] = "cycle" THEN "cycle" ELSE "read", !.o = item[2],
                  !.todo = h.todo \ {item}].pc \in {"cycle", "read"}
    BY <1>1 DEF Handler
  <2>. QED BY <1>3, <1>5, <2>1, <2>2
<1>12. CASE BulkReply(p) BY <1>3, <1>12, IdleOK DEF BulkReply, Paying
<1>. QED BY <1>6, <1>7, <1>8, <1>9, <1>10, <1>11, <1>12

LEMMA MoneySame == ASSUME Money, UNCHANGED <<moneyVars, proc>> PROVE Money'
<1>1. \A x : Succeeded(x)' = Succeeded(x) BY DEF moneyVars, Succeeded
<1>. QED BY <1>1 DEF Money, Settled, UnderWay, Part, PayIs, moneyVars

\* A handler that begins without paying back.
LEMMA MoneyBegins ==
  ASSUME Basic, Money, NEW p \in Procs, At(p, "idle"), UNCHANGED moneyVars, NEW g,
         proc' = [proc EXCEPT ![p] = g], g.pc \in {"read", "cycle", "apply"}
  PROVE  Money'
<1>1. proc[p].pc \notin Paying /\ g.pc \notin Paying BY DEF At, Paying
<1>2. proc \in [Procs -> Handler] BY DEF Basic, HandlersOK
<1>. QED BY <1>1, <1>2, MoneyKept

LEMMA StepMoney == ASSUME OneRefunder, ~LostReplies, Basic, Money, [Next]_vars PROVE Money'
<1>1. ASSUME NEW p \in Procs, Continue(p) PROVE Money'
  <2>1. CASE \/ TransitionRead(p) \/ TransitionWrite(p) \/ CycleRead(p) \/ CycleLock(p) \/ CycleMove(p)
             \/ ApplyNext(p) \/ BulkReply(p)
    <3>1. UNCHANGED moneyVars
      BY <2>1 DEF TransitionRead, TransitionWrite, CycleRead, CycleLock, CycleMove, ApplyNext, BulkReply, dbVars
    <3>. QED BY <2>1, <3>1, MoneyOther
  <2>. QED BY <1>1, <2>1, MoneyPays, MoneyRefuses, MoneySucceeds, MoneySettles DEF Continue
<1>2. ASSUME NEW p \in Desk, NEW o \in Orders, NEW to, UpdateStatusAdmin(p, o, to) PROVE Money'
  <2>1. [Idle EXCEPT !.pc = "read", !.by = "desk", !.o = o, !.to = to].pc = "read" BY DEF Idle
  <2>. QED BY <1>2, <2>1, MoneyBegins, People DEF UpdateStatusAdmin, dbVars
<1>3. ASSUME NEW p \in Desk, NEW o \in Orders, NEW to, AdminSetStatus(p, o, to) PROVE Money'
  <2>1. [Idle EXCEPT !.pc = "cycle", !.by = "desk", !.o = o, !.to = to].pc = "cycle" BY DEF Idle
  <2>. QED BY <1>3, <2>1, MoneyBegins, People DEF AdminSetStatus, dbVars
<1>4. ASSUME NEW p \in Desk, NEW o \in Orders, NEW amount \in 1..Amount, Refund(p, o, amount) PROVE Money'
  BY <1>4, MoneyRefund
<1>5. ASSUME NEW p \in Desk, NEW sel \in Selections, NEW to, NEW skipInvalid \in BOOLEAN,
             BulkStatus(p, sel, to, skipInvalid)
      PROVE  Money'
  <2>. PICK g : g = [Idle EXCEPT !.pc = "apply", !.to = to,
       !.by = IF skipInvalid THEN "some" ELSE "bulk", !.todo = {x \in sel : Applicable(x, to)}] OBVIOUS
  <2>1. g.pc = "apply" BY DEF Idle
  <2>2. proc' = [proc EXCEPT ![p] = g] /\ At(p, "idle") /\ UNCHANGED moneyVars BY <1>5 DEF BulkStatus, dbVars
  <2>. QED BY <2>1, <2>2, MoneyBegins, People
<1>6. ASSUME NEW o \in Orders, CancelByCustomer(o) PROVE Money'
  <2>1. [Idle EXCEPT !.pc = "read", !.by = "customer", !.o = o, !.to = "CANCELLED"].pc = "read" BY DEF Idle
  <2>. QED BY <1>6, <2>1, MoneyBegins, People DEF CancelByCustomer, dbVars
<1>7. ASSUME CutoffPasses PROVE Money' BY <1>7, MoneySame DEF CutoffPasses
<1>8. ASSUME UNCHANGED vars PROVE Money' BY <1>8, MoneySame DEF vars
<1>. QED BY <1>1, <1>2, <1>3, <1>4, <1>5, <1>6, <1>7, <1>8 DEF Next

\* With one refund at a time and a provider whose answers arrive, what was paid back is what the refunds of
\* the order say, never more than was taken, and the payment's status tells a part from the whole, for any
\* sequence of partial refunds, refusals and status changes (PaymentsAdminService.refund).
THEOREM RefundsBalance == ASSUME OneRefunder, ~LostReplies PROVE Spec => []RefundsAddUp
<1>1. Init => Basic /\ Money BY BasicInit, MoneyInit
<1>2. Basic /\ Money /\ [Next]_vars => (Basic /\ Money)' BY StepBasic, StepMoney
<1>3. Basic /\ Money => RefundsAddUp BY MoneyAddsUp
<1>. QED BY <1>1, <1>2, <1>3, PTL DEF Spec
-------------------------------------------------------------------------------
(* A box at its desk, with one admin there.                                 *)

OneAtTheDesk == \A p, q \in Desk : p = q

\* What was asserted of the box when it was read still holds when it is written.
Asserted == \A p \in Procs :
  proc[p].pc \in {"lock", "move"} => CanCycle(cycle[proc[p].o], proc[p].to)

\* A step that writes no box keeps it.
LEMMA AssertedKept ==
  ASSUME Asserted, proc \in [Procs -> Handler], NEW p \in Procs, NEW g, proc' = [proc EXCEPT ![p] = g],
         UNCHANGED cycle, g.pc \in {"lock", "move"} => CanCycle(cycle[g.o], g.to)
  PROVE  Asserted'
<1>1. proc'[p] = g /\ \A q \in Procs : q # p => proc'[q] = proc[q] OBVIOUS
<1>. QED BY <1>1 DEF Asserted, CanCycle

LEMMA AssertedEnded ==
  ASSUME Asserted, Basic, NEW p \in Procs, NEW ok \in BOOLEAN, Ended(p, ok), UNCHANGED cycle,
         proc[p].pc \in OnBox \cup {"read", "write"}
  PROVE  Asserted'
<1>. PICK g : g = AfterRow(proc[p], ok) OBVIOUS
<1>1. proc[p] \in Handler /\ Fit(proc[p]) /\ proc \in [Procs -> Handler] BY DEF Basic, HandlersOK
<1>2. g.pc \in {"idle", "apply"} BY <1>1, AfterRowOK
<1>3. proc' = [proc EXCEPT ![p] = g] BY DEF Ended
<1>. QED BY <1>1, <1>2, <1>3, AssertedKept

\* Only CycleMove writes a box.
LEMMA BoxMoved ==
  ASSUME OneAtTheDesk, Basic, Asserted, NEW p \in Procs, CycleMove(p)
  PROVE  Asserted' /\ \A b \in Boxes : cycle'[b] # cycle[b] => CanCycle(cycle[b], cycle'[b])
<1>. PICK h : h = proc[p] OBVIOUS
<1>1. h.pc = "move" BY DEF CycleMove, At
<1>2. h \in Handler /\ Fit(h) /\ proc \in [Procs -> Handler] BY DEF Basic, HandlersOK
<1>3. h.o \in Boxes /\ CanCycle(cycle[h.o], h.to) BY <1>1, <1>2 DEF Fit, OnBox, Asserted
<1>4. cycle' = [cycle EXCEPT ![h.o] = h.to] BY DEF CycleMove
<1>5. \A b \in Boxes : cycle'[b] # cycle[b] => CanCycle(cycle[b], cycle'[b]) BY <1>3, <1>4 DEF Basic
<1>6. proc' = [proc EXCEPT ![p] = AfterRow(h, TRUE)] BY DEF CycleMove, Ended
<1>7. AfterRow(h, TRUE).pc \in {"idle", "apply"} BY <1>1, <1>2, AfterRowOK DEF OnBox
<1>8. ASSUME NEW q \in Procs, q # p PROVE proc[q].pc \notin {"lock", "move"}
  <2>1. p \in Desk BY <1>1, NotCustomer DEF Procs
  <2>2. q \notin Desk BY <1>8, <2>1 DEF OneAtTheDesk
  <2>3. q = Customer BY <2>2 DEF Procs
  <2>. QED BY <2>3 DEF Basic, CustomerCancels
<1>9. proc'[p].pc \notin {"lock", "move"} /\ \A q \in Procs : q # p => proc'[q] = proc[q] BY <1>2, <1>6, <1>7
<1>10. Asserted' BY <1>8, <1>9 DEF Asserted
<1>. QED BY <1>5, <1>10

LEMMA StepAsserted ==
  ASSUME OneAtTheDesk, Basic, Asserted, [Next]_vars
  PROVE  Asserted' /\ (UNCHANGED cycle \/ \A b \in Boxes : cycle'[b] # cycle[b] => CanCycle(cycle[b], cycle'[b]))
<1>0. proc \in [Procs -> Handler] BY DEF Basic, HandlersOK
<1>1. ASSUME NEW p \in Procs, NEW g, proc' = [proc EXCEPT ![p] = g], UNCHANGED cycle,
             g.pc \notin {"lock", "move"}
      PROVE  Asserted' /\ UNCHANGED cycle
  BY <1>0, <1>1, AssertedKept
<1>2. ASSUME NEW p \in Procs, Continue(p), ~CycleMove(p) PROVE Asserted' /\ UNCHANGED cycle
  <2>. PICK h : h = proc[p] OBVIOUS
  <2>1. h \in Handler BY <1>0
  <2>2. CASE TransitionRead(p)
    <3>1. [h EXCEPT !.pc = "write", !.from = order[h.o]].pc = "write" BY <2>1 DEF Handler
    <3>2. h.pc = "read" /\ UNCHANGED cycle BY <2>2 DEF TransitionRead, At, dbVars
    <3>3. CASE Ended(p, FALSE) BY <3>2, <3>3, AssertedEnded
    <3>. QED BY <1>1, <2>2, <3>1, <3>2, <3>3 DEF TransitionRead
  <2>3. CASE TransitionWrite(p)
    <3>1. h.pc = "write" /\ UNCHANGED cycle BY <2>3 DEF TransitionWrite, At
    <3>2. PICK ok \in BOOLEAN : Ended(p, ok) BY <2>3 DEF TransitionWrite
    <3>. QED BY <3>1, <3>2, AssertedEnded
  <2>4. CASE CycleRead(p)
    <3>1. h.pc = "cycle" /\ UNCHANGED cycle BY <2>4 DEF CycleRead, At, dbVars
    <3>2. CASE CanCycle(cycle[h.o], h.to)
      <4>. PICK g : g = [h EXCEPT !.pc = "lock"] OBVIOUS
      <4>1. proc' = [proc EXCEPT ![p] = g] BY <2>4, <3>2 DEF CycleRead, Goto
      <4>2. g.o = h.o /\ g.to = h.to BY <2>1 DEF Handler
      <4>. QED BY <1>0, <3>1, <3>2, <4>1, <4>2, AssertedKept
    <3>3. CASE ~CanCycle(cycle[h.o], h.to)
      <4>1. Ended(p, FALSE) BY <2>4, <3>3 DEF CycleRead
      <4>. QED BY <3>1, <4>1, AssertedEnded DEF OnBox
    <3>. QED BY <3>2, <3>3
  <2>5. CASE CycleLock(p)
    <3>1. h.pc = "lock" /\ UNCHANGED cycle BY <2>5 DEF CycleLock, At, dbVars
    <3>. PICK g : g = [h EXCEPT !.pc = "move", !.from = order[h.o]] OBVIOUS
    <3>2. proc' = [proc EXCEPT ![p] = g] BY <2>5 DEF CycleLock
    <3>3. g.o = h.o /\ g.to = h.to BY <2>1 DEF Handler
    <3>4. CanCycle(cycle[h.o], h.to) BY <3>1 DEF Asserted
    <3>. QED BY <1>0, <3>1, <3>2, <3>3, <3>4, AssertedKept
  <2>6. CASE ApplyNext(p)
    <3>1. PICK item : proc' = [proc EXCEPT ![p] = [h EXCEPT !.pc = IF item[1] = "cycle" THEN "cycle" ELSE "read",
                                               !.o = item[2], !.todo = h.todo \ {item}]]
      BY <2>6 DEF ApplyNext
    <3>2. [h EXCEPT !.pc = IF item[1] = "cycle" THEN "cycle" ELSE "read", !.o = item[2],
                    !.todo = h.todo \ {item}].pc \in {"cycle", "read"}
      BY <2>1 DEF Handler
    <3>. QED BY <1>1, <2>6, <3>1, <3>2 DEF ApplyNext, dbVars
  <2>7. CASE BulkReply(p) BY <1>1, <2>7, IdleOK DEF BulkReply, dbVars
  <2>8. CASE ProviderPays(p)
    <3>1. [h EXCEPT !.pc = "paid"].pc = "paid" BY <2>1 DEF Handler
    <3>. QED BY <1>1, <2>8, <3>1, IdleOK DEF ProviderPays, Goto
  <2>9. CASE ProviderRefuses(p) BY <1>1, <2>9, IdleOK DEF ProviderRefuses
  <2>10. CASE RefundSucceeds(p)
    <3>1. [h EXCEPT !.pc = "settle"].pc = "settle" BY <2>1 DEF Handler
    <3>. QED BY <1>1, <2>10, <3>1 DEF RefundSucceeds, Goto
  <2>11. CASE SettleRefund(p)
    <3>1. \/ proc' = [proc EXCEPT ![p] = [h EXCEPT !.pc = "read", !.to = "REFUNDED"]]
          \/ proc' = [proc EXCEPT ![p] = Idle]
      BY <2>11 DEF SettleRefund
    <3>2. [h EXCEPT !.pc = "read", !.to = "REFUNDED"].pc = "read" BY <2>1 DEF Handler
    <3>3. UNCHANGED cycle BY <2>11 DEF SettleRefund
    <3>. QED BY <1>1, <3>1, <3>2, <3>3, IdleOK
  <2>. QED BY <1>2, <2>2, <2>3, <2>4, <2>5, <2>6, <2>7, <2>8, <2>9, <2>10, <2>11 DEF Continue
<1>3. ASSUME NEW p \in Desk, NEW o \in Orders, NEW to, UpdateStatusAdmin(p, o, to) PROVE Asserted' /\ UNCHANGED cycle
  <2>1. [Idle EXCEPT !.pc = "read", !.by = "desk", !.o = o, !.to = to].pc = "read" BY DEF Idle
  <2>. QED BY <1>1, <1>3, <2>1, People DEF UpdateStatusAdmin, dbVars
<1>4. ASSUME NEW p \in Desk, NEW o \in Orders, NEW to, AdminSetStatus(p, o, to) PROVE Asserted' /\ UNCHANGED cycle
  <2>1. [Idle EXCEPT !.pc = "cycle", !.by = "desk", !.o = o, !.to = to].pc = "cycle" BY DEF Idle
  <2>. QED BY <1>1, <1>4, <2>1, People DEF AdminSetStatus, dbVars
<1>5. ASSUME NEW p \in Desk, NEW o \in Orders, NEW amount, Refund(p, o, amount) PROVE Asserted' /\ UNCHANGED cycle
  <2>. PICK g : g = [Idle EXCEPT !.pc = "call", !.by = "refund", !.o = o,
       !.from = order[o], !.status = pay[o], !.sum = Succeeded(o), !.n = Len(refund[o]) + 1] OBVIOUS
  <2>1. g.pc = "call" BY DEF Idle
  <2>2. proc' = [proc EXCEPT ![p] = g] /\ UNCHANGED cycle BY <1>5 DEF Refund
  <2>. QED BY <1>1, <2>1, <2>2, People
<1>6. ASSUME NEW p \in Desk, NEW sel \in Selections, NEW to, NEW skipInvalid \in BOOLEAN,
             BulkStatus(p, sel, to, skipInvalid)
      PROVE  Asserted' /\ UNCHANGED cycle
  <2>. PICK g : g = [Idle EXCEPT !.pc = "apply", !.to = to,
       !.by = IF skipInvalid THEN "some" ELSE "bulk", !.todo = {x \in sel : Applicable(x, to)}] OBVIOUS
  <2>1. g.pc = "apply" BY DEF Idle
  <2>2. proc' = [proc EXCEPT ![p] = g] /\ UNCHANGED cycle BY <1>6 DEF BulkStatus, dbVars
  <2>. QED BY <1>1, <2>1, <2>2, People
<1>7. ASSUME NEW o \in Orders, CancelByCustomer(o) PROVE Asserted' /\ UNCHANGED cycle
  <2>1. [Idle EXCEPT !.pc = "read", !.by = "customer", !.o = o, !.to = "CANCELLED"].pc = "read" BY DEF Idle
  <2>. QED BY <1>1, <1>7, <2>1, People DEF CancelByCustomer, dbVars
<1>8. ASSUME UNCHANGED <<cycle, proc>> PROVE Asserted' /\ UNCHANGED cycle BY <1>8 DEF Asserted, CanCycle
<1>9. CASE CutoffPasses \/ UNCHANGED vars BY <1>8, <1>9 DEF CutoffPasses, vars
<1>10. CASE \E p \in Procs : Continue(p) BY <1>2, <1>10, BoxMoved
<1>. QED BY <1>3, <1>4, <1>5, <1>6, <1>7, <1>9, <1>10 DEF Next

LEMMA AssertedInit == Init => Asserted
BY IdleOK DEF Init, Asserted

\* With one admin at the desk, whatever is selected and however single requests, bulk requests and refunds
\* follow each other, a box moves along the table of its machine (CyclesService.adminSetStatus).
THEOREM BoxesMoveLegally == ASSUME OneAtTheDesk PROVE Spec => BoxStepsLegal
<1>1. Init => Basic /\ Asserted BY BasicInit, AssertedInit
<1>2. Basic /\ Asserted /\ [Next]_vars => (Basic /\ Asserted)' BY StepBasic, StepAsserted
<1>3. Basic /\ Asserted /\ [Next]_vars
      => [\A b \in Boxes : cycle'[b] # cycle[b] => CanCycle(cycle[b], cycle'[b])]_vars
  BY StepAsserted
<1>. QED BY <1>1, <1>2, <1>3, PTL DEF Spec, BoxStepsLegal
=============================================================================
