----------------------------- MODULE BoxContents -----------------------------
(***************************************************************************)
(* What is in one planned box: its rows of cycle_items, edited by the      *)
(* member (patchCurrentCycle, mergeCart), by an admin (compensate) and     *)
(* charged by the lock job (lockPhaseA).                                   *)
(*                                                                         *)
(* A member's request reads the subscription, then the box with its rows,  *)
(* and only then locks the box's row; its writes follow from what it read. *)
(* The lock is FOR UPDATE SKIP LOCKED and taken only of a SCHEDULED row,   *)
(* so a request that finds it held is refused (Drop), and lock, writes and *)
(* commit are one step.  A compensation takes no lock.                     *)
(***************************************************************************)
EXTENDS Integers, FiniteSets, SequencesExt

CONSTANTS
  Products,
  Template,  \* products of the week's published template
  Extras,    \* products that are sold as extras
  Prefs,     \* preferences a product can be ordered with
  Requests,  \* concurrent requests of the member
  Uses,      \* fields her requests carry: "prefs", "items", "extras", "merge"
  Admins,    \* concurrent compensations
  MaxRows    \* bound: rows ever created

ASSUME ProductAssumption == Template \subseteq Products /\ Extras \subseteq Products
ASSUME TemplateAssumption == IsFiniteSet(Products) /\ Template # {}
ASSUME BoundAssumption == MaxRows \in Nat /\ Cardinality(Template) <= MaxRows

VARIABLES
  status,    \* SubscriptionCycle.status: LOCKED stands for it and what follows
  past,      \* has the box's cutoff passed?
  items,     \* CycleItem rows of the box
  created,   \* rows ever created
  itemPrefs, \* Subscription.itemPrefs
  charged,   \* extras charged at the lock, by product
  job,       \* does lockPhaseA hold the row, and what it read under the lock
  req,       \* req[r]: progress, the preferences and the rows it read
  helping    \* helping[a]: place of the row an admin is about to add (0: none)

vars == <<status, past, items, created, itemPrefs, charged, job, req, helping>>

None == "NONE"
BoxSources == {"TEMPLATE", "SWAP"}
BoxSize == Cardinality(Template)
BoxRows(I) == {i \in I : i.source \in BoxSources}
ExtraRows(I) == I \ BoxRows(I)
NoPrefs == [p \in Products |-> None]
NothingCharged == [p \in Products |-> 0]
NotHeld == [holds |-> FALSE, items |-> {}]
Idle == [at |-> None, prefs |-> NoPrefs, items |-> {}]

BoxRow(id, source, p, n, prefs, of) ==
  [id |-> id, source |-> source, product |-> p, sort |-> n, of |-> of, pref |-> prefs[p],
   qty |-> 1, free |-> FALSE]
ExtraRow(id, source, p, n, free) ==
  [id |-> id, source |-> source, product |-> p, sort |-> n, of |-> None, pref |-> None,
   qty |-> 1, free |-> free]

\* Lists of n different products.
Lists(n) == {s \in [1..n -> Products] : IsInjective(s)}

\* createFromCheckout, or ensure with the template.
Init == \E s \in Lists(BoxSize) :
          /\ status = "SCHEDULED" /\ past = FALSE
          /\ items = {BoxRow(n, IF s[n] \in Template THEN "TEMPLATE" ELSE "SWAP",
                             s[n], n, NoPrefs, None) : n \in 1..BoxSize}
          /\ created = BoxSize
          /\ itemPrefs = NoPrefs /\ charged = NothingCharged /\ job = NotHeld
          /\ req = [r \in Requests |-> Idle] /\ helping = [a \in Admins |-> 0]
-------------------------------------------------------------------------------
(* The member.                                                               *)

\* requireForUser reads the subscription before the transaction.
ReadSub(r) == /\ req[r].at = None
              /\ req' = [req EXCEPT ![r] = [Idle EXCEPT !.at = "sub", !.prefs = itemPrefs]]
              /\ UNCHANGED <<status, past, items, created, itemPrefs, charged, job, helping>>

\* requireEditableCycle reads the box, and its cutoff against the clock of the request.
ReadBox(r) == /\ req[r].at = "sub" /\ status = "SCHEDULED" /\ ~past
              /\ req' = [req EXCEPT ![r] = [@ EXCEPT !.at = "box", !.items = items]]
              /\ UNCHANGED <<status, past, items, created, itemPrefs, charged, job, helping>>

Drop(r) == /\ req[r].at # None /\ req' = [req EXCEPT ![r] = Idle]
           /\ UNCHANGED <<status, past, items, created, itemPrefs, charged, job, helping>>

\* Mutant: the row is locked without another look at its status.
LockCycleAnyStatus(r) == req[r].at = "box" /\ ~job.holds

\* lockCycle(SCHEDULED), FOR UPDATE SKIP LOCKED.
LockCycle(r) == req[r].at = "box" /\ ~job.holds /\ status = "SCHEDULED"

\* The parts of a patch work on a draft of the box, in the order of the code.
Draft(r) == [items |-> items, created |-> created, prefs |-> req[r].prefs, writes |-> FALSE]

\* itemPrefs: written as the whole map the request read; rows of the product follow, and a row
\* deleted since makes the update fail.
CanSetPref(r, p) == \A i \in BoxRows(req[r].items) : i.product = p => \E j \in items : j.id = i.id
SetPref(d, r, p, v) ==
  LET own == {i.id : i \in {j \in BoxRows(req[r].items) : j.product = p}}
  IN [d EXCEPT !.prefs[p] = v, !.writes = TRUE,
               !.items = IF v = None THEN @
                         ELSE {IF i.id \in own THEN [i EXCEPT !.pref = v] ELSE i : i \in @}]

\* The order in which the rows are read.
NotAfter(i, j) == i.sort < j.sort \/ (i.sort = j.sort /\ i.id <= j.id)

\* How many of the numbers N there are up to n.
Place(n, N) == Cardinality({m \in N : m <= n})

\* Mutant: rows of the template are never removed.
KeptOrTemplate(seen, s) == {i \in BoxRows(seen) : i.product \in Range(s) \/ i.source = "TEMPLATE"}

\* Of the rows of a wanted product the last stays.
Kept(seen, s) == {i \in BoxRows(seen) :
  /\ i.product \in Range(s)
  /\ \A j \in BoxRows(seen) : j.product = i.product => NotAfter(j, i)}

\* Products swapped in stand for the template products that left, the n-th for the n-th in the
\* order of the rows.
LeftSlot(seen, s, n) ==
  LET left == {i \in BoxRows(seen) : i.product \notin Range(s)}
      nth == {i \in left : Cardinality({j \in left : NotAfter(j, i)}) = n}
      i == CHOOSE j \in nth : TRUE
  IN IF nth = {} THEN None ELSE IF i.source = "SWAP" /\ i.of # None THEN i.of ELSE i.product

PrefsForNew(d, r) == d.prefs

\* The places in the list s of the products that are not in the box.
NewPlaces(seen, s) == {n \in DOMAIN s : \A i \in Kept(seen, s) : i.product # s[n]}
SwapPlaces(seen, s) == {n \in NewPlaces(seen, s) : s[n] \notin Template}
AddedRow(d, r, s, n) ==
  LET id == d.created + Place(n, NewPlaces(req[r].items, s))
  IN IF s[n] \in Template THEN BoxRow(id, "TEMPLATE", s[n], n, PrefsForNew(d, r), None)
     ELSE BoxRow(id, "SWAP", s[n], n, PrefsForNew(d, r),
                 LeftSlot(req[r].items, s, Place(n, SwapPlaces(req[r].items, s))))
SetItems(d, r, s) ==
  LET seen == req[r].items
      new == NewPlaces(seen, s)
      gone == {i.id : i \in BoxRows(seen) \ Kept(seen, s)}
  IN [d EXCEPT !.items = {i \in @ : i.id \notin gone} \cup {AddedRow(d, r, s, n) : n \in new},
               !.created = @ + Cardinality(new)]

\* extras is the full list: the first row of a wanted product stays, every other goes.
SetExtras(d, r, E) ==
  LET seen == ExtraRows(req[r].items)
      match == {i \in seen : i.qty = 1 /\ i.product \in E}
      keep == {i \in match : \A j \in match : j.product = i.product => NotAfter(i, j)}
      gone == {i.id : i \in seen \ keep}
      added == SetToSeq(E \ {i.product : i \in keep})
      new == {ExtraRow(d.created + n, "EXTRA", added[n], Cardinality(req[r].items) + n, FALSE)
                : n \in DOMAIN added}
  IN [d EXCEPT !.items = {i \in @ : i.id \notin gone} \cup new, !.created = @ + Len(added)]

Save(r, d) == /\ d.created <= MaxRows
              /\ items' = d.items /\ created' = d.created
              /\ itemPrefs' = IF d.writes THEN d.prefs ELSE itemPrefs
              /\ req' = [req EXCEPT ![r] = Idle]
              /\ UNCHANGED <<status, past, charged, job, helping>>

\* A field of the request: absent, or one of the values in S.
Field(u, S) == {<<>>} \cup (IF u \in Uses THEN {<<v>> : v \in S} ELSE {})

PatchCurrentCycle(r) ==
  /\ LockCycle(r)
  /\ \E pref \in Field("prefs", Products \X (Prefs \cup {None})),
        list \in Field("items", Lists(Cardinality(BoxRows(req[r].items)))),
        extras \in Field("extras", SUBSET Extras) :
       /\ pref # <<>> /\ pref[1][2] # None => CanSetPref(r, pref[1][1])
       /\ LET d1 == IF pref = <<>> THEN Draft(r) ELSE SetPref(Draft(r), r, pref[1][1], pref[1][2])
              d2 == IF list = <<>> THEN d1 ELSE SetItems(d1, r, list[1])
          IN Save(r, IF extras = <<>> THEN d2 ELSE SetExtras(d2, r, extras[1]))

RowsToMerge(r, p) == {i \in req[r].items : i.source = "CART_MERGE" /\ i.product = p}
\* mergeCart: a line of the cart joins the row of its product, by the quantity that was read.
MergeCart(r) ==
  /\ LockCycle(r) /\ "merge" \in Uses
  /\ \E p \in Extras :
       LET own == RowsToMerge(r, p)
           d == Draft(r)
       IN IF own = {}
          THEN Save(r, [d EXCEPT !.items = @ \cup {ExtraRow(created + 1, "CART_MERGE", p,
                                                           Cardinality(req[r].items) + 1, FALSE)},
                                 !.created = @ + 1])
          ELSE \E i \in own : /\ \E j \in items : j.id = i.id
                              /\ i.qty < MaxRows
                              /\ Save(r, [d EXCEPT !.items = {IF j.id = i.id
                                            THEN [j EXCEPT !.qty = i.qty + 1] ELSE j : j \in @}])

Member == \E r \in Requests : ReadSub(r) \/ ReadBox(r) \/ Drop(r) \/ PatchCurrentCycle(r)
                              \/ MergeCart(r)
-------------------------------------------------------------------------------
(* Skip and unskip, the admin's compensation and the lock job.               *)

Skip == /\ status = "SCHEDULED" /\ ~job.holds /\ ~past /\ status' = "SKIPPED"
        /\ UNCHANGED <<past, items, created, itemPrefs, charged, job, req, helping>>
Unskip == /\ status = "SKIPPED" /\ ~past /\ status' = "SCHEDULED"
          /\ UNCHANGED <<past, items, created, itemPrefs, charged, job, req, helping>>

\* compensate chooses a planned box before its transaction,
ChooseBox(a) == /\ helping[a] = 0 /\ status = "SCHEDULED" /\ ~past
                /\ helping' = [helping EXCEPT ![a] = Cardinality(items) + 1]
                /\ UNCHANGED <<status, past, items, created, itemPrefs, charged, job, req>>
\* and adds the row without a lock or another look at the box.
Compensate(a) ==
  /\ helping[a] # 0 /\ helping' = [helping EXCEPT ![a] = 0] /\ created < MaxRows
  /\ \E p \in Extras : items' = items \cup {ExtraRow(created + 1, "EXTRA", p, helping[a], TRUE)}
  /\ created' = created + 1
  /\ UNCHANGED <<status, past, itemPrefs, charged, job, req>>

Cutoff == /\ ~past /\ past' = TRUE
          /\ UNCHANGED <<status, items, created, itemPrefs, charged, job, req, helping>>

\* lockPhaseA holds the row from its read to its commit.
LockPhaseA == /\ past /\ status = "SCHEDULED" /\ ~job.holds
              /\ job' = [holds |-> TRUE, items |-> items]
              /\ UNCHANGED <<status, past, items, created, itemPrefs, charged, req, helping>>

\* What is charged for, by product: the rows that are not part of the box, without a compensation.
Chargeable(I) == {i \in ExtraRows(I) : ~i.free}
Units(I, p) == {u \in Chargeable(I) \X (1..MaxRows) : u[1].product = p /\ u[2] <= u[1].qty}
Charge(I) == [p \in Products |-> Cardinality(Units(I, p))]

Commit == /\ job.holds /\ job' = NotHeld /\ status' = "LOCKED"
          /\ charged' = Charge(job.items)
          /\ UNCHANGED <<past, items, created, itemPrefs, req, helping>>

Next == \/ Member \/ Skip \/ Unskip \/ Cutoff \/ LockPhaseA \/ Commit
        \/ \E a \in Admins : ChooseBox(a) \/ Compensate(a)
Spec == Init /\ [][Next]_vars
-------------------------------------------------------------------------------
BoxItem == [id : 1..MaxRows, source : BoxSources, product : Products, sort : Nat,
            of : Products \cup {None}, pref : Prefs \cup {None}, qty : {1}, free : {FALSE}]
ExtraItem == [id : 1..MaxRows, source : {"EXTRA", "CART_MERGE"}, product : Extras, sort : Nat,
              of : {None}, pref : {None}, qty : 1..MaxRows, free : BOOLEAN]
ItemRow == BoxItem \cup ExtraItem

\* Every variable has its type; rows of the box are single, without a price of their own.
TypeOK ==
  /\ status \in {"SCHEDULED", "SKIPPED", "LOCKED"} /\ past \in BOOLEAN
  /\ items \subseteq ItemRow /\ created \in 0..MaxRows
  /\ itemPrefs \in [Products -> Prefs \cup {None}]
  /\ charged \in [Products -> Nat]
  /\ job.holds \in BOOLEAN /\ job.items \subseteq ItemRow
  /\ \A r \in Requests : req[r].at \in {None, "sub", "box"} /\ req[r].items \subseteq ItemRow
  /\ helping \in [Admins -> Nat]

\* A member's swaps change what is in the box and never how much of it: the box keeps its size, and
\* no product is in it twice.
BoxSizeKept == /\ Cardinality(BoxRows(items)) = BoxSize
               /\ \A i, j \in BoxRows(items) : i.product = j.product => i = j

\* A preference the member has set is the one her planned box is packed with.
PrefsApplied == \A i \in BoxRows(items) : itemPrefs[i.product] # None => i.pref = itemPrefs[i.product]

\* A box is charged for exactly the extras it is delivered with: nothing a member adds or removes
\* slips in between the quote and the lock, or after it.
ChargedForContents == status = "LOCKED" => charged = Charge(items)

\* What patchCurrentCycle and mergeCart leave behind is a box: its rows are well formed, as many
\* products as its size, each with its preference.
BoxKept == TypeOK /\ BoxSizeKept /\ PrefsApplied
===============================================================================
