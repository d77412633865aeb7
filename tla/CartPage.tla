------------------------------ MODULE CartPage ------------------------------
(***************************************************************************)
(* The shop's cart page (views/sepet.hbs over public/assets/cart.js).      *)
(*                                                                         *)
(* The cart lives in the browser's local storage, shared by its tabs; a    *)
(* cart page draws it, asks the server for the total, places the order and *)
(* waits for the payment, or moves the lines into this week's box.  Every  *)
(* callback works on what it reads when it runs, not on what was there     *)
(* when its request left.                                                  *)
(*                                                                         *)
(* Left out: the box draft (one more line of the cart), preferences, the   *)
(* zone, the consents; the address save is a step that succeeds.          *)
(***************************************************************************)
EXTENDS Integers, FiniteSets, SequencesExt

CONSTANTS
  Items,      \* products
  Tabs,       \* browser tabs of one shopper
  Codes,      \* coupon codes the shopper may type
  Nothing,    \* null
  Member,     \* does the shopper have a running subscription
  Hasty,      \* may they edit, leave or start something else meanwhile
  Lossy,      \* what may fail or be lost: "quote", "merge", "order", "poll"
  SlowBank,   \* may the bank decide after the page has stopped asking
  MaxUnits, MaxOrders, MaxQuotes, MaxPolls   \* bounds

ASSUME CartPageAssumption ==
  /\ {Member, Hasty, SlowBank} \subseteq BOOLEAN /\ Lossy \subseteq {"quote", "merge", "order", "poll"}
  /\ {MaxUnits, MaxOrders, MaxQuotes, MaxPolls} \subseteq Nat
  /\ IsFiniteSet(Items)

Line == [id : Items, qty : 1..MaxUnits]
Lines == {<<>>} \cup UNION {[1..n -> Line] : n \in 1..Cardinality(Items)}

\* What a total depends on: the lines and the code.
Keys == Lines \X (Codes \cup {Nothing})

ASSUME NothingIsNoValue == Nothing \notin Codes /\ Nothing \notin Tabs /\ Nothing \notin Keys

VARIABLES
  cart,     \* bahceden_cart: a sequence of [id, qty]
  page,     \* each tab's cart page
  quotes,   \* quote requests under way
  merges,   \* merge-cart requests under way
  orders,   \* the server's orders, in order
  added, removed, boxed,  \* units put in, taken out, moved to the box, by item
  unsure    \* has a page given up on an order or a merge without its outcome?

vars == <<cart, page, quotes, merges, orders, added, removed, boxed, unsure>>
ledger == <<added, removed, boxed, unsure>>

\* Units of item i among these lines.
Units(lines, i) ==
  LET at == {k \in DOMAIN lines : lines[k].id = i}
  IN  IF at = {} THEN 0 ELSE lines[CHOOSE k \in at : TRUE].qty

\* All units of these counters, as far as the bound.
Total(f) == Cardinality({u \in Items \X (1..MaxUnits) : u[2] <= f[u[1]]})

\* setQty: a line goes with its last unit.
WithQty(lines, k, q) ==
  IF q = 0 THEN RemoveAt(lines, k) ELSE [lines EXCEPT ![k].qty = q]

\* add: one more unit of the line, or a line of its own.
WithOneMore(lines, i) ==
  IF \E k \in DOMAIN lines : lines[k].id = i
  THEN [k \in DOMAIN lines |->
          IF lines[k].id = i THEN [lines[k] EXCEPT !.qty = @ + 1] ELSE lines[k]]
  ELSE Append(lines, [id |-> i, qty |-> 1])

Key(pg, lines) == <<lines, pg.coupon>>

\* render(true): what is stored is drawn; an empty cart forgets the total.
\* The button "add to my box" is a new one after every drawing.
Drawn(pg, lines) ==
  [pg EXCEPT !.rows = lines, !.button = TRUE,
             !.quote = IF lines = <<>> THEN Nothing ELSE @]

\* render(): and a total is asked for when what it depends on has changed.
DrawnAndPriced(pg, lines) ==
  [Drawn(pg, lines) EXCEPT
     !.timer = @ \/ (lines # <<>> /\ Key(pg, lines) # pg.lastKey)]

\* requestQuote's run(): numbered, and remembered as asked.
Asked(pg, lines) ==
  IF lines = <<>>
  THEN Drawn([pg EXCEPT !.timer = FALSE, !.lastKey = Key(pg, lines),
                        !.err = FALSE], lines)
  ELSE [pg EXCEPT !.timer = FALSE, !.lastKey = Key(pg, lines), !.seq = @ + 1]

Blank == [at |-> FALSE, rows |-> <<>>, coupon |-> Nothing, quote |-> Nothing,
          err |-> FALSE, seq |-> 0, lastKey |-> Nothing, timer |-> FALSE,
          button |-> TRUE, st |-> "idle", order |-> 0, polls |-> 0]

\* A cart page as it is after loading.
Loaded == DrawnAndPriced([Blank EXCEPT !.at = TRUE], cart)

Init ==
  /\ cart = <<>> /\ page = [t \in Tabs |-> Blank]
  /\ quotes = {} /\ merges = {} /\ orders = <<>>
  /\ added = [i \in Items |-> 0] /\ removed = added /\ boxed = added
  /\ unsure = FALSE

Merging(t) == \E m \in merges : m.tab = t
Busy(t) == page[t].st \in {"saving", "posting", "awaiting"} \/ Merging(t)

\* A patient shopper lets a request that moves goods end first.
Free == Hasty \/ \A t \in Tabs : ~Busy(t)

-----------------------------------------------------------------------------
(* The cart and the page that shows it *)

\* A product page (another tab, or this one before it came to the cart).
AddToCart(i) ==
  /\ Free /\ \E t \in Tabs : ~page[t].at
  /\ Total(added) < MaxUnits
  /\ cart' = WithOneMore(cart, i)
  /\ added' = [added EXCEPT ![i] = @ + 1]
  /\ UNCHANGED <<page, quotes, merges, orders, removed, boxed, unsure>>

OpenCart(t) ==
  /\ ~page[t].at
  /\ page' = [page EXCEPT ![t] = Loaded]
  /\ UNCHANGED <<cart, quotes, merges, orders, ledger>>

\* The page's callbacks go with it; what it has sent arrives all the same.
LeaveCart(t) ==
  /\ page[t].at /\ Free
  /\ page' = [page EXCEPT ![t] = Blank]
  /\ quotes' = {q \in quotes : q.tab # t}
  /\ merges' = {IF m.tab = t THEN [m EXCEPT !.tab = Nothing] ELSE m : m \in merges}
  /\ UNCHANGED <<cart, orders, ledger>>

\* "+" or "-" on the k-th row drawn: the k-th line stored now.  (No such line
\* any more: the handler throws and nothing changes.)
Click(t, k, d) ==
  /\ page[t].at /\ page[t].st # "paid" /\ Free
  /\ k \in DOMAIN page[t].rows /\ k \in DOMAIN cart
  /\ LET i == cart[k].id IN
     /\ cart' = WithQty(cart, k, cart[k].qty + d)
     /\ d = 1 => Total(added) < MaxUnits
     /\ added' = [added EXCEPT ![i] = @ + (IF d = 1 THEN 1 ELSE 0)]
     /\ removed' = [removed EXCEPT ![i] = @ + (IF d = 1 THEN 0 ELSE 1)]
  /\ page' = [page EXCEPT ![t] = DrawnAndPriced(@, cart')]
  /\ UNCHANGED <<quotes, merges, orders, boxed, unsure>>

-----------------------------------------------------------------------------
(* The total *)

\* run() of requestQuote for a page that has just been given pg's state.
Ask(t, pg) ==
  /\ pg.seq < MaxQuotes
  /\ page' = [page EXCEPT ![t] = Asked(pg, cart)]
  /\ quotes' = IF cart = <<>> THEN quotes
               ELSE quotes \cup {[tab |-> t, seq |-> pg.seq + 1, key |-> Key(pg, cart)]}

\* 250 ms after the last change.
AskForTotal(t) ==
  /\ page[t].timer /\ Ask(t, page[t])
  /\ UNCHANGED <<cart, merges, orders, ledger>>

\* applyCoupon: "apply" when there is none, "remove" when there is.
ApplyCoupon(t, c) ==
  /\ page[t].at /\ page[t].rows # <<>> /\ page[t].st # "paid" /\ Free
  /\ (c = Nothing) # (page[t].coupon = Nothing)
  /\ Ask(t, DrawnAndPriced([page[t] EXCEPT !.coupon = c], cart))
  /\ UNCHANGED <<cart, merges, orders, ledger>>

\* The note "cannot be computed" has a link that asks again.
AskAgain(t) ==
  /\ page[t].at /\ page[t].err /\ page[t].quote = Nothing
  /\ page[t].rows # <<>> /\ page[t].st # "paid"
  /\ Ask(t, page[t])
  /\ UNCHANGED <<cart, merges, orders, ledger>>

\* Mutant: the answer is taken whichever question it was for.
TakeAnyTotal(q) ==
  /\ quotes' = quotes \ {q}
  /\ page' = [page EXCEPT ![q.tab] =
        DrawnAndPriced([@ EXCEPT !.quote = q.key, !.err = FALSE], cart)]
  /\ UNCHANGED <<cart, merges, orders, ledger>>

\* Answers come in any order; only the one to the last question counts.
TotalArrives(q) ==
  /\ quotes' = quotes \ {q}
  /\ page' = [page EXCEPT ![q.tab] =
        IF q.seq # @.seq THEN @
        ELSE DrawnAndPriced([@ EXCEPT !.quote = q.key, !.err = FALSE], cart)]
  /\ UNCHANGED <<cart, merges, orders, ledger>>

TotalFails(q) ==
  /\ "quote" \in Lossy
  /\ quotes' = quotes \ {q}
  /\ page' = [page EXCEPT ![q.tab] =
        IF q.seq # @.seq THEN @ ELSE Drawn([@ EXCEPT !.err = TRUE], cart)]
  /\ UNCHANGED <<cart, merges, orders, ledger>>

-----------------------------------------------------------------------------
(* Into this week's box *)

AddToBox(t) ==
  /\ Member /\ page[t].at /\ page[t].st # "paid" /\ Free
  /\ page[t].rows # <<>> /\ page[t].button /\ cart # <<>>
  /\ Cardinality(merges) < MaxOrders /\ Total(boxed) < MaxUnits
  /\ page' = [page EXCEPT ![t].button = FALSE]
  /\ merges' = merges \cup {[tab |-> t, lines |-> cart, st |-> "sent"]}
  /\ UNCHANGED <<cart, quotes, orders, ledger>>

\* POST /me/subscription/cycles/current/merge-cart at the server.
BoxTakes(m) ==
  /\ m.st = "sent"
  /\ boxed' = [i \in Items |-> boxed[i] + Units(m.lines, i)]
  /\ merges' = (merges \ {m}) \cup {[m EXCEPT !.st = "done"]}
  /\ UNCHANGED <<cart, page, quotes, orders, added, removed, unsure>>

\* mergeCartIntoBox's reply: the cart is emptied, and drawn.
BoxAnswers(m) ==
  /\ m.st = "done" /\ m.tab # Nothing
  /\ merges' = merges \ {m}
  /\ cart' = <<>>
  /\ page' = [page EXCEPT ![m.tab] = DrawnAndPriced(@, <<>>)]
  /\ UNCHANGED <<quotes, orders, ledger>>

\* Refused, or the reply is lost (the box may have taken the lines).
BoxFails(m) ==
  /\ m.tab # Nothing /\ (m.st = "done" => "merge" \in Lossy)
  /\ merges' = merges \ {m}
  /\ page' = [page EXCEPT ![m.tab] = DrawnAndPriced(@, cart)]
  /\ unsure' = (unsure \/ m.st = "done")
  /\ UNCHANGED <<cart, quotes, orders, added, removed, boxed>>

\* Nobody waits for this one's reply.
BoxOrphan(m) ==
  /\ m.st = "done" /\ m.tab = Nothing
  /\ merges' = merges \ {m}
  /\ UNCHANGED <<cart, page, quotes, orders, ledger>>

-----------------------------------------------------------------------------
(* Ordering and paying *)

\* checkoutComplete's click: not while one is under way, and not when the
\* total is known to be missing.  The address is saved first.
Submit(t) ==
  /\ page[t].at /\ page[t].st = "idle" /\ Free
  /\ cart # <<>> /\ ~(page[t].err /\ page[t].quote = Nothing)
  /\ page' = [page EXCEPT ![t].st = "saving"]
  /\ UNCHANGED <<cart, quotes, merges, orders, ledger>>

\* POST /checkout with the cart as it is now; an empty one is refused.
Post(t) ==
  /\ page[t].st = "saving" /\ Len(orders) < MaxOrders
  /\ IF cart = <<>>
     THEN orders' = orders /\ page' = [page EXCEPT ![t].st = "idle"]
     ELSE /\ orders' = Append(orders, [lines |-> cart, bank |-> "asks", st |-> "PENDING", back |-> FALSE])
          /\ page' = [page EXCEPT ![t].st = "posting", ![t].order = Len(orders) + 1]
  /\ UNCHANGED <<cart, quotes, merges, ledger>>

\* onPaid: the cart is emptied, the thanks hide everything else.
Thanked(t) ==
  /\ cart' = <<>>
  /\ page' = [page EXCEPT ![t].st = "paid"] /\ unsure' = unsure

\* onPaymentFailed, stopAwaiting: the form is back.
FormBack(t) ==
  /\ cart' = cart
  /\ unsure' = (unsure \/ orders[page[t].order].st # "FAILED")
  /\ page' = [page EXCEPT ![t].st = "idle", ![t].order = 0, ![t].polls = 0]

StatusOf(t) == orders[page[t].order].st

\* Mutant: the cart is emptied when the order is placed, not when it is paid.
OrderEmptiesCart(t) ==
  /\ page[t].st = "posting"
  /\ \/ StatusOf(t) = "PAID" /\ Thanked(t)
     \/ StatusOf(t) = "FAILED" /\ FormBack(t)
     \/ /\ StatusOf(t) = "PENDING" /\ cart' = <<>> /\ unsure' = unsure
        /\ page' = [page EXCEPT ![t].st = "awaiting", ![t].polls = 0]
     \/ "order" \in Lossy /\ FormBack(t)
  /\ UNCHANGED <<quotes, merges, orders, added, removed, boxed>>

\* handleCheckoutResponse.
OrderAnswered(t) ==
  /\ page[t].st = "posting"
  /\ \/ StatusOf(t) = "PAID" /\ Thanked(t)
     \/ StatusOf(t) = "FAILED" /\ FormBack(t)
     \/ /\ StatusOf(t) = "PENDING" /\ cart' = cart /\ unsure' = unsure
        /\ page' = [page EXCEPT ![t].st = "awaiting", ![t].polls = 0]
     \/ "order" \in Lossy /\ FormBack(t)
  /\ UNCHANGED <<quotes, merges, orders, added, removed, boxed>>

\* The shopper pays in the frame (or the saved card is charged at once) ...
BankDecides(o, answer) ==
  /\ orders[o].bank = "asks"
  /\ orders' = [orders EXCEPT ![o].bank = answer]
  /\ UNCHANGED <<cart, page, quotes, merges, ledger>>

\* ... and the payment callback settles the order.
Settle(o) ==
  /\ orders[o].st = "PENDING" /\ orders[o].bank # "asks"
  /\ orders' = [orders EXCEPT ![o].st = IF orders[o].bank = "yes" THEN "PAID" ELSE "FAILED"]
  /\ UNCHANGED <<cart, page, quotes, merges, ledger>>

\* Mutant: no time limit.
PollForever(t) ==
  /\ page[t].st = "awaiting"
  /\ \/ StatusOf(t) = "PAID" /\ Thanked(t)
     \/ StatusOf(t) = "FAILED" /\ FormBack(t)
     \/ StatusOf(t) = "PENDING" /\ UNCHANGED <<cart, page, unsure>>
  /\ UNCHANGED <<quotes, merges, orders, added, removed, boxed>>

\* pollOrderStatus: every 2 s, for 120 s (MaxPolls questions here).
Poll(t) ==
  /\ page[t].st = "awaiting"
  /\ \/ StatusOf(t) = "PAID" /\ Thanked(t)
     \/ StatusOf(t) = "FAILED" /\ FormBack(t)
     \/ /\ StatusOf(t) = "PENDING" \/ "poll" \in Lossy
        /\ \/ /\ page[t].polls < MaxPolls /\ cart' = cart /\ unsure' = unsure
              /\ page' = [page EXCEPT ![t].polls = @ + 1]
           \/ page[t].polls = MaxPolls /\ SlowBank /\ FormBack(t)
  /\ UNCHANGED <<quotes, merges, orders, added, removed, boxed>>

\* The bank sends the shopper back to ?siparis=<no>&odeme=ok|hata: a new page,
\* which waits for the callback, or says that it failed.
ReturnFromBank(t) ==
  /\ page[t].st = "awaiting" /\ orders[page[t].order].bank # "asks"
  /\ ~orders[page[t].order].back
  /\ orders' = [orders EXCEPT ![page[t].order].back = TRUE]
  /\ page' = [page EXCEPT ![t] =
        IF orders[page[t].order].bank = "no" THEN Loaded
        ELSE [Loaded EXCEPT !.st = "awaiting", !.order = page[t].order]]
  /\ quotes' = {q \in quotes : q.tab # t}
  /\ merges' = {IF m.tab = t THEN [m EXCEPT !.tab = Nothing] ELSE m : m \in merges}
  /\ UNCHANGED <<cart, ledger>>

-----------------------------------------------------------------------------
TabStep(t) ==
  \/ OpenCart(t) \/ LeaveCart(t)
  \/ \E k \in 1..Cardinality(Items), d \in {-1, 1} : Click(t, k, d)
  \/ AskForTotal(t) \/ AskAgain(t)
  \/ \E c \in Codes \cup {Nothing} : ApplyCoupon(t, c)
  \/ AddToBox(t)
  \/ Submit(t) \/ Post(t) \/ OrderAnswered(t) \/ Poll(t) \/ ReturnFromBank(t)

Next ==
  \/ \E i \in Items : AddToCart(i)
  \/ \E t \in Tabs : TabStep(t)
  \/ \E q \in quotes : TotalArrives(q) \/ TotalFails(q)
  \/ \E m \in merges : BoxTakes(m) \/ BoxAnswers(m) \/ BoxFails(m) \/ BoxOrphan(m)
  \/ \E o \in DOMAIN orders :
        Settle(o) \/ \E answer \in {"yes", "no"} : BankDecides(o, answer)

Spec == Init /\ [][Next]_vars

\* The page's timer asks again until it has an answer or gives up; nobody has
\* to click, and the bank owes no decision.
Fairness ==
  \A t \in Tabs : WF_vars(Poll(t))
FairSpec == Spec /\ Fairness

-----------------------------------------------------------------------------
Bought(i) ==
  Cardinality({u \in (DOMAIN orders) \X (1..MaxUnits) :
                 orders[u[1]].st = "PAID" /\ u[2] <= Units(orders[u[1]].lines, i)})

TypeOK ==
  /\ cart \in Lines
  /\ page \in [Tabs -> [
        at : BOOLEAN, rows : Lines, coupon : Codes \cup {Nothing},
        quote : Keys \cup {Nothing}, err : BOOLEAN,
        seq : 0..MaxQuotes, lastKey : Keys \cup {Nothing},
        timer : BOOLEAN, button : BOOLEAN,
        st : {"idle", "saving", "posting", "awaiting", "paid"},
        order : 0..MaxOrders, polls : 0..MaxPolls]]
  /\ \A q \in quotes : q.tab \in Tabs /\ q.seq \in 1..MaxQuotes
  /\ \A m \in merges : m.tab \in Tabs \cup {Nothing} /\ m.lines \in Lines
  /\ \A o \in DOMAIN orders : orders[o].lines \in Lines \ {<<>>}
  /\ {added, removed, boxed} \subseteq [Items -> Nat] /\ unsure \in BOOLEAN

\* When the page has nothing more to ask and its last question did not fail,
\* the total it shows is the total of what it shows (views/sepet.hbs
\* requestQuote) - whichever answer came first.
TotalIsCurrent ==
  \A t \in Tabs :
    LET pg == page[t] IN
    (/\ pg.at /\ pg.st # "paid" /\ pg.rows # <<>> /\ pg.rows = cart
     /\ ~pg.timer /\ ~\E q \in quotes : q.tab = t /\ q.seq = pg.seq)
    => pg.quote = Key(pg, pg.rows) \/ pg.err

\* As long as no page has given up on an order or a merge without its
\* outcome, no unit is delivered twice, or delivered and also taken out: what
\* was bought, moved to the box and removed was put in the cart that often
\* ("order now, or move it to the box").
NothingTwice ==
  ~unsure => \A i \in Items : Bought(i) + boxed[i] + removed[i] <= added[i]

\* No unit goes missing: what was put in the cart is there, or was removed,
\* bought or moved to the box by the shopper's own doing.
NothingVanishes ==
  \A i \in Items : added[i] <= Units(cart, i) + removed[i] + Bought(i) + boxed[i]

\* The shopper is not left waiting: the page stops asking for the payment,
\* with an answer or without one, also when every answer is lost
\* (pollOrderStatus, stopAwaiting).
WaitEnds ==
  \A t \in Tabs : page[t].st = "awaiting" ~> page[t].st # "awaiting"

\* Every unit is accounted for: bought or boxed once, or still in the cart.
UnitsAccounted == TypeOK /\ NothingTwice /\ NothingVanishes
=============================================================================
