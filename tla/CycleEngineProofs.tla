-------------------------- MODULE CycleEngineProofs --------------------------
(***************************************************************************)
(* What holds of the collection engine for any set of cycles, any dunning  *)
(* calendar, lost replies and any number of crashes.  With any admins:     *)
(*   - the columns keep their types (TypeCorrect);                         *)
(*   - one attempt number moves money at most once (ChargedOnce);          *)
(*   - a closed order stays closed (ClosedOrderFinal).                     *)
(* While no admin request interferes, the safety properties of what jobs,  *)
(* callbacks and customers do, and that the engine implements BoxPromise.  *)
(* (Admin requests write on stale reads and break these properties.)       *)
(***************************************************************************)
EXTENDS CycleEngineRefinement, FiniteSetTheorems, TLAPS

\* What the local state of a handler relies on: a running handler works on a cycle, and an
\* attempt it is about to record or charge is a stored-card attempt within the bounds.
Sound(h) ==
  /\ h \in Handler
  /\ h.pc # "idle" => h.c \in Cycles
  /\ h.pc = "probe" => h.n >= 1
  /\ h.pc \in {"record", "provider"} => h.kind = "cyc" /\ h.n \in 1..MaxAttempt

HandlersOK == proc \in [Procs -> Handler] /\ \A p \in Procs : Sound(proc[p])

\* TypeOK without the handlers, in groups that the same actions disturb.
Row == [status : CycleStatus, skip : {None, "UNPAID", "OPS"}, retry : Nat, retryAt : BOOLEAN]
SubOK == sub \in SubStatus /\ failed \in Nat
EnvOK == card \in BOOLEAN /\ late \in [Cycles -> BOOLEAN] /\ crashes \in Nat
CycleOK == cycle \in [Cycles -> Row] /\ slots \in [Cycles -> Int]
OrderOK == /\ order \in [Cycles -> OrderStatus \cup {None}]
           /\ delta \in [Cycles -> OrderStatus \cup {None}]
PayOK == /\ pay \in [PayIds -> PaymentStatus \cup {None}]
         /\ captures \in [PayIds -> Nat] 
         /\ notified \subseteq Cycles \X {"cyc", "lnk"} \X Nat

TypeInv == SubOK /\ EnvOK /\ CycleOK /\ OrderOK /\ PayOK /\ HandlersOK

\* Money moves only for recorded attempts; an attempt at the provider belongs to one handler
\* and has not been charged.
MoneyInv ==
  /\ \A id \in PayIds : captures[id] <= 1
  /\ \A id \in PayIds : pay[id] = None => captures[id] = 0
  /\ \A p \in Procs : proc[p].pc = "provider" =>
                        pay[PayId(p)] # None /\ captures[PayId(p)] = 0
  /\ \A p, q \in Procs : (p # q /\ proc[p].pc = "provider" /\ proc[q].pc = "provider") =>
                           PayId(p) # PayId(q)
-------------------------------------------------------------------------------
(* Type correctness *)

\* The number adminCharge counts to is a natural number.
LEMMA PaymentsFinite ==
  ASSUME NEW c \in Cycles PROVE Cardinality(PaymentsOf(c)) \in Nat
<1>. DEFINE T == {"cyc", "lnk"} \X (1..MaxAttempt)
            f == [id \in PaymentsOf(c) |-> <<id[2], id[3]>>]
<1>1. IsFiniteSet(T)
  <2>1. IsFiniteSet({"cyc"} \cup {"lnk"}) BY FS_Singleton, FS_Union
  <2>2. IsFiniteSet(1..MaxAttempt) BY BoundsAssumption, FS_Interval
  <2>3. {"cyc", "lnk"} = {"cyc"} \cup {"lnk"} OBVIOUS
  <2>. QED BY <2>1, <2>2, <2>3, FS_Product
<1>2. f \in Injection(PaymentsOf(c), T)
  BY DEF PaymentsOf, PayIds, Injection, IsInjective
<1>3. IsFiniteSet(PaymentsOf(c)) BY <1>1, <1>2, FS_Injection
<1>. QED BY <1>3, FS_CardinalityType

\* The groups together are the type invariant of the model.
LEMMA TypeInvImpliesTypeOK == TypeInv => TypeOK
BY DEF TypeInv, TypeOK, SubOK, EnvOK, CycleOK, OrderOK, PayOK, HandlersOK, Row

\* A finished handler is sound.
LEMMA IdleSound == Sound(Idle)
BY DEF Sound, Idle, Handler, PCs, Paths, None

\* Init: active subscription, scheduled boxes, nothing recorded.
LEMMA TypeInit == Init => TypeInv
<1>. SUFFICES ASSUME Init PROVE TypeInv OBVIOUS
<1>1. SubOK BY DEF Init, SubOK, SubStatus
<1>2. EnvOK BY DEF Init, EnvOK
<1>3. CycleOK BY DEF Init, CycleOK, Row, CycleStatus, None
<1>4. OrderOK BY DEF Init, OrderOK, OrderStatus, None
<1>5. PayOK BY DEF Init, PayOK
<1>6. HandlersOK BY IdleSound DEF Init, HandlersOK, Sound
<1>. QED BY <1>1, <1>2, <1>3, <1>4, <1>5, <1>6 DEF TypeInv

\* One handler moves, to a sound local state.
LEMMA SetHandler ==
  ASSUME HandlersOK, NEW p \in Procs, NEW h, Sound(h), proc' = [proc EXCEPT ![p] = h]
  PROVE  HandlersOK'
<1>1. proc' \in [Procs -> Handler] BY DEF HandlersOK, Sound
<1>2. \A q \in Procs : Sound(proc'[q]) BY DEF HandlersOK
<1>. QED BY <1>1, <1>2 DEF HandlersOK, Sound

\* A handler that ends.
LEMMA FinishTyped == ASSUME HandlersOK, NEW p \in Procs, Finish(p) PROVE HandlersOK'
BY IdleSound, SetHandler DEF Finish

\* A handler that goes on with the same cycle and attempt.
LEMMA GotoTyped ==
  ASSUME HandlersOK, NEW p \in Procs, NEW pc \in PCs, proc[p].pc # "idle",
         pc \notin {"probe", "record"}, pc = "provider" => proc[p].pc = "record", Goto(p, pc)
  PROVE  HandlersOK'
<1>1. Sound([proc[p] EXCEPT !.pc = pc]) BY DEF HandlersOK, Sound, Handler
<1>. QED BY <1>1, SetHandler DEF Goto

\* What the handlers write into a row of the cycle table, an order and the payments.
LEMMA RowEdits ==
  ASSUME NEW r \in Row, NEW s \in CycleStatus, NEW b \in BOOLEAN,
         NEW k \in {None, "UNPAID", "OPS"}
  PROVE  /\ [r EXCEPT !.status = s] \in Row
         /\ [r EXCEPT !.retryAt = b] \in Row
         /\ [r EXCEPT !.status = s, !.retryAt = b] \in Row
         /\ [r EXCEPT !.status = s, !.skip = k] \in Row
         /\ [r EXCEPT !.status = s, !.skip = k, !.retryAt = b] \in Row
         /\ [r EXCEPT !.retry = @ + 1, !.retryAt = b] \in Row
<1>1. /\ [r EXCEPT !.status = s] \in Row
      /\ [r EXCEPT !.retryAt = b] \in Row
      /\ [r EXCEPT !.status = s, !.retryAt = b] \in Row
  BY DEF Row
<1>2. /\ [r EXCEPT !.status = s, !.skip = k] \in Row
      /\ [r EXCEPT !.status = s, !.skip = k, !.retryAt = b] \in Row
  BY DEF Row
<1>3. [r EXCEPT !.retry = @ + 1, !.retryAt = b] \in Row
  <2>1. r.retry + 1 \in Nat BY DEF Row
  <2>2. \A n \in Nat : [r EXCEPT !.retry = n, !.retryAt = b] \in Row BY DEF Row
  <2>. QED BY <2>1, <2>2
<1>. QED BY <1>1, <1>2, <1>3

\* What the handlers make of an order status.
LEMMA OrderEdits ==
  ASSUME NEW s \in OrderStatus \cup {None}
  PROVE  /\ Paid(s) \in OrderStatus \cup {None}
         /\ AfterFailure(s) \in OrderStatus \cup {None}
         /\ Closed(s) \in OrderStatus \cup {None}
         /\ CancelOrder(s) \in OrderStatus \cup {None}
BY DEF Paid, AfterFailure, Closed, CancelOrder, OrderStatus

\* expirePaymentLink writes EXPIRED and creates or removes no row.
LEMMA LinksTyped ==
  ASSUME PayOK, NEW c
  PROVE  /\ ExpireLinks(c) \in [PayIds -> PaymentStatus \cup {None}]
         /\ \A id \in PayIds : ExpireLinks(c)[id] = None <=> pay[id] = None
BY DEF PayOK, ExpireLinks, PaymentStatus, None

\* payOrder.
LEMMA PayOrderTyped == ASSUME OrderOK, NEW c \in Cycles, PayOrder(c) PROVE OrderOK'
<1>1. Paid(order[c]) \in OrderStatus \cup {None} /\ Paid(delta[c]) \in OrderStatus \cup {None}
  BY OrderEdits DEF OrderOK
<1>. QED BY <1>1 DEF PayOrder, OrderOK

\* markUnpaidSkipped.
LEMMA MarkUnpaidSkippedTyped ==
  ASSUME TypeInv, NEW c \in Cycles, NEW s, NEW n \in Nat, MarkUnpaidSkipped(c, s, n)
  PROVE  /\ SubOK' /\ CycleOK'
         /\ order' \in [Cycles -> OrderStatus \cup {None}]
         /\ pay' \in [PayIds -> PaymentStatus \cup {None}]
<1>. USE DEF TypeInv, MarkUnpaidSkipped
<1>1. SubOK' BY DEF SubOK, SubStatus
<1>2. CycleOK'
  <2>1. [cycle[c] EXCEPT !.status = "SKIPPED", !.skip = "UNPAID", !.retryAt = FALSE] \in Row
    BY RowEdits DEF CycleOK, CycleStatus
  <2>. QED BY <2>1 DEF CycleOK
<1>3. Closed(order[c]) \in OrderStatus \cup {None} BY OrderEdits DEF OrderOK
<1>. QED BY <1>1, <1>2, <1>3, LinksTyped DEF OrderOK

\* markFailed of a cycle with its own order.
LEMMA FailCycleTyped ==
  ASSUME TypeInv, NEW c \in Cycles, NEW links \in [PayIds -> PaymentStatus \cup {None}],
         FailCycle(c, links)
  PROVE  /\ SubOK' /\ CycleOK'
         /\ order' \in [Cycles -> OrderStatus \cup {None}]
         /\ pay' \in [PayIds -> PaymentStatus \cup {None}]
<1>1. CASE MarkUnpaidSkipped(c, sub, failed)
  BY <1>1, MarkUnpaidSkippedTyped DEF TypeInv, SubOK
<1>2. CASE ~MarkUnpaidSkipped(c, sub, failed)
  <2>1. [cycle[c] EXCEPT !.status = "UNPAID", !.retryAt = TRUE] \in Row
    BY RowEdits DEF TypeInv, CycleOK, CycleStatus
  <2>2. AfterFailure(order[c]) \in OrderStatus \cup {None} BY OrderEdits DEF TypeInv, OrderOK
  <2>. QED BY <1>2, <2>1, <2>2 DEF FailCycle, TypeInv, SubOK, subVars, CycleOK, OrderOK
<1>. QED BY <1>1, <1>2

\* markFailed of the delta order of cycle 1.
LEMMA FailDeltaTyped ==
  ASSUME TypeInv, NEW c \in Cycles, FailDelta(c) PROVE SubOK' /\ CycleOK' /\ OrderOK'
<1>1. [cycle[c] EXCEPT !.status = "CHARGED", !.retryAt = FALSE] \in Row
  BY RowEdits DEF TypeInv, CycleOK, CycleStatus
<1>. QED BY <1>1 DEF FailDelta, TypeInv, SubOK, subVars, CycleOK, OrderOK, OrderStatus

\* A step that writes no column.
LEMMA Untouched == ASSUME TypeInv, UNCHANGED dbVars, HandlersOK' PROVE TypeInv'
BY DEF TypeInv, dbVars, subVars, orderVars, pspVars, SubOK, EnvOK, CycleOK, OrderOK, PayOK
-------------------------------------------------------------------------------
\* A running handler, and the local states it may take next.
LEMMA Running ==
  ASSUME HandlersOK, NEW p \in Procs, proc[p].pc # "idle"
  PROVE  proc[p] \in Handler /\ proc[p].c \in Cycles
BY DEF HandlersOK, Sound

Parked == PCs \ {"probe", "record", "provider"}

\* One field of a handler at a time ...
LEMMA SetPc ==
  ASSUME NEW h \in Handler, NEW pc \in PCs
  PROVE  /\ [h EXCEPT !.pc = pc] \in Handler
         /\ [h EXCEPT !.pc = pc].pc = pc
         /\ [h EXCEPT !.pc = pc].c = h.c
         /\ [h EXCEPT !.pc = pc].n = h.n
         /\ [h EXCEPT !.pc = pc].kind = h.kind
BY DEF Handler

\* ... the attempt ...
LEMMA SetN ==
  ASSUME NEW h \in Handler, NEW n \in Nat
  PROVE  /\ [h EXCEPT !.n = n] \in Handler
         /\ [h EXCEPT !.n = n].n = n
         /\ [h EXCEPT !.n = n].pc = h.pc
         /\ [h EXCEPT !.n = n].c = h.c
BY DEF Handler

\* ... its kind ...
LEMMA SetKind ==
  ASSUME NEW h \in Handler
  PROVE  /\ [h EXCEPT !.kind = "cyc"] \in Handler
         /\ [h EXCEPT !.kind = "cyc"].kind = "cyc"
         /\ [h EXCEPT !.kind = "cyc"].pc = h.pc
         /\ [h EXCEPT !.kind = "cyc"].c = h.c
         /\ [h EXCEPT !.kind = "cyc"].n = h.n
BY DEF Handler

\* ... its outcome ...
LEMMA SetOk ==
  ASSUME NEW h \in Handler, NEW ok \in BOOLEAN
  PROVE  /\ [h EXCEPT !.ok = ok] \in Handler
         /\ [h EXCEPT !.ok = ok].ok = ok
         /\ [h EXCEPT !.ok = ok].pc = h.pc
         /\ [h EXCEPT !.ok = ok].c = h.c
         /\ [h EXCEPT !.ok = ok].n = h.n
         /\ [h EXCEPT !.ok = ok].kind = h.kind
BY DEF Handler

\* ... the status read ...
LEMMA SetSub ==
  ASSUME NEW h \in Handler, NEW s \in SubStatus
  PROVE  /\ [h EXCEPT !.sub = s] \in Handler
         /\ [h EXCEPT !.sub = s].sub = s
         /\ [h EXCEPT !.sub = s].pc = h.pc
         /\ [h EXCEPT !.sub = s].c = h.c
BY DEF Handler

\* ... the path ...
LEMMA SetPath ==
  ASSUME NEW h \in Handler, NEW q \in Paths
  PROVE  /\ [h EXCEPT !.path = q] \in Handler
         /\ [h EXCEPT !.path = q].pc = h.pc
         /\ [h EXCEPT !.path = q].c = h.c
BY DEF Handler

\* ... the counter read ...
LEMMA SetFailed ==
  ASSUME NEW h \in Handler, NEW n \in Nat
  PROVE  /\ [h EXCEPT !.failed = n] \in Handler
         /\ [h EXCEPT !.failed = n].failed = n
         /\ [h EXCEPT !.failed = n].pc = h.pc
         /\ [h EXCEPT !.failed = n].c = h.c
BY DEF Handler

\* ... and the combinations the handlers write.
LEMMA HandlerEdits ==
  ASSUME NEW h \in Handler, h.c \in Cycles
  PROVE  /\ \A pc \in Parked, ok \in BOOLEAN : Sound([h EXCEPT !.pc = pc, !.ok = ok])
         /\ \A pc \in Parked, s \in SubStatus : Sound([h EXCEPT !.pc = pc, !.sub = s])
         /\ \A pc \in Parked, s \in SubStatus, n \in Nat :
              Sound([h EXCEPT !.pc = pc, !.sub = s, !.failed = n])
         /\ \A n \in 1..MaxAttempt, pc \in Parked \cup {"record"}, ok \in BOOLEAN :
              Sound([h EXCEPT !.n = n, !.kind = "cyc", !.pc = pc, !.ok = ok])
         /\ Sound([h EXCEPT !.pc = "probe", !.n = 1])
         /\ \A pc \in Parked, q \in Paths, s \in SubStatus :
              Sound([h EXCEPT !.pc = pc, !.path = q, !.sub = s])
<1>1. ASSUME NEW pc \in Parked
      PROVE  /\ \A ok \in BOOLEAN : Sound([h EXCEPT !.pc = pc, !.ok = ok])
             /\ \A s \in SubStatus : Sound([h EXCEPT !.pc = pc, !.sub = s])
             /\ \A s \in SubStatus, n \in Nat :
                  Sound([h EXCEPT !.pc = pc, !.sub = s, !.failed = n])
  <2>. DEFINE g == [h EXCEPT !.pc = pc]
  <2>1. g \in Handler /\ g.pc = pc /\ g.c = h.c BY SetPc DEF Parked
  <2>. HIDE DEF g
  <2>2. ASSUME NEW ok \in BOOLEAN PROVE Sound([g EXCEPT !.ok = ok])
    <3>. DEFINE f == [g EXCEPT !.ok = ok]
    <3>1. f \in Handler /\ f.pc = pc /\ f.c = h.c BY <2>1, SetOk
    <3>. HIDE DEF f
    <3>2. Sound(f) BY <3>1 DEF Sound, Parked
    <3>. QED BY <3>2 DEF f
  <2>3. ASSUME NEW s \in SubStatus PROVE /\ Sound([g EXCEPT !.sub = s])
                                         /\ \A n \in Nat : Sound([g EXCEPT !.sub = s, !.failed = n])
    <3>. DEFINE f == [g EXCEPT !.sub = s]
    <3>1. f \in Handler /\ f.pc = pc /\ f.c = h.c BY <2>1, SetSub
    <3>. HIDE DEF f
    <3>2. Sound(f) BY <3>1 DEF Sound, Parked
    <3>3. ASSUME NEW n \in Nat PROVE Sound([f EXCEPT !.failed = n])
      <4>. DEFINE e == [f EXCEPT !.failed = n]
      <4>1. e \in Handler /\ e.pc = pc /\ e.c = h.c BY <3>1, SetFailed
      <4>. HIDE DEF e
      <4>2. Sound(e) BY <4>1 DEF Sound, Parked
      <4>. QED BY <4>2 DEF e
    <3>. QED BY <3>2, <3>3, Zenon DEF f
  <2>. QED BY <2>2, <2>3, Zenon DEF g
<1>2. ASSUME NEW n \in 1..MaxAttempt, NEW pc \in Parked \cup {"record"}, NEW ok \in BOOLEAN
      PROVE  Sound([h EXCEPT !.n = n, !.kind = "cyc", !.pc = pc, !.ok = ok])
  <2>. DEFINE a == [h EXCEPT !.n = n]
              b == [a EXCEPT !.kind = "cyc"]
              d == [b EXCEPT !.pc = pc]
              e == [d EXCEPT !.ok = ok]
  <2>1. n \in Nat /\ pc \in PCs BY BoundsAssumption DEF Parked, PCs
  <2>2. a \in Handler /\ a.c = h.c /\ a.n = n BY <2>1, SetN
  <2>. HIDE DEF a
  <2>3. b \in Handler /\ b.c = h.c /\ b.n = n /\ b.kind = "cyc" BY <2>2, SetKind
  <2>. HIDE DEF b
  <2>4. d \in Handler /\ d.c = h.c /\ d.n = n /\ d.kind = "cyc" /\ d.pc = pc
    BY <2>1, <2>3, SetPc
  <2>. HIDE DEF d
  <2>5. e \in Handler /\ e.c = h.c /\ e.n = n /\ e.kind = "cyc" /\ e.pc = pc
    BY <2>4, SetOk
  <2>. HIDE DEF e
  <2>6. Sound(e) BY <2>5 DEF Sound, Parked
  <2>. QED BY <2>6, Zenon DEF a, b, d, e
<1>3. Sound([h EXCEPT !.pc = "probe", !.n = 1])
  <2>. DEFINE a == [h EXCEPT !.pc = "probe"]
              b == [a EXCEPT !.n = 1]
  <2>. "probe" \in PCs BY DEF PCs
  <2>1. a \in Handler /\ a.c = h.c /\ a.pc = "probe" BY SetPc
  <2>. HIDE DEF a
  <2>2. b \in Handler /\ b.c = h.c /\ b.pc = "probe" /\ b.n = 1 BY <2>1, SetN
  <2>. HIDE DEF b
  <2>3. Sound(b) BY <2>2 DEF Sound
  <2>. QED BY <2>3, Zenon DEF a, b
<1>4. ASSUME NEW pc \in Parked, NEW q \in Paths, NEW s \in SubStatus
      PROVE  Sound([h EXCEPT !.pc = pc, !.path = q, !.sub = s])
  <2>. DEFINE a == [h EXCEPT !.pc = pc]
              b == [a EXCEPT !.path = q]
              d == [b EXCEPT !.sub = s]
  <2>1. a \in Handler /\ a.c = h.c /\ a.pc = pc BY SetPc DEF Parked
  <2>. HIDE DEF a
  <2>2. b \in Handler /\ b.c = h.c /\ b.pc = pc BY <2>1, SetPath
  <2>. HIDE DEF b
  <2>3. d \in Handler /\ d.c = h.c /\ d.pc = pc BY <2>2, SetSub
  <2>. HIDE DEF d
  <2>4. Sound(d) BY <2>3 DEF Sound, Parked
  <2>. QED BY <2>4, Zenon DEF a, b, d
<1>. QED BY <1>1, <1>2, <1>3, <1>4, Zenon
-------------------------------------------------------------------------------
\* cycles:lock-and-charge, up to the charge.
LEMMA LockJobTyped == ASSUME TypeInv, NEW c \in Cycles,
                             LockInactive(c) \/ LockFree(c) \/ LockPhaseA(c) \/ PickStranded(c)
                      PROVE  TypeInv'
<1>. USE DEF TypeInv, LockGuard, dbVars, subVars, orderVars, pspVars, envVars
<1>1. SubOK'
  BY DEF LockInactive, LockFree, LockPhaseA, PickStranded, SubOK, SubStatus
<1>2. EnvOK'
  BY DEF LockInactive, LockFree, LockPhaseA, PickStranded, EnvOK
<1>3. CycleOK'
  <2>1. cycle[c] \in Row BY DEF CycleOK
  <2>2. /\ [cycle[c] EXCEPT !.status = "LOCKED"] \in Row
        /\ [cycle[c] EXCEPT !.status = "CANCELLED"] \in Row
        /\ [cycle[c] EXCEPT !.status = "CHARGED", !.retryAt = FALSE] \in Row
    BY <2>1 DEF Row, CycleStatus
  <2>. QED BY <2>2 DEF LockInactive, LockFree, LockPhaseA, PickStranded, CycleOK, SetStatus
<1>4. OrderOK'
  BY DEF LockInactive, LockFree, LockPhaseA, PickStranded, OrderOK, OrderStatus
<1>5. PayOK'
  BY DEF LockInactive, LockFree, LockPhaseA, PickStranded, PayOK
<1>6. HandlersOK'
  <2>1. CASE LockInactive(c) \/ LockFree(c)
    BY <2>1 DEF LockInactive, LockFree, HandlersOK
  <2>2. CASE LockPhaseA(c) \/ PickStranded(c)
    <3>1. Sound([Idle EXCEPT !.pc = "charge", !.path = "lock", !.c = c])
      BY ZenonT(40), IdleSound DEF Sound, Handler, PCs, Paths
    <3>. QED BY <2>2, <3>1, SetHandler DEF LockPhaseA, PickStranded, Procs
  <2>. QED BY <2>1, <2>2
<1>. QED BY <1>1, <1>2, <1>3, <1>4, <1>5, <1>6

\* chargeLocked.
LEMMA ChargeLockedTyped == ASSUME TypeInv, NEW p \in Procs, ChargeLocked(p) PROVE TypeInv'
<1>. HandlersOK BY DEF TypeInv
<1>. "issue" \in PCs BY DEF PCs
<1>1. proc[p].pc = "charge" BY DEF ChargeLocked
<1>2. CASE Finish(p)
  BY <1>2, FinishTyped, Untouched DEF ChargeLocked
<1>3. CASE Goto(p, "issue")
  BY <1>1, <1>3, GotoTyped, Untouched DEF ChargeLocked
<1>4. CASE proc' = [proc EXCEPT ![p] = [proc[p] EXCEPT !.pc = "probe", !.n = 1]]
  <2>1. Sound([proc[p] EXCEPT !.pc = "probe", !.n = 1]) BY <1>1, Running, HandlerEdits
  <2>2. HandlersOK' BY <1>4, <2>1, SetHandler
  <2>. QED BY <2>2, Untouched DEF ChargeLocked
<1>. QED BY <1>2, <1>3, <1>4 DEF ChargeLocked

\* issuePaymentLink and the transaction after it.
LEMMA LinkTyped ==
  ASSUME TypeInv, NEW p \in Procs, IssueLink(p) \/ AwaitPayment(p) PROVE TypeInv'
<1>. USE DEF subVars, orderVars, pspVars, envVars
<1>. HandlersOK BY DEF TypeInv
<1>1. CASE IssueLink(p)
  <2>. "await" \in PCs BY DEF PCs
  <2>1. HandlersOK' BY <1>1, GotoTyped DEF IssueLink
  <2>2. PayOK' BY <1>1 DEF IssueLink, TypeInv, PayOK, PaymentStatus
  <2>. QED BY <1>1, <2>1, <2>2 DEF IssueLink, TypeInv, SubOK, EnvOK, CycleOK, OrderOK
<1>2. CASE AwaitPayment(p)
  <2>1. HandlersOK' BY <1>2, FinishTyped DEF AwaitPayment
  <2>2. proc[p].c \in Cycles BY <1>2, Running DEF AwaitPayment
  <2>3. [cycle[proc[p].c] EXCEPT !.status = "AWAITING_PAYMENT"] \in Row
    BY <2>2, RowEdits DEF TypeInv, CycleOK, CycleStatus
  <2>4. CycleOK' BY <1>2, <2>2, <2>3 DEF AwaitPayment, SetStatus, TypeInv, CycleOK
  <2>. QED BY <1>2, <2>1, <2>4 DEF AwaitPayment, TypeInv, SubOK, EnvOK, OrderOK, PayOK
<1>. QED BY <1>1, <1>2

\* The idempotency probe of chargeStoredCard.
LEMMA ProbeTyped == ASSUME TypeInv, NEW p \in Procs, Probe(p) PROVE TypeInv'
<1>. HandlersOK BY DEF TypeInv
<1>1. PICK n \in proc[p].n..MaxAttempt :
        LET s == pay[<<proc[p].c, "cyc", n>>] IN
        proc' = [proc EXCEPT ![p] = [proc[p] EXCEPT !.n = n, !.kind = "cyc",
                                       !.pc = IF s = None THEN "record" ELSE "outcome",
                                       !.ok = CollectedBefore(s)]]
  BY DEF Probe
<1>2. proc[p] \in Handler /\ proc[p].c \in Cycles BY Running DEF Probe
<1>3. n \in 1..MaxAttempt
  <2>1. proc[p].n \in Nat BY <1>2 DEF Handler
  <2>2. proc[p].n >= 1 BY DEF Probe, HandlersOK, Sound
  <2>. QED BY <2>1, <2>2, BoundsAssumption
<1>. DEFINE s == pay[<<proc[p].c, "cyc", n>>]
            pc == IF s = None THEN "record" ELSE "outcome"
            h == [proc[p] EXCEPT !.n = n, !.kind = "cyc", !.pc = pc, !.ok = CollectedBefore(s)]
<1>4. pc \in Parked \cup {"record"} BY DEF Parked, PCs
<1>5. CollectedBefore(s) \in BOOLEAN BY DEF CollectedBefore
<1>6. Sound(h)
  <2>. HIDE DEF pc, s
  <2>. QED BY <1>2, <1>3, <1>4, <1>5, HandlerEdits
<1>7. HandlersOK' BY <1>1, <1>6, SetHandler
<1>. QED BY <1>7, Untouched DEF Probe

\* recordPayment, the provider and markSucceeded / markFailed of the payment.
LEMMA AttemptTyped ==
  ASSUME TypeInv, NEW p \in Procs, RecordPayment(p) \/ CallProvider(p) \/ MarkPayment(p)
  PROVE  TypeInv'
<1>. USE DEF subVars, orderVars, pspVars, envVars
<1>. HandlersOK BY DEF TypeInv
<1>. {"provider", "outcome"} \subseteq PCs /\ "mark" \in Parked BY DEF PCs, Parked
<1>1. HandlersOK'
  <2>1. CASE RecordPayment(p) BY <2>1, FinishTyped, GotoTyped DEF RecordPayment
  <2>2. CASE MarkPayment(p) BY <2>2, FinishTyped, GotoTyped DEF MarkPayment
  <2>3. CASE CallProvider(p)
    <3>1. \A ok \in BOOLEAN : Sound([proc[p] EXCEPT !.pc = "mark", !.ok = ok])
      BY <2>3, Running, HandlerEdits DEF CallProvider
    <3>. QED BY <2>3, <3>1, SetHandler DEF CallProvider
  <2>. QED BY <2>1, <2>2, <2>3
<1>2. PayOK'
  <2>. USE DEF TypeInv, PayOK, PaymentStatus
  <2>1. CASE RecordPayment(p) BY <2>1 DEF RecordPayment
  <2>2. CASE CallProvider(p)
    <3>1. PICK charged \in BOOLEAN :
            captures' = [captures EXCEPT ![PayId(p)] = IF charged THEN @ + 1 ELSE @]
      BY <2>2 DEF CallProvider
    <3>. HIDE DEF PaymentStatus
    <3>2. captures \in [PayIds -> Nat] OBVIOUS
    <3>3. \A id \in PayIds : (IF charged THEN captures[id] + 1 ELSE captures[id]) \in Nat
      BY <3>2
    <3>4. captures' \in [PayIds -> Nat] BY <3>1, <3>2, <3>3, Zenon
    <3>. QED BY <2>2, <3>4 DEF CallProvider
  <2>3. CASE MarkPayment(p) BY <2>3 DEF MarkPayment
  <2>. QED BY <2>1, <2>2, <2>3
<1>3. SubOK' /\ EnvOK' /\ CycleOK' /\ OrderOK'
  BY DEF RecordPayment, CallProvider, MarkPayment, TypeInv, SubOK, EnvOK, CycleOK, OrderOK
<1>. QED BY <1>1, <1>2, <1>3 DEF TypeInv

\* markCharged of the cycle.
LEMMA ChargedTyped ==
  ASSUME TypeInv, NEW p \in Procs, ReadForCharged(p) \/ CommitCharged(p) PROVE TypeInv'
<1>. USE DEF subVars, orderVars, pspVars, envVars
<1>. HandlersOK BY DEF TypeInv
<1>0. proc[p] \in Handler /\ proc[p].c \in Cycles
  BY Running DEF ReadForCharged, CommitCharged
<1>1. CASE ReadForCharged(p)
  <2>1. sub \in SubStatus /\ "commitCharged" \in Parked BY DEF TypeInv, SubOK, Parked, PCs
  <2>2. Sound([proc[p] EXCEPT !.pc = "commitCharged", !.sub = sub])
    BY <1>0, <2>1, HandlerEdits
  <2>3. HandlersOK' BY <1>1, <2>2, SetHandler, FinishTyped DEF ReadForCharged
  <2>4. PayOK'
    BY <1>0, <1>1 DEF ReadForCharged, TypeInv, PayOK, Acknowledged, PayId, Handler
  <2>. QED BY <1>1, <2>3, <2>4 DEF ReadForCharged, TypeInv, SubOK, EnvOK, CycleOK, OrderOK
<1>2. CASE CommitCharged(p)
  <2>. DEFINE c == proc[p].c
  <2>1. [cycle[c] EXCEPT !.status = "CHARGED", !.retryAt = FALSE] \in Row
    BY <1>0, RowEdits DEF TypeInv, CycleOK, CycleStatus
  <2>2. HandlersOK' BY <1>2, FinishTyped DEF CommitCharged
  <2>3. CycleOK' BY <1>0, <1>2, <2>1 DEF CommitCharged, TypeInv, CycleOK
  <2>4. OrderOK'
    <3>1. CASE PayOrder(c) BY <1>0, <3>1, PayOrderTyped DEF TypeInv
    <3>2. CASE UNCHANGED orderVars BY <3>2 DEF TypeInv, OrderOK
    <3>. QED BY <1>2, <3>1, <3>2 DEF CommitCharged
  <2>5. PayOK'
    <3>1. pay' \in [PayIds -> PaymentStatus \cup {None}]
      BY <1>2, LinksTyped DEF CommitCharged, TypeInv, PayOK
    <3>. QED BY <1>0, <1>2, <3>1 DEF CommitCharged, TypeInv, PayOK, Acknowledged, PayId, Handler
  <2>6. SubOK' /\ EnvOK' BY <1>2 DEF CommitCharged, TypeInv, SubOK, EnvOK, SubStatus
  <2>. QED BY <2>2, <2>3, <2>4, <2>5, <2>6 DEF TypeInv
<1>. QED BY <1>1, <1>2

\* markFailed of the cycle.
LEMMA FailedTyped ==
  ASSUME TypeInv, NEW p \in Procs,
         ReadForFailed(p) \/ CommitFailed(p) \/ ChargeDeclined(p)
  PROVE  TypeInv'
<1>. HandlersOK BY DEF TypeInv
<1>1. CASE ReadForFailed(p)
  <2>. "commitFailed" \in PCs BY DEF PCs
  <2>1. HandlersOK' BY <1>1, FinishTyped, GotoTyped DEF ReadForFailed
  <2>. QED BY <1>1, <2>1, Untouched DEF ReadForFailed
<1>2. CASE ChargeDeclined(p)
  BY <1>2, FinishTyped, Untouched DEF ChargeDeclined, Abort
<1>3. CASE CommitFailed(p)
  <2>. DEFINE c == proc[p].c
  <2>. USE DEF subVars, orderVars, pspVars, envVars
  <2>1. c \in Cycles BY <1>3, Running DEF CommitFailed
  <2>2. CASE Abort(p) BY <2>2, FinishTyped, Untouched DEF Abort
  <2>3. CASE FailDelta(c) /\ UNCHANGED <<pay, pspVars, envVars>> /\ Finish(p)
    <3>1. SubOK' /\ CycleOK' /\ OrderOK' BY <2>1, <2>3, FailDeltaTyped
    <3>2. HandlersOK' BY <2>3, FinishTyped
    <3>. QED BY <2>3, <3>1, <3>2 DEF TypeInv, EnvOK, PayOK
  <2>4. CASE FailCycle(c, pay) /\ UNCHANGED <<delta, pspVars, envVars>> /\ Finish(p)
    <3>1. pay \in [PayIds -> PaymentStatus \cup {None}] BY DEF TypeInv, PayOK
    <3>2. SubOK' /\ CycleOK' /\ order' \in [Cycles -> OrderStatus \cup {None}]
          /\ pay' \in [PayIds -> PaymentStatus \cup {None}]
      BY <2>1, <2>4, <3>1, FailCycleTyped
    <3>3. HandlersOK' BY <2>4, FinishTyped
    <3>. QED BY <2>4, <3>2, <3>3 DEF TypeInv, EnvOK, OrderOK, PayOK
  <2>. QED BY <1>3, <2>2, <2>3, <2>4 DEF CommitFailed
<1>. QED BY <1>1, <1>2, <1>3

\* scheduleRetryOrSkip, also without a card after the delivery-day limit.
LEMMA ScheduleTyped ==
  ASSUME TypeInv, NEW p \in Procs,
         ReadForSchedule(p) \/ CommitRetryAt(p) \/ CommitSkip(p) \/ RelinkTooLate(p)
  PROVE  TypeInv'
<1>. USE DEF subVars, orderVars, pspVars, envVars
<1>. HandlersOK BY DEF TypeInv
<1>0. proc[p] \in Handler /\ proc[p].c \in Cycles
  BY Running DEF ReadForSchedule, CommitRetryAt, CommitSkip, RelinkTooLate
<1>1. CASE ReadForSchedule(p) \/ RelinkTooLate(p)
  <2>1. sub \in SubStatus /\ failed \in Nat /\ {"commitRetryAt", "commitSkip"} \subseteq Parked
    BY DEF TypeInv, SubOK, Parked, PCs
  <2>2. \A pc \in {"commitRetryAt", "commitSkip"} :
          Sound([proc[p] EXCEPT !.pc = pc, !.sub = sub, !.failed = failed])
    BY <1>0, <2>1, HandlerEdits
  <2>3. HandlersOK'
    BY <1>1, <2>2, SetHandler, FinishTyped DEF ReadForSchedule, RelinkTooLate
  <2>. QED BY <1>1, <2>3, Untouched DEF ReadForSchedule, RelinkTooLate
<1>2. CASE CommitRetryAt(p)
  <2>1. HandlersOK' BY <1>2, FinishTyped DEF CommitRetryAt
  <2>2. [cycle[proc[p].c] EXCEPT !.retryAt = TRUE] \in Row
    BY <1>0, RowEdits DEF TypeInv, CycleOK, CycleStatus
  <2>3. CycleOK' BY <1>0, <1>2, <2>2 DEF CommitRetryAt, TypeInv, CycleOK
  <2>. QED BY <1>2, <2>1, <2>3 DEF CommitRetryAt, TypeInv, SubOK, EnvOK, OrderOK, PayOK
<1>3. CASE CommitSkip(p)
  <2>1. CASE Abort(p) BY <2>1, FinishTyped, Untouched DEF Abort
  <2>2. CASE /\ MarkUnpaidSkipped(proc[p].c, proc[p].sub, proc[p].failed)
             /\ UNCHANGED <<delta, pspVars, envVars>> /\ Finish(p)
    <3>1. proc[p].failed \in Nat BY <1>0 DEF Handler
    <3>2. SubOK' /\ CycleOK' /\ order' \in [Cycles -> OrderStatus \cup {None}]
          /\ pay' \in [PayIds -> PaymentStatus \cup {None}]
      BY <1>0, <2>2, <3>1, MarkUnpaidSkippedTyped
    <3>3. HandlersOK' BY <2>2, FinishTyped
    <3>. QED BY <2>2, <3>2, <3>3 DEF TypeInv, EnvOK, OrderOK, PayOK
  <2>. QED BY <1>3, <2>1, <2>2 DEF CommitSkip
<1>. QED BY <1>1, <1>2, <1>3
-------------------------------------------------------------------------------
\* retryCycle, phase A.
LEMMA StartRetryTyped ==
  ASSUME TypeInv, NEW p \in Procs, NEW c \in Cycles, StartRetry(p, c) PROVE TypeInv'
<1>. USE DEF subVars, orderVars, pspVars, envVars
<1>1. cycle[c] \in Row /\ cycle[c].retry + 2 \in Nat BY DEF TypeInv, CycleOK, Row
<1>2. CycleOK'
  <2>1. [cycle[c] EXCEPT !.retry = @ + 1, !.retryAt = FALSE] \in Row
    BY <1>1, RowEdits DEF CycleStatus
  <2>. QED BY <2>1 DEF StartRetry, TypeInv, CycleOK
<1>3. HandlersOK'
  <2>1. \A pc \in {"probe", "relink"}, n \in Nat :
          n >= 1 => Sound([Idle EXCEPT !.pc = pc, !.path = "retry", !.c = c, !.n = n])
    <3>. SUFFICES ASSUME NEW pc \in {"probe", "relink"}, NEW n \in Nat, n >= 1
                  PROVE  Sound([Idle EXCEPT !.pc = pc, !.path = "retry", !.c = c, !.n = n])
      OBVIOUS
    <3>. DEFINE h == [Idle EXCEPT !.pc = pc, !.path = "retry", !.c = c, !.n = n]
    <3>1. pc \in PCs /\ "retry" \in Paths BY DEF PCs, Paths
    <3>2. h \in Handler BY <3>1 DEF Idle, Handler, Paths, None
    <3>3. h.pc = pc /\ h.c = c /\ h.n = n BY DEF Idle
    <3>. HIDE DEF h
    <3>4. Sound(h) BY <3>2, <3>3 DEF Sound
    <3>. QED BY <3>4 DEF h
  <2>2. cycle[c].retry + 2 >= 1 BY <1>1 DEF Row
  <2>. QED BY <1>1, <2>1, <2>2, SetHandler DEF StartRetry, TypeInv
<1>. QED BY <1>2, <1>3 DEF StartRetry, TypeInv, SubOK, EnvOK, OrderOK, PayOK

\* retryCycle without a card before the limit.
LEMMA RelinkTyped == ASSUME TypeInv, NEW p \in Procs, Relink(p) PROVE TypeInv'
<1>. USE DEF subVars, orderVars, pspVars, envVars
<1>1. proc[p].c \in Cycles BY Running DEF Relink, TypeInv
<1>2. HandlersOK' BY FinishTyped DEF Relink, TypeInv
<1>3. CycleOK'
  <2>1. [cycle[proc[p].c] EXCEPT !.retryAt = TRUE] \in Row
    BY <1>1, RowEdits DEF TypeInv, CycleOK, CycleStatus
  <2>. QED BY <1>1, <2>1 DEF Relink, TypeInv, CycleOK
<1>4. PayOK'
  <2>1. ExpireLinks(proc[p].c) \in [PayIds -> PaymentStatus \cup {None}]
    BY LinksTyped DEF TypeInv
  <2>. QED BY <2>1 DEF Relink, TypeInv, PayOK, PaymentStatus
<1>. QED BY <1>2, <1>3, <1>4 DEF Relink, TypeInv, SubOK, EnvOK, OrderOK

\* cycles:expire-payment-links.
LEMMA ExpireJobTyped == ASSUME TypeInv, ExpireJob PROVE TypeInv'
<1>. USE DEF subVars, orderVars, pspVars, envVars
<1>1. ASSUME NEW c \in Cycles, ExpireAwaiting(c) PROVE TypeInv'
  <2>1. ExpireLinks(c) \in [PayIds -> PaymentStatus \cup {None}]
    BY LinksTyped DEF TypeInv
  <2>2. CASE FailDelta(c) /\ pay' = ExpireLinks(c)
    <3>1. SubOK' /\ CycleOK' /\ OrderOK' BY <2>2, FailDeltaTyped
    <3>. QED BY <1>1, <2>1, <2>2, <3>1 DEF ExpireAwaiting, TypeInv, EnvOK, PayOK, HandlersOK
  <2>3. CASE FailCycle(c, ExpireLinks(c)) /\ UNCHANGED delta
    <3>1. SubOK' /\ CycleOK' /\ order' \in [Cycles -> OrderStatus \cup {None}]
          /\ pay' \in [PayIds -> PaymentStatus \cup {None}]
      BY <2>1, <2>3, FailCycleTyped
    <3>. QED BY <1>1, <2>3, <3>1
         DEF ExpireAwaiting, TypeInv, EnvOK, OrderOK, PayOK, HandlersOK
  <2>. QED BY <1>1, <2>2, <2>3 DEF ExpireAwaiting
<1>2. ASSUME NEW id \in PayIds, ExpireStaleLink(id) PROVE TypeInv'
  BY <1>2 DEF ExpireStaleLink, TypeInv, SubOK, EnvOK, CycleOK, OrderOK, PayOK, HandlersOK,
              PaymentStatus
<1>. QED BY <1>1, <1>2 DEF ExpireJob
-------------------------------------------------------------------------------
\* The provider's notifications and the customer's payment of a link.
LEMMA CallbackTyped ==
  ASSUME TypeInv, Callback \/ \E id \in PayIds : PayLink(id) PROVE TypeInv'
<1>. USE DEF subVars, orderVars, pspVars, envVars
<1>. HandlersOK /\ "psp" \in Procs BY DEF TypeInv, Procs
<1>1. ASSUME NEW id \in PayIds, PayLink(id) \/ SettleFailed(id) PROVE TypeInv'
  BY <1>1 DEF PayLink, SettleFailed, TypeInv, SubOK, EnvOK, CycleOK, OrderOK, PayOK, HandlersOK,
              PaymentStatus
<1>2. ASSUME NEW id \in PayIds, Settle(id) PROVE TypeInv'
  <2>1. /\ id[1] \in Cycles /\ id[2] \in {"cyc", "lnk"} /\ id[3] \in Nat
        /\ pay[id] \in PaymentStatus \cup {None}
    BY BoundsAssumption DEF PayIds, TypeInv, PayOK
  <2>2. Sound([Idle EXCEPT !.pc = "settle", !.path = "link", !.c = id[1], !.kind = id[2],
                           !.n = id[3], !.from = pay[id]])
    BY <2>1 DEF Sound, Idle, Handler, PCs, Paths, None
  <2>3. HandlersOK' BY <1>2, <2>2, SetHandler DEF Settle
  <2>. QED BY <1>2, <2>3, Untouched DEF Settle
<1>3. CASE MarkSettled
  <2>. "settled" \in Parked /\ TRUE \in BOOLEAN BY DEF Parked, PCs
  <2>1. Sound([proc["psp"] EXCEPT !.pc = "settled", !.ok = TRUE])
    BY <1>3, Running, HandlerEdits DEF MarkSettled
  <2>2. HandlersOK' BY <1>3, <2>1, SetHandler DEF MarkSettled
  <2>3. PayOK' BY <1>3 DEF MarkSettled, TypeInv, PayOK, PaymentStatus
  <2>. QED BY <1>3, <2>2, <2>3 DEF MarkSettled, TypeInv, SubOK, EnvOK, CycleOK, OrderOK
<1>4. CASE SettleOrder \/ SettleLink
  <2>. "outcome" \in PCs BY DEF PCs
  <2>1. proc["psp"] \in Handler /\ proc["psp"].c \in Cycles
    BY <1>4, Running DEF SettleOrder, SettleLink
  <2>2. HandlersOK' BY <1>4, FinishTyped, GotoTyped DEF SettleOrder, SettleLink
  <2>3. PayOK'
    BY <1>4, <2>1 DEF SettleOrder, SettleLink, TypeInv, PayOK, PayId, Handler
  <2>4. OrderOK'
    <3>1. CASE PayOrder(proc["psp"].c) BY <2>1, <3>1, PayOrderTyped DEF TypeInv
    <3>2. CASE UNCHANGED orderVars BY <3>2 DEF TypeInv, OrderOK
    <3>. QED BY <1>4, <3>1, <3>2 DEF SettleOrder, SettleLink
  <2>. QED BY <1>4, <2>2, <2>3, <2>4
       DEF SettleOrder, SettleLink, TypeInv, SubOK, EnvOK, CycleOK
<1>. QED BY <1>1, <1>2, <1>3, <1>4 DEF Callback

\* What an admin request reads.
LEMMA AdminStartTyped == ASSUME TypeInv, NEW p \in Admins, AdminStart(p) PROVE TypeInv'
<1>. HandlersOK /\ p \in Procs BY DEF TypeInv, Procs
<1>1. PICK c \in Cycles : \/ \E to \in AdminTargets : AdminSetStatus(p, c, to)
                          \/ AdminCharge(p, c) \/ AdminRetry(p, c) \/ AdminSendLink(p, c)
  BY DEF AdminStart
<1>2. cycle[c] \in Row /\ Status(c) \in CycleStatus /\ sub \in SubStatus
  BY DEF TypeInv, CycleOK, Row, SubOK, Status
<1>3. CASE \E to \in AdminTargets : AdminSetStatus(p, c, to)
  <2>1. PICK to \in AdminTargets : AdminSetStatus(p, c, to) BY <1>3
  <2>2. to \in CycleStatus BY TargetsAssumption
  <2>3. Sound([Idle EXCEPT !.pc = "set", !.path = to, !.c = c, !.from = Status(c), !.sub = sub])
    BY <1>2, <2>2 DEF Sound, Idle, Handler, PCs, Paths
  <2>4. HandlersOK' BY <2>1, <2>3, SetHandler DEF AdminSetStatus
  <2>. QED BY <2>1, <2>4, Untouched DEF AdminSetStatus
<1>4. CASE AdminCharge(p, c)
  <2>1. \A n \in Nat : n >= 1 => Sound([Idle EXCEPT !.pc = "probe", !.path = "charge", !.c = c,
                                                    !.n = n, !.from = Status(c)])
    BY <1>2 DEF Sound, Idle, Handler, PCs, Paths, None
  <2>2. Cardinality(PaymentsOf(c)) + 1 \in Nat /\ Cardinality(PaymentsOf(c)) + 1 >= 1
    BY PaymentsFinite
  <2>3. HandlersOK' BY <1>4, <2>1, <2>2, SetHandler DEF AdminCharge
  <2>. QED BY <1>4, <2>3, Untouched DEF AdminCharge
<1>5. CASE AdminRetry(p, c)
  <2>1. Sound([Idle EXCEPT !.pc = "force", !.c = c])
    BY DEF Sound, Idle, Handler, PCs, Paths, None
  <2>2. HandlersOK' BY <1>5, <2>1, SetHandler DEF AdminRetry
  <2>3. [cycle[c] EXCEPT !.retryAt = TRUE] \in Row BY <1>2, RowEdits DEF CycleStatus
  <2>4. CycleOK' BY <1>5, <2>3 DEF AdminRetry, TypeInv, CycleOK
  <2>. QED BY <1>5, <2>2, <2>4
       DEF AdminRetry, TypeInv, SubOK, EnvOK, OrderOK, PayOK, subVars, orderVars, pspVars, envVars
<1>6. CASE AdminSendLink(p, c)
  <2>1. Sound([Idle EXCEPT !.pc = "sendLink", !.c = c, !.from = Status(c)])
    BY <1>2 DEF Sound, Idle, Handler, PCs, Paths, None
  <2>2. HandlersOK' BY <1>6, <2>1, SetHandler DEF AdminSendLink
  <2>. QED BY <1>6, <2>2, Untouched DEF AdminSendLink
<1>. QED BY <1>1, <1>3, <1>4, <1>5, <1>6

\* What an admin request then writes.
LEMMA AdminStepTyped == ASSUME TypeInv, NEW p \in Admins, AdminStep(p) PROVE TypeInv'
<1>. USE DEF subVars, orderVars, pspVars, envVars
<1>. HandlersOK /\ p \in Procs BY DEF TypeInv, Procs
<1>. DEFINE c == proc[p].c
<1>0. proc[p] \in Handler /\ c \in Cycles /\ cycle[c] \in Row
  BY Running DEF AdminStep, Setting, SetCharged, SetAdvance, SetCancelled, SetSkipped, SetScheduled,
                 ForceRetry, StartRetry, SendLink, TypeInv, CycleOK
<1>. HIDE DEF c
<1>1. CASE SetCharged(p)
  <2>1. "commitCharged" \in Parked /\ "set" \in Paths /\ sub \in SubStatus
    BY DEF Parked, PCs, Paths, TypeInv, SubOK
  <2>2. Sound([proc[p] EXCEPT !.pc = "commitCharged", !.path = "set", !.sub = sub])
    BY <1>0, <2>1, HandlerEdits DEF c
  <2>3. HandlersOK' BY <1>1, <2>2, SetHandler, FinishTyped DEF SetCharged
  <2>. QED BY <1>1, <2>3, Untouched DEF SetCharged
<1>2. CASE SetAdvance(p)
  <2>1. PICK to \in Advance : Setting(p, to) BY <1>2 DEF SetAdvance
  <2>2. to = proc[p].path /\ to \in CycleStatus /\ to \in OrderStatus
    BY <2>1 DEF Setting, Advance, CycleStatus, OrderStatus
  <2>3. [cycle[c] EXCEPT !.status = to] \in Row BY <1>0, <2>2, RowEdits
  <2>4. CycleOK' BY <1>0, <1>2, <2>2, <2>3 DEF SetAdvance, SetStatus, TypeInv, CycleOK, c
  <2>5. OrderOK' BY <1>0, <1>2, <2>2 DEF SetAdvance, TypeInv, OrderOK, c
  <2>6. SubOK' BY <1>2 DEF SetAdvance, TypeInv, SubOK, SubStatus
  <2>7. HandlersOK' BY <1>2, FinishTyped DEF SetAdvance
  <2>. QED BY <1>2, <2>4, <2>5, <2>6, <2>7 DEF SetAdvance, TypeInv, EnvOK, PayOK
<1>3. CASE SetCancelled(p)
  <2>1. [cycle[c] EXCEPT !.status = "CANCELLED", !.retryAt = FALSE] \in Row
    BY <1>0, RowEdits DEF CycleStatus
  <2>2. CycleOK' BY <1>0, <1>3, <2>1 DEF SetCancelled, TypeInv, CycleOK, c
  <2>3. CancelOrder(order[c]) \in OrderStatus \cup {None}
        /\ CancelOrder(delta[c]) \in OrderStatus \cup {None}
    BY <1>0, OrderEdits DEF TypeInv, OrderOK
  <2>4. OrderOK' BY <1>0, <1>3, <2>3 DEF SetCancelled, TypeInv, OrderOK, c
  <2>5. PayOK' BY <1>3, LinksTyped DEF SetCancelled, TypeInv, PayOK
  <2>6. HandlersOK' BY <1>3, FinishTyped DEF SetCancelled
  <2>. QED BY <1>3, <2>2, <2>4, <2>5, <2>6 DEF SetCancelled, TypeInv, SubOK, EnvOK
<1>4. CASE SetSkipped(p) \/ SetScheduled(p)
  <2>1. [cycle[c] EXCEPT !.status = "SKIPPED", !.skip = "OPS"] \in Row
        /\ [cycle[c] EXCEPT !.status = "SCHEDULED", !.skip = None] \in Row
    BY <1>0, RowEdits DEF CycleStatus
  <2>2. CASE Abort(p) BY <2>2, FinishTyped, Untouched DEF Abort
  <2>3. CASE ~Abort(p)
    <3>1. CycleOK' BY <1>0, <1>4, <2>1, <2>3 DEF SetSkipped, SetScheduled, TypeInv, CycleOK, c
    <3>2. HandlersOK' BY <1>4, <2>3, FinishTyped DEF SetSkipped, SetScheduled
    <3>. QED BY <1>4, <2>3, <3>1, <3>2
         DEF SetSkipped, SetScheduled, TypeInv, SubOK, EnvOK, OrderOK, PayOK
  <2>. QED BY <2>2, <2>3
<1>5. CASE ForceRetry(p)
  BY <1>0, <1>5, StartRetryTyped, FinishTyped, Untouched DEF ForceRetry, Abort, c
<1>6. CASE SendLink(p)
  <2>1. HandlersOK' BY <1>6, FinishTyped DEF SendLink
  <2>2. \A s \in CycleStatus, b \in BOOLEAN : [cycle[c] EXCEPT !.status = s, !.retryAt = b] \in Row
    BY <1>0, RowEdits
  <2>3. CycleOK'
    <3>1. (IF proc[p].from = "LOCKED" THEN "AWAITING_PAYMENT" ELSE Status(c)) \in CycleStatus
      BY <1>0 DEF Status, Row, CycleStatus
    <3>2. (proc[p].from = "UNPAID" \/ cycle[c].retryAt) \in BOOLEAN BY <1>0 DEF Row
    <3>. QED BY <1>0, <1>6, <2>2, <3>1, <3>2 DEF SendLink, TypeInv, CycleOK, c
  <2>4. PayOK'
    <3>1. ExpireLinks(c) \in [PayIds -> PaymentStatus \cup {None}]
      BY LinksTyped DEF TypeInv
    <3>. QED BY <1>6, <3>1 DEF SendLink, TypeInv, PayOK, PaymentStatus, c
  <2>. QED BY <1>6, <2>1, <2>3, <2>4 DEF SendLink, TypeInv, SubOK, EnvOK, OrderOK
<1>. QED BY <1>1, <1>2, <1>3, <1>4, <1>5, <1>6 DEF AdminStep

\* Cancellation, cards, the clock and crashes.
LEMMA OutsideTyped ==
  ASSUME TypeInv,
         \/ \E gone \in SUBSET Cycles : CancelSubscription(gone)
         \/ UpdateCard \/ DeactivateCard \/ Crash
         \/ \E c \in Cycles : DeadlinePasses(c)
  PROVE  TypeInv'
<1>. USE DEF subVars, orderVars, pspVars, envVars
<1>1. ASSUME NEW gone \in SUBSET Cycles, CancelSubscription(gone) PROVE TypeInv'
  <2>1. CycleOK'
    <3>1. \A c \in Cycles : /\ cycle[c] \in Row
                            /\ [cycle[c] EXCEPT !.status = "CANCELLED"] \in Row
      BY RowEdits DEF TypeInv, CycleOK, CycleStatus
    <3>. QED BY <1>1, <3>1 DEF CancelSubscription, TypeInv, CycleOK
  <2>2. OrderOK' BY <1>1 DEF CancelSubscription, TypeInv, OrderOK, OrderStatus
  <2>3. SubOK' BY <1>1 DEF CancelSubscription, TypeInv, SubOK, SubStatus
  <2>. QED BY <1>1, <2>1, <2>2, <2>3 DEF CancelSubscription, TypeInv, EnvOK, PayOK, HandlersOK
<1>2. CASE UpdateCard
  <2>1. CycleOK'
    <3>1. \A c \in Cycles : cycle[c] \in Row /\ [cycle[c] EXCEPT !.retryAt = TRUE] \in Row
      BY RowEdits DEF TypeInv, CycleOK, CycleStatus
    <3>. QED BY <1>2, <3>1 DEF UpdateCard, TypeInv, CycleOK
  <2>. QED BY <1>2, <2>1 DEF UpdateCard, TypeInv, SubOK, EnvOK, OrderOK, PayOK, HandlersOK
<1>3. CASE DeactivateCard \/ \E c \in Cycles : DeadlinePasses(c)
  BY <1>3 DEF DeactivateCard, DeadlinePasses, TypeInv, SubOK, EnvOK, CycleOK, OrderOK, PayOK,
              HandlersOK
<1>4. CASE Crash
  <2>1. HandlersOK' BY <1>4, IdleSound DEF Crash, HandlersOK, Sound
  <2>. QED BY <1>4, <2>1 DEF Crash, TypeInv, SubOK, EnvOK, CycleOK, OrderOK, PayOK
<1>. QED BY <1>1, <1>2, <1>3, <1>4

\* The type invariant is inductive.
LEMMA TypeNext == TypeInv /\ [Next]_vars => TypeInv'
<1>. SUFFICES ASSUME TypeInv, [Next]_vars PROVE TypeInv' OBVIOUS
<1>1. CASE LockJob BY <1>1, LockJobTyped DEF LockJob
<1>2. CASE ExpireJob BY <1>2, ExpireJobTyped
<1>3. CASE RetryJob
  BY <1>3, StartRetryTyped DEF RetryJob, RetryCycle, Procs
<1>4. CASE Callback BY <1>4, CallbackTyped
<1>5. CASE Customer BY <1>5, CallbackTyped, OutsideTyped DEF Customer
<1>6. ASSUME NEW p \in Procs, Continue(p) PROVE TypeInv'
  BY <1>6, ChargeLockedTyped, LinkTyped, ProbeTyped, AttemptTyped, ChargedTyped, FailedTyped,
     ScheduleTyped, RelinkTyped DEF Continue
<1>7. ASSUME NEW p \in Admins, AdminStart(p) \/ AdminStep(p) PROVE TypeInv'
  BY <1>7, AdminStartTyped, AdminStepTyped
<1>8. CASE (\E c \in Cycles : DeadlinePasses(c)) \/ Crash BY <1>8, OutsideTyped
<1>9. CASE UNCHANGED vars
  <2>1. UNCHANGED dbVars /\ UNCHANGED proc
    BY <1>9 DEF vars, dbVars, subVars, orderVars, pspVars
  <2>2. HandlersOK' BY <2>1 DEF TypeInv, HandlersOK
  <2>. QED BY <2>1, <2>2, Untouched
<1>. QED BY <1>1, <1>2, <1>3, <1>4, <1>5, <1>6, <1>7, <1>8, <1>9 DEF Next

\* Every column keeps its type whatever the handlers, admins, customers and crashes do.
THEOREM TypeCorrect == Spec => []TypeOK
<1>1. Spec => []TypeInv BY TypeInit, TypeNext, PTL DEF Spec
<1>. QED BY <1>1, TypeInvImpliesTypeOK, PTL
-------------------------------------------------------------------------------
(* One attempt moves money once *)

\* A step that moves no money, forgets no payment row and sends no handler to the provider.
PayKept == \A id \in PayIds : pay[id] # None => pay'[id] # None
NoNewCall == \A p \in Procs : proc'[p].pc = "provider" => proc'[p] = proc[p]
Quiet == captures' = captures /\ PayKept /\ NoNewCall

\* The attempt a handler records or charges is a stored-card attempt in the table.
LEMMA ProviderAttempt ==
  ASSUME HandlersOK, NEW p \in Procs, proc[p].pc \in {"record", "provider"}
  PROVE  PayId(p) \in PayIds /\ ~IsLink(PayId(p))
BY DEF HandlersOK, Sound, PayId, PayIds, IsLink

\* Quiet steps keep the money invariant.
LEMMA QuietKeepsMoney == ASSUME TypeInv, MoneyInv, Quiet PROVE MoneyInv'
<1>. HandlersOK BY DEF TypeInv
<1>1. \A id \in PayIds : /\ captures'[id] <= 1
                         /\ pay'[id] = None => captures'[id] = 0
  BY DEF MoneyInv, Quiet, PayKept
<1>2. ASSUME NEW p \in Procs, proc'[p].pc = "provider"
      PROVE  proc[p].pc = "provider" /\ PayId(p)' = PayId(p) /\ PayId(p) \in PayIds
  BY <1>2, ProviderAttempt DEF Quiet, NoNewCall, PayId
<1>3. \A p \in Procs : proc'[p].pc = "provider" =>
                         pay'[PayId(p)'] # None /\ captures'[PayId(p)'] = 0
  BY <1>2 DEF MoneyInv, Quiet, PayKept
<1>4. \A p, q \in Procs : (p # q /\ proc'[p].pc = "provider" /\ proc'[q].pc = "provider") =>
                            PayId(p)' # PayId(q)'
  BY <1>2 DEF MoneyInv
<1>. QED BY <1>1, <1>3, <1>4 DEF MoneyInv

\* Expiring the links of a cycle forgets no payment row.
LEMMA LinksKept == ASSUME PayOK, NEW c, NEW id \in PayIds, pay[id] # None
                   PROVE  ExpireLinks(c)[id] # None
BY LinksTyped

Away(h) == h.pc # "provider"

\* A handler moves to a state that is not at the provider.
LEMMA MoveQuiet ==
  ASSUME HandlersOK, NEW p, NEW h, Away(h), proc' = [proc EXCEPT ![p] = h]
  PROVE  NoNewCall
BY DEF HandlersOK, NoNewCall, Away

\* A handler that ends.
LEMMA FinishQuiet == ASSUME HandlersOK, NEW p, Finish(p) PROVE NoNewCall
<1>1. Away(Idle) BY DEF Idle, Away
<1>. QED BY <1>1, MoveQuiet DEF Finish

\* A handler that goes on elsewhere.
LEMMA GotoQuiet ==
  ASSUME HandlersOK, NEW p \in Procs, NEW pc \in PCs, pc # "provider", Goto(p, pc)
  PROVE  NoNewCall
<1>1. Away([proc[p] EXCEPT !.pc = pc]) BY SetPc DEF HandlersOK, Away
<1>. QED BY <1>1, MoveQuiet DEF Goto

\* The states a running handler takes ...
LEMMA EditsAway ==
  ASSUME NEW h \in Handler, NEW pc, NEW n, NEW s, NEW q, NEW ok, pc # "provider"
  PROVE  /\ Away([h EXCEPT !.pc = pc, !.ok = ok])
         /\ Away([h EXCEPT !.pc = pc, !.n = n])
         /\ Away([h EXCEPT !.pc = pc, !.sub = s])
         /\ Away([h EXCEPT !.pc = pc, !.path = q, !.sub = s])
         /\ Away([h EXCEPT !.pc = pc, !.sub = s, !.failed = n])
         /\ Away([h EXCEPT !.n = n, !.kind = q, !.pc = pc, !.ok = ok])
BY DEF Handler, Away

\* ... and the states one starts in.
LEMMA StartsAway ==
  ASSUME NEW pc, NEW c, NEW n, NEW s, NEW q, NEW k, NEW b, pc # "provider"
  PROVE  /\ Away([Idle EXCEPT !.pc = pc, !.c = c])
         /\ Away([Idle EXCEPT !.pc = pc, !.path = q, !.c = c])
         /\ Away([Idle EXCEPT !.pc = pc, !.c = c, !.from = s])
         /\ Away([Idle EXCEPT !.pc = pc, !.path = q, !.c = c, !.n = n])
         /\ Away([Idle EXCEPT !.pc = pc, !.path = q, !.c = c, !.n = n, !.from = s])
         /\ Away([Idle EXCEPT !.pc = pc, !.path = q, !.c = c, !.from = s, !.sub = b])
         /\ Away([Idle EXCEPT !.pc = pc, !.path = q, !.c = c, !.kind = k, !.n = n, !.from = s])
BY DEF Idle, Away

\* Of a running handler, only recordPayment and the provider call concern the money.
LEMMA ContinueQuiet ==
  ASSUME TypeInv, NEW p \in Procs, Continue(p) PROVE Quiet \/ RecordPayment(p) \/ CallProvider(p)
<1>. USE DEF dbVars, subVars, orderVars, pspVars, envVars, PayKept, Quiet
<1>. PayOK /\ HandlersOK /\ proc[p] \in Handler BY DEF TypeInv, HandlersOK
<1>. {"issue", "await", "outcome", "commitFailed"} \subseteq PCs BY DEF PCs
<1>1. CASE ChargeLocked(p)
  <2>1. NoNewCall BY ZenonT(40), <1>1, FinishQuiet, GotoQuiet, MoveQuiet, EditsAway DEF ChargeLocked
  <2>. QED BY <1>1, <2>1 DEF ChargeLocked
<1>2. CASE Probe(p)
  <2>1. PICK n \in proc[p].n..MaxAttempt :
          LET s == pay[<<proc[p].c, "cyc", n>>] IN
          proc' = [proc EXCEPT ![p] = [proc[p] EXCEPT !.n = n, !.kind = "cyc",
                                         !.pc = IF s = None THEN "record" ELSE "outcome",
                                         !.ok = CollectedBefore(s)]]
    BY <1>2 DEF Probe
  <2>. DEFINE s == pay[<<proc[p].c, "cyc", n>>]
              pc == IF s = None THEN "record" ELSE "outcome"
  <2>2. pc # "provider" OBVIOUS
  <2>3. Away([proc[p] EXCEPT !.n = n, !.kind = "cyc", !.pc = pc, !.ok = CollectedBefore(s)])
    <3>. HIDE DEF pc, s
    <3>. QED BY <2>2, EditsAway
  <2>4. NoNewCall BY <2>1, <2>3, MoveQuiet
  <2>. QED BY <1>2, <2>4 DEF Probe
<1>3. CASE IssueLink(p) \/ AwaitPayment(p)
  <2>1. NoNewCall BY <1>3, FinishQuiet, GotoQuiet DEF IssueLink, AwaitPayment
  <2>2. CASE IssueLink(p)
    <3>1. PICK id : pay' = [pay EXCEPT ![id] = "PENDING"] BY <2>2 DEF IssueLink
    <3>. QED BY <2>1, <2>2, <3>1 DEF IssueLink, None
  <2>. QED BY <1>3, <2>1, <2>2 DEF AwaitPayment
<1>4. CASE MarkPayment(p)
  <2>1. NoNewCall BY <1>4, FinishQuiet, GotoQuiet DEF MarkPayment
  <2>2. \E to \in {"SUCCEEDED", "FAILED"} : pay' = pay \/ pay' = [pay EXCEPT ![PayId(p)] = to]
    BY <1>4 DEF MarkPayment
  <2>3. PayKept BY <2>2 DEF None, PayOK
  <2>. QED BY <1>4, <2>1, <2>3 DEF MarkPayment
<1>5. CASE ReadForCharged(p)
  <2>. Away([proc[p] EXCEPT !.pc = "commitCharged", !.sub = sub]) BY EditsAway
  <2>1. NoNewCall BY <1>5, FinishQuiet, MoveQuiet DEF ReadForCharged
  <2>. QED BY <1>5, <2>1 DEF ReadForCharged
<1>6. CASE CommitCharged(p)
  BY <1>6, FinishQuiet, LinksKept DEF CommitCharged
<1>7. CASE ReadForFailed(p)
  <2>1. NoNewCall BY <1>7, FinishQuiet, GotoQuiet DEF ReadForFailed
  <2>. QED BY <1>7, <2>1 DEF ReadForFailed
<1>8. CASE ReadForSchedule(p) \/ RelinkTooLate(p)
  <2>. \A pc \in {"commitRetryAt", "commitSkip"} :
         Away([proc[p] EXCEPT !.pc = pc, !.sub = sub, !.failed = failed])
    BY EditsAway
  <2>1. NoNewCall BY <1>8, FinishQuiet, MoveQuiet DEF ReadForSchedule, RelinkTooLate
  <2>. QED BY <1>8, <2>1 DEF ReadForSchedule, RelinkTooLate
<1>9. CASE ChargeDeclined(p) \/ CommitRetryAt(p)
  BY <1>9, FinishQuiet DEF ChargeDeclined, CommitRetryAt, Abort
<1>10. CASE CommitFailed(p) \/ CommitSkip(p)
  BY <1>10, FinishQuiet, LinksKept
  DEF CommitFailed, CommitSkip, FailCycle, MarkUnpaidSkipped, Abort
<1>11. CASE Relink(p)
  BY <1>11, FinishQuiet, LinksKept DEF Relink, None
<1>. QED BY <1>1, <1>2, <1>3, <1>4, <1>5, <1>6, <1>7, <1>8, <1>9, <1>10, <1>11 DEF Continue

\* retryCycle, phase A.
LEMMA StartRetryQuiet ==
  ASSUME HandlersOK, NEW p \in Procs, NEW c \in Cycles, StartRetry(p, c) PROVE Quiet
<1>. \A pc \in {"probe", "relink"} : Away([Idle EXCEPT !.pc = pc, !.path = "retry", !.c = c,
                                                       !.n = cycle[c].retry + 2])
  BY StartsAway
<1>1. NoNewCall BY MoveQuiet DEF StartRetry
<1>. QED BY <1>1 DEF StartRetry, Quiet, PayKept, pspVars

\* The starts of the jobs.
LEMMA JobsQuiet ==
  ASSUME TypeInv, LockJob \/ ExpireJob \/ RetryJob PROVE Quiet
<1>. USE DEF dbVars, subVars, orderVars, pspVars, envVars, PayKept, Quiet
<1>. PayOK /\ HandlersOK BY DEF TypeInv
<1>1. ASSUME NEW c \in Cycles, LockInactive(c) \/ LockFree(c) \/ LockPhaseA(c) \/ PickStranded(c)
      PROVE  Quiet
  <2>1. NoNewCall
    <3>. Away([Idle EXCEPT !.pc = "charge", !.path = "lock", !.c = c]) BY StartsAway
    <3>1. CASE LockInactive(c) \/ LockFree(c) BY <3>1 DEF LockInactive, LockFree, NoNewCall
    <3>2. CASE LockPhaseA(c) \/ PickStranded(c)
      BY <3>2, MoveQuiet DEF LockPhaseA, PickStranded
    <3>. QED BY <1>1, <3>1, <3>2
  <2>. QED BY <1>1, <2>1 DEF LockInactive, LockFree, LockPhaseA, PickStranded
<1>2. ASSUME NEW c \in Cycles, ExpireAwaiting(c) PROVE Quiet
  BY <1>2, LinksKept DEF ExpireAwaiting, FailCycle, MarkUnpaidSkipped, NoNewCall
<1>3. ASSUME NEW id \in PayIds, ExpireStaleLink(id) PROVE Quiet
  BY <1>3 DEF ExpireStaleLink, None, NoNewCall
<1>4. ASSUME NEW c \in Cycles, RetryCycle(c) PROVE Quiet
  BY <1>4, StartRetryQuiet DEF RetryCycle, Procs
<1>. QED BY <1>1, <1>2, <1>3, <1>4 DEF LockJob, ExpireJob, RetryJob

\* Admin requests.
LEMMA AdminQuiet ==
  ASSUME TypeInv, NEW p \in Admins, AdminStart(p) \/ AdminStep(p) PROVE Quiet
<1>. USE DEF dbVars, subVars, orderVars, pspVars, envVars, PayKept, Quiet
<1>. PayOK /\ HandlersOK /\ p \in Procs /\ proc[p] \in Handler
  BY DEF TypeInv, HandlersOK, Procs
<1>1. ASSUME NEW c \in Cycles, \/ \E to \in AdminTargets : AdminSetStatus(p, c, to)
                               \/ AdminCharge(p, c) \/ AdminRetry(p, c) \/ AdminSendLink(p, c)
      PROVE  Quiet
  <2>1. NoNewCall
    <3>. \A to : Away([Idle EXCEPT !.pc = "set", !.path = to, !.c = c, !.from = Status(c),
                                    !.sub = sub])
      BY StartsAway
    <3>. Away([Idle EXCEPT !.pc = "probe", !.path = "charge", !.c = c,
                           !.n = Cardinality(PaymentsOf(c)) + 1, !.from = Status(c)])
      BY StartsAway
    <3>. Away([Idle EXCEPT !.pc = "force", !.c = c]) BY StartsAway
    <3>. Away([Idle EXCEPT !.pc = "sendLink", !.c = c, !.from = Status(c)]) BY StartsAway
    <3>. QED BY <1>1, MoveQuiet DEF AdminSetStatus, AdminCharge, AdminRetry, AdminSendLink
  <2>. QED BY <1>1, <2>1 DEF AdminSetStatus, AdminCharge, AdminRetry, AdminSendLink
<1>2. CASE SetCharged(p)
  <2>. Away([proc[p] EXCEPT !.pc = "commitCharged", !.path = "set", !.sub = sub])
    BY EditsAway
  <2>1. NoNewCall BY <1>2, FinishQuiet, MoveQuiet DEF SetCharged
  <2>. QED BY <1>2, <2>1 DEF SetCharged
<1>3. CASE SetAdvance(p) \/ SetSkipped(p) \/ SetScheduled(p)
  BY <1>3, FinishQuiet DEF SetAdvance, SetSkipped, SetScheduled, Abort
<1>4. CASE SetCancelled(p)
  BY <1>4, FinishQuiet, LinksKept DEF SetCancelled
<1>5. CASE ForceRetry(p)
  <2>1. CASE StartRetry(p, proc[p].c)
    BY <2>1, <1>5, Running, StartRetryQuiet DEF ForceRetry
  <2>2. CASE Abort(p) BY <2>2, FinishQuiet DEF Abort
  <2>. QED BY <1>5, <2>1, <2>2 DEF ForceRetry
<1>6. CASE SendLink(p)
  BY <1>6, FinishQuiet, LinksKept DEF SendLink, None
<1>. QED BY <1>1, <1>2, <1>3, <1>4, <1>5, <1>6 DEF AdminStart, AdminStep

\* Notifications settle what was captured; they capture nothing.
LEMMA CallbackQuiet == ASSUME TypeInv, Callback PROVE Quiet
<1>. USE DEF dbVars, subVars, orderVars, pspVars, envVars, PayKept, Quiet
<1>. HandlersOK /\ "psp" \in Procs /\ proc["psp"] \in Handler BY DEF TypeInv, HandlersOK, Procs
<1>. "outcome" \in PCs BY DEF PCs
<1>1. ASSUME NEW id \in PayIds, Settle(id) PROVE Quiet
  <2>. Away([Idle EXCEPT !.pc = "settle", !.path = "link", !.c = id[1], !.kind = id[2],
                         !.n = id[3], !.from = pay[id]])
    BY StartsAway
  <2>1. NoNewCall BY <1>1, MoveQuiet DEF Settle
  <2>. QED BY <1>1, <2>1 DEF Settle
<1>2. ASSUME NEW id \in PayIds, SettleFailed(id) PROVE Quiet
  <2>1. captures' = captures /\ proc' = proc /\ pay' = [pay EXCEPT ![id] = "FAILED"]
    BY <1>2 DEF SettleFailed
  <2>. QED BY <2>1 DEF None, NoNewCall
<1>3. CASE MarkSettled
  <2>. Away([proc["psp"] EXCEPT !.pc = "settled", !.ok = TRUE]) BY EditsAway
  <2>1. NoNewCall BY <1>3, MoveQuiet DEF MarkSettled
  <2>. QED BY <1>3, <2>1 DEF MarkSettled, None
<1>4. CASE SettleOrder
  BY <1>4, FinishQuiet DEF SettleOrder
<1>5. CASE SettleLink
  BY <1>5, FinishQuiet, GotoQuiet DEF SettleLink
<1>. QED BY <1>1, <1>2, <1>3, <1>4, <1>5 DEF Callback

\* The three steps that are not quiet: a new attempt, a call of the provider, a paid link.
LEMMA RecordKeepsMoney ==
  ASSUME TypeInv, MoneyInv, NEW p \in Procs, RecordPayment(p) PROVE MoneyInv'
<1>. HandlersOK /\ PayOK BY DEF TypeInv
<1>. USE DEF pspVars
<1>1. CASE Recorded(PayId(p))
  <2>1. Quiet BY <1>1, FinishQuiet DEF RecordPayment, Quiet, PayKept
  <2>. QED BY <2>1, QuietKeepsMoney
<1>2. CASE ~Recorded(PayId(p))
  <2>. DEFINE new == PayId(p)
  <2>1. new \in PayIds /\ captures[new] = 0
    BY <1>2, ProviderAttempt DEF RecordPayment, Recorded, MoneyInv
  <2>2. /\ captures' = captures /\ pay' = [pay EXCEPT ![new] = "PENDING"]
        /\ proc' = [proc EXCEPT ![p].pc = "provider"]
    BY <1>2 DEF RecordPayment, Goto
  <2>3. \A q \in Procs : q # p => proc'[q] = proc[q] /\ PayId(q)' = PayId(q)
    BY <2>2 DEF HandlersOK, PayId
  <2>4. PayId(p)' = new BY <2>2 DEF HandlersOK, Sound, Handler, PayId
  <2>5. \A id \in PayIds : pay'[id] = IF id = new THEN "PENDING" ELSE pay[id]
    BY <2>1, <2>2 DEF PayOK
  <2>6. \A q \in Procs : (q # p /\ proc[q].pc = "provider") =>
                           PayId(q) \in PayIds /\ PayId(q) # new
    BY <1>2, ProviderAttempt DEF MoneyInv, Recorded
  <2>. HIDE DEF new
  <2>7. \A id \in PayIds : /\ captures'[id] <= 1
                           /\ pay'[id] = None => captures'[id] = 0
    BY <2>1, <2>2, <2>5 DEF MoneyInv, None
  <2>8. \A q \in Procs : proc'[q].pc = "provider" =>
                           pay'[PayId(q)'] # None /\ captures'[PayId(q)'] = 0
    BY <2>1, <2>2, <2>3, <2>4, <2>5, <2>6 DEF MoneyInv, None
  <2>9. \A q, r \in Procs : (q # r /\ proc'[q].pc = "provider" /\ proc'[r].pc = "provider") =>
                              PayId(q)' # PayId(r)'
    BY <2>3, <2>4, <2>6 DEF MoneyInv
  <2>. QED BY <2>7, <2>8, <2>9 DEF MoneyInv
<1>. QED BY <1>1, <1>2

\* The provider call: the one capture of that attempt.
LEMMA CallKeepsMoney ==
  ASSUME TypeInv, MoneyInv, NEW p \in Procs, CallProvider(p) PROVE MoneyInv'
<1>. HandlersOK /\ PayOK BY DEF TypeInv
<1>1. PICK charged \in BOOLEAN :
        captures' = [captures EXCEPT ![PayId(p)] = IF charged THEN @ + 1 ELSE @]
  BY DEF CallProvider
<1>2. pay' = pay /\ proc'[p].pc = "mark" /\ \A q \in Procs \ {p} : proc'[q] = proc[q]
  BY DEF CallProvider, HandlersOK
<1>3. PayId(p) \in PayIds /\ captures[PayId(p)] = 0 /\ pay[PayId(p)] # None
  BY ProviderAttempt DEF CallProvider, MoneyInv
<1>4. /\ captures'[PayId(p)] \in {0, 1}
      /\ \A id \in PayIds : id # PayId(p) => captures'[id] = captures[id]
  BY <1>1, <1>3 DEF PayOK
<1>5. \A q \in Procs : proc'[q].pc = "provider" =>
        /\ q # p /\ proc[q].pc = "provider" /\ PayId(q)' = PayId(q)
        /\ PayId(q) \in PayIds /\ PayId(q) # PayId(p)
  BY <1>2, ProviderAttempt DEF MoneyInv, PayId, CallProvider
<1>6. \A id \in PayIds : /\ captures'[id] <= 1
                         /\ pay'[id] = None => captures'[id] = 0
  BY <1>2, <1>3, <1>4 DEF MoneyInv
<1>7. \A q \in Procs : proc'[q].pc = "provider" =>
                         pay'[PayId(q)'] # None /\ captures'[PayId(q)'] = 0
  BY <1>2, <1>4, <1>5 DEF MoneyInv
<1>8. \A q, r \in Procs : (q # r /\ proc'[q].pc = "provider" /\ proc'[r].pc = "provider") =>
                            PayId(q)' # PayId(r)'
  BY <1>5 DEF MoneyInv
<1>. QED BY <1>6, <1>7, <1>8 DEF MoneyInv

\* A customer pays a link once.
LEMMA PayLinkKeepsMoney ==
  ASSUME TypeInv, MoneyInv, NEW id \in PayIds, PayLink(id) PROVE MoneyInv'
<1>. HandlersOK /\ PayOK BY DEF TypeInv
<1>1. /\ pay' = pay /\ proc' = proc /\ IsLink(id) /\ pay[id] # None
      /\ captures' = [captures EXCEPT ![id] = 1]
  BY DEF PayLink, None
<1>2. \A i \in PayIds : captures'[i] = IF i = id THEN 1 ELSE captures[i]
  BY <1>1 DEF PayOK
<1>3. \A p \in Procs : /\ PayId(p)' = PayId(p)
                       /\ proc[p].pc = "provider" => PayId(p) \in PayIds /\ PayId(p) # id
  BY <1>1, ProviderAttempt DEF PayId
<1>. QED BY <1>1, <1>2, <1>3 DEF MoneyInv

\* The money invariant is inductive, given the types.
LEMMA MoneyNext == TypeInv /\ MoneyInv /\ [Next]_vars => MoneyInv'
<1>. SUFFICES ASSUME TypeInv, MoneyInv, [Next]_vars PROVE MoneyInv' OBVIOUS
<1>1. CASE LockJob \/ ExpireJob \/ RetryJob BY <1>1, JobsQuiet, QuietKeepsMoney
<1>2. CASE Callback BY <1>2, CallbackQuiet, QuietKeepsMoney
<1>3. CASE Customer
  <2>1. ASSUME NEW id \in PayIds, PayLink(id) PROVE MoneyInv' BY <2>1, PayLinkKeepsMoney
  <2>2. CASE UpdateCard \/ DeactivateCard \/ \E gone \in SUBSET Cycles : CancelSubscription(gone)
    <3>1. Quiet
      BY <2>2 DEF UpdateCard, DeactivateCard, CancelSubscription, Quiet, PayKept, NoNewCall,
                  pspVars, envVars
    <3>. QED BY <3>1, QuietKeepsMoney
  <2>. QED BY <1>3, <2>1, <2>2 DEF Customer
<1>4. ASSUME NEW p \in Procs, Continue(p) PROVE MoneyInv'
  BY <1>4, ContinueQuiet, QuietKeepsMoney, RecordKeepsMoney, CallKeepsMoney
<1>5. ASSUME NEW p \in Admins, AdminStart(p) \/ AdminStep(p) PROVE MoneyInv'
  BY <1>5, AdminQuiet, QuietKeepsMoney
<1>6. CASE (\E c \in Cycles : DeadlinePasses(c)) \/ Crash
  <2>1. Quiet
    BY <1>6 DEF DeadlinePasses, Crash, Quiet, PayKept, NoNewCall, pspVars, Idle
  <2>. QED BY <2>1, QuietKeepsMoney
<1>7. CASE UNCHANGED vars
  <2>1. Quiet BY <1>7 DEF vars, Quiet, PayKept, NoNewCall
  <2>. QED BY <2>1, QuietKeepsMoney
<1>. QED BY <1>1, <1>2, <1>3, <1>4, <1>5, <1>6, <1>7 DEF Next

\* No conversationId is collected twice, for any number of admins, retries and crashes: only
\* the handler that wrote the row calls the provider for it, and it calls once.
THEOREM ChargedOnce == Spec => []AttemptChargedOnce
<1>1. Init => MoneyInv BY DEF Init, MoneyInv, Idle
<1>2. Spec => [](TypeInv /\ MoneyInv)
  BY <1>1, TypeInit, TypeNext, MoneyNext, PTL DEF Spec
<1>3. MoneyInv => AttemptChargedOnce BY DEF MoneyInv, AttemptChargedOnce
<1>. QED BY <1>2, <1>3, PTL
-------------------------------------------------------------------------------
(* A closed order stays closed *)

OrderStays == \A c \in Cycles : order[c] \in {"CANCELLED", "REFUNDED"} => order'[c] = order[c]

\* payOrder refuses a closed order.
LEMMA PayOrderStays == ASSUME OrderOK, NEW c \in Cycles, PayOrder(c) PROVE OrderStays
BY DEF PayOrder, ChargedOrder, Payable, OrderOK, OrderStays, None

\* A refunded order cannot be cancelled: the commit fails instead.
LEMMA SkipStays ==
  ASSUME OrderOK, NEW c \in Cycles, NEW s, NEW n, MarkUnpaidSkipped(c, s, n) PROVE OrderStays
<1>1. order[c] # "REFUNDED"
  BY DEF MarkUnpaidSkipped, Closable, AfterFailure, CanOrder, OrderTransitions, None
<1>2. order' = [order EXCEPT ![c] = Closed(order[c])] BY DEF MarkUnpaidSkipped
<1>3. order[c] = "CANCELLED" => Closed(order[c]) = "CANCELLED" BY DEF Closed, None
<1>. QED BY <1>1, <1>2, <1>3 DEF OrderStays, OrderOK

\* A failed collection of a closed order leaves it.
LEMMA FailCycleStays ==
  ASSUME OrderOK, NEW c \in Cycles, NEW links, FailCycle(c, links) PROVE OrderStays
<1>1. CASE MarkUnpaidSkipped(c, sub, failed) BY <1>1, SkipStays
<1>2. CASE order' = [order EXCEPT ![c] = AfterFailure(@)]
  BY <1>2 DEF OrderStays, OrderOK, AfterFailure
<1>. QED BY <1>1, <1>2 DEF FailCycle

\* No running handler touches a closed order.
LEMMA ContinueStays == ASSUME TypeInv, NEW p \in Procs, Continue(p) PROVE OrderStays
<1>. USE DEF OrderStays, dbVars, orderVars
<1>. OrderOK /\ HandlersOK BY DEF TypeInv
<1>1. CASE CommitCharged(p)
  <2>. proc[p].c \in Cycles BY <1>1, Running DEF CommitCharged
  <2>. QED BY <1>1, PayOrderStays DEF CommitCharged
<1>2. CASE CommitFailed(p)
  <2>. proc[p].c \in Cycles BY <1>2, Running DEF CommitFailed
  <2>. QED BY <1>2, FailCycleStays DEF CommitFailed, FailDelta, Abort
<1>3. CASE CommitSkip(p)
  <2>. proc[p].c \in Cycles BY <1>3, Running DEF CommitSkip
  <2>. QED BY <1>3, SkipStays DEF CommitSkip, Abort
<1>4. CASE ~(CommitCharged(p) \/ CommitFailed(p) \/ CommitSkip(p))
  BY <1>4 DEF Continue, ChargeLocked, IssueLink, AwaitPayment, Probe, RecordPayment, CallProvider,
              MarkPayment, ReadForCharged, ReadForFailed, ChargeDeclined, ReadForSchedule,
              CommitRetryAt, RelinkTooLate, Relink, Abort
<1>. QED BY <1>1, <1>2, <1>3, <1>4

\* Admin edits follow the order table, in which CANCELLED and REFUNDED are final.
LEMMA AdminStays ==
  ASSUME TypeInv, NEW p \in Admins, AdminStart(p) \/ AdminStep(p) PROVE OrderStays
<1>. USE DEF OrderStays, dbVars, orderVars
<1>. OrderOK BY DEF TypeInv
<1>1. CASE SetAdvance(p)
  <2>1. PICK to : order' = [order EXCEPT ![proc[p].c] =
                              IF @ # None /\ CanOrder(@, to) THEN to ELSE @]
    BY <1>1 DEF SetAdvance
  <2>2. ~CanOrder("CANCELLED", to) BY DEF CanOrder, OrderTransitions
  <2>3. CASE to \notin Advance BY <1>1, <2>1, <2>3 DEF SetAdvance, Setting, OrderOK
  <2>4. CASE to \in Advance
    <3>1. ~CanOrder("REFUNDED", to) BY DEF CanOrder, OrderTransitions
    <3>. QED BY <2>1, <2>2, <3>1 DEF OrderOK
  <2>. QED BY <2>3, <2>4
<1>2. CASE SetCancelled(p)
  <2>1. ~CanOrder("REFUNDED", "CANCELLED") /\ ~CanOrder("CANCELLED", "CANCELLED")
    BY DEF CanOrder, OrderTransitions
  <2>. QED BY <1>2, <2>1 DEF SetCancelled, CancelOrder, OrderOK
<1>3. CASE AdminStart(p)
  BY <1>3 DEF AdminStart, AdminSetStatus, AdminCharge, AdminRetry, AdminSendLink
<1>4. CASE SetCharged(p) \/ SetSkipped(p) \/ SetScheduled(p) \/ ForceRetry(p) \/ SendLink(p)
  BY <1>4 DEF SetCharged, SetSkipped, SetScheduled, ForceRetry, StartRetry, SendLink, Abort
<1>. QED BY <1>1, <1>2, <1>3, <1>4 DEF AdminStep

\* No step touches a closed order.
LEMMA OrderStaysNext == TypeInv /\ [Next]_vars => OrderStays
<1>. SUFFICES ASSUME TypeInv, [Next]_vars PROVE OrderStays OBVIOUS
<1>. USE DEF OrderStays, dbVars, orderVars
<1>. OrderOK BY DEF TypeInv
<1>1. CASE LockJob
  BY <1>1 DEF LockJob, LockInactive, LockFree, LockPhaseA, PickStranded, OrderOK, None
<1>2. CASE ExpireJob
  BY <1>2, FailCycleStays DEF ExpireJob, ExpireAwaiting, ExpireStaleLink, FailDelta
<1>3. CASE RetryJob BY <1>3 DEF RetryJob, RetryCycle, StartRetry
<1>4. CASE Callback
  <2>1. CASE SettleOrder
    <3>. proc["psp"].c \in Cycles BY <2>1, Running DEF SettleOrder, TypeInv, Procs
    <3>. QED BY <2>1, PayOrderStays DEF SettleOrder
  <2>2. CASE ~SettleOrder
    BY <1>4, <2>2 DEF Callback, Settle, SettleFailed, MarkSettled, SettleLink
  <2>. QED BY <2>1, <2>2
<1>5. CASE Customer
  BY <1>5 DEF Customer, PayLink, CancelSubscription, UpdateCard, DeactivateCard, OrderOK
<1>6. ASSUME NEW p \in Procs, Continue(p) PROVE OrderStays BY <1>6, ContinueStays
<1>7. ASSUME NEW p \in Admins, AdminStart(p) \/ AdminStep(p) PROVE OrderStays
  BY <1>7, AdminStays
<1>8. CASE (\E c \in Cycles : DeadlinePasses(c)) \/ Crash \/ UNCHANGED vars
  BY <1>8 DEF DeadlinePasses, Crash, vars
<1>. QED BY <1>1, <1>2, <1>3, <1>4, <1>5, <1>6, <1>7, <1>8 DEF Next

\* No stale admin request, late callback or retry reopens, pays or rewrites an order that was
\* cancelled or refunded.
THEOREM ClosedOrderFinal == Spec => ClosedOrderStays
<1>1. TypeInv /\ [Next]_vars =>
        [\A c \in Cycles : order[c] \in {"CANCELLED", "REFUNDED"} => order[c]' = order[c]]_vars
  BY OrderStaysNext DEF OrderStays
<1>2. Spec => []TypeInv BY TypeInit, TypeNext, PTL DEF Spec
<1>. QED BY <1>1, <1>2, PTL DEF Spec, ClosedOrderStays

-------------------------------------------------------------------------------
(* The engine without admins.                                                *)

Owed == {"LOCKED", "AWAITING_PAYMENT", "UNPAID"}
GivenUp == {"SKIPPED", "CANCELLED"}
Unbilled == {"SCHEDULED", "CANCELLED"}
Open == {"PENDING_PAYMENT", "PAYMENT_FAILED"}

\* The books of a box collected after its cutoff, and of the box prepaid at checkout.
BilledOK(c) ==
  /\ delta[c] = None
  /\ Status(c) \in Unbilled => order[c] = None
  /\ Status(c) \in Owed => order[c] \in Open \cup {"PAID"}
  /\ Status(c) = "CHARGED" => order[c] \in {None, "PAID"}
  /\ Status(c) = "SKIPPED" => order[c] = "CANCELLED"
PrepaidOK(c) ==
  /\ Status(c) \notin {"UNPAID", "SKIPPED"}
  /\ order[c] = IF Status(c) = "CANCELLED" THEN "REFUNDED" ELSE "PAID"
  /\ Status(c) \in Unbilled => delta[c] = None
  /\ Status(c) \in Owed => delta[c] \in {"PENDING_PAYMENT", "PAID"}
  /\ Status(c) = "CHARGED" => delta[c] \in {None, "PAID", "CANCELLED"}
BoxOK(c) ==
  /\ Status(c) \in Owed \cup GivenUp \cup {"SCHEDULED", "CHARGED"}
  /\ slots[c] = IF Status(c) \in GivenUp THEN 0 ELSE 1
  /\ Status(c) = "SKIPPED" => cycle[c].skip = "UNPAID"
  /\ IF c = 1 THEN PrepaidOK(c) ELSE BilledOK(c)
BoxesOK == \A c \in Cycles : BoxOK(c)

EngineSub == /\ sub \in {"ACTIVE", "PAST_DUE", "CANCELLED"}
             /\ sub = "CANCELLED" => \A c \in Cycles : Status(c) # "SCHEDULED"

\* Payments exist only for what was billed, a SUCCEEDED one was captured, a link is paid only
\* once its box has left LOCKED, and a box given up has no open link.
Bill(c) == IF c = 1 THEN delta[c] ELSE order[c]
LinksOK ==
  /\ \A id \in PayIds : pay[id] # None => Bill(id[1]) # None
  /\ \A id \in PayIds : pay[id] = "SUCCEEDED" => captures[id] > 0
  /\ \A id \in PayIds : IsLink(id) /\ captures[id] > 0 => Status(id[1]) # "LOCKED"
  /\ \A id \in PayIds : IsLink(id) /\ pay[id] = "PENDING" => Status(id[1]) # "SKIPPED"

\* A handler that believes in a payment has one, and the job that holds a box has it alone:
\* the lock job a LOCKED box, the retry job one that only a paid link may take from it.
Captured(p) == PayId(p) \in PayIds /\ captures[PayId(p)] > 0
Tried(p) == PayId(p) \in PayIds /\ pay[PayId(p)] # None
Collected(p) == \/ proc[p].pc \in {"mark", "outcome"} /\ proc[p].ok
                \/ proc[p].pc = "commitCharged"
Charging == {"probe", "record", "provider", "mark", "outcome", "commitCharged"}
LockOK == proc["lock"].pc # "idle" =>
  /\ proc["lock"].pc \in {"charge", "issue", "await", "commitFailed"} \cup Charging
  /\ proc["lock"].path = "lock"
  /\ Status(proc["lock"].c) = "LOCKED"
  /\ proc["lock"].pc \in {"charge", "issue"} =>
       \A id \in PayIds : id[1] = proc["lock"].c => pay[id] = None
  /\ proc["lock"].pc = "mark" => Tried("lock")
  /\ Collected("lock") => Captured("lock")
RetryOK == proc["retry"].pc # "idle" =>
  /\ proc["retry"].pc \in {"relink", "commitRetryAt", "commitSkip"} \cup Charging
  /\ proc["retry"].path = "retry"
  /\ Status(proc["retry"].c) \in {"UNPAID", "CHARGED"}
  /\ proc["retry"].c # 1 /\ order[proc["retry"].c] # None
  /\ proc["retry"].pc = "mark" => Tried("retry")
  /\ Collected("retry") => Captured("retry")
PspOK == proc["psp"].pc # "idle" =>
  /\ proc["psp"].pc \in {"settle", "settled", "outcome", "commitCharged"}
  /\ proc["psp"].path = "link"
  /\ Captured("psp")
  /\ proc["psp"].pc # "settle" => proc["psp"].ok
  /\ proc["psp"].pc \in {"outcome", "commitCharged"} => proc["psp"].kind = "lnk"

Books == BoxesOK /\ EngineSub
Money == LinksOK /\ OneOpenLink /\ PaidMoneyBacked
Jobs == LockOK /\ RetryOK /\ PspOK
IInv == TypeInv /\ MoneyInv /\ Books /\ Money /\ Jobs
-------------------------------------------------------------------------------
LEMMA InitInv == Init => IInv
<1>. SUFFICES ASSUME Init PROVE IInv OBVIOUS
<1>1. TypeInv BY TypeInit
<1>2. MoneyInv BY DEF Init, MoneyInv, Idle
<1>3. Books
  BY DEF Init, Books, BoxesOK, BoxOK, PrepaidOK, BilledOK, EngineSub, Status, Owed, GivenUp,
         Unbilled, None
<1>4. Money
  BY DEF Init, Money, LinksOK, OneOpenLink, PaidMoneyBacked, None
<1>5. Jobs
  BY DEF Init, Jobs, LockOK, RetryOK, PspOK, Idle, Procs
<1>. QED BY <1>1, <1>2, <1>3, <1>4, <1>5 DEF IInv

\* The properties of the runs follow.
LEMMA Consequences ==
  IInv => /\ SlotHeldWhileLive /\ CancelledSubHasNoBoxAhead /\ PrepaidBoxKept
          /\ MoneyAccounted /\ OneOpenLink /\ SkippedUnpaidClosed
<1>. SUFFICES ASSUME IInv
              PROVE  /\ SlotHeldWhileLive /\ CancelledSubHasNoBoxAhead /\ PrepaidBoxKept
                     /\ MoneyAccounted /\ OneOpenLink /\ SkippedUnpaidClosed
  OBVIOUS
<1>. USE DEF IInv, Books, Money, BoxesOK, BoxOK
<1>1. SlotHeldWhileLive BY DEF SlotHeldWhileLive, GivenUp
<1>2. CancelledSubHasNoBoxAhead BY DEF CancelledSubHasNoBoxAhead, EngineSub
<1>3. PrepaidBoxKept BY DEF PrepaidBoxKept, PrepaidOK
<1>4. MoneyAccounted
  BY DEF MoneyAccounted, ChargedIsPaid, PrepaidOK, BilledOK
<1>5. SkippedUnpaidClosed BY DEF SkippedUnpaidClosed, LinksOK, PrepaidOK, BilledOK, PayIds
<1>. QED BY <1>1, <1>2, <1>3, <1>4, <1>5
-------------------------------------------------------------------------------
(* What a step leaves alone *)

\* Statuses, orders, slots and subscription unchanged (only retry counters and flags move).
SameBooks == /\ \A c \in Cycles : Status(c)' = Status(c) /\ cycle'[c].skip = cycle[c].skip
             /\ UNCHANGED <<sub, order, delta, slots>>

\* Bills, payment rows and captures are never taken back.
Lasting == /\ \A c \in Cycles : Bill(c) # None => Bill(c)' # None
           /\ \A id \in PayIds : /\ captures[id] > 0 => captures'[id] > 0
                                 /\ pay[id] # None => pay'[id] # None

\* No payment row appears or goes, none becomes SUCCEEDED unpaid, no link opens.
QuietRows == \A id \in PayIds :
               /\ pay'[id] # None <=> pay[id] # None
               /\ pay'[id] = "SUCCEEDED" => pay[id] = "SUCCEEDED" \/ captures[id] > 0
               /\ pay'[id] = "PENDING" => pay[id] = "PENDING"

\* A box the lock job holds stays LOCKED, with no payment made for it by others.
LockSteady == LET c == proc["lock"].c IN
  proc["lock"].pc # "idle" /\ Status(c) = "LOCKED" =>
    /\ cycle'[c].status = "LOCKED"
    /\ \A id \in PayIds : id[1] = c /\ pay[id] = None => pay'[id] = None
RetrySteady == LET c == proc["retry"].c IN
  proc["retry"].pc # "idle" /\ Status(c) \in {"UNPAID", "CHARGED"} => cycle'[c].status \in {"UNPAID", "CHARGED"}

LEMMA BooksKept == ASSUME Books, SameBooks PROVE Books'
BY DEF Books, SameBooks, BoxesOK, BoxOK, PrepaidOK, BilledOK, EngineSub, Status

LEMMA SameBills == ASSUME SameBooks PROVE \A c \in Cycles : Bill(c)' = Bill(c)
BY DEF SameBooks, Bill

\* Rows settle or close and the books move on: the money stays accounted.
LEMMA MoneyKept ==
  ASSUME Money, Lasting, QuietRows, captures' = captures,
         \A c \in Cycles : Status(c)' = "LOCKED" =>
           \/ Status(c) = "LOCKED"
           \/ \A id \in PayIds : id[1] = c => pay[id] = None /\ ~(captures[id] > 0),
         \A c \in Cycles : Status(c)' = "SKIPPED" =>
           \/ Status(c) = "SKIPPED"
           \/ \A id \in PayIds : id[1] = c /\ IsLink(id) => pay'[id] # "PENDING",
         \A c \in Cycles : ("PAID" \in {delta'[c]} \cup (IF c = 1 THEN {} ELSE {order'[c]})) =>
           \/ "PAID" \in {delta[c]} \cup (IF c = 1 THEN {} ELSE {order[c]})
           \/ \E id \in PayIds : id[1] = c /\ captures[id] > 0
  PROVE  Money'
<1>. \A id \in PayIds : id[1] \in Cycles BY DEF PayIds
<1>1. LinksOK'
  BY DEF Money, LinksOK, Lasting, QuietRows
<1>2. OneOpenLink' BY DEF Money, OneOpenLink, QuietRows
<1>3. PaidMoneyBacked' BY DEF Money, PaidMoneyBacked
<1>. QED BY <1>1, <1>2, <1>3 DEF Money

LEMMA SameBooksMoney ==
  ASSUME Money, SameBooks, QuietRows, captures' = captures PROVE Money'
<1>1. Lasting BY SameBills DEF Lasting, QuietRows
<1>2. \A c \in Cycles : Status(c)' = Status(c) /\ delta' = delta /\ order' = order BY DEF SameBooks
<1>. QED BY <1>1, <1>2, MoneyKept

LEMMA LockKept ==
  ASSUME TypeInv, LockOK, Lasting, proc'["lock"] = proc["lock"], LockSteady PROVE LockOK'
<1>. SUFFICES ASSUME proc["lock"].pc # "idle" PROVE LockOK' BY DEF LockOK
<1>1. /\ Captured("lock") => Captured("lock")'
      /\ Tried("lock") => Tried("lock")'
  BY DEF Captured, Tried, PayId, Lasting
<1>2. Collected("lock")' <=> Collected("lock") BY DEF Collected
<1>. QED BY <1>1, <1>2 DEF LockOK, LockSteady, Status

LEMMA RetryKept ==
  ASSUME TypeInv, RetryOK, Lasting, proc'["retry"] = proc["retry"], RetrySteady PROVE RetryOK'
<1>. SUFFICES ASSUME proc["retry"].pc # "idle" PROVE RetryOK' BY DEF RetryOK
<1>1. /\ Captured("retry") => Captured("retry")'
      /\ Tried("retry") => Tried("retry")'
  BY DEF Captured, Tried, PayId, Lasting
<1>2. Collected("retry")' <=> Collected("retry") BY DEF Collected
<1>3. proc["retry"].c \in Cycles BY Running DEF TypeInv, Procs
<1>. QED BY <1>1, <1>2, <1>3 DEF RetryOK, RetrySteady, Lasting, Bill, Status

LEMMA PspKept == ASSUME PspOK, Lasting, proc'["psp"] = proc["psp"] PROVE PspOK'
<1>1. Captured("psp") => Captured("psp")' BY DEF Captured, PayId, Lasting
<1>. QED BY <1>1 DEF PspOK

\* The handlers that do not move, together.
Steady == /\ Lasting
          /\ proc'["lock"] = proc["lock"] => LockSteady
          /\ proc'["retry"] = proc["retry"] => RetrySteady
LEMMA JobsKept == ASSUME TypeInv, Jobs, Steady
                  PROVE  /\ proc'["lock"] = proc["lock"] => LockOK'
                         /\ proc'["retry"] = proc["retry"] => RetryOK'
                         /\ proc'["psp"] = proc["psp"] => PspOK'
BY LockKept, RetryKept, PspKept DEF Jobs, Steady

\* A handler that ends keeps its part.
LEMMA EndsOK == ASSUME TypeInv
                PROVE /\ proc'["lock"] = Idle => LockOK'
                      /\ proc'["retry"] = Idle => RetryOK'
                      /\ proc'["psp"] = Idle => PspOK'
BY DEF LockOK, RetryOK, PspOK, Idle

\* A step that writes no books and no payment rows of a locked box is steady.
LEMMA SameBooksSteady ==
  ASSUME TypeInv, SameBooks, QuietRows, captures' = captures PROVE Steady
<1>1. Lasting BY SameBills DEF Lasting, QuietRows
<1>2. LockSteady
  <2>1. proc["lock"].pc # "idle" => proc["lock"].c \in Cycles BY Running DEF TypeInv, Procs
  <2>. QED BY <2>1 DEF LockSteady, SameBooks, QuietRows, Status
<1>3. RetrySteady
  <2>1. proc["retry"].pc # "idle" => proc["retry"].c \in Cycles BY Running DEF TypeInv, Procs
  <2>. QED BY <2>1 DEF RetrySteady, SameBooks, Status
<1>. QED BY <1>1, <1>2, <1>3 DEF Steady
-------------------------------------------------------------------------------
(* What the handlers' own moves change *)

\* g is h moved on to pc, with the same box; with the same attempt and outcome.
Moved(h, g, pc) == g.pc = pc /\ g.path = h.path /\ g.c = h.c
SameAttempt(h, g) == g.n = h.n /\ g.kind = h.kind
SameOutcome(h, g) == g.ok = h.ok

LEMMA MovePc ==
  ASSUME NEW h \in Handler, NEW pc
  PROVE  LET g == [h EXCEPT !.pc = pc] IN Moved(h, g, pc) /\ SameAttempt(h, g) /\ SameOutcome(h, g)
BY DEF Handler, Moved, SameAttempt, SameOutcome

LEMMA MoveOk ==
  ASSUME NEW h \in Handler, NEW pc, NEW ok
  PROVE  LET g == [h EXCEPT !.pc = pc, !.ok = ok] IN Moved(h, g, pc) /\ SameAttempt(h, g) /\ g.ok = ok
BY DEF Handler, Moved, SameAttempt

LEMMA MoveSub ==
  ASSUME NEW h \in Handler, NEW pc, NEW s
  PROVE  LET g == [h EXCEPT !.pc = pc, !.sub = s] IN
         Moved(h, g, pc) /\ SameAttempt(h, g) /\ SameOutcome(h, g)
BY DEF Handler, Moved, SameAttempt, SameOutcome

LEMMA MoveFailed ==
  ASSUME NEW h \in Handler, NEW pc, NEW s, NEW n
  PROVE  LET g == [h EXCEPT !.pc = pc, !.sub = s, !.failed = n] IN
         Moved(h, g, pc) /\ SameAttempt(h, g) /\ SameOutcome(h, g)
BY DEF Handler, Moved, SameAttempt, SameOutcome

LEMMA MoveN ==
  ASSUME NEW h \in Handler, NEW pc, NEW n
  PROVE  LET g == [h EXCEPT !.pc = pc, !.n = n] IN Moved(h, g, pc)
BY DEF Handler, Moved

\* A job goes on with its box; whatever it then believes to have been paid was paid.
Believes(g) == (g.pc \in {"mark", "outcome"} /\ g.ok) \/ g.pc = "commitCharged"
Attempt(g) == <<g.c, g.kind, g.n>>

LEMMA LockMoves ==
  ASSUME TypeInv, LockOK, proc["lock"].pc # "idle", NEW g, NEW pc,
         proc' = [proc EXCEPT !["lock"] = g], Moved(proc["lock"], g, pc),
         pc \in {"issue", "await", "commitFailed"} \cup Charging,
         cycle'[proc["lock"].c].status = "LOCKED",
         pc = "issue" => \A id \in PayIds : id[1] = proc["lock"].c => pay'[id] = None,
         pc = "mark" => Attempt(g) \in PayIds /\ pay'[Attempt(g)] # None,
         Believes(g) => Attempt(g) \in PayIds /\ captures'[Attempt(g)] > 0
  PROVE  LockOK'
<1>1. proc'["lock"] = g /\ "lock" \in Procs BY DEF TypeInv, HandlersOK, Procs
<1>2. Collected("lock")' => Captured("lock")'
  BY <1>1 DEF Collected, Captured, PayId, Believes, Attempt
<1>3. pc = "mark" => Tried("lock")' BY <1>1 DEF Tried, PayId, Attempt
<1>4. g.pc = pc /\ g.path = "lock" /\ g.c = proc["lock"].c BY DEF Moved, LockOK
<1>. QED BY <1>1, <1>2, <1>3, <1>4 DEF LockOK, Charging, Status

LEMMA RetryMoves ==
  ASSUME TypeInv, RetryOK, proc["retry"].pc # "idle", NEW g, NEW pc,
         proc' = [proc EXCEPT !["retry"] = g], Moved(proc["retry"], g, pc),
         pc \in {"relink", "commitRetryAt", "commitSkip"} \cup Charging,
         cycle'[proc["retry"].c].status \in {"UNPAID", "CHARGED"}, order' = order,
         pc = "mark" => Attempt(g) \in PayIds /\ pay'[Attempt(g)] # None,
         Believes(g) => Attempt(g) \in PayIds /\ captures'[Attempt(g)] > 0
  PROVE  RetryOK'
<1>1. proc'["retry"] = g /\ "retry" \in Procs BY DEF TypeInv, HandlersOK, Procs
<1>2. Collected("retry")' => Captured("retry")'
  BY <1>1 DEF Collected, Captured, PayId, Believes, Attempt
<1>3. pc = "mark" => Tried("retry")' BY <1>1 DEF Tried, PayId, Attempt
<1>4. g.pc = pc /\ g.path = "retry" /\ g.c = proc["retry"].c BY DEF Moved, RetryOK
<1>. QED BY <1>1, <1>2, <1>3, <1>4 DEF RetryOK, Charging, Status

\* A job goes on charging in step: a box and a captured attempt stay what they were.
Onwards(p, g, pc) ==
  /\ proc' = [proc EXCEPT ![p] = g] /\ Moved(proc[p], g, pc)
  /\ pc \in Charging \cup (IF p = "lock" THEN {"issue", "commitFailed"}
                           ELSE {"commitRetryAt", "commitSkip"})
  /\ pc = "issue" => proc[p].pc = "charge" /\ pay' = pay
  /\ pc = "mark" => Attempt(g) \in PayIds /\ pay'[Attempt(g)] # None
  /\ Believes(g) => Attempt(g) \in PayIds /\ captures'[Attempt(g)] > 0

LEMMA JobGoesOn ==
  ASSUME TypeInv, Jobs, Steady, SameBooks, NEW p \in {"lock", "retry"}, proc[p].pc # "idle",
         NEW g, NEW pc, Onwards(p, g, pc)
  PROVE  Jobs'
<1>1. \A q \in Procs : q # p => proc'[q] = proc[q] BY DEF Onwards, TypeInv, HandlersOK
<1>2. PspOK' BY <1>1, JobsKept DEF Procs
<1>. p \in Procs /\ {"lock", "retry"} \subseteq Procs BY DEF Procs
<1>0. proc[p].c \in Cycles BY Running DEF TypeInv
<1>3. CASE p = "lock"
  <2>1. RetryOK' BY <1>1, <1>3, JobsKept
  <2>2. cycle'[proc["lock"].c].status = "LOCKED"
    BY <1>0, <1>3 DEF Jobs, LockOK, SameBooks, Status
  <2>. DEFINE Untried == \A id \in PayIds : id[1] = proc["lock"].c => pay'[id] = None
  <2>3. pc = "issue" => Untried
    <3>. SUFFICES ASSUME pc = "issue" PROVE Untried OBVIOUS
    <3>. QED BY <1>3 DEF Jobs, LockOK, Onwards
  <2>. QED BY <1>2, <1>3, <2>1, <2>2, <2>3, LockMoves DEF Jobs, Onwards
<1>4. CASE p = "retry"
  <2>1. LockOK' BY <1>1, <1>4, JobsKept
  <2>2. cycle'[proc["retry"].c].status \in {"UNPAID", "CHARGED"}
    BY <1>0, <1>4 DEF Jobs, RetryOK, SameBooks, Status
  <2>. QED BY <1>2, <1>4, <2>1, <2>2, RetryMoves DEF Jobs, Onwards, SameBooks
<1>. QED BY <1>3, <1>4

Core == Books /\ Money /\ Jobs

\* A handler that ends leaves the others' parts alone.
LEMMA JobEnds == ASSUME TypeInv, Jobs, Steady, NEW p \in Procs, Finish(p), Admins = {} PROVE Jobs'
<1>1. proc'[p] = Idle /\ \A q \in Procs : q # p => proc'[q] = proc[q]
  BY DEF Finish, TypeInv, HandlersOK
<1>2. Procs = {"lock", "retry", "psp"} BY DEF Procs
<1>. QED BY <1>1, <1>2, JobsKept, EndsOK DEF Jobs

\* Steps that write neither books nor payments.
Aside == SameBooks /\ UNCHANGED <<pay, captures>>

LEMMA AsideKept == ASSUME TypeInv, Core, Aside PROVE Books' /\ Money' /\ Steady
<1>1. QuietRows BY DEF Aside, QuietRows
<1>. QED BY <1>1, BooksKept, SameBooksMoney, SameBooksSteady DEF Core, Aside

LEMMA AsideEnds == ASSUME TypeInv, Core, Aside, NEW p \in Procs, Finish(p), Admins = {} PROVE Core'
BY AsideKept, JobEnds DEF Core

LEMMA AsideGoesOn ==
  ASSUME TypeInv, Core, Aside, NEW p \in {"lock", "retry"}, proc[p].pc # "idle",
         NEW g, NEW pc, Onwards(p, g, pc)
  PROVE  Core'
BY AsideKept, JobGoesOn DEF Core, Aside

LEMMA DbAside == ASSUME UNCHANGED dbVars PROVE Aside
BY DEF dbVars, subVars, orderVars, pspVars, Aside, SameBooks, Status

\* chargeLocked.
LEMMA ChargeLockedCore ==
  ASSUME TypeInv, Core, NEW p \in Procs, ChargeLocked(p), Admins = {} PROVE Core'
<1>. Aside BY DbAside DEF ChargeLocked
<1>0. p = "lock" /\ proc[p].pc = "charge" /\ proc[p] \in Handler
  BY DEF ChargeLocked, Core, Jobs, RetryOK, PspOK, Charging, Procs, TypeInv, HandlersOK
<1>1. CASE Finish(p) BY <1>1, AsideEnds
<1>2. CASE proc' = [proc EXCEPT ![p] = [proc[p] EXCEPT !.pc = "probe", !.n = 1]]
  <2>. DEFINE g == [proc[p] EXCEPT !.pc = "probe", !.n = 1]
  <2>1. Moved(proc[p], g, "probe") BY <1>0, MoveN
  <2>2. Onwards(p, g, "probe") BY <1>2, <2>1 DEF Onwards, Moved, Believes, Charging
  <2>. QED BY <1>0, <2>2, AsideGoesOn
<1>3. CASE Goto(p, "issue")
  <2>. DEFINE g == [proc[p] EXCEPT !.pc = "issue"]
  <2>1. Moved(proc[p], g, "issue") BY <1>0, MovePc
  <2>2. Onwards(p, g, "issue")
    BY <1>0, <1>3, <2>1 DEF Goto, Onwards, Moved, Believes, Aside
  <2>. QED BY <1>0, <2>2, AsideGoesOn
<1>. QED BY <1>1, <1>2, <1>3 DEF ChargeLocked

\* The idempotency probe: an attempt found SUCCEEDED was captured.
LEMMA ProbeCore ==
  ASSUME TypeInv, Core, NEW p \in Procs, Probe(p), Admins = {} PROVE Core'
<1>. Aside BY DbAside DEF Probe
<1>0. p \in {"lock", "retry"} /\ proc[p].pc = "probe" /\ proc[p] \in Handler /\ proc[p].c \in Cycles
  BY Running DEF Probe, Core, Jobs, PspOK, Procs, TypeInv, HandlersOK
<1>1. PICK n \in proc[p].n..MaxAttempt :
        LET s == pay[<<proc[p].c, "cyc", n>>] IN
        proc' = [proc EXCEPT ![p] = [proc[p] EXCEPT !.n = n, !.kind = "cyc",
                                       !.pc = IF s = None THEN "record" ELSE "outcome",
                                       !.ok = CollectedBefore(s)]]
  BY DEF Probe
<1>2. proc[p].n \in Nat /\ proc[p].n >= 1 BY <1>0 DEF TypeInv, HandlersOK, Sound, Handler
<1>3. n \in 1..MaxAttempt BY <1>2, BoundsAssumption
<1>. DEFINE id == <<proc[p].c, "cyc", n>>
            pc == IF pay[id] = None THEN "record" ELSE "outcome"
            ok == CollectedBefore(pay[id])
<1>4. id \in PayIds BY <1>0, <1>3 DEF PayIds
<1>5. ok => captures[id] > 0 BY <1>4 DEF CollectedBefore, Core, Money, LinksOK
<1>6. pc \in {"record", "outcome"} OBVIOUS
<1>7. proc' = [proc EXCEPT ![p] = [proc[p] EXCEPT !.n = n, !.kind = "cyc", !.pc = pc, !.ok = ok]]
  BY <1>1
<1>8. captures' = captures BY DEF Aside
<1>. HIDE DEF pc, ok
<1>. DEFINE g == [proc[p] EXCEPT !.n = n, !.kind = "cyc", !.pc = pc, !.ok = ok]
<1>9. Moved(proc[p], g, pc) /\ g.n = n /\ g.kind = "cyc" /\ g.ok = ok
  BY <1>0 DEF Handler, Moved
<1>10. Attempt(g) = id BY <1>9 DEF Moved, Attempt
<1>. HIDE DEF g, id
<1>11. Onwards(p, g, pc)
  <2>1. proc' = [proc EXCEPT ![p] = g] BY <1>7 DEF g
  <2>. QED BY <1>4, <1>5, <1>6, <1>8, <1>9, <1>10, <2>1 DEF Onwards, Moved, Believes, Charging
<1>. QED BY <1>0, <1>11, AsideGoesOn

\* What the handlers believe is what the money invariant of the jobs says.
LEMMA BelievesCaptured ==
  ASSUME TypeInv, Jobs, NEW p \in Procs, Admins = {}, proc[p].pc \in {"outcome", "commitCharged"},
         proc[p].pc = "outcome" => proc[p].ok
  PROVE  Attempt(proc[p]) \in PayIds /\ captures[Attempt(proc[p])] > 0
BY DEF Jobs, LockOK, RetryOK, PspOK, Collected, Captured, PayId, Attempt, Procs

\* The callback goes on with a captured payment.
PspGoesOn(g) ==
  /\ proc' = [proc EXCEPT !["psp"] = g]
  /\ g.pc \in {"settle", "settled", "outcome", "commitCharged"} /\ g.path = "link"
  /\ Attempt(g) \in PayIds /\ captures'[Attempt(g)] > 0
  /\ g.pc # "settle" => g.ok
  /\ g.pc \in {"outcome", "commitCharged"} => g.kind = "lnk"

LEMMA PspMoves == ASSUME TypeInv, Jobs, Steady, NEW g, PspGoesOn(g) PROVE Jobs'
<1>1. "psp" \in Procs /\ proc'["psp"] = g /\ \A q \in Procs : q # "psp" => proc'[q] = proc[q]
  BY DEF PspGoesOn, TypeInv, HandlersOK, Procs
<1>2. LockOK' /\ RetryOK' BY <1>1, JobsKept DEF Procs
<1>3. Captured("psp")' BY <1>1 DEF Captured, PayId, Attempt, PspGoesOn
<1>. QED BY <1>1, <1>2, <1>3 DEF Jobs, PspOK, PspGoesOn

LEMMA AsidePsp == ASSUME TypeInv, Core, Aside, NEW g, PspGoesOn(g) PROVE Core'
BY AsideKept, PspMoves DEF Core

\* markCharged reads before it commits.
LEMMA ReadForChargedCore ==
  ASSUME TypeInv, Core, NEW p \in Procs, ReadForCharged(p), Admins = {} PROVE Core'
<1>. Aside BY DEF ReadForCharged, subVars, orderVars, Aside, SameBooks, Status
<1>0. proc[p] \in Handler /\ proc[p].pc = "outcome" /\ proc[p].ok
  BY DEF ReadForCharged, TypeInv, HandlersOK
<1>1. CASE Finish(p) BY <1>1, AsideEnds
<1>2. CASE proc' = [proc EXCEPT ![p] = [proc[p] EXCEPT !.pc = "commitCharged", !.sub = sub]]
  <2>. DEFINE g == [proc[p] EXCEPT !.pc = "commitCharged", !.sub = sub]
  <2>1. Moved(proc[p], g, "commitCharged") /\ SameAttempt(proc[p], g) /\ SameOutcome(proc[p], g)
    BY <1>0, MoveSub
  <2>2. Attempt(g) \in PayIds /\ captures'[Attempt(g)] > 0
    BY <1>0, <2>1, BelievesCaptured DEF Core, Attempt, Moved, SameAttempt, Aside
  <2>. HIDE DEF g
  <2>3. CASE p = "psp"
    <3>1. PspGoesOn(g)
      BY <1>0, <1>2, <2>1, <2>2, <2>3
      DEF g, PspGoesOn, Moved, SameAttempt, SameOutcome, Core, Jobs, PspOK
    <3>. QED BY <3>1, AsidePsp
  <2>4. CASE p # "psp"
    <3>1. Onwards(p, g, "commitCharged")
      BY <1>2, <2>1, <2>2 DEF g, Onwards, Charging
    <3>. QED BY <1>0, <2>4, <3>1, AsideGoesOn DEF Procs
  <2>. QED BY <2>3, <2>4
<1>. QED BY <1>1, <1>2 DEF ReadForCharged

\* The declined charge of the lock job, and its read before it gives up.
LEMMA ReadForFailedCore ==
  ASSUME TypeInv, Core, NEW p \in Procs, ReadForFailed(p) \/ ChargeDeclined(p), Admins = {}
  PROVE  Core'
<1>. Aside BY DbAside DEF ReadForFailed, ChargeDeclined, Abort
<1>0. proc[p] \in Handler /\ proc[p].pc = "outcome" /\ ~proc[p].ok
  BY DEF ReadForFailed, ChargeDeclined, TypeInv, HandlersOK
<1>1. CASE Finish(p) BY <1>1, AsideEnds
<1>2. CASE ReadForFailed(p) /\ Goto(p, "commitFailed")
  <2>. DEFINE g == [proc[p] EXCEPT !.pc = "commitFailed"]
  <2>1. p = "lock"
    BY <1>0, <1>2 DEF ReadForFailed, FailsLocked, Core, Jobs, RetryOK, PspOK, Procs
  <2>2. Moved(proc[p], g, "commitFailed") BY <1>0, MovePc
  <2>3. Onwards(p, g, "commitFailed") BY <1>2, <2>1, <2>2 DEF Goto, Onwards, Moved, Believes
  <2>. QED BY <1>0, <2>1, <2>3, AsideGoesOn
<1>. QED BY <1>1, <1>2 DEF ReadForFailed, ChargeDeclined, Abort

\* The declined retry, and the retry that came after the delivery-day limit.
LEMMA ReadForScheduleCore ==
  ASSUME TypeInv, Core, NEW p \in Procs, ReadForSchedule(p) \/ RelinkTooLate(p), Admins = {}
  PROVE  Core'
<1>. Aside BY DbAside DEF ReadForSchedule, RelinkTooLate
<1>0. proc[p] \in Handler /\ p = "retry" /\ proc[p].pc \in {"outcome", "relink"}
  BY DEF ReadForSchedule, RelinkTooLate, TypeInv, HandlersOK, Core, Jobs, LockOK, PspOK, Procs, Charging
<1>1. CASE Finish(p) BY <1>1, AsideEnds
<1>2. ASSUME NEW pc \in {"commitRetryAt", "commitSkip"},
             proc' = [proc EXCEPT ![p] = [proc[p] EXCEPT !.pc = pc, !.sub = sub, !.failed = failed]]
      PROVE  Core'
  <2>. DEFINE g == [proc[p] EXCEPT !.pc = pc, !.sub = sub, !.failed = failed]
  <2>1. Moved(proc[p], g, pc) BY <1>0, MoveFailed
  <2>2. Onwards(p, g, pc) BY <1>0, <1>2, <2>1 DEF Onwards, Moved, Believes
  <2>. QED BY <1>0, <2>2, AsideGoesOn
<1>. QED BY <1>1, <1>2 DEF ReadForSchedule, RelinkTooLate

\* payments:retry takes an UNPAID box, which is never the prepaid one.
LEMMA RetryCore ==
  ASSUME TypeInv, Core, NEW c \in Cycles, RetryCycle(c), Admins = {} PROVE Core'
<1>0. cycle \in [Cycles -> Row] BY DEF TypeInv, CycleOK
<1>. Aside
  BY <1>0 DEF RetryCycle, StartRetry, subVars, orderVars, pspVars, Aside, SameBooks, Status, Row
<1>1. Status(c) = "UNPAID" /\ cycle'[c].status = "UNPAID"
  BY <1>0 DEF RetryCycle, StartRetry, Status, Row
<1>2. PICK pc \in {"probe", "relink"} :
        proc' = [proc EXCEPT !["retry"] = [Idle EXCEPT !.pc = pc, !.path = "retry", !.c = c,
                                                       !.n = cycle[c].retry + 2]]
  BY DEF RetryCycle, StartRetry
<1>3. /\ proc'["retry"].pc = pc /\ proc'["retry"].path = "retry" /\ proc'["retry"].c = c
      /\ \A q \in Procs : q # "retry" => proc'[q] = proc[q]
  BY <1>2 DEF TypeInv, HandlersOK, Procs, Idle
<1>4. c # 1 /\ order[c] # None BY <1>1 DEF Core, Books, BoxesOK, BoxOK, PrepaidOK, BilledOK, Owed, Open, None
<1>5. LockOK' /\ PspOK' BY <1>3, AsideKept, JobsKept DEF Core, Procs
<1>6. ~Collected("retry")' BY <1>3 DEF Collected
<1>7. RetryOK' BY <1>1, <1>3, <1>4, <1>6 DEF RetryOK, Charging, Status, Aside, SameBooks
<1>. QED BY <1>5, <1>7, AsideKept DEF Core, Jobs

\* CommitRetryAt, a new card, the removal of a card, 08:00 of a delivery day.
LEMMA FlagsCore ==
  ASSUME TypeInv, Core, Admins = {},
         \/ \E p \in Procs : CommitRetryAt(p)
         \/ UpdateCard \/ DeactivateCard \/ \E c \in Cycles : DeadlinePasses(c)
  PROVE  Core'
<1>0. cycle \in [Cycles -> Row] BY DEF TypeInv, CycleOK
<1>. Aside
  <2>. USE DEF subVars, orderVars, pspVars, Aside, SameBooks, Status
  <2>1. ASSUME NEW p \in Procs, CommitRetryAt(p) PROVE Aside
    BY <1>0, <2>1 DEF CommitRetryAt, Row
  <2>2. CASE UpdateCard BY <1>0, <2>2 DEF UpdateCard, Row
  <2>3. CASE DeactivateCard \/ \E c \in Cycles : DeadlinePasses(c)
    BY <2>3 DEF DeactivateCard, DeadlinePasses
  <2>. QED BY <2>1, <2>2, <2>3
<1>1. ASSUME NEW p \in Procs, CommitRetryAt(p) PROVE Core'
  BY <1>1, AsideEnds DEF CommitRetryAt
<1>2. CASE proc' = proc
  <2>1. Jobs' BY <1>2, AsideKept, JobsKept DEF Core, Jobs
  <2>. QED BY <2>1, AsideKept DEF Core
<1>. QED BY <1>1, <1>2 DEF UpdateCard, DeactivateCard, DeadlinePasses

\* A crash ends every handler.
LEMMA CrashCore == ASSUME TypeInv, Core, Crash PROVE Core'
<1>. Aside BY DEF Crash, subVars, orderVars, pspVars, Aside, SameBooks, Status
<1>1. \A p \in Procs : proc'[p] = Idle BY DEF Crash
<1>2. Jobs' BY <1>1, EndsOK DEF Jobs, Procs
<1>. QED BY <1>2, AsideKept DEF Core

\* The job's second pass.
LEMMA PickStrandedCore == ASSUME TypeInv, Core, NEW c \in Cycles, PickStranded(c) PROVE Core'
<1>. Aside BY DbAside DEF PickStranded
<1>1. /\ proc'["lock"].pc = "charge" /\ proc'["lock"].path = "lock" /\ proc'["lock"].c = c
      /\ \A q \in Procs : q # "lock" => proc'[q] = proc[q]
  BY DEF PickStranded, TypeInv, HandlersOK, Procs, Idle
<1>2. RetryOK' /\ PspOK' BY <1>1, AsideKept, JobsKept DEF Core, Procs
<1>3. cycle'[c].status = "LOCKED" /\ \A id \in PayIds : id[1] = c => pay'[id] = None
  BY DEF PickStranded, PaymentsOf, dbVars, Status
<1>4. LockOK' BY <1>1, <1>3 DEF LockOK, Collected, Status
<1>. QED BY <1>2, <1>4, AsideKept DEF Core, Jobs

\* The callback picks a captured payment, and finds a link's box still to be settled.
LEMMA SettleCore ==
  ASSUME TypeInv, Core, Admins = {}, SettleLink \/ \E id \in PayIds : Settle(id) PROVE Core'
<1>0. "psp" \in Procs /\ proc["psp"] \in Handler BY DEF TypeInv, HandlersOK, Procs
<1>1. ASSUME NEW id \in PayIds, Settle(id) PROVE Core'
  <2>. Aside BY <1>1, DbAside DEF Settle
  <2>. DEFINE g == [Idle EXCEPT !.pc = "settle", !.path = "link", !.c = id[1],
                                !.kind = id[2], !.n = id[3], !.from = pay[id]]
  <2>1. g.pc = "settle" /\ g.path = "link" /\ Attempt(g) = <<id[1], id[2], id[3]>>
    BY DEF Idle, Attempt
  <2>2. id = <<id[1], id[2], id[3]>> BY DEF PayIds
  <2>3. captures'[id] > 0 /\ proc' = [proc EXCEPT !["psp"] = g] BY <1>1 DEF Settle, Aside
  <2>. HIDE DEF g
  <2>4. PspGoesOn(g) BY <2>1, <2>2, <2>3 DEF PspGoesOn
  <2>. QED BY <2>4, AsidePsp
<1>2. CASE SettleLink
  <2>. Aside BY <1>2 DEF SettleLink, subVars, orderVars, Aside, SameBooks, Status
  <2>1. CASE Finish("psp") BY <1>0, <2>1, AsideEnds
  <2>2. CASE Goto("psp", "outcome")
    <3>. DEFINE g == [proc["psp"] EXCEPT !.pc = "outcome"]
    <3>1. Moved(proc["psp"], g, "outcome") /\ SameAttempt(proc["psp"], g) /\ SameOutcome(proc["psp"], g)
      BY <1>0, MovePc
    <3>2. proc["psp"].pc = "settled" /\ proc["psp"].kind = "lnk" BY <1>2 DEF SettleLink
    <3>3. proc' = [proc EXCEPT !["psp"] = g] BY <2>2 DEF Goto
    <3>. HIDE DEF g
    <3>4. Attempt(g) \in PayIds /\ captures'[Attempt(g)] > 0
      BY <3>1, <3>2 DEF Core, Jobs, PspOK, Captured, PayId, Attempt, Moved, SameAttempt, Aside
    <3>5. PspGoesOn(g)
      BY <3>1, <3>2, <3>3, <3>4
      DEF PspGoesOn, Moved, SameAttempt, SameOutcome, Core, Jobs, PspOK
    <3>. QED BY <3>5, AsidePsp
  <2>. QED BY <1>2, <2>1, <2>2 DEF SettleLink
<1>. QED BY <1>1, <1>2
-------------------------------------------------------------------------------
(* Payments: rows settle, money moves, rows are recorded. *)

LEMMA RowsKept ==
  ASSUME TypeInv, Core, SameBooks, QuietRows, captures' = captures PROVE Books' /\ Money' /\ Steady
BY BooksKept, SameBooksMoney, SameBooksSteady DEF Core

\* A link or a charge in flight is closed: the stale links of the expiry job, and a "failed"
\* notification.
LEMMA ClosedRowCore ==
  ASSUME TypeInv, Core, NEW id \in PayIds, ExpireStaleLink(id) \/ SettleFailed(id) PROVE Core'
<1>. SameBooks /\ captures' = captures
  BY DEF ExpireStaleLink, SettleFailed, subVars, orderVars, pspVars, SameBooks, Status
<1>1. QuietRows BY DEF ExpireStaleLink, SettleFailed, QuietRows, None, TypeInv, PayOK
<1>2. proc' = proc BY DEF ExpireStaleLink, SettleFailed
<1>3. Jobs' BY <1>1, <1>2, RowsKept, JobsKept DEF Core, Jobs
<1>. QED BY <1>1, <1>3, RowsKept DEF Core

\* markSucceeded of a callback overwrites whatever closed the payment, which was captured.
LEMMA MarkSettledCore == ASSUME TypeInv, MoneyInv, Core, MarkSettled PROVE Core'
<1>. SameBooks /\ captures' = captures
  BY DEF MarkSettled, subVars, orderVars, pspVars, SameBooks, Status
<1>0. "psp" \in Procs /\ proc["psp"] \in Handler BY DEF TypeInv, HandlersOK, Procs
<1>1. PayId("psp") \in PayIds /\ captures[PayId("psp")] > 0 /\ proc["psp"].path = "link"
  BY DEF MarkSettled, Core, Jobs, PspOK, Captured
<1>2. pay[PayId("psp")] # None BY <1>1 DEF MoneyInv
<1>3. QuietRows BY <1>1, <1>2 DEF MarkSettled, QuietRows, TypeInv, PayOK, None
<1>. DEFINE g == [proc["psp"] EXCEPT !.pc = "settled", !.ok = TRUE]
<1>4. Moved(proc["psp"], g, "settled") /\ SameAttempt(proc["psp"], g) /\ g.ok = TRUE
  BY <1>0, MoveOk
<1>5. proc' = [proc EXCEPT !["psp"] = g] BY DEF MarkSettled
<1>. HIDE DEF g
<1>6. Attempt(g) = PayId("psp") BY <1>4 DEF Attempt, PayId, Moved, SameAttempt
<1>7. PspGoesOn(g) BY <1>1, <1>4, <1>5, <1>6 DEF PspGoesOn, Moved
<1>8. Jobs' BY <1>3, <1>7, RowsKept, PspMoves DEF Core
<1>. QED BY <1>3, <1>8, RowsKept DEF Core

\* markSucceeded / markFailed of a job.
LEMMA MarkPaymentCore ==
  ASSUME TypeInv, MoneyInv, Core, NEW p \in Procs, MarkPayment(p), Admins = {} PROVE Core'
<1>. SameBooks /\ captures' = captures
  BY DEF MarkPayment, subVars, orderVars, pspVars, SameBooks, Status
<1>0. p \in {"lock", "retry"} /\ proc[p].pc = "mark" /\ proc[p] \in Handler
  BY DEF MarkPayment, Core, Jobs, PspOK, Procs, TypeInv, HandlersOK
<1>1. proc[p].ok => PayId(p) \in PayIds /\ captures[PayId(p)] > 0
  BY <1>0 DEF Core, Jobs, LockOK, RetryOK, Collected, Captured
<1>2. QuietRows
  <2>1. CASE UNCHANGED pay BY <2>1 DEF QuietRows
  <2>2. CASE pay' = [pay EXCEPT ![PayId(p)] = IF proc[p].ok THEN "SUCCEEDED" ELSE "FAILED"]
              /\ CanPayment(pay[PayId(p)], IF proc[p].ok THEN "SUCCEEDED" ELSE "FAILED")
    <3>1. CASE proc[p].ok
      <4>1. pay[PayId(p)] # None BY <1>1, <3>1 DEF MoneyInv
      <4>. QED BY <1>1, <2>2, <3>1, <4>1 DEF QuietRows, TypeInv, PayOK, None
    <3>2. CASE ~proc[p].ok
      <4>1. PayId(p) \in PayIds /\ pay[PayId(p)] # None
        BY <1>0 DEF Core, Jobs, LockOK, RetryOK, Tried
      <4>. QED BY <2>2, <3>2, <4>1 DEF QuietRows, TypeInv, PayOK, None
    <3>. QED BY <3>1, <3>2
  <2>. QED BY <2>1, <2>2 DEF MarkPayment
<1>3. CASE Finish(p)
  <2>1. Jobs' BY <1>2, <1>3, RowsKept, JobEnds DEF Core
  <2>. QED BY <1>2, <2>1, RowsKept DEF Core
<1>4. CASE Goto(p, "outcome")
  <2>. DEFINE g == [proc[p] EXCEPT !.pc = "outcome"]
  <2>1. Moved(proc[p], g, "outcome") /\ SameAttempt(proc[p], g) /\ SameOutcome(proc[p], g)
    BY <1>0, MovePc
  <2>2. proc' = [proc EXCEPT ![p] = g] BY <1>4 DEF Goto
  <2>. HIDE DEF g
  <2>3. Attempt(g) = PayId(p) BY <2>1 DEF Attempt, PayId, Moved, SameAttempt
  <2>4. Onwards(p, g, "outcome")
    BY <1>1, <2>1, <2>2, <2>3 DEF Onwards, Charging, Believes, Moved, SameOutcome
  <2>5. Jobs' BY <1>0, <1>2, <2>4, RowsKept, JobGoesOn DEF Core
  <2>. QED BY <1>2, <2>5, RowsKept DEF Core
<1>. QED BY <1>3, <1>4 DEF MarkPayment

\* Money moves for an existing row, and for a link only once its box has left LOCKED.
Capturing == /\ UNCHANGED pay
             /\ \A id \in PayIds : captures[id] > 0 => captures'[id] > 0
             /\ \A id \in PayIds : captures'[id] > 0 => \/ captures[id] > 0
                                                        \/ ~IsLink(id)
                                                        \/ Status(id[1]) # "LOCKED"

LEMMA CapturingKept ==
  ASSUME TypeInv, Core, SameBooks, Capturing PROVE Books' /\ Money' /\ Steady
<1>. \A id \in PayIds : id[1] \in Cycles BY DEF PayIds
<1>1. Lasting BY SameBills DEF Lasting, Capturing
<1>2. \A id \in PayIds : Bill(id[1])' = Bill(id[1]) /\ Status(id[1])' = Status(id[1])
  BY SameBills DEF SameBooks
<1>3. LinksOK' BY <1>2 DEF Core, Money, LinksOK, Capturing
<1>4. OneOpenLink' BY DEF Core, Money, OneOpenLink, Capturing
<1>5. PaidMoneyBacked' BY DEF Core, Money, PaidMoneyBacked, Capturing, SameBooks
<1>6. LockSteady
  <2>1. proc["lock"].pc # "idle" => proc["lock"].c \in Cycles BY Running DEF TypeInv, Procs
  <2>. QED BY <2>1 DEF LockSteady, SameBooks, Capturing, Status
<1>7. RetrySteady
  <2>1. proc["retry"].pc # "idle" => proc["retry"].c \in Cycles BY Running DEF TypeInv, Procs
  <2>. QED BY <2>1 DEF RetrySteady, SameBooks, Status
<1>. QED BY <1>1, <1>3, <1>4, <1>5, <1>6, <1>7, BooksKept DEF Core, Money, Steady

\* The customer pays a link.
LEMMA PayLinkCore == ASSUME TypeInv, Core, NEW id \in PayIds, PayLink(id) PROVE Core'
<1>. SameBooks BY DEF PayLink, subVars, orderVars, SameBooks, Status
<1>1. Capturing BY DEF PayLink, Capturing, TypeInv, PayOK
<1>2. proc' = proc BY DEF PayLink
<1>3. Jobs' BY <1>1, <1>2, CapturingKept, JobsKept DEF Core, Jobs
<1>. QED BY <1>1, <1>3, CapturingKept DEF Core

\* The provider charges the card, or declines, or charges and loses the reply.
LEMMA CallProviderCore ==
  ASSUME TypeInv, MoneyInv, Core, NEW p \in Procs, CallProvider(p), Admins = {} PROVE Core'
<1>. SameBooks BY DEF CallProvider, subVars, orderVars, SameBooks, Status
<1>0. p \in {"lock", "retry"} /\ proc[p].pc = "provider" /\ proc[p] \in Handler
  BY DEF CallProvider, Core, Jobs, PspOK, Procs, TypeInv, HandlersOK
<1>1. PayId(p) \in PayIds /\ ~IsLink(PayId(p)) /\ pay[PayId(p)] # None /\ captures[PayId(p)] = 0
  BY <1>0, ProviderAttempt DEF TypeInv, MoneyInv
<1>2. PICK charged \in BOOLEAN, reply \in BOOLEAN :
        /\ reply => charged
        /\ captures' = [captures EXCEPT ![PayId(p)] = IF charged THEN @ + 1 ELSE @]
        /\ proc' = [proc EXCEPT ![p] = [proc[p] EXCEPT !.pc = "mark", !.ok = reply]]
  BY DEF CallProvider
<1>3. \A id \in PayIds : captures'[id] = IF id = PayId(p) /\ charged THEN 1 ELSE captures[id]
  BY <1>1, <1>2 DEF TypeInv, PayOK
<1>4. Capturing
  <2>1. pay' = pay BY DEF CallProvider
  <2>. QED BY <1>1, <1>3, <2>1 DEF Capturing
<1>. DEFINE g == [proc[p] EXCEPT !.pc = "mark", !.ok = reply]
<1>5. Moved(proc[p], g, "mark") /\ SameAttempt(proc[p], g) /\ g.ok = reply
  BY <1>0 DEF Handler, Moved, SameAttempt
<1>6. proc' = [proc EXCEPT ![p] = g] BY <1>2
<1>. HIDE DEF g
<1>7. Attempt(g) = PayId(p) BY <1>5 DEF Attempt, PayId, Moved, SameAttempt
<1>8. reply => captures'[PayId(p)] > 0 BY <1>1, <1>2, <1>3
<1>9. Onwards(p, g, "mark")
  BY <1>1, <1>4, <1>5, <1>6, <1>7, <1>8 DEF Onwards, Charging, Believes, Moved, Capturing
<1>10. Jobs' BY <1>0, <1>4, <1>9, CapturingKept, JobGoesOn DEF Core
<1>. QED BY <1>4, <1>10, CapturingKept DEF Core
-------------------------------------------------------------------------------
\* The box a job works on has a bill, and the two jobs never work on the same box.
LEMMA JobBilled ==
  ASSUME TypeInv, Core, NEW p \in {"lock", "retry"}, proc[p].pc # "idle"
  PROVE  /\ proc[p].c \in Cycles /\ Bill(proc[p].c) # None
         /\ Status(proc[p].c) \in (IF p = "lock" THEN {"LOCKED"} ELSE {"UNPAID", "CHARGED"})
<1>1. proc[p].c \in Cycles BY Running DEF TypeInv, Procs
<1>2. CASE p = "lock"
  BY <1>1, <1>2 DEF Core, Jobs, LockOK, Books, BoxesOK, BoxOK, PrepaidOK, BilledOK, Owed, Open, Bill, None
<1>3. CASE p = "retry" BY <1>1, <1>3 DEF Core, Jobs, RetryOK, Bill
<1>. QED BY <1>1, <1>2, <1>3

\* A row is recorded for the box of a job, after its open links were closed or left alone.
Recording(p, new, rows) ==
  /\ new \in PayIds /\ new[1] = proc[p].c /\ pay[new] = None
  /\ pay' = [rows EXCEPT ![new] = "PENDING"]
  /\ rows \in [PayIds -> PaymentStatus \cup {None}]
  /\ \A id \in PayIds : /\ rows[id] = None <=> pay[id] = None
                        /\ rows[id] \in {"PENDING", "SUCCEEDED"} => rows[id] = pay[id]
                        /\ IsLink(new) /\ IsLink(id) /\ id[1] = new[1] => rows[id] # "PENDING"

LEMMA RecordingKept ==
  ASSUME TypeInv, MoneyInv, Core, SameBooks, captures' = captures, NEW p \in {"lock", "retry"},
         proc[p].pc # "idle", p = "lock" => proc'["lock"] # proc["lock"],
         NEW new, NEW rows, Recording(p, new, rows)
  PROVE  Books' /\ Money' /\ Steady
<1>. \A id \in PayIds : id[1] \in Cycles BY DEF PayIds
<1>1. \A id \in PayIds : pay'[id] = IF id = new THEN "PENDING" ELSE rows[id] BY DEF Recording
<1>2. Lasting BY <1>1, SameBills DEF Lasting, Recording, None
<1>3. \A id \in PayIds : Bill(id[1])' = Bill(id[1]) /\ Status(id[1])' = Status(id[1])
  BY SameBills DEF SameBooks
<1>4. Bill(new[1]) # None /\ Status(new[1]) # "SKIPPED" /\ new \in PayIds BY JobBilled DEF Recording
<1>5. LinksOK'
  <2>. USE <1>1, <1>3, <1>4 DEF Core, Money, LinksOK, Recording
  <2>1. \A id \in PayIds : pay'[id] # None => Bill(id[1])' # None OBVIOUS
  <2>2. \A id \in PayIds : pay'[id] = "SUCCEEDED" => captures'[id] > 0 OBVIOUS
  <2>3. \A id \in PayIds : IsLink(id) /\ captures'[id] > 0 => Status(id[1])' # "LOCKED" OBVIOUS
  <2>4. \A id \in PayIds : IsLink(id) /\ pay'[id] = "PENDING" => Status(id[1])' # "SKIPPED" OBVIOUS
  <2>. QED BY <2>1, <2>2, <2>3, <2>4
<1>6. OneOpenLink' BY <1>1 DEF Core, Money, OneOpenLink, Recording
<1>7. PaidMoneyBacked' BY DEF Core, Money, PaidMoneyBacked, SameBooks
<1>8. p = "retry" => LockSteady
  <2>1. proc["lock"].pc # "idle" => proc["lock"].c \in Cycles BY Running DEF TypeInv, Procs
  <2>2. p = "retry" => Status(new[1]) # "LOCKED" BY JobBilled DEF Recording
  <2>. QED BY <1>1, <2>1, <2>2 DEF LockSteady, SameBooks, Status, Recording
<1>9. RetrySteady
  <2>1. proc["retry"].pc # "idle" => proc["retry"].c \in Cycles BY Running DEF TypeInv, Procs
  <2>. QED BY <2>1 DEF RetrySteady, SameBooks, Status
<1>. QED BY <1>2, <1>5, <1>6, <1>7, <1>8, <1>9, BooksKept DEF Core, Money, Steady

\* recordPayment.
LEMMA RecordPaymentCore ==
  ASSUME TypeInv, MoneyInv, Core, NEW p \in Procs, RecordPayment(p), Admins = {} PROVE Core'
<1>. SameBooks /\ captures' = captures
  BY DEF RecordPayment, subVars, orderVars, pspVars, SameBooks, Status
<1>0. p \in {"lock", "retry"} /\ proc[p].pc = "record" /\ proc[p] \in Handler
  BY DEF RecordPayment, Core, Jobs, PspOK, Procs, TypeInv, HandlersOK
<1>1. PayId(p) \in PayIds /\ ~IsLink(PayId(p)) BY <1>0, ProviderAttempt DEF TypeInv
<1>2. CASE Finish(p) /\ UNCHANGED pay BY <1>2, AsideEnds DEF Aside
<1>3. CASE ~Recorded(PayId(p)) /\ pay' = [pay EXCEPT ![PayId(p)] = "PENDING"] /\ Goto(p, "provider")
  <2>1. Recording(p, PayId(p), pay)
    BY <1>1, <1>3 DEF Recording, Recorded, PayId, TypeInv, PayOK
  <2>. DEFINE g == [proc[p] EXCEPT !.pc = "provider"]
  <2>2. Moved(proc[p], g, "provider") BY <1>0, MovePc
  <2>3. proc' = [proc EXCEPT ![p] = g] BY <1>3 DEF Goto
  <2>. HIDE DEF g
  <2>4. proc'[p] # proc[p] BY <1>0, <2>2, <2>3 DEF Moved, TypeInv, HandlersOK
  <2>5. Books' /\ Money' /\ Steady BY <1>0, <2>1, <2>4, RecordingKept
  <2>6. Onwards(p, g, "provider") BY <2>2, <2>3 DEF Onwards, Charging, Believes, Moved
  <2>7. Jobs' BY <1>0, <2>5, <2>6, JobGoesOn DEF Core
  <2>. QED BY <2>5, <2>7 DEF Core
<1>. QED BY <1>2, <1>3 DEF RecordPayment

\* issuePaymentLink of the lock job: the box has no payment yet.
LEMMA IssueLinkCore ==
  ASSUME TypeInv, MoneyInv, Core, NEW p \in Procs, IssueLink(p), Admins = {} PROVE Core'
<1>. SameBooks /\ captures' = captures
  BY DEF IssueLink, subVars, orderVars, pspVars, SameBooks, Status
<1>0. p = "lock" /\ proc[p].pc = "issue" /\ proc[p] \in Handler /\ proc[p].c \in Cycles
  BY Running DEF IssueLink, Core, Jobs, RetryOK, PspOK, Charging, Procs, TypeInv, HandlersOK
<1>1. PICK n \in 1..MaxAttempt : pay' = [pay EXCEPT ![<<proc[p].c, "lnk", n>>] = "PENDING"]
  BY DEF IssueLink
<1>2. \A id \in PayIds : id[1] = proc[p].c => pay[id] = None BY <1>0 DEF Core, Jobs, LockOK
<1>3. <<proc[p].c, "lnk", n>> \in PayIds BY <1>0 DEF PayIds
<1>4. Recording(p, <<proc[p].c, "lnk", n>>, pay)
  BY <1>1, <1>2, <1>3 DEF Recording, TypeInv, PayOK, None
<1>. DEFINE g == [proc[p] EXCEPT !.pc = "await"]
<1>5. Moved(proc[p], g, "await") BY <1>0, MovePc
<1>6. proc' = [proc EXCEPT ![p] = g] BY DEF IssueLink, Goto
<1>. HIDE DEF g
<1>7. proc'[p] # proc[p] /\ \A q \in Procs : q # p => proc'[q] = proc[q]
  BY <1>0, <1>5, <1>6 DEF Moved, TypeInv, HandlersOK
<1>8. Books' /\ Money' /\ Steady BY <1>0, <1>4, <1>7, RecordingKept
<1>9. RetryOK' /\ PspOK' BY <1>0, <1>7, <1>8, JobsKept DEF Core, Procs
<1>10. cycle'[proc["lock"].c].status = "LOCKED"
  BY <1>0 DEF Core, Jobs, LockOK, SameBooks, Status
<1>11. LockOK' BY <1>0, <1>5, <1>6, <1>10, LockMoves DEF Core, Jobs, Believes, Moved
<1>. QED BY <1>8, <1>9, <1>11 DEF Core, Jobs

\* The retry job closes the open links of its box and sends a new one.
LEMMA RelinkCore ==
  ASSUME TypeInv, MoneyInv, Core, NEW p \in Procs, Relink(p), Admins = {} PROVE Core'
<1>0. p = "retry" /\ proc[p].pc = "relink" /\ proc[p].c \in Cycles
  BY Running DEF Relink, Core, Jobs, LockOK, PspOK, Charging, Procs, TypeInv, HandlersOK
<1>. cycle \in [Cycles -> Row] BY DEF TypeInv, CycleOK
<1>. SameBooks /\ captures' = captures
  BY DEF Relink, subVars, orderVars, pspVars, SameBooks, Status, Row
<1>. DEFINE c == proc[p].c
<1>1. PICK n \in 1..MaxAttempt :
        Fresh(c, n) /\ pay' = [ExpireLinks(c) EXCEPT ![<<c, "lnk", n>>] = "PENDING"]
  BY DEF Relink
<1>2. <<c, "lnk", n>> \in PayIds BY <1>0 DEF PayIds
<1>3. Recording(p, <<c, "lnk", n>>, ExpireLinks(c))
  <2>1. \A id \in PayIds :
          ExpireLinks(c)[id] = IF id[1] = c /\ IsLink(id) /\ pay[id] = "PENDING" THEN "EXPIRED" ELSE pay[id]
    BY DEF ExpireLinks
  <2>2. ExpireLinks(c) \in [PayIds -> PaymentStatus \cup {None}] BY LinksTyped DEF TypeInv
  <2>. HIDE DEF c
  <2>. QED BY <1>1, <1>2, <2>1, <2>2 DEF Recording, Fresh, None, c
<1>4. Books' /\ Money' /\ Steady BY <1>0, <1>3, RecordingKept
<1>5. Jobs' BY <1>4, JobEnds DEF Relink, Core
<1>. QED BY <1>4, <1>5 DEF Core
-------------------------------------------------------------------------------
(* The steps that write the books of one box. *)

BoxStep(c) == \A d \in Cycles \ {c} : /\ cycle'[d].status = cycle[d].status
                                      /\ cycle'[d].skip = cycle[d].skip
                                      /\ order'[d] = order[d] /\ delta'[d] = delta[d]
                                      /\ slots'[d] = slots[d]

LEMMA BoxStepBooks ==
  ASSUME Books, NEW c \in Cycles, BoxStep(c), BoxOK(c)', EngineSub' PROVE Books'
<1>1. \A d \in Cycles \ {c} : BoxOK(d)'
  BY DEF Books, BoxesOK, BoxStep, BoxOK, PrepaidOK, BilledOK, Status
<1>. QED BY <1>1 DEF Books, BoxesOK

LEMMA BoxStepSteady ==
  ASSUME TypeInv, NEW c \in Cycles, BoxStep(c), Lasting, QuietRows,
         proc'["lock"] = proc["lock"] /\ Status(c) = "LOCKED" => cycle'[c].status = "LOCKED",
         proc'["retry"] = proc["retry"] /\ Status(c) \in {"UNPAID", "CHARGED"} =>
           cycle'[c].status \in {"UNPAID", "CHARGED"}
  PROVE  Steady
<1>1. proc'["lock"] = proc["lock"] => LockSteady
  <2>1. proc["lock"].pc # "idle" => proc["lock"].c \in Cycles BY Running DEF TypeInv, Procs
  <2>. QED BY <2>1 DEF LockSteady, BoxStep, Status, QuietRows
<1>2. proc'["retry"] = proc["retry"] => RetrySteady
  <2>1. proc["retry"].pc # "idle" => proc["retry"].c \in Cycles BY Running DEF TypeInv, Procs
  <2>. QED BY <2>1 DEF RetrySteady, BoxStep, Status
<1>. QED BY <1>1, <1>2 DEF Steady

\* A box without a bill has no payment.
LEMMA UnbilledUnpaid ==
  ASSUME MoneyInv, Core, NEW c \in Cycles, Status(c) \in Unbilled
  PROVE  \A id \in PayIds : id[1] = c => pay[id] = None /\ ~(captures[id] > 0)
<1>1. Bill(c) = None BY DEF Core, Books, BoxesOK, BoxOK, PrepaidOK, BilledOK, Bill
<1>2. \A id \in PayIds : id[1] = c => pay[id] = None BY <1>1 DEF Core, Money, LinksOK
<1>. QED BY <1>2 DEF MoneyInv

\* A cancelled subscription has nothing to lock.
LEMMA LockFindsActive ==
  ASSUME Core, NEW c \in Cycles, Status(c) = "SCHEDULED" PROVE sub \in {"ACTIVE", "PAST_DUE"}
BY DEF Core, Books, EngineSub

\* cycles:lock-and-charge with nothing due.
LEMMA LockFreeCore == ASSUME TypeInv, MoneyInv, Core, NEW c \in Cycles, LockFree(c) PROVE Core'
<1>. USE DEF subVars, orderVars, pspVars, envVars
<1>0. cycle \in [Cycles -> Row] /\ Status(c) = "SCHEDULED" /\ proc' = proc
  BY DEF TypeInv, CycleOK, LockFree, LockGuard
<1>1. cycle'[c].status = "CHARGED" /\ cycle'[c].skip = cycle[c].skip
  BY <1>0 DEF LockFree, Row
<1>2. BoxStep(c) /\ order' = order /\ delta' = delta /\ slots' = slots
  BY <1>0 DEF LockFree, BoxStep
<1>3. BoxOK(c)'
  BY <1>0, <1>1, <1>2
  DEF Core, Books, BoxesOK, BoxOK, PrepaidOK, BilledOK, Status, Unbilled, Owed, GivenUp, None
<1>4. EngineSub' BY <1>0, LockFindsActive DEF LockFree, EngineSub
<1>5. QuietRows /\ captures' = captures BY DEF LockFree, QuietRows
<1>6. Lasting BY <1>2, <1>5 DEF Lasting, Bill, QuietRows
<1>7. Money'
  <2>1. \A d \in Cycles : Status(d)' = "LOCKED" => Status(d) = "LOCKED"
    BY <1>1, <1>2 DEF BoxStep, Status
  <2>2. \A d \in Cycles : Status(d)' = "SKIPPED" => Status(d) = "SKIPPED"
    BY <1>1, <1>2 DEF BoxStep, Status
  <2>. QED BY <1>2, <1>5, <1>6, <2>1, <2>2, MoneyKept DEF Core
<1>8. Steady BY <1>0, <1>2, <1>5, <1>6, BoxStepSteady
<1>9. Jobs' BY <1>0, <1>8, JobsKept DEF Core, Jobs
<1>. QED BY <1>2, <1>3, <1>4, <1>7, <1>9, BoxStepBooks DEF Core

\* What lockPhaseA writes.
LEMMA LockPhaseABox ==
  ASSUME TypeInv, MoneyInv, Core, NEW c \in Cycles, LockPhaseA(c)
  PROVE  /\ BoxStep(c) /\ Status(c) = "SCHEDULED" /\ cycle'[c].status = "LOCKED"
         /\ cycle'[c].skip = cycle[c].skip
         /\ IF c = 1 THEN delta' = [delta EXCEPT ![c] = "PENDING_PAYMENT"] /\ order' = order
                     ELSE order' = [order EXCEPT ![c] = "PENDING_PAYMENT"] /\ delta' = delta
         /\ slots' = slots /\ pay' = pay /\ captures' = captures /\ sub' = sub
<1>0. cycle \in [Cycles -> Row] /\ OrderOK BY DEF TypeInv, CycleOK
<1>1. IF c = 1 THEN delta' = [delta EXCEPT ![c] = "PENDING_PAYMENT"] /\ order' = order
               ELSE order' = [order EXCEPT ![c] = "PENDING_PAYMENT"] /\ delta' = delta
  BY DEF LockPhaseA
<1>2. BoxStep(c)
  <2>1. \A d \in Cycles \ {c} : order'[d] = order[d] /\ delta'[d] = delta[d]
    BY <1>0, <1>1 DEF OrderOK
  <2>. QED BY <1>0, <2>1 DEF LockPhaseA, SetStatus, BoxStep
<1>3. cycle'[c].status = "LOCKED" /\ cycle'[c].skip = cycle[c].skip
  BY <1>0 DEF LockPhaseA, SetStatus, Row
<1>. QED BY <1>1, <1>2, <1>3 DEF LockPhaseA, LockGuard, subVars, pspVars

\* cycles:lock-and-charge: the box is locked and its order opened.
LEMMA LockPhaseACore == ASSUME TypeInv, MoneyInv, Core, NEW c \in Cycles, LockPhaseA(c) PROVE Core'
<1>. OrderOK BY DEF TypeInv
<1>1. /\ BoxStep(c) /\ Status(c) = "SCHEDULED" /\ cycle'[c].status = "LOCKED"
      /\ cycle'[c].skip = cycle[c].skip
      /\ IF c = 1 THEN delta' = [delta EXCEPT ![c] = "PENDING_PAYMENT"] /\ order' = order
                  ELSE order' = [order EXCEPT ![c] = "PENDING_PAYMENT"] /\ delta' = delta
      /\ slots' = slots /\ pay' = pay /\ captures' = captures /\ sub' = sub
  BY LockPhaseABox
<1>2. \A id \in PayIds : id[1] = c => pay[id] = None /\ ~(captures[id] > 0)
  BY <1>1, UnbilledUnpaid DEF Unbilled
<1>3. BoxOK(c)'
  BY <1>1
  DEF Core, Books, BoxesOK, BoxOK, PrepaidOK, BilledOK, Status, Unbilled, Owed, GivenUp, Open, OrderOK
<1>4. EngineSub' BY <1>1, LockFindsActive DEF EngineSub
<1>5. QuietRows BY <1>1 DEF QuietRows
<1>6. Lasting BY <1>1 DEF Lasting, Bill, OrderOK, None
<1>7. Money'
  <2>1. \A d \in Cycles : Status(d)' = "LOCKED" =>
           \/ Status(d) = "LOCKED"
           \/ \A id \in PayIds : id[1] = d => pay[id] = None /\ ~(captures[id] > 0)
    BY <1>1, <1>2 DEF BoxStep, Status
  <2>2. \A d \in Cycles : Status(d)' = "SKIPPED" => Status(d) = "SKIPPED"
    BY <1>1 DEF BoxStep, Status
  <2>3. \A d \in Cycles : /\ delta'[d] = "PAID" => delta[d] = "PAID"
                          /\ order'[d] = "PAID" => order[d] = "PAID"
    BY <1>1 DEF OrderOK
  <2>. QED BY <1>1, <1>5, <1>6, <2>1, <2>2, <2>3, MoneyKept DEF Core
<1>8. Steady BY <1>1, <1>5, <1>6, BoxStepSteady
<1>9. /\ proc'["lock"].pc = "charge" /\ proc'["lock"].path = "lock" /\ proc'["lock"].c = c
      /\ \A q \in Procs : q # "lock" => proc'[q] = proc[q]
  BY DEF LockPhaseA, TypeInv, HandlersOK, Procs, Idle
<1>10. RetryOK' /\ PspOK' BY <1>8, <1>9, JobsKept DEF Core, Procs
<1>11. LockOK' BY <1>1, <1>2, <1>9 DEF LockOK, Collected, Status
<1>. QED BY <1>1, <1>3, <1>4, <1>7, <1>10, <1>11, BoxStepBooks DEF Core, Jobs

\* The lock job's transaction after the link was issued.
LEMMA AwaitPaymentCore ==
  ASSUME TypeInv, MoneyInv, Core, NEW p \in Procs, AwaitPayment(p), Admins = {} PROVE Core'
<1>. USE DEF subVars, orderVars, pspVars, envVars
<1>c. PICK c \in Cycles : c = proc[p].c BY Running DEF AwaitPayment, TypeInv
<1>0. /\ p = "lock" /\ Status(c) = "LOCKED" /\ cycle \in [Cycles -> Row]
      /\ proc[p].pc = "await"
  BY <1>c DEF AwaitPayment, Core, Jobs, LockOK, RetryOK, PspOK, Charging, Procs, TypeInv, CycleOK
<1>1. cycle'[c].status = "AWAITING_PAYMENT" /\ cycle'[c].skip = cycle[c].skip
  BY <1>0, <1>c DEF AwaitPayment, SetStatus, Row
<1>2. BoxStep(c) /\ order' = order /\ delta' = delta /\ slots' = slots /\ sub' = sub
  BY <1>0, <1>c DEF AwaitPayment, SetStatus, BoxStep
<1>3. BoxOK(c)'
  <2>1. BoxOK(c) BY <1>0 DEF Core, Books, BoxesOK
  <2>. QED BY <1>0, <1>1, <1>2, <2>1 DEF BoxOK, PrepaidOK, BilledOK, Status, Unbilled, Owed, GivenUp
<1>4. EngineSub' BY <1>1, <1>2 DEF Core, Books, EngineSub, BoxStep, Status
<1>5. QuietRows /\ captures' = captures BY DEF AwaitPayment, QuietRows
<1>6. Lasting BY <1>2, <1>5 DEF Lasting, Bill, QuietRows
<1>7. Money'
  <2>1. \A d \in Cycles : /\ Status(d)' = "LOCKED" => Status(d) = "LOCKED"
                          /\ Status(d)' = "SKIPPED" => Status(d) = "SKIPPED"
    BY <1>1, <1>2 DEF BoxStep, Status
  <2>. QED BY <1>2, <1>5, <1>6, <2>1, MoneyKept DEF Core
<1>8. Steady
  <2>1. proc'["lock"] # proc["lock"]
    BY <1>0 DEF AwaitPayment, Finish, Idle, TypeInv, HandlersOK
  <2>. QED BY <1>0, <1>2, <1>5, <1>6, <2>1, BoxStepSteady
<1>9. Jobs' BY <1>8, JobEnds DEF AwaitPayment, Core
<1>. QED BY <1>0, <1>2, <1>3, <1>4, <1>7, <1>9, BoxStepBooks DEF Core
-------------------------------------------------------------------------------
(* Money that moved pays the bill. *)

\* A captured payment belongs to a box that is owed or charged, and payOrder pays its bill.
LEMMA CapturedBox ==
  ASSUME TypeInv, MoneyInv, Core, NEW id \in PayIds, captures[id] > 0,
         ChargedOrder(id[1]) \in Payable
  PROVE  id[1] \in Cycles /\ Status(id[1]) \in Owed \cup {"CHARGED"}
         /\ (IsDelta(id[1]) <=> id[1] = 1) /\ Bill(id[1]) # None
         /\ Bill(id[1]) = ChargedOrder(id[1])
<1>1. id[1] \in Cycles BY DEF PayIds
<1>2. BoxOK(id[1]) BY <1>1 DEF Core, Books, BoxesOK
<1>3. Bill(id[1]) # None BY DEF MoneyInv, Core, Money, LinksOK
<1>4. (IsDelta(id[1]) <=> id[1] = 1) /\ Bill(id[1]) = ChargedOrder(id[1])
  BY <1>2, <1>3 DEF IsDelta, ChargedOrder, Bill, BoxOK, BilledOK
<1>5. Status(id[1]) \notin Unbilled
  BY <1>2, <1>3 DEF BoxOK, PrepaidOK, BilledOK, Bill
<1>6. Status(id[1]) # "SKIPPED"
  <2>. SUFFICES ASSUME Status(id[1]) = "SKIPPED" PROVE FALSE OBVIOUS
  <2>1. id[1] # 1 /\ order[id[1]] = "CANCELLED" BY <1>2 DEF BoxOK, PrepaidOK, BilledOK
  <2>. QED BY <1>4, <2>1 DEF Bill, Payable, None
<1>. QED BY <1>1, <1>2, <1>3, <1>4, <1>5, <1>6 DEF BoxOK, GivenUp, Unbilled

\* payOrder for such a box.
BillPaid(c) == IF c = 1 THEN delta' = [delta EXCEPT ![c] = "PAID"] /\ order' = order
                        ELSE order' = [order EXCEPT ![c] = "PAID"] /\ delta' = delta

LEMMA PayOrderPays ==
  ASSUME TypeInv, MoneyInv, Core, NEW id \in PayIds, captures[id] > 0, PayOrder(id[1])
  PROVE  BillPaid(id[1])
<1>1. ChargedOrder(id[1]) \in Payable BY DEF PayOrder
<1>2. /\ IsDelta(id[1]) <=> id[1] = 1
      /\ Bill(id[1]) # None
  BY <1>1, CapturedBox
<1>. QED BY <1>2 DEF PayOrder, BillPaid, Bill, Paid

\* What a paid bill does to the money and the books around the box.
LEMMA PaidKept ==
  ASSUME TypeInv, MoneyInv, Core, NEW id \in PayIds, captures[id] > 0, NEW c \in Cycles, c = id[1],
         BillPaid(c), UNCHANGED <<pay, captures>>, BoxStep(c),
         cycle'[c].status \in {Status(c), "CHARGED"}
  PROVE  Money' /\ QuietRows /\ Lasting
<1>. OrderOK BY DEF TypeInv
<1>1. QuietRows BY DEF QuietRows
<1>2. Lasting BY <1>1 DEF Lasting, QuietRows, Bill, BillPaid, OrderOK, None
<1>3. \A d \in Cycles : /\ Status(d)' = "LOCKED" => Status(d) = "LOCKED"
                        /\ Status(d)' = "SKIPPED" => Status(d) = "SKIPPED"
  BY DEF BoxStep, Status
<1>4. \A d \in Cycles : d # c => (delta'[d] = delta[d] /\ order'[d] = order[d]) BY DEF BoxStep
<1>5. Money' BY <1>1, <1>2, <1>3, <1>4, MoneyKept DEF Core
<1>. QED BY <1>1, <1>2, <1>5

\* markCharged: the box is CHARGED, its bill paid.
ChargeStep(c) ==
  /\ BoxStep(c) /\ BillPaid(c)
  /\ Status(c) \in Owed \cup {"CHARGED"} /\ cycle'[c].status = "CHARGED"
  /\ cycle'[c].skip = cycle[c].skip
  /\ sub' \in {"ACTIVE", sub}
  /\ UNCHANGED <<slots, captures>>

LEMMA ChargedBooks == ASSUME TypeInv, Core, NEW c \in Cycles, ChargeStep(c) PROVE Books'
<1>. OrderOK BY DEF TypeInv
<1>1. BoxOK(c)
  BY DEF Core, Books, BoxesOK
<1>2. BoxOK(c)'
  BY <1>1
  DEF ChargeStep, BillPaid, BoxOK, PrepaidOK, BilledOK, Status, Owed, GivenUp, Unbilled, OrderOK
<1>3. EngineSub' BY DEF Core, Books, EngineSub, ChargeStep, BoxStep, Status, Owed
<1>. QED BY <1>2, <1>3, BoxStepBooks DEF Core, ChargeStep

\* A commit of markCharged either fails on a closed order or is such a step, backed by money.
LEMMA CommitChargedEffect ==
  ASSUME TypeInv, MoneyInv, Core, NEW p \in Procs, CommitCharged(p), Admins = {}
  PROVE  /\ Finish(p) /\ pay' = pay /\ captures' = captures
         /\ PayId(p) \in PayIds /\ captures[PayId(p)] > 0
         /\ proc[p].c \in Cycles
         /\ Status(proc[p].c) = "LOCKED" => p = "lock"
         /\ Aside \/ ChargeStep(proc[p].c)
<1>c. PICK c \in Cycles : c = proc[p].c BY Running DEF CommitCharged, TypeInv
<1>0. /\ PayId(p) \in PayIds /\ captures[PayId(p)] > 0 /\ PayId(p)[1] = c
      /\ proc[p].path \in {"lock", "retry", "link"} /\ proc[p].pc = "commitCharged"
  BY <1>c DEF CommitCharged, Core, Jobs, LockOK, RetryOK, PspOK, Collected, Captured, PayId, Procs
<1>1. Status(c) = "LOCKED" => p = "lock"
  <2>. SUFFICES ASSUME Status(c) = "LOCKED" PROVE p = "lock" OBVIOUS
  <2>1. p = "psp" => IsLink(PayId(p))
    BY <1>0 DEF Core, Jobs, PspOK, IsLink, PayId
  <2>2. ~IsLink(PayId(p)) BY <1>0 DEF Core, Money, LinksOK
  <2>3. p # "retry" BY <1>0, <1>c DEF Core, Jobs, RetryOK
  <2>. QED BY <2>1, <2>2, <2>3 DEF Procs
<1>2. Finish(p) /\ pay' = pay /\ captures' = captures
  BY <1>0 DEF CommitCharged, subVars
<1>3. CASE UNCHANGED <<cycle, slots, subVars, orderVars>>
  BY <1>0, <1>1, <1>2, <1>3, <1>c DEF Aside, SameBooks, subVars, orderVars, Status
<1>4. CASE /\ cycle' = [cycle EXCEPT ![c] = [@ EXCEPT !.status = "CHARGED", !.retryAt = FALSE]]
           /\ PayOrder(c)
           /\ sub' = IF proc[p].sub = "PAST_DUE" THEN "ACTIVE" ELSE sub
           /\ UNCHANGED slots
  <2>1. cycle \in [Cycles -> Row] /\ OrderOK BY DEF TypeInv, CycleOK
  <2>2. cycle'[c].status = "CHARGED" /\ cycle'[c].skip = cycle[c].skip BY <1>4, <2>1 DEF Row
  <2>3. BillPaid(c) BY <1>0, <1>4, PayOrderPays
  <2>4. BoxStep(c) BY <1>4, <2>1, <2>3 DEF BoxStep, BillPaid, OrderOK
  <2>5. Status(c) \in Owed \cup {"CHARGED"} BY <1>0, <1>4, CapturedBox DEF PayOrder
  <2>6. ChargeStep(c) BY <1>2, <1>4, <2>2, <2>3, <2>4, <2>5 DEF ChargeStep
  <2>. QED BY <1>0, <1>1, <1>2, <1>c, <2>6
<1>. QED BY <1>3, <1>4, <1>c DEF CommitCharged

LEMMA CommitChargedCore ==
  ASSUME TypeInv, MoneyInv, Core, NEW p \in Procs, CommitCharged(p), Admins = {} PROVE Core'
<1>c. PICK c \in Cycles : c = proc[p].c BY CommitChargedEffect
<1>1. CASE Aside BY <1>1, CommitChargedEffect, AsideEnds
<1>2. CASE ChargeStep(c)
  <2>0. /\ Finish(p) /\ pay' = pay /\ captures' = captures
        /\ PayId(p) \in PayIds /\ captures[PayId(p)] > 0 /\ PayId(p)[1] = c
        /\ Status(c) = "LOCKED" => p = "lock"
    BY <1>c, CommitChargedEffect DEF PayId
  <2>1. Books' BY <1>2, ChargedBooks
  <2>3. Money' /\ QuietRows /\ Lasting BY <1>2, <2>0, PaidKept DEF ChargeStep
  <2>4. p = "lock" => proc'["lock"] # proc["lock"]
    BY DEF CommitCharged, Finish, Idle, TypeInv, HandlersOK
  <2>5. Steady BY <1>2, <2>0, <2>3, <2>4, BoxStepSteady DEF ChargeStep
  <2>6. Jobs' BY <2>0, <2>5, JobEnds DEF Core
  <2>. QED BY <2>1, <2>3, <2>6 DEF Core
<1>. QED BY <1>1, <1>2, <1>c, CommitChargedEffect

\* A stored-card payment settled by callback pays the bill and leaves the box alone.
LEMMA SettleOrderEffect ==
  ASSUME TypeInv, MoneyInv, Core, SettleOrder
  PROVE  /\ Finish("psp") /\ UNCHANGED <<cycle, pay, slots, captures, sub>>
         /\ PayId("psp") \in PayIds /\ captures[PayId("psp")] > 0 /\ proc["psp"].c \in Cycles
         /\ \/ Aside
            \/ BillPaid(proc["psp"].c) /\ Status(proc["psp"].c) \in Owed \cup {"CHARGED"}
<1>c. PICK c \in Cycles : c = proc["psp"].c BY Running DEF SettleOrder, TypeInv, Procs
<1>1. PayId("psp") \in PayIds /\ captures[PayId("psp")] > 0 /\ PayId("psp")[1] = c
  BY <1>c DEF SettleOrder, Core, Jobs, PspOK, Captured, PayId
<1>2. CASE PayOrder(c)
  <2>1. BillPaid(c) BY <1>1, <1>2, PayOrderPays
  <2>2. Status(c) \in Owed \cup {"CHARGED"} BY <1>1, <1>2, CapturedBox DEF PayOrder
  <2>. QED BY <1>1, <1>c, <2>1, <2>2 DEF SettleOrder, subVars
<1>3. CASE UNCHANGED orderVars
  BY <1>1, <1>3, <1>c DEF SettleOrder, subVars, orderVars, Aside, SameBooks, Status
<1>. QED BY <1>2, <1>3, <1>c DEF SettleOrder

LEMMA SettleOrderCore ==
  ASSUME TypeInv, MoneyInv, Core, SettleOrder, Admins = {} PROVE Core'
<1>. "psp" \in Procs /\ OrderOK BY DEF Procs, TypeInv
<1>c. PICK c \in Cycles : c = proc["psp"].c BY SettleOrderEffect
<1>0. /\ Finish("psp") /\ UNCHANGED <<cycle, pay, slots, captures, sub>>
      /\ PayId("psp") \in PayIds /\ captures[PayId("psp")] > 0 /\ PayId("psp")[1] = c
  BY <1>c, SettleOrderEffect DEF PayId
<1>1. CASE Aside BY <1>0, <1>1, AsideEnds
<1>2. CASE BillPaid(c) /\ Status(c) \in Owed \cup {"CHARGED"}
  <2>1. BoxStep(c) BY <1>0, <1>2 DEF BoxStep, BillPaid, OrderOK
  <2>2. cycle'[c].status = Status(c) /\ cycle'[c].skip = cycle[c].skip BY <1>0 DEF Status
  <2>3. BoxOK(c)'
    <3>1. BoxOK(c) BY DEF Core, Books, BoxesOK
    <3>. QED BY <1>0, <1>2, <2>2, <3>1
      DEF BillPaid, BoxOK, PrepaidOK, BilledOK, Status, Owed, GivenUp, Unbilled, OrderOK
  <2>4. EngineSub' BY <1>0 DEF Core, Books, EngineSub, Status
  <2>5. Money' /\ QuietRows /\ Lasting BY <1>0, <1>2, <2>1, <2>2, PaidKept
  <2>6. Steady BY <2>1, <2>2, <2>5, BoxStepSteady DEF Status
  <2>7. Jobs' BY <1>0, <2>6, JobEnds DEF Core
  <2>. QED BY <2>1, <2>3, <2>4, <2>5, <2>7, BoxStepBooks DEF Core
<1>. QED BY <1>1, <1>2, <1>c, SettleOrderEffect
-------------------------------------------------------------------------------
(* A collection that failed *)

\* Rows of a box given up: left alone or its links closed.
LEMMA ClosedLinks ==
  ASSUME TypeInv, NEW c, pay' \in {pay, ExpireLinks(c)}
  PROVE  /\ QuietRows
         /\ pay' = ExpireLinks(c) => \A id \in PayIds : id[1] = c /\ IsLink(id) => pay'[id] # "PENDING"
<1>1. \A id \in PayIds :
        ExpireLinks(c)[id] = IF id[1] = c /\ IsLink(id) /\ pay[id] = "PENDING" THEN "EXPIRED" ELSE pay[id]
  BY DEF ExpireLinks
<1>. QED BY <1>1 DEF QuietRows, None

\* markUnpaidSkipped of a billed box.
SkipStep(c) ==
  /\ BoxStep(c) /\ c # 1
  /\ Status(c) \in {"LOCKED", "AWAITING_PAYMENT", "UNPAID", "CHARGED"} /\ order[c] # None
  /\ cycle'[c].status = "SKIPPED" /\ cycle'[c].skip = "UNPAID"
  /\ order'[c] = "CANCELLED" /\ slots'[c] = slots[c] - 1
  /\ pay' = ExpireLinks(c) /\ sub' \in {"PAST_DUE", sub}
  /\ UNCHANGED <<delta, captures>>

\* markFailed with a retry left: the box is UNPAID.
UnpaidStep(c) ==
  /\ BoxStep(c) /\ c # 1
  /\ Status(c) \in {"LOCKED", "AWAITING_PAYMENT"} /\ cycle'[c].status = "UNPAID"
  /\ cycle'[c].skip = cycle[c].skip
  /\ order'[c] = AfterFailure(order[c])
  /\ pay' \in {pay, ExpireLinks(c)}
  /\ UNCHANGED <<delta, slots, sub, captures>>

\* markFailed of the extras: the prepaid box is CHARGED without them.
ExtrasStep(c) ==
  /\ BoxStep(c) /\ c = 1
  /\ Status(c) \in {"LOCKED", "AWAITING_PAYMENT"} /\ cycle'[c].status = "CHARGED"
  /\ cycle'[c].skip = cycle[c].skip
  /\ delta'[c] = "CANCELLED"
  /\ pay' \in {pay, ExpireLinks(c)}
  /\ UNCHANGED <<order, slots, sub, captures>>

GiveUpStep(c) == SkipStep(c) \/ UnpaidStep(c) \/ ExtrasStep(c)

LEMMA GiveUpKept ==
  ASSUME TypeInv, MoneyInv, Core, NEW c \in Cycles, GiveUpStep(c)
  PROVE  Books' /\ Money' /\ QuietRows /\ Lasting /\ BoxStep(c)
         /\ cycle'[c].status \in {"SKIPPED", "UNPAID", "CHARGED"}
<1>. USE DEF GiveUpStep
<1>. OrderOK BY DEF TypeInv
<1>0. BoxOK(c) /\ BoxStep(c) BY DEF Core, Books, BoxesOK, SkipStep, UnpaidStep, ExtrasStep
<1>1. BoxOK(c)'
  <2>1. CASE SkipStep(c)
    BY <1>0, <2>1 DEF SkipStep, BoxOK, PrepaidOK, BilledOK, Status, Owed, GivenUp, Unbilled
  <2>2. CASE UnpaidStep(c)
    <3>1. AfterFailure(order[c]) \in Open \cup {"PAID"}
      BY <1>0, <2>2 DEF UnpaidStep, BoxOK, PrepaidOK, BilledOK, AfterFailure, Open, Owed
    <3>. QED BY <1>0, <2>2, <3>1 DEF UnpaidStep, BoxOK, PrepaidOK, BilledOK, Status, Owed, GivenUp, Unbilled
  <2>3. CASE ExtrasStep(c)
    BY <1>0, <2>3 DEF ExtrasStep, BoxOK, PrepaidOK, BilledOK, Status, Owed, GivenUp, Unbilled
  <2>. QED BY <2>1, <2>2, <2>3
<1>2. cycle'[c].status \in {"SKIPPED", "UNPAID", "CHARGED"} /\ captures' = captures
  BY DEF SkipStep, UnpaidStep, ExtrasStep
<1>3. EngineSub'
  BY <1>0, <1>2 DEF Core, Books, EngineSub, BoxStep, Status, SkipStep, UnpaidStep, ExtrasStep
<1>4. Books' BY <1>0, <1>1, <1>3, BoxStepBooks DEF Core
<1>5. QuietRows BY ClosedLinks DEF SkipStep, UnpaidStep, ExtrasStep
<1>6. Bill(c) # None => Bill(c)' # None
  BY DEF SkipStep, UnpaidStep, ExtrasStep, Bill, AfterFailure, None
<1>7. Lasting BY <1>0, <1>2, <1>5, <1>6 DEF Lasting, QuietRows, BoxStep, Bill
<1>8. \A d \in Cycles : Status(d)' = "SKIPPED" =>
        \/ Status(d) = "SKIPPED"
        \/ \A id \in PayIds : id[1] = d /\ IsLink(id) => pay'[id] # "PENDING"
  BY <1>0, ClosedLinks DEF BoxStep, Status, SkipStep, UnpaidStep, ExtrasStep
<1>9. \A d \in Cycles : Status(d)' = "LOCKED" => Status(d) = "LOCKED"
  BY <1>0, <1>2 DEF BoxStep, Status
<1>10. \A d \in Cycles : /\ delta'[d] = "PAID" => delta[d] = "PAID"
                         /\ d # 1 /\ order'[d] = "PAID" => order[d] = "PAID"
  BY <1>0 DEF BoxStep, SkipStep, UnpaidStep, ExtrasStep, AfterFailure
<1>11. Money' BY <1>2, <1>5, <1>7, <1>8, <1>9, <1>10, MoneyKept DEF Core
<1>. QED BY <1>0, <1>2, <1>4, <1>5, <1>7, <1>11

\* markUnpaidSkipped and markFailed are such steps.
LEMMA MarkUnpaidSkippedEffect ==
  ASSUME TypeInv, Core, NEW c \in Cycles, c # 1, NEW s, NEW n, MarkUnpaidSkipped(c, s, n),
         Status(c) \in {"LOCKED", "AWAITING_PAYMENT", "UNPAID", "CHARGED"}, order[c] # None,
         UNCHANGED <<delta, captures>>
  PROVE  SkipStep(c)
<1>0. cycle \in [Cycles -> Row] /\ OrderOK /\ slots \in [Cycles -> Int] BY DEF TypeInv, CycleOK
<1>1. cycle'[c].status = "SKIPPED" /\ cycle'[c].skip = "UNPAID"
  BY <1>0 DEF MarkUnpaidSkipped, Row
<1>2. order'[c] = "CANCELLED" BY <1>0 DEF MarkUnpaidSkipped, OrderOK, Closed
<1>3. slots'[c] = slots[c] - 1 BY <1>0 DEF MarkUnpaidSkipped
<1>4. BoxStep(c) BY <1>0 DEF MarkUnpaidSkipped, BoxStep, OrderOK
<1>5. pay' = ExpireLinks(c) /\ sub' \in {"PAST_DUE", sub} BY DEF MarkUnpaidSkipped
<1>. QED BY <1>1, <1>2, <1>3, <1>4, <1>5 DEF SkipStep

LEMMA FailCycleEffect ==
  ASSUME TypeInv, Core, NEW c \in Cycles, ~IsDelta(c),
         NEW rows, rows \in {pay, ExpireLinks(c)}, FailCycle(c, rows),
         Status(c) \in {"LOCKED", "AWAITING_PAYMENT"}, UNCHANGED <<delta, captures>>
  PROVE  GiveUpStep(c)
<1>0. cycle \in [Cycles -> Row] /\ OrderOK BY DEF TypeInv, CycleOK
<1>1. c # 1 /\ order[c] # None
  BY DEF Core, Books, BoxesOK, BoxOK, PrepaidOK, BilledOK, Owed, Open, IsDelta, None
<1>2. CASE MarkUnpaidSkipped(c, sub, failed)
  BY <1>1, <1>2, MarkUnpaidSkippedEffect DEF GiveUpStep
<1>3. CASE /\ cycle' = [cycle EXCEPT ![c] = [@ EXCEPT !.status = "UNPAID", !.retryAt = TRUE]]
           /\ order' = [order EXCEPT ![c] = AfterFailure(@)]
           /\ pay' = rows
           /\ UNCHANGED <<slots, subVars>>
  <2>1. cycle'[c].status = "UNPAID" /\ cycle'[c].skip = cycle[c].skip BY <1>0, <1>3 DEF Row
  <2>2. BoxStep(c) BY <1>0, <1>3 DEF BoxStep, OrderOK
  <2>3. order'[c] = AfterFailure(order[c]) BY <1>0, <1>3 DEF OrderOK
  <2>. QED BY <1>1, <1>3, <2>1, <2>2, <2>3 DEF GiveUpStep, UnpaidStep, subVars
<1>. QED BY <1>2, <1>3 DEF FailCycle

LEMMA FailDeltaEffect ==
  ASSUME TypeInv, Core, NEW c \in Cycles, IsDelta(c), FailDelta(c),
         pay' \in {pay, ExpireLinks(c)}, Status(c) \in {"LOCKED", "AWAITING_PAYMENT"},
         UNCHANGED captures
  PROVE  GiveUpStep(c)
<1>0. cycle \in [Cycles -> Row] /\ OrderOK BY DEF TypeInv, CycleOK
<1>1. cycle'[c].status = "CHARGED" /\ cycle'[c].skip = cycle[c].skip
  BY <1>0 DEF FailDelta, Row
<1>2. BoxStep(c) /\ delta'[c] = "CANCELLED" BY <1>0 DEF FailDelta, BoxStep, OrderOK
<1>. QED BY <1>1, <1>2 DEF GiveUpStep, ExtrasStep, FailDelta, subVars, IsDelta

\* The lock job gives up: its read of the status was right, for nobody else takes the box.
LEMMA CommitFailedEffect ==
  ASSUME TypeInv, Core, NEW p \in Procs, CommitFailed(p), Admins = {}
  PROVE  /\ p = "lock" /\ Finish(p) /\ proc[p].c \in Cycles /\ Status(proc[p].c) = "LOCKED"
         /\ Aside \/ GiveUpStep(proc[p].c)
<1>c. PICK c \in Cycles : c = proc[p].c BY Running DEF CommitFailed, TypeInv
<1>1. p = "lock" /\ Status(c) = "LOCKED"
  BY <1>c DEF CommitFailed, Core, Jobs, LockOK, RetryOK, PspOK, Charging, Procs
<1>2. Finish(p) BY DEF CommitFailed, Abort
<1>3. CASE IsDelta(c) /\ FailDelta(c) /\ UNCHANGED pay /\ UNCHANGED pspVars
  BY <1>1, <1>2, <1>3, <1>c, FailDeltaEffect DEF pspVars
<1>4. CASE ~IsDelta(c) /\ FailCycle(c, pay) /\ UNCHANGED <<delta, pspVars>>
  BY <1>1, <1>2, <1>4, <1>c, FailCycleEffect DEF pspVars
<1>5. CASE UNCHANGED dbVars BY <1>1, <1>2, <1>5, <1>c, DbAside
<1>. QED BY <1>3, <1>4, <1>5, <1>c DEF CommitFailed, Abort

LEMMA CommitFailedCore ==
  ASSUME TypeInv, MoneyInv, Core, NEW p \in Procs, CommitFailed(p), Admins = {} PROVE Core'
<1>c. PICK c \in Cycles : c = proc[p].c BY CommitFailedEffect
<1>0. p = "lock" /\ Finish(p) /\ Status(c) = "LOCKED" BY <1>c, CommitFailedEffect
<1>1. CASE Aside BY <1>0, <1>1, AsideEnds
<1>2. CASE GiveUpStep(c)
  <2>1. /\ Books' /\ Money' /\ QuietRows /\ Lasting /\ BoxStep(c)
        /\ cycle'[c].status \in {"SKIPPED", "UNPAID", "CHARGED"}
    BY <1>2, GiveUpKept
  <2>2. proc'["lock"] # proc["lock"] BY <1>0 DEF CommitFailed, Finish, Idle, TypeInv, HandlersOK
  <2>3. Steady BY <1>0, <2>1, <2>2, BoxStepSteady
  <2>4. Jobs' BY <1>0, <2>3, JobEnds DEF Core
  <2>. QED BY <2>1, <2>4 DEF Core
<1>. QED BY <1>1, <1>2, <1>c, CommitFailedEffect

\* cycles:expire-payment-links.
LEMMA ExpireAwaitingEffect ==
  ASSUME TypeInv, Core, NEW c \in Cycles, ExpireAwaiting(c) PROVE GiveUpStep(c)
<1>1. Status(c) = "AWAITING_PAYMENT" /\ UNCHANGED captures BY DEF ExpireAwaiting, pspVars
<1>2. CASE IsDelta(c) /\ FailDelta(c) /\ pay' = ExpireLinks(c) BY <1>1, <1>2, FailDeltaEffect
<1>3. CASE ~IsDelta(c) /\ FailCycle(c, ExpireLinks(c)) /\ UNCHANGED delta
  BY <1>1, <1>3, FailCycleEffect
<1>. QED BY <1>2, <1>3 DEF ExpireAwaiting

LEMMA ExpireAwaitingCore ==
  ASSUME TypeInv, MoneyInv, Core, NEW c \in Cycles, ExpireAwaiting(c) PROVE Core'
<1>1. /\ Books' /\ Money' /\ QuietRows /\ Lasting /\ BoxStep(c)
  BY ExpireAwaitingEffect, GiveUpKept
<1>2. proc' = proc /\ Status(c) = "AWAITING_PAYMENT" BY DEF ExpireAwaiting
<1>3. Steady BY <1>1, <1>2, BoxStepSteady
<1>4. Jobs' BY <1>2, <1>3, JobsKept DEF Core, Jobs
<1>. QED BY <1>1, <1>4 DEF Core

\* The last retry failed: the box goes, even if a link was paid for it since the read.
LEMMA CommitSkipEffect ==
  ASSUME TypeInv, Core, NEW p \in Procs, CommitSkip(p), Admins = {}
  PROVE  /\ p = "retry" /\ Finish(p) /\ proc[p].c \in Cycles
         /\ Status(proc[p].c) \in {"UNPAID", "CHARGED"}
         /\ Aside \/ SkipStep(proc[p].c)
<1>c. PICK c \in Cycles : c = proc[p].c BY Running DEF CommitSkip, TypeInv
<1>1. p = "retry" /\ Status(c) \in {"UNPAID", "CHARGED"} /\ c # 1 /\ order[c] # None
  BY <1>c DEF CommitSkip, Core, Jobs, LockOK, RetryOK, PspOK, Charging, Procs
<1>2. Finish(p) BY DEF CommitSkip, Abort
<1>3. CASE MarkUnpaidSkipped(c, proc[p].sub, proc[p].failed) /\ UNCHANGED <<delta, pspVars>>
  BY <1>1, <1>2, <1>3, <1>c, MarkUnpaidSkippedEffect DEF pspVars
<1>4. CASE UNCHANGED dbVars BY <1>1, <1>2, <1>4, <1>c, DbAside
<1>. QED BY <1>3, <1>4, <1>c DEF CommitSkip, Abort

LEMMA CommitSkipCore ==
  ASSUME TypeInv, MoneyInv, Core, NEW p \in Procs, CommitSkip(p), Admins = {} PROVE Core'
<1>c. PICK c \in Cycles : c = proc[p].c BY CommitSkipEffect
<1>0. p = "retry" /\ Finish(p) /\ Status(c) \in {"UNPAID", "CHARGED"} BY <1>c, CommitSkipEffect
<1>1. CASE Aside BY <1>0, <1>1, AsideEnds
<1>2. CASE SkipStep(c)
  <2>1. /\ Books' /\ Money' /\ QuietRows /\ Lasting /\ BoxStep(c)
    BY <1>2, GiveUpKept DEF GiveUpStep
  <2>2. proc'["retry"] # proc["retry"] BY <1>0 DEF CommitSkip, Finish, Idle, TypeInv, HandlersOK
  <2>3. Steady BY <1>0, <2>1, <2>2, BoxStepSteady
  <2>4. Jobs' BY <1>0, <2>3, JobEnds DEF Core
  <2>. QED BY <2>1, <2>4 DEF Core
<1>. QED BY <1>1, <1>2, <1>c, CommitSkipEffect
-------------------------------------------------------------------------------
\* cancelSubscription takes every box that is still SCHEDULED, and no other: without admins
\* every skipped box was skipped for non-payment.
LEMMA CancelEffect ==
  ASSUME TypeInv, Core, NEW gone \in SUBSET Cycles, CancelSubscription(gone)
  PROVE  /\ \A c \in Cycles : Status(c) = "SCHEDULED" =>
              /\ cycle'[c].status = "CANCELLED" /\ cycle'[c].skip = cycle[c].skip
              /\ order'[c] = (IF c = 1 THEN "REFUNDED" ELSE order[c])
              /\ slots'[c] = slots[c] - 1
         /\ \A c \in Cycles : Status(c) # "SCHEDULED" =>
              cycle'[c] = cycle[c] /\ order'[c] = order[c] /\ slots'[c] = slots[c]
         /\ sub' = "CANCELLED" /\ UNCHANGED <<delta, pay, captures, proc>>
<1>0. cycle \in [Cycles -> Row] BY DEF TypeInv, CycleOK
<1>1. gone = {} BY DEF CancelSubscription, Core, Books, BoxesOK, BoxOK
<1>2. \A c \in Cycles : c \in Ahead <=> Status(c) = "SCHEDULED" BY DEF Ahead
<1>3. \A c \in Cycles : cycle'[c] = IF c \in Ahead THEN [cycle[c] EXCEPT !.status = "CANCELLED"]
                                                   ELSE cycle[c]
  BY <1>1 DEF CancelSubscription
<1>4. \A c \in Cycles : [cycle[c] EXCEPT !.status = "CANCELLED"].status = "CANCELLED"
                     /\ [cycle[c] EXCEPT !.status = "CANCELLED"].skip = cycle[c].skip
  BY <1>0 DEF Row
<1>5. \A c \in Cycles : Status(c) = "SCHEDULED" /\ c = 1 => order[c] = "PAID"
  BY DEF Core, Books, BoxesOK, BoxOK, PrepaidOK
<1>6. \A c \in Cycles : order'[c] = IF c = 1 /\ c \in Ahead
        THEN IF order[c] = "PAID" THEN "REFUNDED"
             ELSE IF order[c] \in {"PENDING_PAYMENT", "PAYMENT_FAILED"} THEN "CANCELLED" ELSE order[c]
        ELSE order[c]
  BY DEF CancelSubscription
<1>7. \A c \in Cycles : slots'[c] = IF c \in Ahead THEN slots[c] - 1 ELSE slots[c]
  BY DEF CancelSubscription
<1>8. sub' = "CANCELLED" /\ UNCHANGED <<delta, pay, captures, proc>>
  BY DEF CancelSubscription, pspVars
<1>9. \A c \in Cycles : Status(c) = "SCHEDULED" =>
        /\ cycle'[c].status = "CANCELLED" /\ cycle'[c].skip = cycle[c].skip
        /\ order'[c] = (IF c = 1 THEN "REFUNDED" ELSE order[c])
        /\ slots'[c] = slots[c] - 1
  <2>. SUFFICES ASSUME NEW c \in Cycles, Status(c) = "SCHEDULED"
                PROVE  /\ cycle'[c].status = "CANCELLED" /\ cycle'[c].skip = cycle[c].skip
                       /\ order'[c] = (IF c = 1 THEN "REFUNDED" ELSE order[c])
                       /\ slots'[c] = slots[c] - 1
    OBVIOUS
  <2>1. c \in Ahead BY <1>2
  <2>2. cycle'[c] = [cycle[c] EXCEPT !.status = "CANCELLED"] BY <1>3, <2>1
  <2>3. cycle'[c].status = "CANCELLED" /\ cycle'[c].skip = cycle[c].skip BY <1>4, <2>2
  <2>4. order'[c] = (IF c = 1 THEN "REFUNDED" ELSE order[c]) BY <1>5, <1>6, <2>1
  <2>. QED BY <1>7, <2>1, <2>3, <2>4
<1>10. \A c \in Cycles : Status(c) # "SCHEDULED" =>
        cycle'[c] = cycle[c] /\ order'[c] = order[c] /\ slots'[c] = slots[c]
  BY <1>2, <1>3, <1>6, <1>7
<1>. QED BY <1>8, <1>9, <1>10

LEMMA CancelCore ==
  ASSUME TypeInv, MoneyInv, Core, NEW gone \in SUBSET Cycles, CancelSubscription(gone) PROVE Core'
<1>1. /\ \A c \in Cycles : Status(c) = "SCHEDULED" =>
            /\ cycle'[c].status = "CANCELLED" /\ cycle'[c].skip = cycle[c].skip
            /\ order'[c] = (IF c = 1 THEN "REFUNDED" ELSE order[c])
            /\ slots'[c] = slots[c] - 1
      /\ \A c \in Cycles : Status(c) # "SCHEDULED" =>
            cycle'[c] = cycle[c] /\ order'[c] = order[c] /\ slots'[c] = slots[c]
      /\ sub' = "CANCELLED" /\ UNCHANGED <<delta, pay, captures, proc>>
  BY CancelEffect
<1>2. ASSUME NEW c \in Cycles PROVE BoxOK(c)'
  <2>1. BoxOK(c) BY DEF Core, Books, BoxesOK
  <2>2. CASE Status(c) = "SCHEDULED"
    BY <1>1, <2>1, <2>2 DEF BoxOK, PrepaidOK, BilledOK, Status, Owed, GivenUp, Unbilled
  <2>3. CASE Status(c) # "SCHEDULED"
    BY <1>1, <2>1, <2>3 DEF BoxOK, PrepaidOK, BilledOK, Status, Owed, GivenUp, Unbilled
  <2>. QED BY <2>2, <2>3
<1>3. EngineSub' BY <1>1 DEF EngineSub, Status
<1>4. QuietRows BY <1>1 DEF QuietRows
<1>5. Lasting BY <1>1, <1>4 DEF Lasting, QuietRows, Bill, None
<1>6. Money'
  <2>1. \A d \in Cycles : /\ Status(d)' = "LOCKED" => Status(d) = "LOCKED"
                          /\ Status(d)' = "SKIPPED" => Status(d) = "SKIPPED"
    BY <1>1 DEF Status
  <2>2. \A d \in Cycles : d # 1 => order'[d] = order[d] BY <1>1
  <2>. QED BY <1>1, <1>4, <1>5, <2>1, <2>2, MoneyKept DEF Core
<1>7. Steady
  <2>1. proc["lock"].pc # "idle" => proc["lock"].c \in Cycles BY Running DEF TypeInv, Procs
  <2>2. proc["retry"].pc # "idle" => proc["retry"].c \in Cycles BY Running DEF TypeInv, Procs
  <2>3. LockSteady BY <1>1, <2>1 DEF LockSteady, Status
  <2>4. RetrySteady BY <1>1, <2>2 DEF RetrySteady, Status
  <2>. QED BY <1>5, <2>3, <2>4 DEF Steady
<1>8. Jobs' BY <1>1, <1>7, JobsKept DEF Core, Jobs
<1>. QED BY <1>2, <1>3, <1>6, <1>8 DEF Core, Books, BoxesOK
-------------------------------------------------------------------------------
LEMMA ContinueCore ==
  ASSUME TypeInv, MoneyInv, Core, NEW p \in Procs, Continue(p), Admins = {} PROVE Core'
<1>1. CASE ChargeLocked(p) \/ Probe(p) BY <1>1, ChargeLockedCore, ProbeCore
<1>2. CASE IssueLink(p) \/ AwaitPayment(p) BY <1>2, IssueLinkCore, AwaitPaymentCore
<1>3. CASE RecordPayment(p) \/ CallProvider(p) \/ MarkPayment(p)
  BY <1>3, RecordPaymentCore, CallProviderCore, MarkPaymentCore
<1>4. CASE ReadForCharged(p) \/ CommitCharged(p) BY <1>4, ReadForChargedCore, CommitChargedCore
<1>5. CASE ReadForFailed(p) \/ CommitFailed(p) \/ ChargeDeclined(p)
  BY <1>5, ReadForFailedCore, CommitFailedCore
<1>6. CASE ReadForSchedule(p) \/ CommitRetryAt(p) \/ CommitSkip(p)
  BY <1>6, ReadForScheduleCore, FlagsCore, CommitSkipCore
<1>7. CASE RelinkTooLate(p) \/ Relink(p) BY <1>7, ReadForScheduleCore, RelinkCore
<1>. QED BY <1>1, <1>2, <1>3, <1>4, <1>5, <1>6, <1>7 DEF Continue

LEMMA CoreNext ==
  ASSUME TypeInv, MoneyInv, Core, [Next]_vars, Admins = {} PROVE Core'
<1>1. CASE LockJob
  <2>1. ASSUME NEW c \in Cycles, LockInactive(c) PROVE FALSE
    BY <2>1, LockFindsActive DEF LockInactive, LockGuard, EngineActive
  <2>. QED BY <1>1, <2>1, LockFreeCore, LockPhaseACore, PickStrandedCore DEF LockJob
<1>2. CASE ExpireJob BY <1>2, ExpireAwaitingCore, ClosedRowCore DEF ExpireJob
<1>3. CASE RetryJob BY <1>3, RetryCore DEF RetryJob
<1>4. CASE Callback
  BY <1>4, SettleCore, ClosedRowCore, MarkSettledCore, SettleOrderCore DEF Callback
<1>5. CASE Customer BY <1>5, PayLinkCore, CancelCore, FlagsCore DEF Customer
<1>6. ASSUME NEW p \in Procs, Continue(p) PROVE Core' BY <1>6, ContinueCore
<1>7. CASE (\E c \in Cycles : DeadlinePasses(c)) \/ Crash BY <1>7, FlagsCore, CrashCore
<1>8. CASE UNCHANGED vars
  <2>. Aside BY <1>8 DEF vars, Aside, SameBooks, Status
  <2>1. proc' = proc BY <1>8 DEF vars
  <2>2. Jobs' BY <2>1, AsideKept, JobsKept DEF Core, Jobs
  <2>. QED BY <2>2, AsideKept DEF Core
<1>. QED BY <1>1, <1>2, <1>3, <1>4, <1>5, <1>6, <1>7, <1>8 DEF Next

\* Without admin requests, the whole invariant is inductive.
LEMMA InvAlways == ASSUME Admins = {} PROVE Spec => []IInv
<1>1. IInv /\ [Next]_vars => IInv' BY TypeNext, MoneyNext, CoreNext DEF IInv, Core
<1>. QED BY <1>1, InitInv, PTL DEF Spec

\* The jobs, the callbacks and the customer release a delivery slot exactly when they give a
\* box up, however their steps interleave (dunning, link expiry, cancellation).
THEOREM SlotsHeld == ASSUME Admins = {} PROVE Spec => []SlotHeldWhileLive
BY InvAlways, Consequences, PTL

\* After cancelSubscription no box is left for cycles:lock-and-charge.
THEOREM NoBoxAhead == ASSUME Admins = {} PROVE Spec => []CancelledSubHasNoBoxAhead
BY InvAlways, Consequences, PTL

\* Rule 18: the prepaid box is never lost to the dunning of its extras.
THEOREM PrepaidKept == ASSUME Admins = {} PROVE Spec => []PrepaidBoxKept
BY InvAlways, Consequences, PTL

\* Box, order and money agree: CHARGED over a paid order only, PAID over captured money only.
THEOREM MoneyAlwaysAccounted == ASSUME Admins = {} PROVE Spec => []MoneyAccounted
BY InvAlways, Consequences, PTL

\* issuePaymentLink and the retry job never leave two open links for one box.
THEOREM OneLinkOpen == ASSUME Admins = {} PROVE Spec => []OneOpenLink
BY InvAlways, Consequences, PTL

\* markUnpaidSkipped leaves no way to pay the box it gave up.
THEOREM SkippedClosed == ASSUME Admins = {} PROVE Spec => []SkippedUnpaidClosed
BY InvAlways, Consequences, PTL
-------------------------------------------------------------------------------
(* The engine implements the promise *)

PromiseStep == [Promise!Next]_(Promise!vars)

LEMMA TakenSame == ASSUME UNCHANGED captures
                   PROVE  [c \in Cycles |-> Taken(c)]' = [c \in Cycles |-> Taken(c)]
BY DEF Taken

LEMMA Stutters ==
  ASSUME \A c \in Cycles : PhaseOf(cycle'[c].status) = PhaseOf(Status(c)),
         \A c \in Cycles : BillOf(order'[c]) = BillOf(order[c]),
         UNCHANGED <<captures, slots>>
  PROVE  PromiseStep
<1>1. [c \in Cycles |-> PhaseOf(Status(c))]' = [c \in Cycles |-> PhaseOf(Status(c))]
  BY DEF Status
<1>2. [c \in Cycles |-> BillOf(order[c])]' = [c \in Cycles |-> BillOf(order[c])]
  OBVIOUS
<1>. QED BY <1>1, <1>2, TakenSame DEF PromiseStep, Promise!vars

\* The phase, the bill and the slots of one box change.
LEMMA OneBox ==
  ASSUME TypeInv, NEW c \in Cycles, BoxStep(c), NEW x, NEW y,
         PhaseOf(cycle'[c].status) = x, BillOf(order'[c]) = y
  PROVE  /\ [d \in Cycles |-> PhaseOf(Status(d))]' =
              [[d \in Cycles |-> PhaseOf(Status(d))] EXCEPT ![c] = x]
         /\ [d \in Cycles |-> BillOf(order[d])]' =
              [[d \in Cycles |-> BillOf(order[d])] EXCEPT ![c] = y]
BY DEF BoxStep, Status

\* Slots of one box.
LEMMA OneSlot ==
  ASSUME TypeInv, TypeInv', NEW c \in Cycles, BoxStep(c), slots'[c] = slots[c] - 1
  PROVE  slots' = [d \in Cycles |-> IF d \in {c} THEN slots[d] - 1 ELSE slots[d]]
         /\ slots' = [slots EXCEPT ![c] = @ - 1]
BY DEF BoxStep, TypeInv, CycleOK

\* lockPhaseA is the cutoff of the promise.
LEMMA LockPromise ==
  ASSUME TypeInv, MoneyInv, Core, NEW c \in Cycles, LockFree(c) \/ LockPhaseA(c) PROVE PromiseStep
<1>. OrderOK BY DEF TypeInv
<1>0. BoxOK(c) BY DEF Core, Books, BoxesOK
<1>1. CASE LockPhaseA(c)
  <2>1. /\ BoxStep(c) /\ Status(c) = "SCHEDULED" /\ cycle'[c].status = "LOCKED"
        /\ IF c = 1 THEN delta' = [delta EXCEPT ![c] = "PENDING_PAYMENT"] /\ order' = order
                    ELSE order' = [order EXCEPT ![c] = "PENDING_PAYMENT"] /\ delta' = delta
        /\ slots' = slots /\ captures' = captures
    BY <1>1, LockPhaseABox
  <2>2. /\ PhaseOf(Status(c)) = "planned" /\ PhaseOf(cycle'[c].status) = "owed"
    BY <2>1 DEF PhaseOf
  <2>3. BillOf(order'[c]) = IF BillOf(order[c]) = "none" THEN "open" ELSE BillOf(order[c])
    BY <1>0, <2>1 DEF BoxOK, PrepaidOK, BilledOK, Unbilled, BillOf, OrderOK, None
  <2>4. Promise!Lock(c) BY <2>1, <2>2, <2>3, OneBox, TakenSame DEF Promise!Lock
  <2>. QED BY <2>4 DEF PromiseStep, Promise!Next
<1>2. CASE LockFree(c)
  <2>1. /\ Status(c) = "SCHEDULED" /\ cycle'[c].status = "CHARGED"
        /\ \A d \in Cycles : d # c => cycle'[d] = cycle[d]
        /\ order' = order /\ slots' = slots /\ captures' = captures
    BY <1>2 DEF LockFree, LockGuard, TypeInv, CycleOK, Row, orderVars, pspVars
  <2>2. PhaseOf(Status(c)) = "planned" /\ PhaseOf(cycle'[c].status) = "settled"
    BY <2>1 DEF PhaseOf
  <2>3. [d \in Cycles |-> PhaseOf(Status(d))]' =
          [[d \in Cycles |-> PhaseOf(Status(d))] EXCEPT ![c] = "settled"]
    BY <2>1, <2>2 DEF Status
  <2>4. [d \in Cycles |-> BillOf(order[d])]' = [d \in Cycles |-> BillOf(order[d])] BY <2>1
  <2>5. Promise!LockFree(c) BY <2>1, <2>2, <2>3, <2>4, TakenSame DEF Promise!LockFree
  <2>. QED BY <2>5 DEF PromiseStep, Promise!Next
<1>. QED BY <1>1, <1>2

\* A captured box is taken.
LEMMA CapturedTaken == ASSUME NEW id \in PayIds, captures[id] > 0 PROVE Taken(id[1])
BY DEF Taken

\* markCharged pays the bill, settles a bill the callback has paid, or confirms.
LEMMA ChargePromise ==
  ASSUME TypeInv, MoneyInv, Core, NEW id \in PayIds, captures[id] > 0, NEW c \in Cycles, c = id[1],
         ChargeStep(c)
  PROVE  PromiseStep
<1>. OrderOK BY DEF TypeInv
<1>0. BoxOK(c) BY DEF Core, Books, BoxesOK
<1>1. BoxStep(c) /\ captures' = captures /\ slots' = slots BY DEF ChargeStep
<1>2. PhaseOf(cycle'[c].status) = "settled" BY DEF ChargeStep, PhaseOf
<1>3. BillOf(order'[c]) = "paid"
  BY <1>0 DEF ChargeStep, BillPaid, BoxOK, PrepaidOK, Owed, BillOf, OrderOK, None
<1>4. BillOf(order[c]) \in {"open", "paid"} /\ (c = 1 => BillOf(order[c]) = "paid")
  <2>1. Bill(c) # None BY DEF MoneyInv, Core, Money, LinksOK
  <2>. QED BY <1>0, <2>1
    DEF ChargeStep, BoxOK, PrepaidOK, BilledOK, Owed, Open, Bill, BillOf, None
<1>5. CASE Status(c) \in Owed /\ BillOf(order[c]) = "open"
  <2>1. PhaseOf(Status(c)) = "owed" BY <1>5 DEF PhaseOf, Owed
  <2>2. Promise!Pay(c)
    BY <1>1, <1>2, <1>3, <1>5, <2>1, OneBox, TakenSame, CapturedTaken DEF Promise!Pay
  <2>. QED BY <2>2 DEF PromiseStep, Promise!Next
<1>6. CASE Status(c) \in Owed /\ BillOf(order[c]) = "paid"
  <2>1. PhaseOf(Status(c)) = "owed" BY <1>6 DEF PhaseOf, Owed
  <2>2. \A d \in Cycles : BillOf(order'[d]) = BillOf(order[d]) BY <1>1, <1>3, <1>6 DEF BoxStep
  <2>3. [d \in Cycles |-> BillOf(order[d])]' = [d \in Cycles |-> BillOf(order[d])] BY <2>2
  <2>4. Promise!Settle(c)
    BY <1>1, <1>2, <1>6, <2>1, <2>3, OneBox, TakenSame DEF Promise!Settle
  <2>. QED BY <2>4 DEF PromiseStep, Promise!Next
<1>7. CASE Status(c) = "CHARGED"
  <2>1. BillOf(order[c]) = "paid"
    BY <1>0, <1>4, <1>7 DEF BoxOK, BilledOK, BillOf, None
  <2>2. \A d \in Cycles : /\ BillOf(order'[d]) = BillOf(order[d])
                          /\ PhaseOf(cycle'[d].status) = PhaseOf(Status(d))
    BY <1>1, <1>3, <1>7, <2>1 DEF BoxStep, ChargeStep, Status
  <2>. QED BY <1>1, <2>2, Stutters
<1>. QED BY <1>4, <1>5, <1>6, <1>7 DEF ChargeStep

\* A callback on a stored-card payment pays the bill before the box is settled.
LEMMA SettleOrderPromise ==
  ASSUME TypeInv, MoneyInv, Core, NEW id \in PayIds, captures[id] > 0, NEW c \in Cycles, c = id[1],
         BillPaid(c), Status(c) \in Owed \cup {"CHARGED"}, UNCHANGED <<cycle, captures, slots>>
  PROVE  PromiseStep
<1>. OrderOK BY DEF TypeInv
<1>0. BoxOK(c) BY DEF Core, Books, BoxesOK
<1>1. \A d \in Cycles \ {c} : order'[d] = order[d] BY DEF BillPaid, OrderOK
<1>2. BillOf(order'[c]) = "paid"
  BY <1>0 DEF BillPaid, BoxOK, PrepaidOK, Owed, BillOf, OrderOK, None
<1>3. \A d \in Cycles : PhaseOf(cycle'[d].status) = PhaseOf(Status(d)) BY DEF Status
<1>4. CASE BillOf(order[c]) = "paid"
  <2>1. \A d \in Cycles : BillOf(order'[d]) = BillOf(order[d]) BY <1>1, <1>2, <1>4
  <2>. QED BY <1>3, <2>1, Stutters
<1>5. CASE BillOf(order[c]) # "paid"
  <2>1. Status(c) \in Owed /\ BillOf(order[c]) = "open"
    <3>1. Bill(c) # None BY DEF MoneyInv, Core, Money, LinksOK
    <3>. QED BY <1>0, <1>5, <3>1
      DEF BoxOK, PrepaidOK, BilledOK, Owed, Open, Bill, BillOf, None
  <2>2. PhaseOf(Status(c)) = "owed" BY <2>1 DEF PhaseOf, Owed
  <2>3. [d \in Cycles |-> BillOf(order[d])]' = [[d \in Cycles |-> BillOf(order[d])] EXCEPT ![c] = "paid"]
    BY <1>1, <1>2
  <2>4. [d \in Cycles |-> PhaseOf(Status(d))]' = [d \in Cycles |-> PhaseOf(Status(d))]
    BY <1>3 DEF Status
  <2>5. Promise!Pay(c) BY <2>1, <2>2, <2>3, <2>4, TakenSame, CapturedTaken DEF Promise!Pay
  <2>. QED BY <2>5 DEF PromiseStep, Promise!Next
<1>. QED BY <1>4, <1>5

\* Giving up drops the box, keeps it owed, or settles the prepaid one; a box that was settled
\* while the retry job gave up is overturned.
LEMMA GiveUpPromise ==
  ASSUME TypeInv, TypeInv', MoneyInv, Core, NEW c \in Cycles, GiveUpStep(c) PROVE PromiseStep
<1>. OrderOK BY DEF TypeInv
<1>0. BoxOK(c) BY DEF Core, Books, BoxesOK
<1>1. CASE UnpaidStep(c)
  <2>1. \A d \in Cycles : /\ BillOf(order'[d]) = BillOf(order[d])
                          /\ PhaseOf(cycle'[d].status) = PhaseOf(Status(d))
    BY <1>0, <1>1
    DEF UnpaidStep, BoxStep, Status, PhaseOf, BillOf, AfterFailure, BoxOK, BilledOK, Owed, Open, None
  <2>. QED BY <1>1, <2>1, Stutters DEF UnpaidStep
<1>2. CASE ExtrasStep(c)
  <2>1. PhaseOf(Status(c)) = "owed" /\ PhaseOf(cycle'[c].status) = "settled"
    BY <1>2 DEF ExtrasStep, PhaseOf
  <2>2. BillOf(order[c]) = "paid"
    BY <1>0, <1>2 DEF ExtrasStep, BoxOK, PrepaidOK, BillOf, None
  <2>3. Promise!Settle(c)
    BY <1>2, <2>1, <2>2, OneBox, TakenSame DEF ExtrasStep, Promise!Settle
  <2>. QED BY <2>3 DEF PromiseStep, Promise!Next
<1>3. CASE SkipStep(c)
  <2>1. BoxStep(c) /\ slots'[c] = slots[c] - 1 /\ captures' = captures /\ c # 1
    BY <1>3 DEF SkipStep
  <2>2. PhaseOf(cycle'[c].status) = "dropped" /\ BillOf(order'[c]) = "closed"
    BY <1>3 DEF SkipStep, PhaseOf, BillOf, None
  <2>3. BillOf(order[c]) # "none" BY <1>3 DEF SkipStep, BillOf, None
  <2>4. CASE Status(c) = "CHARGED"
    <3>1. PhaseOf(Status(c)) = "settled" BY <2>4 DEF PhaseOf
    <3>2. Promise!Overturn(c)
      BY <2>1, <2>2, <3>1, OneBox, OneSlot, TakenSame DEF Promise!Overturn
    <3>. QED BY <3>2 DEF PromiseStep, Promise!Next
  <2>5. CASE Status(c) # "CHARGED"
    <3>1. PhaseOf(Status(c)) = "owed" BY <1>3, <2>5 DEF SkipStep, PhaseOf
    <3>2. [d \in Cycles |-> PhaseOf(Status(d))]' =
            [d \in Cycles |-> IF d \in {c} THEN "dropped"
                              ELSE [e \in Cycles |-> PhaseOf(Status(e))][d]]
      BY <2>1, <2>2 DEF BoxStep, Status
    <3>3. [d \in Cycles |-> BillOf(order[d])]' =
            [d \in Cycles |-> IF d \in {c} /\ [e \in Cycles |-> BillOf(order[e])][d] # "none" THEN "closed"
                              ELSE [e \in Cycles |-> BillOf(order[e])][d]]
      BY <2>1, <2>2, <2>3 DEF BoxStep
    <3>4. Promise!Drop({c})
      BY <2>1, <3>1, <3>2, <3>3, OneSlot, TakenSame DEF Promise!Drop
    <3>. QED BY <3>4 DEF PromiseStep, Promise!Next
  <2>. QED BY <2>4, <2>5
<1>. QED BY <1>1, <1>2, <1>3 DEF GiveUpStep

\* A cancellation drops every box ahead.
LEMMA CancelPromise ==
  ASSUME TypeInv, TypeInv', Core, NEW gone \in SUBSET Cycles, CancelSubscription(gone)
  PROVE  PromiseStep
<1>1. /\ \A c \in Cycles : Status(c) = "SCHEDULED" =>
            /\ cycle'[c].status = "CANCELLED"
            /\ order'[c] = (IF c = 1 THEN "REFUNDED" ELSE order[c])
            /\ slots'[c] = slots[c] - 1
      /\ \A c \in Cycles : Status(c) # "SCHEDULED" =>
            cycle'[c] = cycle[c] /\ order'[c] = order[c] /\ slots'[c] = slots[c]
      /\ UNCHANGED captures
  BY CancelEffect
<1>2. \A c \in Ahead : /\ PhaseOf(Status(c)) = "planned" /\ PhaseOf(cycle'[c].status) = "dropped"
                       /\ BillOf(order'[c]) = IF BillOf(order[c]) # "none" THEN "closed" ELSE BillOf(order[c])
  BY <1>1
  DEF Ahead, PhaseOf, BillOf, Core, Books, BoxesOK, BoxOK, PrepaidOK, BilledOK, Unbilled, None
<1>3. [d \in Cycles |-> PhaseOf(Status(d))]' =
        [d \in Cycles |-> IF d \in Ahead THEN "dropped" ELSE [e \in Cycles |-> PhaseOf(Status(e))][d]]
  BY <1>1, <1>2 DEF Status, Ahead
<1>4. [d \in Cycles |-> BillOf(order[d])]' =
        [d \in Cycles |-> IF d \in Ahead /\ [e \in Cycles |-> BillOf(order[e])][d] # "none" THEN "closed"
                          ELSE [e \in Cycles |-> BillOf(order[e])][d]]
  BY <1>1, <1>2 DEF Ahead
<1>5. slots' = [d \in Cycles |-> IF d \in Ahead THEN slots[d] - 1 ELSE slots[d]]
  BY <1>1 DEF Ahead, TypeInv, CycleOK
<1>6. Ahead \in SUBSET Cycles BY DEF Ahead
<1>7. Promise!Drop(Ahead) BY <1>1, <1>2, <1>3, <1>4, <1>5, <1>6, TakenSame DEF Promise!Drop
<1>. QED BY <1>6, <1>7 DEF PromiseStep, Promise!Next

\* Money moves for a box that has left the plan.
LEMMA TakePromise ==
  ASSUME TypeInv, MoneyInv, Core, NEW id \in PayIds, SameBooks, Status(id[1]) # "SCHEDULED",
         captures' = [captures EXCEPT ![id] = 1]
  PROVE  PromiseStep
<1>1. \A c \in Cycles : PhaseOf(cycle'[c].status) = PhaseOf(Status(c)) BY DEF SameBooks, Status
<1>2. /\ [d \in Cycles |-> PhaseOf(Status(d))]' = [d \in Cycles |-> PhaseOf(Status(d))]
      /\ [d \in Cycles |-> BillOf(order[d])]' = [d \in Cycles |-> BillOf(order[d])]
      /\ slots' = slots
  BY <1>1 DEF SameBooks, Status
<1>3. id[1] \in Cycles /\ PhaseOf(Status(id[1])) # "planned"
  BY DEF PayIds, PhaseOf
<1>4. \A i \in PayIds : captures'[i] = IF i = id THEN 1 ELSE captures[i] BY DEF TypeInv, PayOK
<1>5. Taken(id[1])' BY <1>4 DEF Taken
<1>6. \A c \in Cycles : c # id[1] => Taken(c)' = Taken(c) BY <1>4 DEF Taken
<1>7. [d \in Cycles |-> Taken(d)]' = [[d \in Cycles |-> Taken(d)] EXCEPT ![id[1]] = TRUE]
  <2>. DEFINE T == [d \in Cycles |-> Taken(d)]
  <2>1. T \in [Cycles -> BOOLEAN] /\ T' \in [Cycles -> BOOLEAN] BY DEF Taken
  <2>2. \A d \in Cycles : T'[d] = (IF d = id[1] THEN TRUE ELSE T[d])
    <3>1. T'[id[1]] = TRUE BY <1>3, <1>5
    <3>2. ASSUME NEW d \in Cycles, d # id[1] PROVE T'[d] = T[d] BY <1>6, <3>2
    <3>. QED BY <3>1, <3>2
  <2>. HIDE DEF T
  <2>3. T' = [T EXCEPT ![id[1]] = TRUE] BY <1>3, <2>1, <2>2
  <2>. QED BY <2>3 DEF T
<1>8. Promise!Take(id[1]) BY <1>2, <1>3, <1>7 DEF Promise!Take
<1>. QED BY <1>3, <1>8 DEF PromiseStep, Promise!Next

\* Steps that change neither books nor captures.
LEMMA SamePromise == ASSUME SameBooks, UNCHANGED captures PROVE PromiseStep
BY Stutters DEF SameBooks, Status

\* The provider charges a card for a box that is LOCKED, UNPAID or CHARGED.
LEMMA CallPromise ==
  ASSUME TypeInv, MoneyInv, Core, NEW p \in Procs, CallProvider(p), Admins = {} PROVE PromiseStep
<1>. SameBooks BY DEF CallProvider, subVars, orderVars, SameBooks, Status
<1>0. p \in {"lock", "retry"} /\ proc[p].pc = "provider"
  BY DEF CallProvider, Core, Jobs, PspOK, Procs
<1>1. PayId(p) \in PayIds /\ captures[PayId(p)] = 0 /\ PayId(p)[1] = proc[p].c
  BY <1>0, ProviderAttempt DEF TypeInv, MoneyInv, PayId
<1>2. Status(PayId(p)[1]) # "SCHEDULED" BY <1>0, <1>1, JobBilled
<1>3. PICK charged \in BOOLEAN :
        captures' = [captures EXCEPT ![PayId(p)] = IF charged THEN @ + 1 ELSE @]
  BY DEF CallProvider
<1>4. CASE charged
  <2>1. captures' = [captures EXCEPT ![PayId(p)] = 1] BY <1>1, <1>3, <1>4
  <2>. QED BY <1>1, <1>2, <2>1, TakePromise
<1>5. CASE ~charged
  <2>1. UNCHANGED captures BY <1>3, <1>5 DEF TypeInv, PayOK
  <2>. QED BY <2>1, SamePromise
<1>. QED BY <1>4, <1>5

LEMMA ContinuePromise ==
  ASSUME TypeInv, TypeInv', MoneyInv, Core, NEW p \in Procs, Continue(p), Admins = {}
  PROVE  PromiseStep
<1>. USE DEF subVars, orderVars, pspVars, SameBooks, Status
<1>0. cycle \in [Cycles -> Row] BY DEF TypeInv, CycleOK
<1>1. CASE \/ ChargeLocked(p) \/ Probe(p) \/ ReadForFailed(p) \/ ChargeDeclined(p) \/ ReadForSchedule(p)
           \/ RelinkTooLate(p)
  BY <1>1, SamePromise
  DEF ChargeLocked, Probe, ReadForFailed, ChargeDeclined, ReadForSchedule, RelinkTooLate, Abort, dbVars
<1>2. CASE \/ IssueLink(p) \/ RecordPayment(p) \/ MarkPayment(p) \/ ReadForCharged(p)
  BY <1>2, SamePromise DEF IssueLink, RecordPayment, MarkPayment, ReadForCharged
<1>3. CASE CommitRetryAt(p) \/ Relink(p)
  <2>1. SameBooks /\ UNCHANGED captures BY <1>0, <1>3 DEF CommitRetryAt, Relink, Row
  <2>. QED BY <2>1, SamePromise
<1>4. CASE CallProvider(p) BY <1>4, CallPromise
<1>5. CASE AwaitPayment(p)
  <2>1. Status(proc[p].c) = "LOCKED"
    BY <1>5 DEF AwaitPayment, Core, Jobs, LockOK, RetryOK, PspOK, Charging, Procs
  <2>2. \A d \in Cycles : PhaseOf(cycle'[d].status) = PhaseOf(Status(d))
    BY <1>0, <1>5, <2>1 DEF AwaitPayment, SetStatus, PhaseOf, Row
  <2>. QED BY <1>5, <2>2, Stutters DEF AwaitPayment
<1>6. CASE CommitCharged(p)
  <2>1. PICK c \in Cycles : c = proc[p].c BY <1>6, CommitChargedEffect
  <2>2. PayId(p) \in PayIds /\ captures[PayId(p)] > 0 /\ PayId(p)[1] = c
    BY <1>6, <2>1, CommitChargedEffect DEF PayId
  <2>3. CASE Aside BY <2>3, SamePromise DEF Aside
  <2>4. CASE ChargeStep(c) BY <2>2, <2>4, ChargePromise
  <2>. QED BY <1>6, <2>1, <2>3, <2>4, CommitChargedEffect
<1>7. CASE CommitFailed(p)
  <2>1. PICK c \in Cycles : c = proc[p].c BY <1>7, CommitFailedEffect
  <2>2. CASE Aside BY <2>2, SamePromise DEF Aside
  <2>3. CASE GiveUpStep(c) BY <2>3, GiveUpPromise
  <2>. QED BY <1>7, <2>1, <2>2, <2>3, CommitFailedEffect
<1>8. CASE CommitSkip(p)
  <2>1. PICK c \in Cycles : c = proc[p].c BY <1>8, CommitSkipEffect
  <2>2. CASE Aside BY <2>2, SamePromise DEF Aside
  <2>3. CASE SkipStep(c) BY <2>3, GiveUpPromise DEF GiveUpStep
  <2>. QED BY <1>8, <2>1, <2>2, <2>3, CommitSkipEffect
<1>. QED BY <1>1, <1>2, <1>3, <1>4, <1>5, <1>6, <1>7, <1>8 DEF Continue

LEMMA PromiseNext ==
  ASSUME TypeInv, TypeInv', MoneyInv, Core, [Next]_vars, Admins = {} PROVE PromiseStep
<1>0. cycle \in [Cycles -> Row] BY DEF TypeInv, CycleOK
<1>1. CASE LockJob
  <2>1. ASSUME NEW c \in Cycles, LockInactive(c) PROVE FALSE
    BY <2>1, LockFindsActive DEF LockInactive, LockGuard, EngineActive
  <2>2. ASSUME NEW c \in Cycles, PickStranded(c) PROVE PromiseStep
    BY <2>2, DbAside, SamePromise DEF PickStranded, Aside
  <2>. QED BY <1>1, <2>1, <2>2, LockPromise DEF LockJob
<1>2. CASE ExpireJob
  <2>1. ASSUME NEW c \in Cycles, ExpireAwaiting(c) PROVE PromiseStep
    BY <2>1, ExpireAwaitingEffect, GiveUpPromise
  <2>2. ASSUME NEW id \in PayIds, ExpireStaleLink(id) PROVE PromiseStep
    BY <2>2, SamePromise DEF ExpireStaleLink, SameBooks, Status, subVars, orderVars, pspVars
  <2>. QED BY <1>2, <2>1, <2>2 DEF ExpireJob
<1>3. CASE RetryJob
  <2>1. SameBooks /\ UNCHANGED captures
    BY <1>0, <1>3 DEF RetryJob, RetryCycle, StartRetry, Row, SameBooks, Status, subVars, orderVars, pspVars
  <2>. QED BY <2>1, SamePromise
<1>4. CASE Callback
  <2>1. CASE SettleOrder
    <3>1. PICK c \in Cycles : c = proc["psp"].c BY <2>1, SettleOrderEffect
    <3>2. /\ PayId("psp") \in PayIds /\ captures[PayId("psp")] > 0 /\ PayId("psp")[1] = c
          /\ UNCHANGED <<cycle, captures, slots>>
      BY <2>1, <3>1, SettleOrderEffect DEF PayId
    <3>3. CASE Aside BY <3>3, SamePromise DEF Aside
    <3>4. CASE BillPaid(c) /\ Status(c) \in Owed \cup {"CHARGED"}
      BY <3>2, <3>4, SettleOrderPromise
    <3>. QED BY <2>1, <3>1, <3>3, <3>4, SettleOrderEffect
  <2>2. CASE MarkSettled \/ SettleLink \/ \E id \in PayIds : Settle(id) \/ SettleFailed(id)
    BY <2>2, SamePromise
    DEF MarkSettled, SettleLink, Settle, SettleFailed, dbVars, SameBooks, Status, subVars, orderVars, pspVars
  <2>. QED BY <1>4, <2>1, <2>2 DEF Callback
<1>5. CASE Customer
  <2>1. ASSUME NEW id \in PayIds, PayLink(id) PROVE PromiseStep
    <3>1. SameBooks /\ captures' = [captures EXCEPT ![id] = 1]
      BY <2>1 DEF PayLink, SameBooks, Status, subVars, orderVars
    <3>2. Status(id[1]) # "SCHEDULED"
      <4>1. id[1] \in Cycles /\ pay[id] # None BY <2>1 DEF PayLink, PayIds, None
      <4>. QED BY <4>1, UnbilledUnpaid DEF Unbilled
    <3>. QED BY <3>1, <3>2, TakePromise
  <2>2. CASE UpdateCard \/ DeactivateCard
    <3>1. SameBooks /\ UNCHANGED captures
      BY <1>0, <2>2 DEF UpdateCard, DeactivateCard, Row, SameBooks, Status, subVars, orderVars, pspVars
    <3>. QED BY <3>1, SamePromise
  <2>. QED BY <1>5, <2>1, <2>2, CancelPromise DEF Customer
<1>6. ASSUME NEW p \in Procs, Continue(p) PROVE PromiseStep BY <1>6, ContinuePromise
<1>7. CASE (\E c \in Cycles : DeadlinePasses(c)) \/ Crash \/ UNCHANGED vars
  BY <1>7, SamePromise
  DEF DeadlinePasses, Crash, vars, SameBooks, Status, subVars, orderVars, pspVars
<1>. QED BY <1>1, <1>2, <1>3, <1>4, <1>5, <1>6, <1>7 DEF Next

\* Every box starts planned, the prepaid one paid.
LEMMA PromiseInit == Init => Promise!Init
<1>. SUFFICES ASSUME Init PROVE Promise!Init OBVIOUS
<1>1. [c \in Cycles |-> PhaseOf(Status(c))] = [c \in Cycles |-> "planned"]
  BY DEF Init, Status, PhaseOf
<1>2. [c \in Cycles |-> BillOf(order[c])] =
        [c \in Cycles |-> IF c \in Cycles \cap {1} THEN "paid" ELSE "none"]
  BY DEF Init, BillOf, None
<1>3. [c \in Cycles |-> Taken(c)] = [c \in Cycles |-> c \in Cycles \cap {1}]
  <2>1. \A c \in Cycles : Taken(c) = (c = 1) BY DEF Init, Taken
  <2>2. \A c \in Cycles : (c \in Cycles \cap {1}) = (c = 1) OBVIOUS
  <2>. QED BY <2>1, <2>2
<1>4. slots = [c \in Cycles |-> 1] BY DEF Init
<1>. QED BY <1>1, <1>2, <1>3, <1>4 DEF Promise!Init

\* The engine implements the promise: whatever the order of the jobs, callbacks and customer,
\* with lost replies and crashes, every step is one the promise allows or a stutter.
THEOREM EngineKeepsPromise == ASSUME Admins = {} PROVE Spec => KeepsPromise
<1>1. IInv /\ IInv' /\ [Next]_vars => [Promise!Next]_(Promise!vars)
  BY PromiseNext DEF IInv, Core, PromiseStep
<1>2. Spec => []IInv BY InvAlways
<1>. QED BY <1>1, <1>2, PromiseInit, PTL DEF Spec, KeepsPromise, Promise!Spec

-------------------------------------------------------------------------------
(* What the promise is worth *)

\* The promise's books, read off the engine's own.
LEMMA PromisedBooks == IInv => Promise!BooksAgree
<1>. SUFFICES ASSUME IInv, NEW b \in Cycles
              PROVE  /\ slots[b] = IF PhaseOf(Status(b)) = "dropped" THEN 0 ELSE 1
                     /\ PhaseOf(Status(b)) = "dropped" => BillOf(order[b]) \in {"none", "closed"}
                     /\ PhaseOf(Status(b)) = "settled" => BillOf(order[b]) \in {"none", "paid"}
                     /\ BillOf(order[b]) = "paid" => Taken(b)
  BY DEF Promise!BooksAgree
<1>1. BoxOK(b) /\ order[b] \in OrderStatus \cup {None} BY DEF IInv, TypeInv, OrderOK, Books, BoxesOK
<1>2. slots[b] = IF PhaseOf(Status(b)) = "dropped" THEN 0 ELSE 1
  BY <1>1 DEF BoxOK, PhaseOf, Owed, GivenUp
<1>3. /\ PhaseOf(Status(b)) = "dropped" => BillOf(order[b]) \in {"none", "closed"}
      /\ PhaseOf(Status(b)) = "settled" => BillOf(order[b]) \in {"none", "paid"}
  BY <1>1 DEF BoxOK, PrepaidOK, BilledOK, PhaseOf, BillOf, Owed, GivenUp, Unbilled, None
<1>4. ASSUME BillOf(order[b]) = "paid" PROVE Taken(b)
  <2>1. CASE b = 1 BY <2>1 DEF Taken
  <2>2. CASE b # 1
    <3>1. order[b] = "PAID" BY <1>1, <1>4, <2>2
      DEF BoxOK, BilledOK, BillOf, Unbilled, Owed, GivenUp, Open, OrderStatus, None
    <3>2. PICK id \in PayIds : id[1] = b /\ captures[id] > 0
      BY <2>2, <3>1 DEF IInv, Money, PaidMoneyBacked
    <3>. QED BY <3>2 DEF Taken
  <2>. QED BY <2>1, <2>2
<1>. QED BY <1>2, <1>3, <1>4

\* A box given up has given its one slot back and owes nothing, a settled box is free or paid, and
\* what is paid is backed by money that moved (FailCycle, CommitSkip, CancelSubscription,
\* CommitCharged, PayOrder).
THEOREM PromiseBooksKept == ASSUME Admins = {} PROVE Spec => []Promise!BooksAgree
BY InvAlways, PromisedBooks, PTL

\* No step of the promise takes a box out of its last phase.
LEMMA DroppedStays ==
  ASSUME IInv, PromiseStep, NEW a \in Cycles, PhaseOf(Status(a)) = "dropped"
  PROVE  /\ PhaseOf(Status(a))' = PhaseOf(Status(a))
         /\ BillOf(order[a])' = BillOf(order[a])
<1>. DEFINE phase == [c \in Cycles |-> PhaseOf(Status(c))]
            bill == [c \in Cycles |-> BillOf(order[c])]
<1>0. /\ phase[a] = PhaseOf(Status(a)) /\ bill[a] = BillOf(order[a])
      /\ phase'[a] = PhaseOf(Status(a))' /\ bill'[a] = BillOf(order[a])'
  OBVIOUS
<1>1. phase[a] = "dropped" /\ bill[a] \in {"none", "closed"}
  BY PromisedBooks DEF Promise!BooksAgree
<1>2. PhaseOf(Status(a))' = PhaseOf(Status(a)) /\ BillOf(order[a])' = BillOf(order[a])
  <2>. SUFFICES phase'[a] = phase[a] /\ bill'[a] = bill[a] BY <1>0
  <2>0. DOMAIN phase = Cycles /\ DOMAIN bill = Cycles OBVIOUS
  <2>1. ASSUME NEW b \in Cycles, Promise!Lock(b) \/ Promise!LockFree(b) \/ Promise!Take(b)
        PROVE  phase'[a] = phase[a] /\ bill'[a] = bill[a]
    <3>. /\ \/ phase' = phase
            \/ phase[b] = "planned" /\ \E x : phase' = [phase EXCEPT ![b] = x]
         /\ \/ bill' = bill
            \/ phase[b] = "planned" /\ \E x : bill' = [bill EXCEPT ![b] = x]
      BY <2>1 DEF Promise!Lock, Promise!LockFree, Promise!Take
    <3>. HIDE DEF phase, bill
    <3>. QED BY <1>1, <2>0
  <2>2. ASSUME NEW b \in Cycles, Promise!Pay(b) \/ Promise!Settle(b) \/ Promise!Overturn(b)
        PROVE  phase'[a] = phase[a] /\ bill'[a] = bill[a]
    <3>. /\ phase[b] # "dropped"
         /\ \/ phase' = phase
            \/ \E x : phase' = [phase EXCEPT ![b] = x]
         /\ \/ bill' = bill
            \/ \E x : bill' = [bill EXCEPT ![b] = x]
      BY <2>2 DEF Promise!Pay, Promise!Settle, Promise!Overturn
    <3>. HIDE DEF phase, bill
    <3>. QED BY <1>1, <2>0
  <2>3. ASSUME NEW B \in SUBSET Cycles, Promise!Drop(B)
        PROVE  phase'[a] = phase[a] /\ bill'[a] = bill[a]
    <3>. a \notin B /\ phase' = [b \in Cycles |-> IF b \in B THEN "dropped" ELSE phase[b]]
                    /\ bill' = [b \in Cycles |-> IF b \in B /\ bill[b] # "none" THEN "closed" ELSE bill[b]]
      BY <1>1, <2>3 DEF Promise!Drop
    <3>. HIDE DEF phase, bill
    <3>. QED BY <1>1
  <2>4. CASE UNCHANGED Promise!vars
    <3>. phase' = phase /\ bill' = bill BY <2>4 DEF Promise!vars
    <3>. QED OBVIOUS
  <2>. QED BY <2>1, <2>2, <2>3, <2>4 DEF PromiseStep, Promise!Next
<1>. QED BY <1>2

\* A box given up is never planned, billed or settled again and its order is not reopened,
\* whichever handler takes the step.
THEOREM PromiseGivenUpFinal == ASSUME Admins = {} PROVE Spec => Promise!GivenUpForGood
<1>1. IInv /\ IInv' /\ [Next]_vars => [Promise!StaysGivenUp]_(Promise!vars)
  BY PromiseNext, DroppedStays DEF IInv, Core, Promise!StaysGivenUp
<1>2. Spec => []IInv BY InvAlways
<1>. QED BY <1>1, <1>2, PTL DEF Spec, Promise!GivenUpForGood
===============================================================================
