--------------------------- MODULE SessionsProofs ---------------------------
(***************************************************************************)
(* What holds of a user's session for any set of pages and requests:       *)
(*   - a refresh token is exchanged once (OneSessionAlways);               *)
(*   - a logout ends the session until somebody logs in (LogoutFinal).     *)
(* Both rest on the lineage of the tokens: the hash the server keeps is of *)
(* a token that was never exchanged, and a refresh that has passed its     *)
(* first check presents a real token.                                      *)
(***************************************************************************)
EXTENDS Sessions, FiniteSetTheorems, SequenceTheorems, TLAPS

Origin == [by : Browsers, from : Nat]
Access == {"valid", "expired", "gone"}
Cookies(n) == [access : Access, refresh : 0..n, csrf : BOOLEAN]
Request == [pc : {"idle", "sent", "waiting", "again"}, access : Access, retried : BOOLEAN]
Refresh(n) == [pc : {"none", "asked", "read", "rotated", "refused"}, token : 0..n, new : 0..n,
               recover : BOOLEAN]
Sign(n) == [pc : {"none", "login", "change", "logout"}, token : 0..n]

\* TypeOK, in groups: the server's, and each page's with the number of tokens issued.
ServerOK == /\ born \in Seq(Origin) /\ Issued \in 1..MaxTokens
            /\ \A n \in 1..Issued : born[n].from \in 0..(n - 1)
            /\ hash \in 0..Issued
JarOK(n) == jar \in [Browsers -> Cookies(n)]
PageOK == page \in [Tabs -> {"in", "out"}] /\ tried \in [Tabs -> BOOLEAN]
CallOK == call \in [Tabs -> [Calls -> Request]]
FreshOK(n) == fresh \in [Tabs -> Refresh(n)]
AuthOK(n) == auth \in [Tabs -> Sign(n)]
TypeInv == /\ ServerOK /\ JarOK(Issued) /\ PageOK /\ CallOK /\ FreshOK(Issued) /\ AuthOK(Issued)

\* The current token has not been exchanged yet; a refresh that was let in presents a token.
Lineage == /\ RotatedOnce
           /\ hash # 0 => \A n \in 1..Issued : born[n].from # hash
           /\ \A t \in Tabs : fresh[t].pc = "read" => fresh[t].token # 0

IInv == TypeInv /\ Lineage
-------------------------------------------------------------------------------
(* Helpers *)

\* The groups together are the type invariant of the model.
LEMMA TypeInvImpliesTypeOK == TypeInv => TypeOK
<1>. SUFFICES ASSUME TypeInv PROVE TypeOK OBVIOUS
<1>1. \A n \in 1..Issued : born[n] \in [by : Browsers, from : 0..(n - 1)]
  <2>. SUFFICES ASSUME NEW n \in 1..Issued PROVE born[n] \in [by : Browsers, from : 0..(n - 1)]
    OBVIOUS
  <2>1. born[n] \in Origin BY DEF TypeInv, ServerOK, Issued
  <2>2. born[n].from \in 0..(n - 1) BY DEF TypeInv, ServerOK
  <2>. QED BY <2>1, <2>2 DEF Origin
<1>. QED BY <1>1 DEF TypeInv, ServerOK, JarOK, PageOK, CallOK, FreshOK, AuthOK, Cookies, Request,
                     Refresh, Sign, Access, TypeOK

\* A page belongs to a browser.
LEMMA BrowserOfTab == ASSUME NEW t \in Tabs PROVE Browser(t) \in Browsers
BY DEF Browsers

\* What is well formed with few tokens is so with more.
LEMMA MoreTokens ==
  ASSUME NEW m \in Nat, NEW n \in Nat, m <= n
  PROVE  Cookies(m) \subseteq Cookies(n) /\ Refresh(m) \subseteq Refresh(n) /\ Sign(m) \subseteq Sign(n)
<1>1. 0..m \subseteq 0..n OBVIOUS
<1>. QED BY <1>1 DEF Cookies, Refresh, Sign

\* What the handlers write into the cookies of a browser.
LEMMA CookieEdits ==
  ASSUME NEW n \in Nat, NEW j \in Cookies(n)
  PROVE  /\ \A a \in Access : [j EXCEPT !.access = a] \in Cookies(n)
         /\ \A v \in BOOLEAN : [j EXCEPT !.csrf = v] \in Cookies(n)
         /\ \A a \in Access, r \in 0..n : [j EXCEPT !.access = a, !.refresh = r] \in Cookies(n)
BY DEF Cookies

\* The reply that wakes the requests of a page leaves them well formed.
LEMMA WokenTyped == ASSUME CallOK, NEW t \in Tabs, NEW ok \in BOOLEAN
                    PROVE  Woken(t, ok) \in [Tabs -> [Calls -> Request]]
<1>1. \A c \in Calls : [call[t][c] EXCEPT !.pc = "again"] \in Request BY DEF CallOK, Request
<1>2. IdleCall \in Request BY DEF IdleCall, Request, Access
<1>3. \A c \in Calls : call[t][c] \in Request BY DEF CallOK
<1>. DEFINE w == [c \in Calls |-> IF call[t][c].pc # "waiting" THEN call[t][c]
                                  ELSE IF ok THEN [call[t][c] EXCEPT !.pc = "again"] ELSE IdleCall]
<1>4. w \in [Calls -> Request] BY <1>1, <1>2, <1>3
<1>5. Woken(t, ok) = [call EXCEPT ![t] = w] BY DEF Woken, CallOK
<1>. QED BY <1>4, <1>5 DEF CallOK

\* A request leaves with the access token of its browser.
LEMMA SentTyped == ASSUME JarOK(Issued), NEW t \in Tabs, NEW retried \in BOOLEAN
                   PROVE  Sent(t, retried) \in Request
<1>1. jar[Browser(t)].access \in Access BY BrowserOfTab DEF JarOK, Cookies
<1>. QED BY <1>1 DEF Sent, Request

\* One request of a page is rewritten.
LEMMA SetCall == ASSUME CallOK, NEW t \in Tabs, NEW c \in Calls, NEW r \in Request,
                        call' = [call EXCEPT ![t][c] = r]
                 PROVE  CallOK'
BY DEF CallOK

\* A step that issues no token keeps the lineage; it only has to keep the pages well formed.
LEMMA NothingIssued ==
  ASSUME IInv, UNCHANGED <<hash, born>>, jar' \in [Browsers -> Cookies(Issued)], PageOK', CallOK',
         fresh' \in [Tabs -> Refresh(Issued)], auth' \in [Tabs -> Sign(Issued)],
         \A t \in Tabs : fresh'[t].pc = "read" => fresh'[t].token # 0
  PROVE  IInv'
<1>1. Issued' = Issued BY DEF Issued
<1>2. TypeInv' BY <1>1 DEF IInv, TypeInv, ServerOK, JarOK, FreshOK, AuthOK
<1>3. Lineage' BY <1>1 DEF IInv, Lineage, RotatedOnce
<1>. QED BY <1>2, <1>3 DEF IInv

\* The parts of the invariant a page's step reads.
LEMMA Facts ==
  ASSUME IInv
  PROVE  /\ Issued \in Nat /\ PageOK /\ CallOK
         /\ jar \in [Browsers -> Cookies(Issued)]
         /\ fresh \in [Tabs -> Refresh(Issued)] /\ auth \in [Tabs -> Sign(Issued)]
         /\ \A t \in Tabs : fresh[t].pc = "read" => fresh[t].token # 0
BY DEF IInv, TypeInv, ServerOK, JarOK, FreshOK, AuthOK, Lineage

\* A new token: its number is the next one, the older ones keep their origin.
LEMMA Issuing ==
  ASSUME ServerOK, NEW t \in Tabs, NEW from \in 0..Issued, Issue(t, from), hash' = Issued + 1,
         Issued < MaxTokens
  PROVE  /\ ServerOK' /\ Issued' = Issued + 1
         /\ \A n \in 1..Issued : born'[n] = born[n]
         /\ born'[Issued + 1].from = from
<1>. DEFINE new == [by |-> Browser(t), from |-> from]
<1>1. new \in Origin BY BrowserOfTab DEF Origin, ServerOK
<1>2. born \in Seq(Origin) /\ born' = Append(born, new) /\ Len(born) \in Nat
  BY DEF ServerOK, Issue
<1>3. born' \in Seq(Origin) /\ Len(born') = Len(born) + 1 BY <1>1, <1>2
<1>4. \A n \in 1..Len(born) : born'[n] = born[n] BY <1>1, <1>2
<1>5. born'[Len(born) + 1] = new BY <1>1, <1>2
<1>6. Issued' = Issued + 1 BY <1>3 DEF Issued
<1>7. \A n \in 1..(Issued + 1) : born'[n].from \in 0..(n - 1)
  <2>. SUFFICES ASSUME NEW n \in 1..(Issued + 1) PROVE born'[n].from \in 0..(n - 1) OBVIOUS
  <2>1. CASE n \in 1..Issued BY <2>1, <1>4 DEF ServerOK, Issued
  <2>2. CASE n = Issued + 1 BY <2>2, <1>5, <1>2 DEF Issued
  <2>. QED BY <2>1, <2>2, <1>2 DEF Issued
<1>8. ServerOK'
  BY <1>2, <1>3, <1>6, <1>7, BoundAssumption DEF ServerOK, Issued
<1>. QED BY <1>4, <1>5, <1>6, <1>8 DEF Issued

\* The bound on a login leaves room for its token.
LEMMA RoomToLogIn == ASSUME ServerOK, Issued + Needed < MaxTokens PROVE Issued < MaxTokens
<1>1. Cardinality(Tabs) \in Nat /\ Cardinality(Calls) \in Nat
  BY PagesAssumption, FS_CardinalityType
<1>2. Needed \in Nat BY <1>1 DEF Needed
<1>. QED BY <1>2, BoundAssumption DEF ServerOK
-------------------------------------------------------------------------------
(* The steps of a page *)

LEMMA ExpiresStep == ASSUME IInv, NEW b \in Browsers, AccessExpires(b) PROVE IInv'
<1>1. jar[b] \in Cookies(Issued) BY Facts
<1>2. \A a \in Access : [jar[b] EXCEPT !.access = a] \in Cookies(Issued) BY <1>1, CookieEdits, Facts
<1>3. jar' \in [Browsers -> Cookies(Issued)] BY <1>2, Facts DEF AccessExpires, Access
<1>. QED BY <1>3, Facts, NothingIssued DEF AccessExpires, PageOK, CallOK

LEMMA AgesStep == ASSUME IInv, NEW t \in Tabs, StampAges(t) PROVE IInv'
<1>1. PageOK' BY Facts DEF StampAges, PageOK
<1>. QED BY <1>1, Facts, NothingIssued DEF StampAges, CallOK

LEMMA SendStep == ASSUME IInv, NEW t \in Tabs, NEW c \in Calls, Send(t, c) PROVE IInv'
<1>1. Sent(t, FALSE) \in Request BY Facts, SentTyped DEF JarOK
<1>2. CallOK' BY <1>1, Facts, SetCall DEF Send
<1>. QED BY <1>2, Facts, NothingIssued DEF Send, PageOK

LEMMA ResendStep == ASSUME IInv, NEW t \in Tabs, NEW c \in Calls, Resend(t, c) PROVE IInv'
<1>1. Sent(t, TRUE) \in Request BY Facts, SentTyped DEF JarOK
<1>2. CallOK' BY <1>1, Facts, SetCall DEF Resend
<1>. QED BY <1>2, Facts, NothingIssued DEF Resend, PageOK

\* A finished request is well formed.
LEMMA IdleRequest == IdleCall \in Request
BY DEF IdleCall, Request, Access

LEMMA LostStep == ASSUME IInv, NEW t \in Tabs, NEW c \in Calls, CallLost(t, c) PROVE IInv'
<1>1. CallOK' BY Facts, IdleRequest, SetCall DEF CallLost
<1>. QED BY <1>1, Facts, NothingIssued DEF CallLost, PageOK

\* A refresh is asked for with the cookie of the browser, unless one is under way.
LEMMA AskTyped ==
  ASSUME IInv, NEW t \in Tabs, NEW recover \in BOOLEAN, AskRefresh(t, recover)
  PROVE  /\ fresh' \in [Tabs -> Refresh(Issued)]
         /\ \A u \in Tabs : fresh'[u].pc = "read" => fresh'[u].token # 0
<1>. DEFINE asked == [pc |-> "asked", token |-> jar[Browser(t)].refresh, new |-> 0,
                      recover |-> recover]
<1>1. jar[Browser(t)].refresh \in 0..Issued BY BrowserOfTab, Facts DEF Cookies
<1>2. asked \in Refresh(Issued) BY <1>1, Facts DEF Refresh
<1>3. fresh' = [fresh EXCEPT ![t] = IF fresh[t].pc = "none" THEN asked ELSE fresh[t]]
  BY Facts DEF AskRefresh
<1>. QED BY <1>2, <1>3, Facts

\* handleUnauthorized, sessionLost.
LEMMA LostTyped ==
  ASSUME IInv, NEW t \in Tabs, SessionLost(t, Browser(t)), UNCHANGED tried
  PROVE  PageOK' /\ jar' \in [Browsers -> Cookies(Issued)]
<1>. DEFINE b == Browser(t)
<1>1. b \in Browsers BY BrowserOfTab
<1>2. jar[b] \in Cookies(Issued) BY <1>1, Facts
<1>3. PICK v \in BOOLEAN : v = (jar[b].csrf /\ Kind(t) # "shop") OBVIOUS
<1>4. [jar[b] EXCEPT !.csrf = v] \in Cookies(Issued) BY <1>2, CookieEdits, Facts
<1>5. jar' = [jar EXCEPT ![b] = [jar[b] EXCEPT !.csrf = v]] BY <1>1, <1>3, Facts DEF SessionLost
<1>6. jar' \in [Browsers -> Cookies(Issued)] BY <1>4, <1>5, Facts
<1>7. PageOK' BY Facts DEF SessionLost, PageOK
<1>. QED BY <1>6, <1>7

LEMMA AnswerStep == ASSUME IInv, NEW t \in Tabs, NEW c \in Calls, Answer(t, c) PROVE IInv'
<1>. DEFINE r == call[t][c]
<1>1. UNCHANGED <<hash, born, auth, tried>> BY DEF Answer
<1>2. CASE r.access = "valid" /\ call' = [call EXCEPT ![t][c] = IdleCall] /\ UNCHANGED <<jar, page, fresh>>
  <2>1. CallOK' BY <1>2, Facts, IdleRequest, SetCall
  <2>. QED BY <1>1, <1>2, <2>1, Facts, NothingIssued DEF PageOK
<1>3. CASE /\ call' = [call EXCEPT ![t][c].pc = "waiting"] /\ AskRefresh(t, FALSE)
           /\ UNCHANGED <<jar, page>>
  <2>0. r \in Request BY Facts DEF CallOK
  <2>1. [r EXCEPT !.pc = "waiting"] \in Request BY <2>0 DEF Request
  <2>2. call' = [call EXCEPT ![t][c] = [r EXCEPT !.pc = "waiting"]] BY <1>3, Facts DEF CallOK
  <2>3. CallOK' BY <2>1, <2>2, Facts, SetCall
  <2>4. PageOK' BY <1>1, <1>3, Facts DEF PageOK
  <2>. QED BY <1>1, <1>3, <2>3, <2>4, Facts, AskTyped, NothingIssued
<1>4. CASE /\ call' = [call EXCEPT ![t][c] = IdleCall] /\ SessionLost(t, Browser(t))
           /\ UNCHANGED fresh
  <2>1. CallOK' BY <1>4, Facts, IdleRequest, SetCall
  <2>2. PageOK' /\ jar' \in [Browsers -> Cookies(Issued)] BY <1>1, <1>4, LostTyped
  <2>. QED BY <1>1, <1>4, <2>1, <2>2, Facts, NothingIssued
<1>. QED BY <1>2, <1>3, <1>4 DEF Answer
-------------------------------------------------------------------------------
(* The refresh *)

\* The refresh of one page moves, to a well-formed state that presents a token if let in.
LEMMA SetFresh ==
  ASSUME IInv, NEW t \in Tabs, NEW f \in Refresh(Issued), f.pc = "read" => f.token # 0,
         fresh' = [fresh EXCEPT ![t] = f]
  PROVE  /\ fresh' \in [Tabs -> Refresh(Issued)]
         /\ \A u \in Tabs : fresh'[u].pc = "read" => fresh'[u].token # 0
BY Facts

LEMMA ReadStep == ASSUME IInv, NEW t \in Tabs, RefreshRead(t) PROVE IInv'
<1>. DEFINE f == [fresh[t] EXCEPT !.pc = IF hash # 0 /\ hash = fresh[t].token THEN "read"
                                         ELSE "refused"]
<1>1. fresh[t] \in Refresh(Issued) BY Facts
<1>2. f \in Refresh(Issued) BY <1>1 DEF Refresh
<1>3. f.pc = "read" => f.token # 0 BY <1>1 DEF Refresh
<1>4. fresh' = [fresh EXCEPT ![t] = f] BY Facts DEF RefreshRead
<1>5. /\ fresh' \in [Tabs -> Refresh(Issued)]
      /\ \A u \in Tabs : fresh'[u].pc = "read" => fresh'[u].token # 0
  BY <1>2, <1>3, <1>4, SetFresh
<1>. QED BY <1>5, Facts, NothingIssued DEF RefreshRead, PageOK, CallOK

\* The exchange: the token presented is the current one and leaves; nobody has exchanged it.
LEMMA RotateStep == ASSUME IInv, NEW t \in Tabs, RefreshRotate(t) PROVE IInv'
<1>. DEFINE token == fresh[t].token
            next == Issued + 1
            f == [fresh[t] EXCEPT !.pc = "rotated", !.new = next]
            g == [fresh[t] EXCEPT !.pc = "refused"]
<1>1. fresh[t] \in Refresh(Issued) /\ Issued \in Nat BY Facts
<1>2. CASE StillCurrent(t)
  <2>1. /\ Issue(t, token) /\ hash' = next /\ fresh[t].pc = "read" /\ Issued < MaxTokens
        /\ fresh' = [fresh EXCEPT ![t].pc = "rotated", ![t].new = next]
        /\ UNCHANGED <<jar, page, call, auth, tried>>
    BY <1>2 DEF RefreshRotate
  <2>2. token \in 0..Issued /\ token # 0 /\ token = hash BY <1>1, <1>2, <2>1, Facts DEF Refresh, StillCurrent
  <2>3. /\ ServerOK' /\ Issued' = next /\ born'[next].from = token
        /\ \A n \in 1..Issued : born'[n] = born[n]
    BY <2>1, <2>2, Issuing DEF IInv, TypeInv
  <2>4. next \in Nat /\ Issued <= next BY <1>1
  <2>5. /\ Cookies(Issued) \subseteq Cookies(next) /\ Refresh(Issued) \subseteq Refresh(next)
        /\ Sign(Issued) \subseteq Sign(next)
    BY <1>1, <2>4, MoreTokens
  <2>6. /\ f \in Refresh(next) /\ f.pc # "read" /\ fresh' = [fresh EXCEPT ![t] = f]
    <3>1. fresh[t] \in Refresh(next) /\ next \in 0..next BY <1>1, <2>4, <2>5
    <3>2. f \in Refresh(next) /\ f.pc # "read" BY <3>1 DEF Refresh
    <3>. QED BY <2>1, <3>2, Facts
  <2>7. /\ fresh' \in [Tabs -> Refresh(next)] /\ jar' \in [Browsers -> Cookies(next)]
        /\ auth' \in [Tabs -> Sign(next)]
    BY <2>1, <2>5, <2>6, Facts
  <2>8. TypeInv'
    BY <2>1, <2>3, <2>7, Facts DEF TypeInv, JarOK, AuthOK, PageOK, CallOK, FreshOK
  <2>9. \A u \in Tabs : fresh'[u].pc = "read" => fresh'[u].token # 0 BY <2>6, Facts
  <2>10. \A n \in 1..Issued : born[n].from # token BY <2>2 DEF IInv, Lineage
  <2>11. \A n \in 1..next : born'[n].from # next
    <3>. SUFFICES ASSUME NEW n \in 1..next PROVE born'[n].from # next OBVIOUS
    <3>1. CASE n \in 1..Issued
      <4>1. born[n].from \in 0..(n - 1) BY <3>1 DEF IInv, TypeInv, ServerOK
      <4>. QED BY <4>1, <3>1, <2>3, <1>1
    <3>2. CASE n = next BY <3>2, <2>2, <2>3, <1>1
    <3>. QED BY <3>1, <3>2, <1>1
  <2>12. RotatedOnce'
    <3>. SUFFICES ASSUME NEW m \in 1..next, NEW n \in 1..next, m # n,
                         born'[m].from = born'[n].from
                  PROVE  born'[m].from = 0
      BY <2>3 DEF RotatedOnce
    <3>1. CASE m \in 1..Issued /\ n \in 1..Issued
      BY <3>1, <2>3 DEF IInv, Lineage, RotatedOnce
    <3>2. CASE m = next /\ n \in 1..Issued BY <3>2, <2>3, <2>10
    <3>3. CASE n = next /\ m \in 1..Issued BY <3>3, <2>3, <2>10
    <3>. QED BY <3>1, <3>2, <3>3, <1>1
  <2>13. Lineage' BY <2>1, <2>3, <2>9, <2>11, <2>12 DEF Lineage
  <2>. QED BY <2>8, <2>13 DEF IInv
<1>3. CASE ~StillCurrent(t)
  <2>1. /\ fresh' = [fresh EXCEPT ![t].pc = "refused"]
        /\ UNCHANGED <<hash, born, jar, page, call, auth, tried>>
    BY <1>3 DEF RefreshRotate
  <2>2. g \in Refresh(Issued) /\ g.pc # "read" BY <1>1 DEF Refresh
  <2>3. fresh' = [fresh EXCEPT ![t] = g] BY <2>1, Facts
  <2>4. /\ fresh' \in [Tabs -> Refresh(Issued)]
        /\ \A u \in Tabs : fresh'[u].pc = "read" => fresh'[u].token # 0
    BY <2>2, <2>3, SetFresh
  <2>. QED BY <2>1, <2>4, Facts, NothingIssued DEF PageOK, CallOK
<1>. QED BY <1>2, <1>3

\* The refresh of a page is over.
LEMMA FreshDone ==
  ASSUME IInv, NEW t \in Tabs, fresh' = [fresh EXCEPT ![t] = NoRefresh]
  PROVE  /\ fresh' \in [Tabs -> Refresh(Issued)]
         /\ \A u \in Tabs : fresh'[u].pc = "read" => fresh'[u].token # 0
<1>1. NoRefresh \in Refresh(Issued) /\ NoRefresh.pc # "read" BY Facts DEF NoRefresh, Refresh
<1>. QED BY <1>1, SetFresh

LEMMA RenewedStep == ASSUME IInv, NEW t \in Tabs, Renewed(t) PROVE IInv'
<1>. DEFINE b == Browser(t)
<1>1. b \in Browsers BY BrowserOfTab
<1>2. jar[b] \in Cookies(Issued) /\ fresh[t].new \in 0..Issued BY <1>1, Facts DEF Refresh
<1>3. [jar[b] EXCEPT !.access = "valid", !.refresh = fresh[t].new] \in Cookies(Issued)
  BY <1>2, CookieEdits, Facts DEF Access
<1>4. jar' = [jar EXCEPT ![b] = [jar[b] EXCEPT !.access = "valid", !.refresh = fresh[t].new]]
  BY <1>1, Facts DEF Renewed
<1>5. jar' \in [Browsers -> Cookies(Issued)] BY <1>3, <1>4, Facts
<1>6. PageOK' BY Facts DEF Renewed, PageOK
<1>7. CallOK' BY Facts, WokenTyped DEF Renewed, CallOK
<1>8. /\ fresh' \in [Tabs -> Refresh(Issued)]
      /\ \A u \in Tabs : fresh'[u].pc = "read" => fresh'[u].token # 0
  BY FreshDone DEF Renewed
<1>. QED BY <1>5, <1>6, <1>7, <1>8, Facts, NothingIssued DEF Renewed

\* A refresh that failed puts the page out and keeps the cookies well formed.
LEMMA GivesUpTyped ==
  ASSUME IInv, NEW t \in Tabs, NEW k \in Cookies(Issued), GivesUp(t, k), UNCHANGED tried
  PROVE  PageOK' /\ jar' \in [Browsers -> Cookies(Issued)]
<1>1. PICK v \in BOOLEAN : v = (k.csrf /\ Kind(t) # "shop") OBVIOUS
<1>2. [k EXCEPT !.csrf = v] \in Cookies(Issued) BY CookieEdits, Facts
<1>3. jar' = [jar EXCEPT ![Browser(t)] = [k EXCEPT !.csrf = v]] BY <1>1 DEF GivesUp
<1>4. jar' \in [Browsers -> Cookies(Issued)] BY <1>2, <1>3, Facts
<1>5. PageOK' BY Facts DEF GivesUp, PageOK
<1>. QED BY <1>4, <1>5

\* clearAuthCookies.
LEMMA ClearedTyped == ASSUME IInv, NEW t \in Tabs PROVE Cleared(Browser(t)) \in Cookies(Issued)
<1>1. jar[Browser(t)] \in Cookies(Issued) BY BrowserOfTab, Facts
<1>2. "gone" \in Access /\ 0 \in 0..Issued BY Facts DEF Access
<1>. QED BY <1>1, <1>2, CookieEdits, Facts DEF Cleared

LEMMA RefusedStep == ASSUME IInv, NEW t \in Tabs, Refused(t) PROVE IInv'
<1>1. PageOK' /\ jar' \in [Browsers -> Cookies(Issued)]
  BY ClearedTyped, GivesUpTyped DEF Refused
<1>2. CallOK' BY Facts, WokenTyped DEF Refused, CallOK
<1>3. /\ fresh' \in [Tabs -> Refresh(Issued)]
      /\ \A u \in Tabs : fresh'[u].pc = "read" => fresh'[u].token # 0
  BY FreshDone DEF Refused
<1>. QED BY <1>1, <1>2, <1>3, Facts, NothingIssued DEF Refused

LEMMA RefreshLostStep == ASSUME IInv, NEW t \in Tabs, RefreshLost(t) PROVE IInv'
<1>0. jar[Browser(t)] \in Cookies(Issued) BY BrowserOfTab, Facts
<1>1. PageOK' /\ jar' \in [Browsers -> Cookies(Issued)] BY <1>0, GivesUpTyped DEF RefreshLost
<1>2. CallOK' BY Facts, WokenTyped DEF RefreshLost, CallOK
<1>3. /\ fresh' \in [Tabs -> Refresh(Issued)]
      /\ \A u \in Tabs : fresh'[u].pc = "read" => fresh'[u].token # 0
  BY FreshDone DEF RefreshLost
<1>. QED BY <1>1, <1>2, <1>3, Facts, NothingIssued DEF RefreshLost

LEMMA ReloadStep == ASSUME IInv, NEW t \in Tabs, Reload(t) PROVE IInv'
<1>1. UNCHANGED <<hash, born, jar, auth>> BY DEF Reload
<1>2. CASE /\ page' = [page EXCEPT ![t] = "in"]
           /\ \E c \in Calls : call' = [call EXCEPT ![t][c] = Sent(t, FALSE)]
           /\ UNCHANGED <<fresh, tried>>
  <2>1. Sent(t, FALSE) \in Request BY Facts, SentTyped DEF JarOK
  <2>2. PICK c \in Calls : call' = [call EXCEPT ![t][c] = Sent(t, FALSE)] BY <1>2
  <2>3. CallOK' BY <2>1, <2>2, Facts, SetCall
  <2>4. PageOK' BY <1>2, Facts DEF PageOK
  <2>. QED BY <1>1, <1>2, <2>3, <2>4, Facts, NothingIssued
<1>3. CASE /\ page' = [page EXCEPT ![t] = IF jar[Browser(t)].access = "valid" THEN "in" ELSE "out"]
           /\ UNCHANGED call
           /\ \/ AskRefresh(t, TRUE) /\ tried' = [tried EXCEPT ![t] = TRUE]
              \/ UNCHANGED <<fresh, tried>>
  <2>1. CallOK' BY <1>3, Facts DEF CallOK
  <2>2. PageOK' BY <1>3, Facts DEF PageOK
  <2>3. /\ fresh' \in [Tabs -> Refresh(Issued)]
        /\ \A u \in Tabs : fresh'[u].pc = "read" => fresh'[u].token # 0
    BY <1>3, Facts, AskTyped
  <2>. QED BY <1>1, <2>1, <2>2, <2>3, Facts, NothingIssued
<1>. QED BY <1>2, <1>3 DEF Reload
-------------------------------------------------------------------------------
(* Login, password change and logout *)

\* A page whose login or password change is under way holds the token just issued.
LEMMA SignedStep ==
  ASSUME IInv, NEW t \in Tabs, NEW pc \in {"login", "change"}, Issue(t, 0), hash' = Issued + 1,
         auth' = [auth EXCEPT ![t] = [pc |-> pc, token |-> Issued + 1]],
         Issued + Needed < MaxTokens, UNCHANGED <<jar, page, call, fresh, tried>>
  PROVE  IInv'
<1>. DEFINE next == Issued + 1
<1>1. Issued \in Nat /\ next \in Nat /\ Issued <= next /\ 0 \in 0..Issued BY Facts
<1>2. Issued < MaxTokens BY RoomToLogIn DEF IInv, TypeInv
<1>3. /\ ServerOK' /\ Issued' = next /\ born'[next].from = 0
      /\ \A n \in 1..Issued : born'[n] = born[n]
  BY <1>1, <1>2, Issuing DEF IInv, TypeInv
<1>4. /\ Cookies(Issued) \subseteq Cookies(next) /\ Refresh(Issued) \subseteq Refresh(next)
      /\ Sign(Issued) \subseteq Sign(next)
  BY <1>1, MoreTokens
<1>5. [pc |-> pc, token |-> next] \in Sign(next) BY <1>1 DEF Sign
<1>6. /\ fresh' \in [Tabs -> Refresh(next)] /\ jar' \in [Browsers -> Cookies(next)]
      /\ auth' \in [Tabs -> Sign(next)]
  BY <1>4, <1>5, Facts
<1>7. TypeInv' BY <1>3, <1>6, Facts DEF TypeInv, JarOK, AuthOK, PageOK, CallOK, FreshOK
<1>8. \A n \in 1..next : born'[n].from # next
  <2>. SUFFICES ASSUME NEW n \in 1..next PROVE born'[n].from # next OBVIOUS
  <2>1. CASE n \in 1..Issued
    <3>1. born[n].from \in 0..(n - 1) BY <2>1 DEF IInv, TypeInv, ServerOK
    <3>. QED BY <3>1, <2>1, <1>3, <1>1
  <2>2. CASE n = next BY <2>2, <1>3, <1>1
  <2>. QED BY <2>1, <2>2, <1>1
<1>9. RotatedOnce'
  <2>. SUFFICES ASSUME NEW m \in 1..next, NEW n \in 1..next, m # n,
                       born'[m].from = born'[n].from
                PROVE  born'[m].from = 0
    BY <1>3 DEF RotatedOnce
  <2>1. CASE m \in 1..Issued /\ n \in 1..Issued
    BY <2>1, <1>3 DEF IInv, Lineage, RotatedOnce
  <2>2. CASE m = next \/ n = next BY <2>2, <1>3
  <2>. QED BY <2>1, <2>2, <1>1
<1>10. Lineage' BY <1>3, <1>8, <1>9, Facts DEF Lineage
<1>. QED BY <1>7, <1>10 DEF IInv

LEMMA LogoutStep == ASSUME IInv, NEW t \in Tabs, Logout(t) PROVE IInv'
<1>1. [pc |-> "logout", token |-> 0] \in Sign(Issued) BY Facts DEF Sign
<1>2. auth' \in [Tabs -> Sign(Issued)] BY <1>1, Facts DEF Logout
<1>3. hash' \in {0, hash} /\ UNCHANGED <<born, jar, page, call, fresh, tried>> BY DEF Logout
<1>4. Issued' = Issued BY <1>3 DEF Issued
<1>5. TypeInv' BY <1>2, <1>3, <1>4, Facts
               DEF IInv, TypeInv, ServerOK, JarOK, FreshOK, AuthOK, PageOK, CallOK
<1>6. Lineage' BY <1>3, <1>4 DEF IInv, Lineage, RotatedOnce
<1>. QED BY <1>5, <1>6 DEF IInv

LEMMA AuthReplyStep == ASSUME IInv, NEW t \in Tabs, AuthReply(t) PROVE IInv'
<1>. DEFINE b == Browser(t)
<1>1. b \in Browsers BY BrowserOfTab
<1>2. jar[b] \in Cookies(Issued) /\ auth[t].token \in 0..Issued BY <1>1, Facts DEF Sign
<1>3. jar' \in [Browsers -> Cookies(Issued)]
  <2>1. CASE auth[t].pc = "logout"
    <3>1. PICK v \in BOOLEAN : v = (Cleared(b).csrf /\ Kind(t) # "shop") OBVIOUS
    <3>2. jar' = [jar EXCEPT ![b] = [Cleared(b) EXCEPT !.csrf = v]]
      BY <2>1, <3>1, <1>1, Facts DEF AuthReply
    <3>3. [Cleared(b) EXCEPT !.csrf = v] \in Cookies(Issued) BY ClearedTyped, CookieEdits, Facts
    <3>. QED BY <3>2, <3>3, Facts
  <2>2. CASE auth[t].pc # "logout"
    <3>1. PICK v \in BOOLEAN : v = (jar[b].csrf \/ auth[t].pc = "login") OBVIOUS
    <3>2. jar' = [jar EXCEPT ![b] = [access |-> "valid", refresh |-> auth[t].token, csrf |-> v]]
      BY <2>2, <3>1, <1>1, Facts DEF AuthReply
    <3>3. [access |-> "valid", refresh |-> auth[t].token, csrf |-> v] \in Cookies(Issued)
      BY <1>2 DEF Cookies, Access
    <3>. QED BY <3>2, <3>3, Facts
  <2>. QED BY <2>1, <2>2
<1>4. PageOK' BY Facts DEF AuthReply, PageOK
<1>5. NoAuth \in Sign(Issued) BY Facts DEF NoAuth, Sign
<1>6. auth' \in [Tabs -> Sign(Issued)] BY <1>5, Facts DEF AuthReply
<1>. QED BY <1>3, <1>4, <1>6, Facts, NothingIssued DEF AuthReply, CallOK
-------------------------------------------------------------------------------
(* The theorems *)

\* One browser has logged in.
LEMMA InitOK == Init => IInv
<1>. SUFFICES ASSUME Init PROVE IInv OBVIOUS
<1>1. PICK t \in Tabs :
        /\ born = <<[by |-> Browser(t), from |-> 0]>>
        /\ jar = [b \in Browsers |-> IF b = Browser(t)
                     THEN [access |-> "valid", refresh |-> 1, csrf |-> TRUE] ELSE NoCookies]
        /\ page = [u \in Tabs |-> IF Browser(u) = Browser(t) THEN "in" ELSE "out"]
  BY DEF Init
<1>2. [by |-> Browser(t), from |-> 0] \in Origin BY BrowserOfTab DEF Origin
<1>3. born \in Seq(Origin) /\ Issued = 1 /\ born[1].from = 0 BY <1>1, <1>2 DEF Issued
<1>4. ServerOK BY <1>3, BoundAssumption DEF Init, ServerOK
<1>5. JarOK(Issued) BY <1>1, <1>3 DEF JarOK, Cookies, Access, NoCookies
<1>6. PageOK BY <1>1 DEF Init, PageOK
<1>7. CallOK BY IdleRequest DEF Init, CallOK
<1>8. FreshOK(Issued) BY <1>3 DEF Init, FreshOK, Refresh, NoRefresh
<1>9. AuthOK(Issued) BY <1>3 DEF Init, AuthOK, Sign, NoAuth
<1>10. Lineage BY <1>3 DEF Init, Lineage, RotatedOnce, NoRefresh
<1>. QED BY <1>4, <1>5, <1>6, <1>7, <1>8, <1>9, <1>10 DEF IInv, TypeInv

LEMMA LoginStep == ASSUME IInv, NEW t \in Tabs, Login(t) PROVE IInv'
BY SignedStep DEF Login

LEMMA ChangeStep == ASSUME IInv, NEW t \in Tabs, ChangePassword(t) PROVE IInv'
BY SignedStep DEF ChangePassword

\* Every step keeps the lineage.
LEMMA NextOK == IInv /\ [Next]_vars => IInv'
<1>. SUFFICES ASSUME IInv, [Next]_vars PROVE IInv' OBVIOUS
<1>1. CASE UNCHANGED vars BY <1>1, Facts, NothingIssued DEF vars, PageOK, CallOK
<1>2. CASE \E b \in Browsers : AccessExpires(b) BY <1>2, ExpiresStep
<1>3. ASSUME NEW t \in Tabs, Round(t) PROVE IInv'
  BY <1>3, AnswerStep, ResendStep, LostStep, ReadStep, RotateStep, RenewedStep, RefusedStep,
     RefreshLostStep, AuthReplyStep DEF Round
<1>4. ASSUME NEW t \in Tabs, \/ Reload(t) \/ StampAges(t) \/ Login(t) \/ ChangePassword(t)
                             \/ Logout(t) \/ \E c \in Calls : Send(t, c)
      PROVE  IInv'
  BY <1>4, ReloadStep, AgesStep, LoginStep, ChangeStep, LogoutStep, SendStep
<1>. QED BY <1>1, <1>2, <1>3, <1>4 DEF Next

\* The inductive invariant holds in every reachable state.
LEMMA LineageAlways == Spec => []IInv
BY InitOK, NextOK, PTL DEF Spec

\* However many pages of however many browsers refresh, log in and out at once, a refresh token
\* is exchanged at most once (AuthService.refresh, rotateRefreshTokenHash).
THEOREM OneSessionAlways == Spec => []OneSession
<1>1. IInv => OneSession BY TypeInvImpliesTypeOK DEF IInv, Lineage, OneSession
<1>. QED BY <1>1, LineageAlways, PTL

\* A step that gives the server a hash when it has none is a login or a password change: a
\* refresh that was let in before the logout finds its token gone.
LEMMA NoSessionReturns ==
  ASSUME IInv, [Next]_vars, hash = 0, hash' # 0
  PROVE  \E t \in Tabs : auth'[t].pc \in {"login", "change"} /\ auth'[t].token = hash'
<1>1. ASSUME NEW t \in Tabs, Login(t) \/ ChangePassword(t)
      PROVE  auth'[t].pc \in {"login", "change"} /\ auth'[t].token = hash'
  BY <1>1, Facts DEF Login, ChangePassword
<1>2. ASSUME NEW t \in Tabs, RefreshRotate(t) PROVE FALSE
  BY <1>2, Facts DEF RefreshRotate, StillCurrent
<1>3. ASSUME NEW t \in Tabs, Logout(t) PROVE FALSE BY <1>3 DEF Logout
<1>4. ASSUME NEW t \in Tabs, NEW c \in Calls, \/ Answer(t, c) \/ Resend(t, c) \/ CallLost(t, c)
                                              \/ Send(t, c)
      PROVE  UNCHANGED hash
  BY <1>4 DEF Answer, Resend, CallLost, Send
<1>5. ASSUME NEW t \in Tabs, \/ RefreshRead(t) \/ Renewed(t) \/ Refused(t) \/ RefreshLost(t)
                             \/ AuthReply(t) \/ Reload(t) \/ StampAges(t)
      PROVE  UNCHANGED hash
  BY <1>5 DEF RefreshRead, Renewed, Refused, RefreshLost, AuthReply, Reload, StampAges
<1>6. ASSUME NEW b \in Browsers, AccessExpires(b) PROVE UNCHANGED hash BY <1>6 DEF AccessExpires
<1>7. CASE UNCHANGED vars BY <1>7 DEF vars
<1>. QED BY <1>1, <1>2, <1>3, <1>4, <1>5, <1>6, <1>7 DEF Next, Round

\* After a logout no refresh under way brings the session back, in whatever page it runs.
THEOREM LogoutFinal == Spec => LogoutEnds
<1>1. IInv /\ [Next]_vars =>
        [hash = 0 /\ hash' # 0 =>
           \E t \in Tabs : auth'[t].pc \in {"login", "change"} /\ auth'[t].token = hash']_vars
  BY NoSessionReturns
<1>. QED BY <1>1, LineageAlways, PTL DEF Spec, LogoutEnds
=============================================================================
