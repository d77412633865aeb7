------------------------------ MODULE Sessions ------------------------------
(***************************************************************************)
(* The session of one user: the refresh token whose hash the server keeps, *)
(* the cookies of the user's browsers, and the pages that renew them.      *)
(*                                                                         *)
(* Server: AuthService.login, refresh, logout and changePassword over the  *)
(* one refreshTokenHash of the user.  Pages: request and tryRefreshSession *)
(* of the admin panel (lib/api.ts), apiRequest, tryRefresh, sessionLost    *)
(* and recoverSession of the shop (cart.js).  A request that is denied     *)
(* waits for its page's refresh and is sent once more.  Every request      *)
(* takes a step at the server and one when its reply reaches the page.     *)
(***************************************************************************)
EXTENDS Integers, FiniteSets, Sequences

CONSTANTS
  Tabs,       \* pages that are open: <<browser, "panel" or "shop", number>>
  Calls,      \* requests a page has under way at once
  MaxTokens,  \* bound on the refresh tokens issued
  Again,      \* may the user log in, log out and change the password?
  Slow,       \* may an access token expire while a login or password change is under way?
  LostReplies \* may a reply get lost?

ASSUME PagesAssumption == IsFiniteSet(Tabs) /\ IsFiniteSet(Calls)
ASSUME BoundAssumption == MaxTokens \in Nat \ {0} /\ {Again, Slow, LostReplies} \subseteq BOOLEAN

VARIABLES
  hash,   \* User.refreshTokenHash: a token, or 0
  born,   \* born[n]: the browser token n was issued to and the token it replaced
  jar,    \* jar[b]: the cookies of browser b
  page,   \* page[t]: "in" while the page shows a session, "out" at the login form
  call,   \* call[t][c]: a request of the page
  fresh,  \* fresh[t]: the page's refreshInflight
  auth,   \* auth[t]: a login, password change or logout under way
  tried   \* the stamp of recoverSession in the page's sessionStorage

vars == <<hash, born, jar, page, call, fresh, auth, tried>>

Browser(t) == t[1]
Kind(t) == t[2]
Browsers == {Browser(t) : t \in Tabs}
NoCookies == [access |-> "gone", refresh |-> 0, csrf |-> FALSE]
NoRefresh == [pc |-> "none", token |-> 0, new |-> 0, recover |-> FALSE]
NoAuth == [pc |-> "none", token |-> 0]
IdleCall == [pc |-> "idle", access |-> "gone", retried |-> FALSE]

Issued == Len(born)
Issue(t, from) == born' = Append(born, [by |-> Browser(t), from |-> from])

\* One browser has logged in.
Init == /\ \E t \in Tabs :
             /\ born = <<[by |-> Browser(t), from |-> 0]>>
             /\ jar = [b \in Browsers |-> IF b = Browser(t)
                          THEN [access |-> "valid", refresh |-> 1, csrf |-> TRUE] ELSE NoCookies]
             /\ page = [u \in Tabs |-> IF Browser(u) = Browser(t) THEN "in" ELSE "out"]
        /\ hash = 1
        /\ call = [t \in Tabs |-> [c \in Calls |-> IdleCall]]
        /\ fresh = [t \in Tabs |-> NoRefresh] /\ auth = [t \in Tabs |-> NoAuth]
        /\ tried = [t \in Tabs |-> FALSE]
-------------------------------------------------------------------------------
(* Time.  The cookie lives as long as the token in it, and is set a little  *)
(* later than the token was signed.                                         *)
AccessExpires(b) ==
  /\ jar[b].access # "gone"
  /\ Slow \/ \A t \in Tabs : Browser(t) = b => auth[t].pc = "none"
  /\ jar' = [jar EXCEPT ![b].access = IF @ = "valid" THEN "expired" ELSE "gone"]
  /\ UNCHANGED <<hash, born, page, call, fresh, auth, tried>>

\* Five minutes after a recovery was tried it may be tried again.
StampAges(t) == /\ tried[t] /\ tried' = [tried EXCEPT ![t] = FALSE]
                /\ UNCHANGED <<hash, born, jar, page, call, fresh, auth>>
-------------------------------------------------------------------------------
(* A request of a page, and its reply.                                      *)

Sent(t, retried) == [pc |-> "sent", access |-> jar[Browser(t)].access, retried |-> retried]

\* Bound: tokens are left for the refreshes the requests may need, one each.
Needed == Cardinality(Tabs) * Cardinality(Calls)
Room == Issued + Needed <= MaxTokens

Send(t, c) ==
  /\ page[t] = "in" /\ call[t][c].pc = "idle" /\ Room
  /\ call' = [call EXCEPT ![t][c] = Sent(t, FALSE)]
  /\ UNCHANGED <<hash, born, jar, page, fresh, auth, tried>>

\* JwtAuthGuard says TOKEN_EXPIRED of an expired token and UNAUTHENTICATED of none.  The panel
\* asks for a new one after any 401, the shop after TOKEN_EXPIRED, each once for a request.
Renewable(t, r) == ~r.retried /\ (Kind(t) = "shop" => r.access = "expired")

\* handleUnauthorized, sessionLost
SessionLost(t, b) ==
  /\ page' = [page EXCEPT ![t] = "out"]
  /\ jar' = [jar EXCEPT ![b].csrf = @ /\ Kind(t) # "shop"]

\* The refresh that is under way is shared.
AskRefresh(t, recover) ==
  fresh' = [fresh EXCEPT ![t] = IF @.pc = "none"
    THEN [pc |-> "asked", token |-> jar[Browser(t)].refresh, new |-> 0, recover |-> recover] ELSE @]

Answer(t, c) ==
  /\ call[t][c].pc = "sent"
  /\ LET r == call[t][c] IN
     \/ /\ r.access = "valid"
        /\ call' = [call EXCEPT ![t][c] = IdleCall]
        /\ UNCHANGED <<jar, page, fresh>>
     \/ /\ r.access # "valid" /\ Renewable(t, r)
        /\ call' = [call EXCEPT ![t][c].pc = "waiting"]
        /\ AskRefresh(t, FALSE)
        /\ UNCHANGED <<jar, page>>
     \/ /\ r.access # "valid" /\ ~Renewable(t, r)
        /\ call' = [call EXCEPT ![t][c] = IdleCall]
        /\ SessionLost(t, Browser(t))
        /\ UNCHANGED fresh
  /\ UNCHANGED <<hash, born, auth, tried>>

\* The network fails: the request ends with an error, and the session is not in question.
CallLost(t, c) ==
  /\ LostReplies /\ call[t][c].pc = "sent"
  /\ call' = [call EXCEPT ![t][c] = IdleCall]
  /\ UNCHANGED <<hash, born, jar, page, fresh, auth, tried>>

Resend(t, c) ==
  /\ call[t][c].pc = "again"
  /\ call' = [call EXCEPT ![t][c] = Sent(t, TRUE)]
  /\ UNCHANGED <<hash, born, jar, page, fresh, auth, tried>>
-------------------------------------------------------------------------------
(* POST /auth/refresh: the hash is read, and replaced if it is still the    *)
(* same.                                                                    *)

RefreshRead(t) ==
  /\ fresh[t].pc = "asked"
  /\ fresh' = [fresh EXCEPT ![t].pc = IF hash # 0 /\ hash = fresh[t].token THEN "read" ELSE "refused"]
  /\ UNCHANGED <<hash, born, jar, page, call, auth, tried>>

\* Mutant: the new hash is written by user id.
StillCurrentAlways(t) == TRUE

\* rotateRefreshTokenHash
StillCurrent(t) == hash = fresh[t].token

RefreshRotate(t) ==
  /\ fresh[t].pc = "read" /\ Issued < MaxTokens
  /\ IF StillCurrent(t)
     THEN /\ Issue(t, fresh[t].token) /\ hash' = Issued + 1
          /\ fresh' = [fresh EXCEPT ![t].pc = "rotated", ![t].new = Issued + 1]
     ELSE fresh' = [fresh EXCEPT ![t].pc = "refused"] /\ UNCHANGED <<hash, born>>
  /\ UNCHANGED <<jar, page, call, auth, tried>>

\* Mutant: only a renewed session wakes the requests.
WokenIfRenewed(t, ok) ==
  [call EXCEPT ![t] = [c \in Calls |-> IF ok /\ @[c].pc = "waiting" THEN [@[c] EXCEPT !.pc = "again"] ELSE @[c]]]

\* All the requests that wait go on together.
Woken(t, ok) ==
  [call EXCEPT ![t] = [c \in Calls |-> IF @[c].pc # "waiting" THEN @[c]
                                       ELSE IF ok THEN [@[c] EXCEPT !.pc = "again"] ELSE IdleCall]]

\* A refresh for the requests of the page ends its session; one of recoverSession drops the CSRF
\* cookie and is not tried again.
GivesUp(t, cookies) ==
  /\ page' = [page EXCEPT ![t] = "out"]
  /\ jar' = [jar EXCEPT ![Browser(t)] = [cookies EXCEPT !.csrf = @ /\ Kind(t) # "shop"]]

Renewed(t) ==
  /\ fresh[t].pc = "rotated"
  /\ jar' = [jar EXCEPT ![Browser(t)].access = "valid", ![Browser(t)].refresh = fresh[t].new]
  /\ call' = Woken(t, TRUE)
  /\ page' = [page EXCEPT ![t] = IF fresh[t].recover THEN "in" ELSE @]
  /\ fresh' = [fresh EXCEPT ![t] = NoRefresh]
  /\ UNCHANGED <<hash, born, auth, tried>>

\* clearAuthCookies
Cleared(b) == [jar[b] EXCEPT !.access = "gone", !.refresh = 0]

Refused(t) ==
  /\ fresh[t].pc = "refused"
  /\ GivesUp(t, Cleared(Browser(t)))
  /\ call' = Woken(t, FALSE)
  /\ fresh' = [fresh EXCEPT ![t] = NoRefresh]
  /\ UNCHANGED <<hash, born, auth, tried>>

RefreshLost(t) ==
  /\ LostReplies /\ fresh[t].pc \in {"asked", "rotated", "refused"}
  /\ GivesUp(t, jar[Browser(t)])
  /\ call' = Woken(t, FALSE)
  /\ fresh' = [fresh EXCEPT ![t] = NoRefresh]
  /\ UNCHANGED <<hash, born, auth, tried>>

\* The shop is loaded again.  Without an access token it shows no session; if there is a CSRF
\* cookie, and no recent attempt, it asks for a refresh.  The panel asks who it is, by a request.
Reload(t) ==
  /\ fresh[t].pc = "none" /\ auth[t].pc = "none" /\ \A c \in Calls : call[t][c].pc = "idle"
  /\ Room
  /\ LET b == Browser(t)
         tries == jar[b].access # "valid" /\ jar[b].csrf /\ ~tried[t] IN
     IF Kind(t) = "panel" THEN /\ page' = [page EXCEPT ![t] = "in"]
                               /\ \E c \in Calls : call' = [call EXCEPT ![t][c] = Sent(t, FALSE)]
                               /\ UNCHANGED <<fresh, tried>>
     ELSE /\ page' = [page EXCEPT ![t] = IF jar[b].access = "valid" THEN "in" ELSE "out"]
          /\ IF tries THEN AskRefresh(t, TRUE) /\ tried' = [tried EXCEPT ![t] = TRUE]
                      ELSE UNCHANGED <<fresh, tried>>
          /\ UNCHANGED call
  /\ UNCHANGED <<hash, born, jar, auth>>
-------------------------------------------------------------------------------
(* Login and password change issue a new pair and write its hash by user    *)
(* id; logout clears the hash for the owner of whatever token is sent.      *)

\* The panel's login form is a page of its own; the shop's may be filled in during a recovery.
Login(t) ==
  /\ Again /\ page[t] = "out" /\ auth[t].pc = "none" /\ Issued + Needed < MaxTokens
  /\ Kind(t) = "panel" => fresh[t].pc = "none" /\ \A c \in Calls : call[t][c].pc = "idle"
  /\ Issue(t, 0) /\ hash' = Issued + 1
  /\ auth' = [auth EXCEPT ![t] = [pc |-> "login", token |-> Issued + 1]]
  /\ UNCHANGED <<jar, page, call, fresh, tried>>

ChangePassword(t) ==
  /\ Again /\ page[t] = "in" /\ auth[t].pc = "none" /\ Issued + Needed < MaxTokens
  /\ jar[Browser(t)].access = "valid"
  /\ Issue(t, 0) /\ hash' = Issued + 1
  /\ auth' = [auth EXCEPT ![t] = [pc |-> "change", token |-> Issued + 1]]
  /\ UNCHANGED <<jar, page, call, fresh, tried>>

Logout(t) ==
  /\ Again /\ page[t] = "in" /\ auth[t].pc = "none"
  /\ hash' = IF jar[Browser(t)].access = "valid" \/ jar[Browser(t)].refresh # 0 THEN 0 ELSE hash
  /\ auth' = [auth EXCEPT ![t] = [pc |-> "logout", token |-> 0]]
  /\ UNCHANGED <<born, jar, page, call, fresh, tried>>

AuthReply(t) ==
  /\ auth[t].pc # "none"
  /\ LET b == Browser(t)  ends == auth[t].pc = "logout" IN
     /\ jar' = [jar EXCEPT ![b] = IF ends THEN [Cleared(b) EXCEPT !.csrf = @ /\ Kind(t) # "shop"]
                ELSE [access |-> "valid", refresh |-> auth[t].token, csrf |-> @.csrf \/ auth[t].pc = "login"]]
     /\ page' = [page EXCEPT ![t] = IF ends THEN "out" ELSE "in"]
  /\ auth' = [auth EXCEPT ![t] = NoAuth]
  /\ UNCHANGED <<hash, born, call, fresh, tried>>
-------------------------------------------------------------------------------
Round(t) == \/ \E c \in Calls : Answer(t, c) \/ Resend(t, c) \/ CallLost(t, c)
            \/ RefreshRead(t) \/ RefreshRotate(t) \/ Renewed(t) \/ Refused(t) \/ RefreshLost(t)
            \/ AuthReply(t)
Next == \/ \E b \in Browsers : AccessExpires(b)
        \/ \E t \in Tabs : \/ Round(t) \/ Reload(t) \/ StampAges(t)
                           \/ Login(t) \/ ChangePassword(t) \/ Logout(t)
                           \/ \E c \in Calls : Send(t, c)
Spec == Init /\ [][Next]_vars

\* The server answers, and a page runs the continuation of every reply.
FairSpec == /\ Spec
            /\ \A t \in Tabs : /\ WF_vars(RefreshRead(t)) /\ WF_vars(RefreshRotate(t))
                               /\ WF_vars(Renewed(t) \/ Refused(t))
                               /\ \A c \in Calls : WF_vars(Answer(t, c)) /\ WF_vars(Resend(t, c))
-------------------------------------------------------------------------------
TypeOK ==
  /\ hash \in 0..Issued /\ Issued \in 1..MaxTokens
  /\ \A n \in 1..Issued : born[n] \in [by : Browsers, from : 0..(n - 1)]
  /\ jar \in [Browsers -> [access : {"valid", "expired", "gone"}, refresh : 0..Issued, csrf : BOOLEAN]]
  /\ page \in [Tabs -> {"in", "out"}] /\ tried \in [Tabs -> BOOLEAN]
  /\ call \in [Tabs -> [Calls -> [pc : {"idle", "sent", "waiting", "again"},
                                  access : {"valid", "expired", "gone"}, retried : BOOLEAN]]]
  /\ fresh \in [Tabs -> [pc : {"none", "asked", "read", "rotated", "refused"}, token : 0..Issued,
                         new : 0..Issued, recover : BOOLEAN]]
  /\ auth \in [Tabs -> [pc : {"none", "login", "change", "logout"}, token : 0..Issued]]

\* A refresh token is exchanged once, however many pages present it.
RotatedOnce == \A m, n \in 1..Issued : m # n /\ born[m].from = born[n].from => born[m].from = 0

\* After a logout there is no session until somebody logs in (or sets a password).
LogoutEnds == [][hash = 0 /\ hash' # 0 =>
                   \E t \in Tabs : auth'[t].pc \in {"login", "change"} /\ auth'[t].token = hash']_vars

\* Every request that waits for a refresh goes on: sent again, or ended with an error.
NoCallForgotten == \A t \in Tabs, c \in Calls : call[t][c].pc = "waiting" ~> call[t][c].pc # "waiting"

\* The server keeps one session: the tokens are well formed, and none is exchanged twice (refresh,
\* rotateRefreshTokenHash).
OneSession == TypeOK /\ RotatedOnce
=============================================================================
