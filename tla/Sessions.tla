------------------------------- MODULE Sessions -------------------------------
(***************************************************************************)
(* Login sessions: the token pairs the API mints, rotates and revokes, the *)
(* Redis blocklist that makes a refresh token usable once, the account the *)
(* tokens stand for, and the browser that holds one pair in its cookies    *)
(* and refreshes it when a call is answered 401.                           *)
(*                                                                         *)
(* Source: backend/app/core/security.py, backend/app/api/v1/auth.py,       *)
(* backend/app/api/deps.py, backend/app/services/user_service.py and       *)
(* base.py, frontend/src/api/client.js, frontend/src/auth/AuthProvider.jsx *)
(*                                                                         *)
(* A pair is a number; its access and its refresh token share it, because  *)
(* both are minted and both cookies are set together.  A request is a      *)
(* process: each await of its handler that touches Redis or PostgreSQL is  *)
(* an action.  Calls are the page's API calls, Shared is the refresh that  *)
(* the axios interceptor shares between them, Provider sends what          *)
(* AuthProvider sends: the refresh at start-up, the login, the logout.     *)
(* They use one cookie jar, from one tab or from several.                  *)
(***************************************************************************)
EXTENDS Integers, FiniteSets

CONSTANTS
    Calls,          \* API calls of the page, each made once
    Shared,         \* the interceptor's refresh request
    Provider,       \* AuthProvider's request
    MaxSends,       \* bound: requests the Provider sends
    MaxTroubles     \* bound: changes of the account, failed steps, lost replies and
                    \* refresh tokens that reach their last second

ASSUME SessionsAssumption ==
    /\ Shared \notin Calls
    /\ Provider \notin Calls
    /\ Shared # Provider
    /\ MaxSends \in Nat /\ MaxTroubles \in Nat

Requests == Calls \cup {Shared, Provider}

VARIABLES
    jar,            \* the pair in the browser's cookies, 0 when cleared
    lastPair,       \* pairs minted so far
    born,           \* <<pair, the pair it was rotated from>>, 0 for a login
    keys,           \* refresh tokens in the Redis blocklist
    accessKeys,     \* access tokens in the Redis blocklist
    lapsed,         \* refresh tokens whose blocklist key has expired
    accessOver,     \* expired access tokens
    closing,        \* refresh tokens in their last second, or over
    over,           \* expired refresh tokens
    account,        \* users.is_active, or the row is gone
    reused,         \* pairs with a committed REFRESH_REUSED row
    at,             \* where each request is
    kind,           \* what the Provider's request asks
    sent,           \* the pair whose cookies the request carries
    reply,          \* status and Set-Cookie of the answer
    retried,        \* calls that the interceptor has replayed (_retry)
    barred,         \* requests sent to an account that has not been active since
    ui,             \* AuthProvider's user: signed in or out
    stranded,       \* pairs used up by a request whose answer never came
    unheard,        \* replays refused while the second look at Redis failed
    sends, troubles \* what is used of the two bounds

vars == <<jar, lastPair, born, keys, accessKeys, lapsed, accessOver, closing, over,
          account, reused, at, kind, sent, reply,
          retried, barred, ui, stranded, unheard, sends, troubles>>

tokenVars   == <<lastPair, born, keys, accessKeys, lapsed>>
clockVars   == <<accessOver, closing, over>>
clientVars  == <<jar, kind, sent, retried, barred, ui>>
boundVars   == <<sends, troubles>>
faultVars   == <<stranded, unheard, boundVars>>

Keep == -1          \* an answer without Set-Cookie
Clear == 0          \* an answer that deletes both cookies
Kinds == {"refresh", "login", "logout"}
ServerPhases == {"sent", "known", "claiming", "replayed", "suspected", "accusing", "reusing",
                 "welcome", "leaving", "leavingRefresh", "burning", "left"}
Phases == {"idle", "waiting", "answered", "done"} \cup ServerPhases
Statuses == {0, 200, 401, 403, 500}
NoReply == [status |-> 0, cookie |-> Keep]

Init ==
    /\ jar \in {0, 1} /\ lastPair = 1 /\ born = {<<1, 0>>}
    /\ keys = {} /\ accessKeys = {} /\ lapsed = {}
    /\ accessOver = {} /\ closing = {} /\ over = {}
    /\ account = "active" /\ reused = {}
    /\ at = [r \in Requests |-> "idle"]
    /\ kind = "refresh"
    /\ sent = [r \in Requests |-> 0]
    /\ reply = [r \in Requests |-> NoReply]
    /\ retried = {} /\ barred = {} /\ ui = (IF jar = 1 THEN "in" ELSE "out")
    /\ stranded = {} /\ unheard = {}
    /\ sends = 0 /\ troubles = 0

Trouble == troubles < MaxTroubles /\ troubles' = troubles + 1 /\ UNCHANGED sends

----------------------------------------------------------------------------
(* Helpers of the handlers *)

\* What a request asks of the server.
KindOf(r) == IF r \in Calls THEN "call" ELSE IF r = Shared THEN "refresh" ELSE kind

Goto(r, phase) == at' = [at EXCEPT ![r] = phase] /\ UNCHANGED reply

Answer(r, status, cookie) ==
    /\ at' = [at EXCEPT ![r] = "answered"]
    /\ reply' = [reply EXCEPT ![r] = [status |-> status, cookie |-> cookie]]

\* decode_token: a signed, unexpired token of the pair the request carries.
AccessDecodes(r) == sent[r] # 0 /\ sent[r] \notin accessOver
RefreshDecodes(r) == sent[r] # 0 /\ sent[r] \notin over

\* validate_token: it decodes, has the expected type, and its jti is not in the blocklist.
AccessIsValid(r) == AccessDecodes(r) /\ sent[r] \notin accessKeys

\* is_token_blocklisted: EXISTS key.
Blocklisted(r) == sent[r] \in keys

\* blocklist_token: SET key reason EX ttl.  With NX the answer says whether the key was new.
\* Mutant: SET without NX: every caller believes it wrote the key.
MutantKeyWithoutNX(r) == TRUE

KeyIsNew(r) == sent[r] \notin keys
BlocklistRefresh(r) == keys' = keys \cup {sent[r]}
BlocklistAccess(r) == accessKeys' = accessKeys \cup {sent[r]}

\* create_access_token and create_refresh_token: a new pair with new jtis.
Mint(from) ==
    /\ lastPair' = lastPair + 1
    /\ born' = born \cup {<<lastPair + 1, from>>}

----------------------------------------------------------------------------
(* Server: what every handler begins with *)

\* A call: get_current_user validates the access token of the cookie.
ValidateCall(r) ==
    /\ r \in Calls /\ at[r] = "sent"
    /\ IF AccessIsValid(r) THEN Goto(r, "known") ELSE Answer(r, 401, Keep)
    /\ UNCHANGED <<tokenVars, clockVars, account, clientVars, reused, faultVars>>

\* POST /auth/refresh: the cookie may be missing, the token expired, or blocklisted.
ValidateRefresh(r) ==
    /\ KindOf(r) = "refresh" /\ at[r] = "sent"
    /\ \/ ~RefreshDecodes(r) /\ Answer(r, 401, Keep)
       \/ RefreshDecodes(r) /\ Blocklisted(r) /\ Goto(r, "replayed")
       \/ RefreshDecodes(r) /\ ~Blocklisted(r) /\ Goto(r, "known")
    /\ UNCHANGED <<tokenVars, clockVars, account, clientVars, reused, faultVars>>

\* _refresh_reuse_claims looks at the token and at the key again.
CheckReplay(r) ==
    /\ at[r] = "replayed"
    /\ IF RefreshDecodes(r) /\ Blocklisted(r) THEN Goto(r, "suspected") ELSE Answer(r, 401, Keep)
    /\ UNCHANGED <<tokenVars, clockVars, account, clientVars, reused, faultVars>>

\* The account the token was for is looked up: the row names it, or nobody.
FindReplayer(r) ==
    /\ at[r] = "suspected"
    /\ Goto(r, IF account = "gone" THEN "reusing" ELSE "accusing")
    /\ UNCHANGED <<tokenVars, clockVars, account, clientVars, reused, faultVars>>

\* A row cannot name an account that was deleted since it was read (governance_logs.actor_user_id).
ActorMissing(r) == at[r] = "accusing" /\ account = "gone"

\* The strict REFRESH_REUSED row is committed before the refusal is sent; when it cannot be
\* written, the request fails with 500.
\* Mutant: the refusal is raised before the commit, and the row is rolled back.
MutantRecordRolledBack(r) ==
    /\ at[r] \in {"reusing", "accusing"}
    /\ Answer(r, IF ActorMissing(r) THEN 500 ELSE 401, Keep)
    /\ UNCHANGED <<tokenVars, clockVars, account, clientVars, reused, faultVars>>

RecordReuse(r) ==
    /\ at[r] \in {"reusing", "accusing"}
    /\ IF ActorMissing(r)
         THEN Answer(r, 500, Keep) /\ UNCHANGED reused
         ELSE Answer(r, 401, Keep) /\ reused' = reused \cup {sent[r]}
    /\ UNCHANGED <<tokenVars, clockVars, account, clientVars, faultVars>>

\* The user row is read: gone is 401, inactive is 403, before anything is written.
\* Mutant: the token is claimed as soon as it validates, and the user is read afterwards.
MutantBurnThenLoad(r) ==
    /\ at[r] = "known" /\ KeyIsNew(r)
    /\ IF KindOf(r) = "refresh" THEN BlocklistRefresh(r) ELSE UNCHANGED keys
    /\ \/ account = "gone" /\ Answer(r, 401, Keep) /\ UNCHANGED <<lastPair, born>>
       \/ account = "inactive" /\ Answer(r, 403, Keep) /\ UNCHANGED <<lastPair, born>>
       \/ /\ account = "active"
          /\ \/ KindOf(r) = "refresh" /\ Mint(sent[r]) /\ Answer(r, 200, lastPair + 1)
             \/ KindOf(r) = "call" /\ Answer(r, 200, Keep) /\ UNCHANGED <<lastPair, born>>
             \/ KindOf(r) = "logout" /\ Goto(r, "leaving") /\ UNCHANGED <<lastPair, born>>
    /\ UNCHANGED <<accessKeys, lapsed, clockVars, account, clientVars, reused, faultVars>>

\* Mutant: is_active is not looked at.
MutantLoadAnyUser(r) ==
    /\ at[r] = "known"
    /\ \/ account = "gone" /\ Answer(r, 401, Keep)
       \/ /\ account # "gone"
          /\ \/ KindOf(r) = "call" /\ Answer(r, 200, Keep)
             \/ KindOf(r) = "refresh" /\ Goto(r, "claiming")
             \/ KindOf(r) = "logout" /\ Goto(r, "leaving")
    /\ UNCHANGED <<tokenVars, clockVars, account, clientVars, reused, faultVars>>

LoadUser(r) ==
    /\ at[r] = "known"
    /\ \/ account = "gone" /\ Answer(r, 401, Keep)
       \/ account = "inactive" /\ Answer(r, 403, Keep)
       \/ /\ account = "active"
          /\ \/ KindOf(r) = "call" /\ Answer(r, 200, Keep)
             \/ KindOf(r) = "refresh" /\ Goto(r, "claiming")
             \/ KindOf(r) = "logout" /\ Goto(r, "leaving")
    /\ UNCHANGED <<tokenVars, clockVars, account, clientVars, reused, faultVars>>

\* SET NX decides between two refreshes with one token; the winner mints at once, the loser
\* records a reuse by the user it has loaded.
Claim(r) ==
    /\ at[r] = "claiming"
    /\ IF KeyIsNew(r)
         THEN /\ BlocklistRefresh(r)
              /\ Mint(sent[r])
              /\ Answer(r, 200, lastPair + 1)
              /\ UNCHANGED <<accessKeys, lapsed>>
         ELSE Goto(r, "accusing") /\ UNCHANGED tokenVars
    /\ UNCHANGED <<clockVars, account, clientVars, reused, faultVars>>

----------------------------------------------------------------------------
(* Server: login and logout *)

\* login reads the user; a wrong password or no row is 401, an inactive account 403.
LoginReads(r) ==
    /\ KindOf(r) = "login" /\ at[r] = "sent"
    /\ \/ Answer(r, 401, Keep)
       \/ account = "inactive" /\ Answer(r, 403, Keep)
       \/ account = "active" /\ Goto(r, "welcome")
    /\ UNCHANGED <<tokenVars, clockVars, account, clientVars, reused, faultVars>>

\* It writes LOGIN_SUCCEEDED and last_login_at, mints, commits and sets the cookies.
\* When the account was deleted meanwhile, the UPDATE of last_login_at fails: 500.
LoginMints(r) ==
    /\ at[r] = "welcome"
    /\ IF account = "gone"
         THEN Answer(r, 500, Keep) /\ UNCHANGED <<lastPair, born>>
         ELSE Mint(0) /\ Answer(r, 200, lastPair + 1)
    /\ UNCHANGED <<keys, accessKeys, lapsed, clockVars, account, clientVars, reused, faultVars>>

\* logout needs a current user: the access token of the cookie must be valid.
ValidateLogout(r) ==
    /\ KindOf(r) = "logout" /\ at[r] = "sent"
    /\ IF AccessIsValid(r) THEN Goto(r, "known") ELSE Answer(r, 401, Keep)
    /\ UNCHANGED <<tokenVars, clockVars, account, clientVars, reused, faultVars>>

\* _revoke_token_if_valid for the access token: what does not validate is passed over.
RevokeAccess(r) ==
    /\ at[r] = "leaving"
    /\ IF AccessIsValid(r) THEN BlocklistAccess(r) ELSE UNCHANGED accessKeys
    /\ Goto(r, "leavingRefresh")
    /\ UNCHANGED <<lastPair, born, keys, lapsed, clockVars, account, clientVars, reused, faultVars>>

\* _revoke_token_if_valid for the refresh token: first it is validated ..
\* Mutant: the refresh token is validated as an access token and passed over.
MutantCheckAsAccess(r) ==
    /\ at[r] = "leavingRefresh"
    /\ Goto(r, "left")
    /\ UNCHANGED <<tokenVars, clockVars, account, clientVars, reused, faultVars>>

CheckRefresh(r) ==
    /\ at[r] = "leavingRefresh"
    /\ Goto(r, IF RefreshDecodes(r) /\ ~Blocklisted(r) THEN "burning" ELSE "left")
    /\ UNCHANGED <<tokenVars, clockVars, account, clientVars, reused, faultVars>>

\* .. then written to the blocklist, without NX: a rotation meanwhile changes nothing.
RevokeRefresh(r) ==
    /\ at[r] = "burning"
    /\ BlocklistRefresh(r)
    /\ Goto(r, "left")
    /\ UNCHANGED <<lastPair, born, accessKeys, lapsed, clockVars, account, clientVars, reused, faultVars>>

\* The advisory LOGOUT row never stops the answer that clears the cookies.
FinishLogout(r) ==
    /\ at[r] = "left"
    /\ Answer(r, 200, Clear)
    /\ UNCHANGED <<tokenVars, clockVars, account, clientVars, reused, faultVars>>

----------------------------------------------------------------------------
(* Server: failures.  An exception is answered 500 and the session is rolled back. *)

Fail(r) ==
    /\ at[r] \in ServerPhases
    /\ Trouble
    /\ Answer(r, 500, Keep)
    /\ stranded' = IF at[r] = "left" THEN stranded \cup {sent[r]} ELSE stranded
    /\ UNCHANGED <<tokenVars, clockVars, account, clientVars, reused, unheard>>

\* Redis applies the SET and the answer does not come within the socket timeout.
ClaimUnanswered(r) ==
    /\ at[r] \in {"claiming", "burning"}
    /\ Trouble
    /\ BlocklistRefresh(r)
    /\ Answer(r, 500, Keep)
    /\ stranded' = stranded \cup {sent[r]}
    /\ UNCHANGED <<lastPair, born, accessKeys, lapsed, clockVars, account, clientVars, reused, unheard>>

\* _refresh_reuse_claims swallows every exception: a refusal without a row.
ReplayCheckFails(r) ==
    /\ at[r] = "replayed"
    /\ Trouble
    /\ Answer(r, 401, Keep)
    /\ unheard' = unheard \cup {sent[r]}
    /\ UNCHANGED <<tokenVars, clockVars, account, clientVars, reused, stranded>>

----------------------------------------------------------------------------
(* Administrators *)

\* AsyncCRUDService.update and delete: the statement and the audit rows queued for it are one
\* transaction, so a failure leaves neither; a row that is gone is not found.
WriteUser(status) == account # "gone" /\ account' = status

\* PATCH /users/{id}, with its USER_UPDATE row.
EditAccount(status) ==
    /\ account # status /\ WriteUser(status)
    /\ Trouble
    /\ barred' = IF status = "active" THEN {} ELSE barred
    /\ UNCHANGED <<tokenVars, clockVars, jar, kind, sent,
                   retried, ui, reused, at, reply, stranded, unheard>>

\* DELETE /users/{id}, with its USER_DELETE row.
DeleteAccount ==
    /\ WriteUser("gone")
    /\ Trouble
    /\ UNCHANGED <<tokenVars, clockVars, clientVars, reused, at, reply, stranded, unheard>>

----------------------------------------------------------------------------
(* Time *)

\* Only the pairs that the browser or a request holds: nobody can tell of the others.
Held == {jar} \cup {sent[r] : r \in Requests}

AccessExpires(n) ==
    /\ n \in Held \ accessOver /\ n # 0
    /\ accessOver' = accessOver \cup {n}
    /\ UNCHANGED <<tokenVars, account, clientVars, closing, over, reused, at, reply, faultVars>>

\* The refresh token has less than a second left.
LastSecond(n) ==
    /\ n \in accessOver \ closing /\ n \in Held
    /\ Trouble
    /\ closing' = closing \cup {n}
    /\ UNCHANGED <<tokenVars, account, clientVars, accessOver, over, reused, at, reply,
                   stranded, unheard>>

RefreshExpires(n) ==
    /\ n \in closing \ over
    /\ over' = over \cup {n}
    /\ UNCHANGED <<tokenVars, account, clientVars, accessOver, closing, reused, at, reply, faultVars>>

\* The TTL is the rest of the token's life in whole seconds, rounded down, and at least
\* one: the key may be gone up to a second before the token is.
KeyLapses(n) ==
    /\ n \in keys \cap closing
    /\ keys' = keys \ {n}
    /\ lapsed' = lapsed \cup {n}
    /\ UNCHANGED <<lastPair, born, accessKeys, clockVars, account, clientVars, reused, at, reply, faultVars>>

----------------------------------------------------------------------------
(* The browser *)

\* Requests leave with the cookies of the jar.
Sending(rs, cookies) == [r \in Requests |-> IF r \in rs THEN cookies ELSE sent[r]]
BarredWith(rs) == IF account = "active" THEN barred \ rs ELSE barred \cup rs

\* The answer to r is consumed, and the requests rs leave.
Exchange(r, rs, cookies) ==
    /\ sent' = [Sending(rs, cookies) EXCEPT ![r] = IF r \in rs THEN cookies ELSE 0]
    /\ barred' = BarredWith(rs) \ ({r} \ rs)
    /\ reply' = [reply EXCEPT ![r] = NoReply]

StartCall(c) ==
    /\ c \in Calls /\ at[c] = "idle"
    /\ Goto(c, "sent")
    /\ sent' = Sending({c}, jar) /\ barred' = BarredWith({c})
    /\ UNCHANGED <<tokenVars, clockVars, account, jar, kind, retried, ui, reused, faultVars>>

\* AuthProvider posts straight to the API; the interceptor's promise is not consulted.
StartProvider(what) ==
    /\ at[Provider] = "idle"
    /\ sends < MaxSends /\ sends' = sends + 1
    /\ kind' = what
    /\ Goto(Provider, "sent")
    /\ sent' = Sending({Provider}, jar) /\ barred' = BarredWith({Provider})
    /\ UNCHANGED <<tokenVars, clockVars, account, jar, retried, ui, reused, stranded, unheard, troubles>>

Boot == StartProvider("refresh")
SignIn == ui = "out" /\ StartProvider("login")
SignOut == ui = "in" /\ StartProvider("logout")

\* Mutant: an answer without Set-Cookie overwrites the cookies.
MutantJarVerbatim(answer) == answer.cookie

JarAfter(answer) == IF answer.cookie = Keep THEN jar ELSE answer.cookie

\* A call is answered.  The first 401 joins the refresh in flight or starts one
\* (ensureRefreshedSession); everything else goes to the caller.
CallReacts(c, answer) ==
    /\ c \in Calls
    /\ IF answer.status = 401 /\ c \notin retried
         THEN /\ retried' = retried \cup {c}
              /\ at' = [at EXCEPT ![c] = "waiting",
                                  ![Shared] = IF @ = "idle" THEN "sent" ELSE @]
              /\ Exchange(c, IF at[Shared] = "idle" THEN {Shared} ELSE {}, jar)
         ELSE /\ retried' = retried \ {c}
              /\ at' = [at EXCEPT ![c] = "done"]
              /\ Exchange(c, {}, jar)
    /\ UNCHANGED <<jar, kind, ui>>

\* Where the calls that awaited the shared refresh go: replayed, or rejected.
\* Mutant: the promise is settled on success only.
MutantResumedOnSuccess(status) == IF status = 200 THEN "sent" ELSE "waiting"

Resumed(status) == IF status = 200 THEN "sent" ELSE "done"

\* The shared refresh is answered: the promise is cleared and every waiting call resumes.
SharedReacts(r, answer) ==
    LET waiting == {c \in Calls : at[c] = "waiting"} IN
    /\ r = Shared
    /\ jar' = JarAfter(answer)
    /\ at' = [q \in Requests |-> IF q = Shared THEN "idle"
                                 ELSE IF q \in waiting THEN Resumed(answer.status) ELSE at[q]]
    /\ retried' = IF answer.status = 200 THEN retried ELSE retried \ waiting
    /\ Exchange(Shared, IF answer.status = 200 THEN waiting ELSE {}, jar')
    /\ UNCHANGED <<kind, ui>>

\* AuthProvider: a refresh or a login that succeeds signs in, a refresh that fails
\* signs out, a logout signs out whatever the answer was.
UiAfter(answer) ==
    IF kind = "logout" THEN "out"
    ELSE IF answer.status = 200 THEN "in"
    ELSE IF kind = "refresh" THEN "out" ELSE ui

ProviderReacts(r, answer) ==
    /\ r = Provider
    /\ jar' = JarAfter(answer)
    /\ ui' = UiAfter(answer)
    /\ kind' = "refresh"
    /\ at' = [at EXCEPT ![Provider] = "idle"]
    /\ Exchange(Provider, {}, jar)
    /\ UNCHANGED retried

React(r, answer) ==
    \/ CallReacts(r, answer)
    \/ SharedReacts(r, answer)
    \/ ProviderReacts(r, answer)

Deliver(r) ==
    /\ at[r] = "answered"
    /\ React(r, reply[r])
    /\ UNCHANGED <<tokenVars, clockVars, account, reused, faultVars>>

\* The answer is lost, or comes after the client's timeout: an error without a status.
LoseReply(r) ==
    /\ at[r] = "answered"
    /\ Trouble
    /\ stranded' = IF reply[r].cookie = Keep THEN stranded ELSE stranded \cup {sent[r]}
    /\ React(r, NoReply)
    /\ UNCHANGED <<tokenVars, clockVars, account, reused, unheard>>

----------------------------------------------------------------------------

Server(r) ==
    \/ ValidateCall(r) \/ ValidateRefresh(r) \/ CheckReplay(r)
    \/ FindReplayer(r) \/ RecordReuse(r) \/ LoadUser(r) \/ Claim(r) \/ LoginReads(r) \/ LoginMints(r)
    \/ ValidateLogout(r) \/ RevokeAccess(r) \/ CheckRefresh(r) \/ RevokeRefresh(r)
    \/ FinishLogout(r)

Faulty(r) == Fail(r) \/ ClaimUnanswered(r) \/ ReplayCheckFails(r) \/ LoseReply(r)

Next ==
    \/ \E r \in Requests : Server(r) \/ Deliver(r) \/ Faulty(r)
    \/ \E c \in Calls : StartCall(c)
    \/ Boot \/ SignIn \/ SignOut
    \/ \E status \in {"active", "inactive"} : EditAccount(status)
    \/ DeleteAccount
    \/ \E n \in 1 .. lastPair :
          AccessExpires(n) \/ LastSecond(n) \/ RefreshExpires(n) \/ KeyLapses(n)

Spec == Init /\ [][Next]_vars

\* Some handler that runs continues, or the browser's event loop handles what arrived.
Fairness == WF_vars(\E r \in Requests : Server(r) \/ Deliver(r))
FairSpec == Spec /\ Fairness

----------------------------------------------------------------------------
(* Properties *)

\* Every variable has its type.
TypeOK ==
    /\ jar \in Nat /\ lastPair \in Nat
    /\ born \subseteq Nat \X Nat
    /\ keys \subseteq Nat /\ accessKeys \subseteq Nat /\ lapsed \subseteq Nat
    /\ accessOver \subseteq Nat /\ closing \subseteq Nat /\ over \subseteq Nat
    /\ account \in {"active", "inactive", "gone"}
    /\ reused \subseteq Nat
    /\ at \in [Requests -> Phases]
    /\ kind \in Kinds
    /\ sent \in [Requests -> Nat]
    /\ reply \in [Requests -> [status : Statuses, cookie : Nat \cup {Keep}]]
    /\ retried \subseteq Calls /\ barred \subseteq Requests
    /\ ui \in {"in", "out"}
    /\ stranded \subseteq Nat /\ unheard \subseteq Nat
    /\ sends \in Nat /\ troubles \in Nat

\* However refreshes, logouts and failures interleave, two pairs come from one refresh
\* token only if its blocklist key ran out before the token did.
RotatedOnce ==
    \A n \in 1 .. lastPair :
        (\E m, k \in 1 .. lastPair : m # k /\ <<m, n>> \in born /\ <<k, n>> \in born)
            => n \in lapsed

\* While the key of a refresh token is in the blocklist, whoever wrote it, no pair is
\* minted from the token: not even by a refresh that had validated it before.
KeyStopsRotation ==
    [][\A pair \in born' \ born : pair[2] \notin keys]_vars

\* A live refresh token is refused with 401 only when a REFRESH_REUSED row is committed,
\* or the account is gone, or the second look at Redis failed.
RefusalIsRecorded ==
    \A r \in {Shared, Provider} :
        /\ at[r] = "answered" /\ KindOf(r) = "refresh" /\ reply[r].status = 401
        /\ sent[r] # 0 /\ sent[r] \notin over \cup lapsed
        => sent[r] \in reused \cup unheard \/ account = "gone"

\* The cookies hold a used-up refresh token only while the answer that replaces them is
\* on its way, or after that answer was lost: a session dies of nothing but a lost answer.
StrandedForCause ==
    jar \in keys \ stranded =>
        \E r \in Requests :
            /\ sent[r] = jar
            /\ \/ at[r] = "left"
               \/ at[r] = "answered" /\ reply[r].cookie # Keep

\* A logout answered 200 leaves both tokens it carried unusable.
LogoutRevokesWhatItCarried ==
    at[Provider] = "answered" /\ kind = "logout" /\ reply[Provider].status = 200 =>
        /\ sent[Provider] \in accessKeys \cup accessOver
        /\ sent[Provider] \in keys \cup lapsed \cup over

\* A request sent to an account that is not active, and has not become active since, is
\* not answered 200: the tokens of a deactivated or deleted account get nothing.
InactiveGetsNothing ==
    \A r \in barred : at[r] = "answered" => reply[r].status # 200

\* Whenever a call is under way a time comes when none is: the interceptor neither loops
\* nor leaves a call waiting for a refresh that failed.
CallsSettle ==
    (\E c \in Calls : at[c] = "sent") ~> \A c \in Calls : at[c] \in {"idle", "done"}

=============================================================================
