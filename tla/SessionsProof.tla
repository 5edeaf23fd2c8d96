----------------------------- MODULE SessionsProof -----------------------------
(***************************************************************************)
(* Proofs about Sessions, for any number of calls, requests and troubles.  *)
(*                                                                         *)
(* Good(r) says what must hold of one request at each phase of its         *)
(* handler: which token it carries, what it is allowed to ask, what has    *)
(* been written for it, and what its answer may be.  It refers to the sets *)
(* of used and expired tokens only by what is in them, and they only grow, *)
(* so a step of one request leaves Good of the others alone (Undisturbed). *)
(* Ledger relates the minted pairs to the blocklist, and Unseen says that  *)
(* a pair under way to the browser is known to nobody yet.                 *)
(***************************************************************************)
EXTENDS Sessions, TLAPS

AfterLoad == {"claiming", "welcome", "leaving", "leavingRefresh", "burning", "left"}

AccessRevoked(r) == sent[r] \in accessKeys \cup accessOver
RefreshRevoked(r) == sent[r] \in keys \cup lapsed \cup over

GoodPhase(r) ==
    /\ at[r] \in {"known", "claiming", "leaving", "leavingRefresh", "burning"} => sent[r] # 0
    /\ at[r] \in {"claiming", "replayed", "suspected", "accusing", "reusing"} => KindOf(r) = "refresh"
    /\ at[r] = "welcome" => KindOf(r) = "login"
    /\ at[r] \in {"leaving", "leavingRefresh", "burning", "left"} => KindOf(r) = "logout"
    /\ at[r] = "replayed" => sent[r] \in keys \cup lapsed
    /\ at[r] \in {"leavingRefresh", "burning", "left"} => AccessRevoked(r)
    /\ at[r] = "left" => RefreshRevoked(r)
    /\ r \in barred => account # "active" /\ at[r] \notin AfterLoad

GoodAnswer(r) ==
    at[r] = "answered" =>
        /\ r \in barred => reply[r].status # 200
        /\ KindOf(r) = "logout" /\ reply[r].status = 200 => AccessRevoked(r) /\ RefreshRevoked(r)
        /\ KindOf(r) = "refresh" /\ reply[r].status = 401
           /\ sent[r] # 0 /\ sent[r] \notin over \cup lapsed
              => sent[r] \in reused \cup unheard \/ account = "gone"

Good(r) == GoodPhase(r) /\ GoodAnswer(r)

\* Pairs are numbered in order of birth, and whoever has a successor is used up.
Ledger ==
    /\ 0 \notin keys
    /\ \A pair \in born : pair[1] <= lastPair
    /\ \A pair \in born : pair[2] # 0 => pair[2] \in keys \cup lapsed

Inv == TypeOK /\ (\A r \in Requests : Good(r)) /\ Ledger

----------------------------------------------------------------------------
(* Types *)

LEMMA InitType == ASSUME Init PROVE TypeOK
BY SessionsAssumption DEF Init, TypeOK, Requests, Phases, ServerPhases, Kinds, Statuses,
    NoReply, Keep

LEMMA ServerType ==
    ASSUME TypeOK, NEW r \in Requests, Server(r) \/ (Faulty(r) /\ ~LoseReply(r))
    PROVE  TypeOK'
<1>0. sent[r] \in Nat BY DEF TypeOK
<1>a. \A S \in SUBSET Nat : S \cup {sent[r]} \in SUBSET Nat BY <1>0
<1> USE DEF TypeOK, tokenVars, clockVars, clientVars, faultVars, boundVars, Goto, Answer, Mint,
            Phases, ServerPhases, Statuses, Keep, Clear, Trouble, BlocklistRefresh,
            BlocklistAccess
<1>1. CASE ValidateCall(r) BY <1>1 DEF ValidateCall
<1>2. CASE ValidateRefresh(r) BY <1>2 DEF ValidateRefresh
<1>3. CASE CheckReplay(r) BY <1>3 DEF CheckReplay
<1>17. CASE FindReplayer(r) BY <1>17 DEF FindReplayer
<1>4. CASE RecordReuse(r)
  <2>1. reused' \in SUBSET Nat BY <1>4, <1>a DEF RecordReuse
  <2>2. at' \in [Requests -> Phases] BY <1>4 DEF RecordReuse
  <2>3. reply' \in [Requests -> [status : Statuses, cookie : Nat \cup {Keep}]]
    BY <1>4 DEF RecordReuse
  <2> QED BY <1>4, <2>1, <2>2, <2>3 DEF RecordReuse
<1>5. CASE LoadUser(r) BY <1>5 DEF LoadUser
<1>6. CASE Claim(r)
  <2>1. keys' \in SUBSET Nat BY <1>6, <1>a DEF Claim
  <2>2. at' \in [Requests -> Phases] BY <1>6 DEF Claim
  <2>3. reply' \in [Requests -> [status : Statuses, cookie : Nat \cup {Keep}]]
    BY <1>6 DEF Claim
  <2>4. lastPair' \in Nat /\ born' \subseteq Nat \X Nat BY <1>0, <1>6 DEF Claim
  <2> QED BY <1>6, <2>1, <2>2, <2>3, <2>4 DEF Claim
<1>7. CASE LoginReads(r) BY <1>7 DEF LoginReads
<1>8. CASE LoginMints(r) BY <1>8 DEF LoginMints
<1>9. CASE ValidateLogout(r)
  <2>1. at' \in [Requests -> Phases] BY <1>9 DEF ValidateLogout
  <2>2. reply' \in [Requests -> [status : Statuses, cookie : Nat \cup {Keep}]]
    BY <1>9 DEF ValidateLogout
  <2> QED BY <1>9, <2>1, <2>2 DEF ValidateLogout
<1>10. CASE RevokeAccess(r)
  <2>1. accessKeys' \in SUBSET Nat BY <1>10, <1>a DEF RevokeAccess
  <2>2. at' \in [Requests -> Phases] BY <1>10 DEF RevokeAccess
  <2>3. reply' \in [Requests -> [status : Statuses, cookie : Nat \cup {Keep}]]
    BY <1>10 DEF RevokeAccess
  <2> QED BY <1>10, <2>1, <2>2, <2>3 DEF RevokeAccess
<1>11. CASE CheckRefresh(r) BY <1>11 DEF CheckRefresh
<1>12. CASE RevokeRefresh(r)
  <2>1. keys' \in SUBSET Nat BY <1>12, <1>a DEF RevokeRefresh
  <2>2. at' \in [Requests -> Phases] BY <1>12 DEF RevokeRefresh
  <2>3. reply' \in [Requests -> [status : Statuses, cookie : Nat \cup {Keep}]]
    BY <1>12 DEF RevokeRefresh
  <2> QED BY <1>12, <2>1, <2>2, <2>3 DEF RevokeRefresh
<1>13. CASE FinishLogout(r) BY <1>13 DEF FinishLogout
<1>14. CASE Fail(r)
  <2>1. stranded' \in SUBSET Nat BY <1>14, <1>a DEF Fail
  <2>2. at' \in [Requests -> Phases] BY <1>14 DEF Fail
  <2>3. reply' \in [Requests -> [status : Statuses, cookie : Nat \cup {Keep}]]
    BY <1>14 DEF Fail
  <2>4. troubles' \in Nat BY <1>14 DEF Fail
  <2>5. UNCHANGED <<tokenVars, clockVars, account, clientVars, reused, unheard, sends>>
    BY <1>14 DEF Fail
  <2> HIDE DEF Answer, Trouble
  <2> QED BY <2>1, <2>2, <2>3, <2>4, <2>5
<1>15. CASE ClaimUnanswered(r)
  <2>1. keys' \in SUBSET Nat /\ stranded' \in SUBSET Nat BY <1>15, <1>a DEF ClaimUnanswered
  <2>2. at' \in [Requests -> Phases] BY <1>15 DEF ClaimUnanswered
  <2>3. reply' \in [Requests -> [status : Statuses, cookie : Nat \cup {Keep}]]
    BY <1>15 DEF ClaimUnanswered
  <2> QED BY <1>15, <2>1, <2>2, <2>3 DEF ClaimUnanswered
<1>16. CASE ReplayCheckFails(r)
  <2>1. unheard' \in SUBSET Nat BY <1>16, <1>a DEF ReplayCheckFails
  <2>2. at' \in [Requests -> Phases] BY <1>16 DEF ReplayCheckFails
  <2>3. reply' \in [Requests -> [status : Statuses, cookie : Nat \cup {Keep}]]
    BY <1>16 DEF ReplayCheckFails
  <2> QED BY <1>16, <2>1, <2>2, <2>3 DEF ReplayCheckFails
<1> HIDE DEF TypeOK, tokenVars, clockVars, clientVars, faultVars, boundVars, Goto, Answer, Mint,
             Phases, ServerPhases, Statuses, Keep, Clear, Trouble, BlocklistRefresh,
             BlocklistAccess
<1> QED
    BY <1>1, <1>2, <1>3, <1>4, <1>5, <1>6, <1>7, <1>8, <1>9, <1>10, <1>11, <1>12, <1>13,
       <1>14, <1>15, <1>16, <1>17 DEF Server, Faulty

LEMMA ExchangeType ==
    ASSUME TypeOK, NEW r \in Requests, NEW rs \in SUBSET Requests, NEW cookies \in Nat,
           Exchange(r, rs, cookies)
    PROVE  /\ sent' \in [Requests -> Nat]
           /\ reply' \in [Requests -> [status : Statuses, cookie : Nat \cup {Keep}]]
           /\ barred' \subseteq Requests
<1>1. NoReply \in [status : Statuses, cookie : Nat \cup {Keep}] BY DEF NoReply, Statuses, Keep
<1>2. Sending(rs, cookies) \in [Requests -> Nat] BY DEF TypeOK, Sending
<1>3. barred' \subseteq Requests BY DEF TypeOK, Exchange, BarredWith
<1> QED BY <1>1, <1>2, <1>3 DEF TypeOK, Exchange

LEMMA ReactType ==
    ASSUME TypeOK, NEW r \in Requests, NEW answer, React(r, answer),
           answer \in [status : Statuses, cookie : Nat \cup {Keep}]
    PROVE  /\ jar' \in Nat /\ kind' \in Kinds /\ ui' \in {"in", "out"}
           /\ at' \in [Requests -> Phases] /\ sent' \in [Requests -> Nat]
           /\ reply' \in [Requests -> [status : Statuses, cookie : Nat \cup {Keep}]]
           /\ retried' \subseteq Calls /\ barred' \subseteq Requests
<1>1. CASE CallReacts(r, answer)
  <2>1. PICK rs \in SUBSET Requests : Exchange(r, rs, jar)
    BY <1>1 DEF CallReacts, Requests
  <2>2. jar \in Nat BY DEF TypeOK
  <2>3. at' \in [Requests -> Phases] /\ retried' \subseteq Calls
    BY <1>1, SessionsAssumption DEF CallReacts, TypeOK, Requests, Phases, ServerPhases
  <2> QED BY <1>1, <2>1, <2>2, <2>3, ExchangeType DEF CallReacts, TypeOK
<1>2. CASE SharedReacts(r, answer)
  <2>1. jar' \in Nat BY <1>2 DEF SharedReacts, JarAfter, TypeOK, Keep
  <2>2. at' \in [Requests -> Phases]
    BY <1>2 DEF SharedReacts, Resumed, TypeOK, Phases, ServerPhases
  <2>3. PICK rs \in SUBSET Requests : Exchange(r, rs, jar')
    BY <1>2 DEF SharedReacts, Requests
  <2>4. retried' \subseteq Calls BY <1>2 DEF SharedReacts, TypeOK
  <2> QED BY <1>2, <2>1, <2>2, <2>3, <2>4, ExchangeType DEF SharedReacts, TypeOK
<1>3. CASE ProviderReacts(r, answer)
  <2>1. jar' \in Nat BY <1>3 DEF ProviderReacts, JarAfter, TypeOK, Keep
  <2>2. at' \in [Requests -> Phases]
    BY <1>3 DEF ProviderReacts, TypeOK, Phases
  <2>3. jar \in Nat /\ {} \in SUBSET Requests /\ Exchange(r, {}, jar)
    BY <1>3 DEF ProviderReacts, TypeOK
  <2>4. kind' \in Kinds /\ ui' \in {"in", "out"}
    BY <1>3 DEF ProviderReacts, TypeOK, UiAfter, Kinds
  <2> QED BY <1>3, <2>1, <2>2, <2>3, <2>4, ExchangeType DEF ProviderReacts, TypeOK
<1> QED BY <1>1, <1>2, <1>3 DEF React

LEMMA TypeStep == ASSUME TypeOK, [Next]_vars PROVE TypeOK'
<1> USE DEF TypeOK, tokenVars, clockVars, clientVars, faultVars, boundVars
<1>1. ASSUME NEW r \in Requests, Server(r) \/ (Faulty(r) /\ ~LoseReply(r)) PROVE TypeOK'
    BY <1>1, ServerType
<1>2. ASSUME NEW r \in Requests, Deliver(r) PROVE TypeOK'
    BY <1>2, ReactType DEF Deliver
<1>3. ASSUME NEW r \in Requests, LoseReply(r) PROVE TypeOK'
  <2>1. NoReply \in [status : Statuses, cookie : Nat \cup {Keep}] BY DEF NoReply, Statuses, Keep
  <2>2. /\ jar' \in Nat /\ kind' \in Kinds /\ ui' \in {"in", "out"}
        /\ at' \in [Requests -> Phases] /\ sent' \in [Requests -> Nat]
        /\ reply' \in [Requests -> [status : Statuses, cookie : Nat \cup {Keep}]]
        /\ retried' \subseteq Calls /\ barred' \subseteq Requests
    BY <1>3, <2>1, ReactType DEF LoseReply
  <2>3. stranded' \subseteq Nat BY <1>3 DEF LoseReply
  <2>4. troubles' \in Nat /\ UNCHANGED <<tokenVars, clockVars, account, reused, unheard, sends>>
    BY <1>3 DEF LoseReply, Trouble
  <2> QED BY <2>2, <2>3, <2>4
<1>4. ASSUME NEW c \in Calls, StartCall(c) PROVE TypeOK'
    BY <1>4 DEF StartCall, Goto, Sending, BarredWith, Requests, Phases, ServerPhases
<1>5. CASE Boot \/ SignIn \/ SignOut
  <2>1. PICK what \in Kinds : StartProvider(what) BY <1>5 DEF Boot, SignIn, SignOut, Kinds
  <2> QED BY <2>1, SessionsAssumption
          DEF StartProvider, Goto, Sending, BarredWith, Requests, Phases, ServerPhases
<1>6. ASSUME NEW status \in {"active", "inactive"}, EditAccount(status) PROVE TypeOK'
    BY <1>6 DEF EditAccount, WriteUser, Trouble
<1>7. CASE DeleteAccount BY <1>7 DEF DeleteAccount, WriteUser, Trouble
<1>8. ASSUME NEW n \in 1 .. lastPair,
             AccessExpires(n) \/ LastSecond(n) \/ RefreshExpires(n) \/ KeyLapses(n)
      PROVE  TypeOK'
  <2>1. n \in Nat /\ accessOver \cup {n} \subseteq Nat /\ closing \cup {n} \subseteq Nat
        /\ over \cup {n} \subseteq Nat /\ keys \ {n} \subseteq Nat /\ lapsed \cup {n} \subseteq Nat
    OBVIOUS
  <2>2. CASE AccessExpires(n) BY <2>1, <2>2 DEF AccessExpires
  <2>3. CASE LastSecond(n) BY <2>1, <2>3 DEF LastSecond, Trouble
  <2>4. CASE RefreshExpires(n) BY <2>1, <2>4 DEF RefreshExpires
  <2>5. CASE KeyLapses(n) BY <2>1, <2>5 DEF KeyLapses
  <2> QED BY <1>8, <2>2, <2>3, <2>4, <2>5
<1>9. CASE UNCHANGED vars BY <1>9 DEF vars
<1> QED BY <1>1, <1>2, <1>3, <1>4, <1>5, <1>6, <1>7, <1>8, <1>9 DEF Next, Faulty

\* Every variable of the session model keeps its type, for any number of calls.
THEOREM TypeCorrect == Spec => []TypeOK
BY InitType, TypeStep, PTL DEF Spec

----------------------------------------------------------------------------
(* One request *)

\* What a step leaves in place: nothing that was used or recorded is forgotten.
Grows ==
    /\ keys \cup lapsed \subseteq keys' \cup lapsed' /\ lapsed \subseteq lapsed'
    /\ accessKeys \subseteq accessKeys' /\ accessOver \subseteq accessOver'
    /\ over \subseteq over'
    /\ reused \subseteq reused' /\ unheard \subseteq unheard'
    /\ account = "gone" => account' = "gone"

LEMMA Undisturbed ==
    ASSUME TypeOK, NEW q \in Requests, Good(q), Grows,
           at'[q] = at[q], sent'[q] = sent[q], reply'[q] = reply[q], KindOf(q)' = KindOf(q),
           q \in barred' => q \in barred /\ account' # "active"
    PROVE  Good(q)'
<1>1. GoodPhase(q)' BY DEF Good, GoodPhase, Grows, AccessRevoked, RefreshRevoked
<1>2. GoodAnswer(q)' BY DEF Good, GoodAnswer, Grows, AccessRevoked, RefreshRevoked
<1> QED BY <1>1, <1>2 DEF Good

LEMMA Restarted ==
    ASSUME NEW q \in Requests, at'[q] \in {"idle", "sent", "waiting", "done"},
           q \in barred' => account' # "active"
    PROVE  Good(q)'
BY DEF Good, GoodPhase, GoodAnswer, AfterLoad

LEMMA KindOfCalls ==
    ASSUME NEW c \in Calls PROVE c \in Requests /\ KindOf(c) = "call" /\ KindOf(c)' = "call"
BY DEF Requests, KindOf

LEMMA KindOfOthers ==
    /\ KindOf(Shared) = "refresh" /\ KindOf(Shared)' = "refresh"
    /\ KindOf(Provider) = kind /\ KindOf(Provider)' = kind'
BY SessionsAssumption DEF KindOf

LEMMA SameKind ==
    ASSUME NEW q \in Requests, kind' = kind \/ q # Provider PROVE KindOf(q)' = KindOf(q)
BY SessionsAssumption DEF KindOf, Requests

\* A handler touches its own request only, and nothing that the others rely on.
LEMMA ServerKeeps ==
    ASSUME TypeOK, NEW r \in Requests, Server(r) \/ (Faulty(r) /\ ~LoseReply(r))
    PROVE  /\ Grows
           /\ UNCHANGED <<account, clientVars>>
           /\ \A q \in Requests \ {r} : at'[q] = at[q] /\ reply'[q] = reply[q]
<1> USE DEF tokenVars, clockVars, clientVars, faultVars, Grows, Goto, Answer, TypeOK, Mint,
            BlocklistRefresh, BlocklistAccess
<1>1. CASE \/ ValidateCall(r) \/ ValidateRefresh(r) \/ CheckReplay(r)
           \/ FindReplayer(r) \/ RecordReuse(r)
    BY <1>1 DEF ValidateCall, ValidateRefresh, CheckReplay, FindReplayer, RecordReuse
<1>2. CASE LoadUser(r) \/ LoginReads(r) BY <1>2 DEF LoadUser, LoginReads
<1>3. CASE Claim(r) \/ LoginMints(r) BY <1>3 DEF Claim, LoginMints
<1>4. CASE \/ ValidateLogout(r) \/ RevokeAccess(r) \/ CheckRefresh(r) \/ RevokeRefresh(r)
           \/ FinishLogout(r)
    BY <1>4 DEF ValidateLogout, RevokeAccess, CheckRefresh, RevokeRefresh, FinishLogout
<1>5. CASE Fail(r) \/ ClaimUnanswered(r) \/ ReplayCheckFails(r)
    BY <1>5 DEF Fail, ClaimUnanswered, ReplayCheckFails
<1> QED BY <1>1, <1>2, <1>3, <1>4, <1>5 DEF Server, Faulty

LEMMA ServerGood ==
    ASSUME TypeOK, NEW r \in Requests, Good(r), Server(r) \/ (Faulty(r) /\ ~LoseReply(r))
    PROVE  Good(r)'
<1>0. /\ Grows /\ sent' = sent /\ barred' = barred /\ account' = account
      /\ KindOf(r)' = KindOf(r)
    BY ServerKeeps, SameKind DEF clientVars
<1> USE <1>0 DEF TypeOK, Good, GoodPhase, GoodAnswer, Goto, Answer, AccessRevoked, RefreshRevoked,
                 AfterLoad, tokenVars, clockVars, faultVars
<1>1. CASE ValidateCall(r)
    BY <1>1, KindOfCalls DEF ValidateCall, AccessIsValid, AccessDecodes
<1>2. CASE ValidateRefresh(r)
    BY <1>2 DEF ValidateRefresh, RefreshDecodes, Blocklisted
<1>3. CASE CheckReplay(r)
    BY <1>3 DEF CheckReplay, RefreshDecodes, Blocklisted
<1>17. CASE FindReplayer(r)
    BY <1>17 DEF FindReplayer
<1>4. CASE RecordReuse(r)
    BY <1>4 DEF RecordReuse
<1>5. CASE LoadUser(r)
    BY <1>5 DEF LoadUser
<1>6. CASE Claim(r)
    BY <1>6 DEF Claim
<1>7. CASE LoginReads(r)
    BY <1>7 DEF LoginReads
<1>8. CASE LoginMints(r)
    BY <1>8 DEF LoginMints
<1>9. CASE ValidateLogout(r)
    BY <1>9 DEF ValidateLogout, AccessIsValid, AccessDecodes
<1>10. CASE RevokeAccess(r)
    BY <1>10 DEF RevokeAccess, AccessIsValid, AccessDecodes, BlocklistAccess
<1>11. CASE CheckRefresh(r)
    BY <1>11 DEF CheckRefresh, RefreshDecodes, Blocklisted
<1>12. CASE RevokeRefresh(r)
    BY <1>12 DEF RevokeRefresh, BlocklistRefresh
<1>13. CASE FinishLogout(r)
    BY <1>13 DEF FinishLogout
<1>14. CASE Fail(r)
    BY <1>14 DEF Fail
<1>15. CASE ClaimUnanswered(r)
    BY <1>15 DEF ClaimUnanswered
<1>16. CASE ReplayCheckFails(r)
    BY <1>16 DEF ReplayCheckFails
<1> HIDE DEF TypeOK, Good, GoodPhase, GoodAnswer, Goto, Answer, AccessRevoked, RefreshRevoked,
             AfterLoad, tokenVars, clockVars, faultVars
<1> QED
    BY <1>1, <1>2, <1>3, <1>4, <1>5, <1>6, <1>7, <1>8, <1>9, <1>10, <1>11, <1>12, <1>13,
       <1>14, <1>15, <1>16, <1>17 DEF Server, Faulty

\* What the browser does with an answer: the request starts over or ends, and those it sends
\* had been idle or waiting.
LEMMA ReactShape ==
    ASSUME TypeOK, NEW r \in Requests, NEW answer, React(r, answer)
    PROVE  \E rs, cookies :
             /\ rs \in SUBSET Requests
             /\ Exchange(r, rs, cookies)
             /\ rs = {} \/ cookies = jar'
             /\ jar' = jar \/ (r \notin Calls /\ jar' = JarAfter(answer))
             /\ r \notin Calls => jar' = JarAfter(answer)
             /\ at'[r] \in {"idle", "sent", "waiting", "done"}
             /\ \A p \in rs : at'[p] = "sent" /\ at[p] \in {"idle", "waiting"}
             /\ \A p \in Requests \ (rs \cup {r}) :
                  at'[p] = at[p] \/ (at'[p] = "done" /\ at[p] = "waiting")
             /\ kind' = kind \/ r = Provider
<1> USE SessionsAssumption DEF TypeOK, Requests
<1>1. CASE CallReacts(r, answer)
  <2>1. CASE answer.status = 401 /\ r \notin retried
    <3>1. CASE at[Shared] = "idle"
      <4>1. Exchange(r, {Shared}, jar) BY <1>1, <2>1, <3>1 DEF CallReacts
      <4> QED BY <1>1, <2>1, <3>1, <4>1 DEF CallReacts
    <3>2. CASE at[Shared] # "idle"
      <4>1. Exchange(r, {}, jar) BY <1>1, <2>1, <3>2 DEF CallReacts
      <4> QED BY <1>1, <2>1, <3>2, <4>1 DEF CallReacts
    <3> QED BY <3>1, <3>2
  <2>2. CASE ~(answer.status = 401 /\ r \notin retried)
    <3>1. Exchange(r, {}, jar) BY <1>1, <2>2 DEF CallReacts
    <3> QED BY <1>1, <2>2, <3>1 DEF CallReacts
  <2> QED BY <2>1, <2>2
<1>2. CASE SharedReacts(r, answer)
  <2> DEFINE waiting == {c \in Calls : at[c] = "waiting"}
  <2>1. CASE answer.status = 200
    <3>1. Exchange(Shared, waiting, jar') BY <1>2, <2>1 DEF SharedReacts
    <3> QED BY <1>2, <2>1, <3>1 DEF SharedReacts, Resumed
  <2>2. CASE answer.status # 200
    <3>1. Exchange(Shared, {}, jar') BY <1>2, <2>2 DEF SharedReacts
    <3> QED BY <1>2, <2>2, <3>1 DEF SharedReacts, Resumed
  <2> QED BY <2>1, <2>2
<1>3. CASE ProviderReacts(r, answer)
  <2>1. Exchange(Provider, {}, jar) BY <1>3 DEF ProviderReacts
  <2> QED BY <1>3, <2>1 DEF ProviderReacts
<1> QED BY <1>1, <1>2, <1>3 DEF React

\* A request starts over, or is left alone.
LEMMA ReactGood ==
    ASSUME TypeOK, \A q \in Requests : Good(q), NEW r \in Requests, at[r] = "answered",
           NEW answer, React(r, answer), Grows, UNCHANGED account
    PROVE  \A q \in Requests : Good(q)'
<1> SUFFICES ASSUME NEW q \in Requests PROVE Good(q)'
    OBVIOUS
<1>1. PICK rs, cookies :
        /\ rs \in SUBSET Requests
        /\ Exchange(r, rs, cookies)
        /\ at'[r] \in {"idle", "sent", "waiting", "done"}
        /\ \A p \in rs : at'[p] = "sent"
        /\ \A p \in Requests \ (rs \cup {r}) : at'[p] = at[p] \/ at'[p] = "done"
        /\ kind' = kind \/ r = Provider
  BY ReactShape
<1>2. q \in barred' => account' # "active" /\ (q \in barred \/ q \in rs)
    BY <1>1 DEF Exchange, BarredWith, Good, GoodPhase, TypeOK
<1>3. CASE at'[q] \in {"idle", "sent", "waiting", "done"}
    BY <1>2, <1>3, Restarted
<1>4. CASE at'[q] \notin {"idle", "sent", "waiting", "done"}
  <2>1. q # r /\ q \notin rs /\ at'[q] = at[q] BY <1>1, <1>4
  <2>2. sent'[q] = sent[q] /\ reply'[q] = reply[q]
    BY <1>1, <2>1 DEF Exchange, Sending, TypeOK
  <2>3. KindOf(q)' = KindOf(q) BY <1>1, <2>1, SameKind
  <2> QED BY <1>2, <2>1, <2>2, <2>3, Undisturbed
<1> QED BY <1>3, <1>4

LEMMA StepGood ==
    ASSUME TypeOK, \A q \in Requests : Good(q), [Next]_vars
    PROVE  \A q \in Requests : Good(q)'
<1>1. ASSUME NEW r \in Requests, Server(r) \/ (Faulty(r) /\ ~LoseReply(r))
      PROVE  \A q \in Requests : Good(q)'
  <2> SUFFICES ASSUME NEW q \in Requests PROVE Good(q)'
    OBVIOUS
  <2>1. CASE q = r BY <1>1, <2>1, ServerGood
  <2>2. CASE q # r
    <3>1. /\ Grows /\ sent' = sent /\ barred' = barred /\ account' = account /\ kind' = kind
          /\ at'[q] = at[q] /\ reply'[q] = reply[q]
      BY <1>1, <2>2, ServerKeeps DEF clientVars
    <3>2. q \in barred => account # "active" BY DEF Good, GoodPhase
    <3> QED BY <3>1, <3>2, SameKind, Undisturbed
  <2> QED BY <2>1, <2>2
<1>2. ASSUME NEW r \in Requests, Deliver(r) PROVE \A q \in Requests : Good(q)'
  <2>1. Grows BY <1>2 DEF Deliver, Grows, tokenVars, clockVars, faultVars
  <2> QED BY <1>2, <2>1, ReactGood DEF Deliver
<1>3. ASSUME NEW r \in Requests, LoseReply(r) PROVE \A q \in Requests : Good(q)'
  <2>1. Grows BY <1>3 DEF LoseReply, Grows, tokenVars, clockVars
  <2> QED BY <1>3, <2>1, ReactGood DEF LoseReply
<1>4. ASSUME NEW r \in Requests,
             \/ r \in Calls /\ StartCall(r)
             \/ r = Provider /\ \E what \in Kinds : StartProvider(what)
      PROVE  \A q \in Requests : Good(q)'
  <2> SUFFICES ASSUME NEW q \in Requests PROVE Good(q)'
    OBVIOUS
  <2>1. /\ at' = [at EXCEPT ![r] = "sent"] /\ reply' = reply
        /\ sent' = Sending({r}, jar) /\ barred' = BarredWith({r})
        /\ Grows /\ account' = account
        /\ kind' = kind \/ r = Provider
    BY <1>4 DEF StartCall, StartProvider, Goto, Grows, tokenVars, clockVars, faultVars
  <2>2. q \in barred' => account' # "active" /\ (q \in barred \/ q = r)
    BY <2>1 DEF BarredWith, Good, GoodPhase, TypeOK
  <2>3. CASE q = r BY <2>1, <2>2, <2>3, Restarted DEF TypeOK
  <2>4. CASE q # r
    <3>1. at'[q] = at[q] /\ sent'[q] = sent[q] /\ reply'[q] = reply[q]
      BY <2>1, <2>4 DEF Sending, TypeOK
    <3> QED BY <2>1, <2>2, <2>4, <3>1, SameKind, Undisturbed
  <2> QED BY <2>3, <2>4
<1>5. ASSUME \/ \E status \in {"active", "inactive"} : EditAccount(status)
             \/ DeleteAccount
             \/ \E n \in 1 .. lastPair :
                  AccessExpires(n) \/ LastSecond(n) \/ RefreshExpires(n) \/ KeyLapses(n)
             \/ UNCHANGED vars
      PROVE  \A q \in Requests : Good(q)'
  <2> SUFFICES ASSUME NEW q \in Requests PROVE Good(q)'
    OBVIOUS
  <2> USE DEF Grows, tokenVars, clockVars, clientVars, faultVars
  <2>1. Grows /\ at' = at /\ sent' = sent /\ reply' = reply /\ kind' = kind
    <3>1. CASE (\E status \in {"active", "inactive"} : EditAccount(status)) \/ DeleteAccount
      BY <3>1 DEF EditAccount, DeleteAccount, WriteUser
    <3>2. CASE \E n \in 1 .. lastPair :
                  AccessExpires(n) \/ LastSecond(n) \/ RefreshExpires(n) \/ KeyLapses(n)
      BY <3>2 DEF AccessExpires, LastSecond, RefreshExpires, KeyLapses
    <3>3. CASE UNCHANGED vars BY <3>3 DEF vars
    <3> QED BY <1>5, <3>1, <3>2, <3>3
  <2>2. q \in barred' => q \in barred /\ account' # "active"
    <3>1. q \in barred => account # "active" BY DEF Good, GoodPhase
    <3>2. CASE (\E status \in {"active", "inactive"} : EditAccount(status)) \/ DeleteAccount
      BY <3>1, <3>2 DEF EditAccount, DeleteAccount, WriteUser
    <3>3. CASE \E n \in 1 .. lastPair :
                  AccessExpires(n) \/ LastSecond(n) \/ RefreshExpires(n) \/ KeyLapses(n)
      BY <3>1, <3>3 DEF AccessExpires, LastSecond, RefreshExpires, KeyLapses
    <3>4. CASE UNCHANGED vars BY <3>1, <3>4 DEF vars
    <3> QED BY <1>5, <3>2, <3>3, <3>4
  <2> QED BY <2>1, <2>2, SameKind, Undisturbed
<1>6. CASE \/ \E c \in Calls : StartCall(c)
           \/ Boot \/ SignIn \/ SignOut
    BY <1>4, <1>6 DEF Boot, SignIn, SignOut, Kinds, Requests
<1> QED BY <1>1, <1>2, <1>3, <1>5, <1>6 DEF Next, Faulty

----------------------------------------------------------------------------
(* Pairs *)

\* The steps that mint, and what they mint from.
LEMMA Minting ==
    ASSUME Inv, [Next]_vars
    PROVE  /\ keys \cup lapsed \subseteq keys' \cup lapsed' /\ lapsed \subseteq lapsed'
           /\ 0 \notin keys'
           /\ \/ UNCHANGED <<lastPair, born>>
              \/ Mint(0)
              \/ \E r \in Requests : /\ Mint(sent[r])
                                     /\ KeyIsNew(r) /\ sent[r] # 0
                                     /\ keys' = keys \cup {sent[r]}
<1> USE DEF tokenVars, clockVars, clientVars, faultVars
<1>1. ASSUME NEW r \in Requests, Server(r) \/ (Faulty(r) /\ ~LoseReply(r))
      PROVE  /\ \/ UNCHANGED <<lastPair, born>>
                \/ Mint(0)
                \/ Mint(sent[r]) /\ KeyIsNew(r) /\ sent[r] # 0 /\ keys' = keys \cup {sent[r]}
             /\ keys' = keys \/ (sent[r] # 0 /\ keys' = keys \cup {sent[r]})
             /\ lapsed' = lapsed
  <2>1. at[r] \in {"claiming", "burning"} => sent[r] # 0
    BY DEF Inv, Good, GoodPhase
  <2>2. CASE \/ ValidateCall(r) \/ ValidateRefresh(r) \/ CheckReplay(r)
             \/ FindReplayer(r) \/ RecordReuse(r) \/ LoadUser(r) \/ LoginReads(r)
             \/ ValidateLogout(r) \/ RevokeAccess(r)
             \/ CheckRefresh(r) \/ FinishLogout(r)
    BY <2>2 DEF ValidateCall, ValidateRefresh, CheckReplay, FindReplayer, RecordReuse, LoadUser,
        LoginReads, ValidateLogout, RevokeAccess, CheckRefresh, FinishLogout
  <2>3. CASE Claim(r) BY <2>1, <2>3 DEF Claim, BlocklistRefresh
  <2>4. CASE LoginMints(r) BY <2>4 DEF LoginMints
  <2>5. CASE RevokeRefresh(r) BY <2>1, <2>5 DEF RevokeRefresh, BlocklistRefresh
  <2>6. CASE Fail(r) \/ ClaimUnanswered(r) \/ ReplayCheckFails(r)
    BY <2>1, <2>6 DEF Fail, ClaimUnanswered, ReplayCheckFails, BlocklistRefresh
  <2> QED BY <1>1, <2>2, <2>3, <2>4, <2>5, <2>6 DEF Server, Faulty
<1>2. CASE \E r \in Requests : Server(r) \/ (Faulty(r) /\ ~LoseReply(r))
    BY <1>1, <1>2 DEF Inv, Ledger
<1>3. CASE \E n \in 1 .. lastPair : KeyLapses(n)
    BY <1>3 DEF KeyLapses, Inv, Ledger
<1>4. CASE UNCHANGED tokenVars
    BY <1>4 DEF Inv, Ledger
<1>5. CASE \/ \E r \in Requests : Deliver(r) \/ LoseReply(r)
           \/ \E c \in Calls : StartCall(c)
           \/ Boot \/ SignIn \/ SignOut
    BY <1>4, <1>5 DEF Deliver, LoseReply, StartCall, Boot, SignIn, SignOut, StartProvider
<1>6. CASE \/ \E status \in {"active", "inactive"} : EditAccount(status)
           \/ DeleteAccount
           \/ \E n \in 1 .. lastPair : AccessExpires(n) \/ LastSecond(n) \/ RefreshExpires(n)
           \/ UNCHANGED vars
    BY <1>4, <1>6 DEF EditAccount, DeleteAccount, WriteUser, AccessExpires, LastSecond, RefreshExpires, vars
<1> QED BY <1>2, <1>3, <1>5, <1>6 DEF Next, Faulty

LEMMA LedgerStep == ASSUME Inv, [Next]_vars PROVE Ledger'
<1>1. CASE UNCHANGED <<lastPair, born>> BY <1>1, Minting DEF Inv, Ledger
<1>2. ASSUME NEW from, Mint(from), from # 0 => from \in keys' PROVE Ledger'
  <2>1. lastPair \in Nat /\ lastPair' = lastPair + 1 /\ born' = born \cup {<<lastPair + 1, from>>}
    BY <1>2 DEF Inv, TypeOK, Mint
  <2>2. \A pair \in born : pair[1] \in Nat BY DEF Inv, TypeOK
  <2>3. \A pair \in born' : pair[1] <= lastPair' BY <2>1, <2>2 DEF Inv, Ledger
  <2>4. \A pair \in born' : pair[2] # 0 => pair[2] \in keys' \cup lapsed'
    BY <1>2, <2>1, Minting DEF Inv, Ledger
  <2> QED BY <2>3, <2>4, Minting DEF Ledger
<1> QED BY <1>1, <1>2, Minting

----------------------------------------------------------------------------
(* Theorems *)

LEMMA InitInv == ASSUME Init PROVE Inv
<1>1. TypeOK BY InitType
<1>2. \A r \in Requests : Good(r) BY DEF Init, Good, GoodPhase, GoodAnswer
<1>3. Ledger BY DEF Init, Ledger
<1> QED BY <1>1, <1>2, <1>3 DEF Inv

\* The inductive invariant of the session model.
THEOREM InvariantHolds == Spec => []Inv
<1>1. Inv /\ [Next]_vars => Inv' BY TypeStep, StepGood, LedgerStep DEF Inv
<1> QED BY <1>1, InitInv, PTL DEF Spec

\* While the key of a refresh token is in the blocklist, no step mints a pair from it.
THEOREM KeyAlwaysStops == Spec => KeyStopsRotation
<1>1. ASSUME Inv, [Next]_vars PROVE [\A pair \in born' \ born : pair[2] \notin keys]_vars
    BY <1>1, Minting DEF Mint, KeyIsNew, Inv, Ledger
<1> QED BY <1>1, InvariantHolds, PTL DEF Spec, KeyStopsRotation

----------------------------------------------------------------------------
(* A token rotates once *)

\* RotatedOnce without its bounds, which move when a pair is minted.
SingleUse ==
    \A p, q \in born : p[2] = q[2] /\ p[2] # 0 /\ p[1] # q[1] => p[2] \in lapsed

LEMMA SingleUseStep == ASSUME Inv, SingleUse, [Next]_vars PROVE SingleUse'
<1>1. CASE UNCHANGED <<lastPair, born>> BY <1>1, Minting DEF SingleUse
<1>2. CASE Mint(0)
  <2>1. \A p \in born' : p[2] # 0 => p \in born BY <1>2 DEF Mint
  <2> QED BY <2>1, Minting DEF SingleUse
<1>3. ASSUME NEW r \in Requests, Mint(sent[r]), KeyIsNew(r), sent[r] # 0
      PROVE  SingleUse'
  <2> DEFINE new == <<lastPair + 1, sent[r]>>
  <2>1. born' = born \cup {new} BY <1>3 DEF Mint
  <2>2. \A p \in born : p[2] = sent[r] => sent[r] \in lapsed
    BY <1>3 DEF Inv, Ledger, KeyIsNew
  <2>3. new[1] = lastPair + 1 /\ new[2] = sent[r] OBVIOUS
  <2> HIDE DEF new
  <2> SUFFICES ASSUME NEW p \in born', NEW q \in born', p[2] = q[2], p[2] # 0, p[1] # q[1]
               PROVE  p[2] \in lapsed
    BY Minting DEF SingleUse
  <2>4. CASE p \in born /\ q \in born BY <2>4 DEF SingleUse
  <2>5. CASE p = new \/ q = new BY <2>1, <2>2, <2>3, <2>5
  <2> QED BY <2>1, <2>4, <2>5
<1> QED BY <1>1, <1>2, <1>3, Minting

\* Two pairs come from one refresh token only if its key ran out before the token did.
THEOREM RotatesOnce == Spec => []RotatedOnce
<1>1. Init => SingleUse BY DEF Init, SingleUse
<1>2. SingleUse => RotatedOnce
  <2> SUFFICES ASSUME SingleUse, NEW n \in 1 .. lastPair, NEW m \in 1 .. lastPair,
                      NEW k \in 1 .. lastPair, m # k, <<m, n>> \in born, <<k, n>> \in born
               PROVE  n \in lapsed
    BY DEF RotatedOnce
  <2>1. <<m, n>>[2] = <<k, n>>[2] /\ <<m, n>>[2] # 0 /\ <<m, n>>[1] # <<k, n>>[1] OBVIOUS
  <2> QED BY <2>1 DEF SingleUse
<1>3. Inv /\ SingleUse /\ [Next]_vars => SingleUse' BY SingleUseStep
<1> QED BY <1>1, <1>2, <1>3, InvariantHolds, PTL DEF Spec

----------------------------------------------------------------------------
(* What Good says of answers *)

\* A live refresh token is refused only with a committed row, or for one of the two causes.
THEOREM RefusalsAreRecorded == Spec => []RefusalIsRecorded
<1>1. Inv => RefusalIsRecorded BY DEF Inv, Good, GoodAnswer, RefusalIsRecorded, Requests
<1> QED BY <1>1, InvariantHolds, PTL

\* A logout answered 200 leaves both tokens that it carried unusable.
THEOREM LogoutRevokes == Spec => []LogoutRevokesWhatItCarried
<1>1. Inv => LogoutRevokesWhatItCarried
  BY KindOfOthers DEF Inv, Good, GoodAnswer, AccessRevoked, RefreshRevoked,
     LogoutRevokesWhatItCarried, Requests
<1> QED BY <1>1, InvariantHolds, PTL

\* The tokens of an account that is not active get nothing.
THEOREM InactiveGetNothing == Spec => []InactiveGetsNothing
<1>1. Inv => InactiveGetsNothing BY DEF Inv, TypeOK, Good, GoodAnswer, InactiveGetsNothing
<1> QED BY <1>1, InvariantHolds, PTL

----------------------------------------------------------------------------
(* Nobody is stranded but by a lost answer *)

\* Calls are never told to change the cookies, and a pair that is under way to the browser
\* is in no cookie, in no other request or answer, and not used up.
Numbered ==
    /\ jar <= lastPair
    /\ \A n \in keys : n <= lastPair
    /\ \A q \in Requests : sent[q] <= lastPair /\ reply[q].cookie <= lastPair

UnseenBy(n, r) ==
    /\ n \notin keys /\ n # jar
    /\ \A q \in Requests : sent[q] # n /\ (q # r => reply[q].cookie # n)

Unseen ==
    /\ \A c \in Calls : reply[c].cookie = Keep
    /\ \A r \in Requests : reply[r].cookie > 0 => UnseenBy(reply[r].cookie, r)

Witness(r) ==
    /\ sent[r] = jar
    /\ \/ at[r] = "left"
       \/ at[r] = "answered" /\ reply[r].cookie # Keep

SInv == Inv /\ Numbered /\ Unseen /\ StrandedForCause

LEMMA InitSInv == ASSUME Init PROVE SInv
<1>1. Numbered BY DEF Init, Numbered, NoReply, Keep
<1>2. Unseen BY DEF Init, Unseen, NoReply, Keep, Requests
<1>3. StrandedForCause BY DEF Init, StrandedForCause
<1> QED BY <1>1, <1>2, <1>3, InitInv DEF SInv

\* What a handler may do to the numbers: it mints the next pair into its own answer, or
\* answers without one, and uses up at most the token that its request carries.
LEMMA ServerNumbers ==
    ASSUME SInv, NEW r \in Requests, Server(r) \/ (Faulty(r) /\ ~LoseReply(r))
    PROVE  /\ jar' = jar /\ sent' = sent
           /\ \A q \in Requests \ {r} : at'[q] = at[q] /\ reply'[q] = reply[q]
           /\ \/ lastPair' = lastPair /\ (reply'[r] = reply[r] \/ reply'[r].cookie \in {Keep, Clear})
              \/ lastPair' = lastPair + 1 /\ reply'[r].cookie = lastPair + 1
           /\ keys' = keys \/ keys' = keys \cup {sent[r]}
           /\ r \in Calls => reply'[r].cookie = Keep
           /\ stranded \subseteq stranded'
           /\ at[r] # "answered"
           /\ at[r] = "left" => sent[r] \in stranded' \/ (at'[r] = "answered" /\ reply'[r].cookie # Keep)
           /\ keys' # keys => sent[r] \in stranded' \/ at'[r] = "left"
                              \/ (at'[r] = "answered" /\ reply'[r].cookie # Keep)
<1>0. /\ jar' = jar /\ sent' = sent
      /\ \A q \in Requests \ {r} : at'[q] = at[q] /\ reply'[q] = reply[q]
    BY ServerKeeps DEF clientVars, SInv, Inv
<1> USE <1>0, KindOfCalls DEF SInv, Inv, TypeOK, Good, GoodPhase, Unseen, Goto, Answer, Mint,
        tokenVars, clockVars, clientVars, faultVars, Keep, Clear, BlocklistRefresh, BlocklistAccess,
        ServerPhases
<1>1. CASE ValidateCall(r) BY <1>1 DEF ValidateCall
<1>2. CASE ValidateRefresh(r) BY <1>2 DEF ValidateRefresh
<1>3. CASE CheckReplay(r) BY <1>3 DEF CheckReplay
<1>4. CASE RecordReuse(r) BY <1>4 DEF RecordReuse
<1>17. CASE FindReplayer(r) BY <1>17 DEF FindReplayer
<1>5. CASE LoadUser(r) BY <1>5 DEF LoadUser
<1>6. CASE Claim(r) BY <1>6 DEF Claim
<1>7. CASE LoginReads(r) BY <1>7 DEF LoginReads
<1>8. CASE LoginMints(r) BY <1>8 DEF LoginMints
<1>9. CASE ValidateLogout(r) BY <1>9 DEF ValidateLogout
<1>10. CASE RevokeAccess(r) BY <1>10 DEF RevokeAccess
<1>11. CASE CheckRefresh(r) BY <1>11 DEF CheckRefresh
<1>12. CASE RevokeRefresh(r) BY <1>12 DEF RevokeRefresh
<1>13. CASE FinishLogout(r) BY <1>13 DEF FinishLogout
<1>14. CASE Fail(r) BY <1>14 DEF Fail
<1>15. CASE ClaimUnanswered(r) BY <1>15 DEF ClaimUnanswered
<1>16. CASE ReplayCheckFails(r) BY <1>16 DEF ReplayCheckFails
<1> QED
    BY <1>1, <1>2, <1>3, <1>4, <1>5, <1>6, <1>7, <1>8, <1>9, <1>10, <1>11, <1>12, <1>13,
       <1>14, <1>15, <1>16, <1>17 DEF Server, Faulty

LEMMA ServerStranded ==
    ASSUME SInv, NEW r \in Requests, Server(r) \/ (Faulty(r) /\ ~LoseReply(r))
    PROVE  Numbered' /\ Unseen' /\ StrandedForCause'
<1>0. /\ jar \in Nat /\ lastPair \in Nat /\ keys \subseteq Nat
      /\ \A q \in Requests : sent[q] \in Nat /\ reply[q].cookie \in Nat \cup {Keep}
    BY DEF SInv, Inv, TypeOK
<1>a. /\ jar' = jar /\ sent' = sent
      /\ \A q \in Requests \ {r} : at'[q] = at[q] /\ reply'[q] = reply[q]
      /\ \/ lastPair' = lastPair /\ (reply'[r] = reply[r] \/ reply'[r].cookie \in {Keep, Clear})
         \/ lastPair' = lastPair + 1 /\ reply'[r].cookie = lastPair + 1
      /\ keys' = keys \/ keys' = keys \cup {sent[r]}
      /\ r \in Calls => reply'[r].cookie = Keep
  BY ServerNumbers
<1>b. /\ stranded \subseteq stranded'
      /\ at[r] # "answered"
      /\ at[r] = "left" => sent[r] \in stranded' \/ (at'[r] = "answered" /\ reply'[r].cookie # Keep)
      /\ keys' # keys => sent[r] \in stranded' \/ at'[r] = "left"
                         \/ (at'[r] = "answered" /\ reply'[r].cookie # Keep)
  BY ServerNumbers
<1> USE <1>0, <1>a
<1>1. Numbered'
  <2>0. lastPair <= lastPair' /\ lastPair' \in Nat OBVIOUS
  <2>1. \A n \in keys' : n <= lastPair'
    <3>1. \A n \in keys \cup {sent[r]} : n \in Nat /\ n <= lastPair BY DEF SInv, Numbered
    <3>2. keys' \subseteq keys \cup {sent[r]} OBVIOUS
    <3> QED BY <2>0, <3>1, <3>2
  <2>2. \A q \in Requests : sent'[q] <= lastPair' BY DEF SInv, Numbered
  <2>3. \A q \in Requests : reply'[q].cookie <= lastPair' BY DEF SInv, Numbered, Keep, Clear
  <2> QED BY <2>1, <2>2, <2>3 DEF SInv, Numbered
<1>2. Unseen'
  <2>1. ASSUME NEW c \in Calls PROVE reply'[c].cookie = Keep
    BY <2>1, KindOfCalls DEF SInv, Unseen
  <2>2. ASSUME NEW q \in Requests, reply'[q].cookie > 0 PROVE UnseenBy(reply[q].cookie, q)'
    <3>1. CASE reply'[q] = reply[q]
      <4>1. UnseenBy(reply[q].cookie, q) BY <2>2, <3>1 DEF SInv, Unseen
      <4> QED BY <2>2, <3>1, <4>1 DEF SInv, UnseenBy, Numbered, Keep, Clear
    <3>2. CASE reply'[q] # reply[q]
      <4>1. q = r /\ reply'[q].cookie = lastPair + 1 BY <2>2, <3>2 DEF Keep, Clear
      <4> QED BY <4>1 DEF SInv, UnseenBy, Numbered
    <3> QED BY <3>1, <3>2
  <2> QED BY <2>1, <2>2 DEF Unseen
<1>3. StrandedForCause'
  <2> SUFFICES ASSUME jar' \in keys' \ stranded'
               PROVE  \E q \in Requests : Witness(q)'
    BY DEF StrandedForCause, Witness
  <2>1. CASE jar \in keys
    <3>0. StrandedForCause /\ jar \in keys \ stranded BY <1>b, <2>1 DEF SInv
    <3>1. PICK q \in Requests : Witness(q) BY ONLY <3>0 DEF StrandedForCause, Witness
    <3>2. CASE q # r BY <1>b, <3>1, <3>2 DEF Witness
    <3>3. CASE q = r BY <1>b, <3>1, <3>3 DEF Witness
    <3> QED BY <3>2, <3>3
  <2>2. CASE jar \notin keys
    <3>1. keys' # keys /\ jar = sent[r] BY <2>2
    <3> QED BY <1>b, <3>1 DEF Witness
  <2> QED BY <2>1, <2>2
<1> QED BY <1>1, <1>2, <1>3

LEMMA ReactStranded ==
    ASSUME SInv, NEW r \in Requests, at[r] = "answered", NEW answer, React(r, answer),
           answer = reply[r]
             \/ (answer = NoReply /\ (reply[r].cookie # Keep => sent[r] \in stranded')),
           UNCHANGED <<lastPair, keys>>, stranded \subseteq stranded'
    PROVE  Numbered' /\ Unseen' /\ StrandedForCause'
<1>0. /\ jar \in Nat /\ lastPair \in Nat /\ keys \subseteq Nat /\ 0 \notin keys
      /\ sent \in [Requests -> Nat]
      /\ reply \in [Requests -> [status : Statuses, cookie : Nat \cup {Keep}]]
      /\ \A q \in Requests : sent[q] \in Nat /\ reply[q].cookie \in Nat \cup {Keep}
    BY DEF SInv, Inv, TypeOK, Ledger
<1>1. PICK rs, cookies :
        /\ rs \in SUBSET Requests
        /\ Exchange(r, rs, cookies)
        /\ rs = {} \/ cookies = jar'
        /\ jar' = jar \/ (r \notin Calls /\ jar' = JarAfter(answer))
        /\ r \notin Calls => jar' = JarAfter(answer)
        /\ \A p \in rs : at'[p] = "sent" /\ at[p] \in {"idle", "waiting"}
        /\ \A p \in Requests \ (rs \cup {r}) :
             at'[p] = at[p] \/ (at'[p] = "done" /\ at[p] = "waiting")
  BY ReactShape DEF SInv, Inv
<1>2. jar' = (IF answer.cookie = Keep THEN jar ELSE answer.cookie)
  BY <1>1 DEF JarAfter, SInv, Unseen, NoReply, Keep
<1>3. /\ \A q \in Requests : sent'[q] \in {0, jar', sent[q]}
      /\ \A q \in Requests : q # r /\ q \notin rs => sent'[q] = sent[q]
  BY <1>0, <1>1 DEF Exchange, Sending
<1>4. reply'[r].cookie = Keep /\ \A q \in Requests \ {r} : reply'[q] = reply[q]
  BY <1>0, <1>1 DEF Exchange, NoReply
<1>5. jar' = jar \/ jar' = reply[r].cookie BY <1>2 DEF NoReply
<1>6. Numbered' BY <1>0, <1>3, <1>4, <1>5 DEF SInv, Numbered, Keep
<1>7. Unseen'
  <2>1. ASSUME NEW q \in Requests, reply'[q].cookie > 0 PROVE UnseenBy(reply[q].cookie, q)'
    <3>1. q # r /\ reply'[q] = reply[q] BY <1>4, <2>1 DEF Keep
    <3>2. UnseenBy(reply[q].cookie, q) BY <2>1, <3>1 DEF SInv, Unseen
    <3> QED BY <1>0, <1>3, <1>4, <1>5, <2>1, <3>1, <3>2 DEF UnseenBy, Keep
  <2>2. \A c \in Calls : reply'[c].cookie = Keep
    BY <1>4, KindOfCalls DEF SInv, Unseen
  <2> QED BY <2>1, <2>2 DEF Unseen
<1>8. StrandedForCause'
  <2> SUFFICES ASSUME jar' \in keys' \ stranded'
               PROVE  \E q \in Requests : Witness(q)'
    BY DEF StrandedForCause, Witness
  <2>1. answer.cookie = Keep
    <3> SUFFICES ASSUME answer.cookie # Keep PROVE FALSE
      OBVIOUS
    <3>1. jar' = reply[r].cookie /\ reply[r].cookie \in Nat BY <1>0, <1>2 DEF NoReply
    <3>2. reply[r].cookie > 0 BY <1>0, <3>1
    <3> QED BY <3>1, <3>2 DEF SInv, Unseen, UnseenBy
  <2>2. jar' = jar /\ jar \in keys \ stranded BY <1>2, <2>1
  <2>a. StrandedForCause BY DEF SInv
  <2>3. PICK q \in Requests : Witness(q) BY ONLY <2>a, <2>2 DEF StrandedForCause, Witness
  <2>4. CASE q = r BY <2>1, <2>2, <2>3, <2>4 DEF Witness
  <2>5. CASE q # r
    <3>1. q \notin rs /\ at'[q] = at[q] BY <1>1, <2>3, <2>5 DEF Witness
    <3> QED BY <1>3, <1>4, <2>2, <2>3, <2>5, <3>1 DEF Witness
  <2> QED BY <2>4, <2>5
<1> QED BY <1>6, <1>7, <1>8

LEMMA QuietStranded ==
    ASSUME SInv, UNCHANGED <<jar, lastPair, reply, stranded>>, keys' \subseteq keys,
           \A q \in Requests : \/ at'[q] = at[q] /\ sent'[q] = sent[q]
                               \/ at[q] = "idle" /\ sent'[q] = jar
    PROVE  Numbered' /\ Unseen' /\ StrandedForCause'
<1>1. Numbered' BY DEF SInv, Numbered
<1>2. Unseen' BY DEF SInv, Unseen, UnseenBy
<1>3. StrandedForCause' BY DEF SInv, StrandedForCause
<1> QED BY <1>1, <1>2, <1>3

LEMMA StrandedStep == ASSUME SInv, [Next]_vars PROVE SInv'
<1> USE DEF tokenVars, clockVars, clientVars, faultVars
<1>0. SUFFICES Numbered' /\ Unseen' /\ StrandedForCause'
  BY TypeStep, StepGood, LedgerStep DEF SInv, Inv
<1>1. ASSUME NEW r \in Requests, Server(r) \/ (Faulty(r) /\ ~LoseReply(r))
      PROVE  Numbered' /\ Unseen' /\ StrandedForCause'
  BY <1>1, ServerStranded
<1>2. ASSUME NEW r \in Requests, Deliver(r) PROVE Numbered' /\ Unseen' /\ StrandedForCause'
  BY <1>2, ReactStranded DEF Deliver
<1>3. ASSUME NEW r \in Requests, LoseReply(r) PROVE Numbered' /\ Unseen' /\ StrandedForCause'
  BY <1>3, ReactStranded DEF LoseReply
<1>4. ASSUME NEW r \in Requests,
             \/ r \in Calls /\ StartCall(r)
             \/ r = Provider /\ \E what \in Kinds : StartProvider(what)
      PROVE  Numbered' /\ Unseen' /\ StrandedForCause'
  <2>1. /\ at' = [at EXCEPT ![r] = "sent"] /\ at[r] = "idle" /\ reply' = reply
        /\ sent' = Sending({r}, jar)
        /\ UNCHANGED <<jar, lastPair, keys, stranded>>
    BY <1>4 DEF StartCall, StartProvider, Goto
  <2>2. \A q \in Requests : \/ at'[q] = at[q] /\ sent'[q] = sent[q]
                            \/ at[q] = "idle" /\ sent'[q] = jar
    BY <2>1 DEF Sending, SInv, Inv, TypeOK
  <2> QED BY <2>1, <2>2, QuietStranded
<1>5. CASE \/ \E status \in {"active", "inactive"} : EditAccount(status)
           \/ DeleteAccount
           \/ \E n \in 1 .. lastPair :
                AccessExpires(n) \/ LastSecond(n) \/ RefreshExpires(n) \/ KeyLapses(n)
           \/ UNCHANGED vars
  <2>1. UNCHANGED <<jar, lastPair, reply, stranded, at, sent>> /\ keys' \subseteq keys
    BY <1>5 DEF EditAccount, DeleteAccount, WriteUser, AccessExpires, LastSecond, RefreshExpires,
       KeyLapses, vars
  <2> QED BY <2>1, QuietStranded
<1>6. CASE \/ \E c \in Calls : StartCall(c)
           \/ Boot \/ SignIn \/ SignOut
  BY <1>4, <1>6 DEF Boot, SignIn, SignOut, Kinds, Requests
<1> QED BY <1>1, <1>2, <1>3, <1>5, <1>6 DEF Next, Faulty

\* The cookies hold a used-up token only while the answer that replaces them is under way,
\* or after it was lost.
THEOREM NobodyIsStranded == Spec => []StrandedForCause
<1>1. SInv /\ [Next]_vars => SInv' BY StrandedStep
<1>2. SInv => StrandedForCause BY DEF SInv
<1> QED BY <1>1, <1>2, InitSInv, PTL DEF Spec

=============================================================================
