----------------------------- MODULE RealtimeProof -----------------------------
(***************************************************************************)
(* Proofs about Realtime, for any finite number of attempts and any number *)
(* of feeds, users and processes.                                          *)
(*                                                                         *)
(* Three arguments, which do not need each other.  On the browser's side:  *)
(* an open socket is the current one of its feed, so two open sockets of a *)
(* feed are the same.  On the server's side: every step of a handler       *)
(* changes a counter by as much as it changes the number of handlers in    *)
(* the phases that the counter stands for (Balanced); failures only make   *)
(* that number smaller.  What got past the limiter was compared with a     *)
(* counter that covered it.  In between: an event is on its way to a       *)
(* served socket in its process's inbox, and then among the sends.         *)
(***************************************************************************)
EXTENDS Realtime, FiniteSetTheorems, TLAPS

----------------------------------------------------------------------------
(* Types *)

LEMMA KeyTypes ==
    /\ Absent \in Key
    /\ \A key \in Key : Timed(key) \in Key /\ Timed(key).n = key.n
    /\ \A key \in Key : key.n \in Int /\ (key.life = "absent" => key.n = 0)
BY DEF Key, Absent, Timed

LEMMA AddType ==
    ASSUME NEW key \in Key, NEW d \in Int
    PROVE  Add(key, d) \in Key /\ Add(key, d).n = key.n + d
<1>1. key.n + d \in Int BY DEF Key, Absent
<1>2. (IF key.life = "absent" THEN "untimed" ELSE key.life) \in {"timed", "untimed"}
  BY DEF Key, Absent
<1> QED BY <1>1, <1>2 DEF Add, Key

LEMMA InitType == ASSUME Init PROVE TypeOK
BY RealtimeAssumption, KeyTypes DEF Init, TypeOK, Phases

LEMMA OwnerTypes ==
    ASSUME NEW s \in Sockets
    PROVE  FeedOf[s] \in Feeds /\ User(s) \in Users /\ HostOf[s] \in Hosts
BY RealtimeAssumption DEF User

LEMMA CounterTypes ==
    ASSUME TypeOK, NEW u \in Users, NEW d \in Int
    PROVE  /\ [userKey EXCEPT ![u] = Add(@, d)] \in [Users -> Key]
           /\ [userKey EXCEPT ![u] = Timed(@)] \in [Users -> Key]
           /\ [userKey EXCEPT ![u] = Absent] \in [Users -> Key]
           /\ Add(totalKey, d) \in Key /\ Timed(totalKey) \in Key
BY AddType, KeyTypes DEF TypeOK

LEMMA HandleType == ASSUME TypeOK, NEW s \in Sockets, Handle(s) PROVE TypeOK'
<1>0. FeedOf[s] \in Feeds /\ User(s) \in Users /\ HostOf[s] \in Hosts BY OwnerTypes
<1>a. /\ \A d \in Int : [userKey EXCEPT ![User(s)] = Add(@, d)] \in [Users -> Key]
      /\ [userKey EXCEPT ![User(s)] = Timed(@)] \in [Users -> Key]
      /\ \A d \in Int : Add(totalKey, d) \in Key
      /\ Timed(totalKey) \in Key
      /\ 1 \in Int /\ -1 \in Int
  BY <1>0, CounterTypes
<1> USE <1>0, <1>a DEF TypeOK, clientVars, counterVars, broadcastVars, boundVars, Goto, Unlock, Phases,
        UserPhases, TotalPhases
<1>1. CASE ConsumeTicket(s) BY <1>1 DEF ConsumeTicket
<1>2. CASE TakeUser(s) BY <1>2 DEF TakeUser
<1>3. CASE TakeTotal(s) BY <1>3 DEF TakeTotal
<1>4. CASE BackOutTotal(s) BY <1>4 DEF BackOutTotal
<1>5. CASE BackOutUser(s) BY <1>5 DEF BackOutUser
<1>6. CASE Reserve(s) BY <1>6 DEF Reserve
<1>7. CASE Accept(s) BY <1>7 DEF Accept
<1>8. CASE StartStream(s) BY <1>8 DEF StartStream
<1>9. CASE Leave(s) BY <1>9 DEF Leave
<1>10. CASE BeginRelease(s) BY <1>10 DEF BeginRelease
<1>11. CASE DropUser(s) BY <1>11 DEF DropUser
<1>12. CASE DropTotal(s) BY <1>12 DEF DropTotal
<1> QED
    BY <1>1, <1>2, <1>3, <1>4, <1>5, <1>6, <1>7, <1>8, <1>9, <1>10, <1>11, <1>12 DEF Handle

LEMMA ShutType ==
    ASSUME TypeOK, NEW s \in Sockets \cup {Nobody}
    PROVE  /\ Shut(s) \in [Sockets -> {"unused", "asking", "open", "shut"}]
           /\ \A t \in Sockets : Shut(s)[t] = IF t = s /\ browser[t] = "open" THEN "shut" ELSE browser[t]
BY RealtimeAssumption DEF Shut, TypeOK

LEMMA ClientType == ASSUME TypeOK, NEW s \in Sockets, Client(s) PROVE TypeOK'
<1>0. FeedOf[s] \in Feeds BY OwnerTypes
<1> USE <1>0 DEF TypeOK, clientVars, counterVars, broadcastVars, boundVars, GiveUp
<1>1. ASSUME NEW f \in Feeds, ConnectSocket(f, s) PROVE TypeOK'
  <2>1. current[f] \in Sockets \cup {Nobody} OBVIOUS
  <2>2. Shut(current[f]) \in [Sockets -> {"unused", "asking", "open", "shut"}] BY <2>1, ShutType
  <2> QED BY <1>1, <2>2 DEF ConnectSocket
<1>2. CASE TicketArrives(s)
  <2>1. "arrived" \in Phases BY DEF Phases
  <2> QED BY <1>2, <2>1 DEF TicketArrives
<1>3. CASE TicketRefused(s)
  <2>1. PICK unauthorized \in BOOLEAN : GiveUp(s, unauthorized) BY <1>3 DEF TicketRefused
  <2>2. current' \in [Feeds -> Sockets \cup {Nobody}] BY <2>1
  <2>3. armed' \in [Feeds -> BOOLEAN]
    <3>1. (~unauthorized) \in BOOLEAN OBVIOUS
    <3> QED BY <2>1, <3>1
  <2>4. browser' \in [Sockets -> {"unused", "asking", "open", "shut"}] BY <2>1
  <2> QED BY <1>3, <2>2, <2>3, <2>4 DEF TicketRefused
<1>4. CASE SocketCloses(s) BY <1>4 DEF SocketCloses
<1> QED BY <1>1, <1>2, <1>3, <1>4 DEF Client, RetryFires, Mount

LEMMA OtherType ==
    ASSUME TypeOK,
           \/ \E s \in Sockets : \/ TicketLapses(s) \/ SendTo(s) \/ CutOff(s)
                                \/ HandlerFails(s) \/ SendFails(s)
           \/ \E f \in Feeds : Unmount(f)
           \/ \E h \in Hosts : Broadcast(h) \/ LoopFails(h) \/ LoopSubscribes(h) \/ Crash(h)
           \/ KeyLapses \/ Publish \/ UNCHANGED vars
    PROVE  TypeOK'
<1> USE DEF TypeOK, clientVars, counterVars, broadcastVars, boundVars, Fault
<1>1. ASSUME NEW s \in Sockets,
             TicketLapses(s) \/ SendTo(s) \/ CutOff(s) \/ HandlerFails(s) \/ SendFails(s)
      PROVE  TypeOK'
  <2>0. HostOf[s] \in Hosts BY OwnerTypes
  <2>1. CASE TicketLapses(s) BY <2>1 DEF TicketLapses
  <2>2. CASE SendTo(s) BY <2>0, <2>2 DEF SendTo
  <2>3. CASE HandlerFails(s) BY <2>0, <2>3 DEF HandlerFails, Goto, Unlock, Phases
  <2>4. CASE SendFails(s) BY <2>0, <2>4 DEF SendFails
  <2>5. CASE CutOff(s) BY <2>0, <2>5 DEF CutOff, Goto, Unlock, Phases
  <2> QED BY <1>1, <2>1, <2>2, <2>3, <2>4, <2>5
<1>2. ASSUME NEW f \in Feeds, Unmount(f) PROVE TypeOK'
  <2>1. current[f] \in Sockets \cup {Nobody} OBVIOUS
  <2>2. Shut(current[f]) \in [Sockets -> {"unused", "asking", "open", "shut"}] BY <2>1, ShutType
  <2> QED BY <1>2, <2>2 DEF Unmount
<1>3. ASSUME NEW h \in Hosts, Broadcast(h) \/ LoopFails(h) \/ LoopSubscribes(h) \/ Crash(h)
      PROVE  TypeOK'
  <2>1. CASE Broadcast(h) BY <2>1 DEF Broadcast, Recipients
  <2>2. CASE LoopFails(h) BY <2>2 DEF LoopFails
  <2>3. CASE LoopSubscribes(h) BY <2>3 DEF LoopSubscribes
  <2>4. CASE Crash(h) BY <2>4 DEF Crash, Phases
  <2> QED BY <1>3, <2>1, <2>2, <2>3, <2>4
<1>4. CASE KeyLapses
  <2>1. \A u \in Users : [userKey EXCEPT ![u] = Absent] \in [Users -> Key] BY CounterTypes
  <2> QED BY <1>4, <2>1, KeyTypes DEF KeyLapses
<1>5. CASE Publish BY <1>5 DEF Publish, Served
<1>6. CASE UNCHANGED vars BY <1>6 DEF vars
<1> QED BY <1>1, <1>2, <1>3, <1>4, <1>5, <1>6

LEMMA TypeStep == ASSUME TypeOK, [Next]_vars PROVE TypeOK'
BY HandleType, ClientType, OtherType DEF Next

\* Every variable of the realtime model keeps its type.
THEOREM TypeCorrect == Spec => []TypeOK
BY InitType, TypeStep, PTL DEF Spec

----------------------------------------------------------------------------
(* The feed *)

\* What is open is current, and a feed with its timer set has nothing current.
FeedInv ==
    /\ \A s \in Sockets : browser[s] = "open" => current[FeedOf[s]] = s
    /\ \A f \in Feeds : current[f] # Nobody => FeedOf[current[f]] = f
    /\ RetryOnlyWhenDown

LEMMA InitFeed == ASSUME Init PROVE FeedInv
BY DEF Init, FeedInv, RetryOnlyWhenDown

\* The active socket is closed and another attempt, or none, becomes current.
LEMMA FeedReplaces ==
    ASSUME TypeOK, FeedInv, NEW f \in Feeds, NEW s \in Sockets \cup {Nobody},
           s # Nobody => FeedOf[s] = f,
           current' = [current EXCEPT ![f] = s], armed' = [armed EXCEPT ![f] = FALSE],
           \A t \in Sockets : browser'[t] = "open" => t # s /\ Shut(current[f])[t] = "open"
    PROVE  FeedInv'
<1> USE OwnerTypes DEF TypeOK
<1>1. ASSUME NEW t \in Sockets, browser'[t] = "open" PROVE current'[FeedOf[t]] = t
  <2>1. browser[t] = "open" /\ t # current[f] /\ t # s
    BY <1>1, ShutType
  <2>2. current[FeedOf[t]] = t BY <2>1 DEF FeedInv
  <2>3. FeedOf[t] # f BY <2>1, <2>2
  <2> QED BY <2>2, <2>3
<1>2. ASSUME NEW g \in Feeds, current'[g] # Nobody PROVE FeedOf[current'[g]] = g
  BY <1>2 DEF FeedInv
<1>3. RetryOnlyWhenDown' BY DEF FeedInv, RetryOnlyWhenDown
<1> QED BY <1>1, <1>2, <1>3 DEF FeedInv

LEMMA FeedGivesUp ==
    ASSUME TypeOK, FeedInv, NEW s \in Sockets, NEW unauthorized \in BOOLEAN,
           browser[s] \in {"asking", "open"}, GiveUp(s, unauthorized)
    PROVE  FeedInv'
<1> USE OwnerTypes DEF TypeOK, GiveUp, StillCurrent
<1>1. ASSUME NEW t \in Sockets, browser'[t] = "open" PROVE current'[FeedOf[t]] = t
  <2>1. t # s /\ current[FeedOf[t]] = t BY <1>1 DEF FeedInv
  <2> QED BY <2>1
<1>2. ASSUME NEW g \in Feeds, current'[g] # Nobody PROVE FeedOf[current'[g]] = g
  BY <1>2 DEF FeedInv
<1>3. ASSUME NEW g \in Feeds, armed'[g] PROVE current'[g] = Nobody
  <2>1. CASE current' = current /\ armed' = armed
    BY <1>3, <2>1 DEF FeedInv, RetryOnlyWhenDown
  <2>2. CASE current[FeedOf[s]] = s /\ g = FeedOf[s] BY <2>2
  <2>3. CASE current[FeedOf[s]] = s /\ g # FeedOf[s]
    BY <1>3, <2>3 DEF FeedInv, RetryOnlyWhenDown
  <2> QED BY <2>1, <2>2, <2>3
<1> QED BY <1>1, <1>2, <1>3 DEF FeedInv, RetryOnlyWhenDown

LEMMA FeedStep == ASSUME TypeOK, FeedInv, [Next]_vars PROVE FeedInv'
<1> USE DEF clientVars
<1>1. CASE UNCHANGED clientVars BY <1>1 DEF FeedInv, RetryOnlyWhenDown
<1>2. ASSUME NEW f \in Feeds, NEW s \in Sockets, ConnectSocket(f, s) PROVE FeedInv'
  <2>1. current[f] \in Sockets \cup {Nobody} /\ s # Nobody
    BY RealtimeAssumption DEF TypeOK
  <2>2. Shut(current[f]) \in [Sockets -> {"unused", "asking", "open", "shut"}]
    BY <2>1, ShutType
  <2>3. \A t \in Sockets : browser'[t] = "open" => t # s /\ Shut(current[f])[t] = "open"
    BY <1>2, <2>2 DEF ConnectSocket
  <2> QED BY <1>2, <2>3, FeedReplaces DEF ConnectSocket
<1>3. ASSUME NEW f \in Feeds, Unmount(f) PROVE FeedInv'
  <2>1. \A t \in Sockets : browser'[t] = "open" => t # Nobody /\ Shut(current[f])[t] = "open"
    BY <1>3, RealtimeAssumption DEF Unmount
  <2> QED BY <1>3, <2>1, FeedReplaces DEF Unmount
<1>4. ASSUME NEW s \in Sockets, TicketArrives(s) PROVE FeedInv'
  <2>1. \A t \in Sockets : browser'[t] = "open" => (t = s /\ StillCurrent(s)) \/ browser[t] = "open"
    BY <1>4 DEF TicketArrives, TypeOK
  <2> QED BY <1>4, <2>1 DEF TicketArrives, StillCurrent, FeedInv, RetryOnlyWhenDown
<1>5. ASSUME NEW s \in Sockets, TicketRefused(s) \/ SocketCloses(s) PROVE FeedInv'
  BY <1>5, FeedGivesUp DEF TicketRefused, SocketCloses
<1>6. ASSUME NEW s \in Sockets, \/ Handle(s) \/ TicketLapses(s) \/ SendTo(s) \/ CutOff(s)
                                \/ HandlerFails(s) \/ SendFails(s)
      PROVE  UNCHANGED clientVars
  <2>1. CASE Handle(s)
    BY <2>1 DEF Handle, ConsumeTicket, TakeUser, TakeTotal, BackOutTotal, BackOutUser, Reserve,
       Accept, StartStream, Leave, BeginRelease, DropUser, DropTotal
  <2>2. CASE TicketLapses(s) \/ SendTo(s) \/ CutOff(s) \/ HandlerFails(s) \/ SendFails(s)
    BY <2>2 DEF TicketLapses, SendTo, CutOff, HandlerFails, SendFails
  <2> QED BY <1>6, <2>1, <2>2
<1>7. CASE \/ \E h \in Hosts : Broadcast(h) \/ LoopFails(h) \/ LoopSubscribes(h) \/ Crash(h)
           \/ KeyLapses \/ Publish \/ UNCHANGED vars
  BY <1>1, <1>7 DEF Broadcast, LoopFails, LoopSubscribes, Crash, KeyLapses, Publish, vars
<1> QED BY <1>1, <1>2, <1>3, <1>4, <1>5, <1>6, <1>7 DEF Next, Client, RetryFires, Mount

\* A feed never has two open sockets, however mounts, retries and late tickets overlap.
THEOREM FeedHasOneSocket == Spec => []OneSocketPerFeed
<1>1. FeedInv => OneSocketPerFeed BY DEF FeedInv, OneSocketPerFeed
<1>2. TypeOK /\ FeedInv /\ [Next]_vars => FeedInv' BY FeedStep
<1> QED BY <1>1, <1>2, InitFeed, TypeCorrect, PTL DEF Spec

\* A retry timer never closes a connection that works.
THEOREM TimerNeedsNoSocket == Spec => []RetryOnlyWhenDown
<1>1. FeedInv => RetryOnlyWhenDown BY DEF FeedInv
<1>2. TypeOK /\ FeedInv /\ [Next]_vars => FeedInv' BY FeedStep
<1> QED BY <1>1, <1>2, InitFeed, TypeCorrect, PTL DEF Spec

----------------------------------------------------------------------------
(* Counting handlers *)

Count(h, T, S) == Cardinality({t \in T : h[t] \in S})
In(p, S) == IF p \in S THEN 1 ELSE 0
Of(u) == {s \in Sockets : User(s) = u}

LEMMA Counts ==
    ASSUME NEW h, NEW T \in SUBSET Sockets, NEW S
    PROVE  /\ IsFiniteSet({t \in T : h[t] \in S})
           /\ Count(h, T, S) \in Nat
<1>1. IsFiniteSet({t \in T : h[t] \in S}) BY RealtimeAssumption, FS_Subset
<1> QED BY <1>1, FS_CardinalityType DEF Count

LEMMA OneIn ==
    ASSUME NEW A, IsFiniteSet(A), NEW B, NEW x, B = A \cup {x}, x \notin A
    PROVE  Cardinality(B) = Cardinality(A) + 1
BY FS_AddElement

LEMMA OneOut ==
    ASSUME NEW A, IsFiniteSet(A), NEW B, NEW x, B = A \ {x}, x \in A
    PROVE  Cardinality(B) = Cardinality(A) - 1
BY FS_RemoveElement

\* A handler that changes its phase changes a count by what it leaves and what it enters.
\* The count of the phases S in T follows the handler s from h to g.
MovedBy(h, g, s, T, S) ==
    Count(g, T, S) = Count(h, T, S) + (IF s \in T THEN In(g[s], S) - In(h[s], S) ELSE 0)

LEMMA Moves ==
    ASSUME NEW h, NEW g, NEW s \in Sockets, NEW T \in SUBSET Sockets, NEW S,
           \A t \in Sockets \ {s} : g[t] = h[t]
    PROVE  MovedBy(h, g, s, T, S)
<1> USE DEF MovedBy
<1> DEFINE before == {t \in T : h[t] \in S}
           after == {t \in T : g[t] \in S}
<1>1. IsFiniteSet(before) /\ Cardinality(before) \in Nat
  <2>1. before \subseteq Sockets /\ IsFiniteSet(Sockets) BY RealtimeAssumption
  <2> HIDE DEF before
  <2> QED BY <2>1, FS_Subset, FS_CardinalityType
<1>a. Count(h, T, S) = Cardinality(before) /\ Count(g, T, S) = Cardinality(after) BY DEF Count
<1>2. CASE s \in T /\ g[s] \in S /\ h[s] \notin S
  <2>1. after = before \cup {s} /\ s \notin before BY <1>2
  <2>2. Cardinality(after) = Cardinality(before) + 1 BY <1>1, <2>1, OneIn
  <2> QED BY <1>1, <1>2, <1>a, <2>2 DEF In
<1>3. CASE s \in T /\ g[s] \notin S /\ h[s] \in S
  <2>1. after = before \ {s} /\ s \in before BY <1>3
  <2>2. Cardinality(after) = Cardinality(before) - 1 BY <1>1, <2>1, OneOut
  <2> QED BY <1>1, <1>3, <1>a, <2>2 DEF In
<1>4. CASE s \notin T \/ (g[s] \in S <=> h[s] \in S)
  <2>1. after = before BY <1>4
  <2> QED BY <1>1, <1>4, <1>a, <2>1 DEF In
<1> QED BY <1>2, <1>3, <1>4, Zenon

\* Fewer handlers in a set of phases, or a smaller set of phases, count less.
LEMMA CountsLess ==
    ASSUME NEW h, NEW g, NEW T \in SUBSET Sockets, NEW S, NEW R,
           \A t \in T : g[t] \in R => h[t] \in S
    PROVE  Count(g, T, R) <= Count(h, T, S)
<1>1. {t \in T : g[t] \in R} \in SUBSET {t \in T : h[t] \in S} OBVIOUS
<1>2. IsFiniteSet({t \in T : h[t] \in S}) BY Counts
<1> QED BY <1>1, <1>2, FS_Subset DEF Count

----------------------------------------------------------------------------
(* Counters and caps *)

UserPassed == UserPhases \ {"backingUser"}
TotalPassed == TotalPhases \ {"backingTotal"}

\* A handler exists only for a ticket that was answered.
Unserved == \A s \in Sockets : browser[s] \in {"unused", "asking"} => handler[s] = "none"

Counted ==
    /\ \A u \in Users : userKey[u].n >= Count(handler, Of(u), UserPhases)
    /\ totalKey.n >= Count(handler, Sockets, TotalPhases)
    /\ faults = 0 /\ cutOff = {} =>
         /\ \A u \in Users : userKey[u].n = Count(handler, Of(u), UserPhases)
         /\ totalKey.n = Count(handler, Sockets, TotalPhases)

Capped ==
    /\ \A u \in Users : Count(handler, Of(u), UserPassed) <= UserCap
    /\ Count(handler, Sockets, TotalPassed) <= TotalCap

CInv == TypeOK /\ Unserved /\ (lapses = 0 => Counted /\ Capped)

LEMMA InitCounters == ASSUME Init PROVE CInv
<1>1. TypeOK BY InitType
<1>2. Unserved BY DEF Init, Unserved
<1>3. ASSUME NEW T \in SUBSET Sockets, NEW S, "none" \notin S PROVE Count(handler, T, S) = 0
  <2>1. {t \in T : handler[t] \in S} = {} BY <1>3 DEF Init
  <2> QED BY <2>1, FS_EmptySet DEF Count
<1>4. \A u \in Users : Of(u) \in SUBSET Sockets BY DEF Of
<1>5. \A S \in {UserPhases, TotalPhases, UserPassed, TotalPassed} : "none" \notin S
  BY DEF UserPhases, TotalPhases, UserPassed, TotalPassed
<1>6. Counted BY <1>3, <1>4, <1>5 DEF Counted, Init, Absent
<1>7. Capped BY <1>3, <1>4, <1>5, RealtimeAssumption DEF Capped
<1> QED BY <1>1, <1>2, <1>6, <1>7 DEF CInv

\* A step of one handler that moves each counter as it moves the count that it covers, and
\* passes the limiter only under the cap.
Balanced(s, p) ==
    /\ handler' = [handler EXCEPT ![s] = p]
    /\ \A u \in Users \ {User(s)} : userKey'[u].n = userKey[u].n
    /\ userKey'[User(s)].n = userKey[User(s)].n + (In(p, UserPhases) - In(handler[s], UserPhases))
    /\ totalKey'.n = totalKey.n + (In(p, TotalPhases) - In(handler[s], TotalPhases))
    /\ p \in UserPassed => handler[s] \in UserPassed \/ userKey'[User(s)].n <= UserCap
    /\ p \in TotalPassed => handler[s] \in TotalPassed \/ totalKey'.n <= TotalCap
    /\ faults' = faults /\ cutOff' = cutOff

LEMMA BalancedKeeps ==
    ASSUME TypeOK, TypeOK', Counted, Capped, NEW s \in Sockets, NEW p \in Phases, Balanced(s, p)
    PROVE  Counted' /\ Capped'
<1>0. /\ handler \in [Sockets -> Phases] /\ Sockets \in SUBSET Sockets
      /\ \A u \in Users : Of(u) \in SUBSET Sockets /\ (s \in Of(u) <=> u = User(s))
      /\ User(s) \in Users
      /\ \A u \in Users : userKey[u].n \in Int /\ userKey'[u].n \in Int
      /\ totalKey.n \in Int /\ totalKey'.n \in Int
      /\ handler'[s] = p /\ \A t \in Sockets \ {s} : handler'[t] = handler[t]
      /\ UserCap \in Nat /\ TotalCap \in Nat
  BY OwnerTypes, KeyTypes, RealtimeAssumption DEF TypeOK, Of, Balanced
<1>1. ASSUME NEW u \in Users, NEW S
      PROVE  /\ Count(handler', Of(u), S) = Count(handler, Of(u), S)
                  + (IF u = User(s) THEN In(p, S) - In(handler[s], S) ELSE 0)
             /\ Count(handler, Of(u), S) \in Nat
  <2>1. Of(u) \in SUBSET Sockets /\ (s \in Of(u) <=> u = User(s)) BY <1>0
  <2>3. Count(handler, Of(u), S) \in Nat BY <2>1, Counts
  <2>4. Count(handler', Of(u), S) = Count(handler, Of(u), S)
            + (IF s \in Of(u) THEN In(p, S) - In(handler[s], S) ELSE 0)
    BY <1>0, <2>1, Moves DEF MovedBy
  <2> QED BY <2>1, <2>3, <2>4
<1>2. ASSUME NEW S
      PROVE  /\ Count(handler', Sockets, S) = Count(handler, Sockets, S) + (In(p, S) - In(handler[s], S))
             /\ Count(handler, Sockets, S) \in Nat
  <2>1. PICK T \in SUBSET Sockets : T = Sockets OBVIOUS
  <2>2. Count(handler, T, S) \in Nat BY <2>1, Counts
  <2>3. Count(handler', T, S) = Count(handler, T, S)
            + (IF s \in T THEN In(handler'[s], S) - In(handler[s], S) ELSE 0)
    <3>1. \A t \in Sockets \ {s} : handler'[t] = handler[t] BY <1>0
    <3>2. MovedBy(handler, handler', s, T, S) BY <3>1, Moves, Zenon
    <3> QED BY <3>2 DEF MovedBy
  <2>4. s \in T /\ handler'[s] = p BY <1>0, <2>1
  <2> QED BY <2>1, <2>2, <2>3, <2>4
<1>3. Counted'
  <2>0. PICK du \in Int, dt \in Int :
          /\ du = In(p, UserPhases) - In(handler[s], UserPhases)
          /\ dt = In(p, TotalPhases) - In(handler[s], TotalPhases)
    BY DEF In
  <2>1. ASSUME NEW u \in Users
        PROVE  userKey'[u].n - Count(handler', Of(u), UserPhases)
                 = userKey[u].n - Count(handler, Of(u), UserPhases)
    <3>0. /\ Count(handler', Of(u), UserPhases) = Count(handler, Of(u), UserPhases)
                 + (IF u = User(s) THEN du ELSE 0)
          /\ Count(handler, Of(u), UserPhases) \in Int
          /\ userKey'[u].n \in Int /\ userKey[u].n \in Int
      BY <1>0, <1>1, <2>0
    <3>1. userKey'[u].n = userKey[u].n + (IF u = User(s) THEN du ELSE 0)
      BY <1>0, <2>0 DEF Balanced
    <3> QED BY <3>0, <3>1
  <2>2. totalKey'.n - Count(handler', Sockets, TotalPhases)
          = totalKey.n - Count(handler, Sockets, TotalPhases)
    <3>0. /\ Count(handler', Sockets, TotalPhases) = Count(handler, Sockets, TotalPhases) + dt
          /\ Count(handler, Sockets, TotalPhases) \in Int
      BY <1>2, <2>0
    <3>1. totalKey'.n = totalKey.n + dt /\ totalKey.n \in Int BY <1>0, <2>0 DEF Balanced
    <3> QED BY <3>0, <3>1
  <2>3. /\ \A u \in Users : Count(handler', Of(u), UserPhases) \in Int
        /\ \A u \in Users : Count(handler, Of(u), UserPhases) \in Int
        /\ Count(handler', Sockets, TotalPhases) \in Int /\ Count(handler, Sockets, TotalPhases) \in Int
    <3>1. PICK T \in SUBSET Sockets : T = Sockets OBVIOUS
    <3>2. Count(handler', T, TotalPhases) \in Nat BY Counts
    <3>3. Count(handler, T, TotalPhases) \in Nat BY Counts
    <3>4. ASSUME NEW u \in Users
          PROVE  Count(handler', Of(u), UserPhases) \in Int /\ Count(handler, Of(u), UserPhases) \in Int
      <4>1. Of(u) \in SUBSET Sockets BY <1>0
      <4>2. Count(handler', Of(u), UserPhases) \in Nat BY <4>1, Counts
      <4>3. Count(handler, Of(u), UserPhases) \in Nat BY <4>1, Counts
      <4> QED BY <4>2, <4>3
    <3>5. /\ Count(handler', Sockets, TotalPhases) \in Int
          /\ Count(handler, Sockets, TotalPhases) \in Int
      BY <3>1, <3>2, <3>3
    <3> QED BY <3>4, <3>5
  <2>4. \A u \in Users : userKey'[u].n >= Count(handler', Of(u), UserPhases)
    BY <1>0, <2>1, <2>3 DEF Counted
  <2>5. totalKey'.n >= Count(handler', Sockets, TotalPhases)
    BY <1>0, <2>2, <2>3 DEF Counted
  <2>6. ASSUME faults' = 0, cutOff' = {}
        PROVE  /\ \A u \in Users : userKey'[u].n = Count(handler', Of(u), UserPhases)
               /\ totalKey'.n = Count(handler', Sockets, TotalPhases)
    <3>1. faults = 0 /\ cutOff = {} BY <2>6 DEF Balanced
    <3>2. totalKey.n = Count(handler, Sockets, TotalPhases) BY <3>1 DEF Counted
    <3>3. totalKey'.n = Count(handler', Sockets, TotalPhases) BY <1>0, <2>2, <2>3, <3>2
    <3>4. ASSUME NEW u \in Users PROVE userKey'[u].n = Count(handler', Of(u), UserPhases)
      <4>1. userKey[u].n = Count(handler, Of(u), UserPhases) BY <3>1 DEF Counted
      <4>2. PICK a \in Int, b \in Int, c \in Int, d \in Int :
              /\ a = userKey'[u].n /\ b = Count(handler', Of(u), UserPhases)
              /\ c = userKey[u].n /\ d = Count(handler, Of(u), UserPhases)
        BY <1>0, <2>3
      <4>3. a - b = c - d BY <2>1, <4>2
      <4>4. c = d BY <4>1, <4>2
      <4>5. a = b BY <4>3, <4>4
      <4> QED BY <4>2, <4>5
    <3> QED BY <3>3, <3>4
  <2> QED BY <2>4, <2>5, <2>6 DEF Counted
<1>4. ASSUME NEW u \in Users PROVE Count(handler', Of(u), UserPassed) <= UserCap
  <2>1. CASE u # User(s) \/ p \notin UserPassed \/ handler[s] \in UserPassed
    BY <1>0, <1>1, <2>1 DEF Capped, In
  <2>2. CASE u = User(s) /\ p \in UserPassed /\ handler[s] \notin UserPassed
    <3>1. Count(handler', Of(u), UserPassed) <= Count(handler', Of(u), UserPhases)
      BY <1>0, CountsLess DEF UserPassed
    <3>2. Count(handler', Of(u), UserPhases) <= userKey'[u].n BY <1>3 DEF Counted
    <3>3. userKey'[u].n <= UserCap BY <2>2 DEF Balanced
    <3>4. Count(handler', Of(u), UserPassed) \in Nat /\ Count(handler', Of(u), UserPhases) \in Nat
      BY <1>0, Counts
    <3> QED BY <1>0, <3>1, <3>2, <3>3, <3>4
  <2> QED BY <2>1, <2>2
<1>5. Count(handler', Sockets, TotalPassed) <= TotalCap
  <2>1. CASE p \notin TotalPassed \/ handler[s] \in TotalPassed
    BY <1>0, <1>2, <2>1 DEF Capped, In
  <2>2. CASE p \in TotalPassed /\ handler[s] \notin TotalPassed
    <3>1. Count(handler', Sockets, TotalPassed) <= Count(handler', Sockets, TotalPhases)
      BY <1>0, CountsLess DEF TotalPassed
    <3>2. Count(handler', Sockets, TotalPhases) <= totalKey'.n BY <1>3 DEF Counted
    <3>3. totalKey'.n <= TotalCap BY <2>2 DEF Balanced
    <3>4. Count(handler', Sockets, TotalPassed) \in Nat /\ Count(handler', Sockets, TotalPhases) \in Nat
      BY <1>0, Counts
    <3> QED BY <1>0, <3>1, <3>2, <3>3, <3>4
  <2> QED BY <2>1, <2>2
<1> QED BY <1>3, <1>4, <1>5 DEF Capped

\* A failure, or a cancellation, ends handlers and leaves the counters too high.
LEMMA FailureKeeps ==
    ASSUME TypeOK, TypeOK', Counted, Capped, UNCHANGED counterVars, faults' # 0 \/ cutOff' # {},
           \A t \in Sockets : handler'[t] = handler[t] \/ handler'[t] = "closed"
    PROVE  Counted' /\ Capped'
<1>0. /\ \A u \in Users : Of(u) \in SUBSET Sockets
      /\ \A u \in Users : userKey[u].n \in Int
      /\ totalKey.n \in Int /\ userKey' = userKey /\ totalKey' = totalKey
      /\ UserCap \in Nat /\ TotalCap \in Nat
  BY KeyTypes, RealtimeAssumption DEF TypeOK, Of, counterVars
<1>1. ASSUME NEW T \in SUBSET Sockets, NEW S, "closed" \notin S
      PROVE  /\ Count(handler', T, S) <= Count(handler, T, S)
             /\ Count(handler', T, S) \in Nat /\ Count(handler, T, S) \in Nat
  BY <1>1, CountsLess, Counts
<1>2. \A S \in {UserPhases, TotalPhases, UserPassed, TotalPassed} : "closed" \notin S
  BY DEF UserPhases, TotalPhases, UserPassed, TotalPassed
<1>3. /\ \A u \in Users : userKey'[u].n >= Count(handler', Of(u), UserPhases)
      /\ totalKey'.n >= Count(handler', Sockets, TotalPhases)
  BY <1>0, <1>1, <1>2 DEF Counted
<1>4. /\ \A u \in Users : Count(handler', Of(u), UserPassed) <= UserCap
      /\ Count(handler', Sockets, TotalPassed) <= TotalCap
  BY <1>0, <1>1, <1>2 DEF Capped
<1> QED BY <1>3, <1>4 DEF Counted, Capped

LEMMA QuietKeeps ==
    ASSUME Counted, Capped, handler' = handler, UNCHANGED counterVars,
           faults' = 0 /\ cutOff' = {} => faults = 0 /\ cutOff = {}
    PROVE  Counted' /\ Capped'
BY DEF Counted, Capped, counterVars

LEMMA CountPositive ==
    ASSUME NEW h, NEW T \in SUBSET Sockets, NEW S, NEW t \in T, h[t] \in S
    PROVE  Count(h, T, S) # 0
<1>1. IsFiniteSet({r \in T : h[r] \in S}) BY Counts
<1>2. {r \in T : h[r] \in S} # {} OBVIOUS
<1> QED BY <1>1, <1>2, FS_EmptySet DEF Count

\* A key that is not there counts nobody.
LEMMA NobodyUncounted ==
    ASSUME TypeOK, Counted, NEW s \in Sockets, handler[s] \in UserPhases
    PROVE  userKey[User(s)].life # "absent"
<1>1. SUFFICES ASSUME userKey[User(s)].life = "absent" PROVE FALSE OBVIOUS
<1>2. User(s) \in Users /\ userKey[User(s)] \in Key BY OwnerTypes DEF TypeOK
<1>3. userKey[User(s)].n = 0 BY <1>1, <1>2 DEF Key, Absent
<1>4. Of(User(s)) \in SUBSET Sockets /\ s \in Of(User(s)) BY DEF Of
<1>5. Count(handler, Of(User(s)), UserPhases) \in Nat BY <1>4, Counts
<1>6. Count(handler, Of(User(s)), UserPhases) # 0 BY <1>4, CountPositive
<1>7. userKey[User(s)].n >= Count(handler, Of(User(s)), UserPhases) BY <1>2 DEF Counted
<1> QED BY <1>3, <1>5, <1>6, <1>7

LEMMA HandleBalances ==
    ASSUME TypeOK, Counted, NEW s \in Sockets, Handle(s)
    PROVE  (\E p \in Phases : Balanced(s, p)) /\ lapses' = lapses
<1>0. /\ User(s) \in Users /\ \A u \in Users : userKey[u].n \in Int
      /\ totalKey.n \in Int /\ handler[s] \in Phases
      /\ DOMAIN userKey = Users /\ DOMAIN handler = Sockets
      /\ UserCap \in Nat /\ TotalCap \in Nat
  BY OwnerTypes, KeyTypes, RealtimeAssumption DEF TypeOK
<1> USE DEF Balanced, In, Phases, UserPhases, TotalPhases, UserPassed, TotalPassed, Goto,
            counterVars, boundVars
<1>1. CASE ConsumeTicket(s) \/ Reserve(s) \/ Accept(s) \/ StartStream(s) \/ Leave(s)
  <2>1. PICK p \in {"ticketed", "closed", "held", "serving", "leaving"} :
          handler' = [handler EXCEPT ![s] = p]
    BY <1>1 DEF ConsumeTicket, Reserve, Accept, StartStream, Leave
  <2>2. totalKey'.n = totalKey.n /\ userKey' = userKey /\ UNCHANGED boundVars
    <3>1. Timed(totalKey).n = totalKey.n BY KeyTypes DEF TypeOK
    <3> QED BY <1>1, <3>1 DEF ConsumeTicket, Reserve, Accept, StartStream, Leave
  <2>3. handler'[s] = p BY <1>0, <2>1
  <2>4. \/ p \in {"ticketed", "closed"} /\ handler[s] = "arrived"
        \/ p = "held" /\ handler[s] = "totalTaken"
        \/ p = "serving" /\ handler[s] = "held"
        \/ p = "leaving" /\ handler[s] = "serving"
    BY <1>0, <1>1, <2>3 DEF ConsumeTicket, Reserve, Accept, StartStream, Leave
  <2>5. Balanced(s, p) BY <1>0, <2>1, <2>2, <2>4
  <2> QED BY <2>2, <2>5
<1>2. CASE TakeUser(s)
  <2>1. userKey'[User(s)].n = userKey[User(s)].n + 1 /\ totalKey' = totalKey
    BY <1>0, <1>2 DEF TakeUser, Add
  <2>2. \A u \in Users \ {User(s)} : userKey'[u].n = userKey[u].n
    BY <1>0, <1>2 DEF TakeUser
  <2>3. CASE userKey[User(s)].n + 1 > UserCap
    <3>1. handler' = [handler EXCEPT ![s] = "backingUser"] /\ handler[s] = "ticketed"
          /\ UNCHANGED boundVars
      BY <1>2, <2>3 DEF TakeUser, OverCap
    <3>2. Balanced(s, "backingUser") BY <1>0, <2>1, <2>2, <2>3, <3>1
    <3>3. "backingUser" \in Phases /\ lapses' = lapses BY <3>1
    <3> HIDE DEF Balanced, Phases
    <3> QED BY <3>2, <3>3
  <2>4. CASE ~(userKey[User(s)].n + 1 > UserCap)
    <3>1. handler' = [handler EXCEPT ![s] = "userTaken"] /\ handler[s] = "ticketed"
          /\ UNCHANGED boundVars
      BY <1>2, <2>4 DEF TakeUser, OverCap
    <3>2. Balanced(s, "userTaken") BY <1>0, <2>1, <2>2, <2>4, <3>1
    <3>3. "userTaken" \in Phases /\ lapses' = lapses BY <3>1
    <3> HIDE DEF Balanced, Phases
    <3> QED BY <3>2, <3>3
  <2> QED BY <2>3, <2>4
<1>3. CASE TakeTotal(s)
  <2>1. totalKey'.n = totalKey.n + 1 BY <1>0, <1>3 DEF TakeTotal, Add
  <2>2. \A u \in Users : userKey'[u].n = userKey[u].n
    <3>1. \A u \in Users : Timed(userKey[u]).n = userKey[u].n BY KeyTypes DEF TypeOK
    <3> QED BY <1>0, <1>3, <3>1 DEF TakeTotal
  <2>3. CASE totalKey.n + 1 > TotalCap
    <3>1. handler' = [handler EXCEPT ![s] = "backingTotal"] /\ handler[s] = "userTaken"
          /\ UNCHANGED boundVars
      BY <1>3, <2>3 DEF TakeTotal, OverCap
    <3>2. Balanced(s, "backingTotal") BY <1>0, <2>1, <2>2, <2>3, <3>1
    <3>3. "backingTotal" \in Phases /\ lapses' = lapses BY <3>1
    <3> HIDE DEF Balanced, Phases
    <3> QED BY <3>2, <3>3
  <2>4. CASE ~(totalKey.n + 1 > TotalCap)
    <3>1. handler' = [handler EXCEPT ![s] = "totalTaken"] /\ handler[s] = "userTaken"
          /\ UNCHANGED boundVars
      BY <1>3, <2>4 DEF TakeTotal, OverCap
    <3>2. Balanced(s, "totalTaken") BY <1>0, <2>1, <2>2, <2>4, <3>1
    <3>3. "totalTaken" \in Phases /\ lapses' = lapses BY <3>1
    <3> HIDE DEF Balanced, Phases
    <3> QED BY <3>2, <3>3
  <2> QED BY <2>3, <2>4
<1>4. CASE BackOutTotal(s)
  <2>1. Balanced(s, "backingUser") BY <1>0, <1>4 DEF BackOutTotal, Add
  <2> QED BY <1>4, <2>1 DEF BackOutTotal
<1>5. CASE BackOutUser(s)
  <2>1. Balanced(s, "closed") BY <1>0, <1>5 DEF BackOutUser, Add
  <2> QED BY <1>5, <2>1 DEF BackOutUser
<1>6. CASE BeginRelease(s)
  <2>1. userKey[User(s)].life # "absent" BY <1>6, NobodyUncounted DEF BeginRelease
  <2>2. Balanced(s, "dropUser") BY <1>0, <1>6, <2>1 DEF BeginRelease
  <2> QED BY <1>6, <2>2 DEF BeginRelease
<1>7. CASE DropUser(s)
  <2>1. Balanced(s, "dropTotal") BY <1>0, <1>7 DEF DropUser, Add
  <2> QED BY <1>7, <2>1 DEF DropUser
<1>8. CASE DropTotal(s)
  <2>1. Balanced(s, "closed") BY <1>0, <1>8 DEF DropTotal, Add
  <2> QED BY <1>8, <2>1 DEF DropTotal
<1> QED BY ONLY Handle(s), <1>1, <1>2, <1>3, <1>4, <1>5, <1>6, <1>7, <1>8 DEF Handle

LEMMA UnservedStep == ASSUME TypeOK, Unserved, [Next]_vars PROVE Unserved'
<1> USE OwnerTypes DEF TypeOK, Unserved, clientVars, Goto
<1>1. CASE UNCHANGED <<browser, handler>> BY <1>1
<1>2. ASSUME NEW f \in Feeds, NEW s \in Sockets, ConnectSocket(f, s) PROVE Unserved'
  <2>1. /\ current[f] \in Sockets \cup {Nobody}
        /\ Shut(current[f]) \in [Sockets -> {"unused", "asking", "open", "shut"}]
    BY ShutType
  <2>2. \A t \in Sockets : Shut(current[f])[t] \in {"unused", "asking"} => browser[t] \in {"unused", "asking"}
    BY <2>1 DEF Shut
  <2> QED BY <1>2, <2>1, <2>2 DEF ConnectSocket
<1>3. ASSUME NEW f \in Feeds, Unmount(f) PROVE Unserved'
  <2>1. current[f] \in Sockets \cup {Nobody} OBVIOUS
  <2>2. \A t \in Sockets : Shut(current[f])[t] \in {"unused", "asking"} => browser[t] \in {"unused", "asking"}
    BY <2>1 DEF Shut
  <2> QED BY <1>3, <2>2 DEF Unmount
<1>4. ASSUME NEW s \in Sockets, TicketArrives(s) PROVE Unserved'
  BY <1>4 DEF TicketArrives
<1>5. ASSUME NEW s \in Sockets, TicketRefused(s) \/ SocketCloses(s) PROVE Unserved'
  BY <1>5 DEF TicketRefused, SocketCloses, GiveUp
<1>6. ASSUME NEW s \in Sockets, Handle(s) PROVE Unserved'
  <2>1. browser' = browser /\ handler[s] # "none" /\ \E p : handler' = [handler EXCEPT ![s] = p]
    BY <1>6 DEF Handle, ConsumeTicket, TakeUser, TakeTotal, BackOutTotal, BackOutUser, Reserve,
       Accept, StartStream, Leave, BeginRelease, DropUser, DropTotal
  <2> QED BY <2>1
<1>7. ASSUME NEW s \in Sockets, CutOff(s) \/ HandlerFails(s) PROVE Unserved'
  BY <1>7 DEF CutOff, HandlerFails
<1>8. ASSUME NEW h \in Hosts, Crash(h) PROVE Unserved'
  BY <1>8 DEF Crash
<1>9. ASSUME \/ \E s \in Sockets : TicketLapses(s) \/ SendTo(s) \/ SendFails(s)
             \/ \E h \in Hosts : Broadcast(h) \/ LoopFails(h) \/ LoopSubscribes(h)
             \/ KeyLapses \/ Publish \/ UNCHANGED vars
      PROVE  UNCHANGED <<browser, handler>>
  BY <1>9 DEF TicketLapses, SendTo, SendFails, Broadcast, LoopFails, LoopSubscribes, KeyLapses,
     Publish, vars
<1> HIDE DEF Unserved, TypeOK
<1> QED BY <1>1, <1>2, <1>3, <1>4, <1>5, <1>6, <1>7, <1>8, <1>9 DEF Next, Client, RetryFires, Mount

LEMMA CountersStep == ASSUME CInv, [Next]_vars PROVE CInv'
<1>1. TypeOK /\ Unserved /\ TypeOK' /\ Unserved' BY TypeStep, UnservedStep DEF CInv
<1> SUFFICES ASSUME lapses' = 0 PROVE Counted' /\ Capped' BY <1>1 DEF CInv
<1>2. lapses \in Nat /\ faults \in Nat /\ (lapses = 0 => Counted /\ Capped)
  BY <1>1 DEF TypeOK, CInv
<1>3. ASSUME NEW s \in Sockets, Handle(s) PROVE Counted' /\ Capped'
  <2>1. lapses' = lapses
    BY <1>3 DEF Handle, ConsumeTicket, TakeUser, TakeTotal, BackOutTotal, BackOutUser, Reserve,
       Accept, StartStream, Leave, BeginRelease, DropUser, DropTotal, boundVars
  <2>2. Counted /\ Capped BY <1>2, <2>1
  <2>3. PICK p \in Phases : Balanced(s, p) BY <1>1, <1>3, <2>2, HandleBalances
  <2> QED BY <1>1, <2>2, <2>3, BalancedKeeps
<1>4. ASSUME NEW s \in Sockets, TicketArrives(s) PROVE Counted' /\ Capped'
  <2>1. Counted /\ Capped /\ UNCHANGED counterVars /\ UNCHANGED <<faults, cutOff>>
    BY <1>2, <1>4 DEF TicketArrives, boundVars
  <2>2. CASE StillCurrent(s)
    <3>1. handler[s] = "none" /\ User(s) \in Users /\ \A u \in Users : userKey[u].n \in Int
      BY <1>1, <1>4, OwnerTypes, KeyTypes DEF TicketArrives, Unserved, TypeOK
    <3>2. "arrived" \in Phases BY DEF Phases
    <3>3. totalKey.n \in Int BY <1>1, KeyTypes DEF TypeOK
    <3>4. Balanced(s, "arrived")
      BY <1>4, <2>1, <2>2, <3>1, <3>3
      DEF TicketArrives, Balanced, In, UserPhases, TotalPhases, UserPassed, TotalPassed, counterVars
    <3> QED BY <1>1, <2>1, <3>2, <3>4, BalancedKeeps
  <2>3. CASE ~StillCurrent(s) BY <1>4, <2>1, <2>3, QuietKeeps DEF TicketArrives
  <2> QED BY <2>2, <2>3
<1>5. ASSUME \/ \E s \in Sockets : CutOff(s) \/ HandlerFails(s)
             \/ \E h \in Hosts : Crash(h)
      PROVE  Counted' /\ Capped'
  <2>1. Counted /\ Capped /\ UNCHANGED counterVars /\ (faults' # 0 \/ cutOff' # {})
    <3>1. CASE \E s \in Sockets : CutOff(s)
      <4>1. /\ lapses' = lapses /\ UNCHANGED counterVars
            /\ \E s \in Sockets : cutOff' = cutOff \cup {s}
        BY <3>1 DEF CutOff
      <4> QED BY <1>2, <4>1
    <3>2. CASE \/ \E s \in Sockets : HandlerFails(s)
               \/ \E h \in Hosts : Crash(h)
      <4>1. lapses' = lapses /\ UNCHANGED counterVars /\ faults' = faults + 1
        BY <3>2 DEF HandlerFails, Crash, Fault
      <4> QED BY <1>2, <4>1
    <3> QED BY <1>5, <3>1, <3>2
  <2>2. \A t \in Sockets : handler'[t] = handler[t] \/ handler'[t] = "closed"
    BY <1>1, <1>5 DEF CutOff, HandlerFails, Crash, Goto, TypeOK
  <2> QED BY <1>1, <2>1, <2>2, FailureKeeps
<1>6. ASSUME \/ \E s \in Sockets : \/ \E f \in Feeds : RetryFires(f, s) \/ Mount(f, s)
                                   \/ TicketRefused(s) \/ SocketCloses(s) \/ TicketLapses(s) \/ SendTo(s)
             \/ \E f \in Feeds : Unmount(f)
             \/ \E h \in Hosts : Broadcast(h) \/ LoopSubscribes(h)
             \/ Publish \/ UNCHANGED vars
      PROVE  Counted' /\ Capped'
  <2>1. UNCHANGED <<handler, userKey, totalKey, cutOff, lapses, faults>>
    BY <1>6 DEF RetryFires, Mount, ConnectSocket, TicketRefused, SocketCloses, TicketLapses, SendTo,
       Unmount, Broadcast, LoopSubscribes, Publish, vars, counterVars, boundVars
  <2> QED BY <1>2, <2>1, QuietKeeps DEF counterVars
<1>7. ASSUME \/ \E s \in Sockets : SendFails(s)
             \/ \E h \in Hosts : LoopFails(h)
      PROVE  Counted' /\ Capped'
  <2>1. UNCHANGED <<handler, userKey, totalKey, lapses>> /\ faults' # 0
    BY <1>2, <1>7 DEF SendFails, LoopFails, Fault, counterVars
  <2> QED BY <1>2, <2>1, QuietKeeps DEF counterVars
<1>8. ~KeyLapses BY <1>2 DEF KeyLapses
<1> QED BY <1>3, <1>4, <1>5, <1>6, <1>7, <1>8 DEF Next, Client

LEMMA CountersHold == Spec => []CInv
<1> QED BY InitCounters, CountersStep, PTL DEF Spec

\* Until a counter key runs out, the counters never fall below the reservations that
\* handlers hold, and while nothing failed and no stream was cut off they equal them: for any number of feeds,
\* users, processes and attempts, and any caps.
THEOREM CountersCover == Spec => []CountersCoverReservations
<1>1. ASSUME CInv PROVE CountersCoverReservations
  <2>1. \A u \in Users : Cardinality(UserHolders(u)) = Count(handler, Of(u), UserPhases)
    <3>1. ASSUME NEW u \in Users PROVE UserHolders(u) = {s \in Of(u) : handler[s] \in UserPhases}
      BY DEF UserHolders, Of
    <3> QED BY <3>1 DEF Count
  <2>2. Cardinality(TotalHolders) = Count(handler, Sockets, TotalPhases) BY DEF TotalHolders, Count
  <2> QED BY <1>1, <2>1, <2>2 DEF CInv, Counted, CountersCoverReservations
<1> QED BY <1>1, CountersHold, PTL

\* So no more connections than the caps allow are past the limiter, per user and in total.
THEOREM CapsAlwaysHold == Spec => []CapsHold
<1>1. ASSUME CInv PROVE CapsHold
  <2> SUFFICES ASSUME lapses = 0
               PROVE  /\ \A u \in Users : Cardinality({s \in Admitted : User(s) = u}) <= UserCap
                      /\ Cardinality(Admitted) <= TotalCap
    BY DEF CapsHold
  <2>1. Capped /\ UserCap \in Nat /\ TotalCap \in Nat BY <1>1, RealtimeAssumption DEF CInv
  <2> DEFINE Past == {"held", "serving"}
  <2>2. ASSUME NEW u \in Users PROVE Cardinality({s \in Admitted : User(s) = u}) <= UserCap
    <3>1. {s \in Admitted : User(s) = u} = {s \in Of(u) : handler[s] \in Past} BY DEF Admitted, Of
    <3>2. PICK T \in SUBSET Sockets : T = Of(u) BY DEF Of
    <3>3. Count(handler, T, Past) <= Count(handler, T, UserPassed)
      <4>1. \A t \in T : handler[t] \in Past => handler[t] \in UserPassed
        BY DEF UserPassed, UserPhases
      <4> HIDE DEF Past
      <4> QED BY <4>1, CountsLess
    <3>4. Count(handler, T, Past) \in Nat /\ Count(handler, T, UserPassed) \in Nat BY Counts
    <3>5. Count(handler, T, UserPassed) <= UserCap BY <2>1, <3>2 DEF Capped
    <3>6. Cardinality({s \in Admitted : User(s) = u}) = Count(handler, T, Past) BY <3>1, <3>2 DEF Count
    <3> QED BY <2>1, <3>3, <3>4, <3>5, <3>6
  <2>3. Cardinality(Admitted) <= TotalCap
    <3>1. Admitted = {s \in Sockets : handler[s] \in Past} BY DEF Admitted
    <3>2. PICK T \in SUBSET Sockets : T = Sockets OBVIOUS
    <3>3. Count(handler, T, Past) <= Count(handler, T, TotalPassed)
      <4>1. \A t \in T : handler[t] \in Past => handler[t] \in TotalPassed
        BY DEF TotalPassed, TotalPhases
      <4> HIDE DEF Past
      <4> QED BY <4>1, CountsLess
    <3>4. Count(handler, T, Past) \in Nat /\ Count(handler, T, TotalPassed) \in Nat BY Counts
    <3>5. Count(handler, T, TotalPassed) <= TotalCap BY <2>1, <3>2 DEF Capped
    <3>6. Cardinality(Admitted) = Count(handler, T, Past) BY <3>1, <3>2 DEF Count
    <3> QED BY <2>1, <3>3, <3>4, <3>5, <3>6
  <2> QED BY <2>2, <2>3
<1> QED BY <1>1, CountersHold, PTL

----------------------------------------------------------------------------
(* The audience of an event *)

Attends(s) == handler[s] = "serving" /\ browser[s] = "open"
OnItsWay(s) == s \in pending \/ (s \notin Streams /\ inbox[HostOf[s]])

\* While nothing failed, a socket that is served is in the broadcast set of its process,
\* and who is still owed the event has it on its way, or has gone.
Attended ==
    /\ \A s \in Sockets \ Streams : Attends(s) => s \in members[HostOf[s]]
    /\ \A s \in owed : browser[s] = "shut" \/ (Attends(s) /\ OnItsWay(s))

AInv == faults = 0 => Attended

LEMMA AttendedInit == ASSUME Init PROVE AInv
BY DEF Init, AInv, Attended, Attends

\* The broadcast is where it was; nobody new is served, and who was served is, or has gone.
LEMMA AudienceStays ==
    ASSUME TypeOK, Attended, UNCHANGED broadcastVars,
           \A s \in Sockets : Attends(s)' => Attends(s),
           \A s \in Sockets : Attends(s) => Attends(s)' \/ browser'[s] = "shut",
           \A s \in Sockets : browser[s] = "shut" => browser'[s] = "shut"
    PROVE  Attended'
BY DEF TypeOK, Attended, broadcastVars, OnItsWay

LEMMA ClientAttended == ASSUME TypeOK, Unserved, Attended, NEW s \in Sockets, Client(s) PROVE Attended'
<1> USE DEF TypeOK
<1>1. ASSUME NEW f \in Feeds, ConnectSocket(f, s) PROVE Attended'
  <2>1. /\ current[f] \in Sockets \cup {Nobody}
        /\ Shut(current[f]) \in [Sockets -> {"unused", "asking", "open", "shut"}]
        /\ \A t \in Sockets : Shut(current[f])[t] \in {browser[t], "shut"}
    BY ShutType
  <2>2. \A t \in Sockets : browser'[t] = IF t = s THEN "asking" ELSE Shut(current[f])[t]
    BY <1>1, <2>1 DEF ConnectSocket
  <2>3. browser[s] = "unused" /\ handler' = handler /\ UNCHANGED broadcastVars
    BY <1>1 DEF ConnectSocket
  <2>4. \A t \in Sockets : browser[t] = "shut" => browser'[t] = "shut"
    BY <2>1, <2>2, <2>3 DEF Shut
  <2>5. \A t \in Sockets : Attends(t)' => Attends(t)
    BY <2>1, <2>2, <2>3 DEF Attends
  <2>6. \A t \in Sockets : Attends(t) => Attends(t)' \/ browser'[t] = "shut"
    BY <2>1, <2>2, <2>3 DEF Attends
  <2> QED BY <2>3, <2>4, <2>5, <2>6, AudienceStays
<1>2. CASE TicketArrives(s)
  <2>1. /\ browser[s] = "asking" /\ UNCHANGED broadcastVars
        /\ \A t \in Sockets \ {s} : browser'[t] = browser[t] /\ handler'[t] = handler[t]
        /\ browser'[s] = "shut" \/ handler'[s] = "arrived"
    BY <1>2 DEF TicketArrives
  <2> QED BY <2>1, AudienceStays DEF Attends
<1>3. CASE TicketRefused(s) \/ SocketCloses(s)
  <2>1. /\ UNCHANGED broadcastVars /\ handler' = handler
        /\ browser' = [browser EXCEPT ![s] = "shut"]
    BY <1>3 DEF TicketRefused, SocketCloses, GiveUp
  <2> QED BY <2>1, AudienceStays DEF Attends
<1> QED BY <1>1, <1>2, <1>3 DEF Client, RetryFires, Mount

LEMMA UnmountAttended == ASSUME TypeOK, Attended, NEW f \in Feeds, Unmount(f) PROVE Attended'
<1>1. /\ current[f] \in Sockets \cup {Nobody}
      /\ \A t \in Sockets : Shut(current[f])[t] = IF t = current[f] /\ browser[t] = "open" THEN "shut" ELSE browser[t]
  BY ShutType DEF TypeOK
<1>2. browser' = Shut(current[f]) /\ handler' = handler /\ UNCHANGED broadcastVars
  BY DEF Unmount
<1> QED BY <1>1, <1>2, AudienceStays DEF Attends

LEMMA CutOffAttended == ASSUME TypeOK, Attended, NEW s \in Sockets, CutOff(s) PROVE Attended'
<1>1. /\ handler' = [handler EXCEPT ![s] = "closed"] /\ browser[s] = "shut"
      /\ UNCHANGED <<clientVars, broadcastVars>>
  BY DEF CutOff, Goto
<1>2. \A t \in Sockets : Attends(t)' <=> Attends(t)
  BY <1>1 DEF Attends, clientVars, TypeOK
<1> QED BY <1>1, <1>2, AudienceStays DEF clientVars

LEMMA HandleAttended == ASSUME TypeOK, Attended, NEW s \in Sockets, Handle(s) PROVE Attended'
<1> USE OwnerTypes DEF TypeOK
<1>1. CASE Accept(s)
  <2>1. /\ handler[s] = "held" /\ handler' = [handler EXCEPT ![s] = "serving"]
        /\ browser' = browser /\ inbox' = inbox /\ pending' = pending /\ owed' = owed
        /\ members' = [members EXCEPT ![HostOf[s]] = members[HostOf[s]] \cup {s}]
    BY <1>1 DEF Accept, Goto, clientVars
  <2>2. \A t \in Sockets : t \in members[HostOf[t]] => t \in members'[HostOf[t]] BY <2>1
  <2>3. s \in members'[HostOf[s]] BY <2>1
  <2>4. \A t \in Sockets \ {s} : Attends(t)' <=> Attends(t) BY <2>1 DEF Attends
  <2>5. ~Attends(s) BY <2>1 DEF Attends
  <2>6. \A t \in owed : browser'[t] = "shut" \/ (Attends(t)' /\ OnItsWay(t)')
    BY <2>1, <2>4, <2>5 DEF Attended, OnItsWay
  <2> QED BY <2>1, <2>2, <2>3, <2>4, <2>6 DEF Attended
<1>2. CASE Leave(s)
  <2>1. /\ browser[s] = "shut" /\ handler' = [handler EXCEPT ![s] = "leaving"]
        /\ browser' = browser /\ inbox' = inbox /\ pending' = pending /\ owed' = owed
        /\ members' = [members EXCEPT ![HostOf[s]] = members[HostOf[s]] \ {s}]
    BY <1>2 DEF Leave, Goto, clientVars
  <2>2. \A t \in Sockets \ {s} : t \in members[HostOf[t]] => t \in members'[HostOf[t]] BY <2>1
  <2>3. \A t \in Sockets \ {s} : Attends(t)' <=> Attends(t) BY <2>1 DEF Attends
  <2>4. ~Attends(s)' BY <2>1 DEF Attends
  <2>5. \A t \in owed : browser'[t] = "shut" \/ (Attends(t)' /\ OnItsWay(t)')
    BY <2>1, <2>3 DEF Attended, OnItsWay
  <2> QED BY <2>1, <2>2, <2>3, <2>4, <2>5 DEF Attended
<1>3. CASE ~Accept(s) /\ ~Leave(s)
  <2>1. /\ UNCHANGED <<clientVars, broadcastVars>> /\ handler[s] # "serving"
        /\ StartStream(s) \/ \E p : p # "serving" /\ handler' = [handler EXCEPT ![s] = p]
    BY <1>3 DEF Handle, ConsumeTicket, TakeUser, TakeTotal, BackOutTotal, BackOutUser, Reserve,
       StartStream, BeginRelease, DropUser, DropTotal, Goto, broadcastVars
  <2>2. CASE ~StartStream(s)
    <3>1. \A t \in Sockets : Attends(t)' <=> Attends(t) BY <2>1, <2>2 DEF Attends, clientVars
    <3> QED BY <2>1, <3>1, AudienceStays DEF clientVars
  <2>3. CASE StartStream(s)
    <3>1. \A t \in Sockets \ {s} : Attends(t)' <=> Attends(t)
      BY <2>1, <2>3 DEF StartStream, Goto, Attends, clientVars
    <3>2. ~Attends(s) /\ s \in Streams BY <2>1, <2>3 DEF StartStream, Attends
    <3> QED BY <2>1, <3>1, <3>2 DEF Attended, OnItsWay, clientVars, broadcastVars
  <2> QED BY <2>2, <2>3
<1> QED BY <1>1, <1>2, <1>3

LEMMA EventAttended ==
    ASSUME TypeOK, Attended,
           \/ Publish
           \/ \E h \in Hosts : Broadcast(h)
           \/ \E s \in Sockets : SendTo(s)
    PROVE  Attended'
<1> USE OwnerTypes DEF TypeOK
<1>0. handler' = handler /\ browser' = browser BY DEF Publish, Broadcast, SendTo, clientVars
<1>1. \A t \in Sockets : Attends(t)' <=> Attends(t) BY <1>0 DEF Attends
<1>2. CASE Publish
  <2>1. \A t \in Served : Attends(t)' /\ OnItsWay(t)'
    BY <1>1, <1>2 DEF Publish, Served, Attends, OnItsWay
  <2> QED BY <1>1, <1>2, <2>1 DEF Publish, Attended
<1>3. ASSUME NEW h \in Hosts, Broadcast(h) PROVE Attended'
  <2>1. /\ inbox' = [inbox EXCEPT ![h] = FALSE] /\ pending' = pending \cup members[h]
        /\ members' = members /\ owed' = owed
    BY <1>3 DEF Broadcast, Recipients
  <2>2. ASSUME NEW t \in owed, browser[t] # "shut" PROVE OnItsWay(t)'
    <3>1. t \in Sockets /\ Attends(t) /\ OnItsWay(t) BY <2>2 DEF Attended
    <3>2. CASE t \in pending BY <2>1, <3>2 DEF OnItsWay
    <3>3. CASE t \notin Streams /\ HostOf[t] = h
      BY <2>1, <3>1, <3>3 DEF Attended, OnItsWay
    <3>4. CASE t \notin Streams /\ HostOf[t] # h /\ inbox[HostOf[t]]
      <4>1. inbox'[HostOf[t]] BY <2>1, <3>1, <3>4
      <4> QED BY <3>4, <4>1 DEF OnItsWay
    <3> QED BY <3>1, <3>2, <3>3, <3>4 DEF OnItsWay
  <2> QED BY <1>0, <1>1, <2>1, <2>2 DEF Attended
<1>4. ASSUME NEW s \in Sockets, SendTo(s) PROVE Attended'
  <2>1. pending' = pending \ {s} /\ inbox' = inbox BY <1>4 DEF SendTo
  <2>2. \A t \in Sockets \ {s} : OnItsWay(t) => OnItsWay(t)' BY <2>1 DEF OnItsWay
  <2>3. CASE Attends(s)
    <3>1. owed' = owed \ {s} /\ members' = members BY <1>4, <2>3 DEF SendTo, Attends
    <3> QED BY <1>0, <1>1, <2>2, <3>1 DEF Attended
  <2>4. CASE ~Attends(s)
    <3>1. /\ owed' = owed
          /\ members' = [members EXCEPT ![HostOf[s]] = members[HostOf[s]] \ {s}]
      BY <1>4, <2>4 DEF SendTo, Attends
    <3>2. \A t \in Sockets \ {s} : t \in members[HostOf[t]] => t \in members'[HostOf[t]]
      BY <3>1
    <3> QED BY <1>0, <1>1, <2>2, <2>4, <3>1, <3>2 DEF Attended
  <2> QED BY <2>3, <2>4
<1> QED BY <1>2, <1>3, <1>4

LEMMA AttendedStep == ASSUME TypeOK, Unserved, AInv, [Next]_vars PROVE AInv'
<1>1. SUFFICES ASSUME faults' = 0 PROVE Attended' BY DEF AInv
<1>2. faults = 0 => Attended BY DEF AInv
<1>3. ~Fault BY <1>1 DEF Fault, TypeOK
<1>4. ASSUME NEW s \in Sockets, Handle(s) \/ Client(s) PROVE Attended'
  <2>1. faults' = faults
    BY <1>4 DEF Handle, ConsumeTicket, TakeUser, TakeTotal, BackOutTotal, BackOutUser, Reserve,
       Accept, StartStream, Leave, BeginRelease, DropUser, DropTotal, Client, RetryFires, Mount,
       ConnectSocket, TicketArrives, TicketRefused, SocketCloses, boundVars
  <2> QED BY <1>1, <1>2, <1>4, <2>1, HandleAttended, ClientAttended
<1>5. ASSUME NEW f \in Feeds, Unmount(f) PROVE Attended'
  <2>1. faults' = faults BY <1>5 DEF Unmount, boundVars
  <2> QED BY <1>1, <1>2, <1>5, <2>1, UnmountAttended
<1>6. CASE Publish \/ (\E h \in Hosts : Broadcast(h)) \/ (\E s \in Sockets : SendTo(s))
  <2>1. faults' = faults BY <1>6 DEF Publish, Broadcast, SendTo, boundVars
  <2> QED BY <1>1, <1>2, <1>6, <2>1, EventAttended
<1>7. CASE \/ \E s \in Sockets : TicketLapses(s)
           \/ \E h \in Hosts : LoopSubscribes(h)
           \/ KeyLapses \/ UNCHANGED vars
  <2>1. UNCHANGED <<browser, handler, members, inbox, pending, owed, faults>>
    BY <1>7 DEF TicketLapses, LoopSubscribes, KeyLapses, vars, clientVars, broadcastVars, boundVars
  <2>2. Attended BY <1>1, <1>2, <2>1
  <2> QED BY <2>1, <2>2 DEF Attended, Attends, OnItsWay
<1>10. ASSUME NEW s \in Sockets, CutOff(s) PROVE Attended'
  BY <1>1, <1>2, <1>10, CutOffAttended DEF CutOff
<1>8. ~\E s \in Sockets : HandlerFails(s) \/ SendFails(s) BY <1>3 DEF HandlerFails, SendFails
<1>9. ~\E h \in Hosts : LoopFails(h) \/ Crash(h) BY <1>3 DEF LoopFails, Crash
<1> QED BY <1>4, <1>5, <1>6, <1>7, <1>8, <1>9, <1>10 DEF Next

\* Unless something failed, who was being served when an event was published has been sent
\* it once no process and no send has it any more, or has gone: however sockets join and
\* leave the broadcast sets, and streams and processes forward it, meanwhile.
THEOREM AudienceIsReached == Spec => []EventReachesAudience
<1>1. ASSUME TypeOK, AInv PROVE EventReachesAudience
  BY <1>1, OwnerTypes DEF TypeOK, AInv, Attended, OnItsWay, EventReachesAudience
<1>2. TypeOK /\ Unserved /\ AInv /\ [Next]_vars => AInv' BY AttendedStep
<1>3. CInv => TypeOK /\ Unserved BY DEF CInv
<1> QED BY <1>1, <1>2, <1>3, AttendedInit, CountersHold, PTL DEF Spec

=============================================================================
