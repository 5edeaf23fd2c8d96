------------------------------- MODULE Realtime -------------------------------
(***************************************************************************)
(* Realtime connections: the dashboard feed that asks for a ticket, opens  *)
(* a socket and reconnects; the WebSocket and SSE handlers that consume    *)
(* the ticket, reserve a place in two Redis counters, serve and release;   *)
(* and the broadcast loop that forwards published sightings.               *)
(*                                                                         *)
(* Source: backend/app/api/v1/websockets.py, backend/app/core/pubsub.py,   *)
(* issue_websocket_ticket of auth.py, frontend/src/pages/HeartbeatFeed.jsx *)
(*                                                                         *)
(* A socket is one attempt to connect, with its ticket, its client side    *)
(* and its handler.  Each Redis command of the limiter is an action; the   *)
(* asyncio lock orders them inside one uvicorn process only.  A counter    *)
(* key is absent, or holds a number with or without a time to live.        *)
(***************************************************************************)
EXTENDS Integers, FiniteSets

CONSTANTS
    Feeds,          \* mounted feeds (a stream's client counts as one)
    Users,          \* users
    Hosts,          \* uvicorn processes
    Sockets,        \* attempts to connect, each made once
    Streams,        \* those that use the SSE endpoint
    FeedOf,         \* the feed that makes the attempt
    UserOf,         \* the user of a feed
    HostOf,         \* the process that gets the connection
    Nobody,         \* a lock nobody holds, a feed without a socket
    UserCap,        \* ATTENDANCE_MAX_WS_CONNECTIONS_PER_USER
    TotalCap,       \* ATTENDANCE_MAX_WS_CONNECTIONS_TOTAL
    MaxTroubles     \* bound: failures, crashes and counter keys that expire

ASSUME RealtimeAssumption ==
    /\ IsFiniteSet(Sockets) /\ Streams \subseteq Sockets
    /\ FeedOf \in [Sockets -> Feeds]
    /\ UserOf \in [Feeds -> Users]
    /\ HostOf \in [Sockets -> Hosts]
    /\ Nobody \notin Sockets
    /\ UserCap \in Nat \ {0} /\ TotalCap \in Nat \ {0}
    /\ MaxTroubles \in Nat

VARIABLES
    current,        \* the attempt of the feed's current generation
    armed,          \* whether its retry timer is set
    browser,        \* the client side of an attempt
    tickets,        \* attempts whose one-time ticket is stored in Redis
    handler,        \* where its handler is
    lock,           \* who holds the limiter's lock in each process
    userKey,        \* ws:user:{id}
    totalKey,       \* ws:total
    members,        \* the process's broadcast set
    loop,           \* the process's broadcast task
    inbox,          \* events its subscription has received and not forwarded
    pending,        \* sockets an event is being sent to
    published,      \* whether the event has been published
    owed,           \* who was being served then and was not sent it yet
    cutOff,         \* streams cancelled before they gave their reservation back
    lapses, faults  \* what is used of the bound

vars == <<current, armed, browser, tickets, handler, lock, userKey, totalKey, members, loop,
          inbox, pending, published, owed, cutOff, lapses, faults>>

clientVars    == <<current, armed, browser>>
counterVars   == <<userKey, totalKey>>
broadcastVars == <<members, loop, inbox, pending, published, owed>>
boundVars     == <<cutOff, lapses, faults>>

Absent == [n |-> 0, life |-> "absent"]
Key == {Absent} \cup [n : Int, life : {"timed", "untimed"}]

User(s) == UserOf[FeedOf[s]]

\* Handlers that have incremented a counter and not taken it back.
UserPhases == {"userTaken", "backingTotal", "totalTaken", "backingUser", "held", "serving",
               "leaving", "dropUser"}
TotalPhases == {"backingTotal", "totalTaken", "held", "serving", "leaving", "dropUser",
                "dropTotal"}
Phases == UserPhases \cup TotalPhases \cup {"none", "arrived", "ticketed", "closed"}

Init ==
    /\ current = [f \in Feeds |-> Nobody]
    /\ armed = [f \in Feeds |-> FALSE]
    /\ browser = [s \in Sockets |-> "unused"]
    /\ tickets = {}
    /\ handler = [s \in Sockets |-> "none"]
    /\ lock = [h \in Hosts |-> Nobody]
    /\ userKey = [u \in Users |-> Absent]
    /\ totalKey = Absent
    /\ members = [h \in Hosts |-> {}]
    /\ loop = [h \in Hosts |-> "none"]
    /\ inbox = [h \in Hosts |-> FALSE]
    /\ pending = {} /\ published = FALSE /\ owed = {}
    /\ cutOff = {} /\ lapses = 0 /\ faults = 0

Trouble == lapses + faults < MaxTroubles
Fault == Trouble /\ faults' = faults + 1 /\ UNCHANGED <<cutOff, lapses>>

----------------------------------------------------------------------------
(* The feed *)

Shut(s) == IF s = Nobody THEN browser ELSE [browser EXCEPT ![s] = IF @ = "open" THEN "shut" ELSE @]

\* connectSocket: close the active socket, start a new generation, ask for a ticket.
ConnectSocket(f, s) ==
    /\ FeedOf[s] = f /\ browser[s] = "unused"
    /\ browser' = [Shut(current[f]) EXCEPT ![s] = "asking"]
    /\ current' = [current EXCEPT ![f] = s]
    /\ armed' = [armed EXCEPT ![f] = FALSE]
    /\ UNCHANGED <<tickets, handler, lock, counterVars, broadcastVars, boundVars>>

\* The retry timer, and the mount of the component or its Reconnect button.
RetryFires(f, s) == armed[f] /\ ConnectSocket(f, s)
Mount(f, s) == ConnectSocket(f, s)

Unmount(f) ==
    /\ armed[f] \/ current[f] # Nobody
    /\ browser' = Shut(current[f])
    /\ current' = [current EXCEPT ![f] = Nobody]
    /\ armed' = [armed EXCEPT ![f] = FALSE]
    /\ UNCHANGED <<tickets, handler, lock, counterVars, broadcastVars, boundVars>>

\* After the await: the answer counts only for the generation that asked.
\* Mutant: nothing is compared after the await.
MutantAnyGeneration(s) == TRUE

StillCurrent(s) == current[FeedOf[s]] = s

\* The ticket is stored and returned; the feed opens the socket, or drops a late answer.
TicketArrives(s) ==
    /\ browser[s] = "asking"
    /\ tickets' = tickets \cup {s}
    /\ IF StillCurrent(s)
         THEN browser' = [browser EXCEPT ![s] = "open"] /\ handler' = [handler EXCEPT ![s] = "arrived"]
         ELSE browser' = [browser EXCEPT ![s] = "shut"] /\ UNCHANGED handler
    /\ UNCHANGED <<current, armed, lock, counterVars, broadcastVars, boundVars>>

\* scheduleReconnect: 401 goes to the login page, every other failure backs off.
GiveUp(s, unauthorized) ==
    /\ browser' = [browser EXCEPT ![s] = "shut"]
    /\ IF StillCurrent(s)
         THEN /\ current' = [current EXCEPT ![FeedOf[s]] = IF @ = s THEN Nobody ELSE @]
              /\ armed' = [armed EXCEPT ![FeedOf[s]] = ~unauthorized]
         ELSE UNCHANGED <<current, armed>>

TicketRefused(s) ==
    /\ browser[s] = "asking"
    /\ \E unauthorized \in BOOLEAN : GiveUp(s, unauthorized)
    /\ UNCHANGED <<tickets, handler, lock, counterVars, broadcastVars, boundVars>>

\* The server refused the handshake or the connection ended on its side.
SocketCloses(s) ==
    /\ browser[s] = "open" /\ handler[s] = "closed"
    /\ GiveUp(s, FALSE)
    /\ UNCHANGED <<tickets, handler, lock, counterVars, broadcastVars, boundVars>>

----------------------------------------------------------------------------
(* The handler: ticket and reservation *)

Goto(s, phase) == handler' = [handler EXCEPT ![s] = phase]
Unlock(s) == lock' = [lock EXCEPT ![HostOf[s]] = Nobody]
HoldsLock(s) == lock[HostOf[s]] = s

\* A ticket runs out before it is presented; one that is never presented is not followed.
TicketLapses(s) ==
    /\ s \in tickets /\ handler[s] = "arrived"
    /\ tickets' = tickets \ {s}
    /\ UNCHANGED <<clientVars, handler, lock, counterVars, broadcastVars, boundVars>>

\* GET and DEL in one script: the ticket admits one connection.
ConsumeTicket(s) ==
    /\ handler[s] = "arrived"
    /\ Goto(s, IF s \in tickets THEN "ticketed" ELSE "closed")
    /\ tickets' = tickets \ {s}
    /\ UNCHANGED <<clientVars, lock, counterVars, broadcastVars, boundVars>>

\* INCR and DECR create the key they do not find, without a time to live; EXPIRE sets one.
\* Mutant: a key that is not there is counted in and not created.
MutantAddToAbsent(key, d) == [key EXCEPT !.n = @ + d]

Add(key, d) == [n |-> key.n + d, life |-> IF key.life = "absent" THEN "untimed" ELSE key.life]
Timed(key) == IF key.life = "absent" THEN key ELSE [key EXCEPT !.life = "timed"]

\* try_acquire, under the lock of the process: INCR the user's counter and compare.
\* Mutant: the counter is compared before it is incremented.
MutantCompareBefore(n, cap) == n - 1 > cap

OverCap(n, cap) == n > cap

TakeUser(s) ==
    /\ handler[s] = "ticketed" /\ lock[HostOf[s]] = Nobody
    /\ lock' = [lock EXCEPT ![HostOf[s]] = s]
    /\ userKey' = [userKey EXCEPT ![User(s)] = Add(@, 1)]
    /\ Goto(s, IF OverCap(userKey[User(s)].n + 1, UserCap) THEN "backingUser" ELSE "userTaken")
    /\ UNCHANGED <<clientVars, tickets, totalKey, broadcastVars, boundVars>>

\* EXPIRE the user's key, then INCR the total and compare.
TakeTotal(s) ==
    /\ handler[s] = "userTaken"
    /\ userKey' = [userKey EXCEPT ![User(s)] = Timed(@)]
    /\ totalKey' = Add(totalKey, 1)
    /\ Goto(s, IF OverCap(totalKey.n + 1, TotalCap) THEN "backingTotal" ELSE "totalTaken")
    /\ UNCHANGED <<clientVars, tickets, lock, broadcastVars, boundVars>>

\* Mutant: the total is taken back and the user's counter is forgotten.
MutantBackOutTotalOnly(s) ==
    /\ handler[s] = "backingTotal"
    /\ totalKey' = Add(totalKey, -1)
    /\ Goto(s, "closed") /\ Unlock(s)
    /\ UNCHANGED <<clientVars, tickets, userKey, broadcastVars, boundVars>>

BackOutTotal(s) ==
    /\ handler[s] = "backingTotal"
    /\ totalKey' = Add(totalKey, -1)
    /\ Goto(s, "backingUser")
    /\ UNCHANGED <<clientVars, tickets, lock, userKey, broadcastVars, boundVars>>

\* The connection is refused: 1011, or 429 for a stream.
BackOutUser(s) ==
    /\ handler[s] = "backingUser"
    /\ userKey' = [userKey EXCEPT ![User(s)] = Add(@, -1)]
    /\ Goto(s, "closed") /\ Unlock(s)
    /\ UNCHANGED <<clientVars, tickets, totalKey, broadcastVars, boundVars>>

Reserve(s) ==
    /\ handler[s] = "totalTaken"
    /\ totalKey' = Timed(totalKey)
    /\ Goto(s, "held") /\ Unlock(s)
    /\ UNCHANGED <<clientVars, tickets, userKey, broadcastVars, boundVars>>

----------------------------------------------------------------------------
(* The handler: serving and releasing *)

\* Mutant: the connection that starts the task is not added to the set.
MutantAcceptFirst(s) ==
    /\ handler[s] = "held" /\ s \notin Streams
    /\ Goto(s, "serving")
    /\ IF loop[HostOf[s]] = "none"
         THEN loop' = [loop EXCEPT ![HostOf[s]] = "subscribing"] /\ UNCHANGED members
         ELSE members' = [members EXCEPT ![HostOf[s]] = @ \cup {s}] /\ UNCHANGED loop
    /\ UNCHANGED <<clientVars, tickets, lock, counterVars, inbox, pending, published, owed, boundVars>>

\* connect: accept, join the broadcast set and start the broadcast task if there is none.
Accept(s) ==
    /\ handler[s] = "held" /\ s \notin Streams
    /\ Goto(s, "serving")
    /\ members' = [members EXCEPT ![HostOf[s]] = @ \cup {s}]
    /\ loop' = [loop EXCEPT ![HostOf[s]] = IF @ = "none" THEN "subscribing" ELSE @]
    /\ UNCHANGED <<clientVars, tickets, lock, counterVars, inbox, pending, published, owed, boundVars>>

\* An SSE stream has a subscription of its own, made after its first line went out.
StartStream(s) ==
    /\ handler[s] = "held" /\ s \in Streams
    /\ Goto(s, "serving")
    /\ UNCHANGED <<clientVars, tickets, lock, counterVars, broadcastVars, boundVars>>

\* The client is gone: leave the broadcast set (disconnect), or end the generator.
Leave(s) ==
    /\ handler[s] = "serving" /\ browser[s] = "shut"
    /\ Goto(s, "leaving")
    /\ members' = [members EXCEPT ![HostOf[s]] = @ \ {s}]
    /\ UNCHANGED <<clientVars, tickets, lock, counterVars, loop, inbox, pending, published, owed, boundVars>>

\* release: EXISTS, DECR of the user's key if it was there, DECR of the total in any case.
BeginRelease(s) ==
    /\ handler[s] = "leaving" /\ lock[HostOf[s]] = Nobody
    /\ lock' = [lock EXCEPT ![HostOf[s]] = s]
    /\ Goto(s, IF userKey[User(s)].life = "absent" THEN "dropTotal" ELSE "dropUser")
    /\ UNCHANGED <<clientVars, tickets, counterVars, broadcastVars, boundVars>>

\* Mutant: the lock is not released when the key of the user is present.
MutantDropUserAndStop(s) ==
    /\ handler[s] = "dropUser"
    /\ userKey' = [userKey EXCEPT ![User(s)] = Add(@, -1)]
    /\ Goto(s, "closed")
    /\ UNCHANGED <<clientVars, tickets, lock, totalKey, broadcastVars, boundVars>>

DropUser(s) ==
    /\ handler[s] = "dropUser"
    /\ userKey' = [userKey EXCEPT ![User(s)] = Add(@, -1)]
    /\ Goto(s, "dropTotal")
    /\ UNCHANGED <<clientVars, tickets, lock, totalKey, broadcastVars, boundVars>>

DropTotal(s) ==
    /\ handler[s] = "dropTotal"
    /\ totalKey' = Add(totalKey, -1)
    /\ Goto(s, "closed") /\ Unlock(s)
    /\ UNCHANGED <<clientVars, tickets, userKey, broadcastVars, boundVars>>

\* StreamingResponse cancels a stream whose client is gone: a generator that was not entered
\* has no finally block to run, and in one that was the next await of the block, of the lock
\* or of a command of release, is cancelled again.
CutOff(s) ==
    /\ s \in Streams /\ browser[s] = "shut"
    /\ handler[s] \in {"held", "serving", "leaving", "dropUser", "dropTotal"}
    /\ Goto(s, "closed")
    /\ IF HoldsLock(s) THEN Unlock(s) ELSE UNCHANGED lock
    /\ cutOff' = cutOff \cup {s}
    /\ UNCHANGED <<clientVars, tickets, counterVars, broadcastVars, lapses, faults>>

----------------------------------------------------------------------------
(* Failures *)

\* Redis fails in try_acquire or release, or accept fails outside the try block: the
\* handler ends, and what it had counted stays counted.
HandlerFails(s) ==
    /\ handler[s] \in Phases \ {"none", "closed", "serving"}
    /\ Fault
    /\ Goto(s, "closed")
    /\ IF HoldsLock(s) THEN Unlock(s) ELSE UNCHANGED lock
    /\ UNCHANGED <<clientVars, tickets, counterVars, broadcastVars>>

\* A uvicorn process dies with its handlers and its broadcast task.
Crash(h) ==
    /\ Fault
    /\ handler' = [s \in Sockets |-> IF HostOf[s] = h /\ handler[s] # "none" THEN "closed" ELSE handler[s]]
    /\ lock' = [lock EXCEPT ![h] = Nobody]
    /\ members' = [members EXCEPT ![h] = {}]
    /\ loop' = [loop EXCEPT ![h] = "none"]
    /\ inbox' = [inbox EXCEPT ![h] = FALSE]
    /\ pending' = {s \in pending : HostOf[s] # h}
    /\ UNCHANGED <<clientVars, tickets, counterVars, published, owed>>

\* A counter key runs out: no connection was accepted for one access-token lifetime.
KeyLapses ==
    /\ Trouble /\ lapses' = lapses + 1
    /\ \/ totalKey.life = "timed" /\ totalKey' = Absent /\ UNCHANGED userKey
       \/ /\ UNCHANGED totalKey
          /\ \E u \in Users : userKey[u].life = "timed" /\ userKey' = [userKey EXCEPT ![u] = Absent]
    /\ UNCHANGED <<clientVars, tickets, handler, lock, broadcastVars, cutOff, faults>>

----------------------------------------------------------------------------
(* Events *)

\* Clients that are served while their process, or their stream, is subscribed.
Served == {s \in Sockets : handler[s] = "serving" /\ browser[s] = "open" /\
                            (s \in Streams \/ loop[HostOf[s]] = "listening")}

\* log_sighting publishes: every subscription that exists now receives the message.
\* An event that nobody would be sent is not followed.
Publish ==
    /\ ~published /\ Served # {}
    /\ published' = TRUE
    /\ owed' = Served
    /\ inbox' = [h \in Hosts |-> loop[h] = "listening"]
    /\ pending' = pending \cup (Served \cap Streams)
    /\ UNCHANGED <<clientVars, tickets, handler, lock, counterVars, members, loop, boundVars>>

\* _broadcast takes its recipients under the lock, then sends to all of them at once.
Recipients(h) == members[h]

Broadcast(h) ==
    /\ inbox[h]
    /\ inbox' = [inbox EXCEPT ![h] = FALSE]
    /\ pending' = pending \cup Recipients(h)
    /\ UNCHANGED <<clientVars, tickets, handler, lock, counterVars, members, loop, published, owed, boundVars>>

\* A socket that is no longer open makes the send raise, and is dropped from the set.
SendTo(s) ==
    /\ s \in pending
    /\ pending' = pending \ {s}
    /\ IF handler[s] = "serving" /\ browser[s] = "open"
         THEN owed' = owed \ {s} /\ UNCHANGED members
         ELSE members' = [members EXCEPT ![HostOf[s]] = @ \ {s}] /\ UNCHANGED owed
    /\ UNCHANGED <<clientVars, tickets, handler, lock, counterVars, loop, inbox, published, boundVars>>

\* The send to an open socket raises: it is dropped from the set and stays open.
SendFails(s) ==
    /\ s \in pending /\ s \notin Streams
    /\ Fault
    /\ pending' = pending \ {s}
    /\ members' = [members EXCEPT ![HostOf[s]] = @ \ {s}]
    /\ UNCHANGED <<clientVars, tickets, handler, lock, counterVars, loop, inbox, published, owed>>

\* The subscription fails, and what it had not forwarded is gone.
LoopFails(h) ==
    /\ loop[h] = "listening"
    /\ Fault
    /\ loop' = [loop EXCEPT ![h] = "subscribing"]
    /\ inbox' = [inbox EXCEPT ![h] = FALSE]
    /\ UNCHANGED <<clientVars, tickets, handler, lock, counterVars, members, pending, published, owed>>

\* The task subscribes after the first accept, and again after a failure.
LoopSubscribes(h) ==
    /\ loop[h] = "subscribing"
    /\ loop' = [loop EXCEPT ![h] = "listening"]
    /\ UNCHANGED <<clientVars, tickets, handler, lock, counterVars, members, inbox, pending, published, owed, boundVars>>

----------------------------------------------------------------------------

Handle(s) ==
    \/ ConsumeTicket(s) \/ TakeUser(s) \/ TakeTotal(s) \/ BackOutTotal(s) \/ BackOutUser(s)
    \/ Reserve(s) \/ Accept(s) \/ StartStream(s)
    \/ Leave(s) \/ BeginRelease(s) \/ DropUser(s) \/ DropTotal(s)

Client(s) ==
    \/ \E f \in Feeds : RetryFires(f, s) \/ Mount(f, s)
    \/ TicketArrives(s) \/ TicketRefused(s) \/ SocketCloses(s)

Next ==
    \/ \E s \in Sockets : Handle(s) \/ Client(s) \/ TicketLapses(s) \/ SendTo(s)
    \/ \E s \in Sockets : CutOff(s) \/ HandlerFails(s) \/ SendFails(s)
    \/ \E f \in Feeds : Unmount(f)
    \/ \E h \in Hosts : Broadcast(h) \/ LoopFails(h) \/ LoopSubscribes(h) \/ Crash(h)
    \/ KeyLapses
    \/ Publish

Spec == Init /\ [][Next]_vars

\* The event loops of the processes run: some handler that can continue does, or some
\* message that can be forwarded is.
Fairness ==
    WF_vars(\/ \E s \in Sockets : Handle(s) \/ SendTo(s)
            \/ \E h \in Hosts : Broadcast(h))

FairSpec == Spec /\ Fairness

----------------------------------------------------------------------------
(* Properties *)

\* Every variable has its type.
TypeOK ==
    /\ current \in [Feeds -> Sockets \cup {Nobody}]
    /\ armed \in [Feeds -> BOOLEAN]
    /\ browser \in [Sockets -> {"unused", "asking", "open", "shut"}]
    /\ tickets \subseteq Sockets
    /\ handler \in [Sockets -> Phases]
    /\ lock \in [Hosts -> Sockets \cup {Nobody}]
    /\ userKey \in [Users -> Key] /\ totalKey \in Key
    /\ members \in [Hosts -> SUBSET Sockets]
    /\ loop \in [Hosts -> {"none", "listening", "subscribing"}]
    /\ inbox \in [Hosts -> BOOLEAN]
    /\ pending \subseteq Sockets /\ owed \subseteq Sockets
    /\ published \in BOOLEAN
    /\ cutOff \subseteq Streams /\ lapses \in Nat /\ faults \in Nat

UserHolders(u) == {s \in Sockets : User(s) = u /\ handler[s] \in UserPhases}
TotalHolders == {s \in Sockets : handler[s] \in TotalPhases}

\* Until a counter key runs out, the counters never fall below the reservations that
\* handlers hold, whatever is accepted, refused, released, failing or crashing at once in
\* whatever process; and while nothing failed and no stream was cut off they are exact, so
\* nothing else leaks.
CountersCoverReservations ==
    lapses = 0 =>
        /\ \A u \in Users : userKey[u].n >= Cardinality(UserHolders(u))
        /\ totalKey.n >= Cardinality(TotalHolders)
        /\ (faults = 0 /\ cutOff = {} =>
              /\ \A u \in Users : userKey[u].n = Cardinality(UserHolders(u))
              /\ totalKey.n = Cardinality(TotalHolders))

\* So the caps hold: no more connections than allowed get past the limiter, per user and
\* in total over all processes, until a key runs out under connections that live longer.
Admitted == {s \in Sockets : handler[s] \in {"held", "serving"}}
CapsHold ==
    lapses = 0 =>
        /\ \A u \in Users : Cardinality({s \in Admitted : User(s) = u}) <= UserCap
        /\ Cardinality(Admitted) <= TotalCap

\* A feed has one open socket at most, however remounts, retries and late tickets overlap.
OneSocketPerFeed ==
    \A s, t \in Sockets :
        FeedOf[s] = FeedOf[t] /\ browser[s] = "open" /\ browser[t] = "open" => s = t

\* A retry timer is set only while the feed has no socket and asks for none: it never
\* closes a connection that works.
RetryOnlyWhenDown == \A f \in Feeds : armed[f] => current[f] = Nobody

\* Whenever a client is gone and its handler is not, a time comes when no handler outlives
\* its client: each leaves the broadcast set, gets the lock of its process and gives its
\* reservation back, unless it is a stream that was cut off.
GoneIsReleased ==
    (\E s \in Sockets : browser[s] = "shut" /\ handler[s] \notin {"none", "closed"}) ~>
        \A s \in Sockets : browser[s] = "shut" => handler[s] \in {"none", "closed"}

\* Once no process and no send has the published event any more, everyone who was being
\* served when it was published has been sent it, or has gone, unless something failed.
EventReachesAudience ==
    published /\ pending = {} /\ (\A h \in Hosts : ~inbox[h]) /\ faults = 0
        => \A s \in owed : browser[s] = "shut"

=============================================================================
