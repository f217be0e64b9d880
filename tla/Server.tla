------------------------------- MODULE Server -------------------------------
(***************************************************************************)
(* znet.BaseServer's tables of connections, as ztcp uses them: a goroutine  *)
(* per accepted connection that goes through HandleAccept, AddChannel and   *)
(* RunChannel; Close of a channel, which removes it; SetChannelAuth; and    *)
(* BaseClose.  A channel is its id.  The inside of a channel is module      *)
(* Channel; here its Close is closeOnce plus RemoveChannel.                 *)
(***************************************************************************)
EXTENDS Integers, FiniteSets

CONSTANTS Conns,       \* connections that arrive
          Users,       \* goroutines that call SetChannelAuth
          AuthIds,     \* authentication ids other than 0
          Closers,     \* goroutines that call BaseClose: the caller of Close, the watcher
          MaxConns,    \* values of maxConn; 0 is no limit
          None,        \* no channel
          MaxAuths     \* bound: SetChannelAuth calls of one user

ASSUME ConnsAssumption == IsFiniteSet(Conns) /\ None \notin Conns
ASSUME AuthAssumption == 0 \notin AuthIds
ASSUME BoundAssumption == MaxConns \subseteq Nat /\ MaxAuths \in Nat

VARIABLES
  maxConn,            \* set before the server starts
  listening,          \* the listener is open
  channels,           \* ids in the channels map
  authChannels,       \* authId -> id, or None
  connCount,
  authId,             \* the authId field of every channel
  cpc,                \* per connection: step of its goroutine
  xpc, xauth,         \* per channel: step of its Close, authId that RemoveChannel read
  upc, target, auth, mapped, auths,  \* SetChannelAuth, per user: step, arguments, entry read, calls
  bpc, visiting, visited, present,   \* BaseClose, per closer: step, channel being closed,
                                     \* channels visited, channels there at its start
  early,              \* history: channels closed before AddChannel stored them
  raced               \* history: ids for which two SetChannelAuth calls overlapped, or
                      \* whose mapping was deleted after it went to another channel

connv == <<channels, connCount, cpc>>
closev == <<xpc, xauth, early>>
authv == <<authChannels, authId>>
userv == <<upc, target, auth, mapped, auths>>
basev == <<maxConn, listening, bpc, visiting, visited, present>>
serverVars == <<connv, closev, authv, userv, basev, raced>>

ServerInit ==
  /\ maxConn \in MaxConns /\ listening = TRUE /\ channels = {} /\ connCount = 0
  /\ authChannels = [a \in AuthIds |-> None] /\ authId = [c \in Conns |-> 0]
  /\ cpc = [c \in Conns |-> "arriving"]
  /\ xpc = [c \in Conns |-> "open"] /\ xauth = [c \in Conns |-> 0]
  /\ upc = [u \in Users |-> "idle"] /\ target = [u \in Users |-> None] /\ auth = [u \in Users |-> 0]
  /\ mapped = [u \in Users |-> None] /\ auths = [u \in Users |-> 0]
  /\ bpc = [b \in Closers |-> "idle"] /\ visiting = [b \in Closers |-> None]
  /\ visited = [b \in Closers |-> {}] /\ present = [b \in Closers |-> {}]
  /\ early = {} /\ raced = {}

-----------------------------------------------------------------------------
(* The goroutine of a connection.                                           *)

ConnStep(c, from, to) == cpc[c] = from /\ cpc' = [cpc EXCEPT ![c] = to]

\* Accept, and HandleAccept's quick look at connCount.
Accept(c) ==
  /\ listening
  /\ ConnStep(c, "arriving", IF maxConn > 0 /\ connCount >= maxConn THEN "end" ELSE "onAccept")
  /\ UNCHANGED <<channels, connCount, closev, authv, userv, basev, raced>>

\* OnAccept takes the connection, or rejects it.
OnAccept(c) ==
  /\ ConnStep(c, "onAccept", "add") \/ ConnStep(c, "onAccept", "end")
  /\ UNCHANGED <<channels, connCount, closev, authv, userv, basev, raced>>

\* Mutant: the limit is compared with the count before it is raised.
AddChannelMutant(c) ==
  /\ connCount' = connCount + 1
  /\ ConnStep(c, "add", IF maxConn > 0 /\ connCount > maxConn THEN "undo" ELSE "store")
  /\ UNCHANGED <<channels, closev, authv, userv, basev, raced>>

\* AddChannel counts first and then looks whether that was one too many.
AddChannel(c) ==
  /\ connCount' = connCount + 1
  /\ ConnStep(c, "add", IF maxConn > 0 /\ connCount + 1 > maxConn THEN "undo" ELSE "store")
  /\ UNCHANGED <<channels, closev, authv, userv, basev, raced>>

\* Mutant: the count of a connection over the limit is not taken back.
AddUndoMutant(c) ==
  /\ ConnStep(c, "undo", "end")
  /\ UNCHANGED <<channels, connCount, closev, authv, userv, basev, raced>>

\* One too many: the count is taken back and the channel closed.  What follows is the
\* channel's own: its goroutine calls RunChannel on it all the same (module Channel).
AddUndo(c) ==
  /\ connCount' = connCount - 1
  /\ ConnStep(c, "undo", "end")
  /\ UNCHANGED <<channels, closev, authv, userv, basev, raced>>

AddStore(c) ==
  /\ channels' = channels \cup {c}
  /\ ConnStep(c, "store", "running")
  /\ UNCHANGED <<connCount, closev, authv, userv, basev, raced>>

\* The read loop ends: the peer went away, or the channel was closed.
RunEnds(c) ==
  /\ ConnStep(c, "running", "end")
  /\ UNCHANGED <<channels, connCount, closev, authv, userv, basev, raced>>

\* A rejected or finished connection is closed, and its goroutine waits for that.
ConnGone(c) ==
  /\ xpc[c] = "closed"
  /\ ConnStep(c, "end", "gone")
  /\ UNCHANGED <<channels, connCount, closev, authv, userv, basev, raced>>

-----------------------------------------------------------------------------
(* Close of a channel: closeOnce, then RemoveChannel.                       *)

CloseStep(c, from, to) == xpc[c] = from /\ xpc' = [xpc EXCEPT ![c] = to]

\* Close is called by the connection's own goroutine, by whoever got the channel
\* from OnAccept or found it in the map, or by BaseClose.
Close(c) ==
  /\ cpc[c] # "arriving"
  /\ CloseStep(c, "open", "remove")
  /\ early' = IF cpc[c] \in {"onAccept", "add", "store"} THEN early \cup {c} ELSE early
  /\ UNCHANGED <<connv, xauth, authv, userv, basev, raced>>

\* Mutant: the entry is loaded and not deleted.
RemoveChannelMutant(c) ==
  /\ CloseStep(c, "remove", IF c \in channels THEN "count" ELSE "closed")
  /\ UNCHANGED <<connv, xauth, early, authv, userv, basev, raced>>

\* channels.LoadAndDelete: a channel that is not there is not counted either.
RemoveChannel(c) ==
  /\ channels' = channels \ {c}
  /\ CloseStep(c, "remove", IF c \in channels THEN "count" ELSE "closed")
  /\ UNCHANGED <<connCount, cpc, xauth, early, authv, userv, basev, raced>>

RemoveCount(c) ==
  /\ CloseStep(c, "count", "auth")
  /\ connCount' = connCount - 1
  /\ UNCHANGED <<channels, cpc, xauth, early, authv, userv, basev, raced>>

\* authId is read; the mapping is looked at next, if there is one.
RemoveReadsAuth(c) ==
  /\ CloseStep(c, "auth", IF authId[c] # 0 THEN "mapping" ELSE "closed")
  /\ xauth' = [xauth EXCEPT ![c] = authId[c]]
  /\ UNCHANGED <<connv, early, authv, userv, basev, raced>>

\* Does the mapping still point to this channel?
RemoveLooksMapping(c) ==
  /\ CloseStep(c, "mapping", IF authChannels[xauth[c]] = c THEN "unmap" ELSE "closed")
  /\ xauth' = [xauth EXCEPT ![c] = IF authChannels[@] = c THEN @ ELSE 0]
  /\ UNCHANGED <<connv, early, authv, userv, basev, raced>>

RemoveUnmaps(c) ==
  /\ CloseStep(c, "unmap", "closed")
  /\ authChannels' = [authChannels EXCEPT ![xauth[c]] = None]
  /\ xauth' = [xauth EXCEPT ![c] = 0]
  /\ raced' = IF authChannels[xauth[c]] \in {None, c} THEN raced ELSE raced \cup {xauth[c]}
  /\ UNCHANGED <<connv, early, authId, userv, basev>>

-----------------------------------------------------------------------------
(* SetChannelAuth(target, auth).                                            *)

\* A step of u's call; the locals of a finished call are forgotten.
UserStep(u, from, to) ==
  /\ upc[u] = from /\ upc' = [upc EXCEPT ![u] = to]
  /\ IF to = "idle" THEN /\ target' = [target EXCEPT ![u] = None]
                         /\ auth' = [auth EXCEPT ![u] = 0]
                         /\ mapped' = [mapped EXCEPT ![u] = None]
                    ELSE UNCHANGED <<target, auth, mapped>>

\* u's call is for id a from now on; another call for it may be under way.
ForId(u, a) ==
  /\ auth' = [auth EXCEPT ![u] = a]
  /\ raced' = IF \E v \in Users \ {u} : auth[v] = a THEN raced \cup ({a} \ {0}) ELSE raced

\* A call for a channel in the map (others return at once).
SetChannelAuth(u, c, a) ==
  /\ auths[u] < MaxAuths /\ c \in channels
  /\ upc[u] = "idle" /\ upc' = [upc EXCEPT ![u] = IF a = 0 THEN "read" ELSE "prev"]
  /\ target' = [target EXCEPT ![u] = c]
  /\ ForId(u, a)
  /\ auths' = [auths EXCEPT ![u] = @ + 1]
  /\ UNCHANGED <<connv, closev, authv, mapped, basev>>

\* The channel that has the id now, if it is another one, ...
AuthPrev(u) ==
  /\ upc[u] = "prev"
  /\ upc' = [upc EXCEPT ![u] = IF authChannels[auth[u]] \in {None, target[u]} THEN "set" ELSE "evict"]
  /\ mapped' = [mapped EXCEPT ![u] = authChannels[auth[u]]]
  /\ UNCHANGED <<connv, closev, authv, target, auth, auths, basev, raced>>

\* Mutant: the channel that had the id keeps it.
AuthEvictsMutant(u) ==
  /\ UserStep(u, "evict", "set")
  /\ UNCHANGED <<connv, closev, authv, auths, basev, raced>>

\* ... loses it, ...
AuthEvicts(u) ==
  /\ UserStep(u, "evict", "set")
  /\ authId' = [authId EXCEPT ![mapped[u]] = 0]
  /\ UNCHANGED <<connv, closev, authChannels, auths, basev, raced>>

\* ... and the target gets it, first the field, then the mapping.
AuthSets(u) ==
  /\ UserStep(u, "set", "map")
  /\ authId' = [authId EXCEPT ![target[u]] = auth[u]]
  /\ UNCHANGED <<connv, closev, authChannels, auths, basev, raced>>

AuthMaps(u) ==
  /\ UserStep(u, "map", "idle")
  /\ authChannels' = [authChannels EXCEPT ![auth[u]] = target[u]]
  /\ UNCHANGED <<connv, closev, authId, auths, basev, raced>>

\* An authId of 0 clears the field, and the mapping if it points to the channel.
AuthReads(u) ==
  /\ upc[u] = "read" /\ upc' = [upc EXCEPT ![u] = "clear"]
  /\ ForId(u, authId[target[u]])
  /\ UNCHANGED <<connv, closev, authv, target, mapped, auths, basev>>

AuthClears(u) ==
  /\ UserStep(u, "clear", IF auth[u] = 0 THEN "idle" ELSE "look")
  /\ authId' = [authId EXCEPT ![target[u]] = 0]
  /\ UNCHANGED <<connv, closev, authChannels, auths, basev, raced>>

AuthLooksMapping(u) ==
  /\ UserStep(u, "look", IF authChannels[auth[u]] = target[u] THEN "unmap" ELSE "idle")
  /\ UNCHANGED <<connv, closev, authv, auths, basev, raced>>

AuthUnmaps(u) ==
  /\ UserStep(u, "unmap", "idle")
  /\ authChannels' = [authChannels EXCEPT ![auth[u]] = None]
  /\ UNCHANGED <<connv, closev, authId, auths, basev, raced>>

-----------------------------------------------------------------------------
(* BaseClose.                                                               *)

BaseStep(b, from, to) == bpc[b] = from /\ bpc' = [bpc EXCEPT ![b] = to]

\* The listener is closed; connections already accepted go on.
BaseClose(b) ==
  /\ BaseStep(b, "idle", "range")
  /\ listening' = FALSE /\ present' = [present EXCEPT ![b] = channels]
  /\ UNCHANGED <<connv, closev, authv, userv, maxConn, visiting, visited, raced>>

\* Range visits a channel and closes it; doClose returns at once if somebody else
\* has begun to, ...
BaseVisits(b, c) ==
  /\ BaseStep(b, "range", IF xpc[c] = "open" THEN "closing" ELSE "range")
  /\ c \in channels \ visited[b]
  /\ visited' = [visited EXCEPT ![b] = @ \cup {c}]
  /\ visiting' = [visiting EXCEPT ![b] = IF xpc[c] = "open" THEN c ELSE None]
  /\ xpc' = [xpc EXCEPT ![c] = IF @ = "open" THEN "remove" ELSE @]
  /\ UNCHANGED <<connv, xauth, early, authv, userv, maxConn, listening, present, raced>>

\* ... goes on when it has closed it, ...
BaseClosed(b) ==
  /\ BaseStep(b, "closing", "range")
  /\ xpc[visiting[b]] = "closed"
  /\ visiting' = [visiting EXCEPT ![b] = None]
  /\ UNCHANGED <<connv, closev, authv, userv, maxConn, listening, visited, present, raced>>

\* Mutant: Range is left after the first channel.
BaseEndsMutant(b) ==
  /\ BaseStep(b, "range", "done") /\ visited[b] # {}
  /\ UNCHANGED <<connv, closev, authv, userv, maxConn, listening, visiting, visited, present, raced>>

\* ... and ends when it has met all that were there all the time.  It may or may
\* not meet one that was stored meanwhile.
BaseEnds(b) ==
  /\ BaseStep(b, "range", "done")
  /\ channels \cap present[b] \subseteq visited[b]
  /\ UNCHANGED <<connv, closev, authv, userv, maxConn, listening, visiting, visited, present, raced>>

-----------------------------------------------------------------------------
Connection(c) ==
  Accept(c) \/ OnAccept(c) \/ AddChannel(c) \/ AddUndo(c) \/ AddStore(c) \/ RunEnds(c) \/ ConnGone(c)

Closing(c) ==
  \/ RemoveChannel(c) \/ RemoveCount(c) \/ RemoveReadsAuth(c)
  \/ RemoveLooksMapping(c) \/ RemoveUnmaps(c)

Authenticating(u) ==
  \/ AuthPrev(u) \/ AuthEvicts(u) \/ AuthSets(u) \/ AuthMaps(u)
  \/ AuthReads(u) \/ AuthClears(u) \/ AuthLooksMapping(u) \/ AuthUnmaps(u)

Shutdown(b) == BaseClose(b) \/ BaseClosed(b) \/ BaseEnds(b) \/ \E c \in Conns : BaseVisits(b, c)

ServerNext ==
  \/ \E c \in Conns : Connection(c) \/ Close(c) \/ Closing(c)
  \/ \E u \in Users : Authenticating(u)
  \/ \E u \in Users, c \in Conns, a \in AuthIds \cup {0} : SetChannelAuth(u, c, a)
  \/ \E b \in Closers : Shutdown(b)

ServerSpec == ServerInit /\ [][ServerNext]_serverVars

-----------------------------------------------------------------------------
(* Properties.                                                              *)

ConnSteps == {"arriving", "onAccept", "add", "undo", "store", "running", "end", "gone"}
CloseSteps == {"open", "remove", "count", "auth", "mapping", "unmap", "closed"}
UserSteps == {"idle", "prev", "evict", "set", "map", "read", "clear", "look", "unmap"}
BaseSteps == {"idle", "range", "closing", "done"}

\* Every variable has its type.
TypeOK ==
  /\ maxConn \in MaxConns /\ listening \in BOOLEAN /\ channels \in SUBSET Conns /\ connCount \in Int
  /\ authChannels \in [AuthIds -> Conns \cup {None}] /\ authId \in [Conns -> AuthIds \cup {0}]
  /\ cpc \in [Conns -> ConnSteps]
  /\ xpc \in [Conns -> CloseSteps]
  /\ xauth \in [Conns -> AuthIds \cup {0}]
  /\ upc \in [Users -> UserSteps]
  /\ target \in [Users -> Conns \cup {None}] /\ auth \in [Users -> AuthIds \cup {0}]
  /\ mapped \in [Users -> Conns \cup {None}] /\ auths \in [Users -> Nat]
  /\ bpc \in [Closers -> BaseSteps] /\ visiting \in [Closers -> Conns \cup {None}]
  /\ visited \in [Closers -> SUBSET Conns] /\ present \in [Closers -> SUBSET Conns] 
  /\ early \in SUBSET Conns /\ raced \in SUBSET AuthIds

Adding == {c \in Conns : cpc[c] \in {"undo", "store"}}
Removing == {c \in Conns : xpc[c] = "count"}

\* connCount is the number of channels in the map plus the adds and removals that
\* are between their two steps: nothing is counted twice or forgotten.
CountExact == connCount = Cardinality(channels) + Cardinality(Adding) + Cardinality(Removing)

\* HandleAccept's look is stale when AddChannel counts, but the map never holds
\* more than maxConn channels.
MaxConnRespected == maxConn > 0 => Cardinality(channels) <= maxConn

\* A connection that is over leaves nothing in the map, unless it was closed before
\* AddChannel stored it.
NoLeftover == \A c \in Conns \ early : cpc[c] = "gone" => c \notin channels

\* A connection that is over leaves nothing in the map: "自动清理（从 map 中移除）",
\* the deferred Close of ztcp's connection goroutine says.  This does NOT hold for a
\* channel closed before AddChannel stores it (early); no run asserts it.
NoGhost == \A c \in Conns : cpc[c] = "gone" => c \notin channels

\* When BaseClose returns, every channel that was in the map when it began has been
\* closed, by it or by somebody else.
BaseCloseCloses == \A b \in Closers : bpc[b] = "done" => \A c \in present[b] : xpc[c] # "open"

\* While no SetChannelAuth is under way, a channel in the map that carries an id is
\* the one the id maps to: ids have one carrier, and a connection that closes or loses
\* its id does not delete the mapping of the survivor (regression_test.go:80).  Excepted
\* are the ids in raced, for which two calls overlapped or RemoveChannel deleted a
\* mapping that had gone to another channel after it looked.
CarrierIsFound ==
  (\A u \in Users : upc[u] = "idle") =>
    \A c \in channels : authId[c] # 0 /\ authId[c] \notin raced => authChannels[authId[c]] = c

\* The same for every id, as regression_test.go:80 has it.  This does NOT hold, and no
\* run asserts it: RemoveChannel looks at the mapping and deletes it in a second step.
SurvivorKeepsMapping ==
  (\A u \in Users : upc[u] = "idle") =>
    \A c \in channels : authId[c] # 0 => authChannels[authId[c]] = c
=============================================================================
