-------------------------- MODULE ConnectionProofs --------------------------
(***************************************************************************)
(* Proofs about the connections of a server: the tables they are kept in   *)
(* (Server), and the way of their bytes to the read callback (RingBuffer   *)
(* and ReadPath).  The two have no state in common; they share this module *)
(* and nothing else.                                                       *)
(*                                                                         *)
(* Server, for any finite number of connections, any users, authentication *)
(* ids, closers and limits: CountExact, MaxConnRespected, NoLeftover and   *)
(* BaseCloseCloses follow from one inductive invariant, CarrierIsFound     *)
(* from a second one about the calls of SetChannelAuth.                    *)
(*                                                                         *)
(* ReadPath, for any ring size, growth steps, configurations and number of *)
(* frames: StreamIntact and ClosedForCause follow from an invariant that   *)
(* says where each byte is that was sent and not yet consumed.  It rests   *)
(* on lemmas about remainders and powers of two, about what the operators  *)
(* of RingBuffer keep, and about the wire format.                          *)
(***************************************************************************)
EXTENDS Server, ReadPath, WellFoundedInduction, FiniteSetTheorems, SequenceTheorems, TLAPS

-----------------------------------------------------------------------------
(* Part 1: the tables of BaseServer.                                        *)

-----------------------------------------------------------------------------
(* The inductive invariant of the tables.                                   *)

\* A call or a removal that works on an id or a channel has one.
AuthLocals ==
  /\ \A u \in Users : /\ upc[u] = "idle" => auth[u] = 0
                      /\ upc[u] # "idle" => target[u] \in Conns
                      /\ upc[u] \in {"prev", "evict", "set", "map", "look", "unmap"} => auth[u] # 0
                      /\ upc[u] = "evict" => mapped[u] \in Conns
  /\ \A c \in Conns : xpc[c] \in {"mapping", "unmap"} => xauth[c] # 0

Storing == {c \in Conns : cpc[c] = "store"}

\* Who has passed AddChannel's check has a place, in the map or on the way to it.
PlacesHeld == maxConn > 0 => Cardinality(channels) + Cardinality(Storing) <= maxConn

\* Only AddStore puts a channel into the map.
StoredRuns == \A c \in channels : cpc[c] \in {"running", "end", "gone"}

\* A channel that is closed, and was not closed early, will not be stored any more,
\* and is out of the map once RemoveChannel has looked.
ClosedLeaves ==
  \A c \in Conns \ early :
    /\ xpc[c] # "open" => cpc[c] \notin {"arriving", "onAccept", "add", "store"}
    /\ xpc[c] \notin {"open", "remove"} => c \notin channels
    /\ cpc[c] = "gone" => xpc[c] = "closed"

\* What BaseClose found at its start is in the map or closed; what it visited, and
\* at its end all it found, is closed.
ShutdownCloses ==
  \A b \in Closers :
    /\ \A c \in present[b] : c \in channels \/ xpc[c] # "open"
    /\ \A c \in visited[b] : xpc[c] # "open"
    /\ bpc[b] = "done" => \A c \in present[b] : xpc[c] # "open"

ServerInv ==
  /\ TypeOK /\ AuthLocals
  /\ CountExact /\ PlacesHeld /\ StoredRuns /\ ClosedLeaves /\ ShutdownCloses

-----------------------------------------------------------------------------
(* The invariant of the authentication ids.                                 *)

\* Nobody authenticates a channel that is not stored yet.
Unborn ==
  \A c \in Conns : cpc[c] \in {"arriving", "onAccept", "add", "undo", "store"} =>
    authId[c] = 0 /\ \A u \in Users : target[u] # c

\* A channel that RemoveChannel took out of the map does not come back.
Left ==
  \A c \in Conns : xpc[c] \in {"count", "auth", "mapping", "unmap"} =>
    c \notin channels /\ cpc[c] \in {"running", "end", "gone"}

\* At most one call is under way for an id that is not in raced.
OneCall ==
  \A u, v \in Users : auth[u] # 0 /\ auth[u] \notin raced /\ auth[v] = auth[u] => v = u

\* What a call found out still holds: who evicts has the owner, who has evicted left
\* nobody with the id, who cleared and looked deletes no other channel's mapping.
CallHolds(u) ==
  /\ upc[u] = "evict" => authChannels[auth[u]] \in {mapped[u], None}
  /\ upc[u] \in {"set", "map"} => \A c \in channels : authId[c] = auth[u] => c = target[u]
  /\ upc[u] \in {"look", "unmap"} => authId[target[u]] # auth[u]
  /\ upc[u] = "unmap" => authChannels[auth[u]] \in {target[u], None}

Calls == \A u \in Users : auth[u] \notin raced => CallHolds(u)

\* Who carries an id is found by it, or a call is about to make it so.
Carried(c) ==
  \/ authChannels[authId[c]] = c
  \/ \E u \in Users : upc[u] = "map" /\ auth[u] = authId[c] /\ target[u] = c

Carriers == \A c \in channels : authId[c] # 0 /\ authId[c] \notin raced => Carried(c)

AuthInv == Unborn /\ Left /\ OneCall /\ Calls /\ Carriers

-----------------------------------------------------------------------------
(* Counting.                                                                *)

\* Sets of connections have a cardinality, and a subset has no larger one.
LEMMA CardOfConns ==
  ASSUME NEW S \in SUBSET Conns
  PROVE  /\ IsFiniteSet(S) /\ Cardinality(S) \in Nat
         /\ \A T \in SUBSET S : Cardinality(T) <= Cardinality(S)
  BY ConnsAssumption, FS_Subset, FS_CardinalityType

\* One more connection counts one more.
LEMMA CardWith ==
  ASSUME NEW S \in SUBSET Conns, NEW c \in Conns, c \notin S
  PROVE  Cardinality(S \cup {c}) = Cardinality(S) + 1
  BY CardOfConns, FS_AddElement

\* One less connection counts one less.
LEMMA CardWithout ==
  ASSUME NEW S \in SUBSET Conns, NEW c \in S
  PROVE  Cardinality(S \ {c}) = Cardinality(S) - 1
  BY CardOfConns, FS_RemoveElement

-----------------------------------------------------------------------------
(* The parts of the invariant.                                              *)

\* The initial state satisfies the invariant: nothing is stored, counted or closed.
LEMMA InitServes == ServerInit => ServerInv
<1> SUFFICES ASSUME ServerInit PROVE ServerInv
  OBVIOUS
<1>1. TypeOK
  BY BoundAssumption DEF ServerInit, TypeOK, ConnSteps, CloseSteps, UserSteps, BaseSteps
<1>2. Adding = {} /\ Removing = {} /\ Storing = {} /\ channels = {}
  BY DEF ServerInit, Adding, Removing, Storing
<1>3. CountExact /\ PlacesHeld
  BY <1>2, FS_EmptySet, BoundAssumption DEF ServerInit, CountExact, PlacesHeld
<1>4. AuthLocals /\ StoredRuns /\ ClosedLeaves /\ ShutdownCloses
  BY DEF ServerInit, AuthLocals, StoredRuns, ClosedLeaves, ShutdownCloses
<1> QED
  BY <1>1, <1>3, <1>4 DEF ServerInv

\* Every variable keeps its type, and who works on an id or a channel has one.
LEMMA TypeStep == ServerInv /\ [ServerNext]_serverVars => TypeOK' /\ AuthLocals'
<1> SUFFICES ASSUME TypeOK, AuthLocals, [ServerNext]_serverVars PROVE TypeOK' /\ AuthLocals'
  BY DEF ServerInv
<1> USE AuthAssumption, ConnsAssumption, BoundAssumption
<1>1. ASSUME NEW c \in Conns, Connection(c) PROVE TypeOK' /\ AuthLocals'
  <2>1. UNCHANGED <<closev, authv, userv, basev, raced>>
    BY <1>1 DEF Connection, Accept, OnAccept, AddChannel, AddUndo, AddStore, RunEnds, ConnGone
  <2>2. /\ channels' \in SUBSET Conns /\ connCount' \in Int /\ cpc' \in [Conns -> ConnSteps]
    BY <1>1 DEF TypeOK, Connection, Accept, OnAccept, AddChannel, AddUndo, AddStore, RunEnds, ConnGone,
       ConnStep, ConnSteps
  <2> QED
    BY <2>1, <2>2 DEF TypeOK, AuthLocals, closev, authv, userv, basev
<1>2. ASSUME NEW c \in Conns, Close(c) \/ Closing(c) PROVE TypeOK' /\ AuthLocals'
  <2>1. UNCHANGED <<cpc, authId, userv, basev>>
    BY <1>2 DEF Closing, Close, RemoveChannel, RemoveCount, RemoveReadsAuth, RemoveLooksMapping,
       RemoveUnmaps, connv, authv
  <2>2. /\ channels' \in SUBSET Conns /\ connCount' \in Int /\ early' \in SUBSET Conns
        /\ authChannels' \in [AuthIds -> Conns \cup {None}]
    BY <1>2 DEF TypeOK, Closing, Close, RemoveChannel, RemoveCount, RemoveReadsAuth, RemoveLooksMapping,
       RemoveUnmaps, connv, authv
  <2>3. /\ xpc' \in [Conns -> CloseSteps] /\ xauth' \in [Conns -> AuthIds \cup {0}]
        /\ \A d \in Conns : xpc'[d] \in {"mapping", "unmap"} => xauth'[d] # 0
    BY <1>2 DEF TypeOK, AuthLocals, Closing, Close, RemoveChannel, RemoveCount, RemoveReadsAuth,
       RemoveLooksMapping, RemoveUnmaps, CloseStep, CloseSteps
  <2>4. raced' \in SUBSET AuthIds
    BY <1>2 DEF TypeOK, AuthLocals, Closing, Close, RemoveChannel, RemoveCount, RemoveReadsAuth,
       RemoveLooksMapping, RemoveUnmaps, CloseStep
  <2> QED
    BY <2>1, <2>2, <2>3, <2>4 DEF TypeOK, AuthLocals, userv, basev
<1>3. ASSUME NEW u \in Users,
             Authenticating(u) \/ \E c \in Conns, a \in AuthIds \cup {0} : SetChannelAuth(u, c, a)
      PROVE  TypeOK' /\ AuthLocals'
  <2>1. UNCHANGED <<connv, closev, basev>>
    BY <1>3 DEF Authenticating, AuthPrev, AuthEvicts, AuthSets, AuthMaps, AuthReads, AuthClears,
       AuthLooksMapping, AuthUnmaps, SetChannelAuth
  <2>2. /\ upc' \in [Users -> UserSteps] /\ target' \in [Users -> Conns \cup {None}]
        /\ auth' \in [Users -> AuthIds \cup {0}] /\ mapped' \in [Users -> Conns \cup {None}]
        /\ auths' \in [Users -> Nat]
    BY <1>3 DEF TypeOK, AuthLocals, Authenticating, AuthPrev, AuthEvicts, AuthSets, AuthMaps, AuthReads,
       ForId, AuthClears, AuthLooksMapping, AuthUnmaps, SetChannelAuth, UserStep, UserSteps
  <2>3. raced' \in SUBSET AuthIds
    BY <1>3 DEF TypeOK, AuthLocals, Authenticating, AuthPrev, AuthEvicts, AuthSets, AuthMaps, AuthReads,
       ForId, AuthClears, AuthLooksMapping, AuthUnmaps, SetChannelAuth
  <2>4. authChannels' \in [AuthIds -> Conns \cup {None}] /\ authId' \in [Conns -> AuthIds \cup {0}]
    BY <1>3 DEF TypeOK, AuthLocals, Authenticating, AuthPrev, AuthEvicts, AuthSets, AuthMaps, AuthReads,
       ForId, AuthClears, AuthLooksMapping, AuthUnmaps, SetChannelAuth, UserStep, authv
  <2>5. \A v \in Users : /\ upc'[v] = "idle" => auth'[v] = 0
                         /\ upc'[v] # "idle" => target'[v] \in Conns
                         /\ upc'[v] \in {"prev", "evict", "set", "map", "look", "unmap"} => auth'[v] # 0
                         /\ upc'[v] = "evict" => mapped'[v] \in Conns
    BY <1>3 DEF TypeOK, AuthLocals, Authenticating, AuthPrev, AuthEvicts, AuthSets, AuthMaps, AuthReads,
       ForId, AuthClears, AuthLooksMapping, AuthUnmaps, SetChannelAuth, UserStep
  <2> QED
    BY <2>1, <2>2, <2>3, <2>4, <2>5 DEF TypeOK, AuthLocals, connv, closev, basev
<1>4. ASSUME NEW b \in Closers, Shutdown(b) PROVE TypeOK' /\ AuthLocals'
  <2>1. CASE BaseClose(b)
    BY <2>1 DEF TypeOK, AuthLocals, BaseClose, BaseStep, BaseSteps, connv, closev, authv, userv
  <2>2. CASE BaseClosed(b)
    BY <2>2 DEF TypeOK, AuthLocals, BaseClosed, BaseStep, BaseSteps, connv, closev, authv, userv
  <2>3. CASE BaseEnds(b)
    BY <2>3 DEF TypeOK, AuthLocals, BaseEnds, BaseStep, BaseSteps, connv, closev, authv, userv
  <2>4. ASSUME NEW c \in Conns, BaseVisits(b, c) PROVE TypeOK' /\ AuthLocals'
    BY <2>4, SMTT(60) DEF TypeOK, AuthLocals, BaseVisits, BaseStep, BaseSteps, CloseSteps, connv, authv, userv
  <2> QED
    BY <1>4, <2>1, <2>2, <2>3, <2>4 DEF Shutdown
<1>5. CASE UNCHANGED serverVars
  BY <1>5 DEF TypeOK, AuthLocals, serverVars, connv, closev, authv, userv, basev
<1> QED
  BY <1>1, <1>2, <1>3, <1>4, <1>5 DEF ServerNext

\* SetChannelAuth does not touch what the other parts speak of.
LEMMA AuthFrame ==
  ASSUME NEW u \in Users, Authenticating(u) \/ \E c \in Conns, a \in AuthIds \cup {0} : SetChannelAuth(u, c, a)
  PROVE  UNCHANGED <<connv, closev, basev>>
  BY DEF Authenticating, AuthPrev, AuthEvicts, AuthSets, AuthMaps, AuthReads, AuthClears,
     AuthLooksMapping, AuthUnmaps, SetChannelAuth

\* The count and the places are kept by every step of a connection's goroutine.
LEMMA CountOfConnection ==
  ASSUME ServerInv, NEW c \in Conns, Connection(c)
  PROVE  CountExact' /\ PlacesHeld'
<1> USE DEF ServerInv
<1>0. /\ cpc \in [Conns -> ConnSteps] /\ channels \in SUBSET Conns /\ connCount \in Int /\ maxConn \in Nat
      /\ Adding \in SUBSET Conns /\ Storing \in SUBSET Conns /\ Storing \in SUBSET Adding
      /\ Removing \in SUBSET Conns
  BY BoundAssumption DEF TypeOK, Adding, Storing, Removing
<1>1. /\ Cardinality(channels) \in Nat /\ Cardinality(Adding) \in Nat /\ Cardinality(Storing) \in Nat
      /\ Cardinality(Removing) \in Nat /\ Cardinality(Storing) <= Cardinality(Adding)
  BY <1>0, CardOfConns
<1>2. Removing' = Removing /\ maxConn' = maxConn
  BY DEF Connection, Accept, OnAccept, AddChannel, AddUndo, AddStore, RunEnds, ConnGone,
     closev, basev, Removing
<1>3. CASE Accept(c) \/ OnAccept(c) \/ RunEnds(c) \/ ConnGone(c)
  <2>1. Adding' = Adding /\ Storing' = Storing /\ channels' = channels /\ connCount' = connCount
    BY <1>3, <1>0 DEF Accept, OnAccept, RunEnds, ConnGone, ConnStep, Adding, Storing
  <2> QED
    BY <2>1, <1>2 DEF CountExact, PlacesHeld
<1>4. CASE AddChannel(c)
  <2>1. Adding' = Adding \cup {c} /\ c \notin Adding /\ channels' = channels /\ connCount' = connCount + 1
    BY <1>4, <1>0 DEF AddChannel, ConnStep, Adding
  <2>2. Cardinality(Adding') = Cardinality(Adding) + 1
    BY <2>1, <1>0, CardWith
  <2>3. CountExact'
    BY <2>1, <2>2, <1>0, <1>1, <1>2 DEF CountExact
  <2>4. CASE maxConn > 0 /\ connCount + 1 > maxConn
    <3>1. Storing' = Storing
      BY <2>4, <1>4, <1>0 DEF AddChannel, ConnStep, Storing
    <3> QED
      BY <3>1, <2>1, <2>3, <1>2 DEF PlacesHeld
  <2>5. CASE ~(maxConn > 0 /\ connCount + 1 > maxConn)
    <3>1. Storing' = Storing \cup {c} /\ c \notin Storing
      BY <2>5, <1>4, <1>0 DEF AddChannel, ConnStep, Storing
    <3>2. Cardinality(Storing') = Cardinality(Storing) + 1
      BY <3>1, <1>0, CardWith
    <3> QED
      BY <3>2, <2>1, <2>3, <2>5, <1>0, <1>1, <1>2 DEF CountExact, PlacesHeld
  <2> QED
    BY <2>4, <2>5
<1>5. CASE AddUndo(c)
  <2>1. Adding' = Adding \ {c} /\ c \in Adding /\ Storing' = Storing /\ channels' = channels /\ connCount' = connCount - 1
    BY <1>5, <1>0 DEF AddUndo, ConnStep, Adding, Storing
  <2>2. Cardinality(Adding') = Cardinality(Adding) - 1
    BY <2>1, <1>0, CardWithout
  <2> QED
    BY <2>1, <2>2, <1>0, <1>1, <1>2 DEF CountExact, PlacesHeld
<1>6. CASE AddStore(c)
  <2>1. /\ Adding' = Adding \ {c} /\ c \in Adding /\ Storing' = Storing \ {c} /\ c \in Storing
        /\ channels' = channels \cup {c} /\ connCount' = connCount
    BY <1>6, <1>0 DEF AddStore, ConnStep, Adding, Storing
  <2>2. c \notin channels
    BY <1>6, <1>0 DEF AddStore, ConnStep, StoredRuns
  <2>3. /\ Cardinality(Adding') = Cardinality(Adding) - 1 /\ Cardinality(Storing') = Cardinality(Storing) - 1
        /\ Cardinality(channels') = Cardinality(channels) + 1
    BY <2>1, <2>2, <1>0, CardWith, CardWithout
  <2> QED
    BY <2>1, <2>3, <1>0, <1>1, <1>2 DEF CountExact, PlacesHeld
<1> QED
  BY <1>3, <1>4, <1>5, <1>6 DEF Connection

\* The count and the places are kept by every step of a Close.
LEMMA CountOfClose ==
  ASSUME ServerInv, NEW c \in Conns, Close(c) \/ Closing(c)
  PROVE  CountExact' /\ PlacesHeld'
<1> USE DEF ServerInv
<1>0. /\ xpc \in [Conns -> CloseSteps] /\ channels \in SUBSET Conns /\ connCount \in Int /\ maxConn \in Nat
      /\ Adding \in SUBSET Conns /\ Storing \in SUBSET Conns /\ Removing \in SUBSET Conns
  BY BoundAssumption DEF TypeOK, Adding, Storing, Removing
<1>1. /\ Cardinality(channels) \in Nat /\ Cardinality(Adding) \in Nat /\ Cardinality(Storing) \in Nat
      /\ Cardinality(Removing) \in Nat
  BY <1>0, CardOfConns
<1>2. Adding' = Adding /\ Storing' = Storing /\ maxConn' = maxConn
  BY DEF Close, Closing, RemoveChannel, RemoveCount, RemoveReadsAuth, RemoveLooksMapping, RemoveUnmaps,
     connv, basev, Adding, Storing
<1>3. CASE Close(c) \/ RemoveReadsAuth(c) \/ RemoveLooksMapping(c) \/ RemoveUnmaps(c)
  <2>1. Removing' = Removing /\ channels' = channels /\ connCount' = connCount
    BY <1>3, <1>0 DEF Close, RemoveReadsAuth, RemoveLooksMapping, RemoveUnmaps, CloseStep, connv, Removing
  <2> QED
    BY <2>1, <1>2 DEF CountExact, PlacesHeld
<1>4. CASE RemoveChannel(c) /\ c \in channels
  <2>1. Removing' = Removing \cup {c} /\ c \notin Removing /\ channels' = channels \ {c} /\ connCount' = connCount
    BY <1>4, <1>0 DEF RemoveChannel, CloseStep, Removing
  <2>2. /\ Cardinality(Removing') = Cardinality(Removing) + 1
        /\ Cardinality(channels') = Cardinality(channels) - 1
    BY <2>1, <1>4, <1>0, CardWith, CardWithout
  <2> QED
    BY <2>1, <2>2, <1>0, <1>1, <1>2 DEF CountExact, PlacesHeld
<1>5. CASE RemoveChannel(c) /\ c \notin channels
  <2>1. Removing' = Removing /\ channels' = channels /\ connCount' = connCount
    BY <1>5, <1>0 DEF RemoveChannel, CloseStep, Removing
  <2> QED
    BY <2>1, <1>2 DEF CountExact, PlacesHeld
<1>6. CASE RemoveCount(c)
  <2>1. Removing' = Removing \ {c} /\ c \in Removing /\ channels' = channels /\ connCount' = connCount - 1
    BY <1>6, <1>0 DEF RemoveCount, CloseStep, Removing
  <2>2. Cardinality(Removing') = Cardinality(Removing) - 1
    BY <2>1, <1>0, CardWithout
  <2> QED
    BY <2>1, <2>2, <1>0, <1>1, <1>2 DEF CountExact, PlacesHeld
<1> QED
  BY <1>3, <1>4, <1>5, <1>6 DEF Closing

\* BaseClose changes neither the map nor the counter.
LEMMA CountOfShutdown ==
  ASSUME ServerInv, NEW b \in Closers, Shutdown(b)
  PROVE  CountExact' /\ PlacesHeld'
<1>1. xpc \in [Conns -> CloseSteps]
  BY DEF ServerInv, TypeOK
<1>2. Removing' = Removing
  BY <1>1 DEF Shutdown, BaseClose, BaseClosed, BaseEnds, BaseVisits, closev, Removing
<1>3. UNCHANGED <<connv, maxConn>>
  BY DEF Shutdown, BaseClose, BaseClosed, BaseEnds, BaseVisits, basev
<1> QED
  BY <1>2, <1>3 DEF ServerInv, CountExact, PlacesHeld, connv, Adding, Storing

\* Only AddStore fills the map, and then the connection runs.
LEMMA StoredStep ==
  ASSUME ServerInv, [ServerNext]_serverVars
  PROVE  StoredRuns'
<1> USE DEF ServerInv
<1>0. cpc \in [Conns -> ConnSteps] /\ channels \in SUBSET Conns
  BY DEF TypeOK
<1>1. ASSUME NEW c \in Conns, Connection(c) PROVE StoredRuns'
  BY <1>0, <1>1 DEF StoredRuns, Connection, Accept, OnAccept, AddChannel, AddUndo, AddStore, RunEnds,
     ConnGone, ConnStep
<1>2. ASSUME NEW c \in Conns, Close(c) \/ Closing(c) PROVE StoredRuns'
  BY <1>0, <1>2 DEF StoredRuns, Closing, Close, RemoveChannel, RemoveCount, RemoveReadsAuth,
     RemoveLooksMapping, RemoveUnmaps, connv
<1>3. ASSUME NEW b \in Closers, Shutdown(b) PROVE StoredRuns'
  BY <1>3 DEF StoredRuns, Shutdown, BaseClose, BaseClosed, BaseEnds, BaseVisits, connv
<1>4. CASE UNCHANGED <<connv, closev, basev>>
  BY <1>4 DEF StoredRuns, connv
<1> QED
  BY <1>1, <1>2, <1>3, <1>4, AuthFrame DEF ServerNext, serverVars

\* A closed channel leaves the map.
LEMMA ClosedStep ==
  ASSUME ServerInv, [ServerNext]_serverVars
  PROVE  ClosedLeaves'
<1> USE DEF ServerInv
<1>0. /\ cpc \in [Conns -> ConnSteps] /\ xpc \in [Conns -> CloseSteps] /\ channels \in SUBSET Conns
      /\ early \in SUBSET Conns
  BY DEF TypeOK
<1>1. ASSUME NEW c \in Conns, Connection(c) PROVE ClosedLeaves'
  <2> SUFFICES ASSUME NEW d \in Conns \ early
               PROVE  /\ xpc[d] # "open" => cpc'[d] \notin {"arriving", "onAccept", "add", "store"}
                      /\ xpc[d] \notin {"open", "remove"} => d \notin channels'
                      /\ cpc'[d] = "gone" => xpc[d] = "closed"
    BY <1>1 DEF ClosedLeaves, Connection, Accept, OnAccept, AddChannel, AddUndo, AddStore, RunEnds,
       ConnGone, closev
  <2> QED
    BY <1>0, <1>1 DEF ClosedLeaves, Connection, Accept, OnAccept, AddChannel, AddUndo, AddStore, RunEnds,
       ConnGone, ConnStep
<1>2. ASSUME NEW c \in Conns, Close(c) \/ Closing(c) PROVE ClosedLeaves'
  BY <1>0, <1>2 DEF ClosedLeaves, Closing, Close, RemoveChannel, RemoveCount, RemoveReadsAuth,
     RemoveLooksMapping, RemoveUnmaps, CloseStep, connv
<1>3. ASSUME NEW b \in Closers, Shutdown(b) PROVE ClosedLeaves'
  BY <1>0, <1>3 DEF ClosedLeaves, StoredRuns, Shutdown, BaseClose, BaseClosed, BaseEnds, BaseVisits,
     connv, closev
<1>4. CASE UNCHANGED <<connv, closev, basev>>
  BY <1>4 DEF ClosedLeaves, connv, closev
<1> QED
  BY <1>1, <1>2, <1>3, <1>4, AuthFrame DEF ServerNext, serverVars

\* No step opens a closed channel again, and BaseClose closes what it found.
LEMMA ShutdownStep ==
  ASSUME ServerInv, [ServerNext]_serverVars
  PROVE  ShutdownCloses'
<1> USE DEF ServerInv
<1>0. /\ xpc \in [Conns -> CloseSteps] /\ channels \in SUBSET Conns
      /\ bpc \in [Closers -> BaseSteps] /\ visited \in [Closers -> SUBSET Conns] /\ present \in [Closers -> SUBSET Conns]
  BY DEF TypeOK
<1>1. ASSUME NEW c \in Conns, Connection(c) PROVE ShutdownCloses'
  BY <1>0, <1>1 DEF ShutdownCloses, Connection, Accept, OnAccept, AddChannel, AddUndo, AddStore, RunEnds,
     ConnGone, closev, basev
<1>2. ASSUME NEW c \in Conns, Close(c) \/ Closing(c) PROVE ShutdownCloses'
  BY <1>0, <1>2 DEF ShutdownCloses, Closing, Close, RemoveChannel, RemoveCount, RemoveReadsAuth,
     RemoveLooksMapping, RemoveUnmaps, CloseStep, connv, basev
<1>3. ASSUME NEW b \in Closers, Shutdown(b) PROVE ShutdownCloses'
  <2>1. CASE BaseClose(b)
    BY <1>0, <2>1 DEF ShutdownCloses, BaseClose, BaseStep, connv, closev
  <2>2. CASE BaseClosed(b)
    BY <1>0, <2>2 DEF ShutdownCloses, BaseClosed, BaseStep, connv, closev
  <2>3. CASE BaseEnds(b)
    BY <1>0, <2>3 DEF ShutdownCloses, BaseEnds, BaseStep, connv, closev
  <2>4. ASSUME NEW c \in Conns, BaseVisits(b, c) PROVE ShutdownCloses'
    BY <1>0, <2>4 DEF ShutdownCloses, BaseVisits, BaseStep, connv
  <2> QED
    BY <1>3, <2>1, <2>2, <2>3, <2>4 DEF Shutdown
<1>4. CASE UNCHANGED <<connv, closev, basev>>
  BY <1>4 DEF ShutdownCloses, connv, closev, basev
<1> QED
  BY <1>1, <1>2, <1>3, <1>4, AuthFrame DEF ServerNext, serverVars

\* Every step keeps the count and the places.
LEMMA CountStep ==
  ASSUME ServerInv, [ServerNext]_serverVars
  PROVE  CountExact' /\ PlacesHeld'
<1>1. ASSUME UNCHANGED <<connv, closev, basev>> PROVE CountExact' /\ PlacesHeld'
  BY <1>1 DEF ServerInv, CountExact, PlacesHeld, Adding, Removing, Storing, connv, closev, basev
<1> QED
  BY <1>1, CountOfConnection, CountOfClose, CountOfShutdown, AuthFrame DEF ServerNext, serverVars

-----------------------------------------------------------------------------
(* The authentication ids.                                                  *)

\* At the start nobody has an id.
LEMMA AuthInit == ServerInit => AuthInv
  BY AuthAssumption, ConnsAssumption DEF ServerInit, AuthInv, Unborn, Left, OneCall, Calls, CallHolds, Carriers

\* A connection's goroutine stores a channel nobody has authenticated.
LEMMA AuthOfConnection ==
  ASSUME ServerInv, AuthInv, NEW c \in Conns, Connection(c)
  PROVE  AuthInv'
<1> USE DEF ServerInv, AuthInv
<1>0. /\ cpc \in [Conns -> ConnSteps] /\ xpc \in [Conns -> CloseSteps] /\ channels \in SUBSET Conns
      /\ UNCHANGED <<xpc, authChannels, authId, upc, target, auth, mapped, raced>>
  BY DEF TypeOK, Connection, Accept, OnAccept, AddChannel, AddUndo, AddStore, RunEnds, ConnGone,
     closev, authv, userv
<1>1. \A d \in channels' : d \in channels \/ (d = c /\ cpc[c] = "store" /\ authId[c] = 0)
  <2>1. CASE AddStore(c)
    BY <2>1, <1>0 DEF AddStore, ConnStep, Unborn
  <2>2. CASE Accept(c) \/ OnAccept(c) \/ AddChannel(c) \/ AddUndo(c) \/ RunEnds(c) \/ ConnGone(c)
    <3>1. channels' = channels
      BY <2>2 DEF Accept, OnAccept, AddChannel, AddUndo, RunEnds, ConnGone
    <3> QED
      BY <3>1
  <2> QED
    BY <2>1, <2>2 DEF Connection
<1>2. \A d \in Conns : /\ cpc'[d] \in {"arriving", "onAccept", "add", "undo", "store"} =>
                            cpc[d] \in {"arriving", "onAccept", "add", "undo", "store"}
                       /\ cpc[d] \in {"running", "end", "gone"} => cpc'[d] \in {"running", "end", "gone"}
  BY <1>0 DEF Connection, Accept, OnAccept, AddChannel, AddUndo, AddStore, RunEnds, ConnGone, ConnStep
<1>3. Unborn' /\ Left'
  BY <1>0, <1>1, <1>2 DEF Unborn, Left
<1>4. OneCall'
  BY <1>0 DEF OneCall
<1>5. Calls'
  <2> SUFFICES ASSUME NEW u \in Users, auth[u] \notin raced PROVE CallHolds(u)'
    BY <1>0 DEF Calls
  <2>1. CallHolds(u)
    BY DEF Calls
  <2> QED
    BY <2>1, <1>0, <1>1, <1>2 DEF CallHolds, AuthLocals
<1>6. Carriers'
  BY <1>0, <1>1, <1>2 DEF Carriers, Carried
<1> QED
  BY <1>3, <1>4, <1>5, <1>6

\* RemoveChannel deletes the mapping of a channel that has left the map; if it
\* deletes another one, the id is raced.
LEMMA AuthOfClose ==
  ASSUME ServerInv, AuthInv, NEW c \in Conns, Close(c) \/ Closing(c)
  PROVE  AuthInv'
<1> USE DEF ServerInv, AuthInv
<1>0. /\ xpc \in [Conns -> CloseSteps] /\ channels \in SUBSET Conns /\ raced \in SUBSET AuthIds
      /\ authChannels \in [AuthIds -> Conns \cup {None}] /\ xauth \in [Conns -> AuthIds \cup {0}]
      /\ authId \in [Conns -> AuthIds \cup {0}] /\ auth \in [Users -> AuthIds \cup {0}]
      /\ UNCHANGED <<cpc, authId, upc, target, auth, mapped>>
  BY DEF TypeOK, Closing, Close, RemoveChannel, RemoveCount, RemoveReadsAuth, RemoveLooksMapping,
     RemoveUnmaps, connv, authv, userv
<1>1. raced \subseteq raced' /\ channels' \subseteq channels
  BY <1>0 DEF Closing, Close, RemoveChannel, RemoveCount, RemoveReadsAuth, RemoveLooksMapping,
     RemoveUnmaps, connv
<1>2. \A a \in AuthIds \ raced' : \/ authChannels'[a] = authChannels[a]
                                  \/ authChannels'[a] = None /\ authChannels[a] \notin channels
  <2>1. CASE RemoveUnmaps(c)
    <3>1. c \notin channels /\ xauth[c] \in AuthIds /\ None \notin channels
      BY <2>1, <1>0, ConnsAssumption DEF RemoveUnmaps, CloseStep, Left, AuthLocals
    <3> QED
      BY <2>1, <3>1, <1>0 DEF RemoveUnmaps
  <2>2. CASE ~RemoveUnmaps(c)
    BY <2>2 DEF Closing, Close, RemoveChannel, RemoveCount, RemoveReadsAuth, RemoveLooksMapping, authv
  <2> QED
    BY <2>1, <2>2
<1>3. Unborn' /\ Left'
  <2>1. Unborn'
    BY <1>0 DEF Unborn
  <2>2. \A d \in Conns : xpc'[d] \in {"count", "auth", "mapping", "unmap"} =>
          \/ xpc[d] \in {"count", "auth", "mapping", "unmap"}
          \/ d \in channels /\ d \notin channels'
    BY <1>0 DEF Closing, Close, RemoveChannel, RemoveCount, RemoveReadsAuth, RemoveLooksMapping,
       RemoveUnmaps, CloseStep
  <2> QED
    BY <2>1, <2>2, <1>0, <1>1 DEF Left, StoredRuns
<1>4. OneCall'
  BY <1>0, <1>1 DEF OneCall
<1>5. Calls'
  <2> SUFFICES ASSUME NEW u \in Users, auth[u] \notin raced' PROVE CallHolds(u)'
    BY <1>0 DEF Calls
  <2>1. CallHolds(u)
    BY <1>1 DEF Calls
  <2>2. upc[u] \in {"evict", "unmap"} => authChannels'[auth[u]] \in {authChannels[auth[u]], None}
    BY <1>0, <1>2 DEF AuthLocals
  <2> QED
    BY <2>1, <2>2, <1>0, <1>1 DEF CallHolds
<1>6. Carriers'
  <2> SUFFICES ASSUME NEW d \in channels', authId[d] # 0, authId[d] \notin raced' PROVE Carried(d)'
    BY <1>0 DEF Carriers
  <2>1. d \in channels /\ authId[d] \in AuthIds \ raced' /\ Carried(d)
    BY <1>0, <1>1 DEF Carriers
  <2> QED
    BY <2>1, <1>0, <1>2 DEF Carried
<1> QED
  BY <1>3, <1>4, <1>5, <1>6

\* BaseClose touches neither ids nor tables; it only begins to close channels.
LEMMA AuthOfShutdown ==
  ASSUME ServerInv, AuthInv, NEW b \in Closers, Shutdown(b)
  PROVE  AuthInv'
<1>0. xpc \in [Conns -> CloseSteps]
  BY DEF ServerInv, TypeOK
<1>1. UNCHANGED <<channels, cpc, authChannels, authId, upc, target, auth, mapped, raced>>
  BY DEF Shutdown, BaseClose, BaseClosed, BaseEnds, BaseVisits, connv, authv, userv
<1>2. \A d \in Conns : xpc'[d] \in {"count", "auth", "mapping", "unmap"} => xpc'[d] = xpc[d]
  BY <1>0 DEF Shutdown, BaseClose, BaseClosed, BaseEnds, BaseVisits, closev
<1> QED
  BY <1>1, <1>2 DEF AuthInv, Unborn, Left, OneCall, Calls, CallHolds, Carriers, Carried

\* A call that gets its id is the only one for it, or the id is raced.
LEMMA AuthOfBegin ==
  ASSUME ServerInv, AuthInv, NEW u \in Users,
         AuthReads(u) \/ \E c \in Conns, a \in AuthIds \cup {0} : SetChannelAuth(u, c, a)
  PROVE  AuthInv'
<1> USE DEF ServerInv, AuthInv
<1>0. /\ auth \in [Users -> AuthIds \cup {0}] /\ upc \in [Users -> UserSteps]
      /\ target \in [Users -> Conns \cup {None}] /\ authId \in [Conns -> AuthIds \cup {0}]
      /\ channels \in SUBSET Conns /\ upc[u] \in {"idle", "read"}
      /\ UNCHANGED <<channels, cpc, xpc, authChannels, authId, mapped>>
  BY DEF TypeOK, AuthReads, SetChannelAuth, connv, closev, authv
<1>1. PICK a \in AuthIds \cup {0} : ForId(u, a)
  BY <1>0 DEF AuthReads, SetChannelAuth, AuthLocals
<1>2. /\ auth' = [auth EXCEPT ![u] = a] /\ raced \subseteq raced'
      /\ a # 0 => a \in raced' \/ \A v \in Users \ {u} : auth[v] # a
  BY <1>1 DEF ForId
<1>3. \A v \in Users \ {u} : auth'[v] = auth[v] /\ upc'[v] = upc[v] /\ target'[v] = target[v]
  BY <1>0, <1>2 DEF AuthReads, SetChannelAuth
<1>4. auth'[u] = a /\ upc'[u] \in {"read", "prev", "clear"} /\ (target'[u] = target[u] \/ target'[u] \in channels)
  BY <1>0, <1>2 DEF AuthReads, SetChannelAuth
<1>5. Unborn' /\ Left'
  BY <1>0, <1>3, <1>4 DEF Unborn, Left, StoredRuns
<1>6. OneCall'
  BY <1>0, <1>2, <1>3, <1>4 DEF OneCall
<1>7. Calls'
  <2> SUFFICES ASSUME NEW v \in Users, auth'[v] \notin raced' PROVE CallHolds(v)'
    BY DEF Calls
  <2>1. CASE v = u
    BY <2>1, <1>4 DEF CallHolds
  <2>2. CASE v # u
    BY <2>2, <1>0, <1>2, <1>3 DEF Calls, CallHolds
  <2> QED
    BY <2>1, <2>2
<1>8. Carriers'
  <2> SUFFICES ASSUME NEW d \in channels, authId[d] # 0, authId[d] \notin raced' PROVE Carried(d)'
    BY <1>0 DEF Carriers
  <2>1. Carried(d)
    BY <1>2 DEF Carriers
  <2>2. \A v \in Users : upc[v] = "map" => v # u
    BY <1>0
  <2> QED
    BY <2>1, <2>2, <1>0, <1>3 DEF Carried
<1> QED
  BY <1>5, <1>6, <1>7, <1>8

\* A step of a call that has its id: what it does not touch stays as it was.
LEMMA AuthOfCallFrame ==
  ASSUME ServerInv, AuthInv, NEW u \in Users, Authenticating(u), ~AuthReads(u)
  PROVE  /\ UNCHANGED <<channels, cpc, xpc, raced>>
         /\ \A v \in Users \ {u} : upc'[v] = upc[v] /\ target'[v] = target[v] /\ auth'[v] = auth[v] /\ mapped'[v] = mapped[v]
         /\ auth'[u] \in {auth[u], 0}
         /\ target'[u] \in {target[u], None}
         /\ Unborn' /\ Left' /\ OneCall'
<1> USE DEF ServerInv, AuthInv
<1>0. /\ auth \in [Users -> AuthIds \cup {0}] /\ upc \in [Users -> UserSteps] /\ mapped \in [Users -> Conns \cup {None}]
      /\ target \in [Users -> Conns \cup {None}] /\ authId \in [Conns -> AuthIds \cup {0}]
  BY DEF TypeOK
<1>1. UNCHANGED <<channels, cpc, xpc, raced>>
  BY DEF Authenticating, AuthPrev, AuthEvicts, AuthSets, AuthMaps, AuthClears, AuthLooksMapping,
     AuthUnmaps, connv, closev
<1>2. /\ \A v \in Users \ {u} : upc'[v] = upc[v] /\ target'[v] = target[v] /\ auth'[v] = auth[v] /\ mapped'[v] = mapped[v]
      /\ auth'[u] \in {auth[u], 0} /\ target'[u] \in {target[u], None}
  BY <1>0 DEF Authenticating, AuthPrev, AuthEvicts, AuthSets, AuthMaps, AuthClears, AuthLooksMapping,
     AuthUnmaps, UserStep
<1>3. \A d \in Conns : authId'[d] = authId[d] \/ authId'[d] = 0 \/ d = target[u]
  BY <1>0 DEF Authenticating, AuthPrev, AuthEvicts, AuthSets, AuthMaps, AuthClears, AuthLooksMapping,
     AuthUnmaps, authv
<1>4. Unborn' /\ Left'
  BY <1>0, <1>1, <1>2, <1>3, ConnsAssumption DEF Unborn, Left
<1>5. OneCall'
  BY <1>0, <1>1, <1>2 DEF OneCall
<1> QED
  BY <1>1, <1>2, <1>4, <1>5

\* Another call goes on undisturbed unless it is for the same id, which is then raced.
LEMMA AuthOfOthers ==
  ASSUME ServerInv, AuthInv, NEW u \in Users, Authenticating(u), ~AuthReads(u),
         NEW v \in Users \ {u}, auth[v] \notin raced
  PROVE  CallHolds(v)'
<1> USE DEF ServerInv, AuthInv
<1>0. /\ auth \in [Users -> AuthIds \cup {0}] /\ upc \in [Users -> UserSteps]
      /\ target \in [Users -> Conns \cup {None}] /\ authId \in [Conns -> AuthIds \cup {0}]
      /\ authChannels \in [AuthIds -> Conns \cup {None}] /\ channels \in SUBSET Conns
  BY DEF TypeOK
<1>1. /\ UNCHANGED <<channels, raced>>
      /\ upc'[v] = upc[v] /\ target'[v] = target[v] /\ auth'[v] = auth[v] /\ mapped'[v] = mapped[v]
  BY AuthOfCallFrame
<1>2. auth[v] # 0 => auth[v] # auth[u]
  BY DEF OneCall
<1>3. auth[v] # 0 => \A d \in Conns : authId'[d] = auth[v] => authId[d] = auth[v]
  BY <1>0, <1>2 DEF Authenticating, AuthPrev, AuthEvicts, AuthSets, AuthMaps, AuthClears, AuthLooksMapping,
     AuthUnmaps, authv
<1>4. auth[v] # 0 => authChannels'[auth[v]] = authChannels[auth[v]]
  BY <1>0, <1>2 DEF Authenticating, AuthPrev, AuthEvicts, AuthSets, AuthMaps, AuthClears, AuthLooksMapping,
     AuthUnmaps, authv
<1>5. CallHolds(v)
  BY DEF Calls
<1>6. /\ upc[v] \in {"evict", "set", "map", "look", "unmap"} => auth[v] # 0
      /\ upc[v] \in {"look", "unmap"} => target[v] \in Conns
  BY DEF AuthLocals
<1> QED
  BY <1>0, <1>1, <1>3, <1>4, <1>5, <1>6 DEF CallHolds

\* A step of a call keeps its own view and that who carries an id is found by it.
LEMMA AuthOfCall ==
  ASSUME ServerInv, AuthInv, NEW u \in Users, Authenticating(u), ~AuthReads(u)
  PROVE  AuthInv'
<1> USE DEF ServerInv, AuthInv
<1>0. /\ auth \in [Users -> AuthIds \cup {0}] /\ upc \in [Users -> UserSteps] /\ mapped \in [Users -> Conns \cup {None}]
      /\ target \in [Users -> Conns \cup {None}] /\ authId \in [Conns -> AuthIds \cup {0}]
      /\ authChannels \in [AuthIds -> Conns \cup {None}] /\ channels \in SUBSET Conns /\ None \notin Conns
  BY ConnsAssumption DEF TypeOK
<1>1. /\ UNCHANGED <<channels, cpc, xpc, raced>> /\ Unborn' /\ Left' /\ OneCall'
      /\ \A v \in Users \ {u} : upc'[v] = upc[v] /\ target'[v] = target[v] /\ auth'[v] = auth[v]
  BY AuthOfCallFrame
<1>2. /\ upc[u] # "idle" => target[u] \in Conns
      /\ upc[u] \in {"prev", "evict", "set", "map", "look", "unmap"} => auth[u] \in AuthIds
      /\ upc[u] = "evict" => mapped[u] \in Conns
  BY <1>0 DEF AuthLocals
<1>3. ASSUME auth[u] \notin raced, auth[u] # 0, upc[u] # "map", NEW d \in channels, authId[d] = auth[u]
      PROVE  authChannels[auth[u]] = d
  BY <1>3 DEF Carriers, Carried, OneCall
<1>4. auth[u] \notin raced => CallHolds(u)
  BY DEF Calls
<1>5. ASSUME CallHolds(u)' \/ auth'[u] \in raced PROVE Calls'
  <2> SUFFICES ASSUME NEW v \in Users \ {u}, auth'[v] \notin raced' PROVE CallHolds(v)'
    BY <1>5, <1>1 DEF Calls
  <2> QED
    BY AuthOfOthers, <1>1
<1>6. ASSUME authId' = authId, authChannels' = authChannels, upc[u] # "map" PROVE Carriers'
  BY <1>6, <1>1 DEF Carriers, Carried
<1>7. CASE AuthPrev(u)
  <2>1. /\ upc[u] = "prev" /\ auth' = auth /\ target' = target /\ UNCHANGED <<authId, authChannels>>
        /\ mapped'[u] = authChannels[auth[u]]
        /\ upc'[u] = IF authChannels[auth[u]] \in {None, target[u]} THEN "set" ELSE "evict"
    BY <1>7, <1>0 DEF AuthPrev, authv
  <2>2. CallHolds(u)' \/ auth'[u] \in raced
    <3> SUFFICES ASSUME auth[u] \notin raced PROVE CallHolds(u)'
      BY <2>1
    <3>1. auth[u] # 0 /\ authChannels[auth[u]] \in Conns \cup {None}
      BY <2>1, <1>0, <1>2 DEF AuthLocals
    <3>2. \A d \in channels : authId[d] = auth[u] => authChannels[auth[u]] = d
      BY <3>1, <2>1, <1>3
    <3>3. CASE authChannels[auth[u]] \in {None, target[u]}
      <4>1. upc'[u] = "set" /\ \A d \in channels : authId[d] = auth[u] => d = target[u]
        BY <3>2, <3>3, <2>1, <1>0
      <4> QED
        BY <4>1, <2>1, <1>1 DEF CallHolds
    <3>4. CASE authChannels[auth[u]] \notin {None, target[u]}
      BY <3>4, <2>1 DEF CallHolds
    <3> QED
      BY <3>3, <3>4
  <2> QED
    BY <2>1, <2>2, <1>1, <1>5, <1>6
<1>8. CASE AuthEvicts(u)
  <2>1. /\ upc[u] = "evict" /\ upc'[u] = "set" /\ auth' = auth /\ target' = target /\ UNCHANGED authChannels
        /\ authId' = [authId EXCEPT ![mapped[u]] = 0]
    BY <1>8, <1>0 DEF AuthEvicts, UserStep
  <2>2. CallHolds(u)' \/ auth'[u] \in raced
    BY <2>1, <1>0, <1>1, <1>2, <1>3, <1>4, AuthAssumption DEF CallHolds
  <2>3. Carriers'
    BY <2>1, <1>0, <1>1 DEF Carriers, Carried
  <2> QED
    BY <2>2, <2>3, <1>1, <1>5
<1>9. CASE AuthSets(u)
  <2>1. /\ upc[u] = "set" /\ upc'[u] = "map" /\ auth' = auth /\ target' = target /\ UNCHANGED authChannels
        /\ authId' = [authId EXCEPT ![target[u]] = auth[u]]
    BY <1>9, <1>0 DEF AuthSets, UserStep
  <2>2. CallHolds(u)' \/ auth'[u] \in raced
    BY <2>1, <1>0, <1>1, <1>2, <1>4 DEF CallHolds
  <2>3. Carriers'
    <3> SUFFICES ASSUME NEW d \in channels, authId'[d] # 0, authId'[d] \notin raced PROVE Carried(d)'
      BY <1>1 DEF Carriers
    <3>1. CASE d = target[u]
      BY <3>1, <2>1, <1>0 DEF Carried
    <3>2. CASE d # target[u]
      <4>1. authId'[d] = authId[d] /\ Carried(d)
        BY <3>2, <2>1, <1>0 DEF Carriers
      <4> QED
        BY <4>1, <2>1, <1>1 DEF Carried
    <3> QED
      BY <3>1, <3>2
  <2> QED
    BY <2>2, <2>3, <1>1, <1>5
<1>10. CASE AuthMaps(u)
  <2>1. /\ upc[u] = "map" /\ upc'[u] = "idle" /\ UNCHANGED authId
        /\ authChannels' = [authChannels EXCEPT ![auth[u]] = target[u]]
    BY <1>10, <1>0 DEF AuthMaps, UserStep
  <2>2. CallHolds(u)'
    BY <2>1 DEF CallHolds
  <2>3. Carriers'
    <3> SUFFICES ASSUME NEW d \in channels, authId[d] # 0, authId[d] \notin raced PROVE Carried(d)'
      BY <2>1, <1>1 DEF Carriers
    <3>1. CASE authId[d] = auth[u]
      <4>1. d = target[u]
        BY <3>1, <2>1, <1>4 DEF CallHolds
      <4> QED
        BY <4>1, <3>1, <2>1, <1>0, <1>2 DEF Carried
    <3>2. CASE authId[d] # auth[u]
      <4>1. Carried(d) /\ authChannels'[authId[d]] = authChannels[authId[d]]
        BY <3>2, <2>1, <1>0 DEF Carriers
      <4> QED
        BY <4>1, <3>2, <2>1, <1>1 DEF Carried
    <3> QED
      BY <3>1, <3>2
  <2> QED
    BY <2>2, <2>3, <1>1, <1>5
<1>11. CASE AuthClears(u)
  <2>1. /\ upc[u] = "clear" /\ upc'[u] = IF auth[u] = 0 THEN "idle" ELSE "look"
        /\ auth[u] # 0 => auth' = auth /\ target' = target
        /\ UNCHANGED authChannels /\ authId' = [authId EXCEPT ![target[u]] = 0]
    BY <1>11, <1>0 DEF AuthClears, UserStep
  <2>2. CallHolds(u)'
    BY <2>1, <1>0, <1>2 DEF CallHolds
  <2>3. Carriers'
    BY <2>1, <1>0, <1>1 DEF Carriers, Carried
  <2> QED
    BY <2>2, <2>3, <1>1, <1>5
<1>12. CASE AuthLooksMapping(u)
  <2>1. /\ upc[u] = "look" /\ UNCHANGED <<authId, authChannels>>
        /\ upc'[u] = IF authChannels[auth[u]] = target[u] THEN "unmap" ELSE "idle"
        /\ upc'[u] = "unmap" => auth' = auth /\ target' = target
    BY <1>12, <1>0 DEF AuthLooksMapping, UserStep, authv
  <2>2. CallHolds(u)' \/ auth'[u] \in raced
    BY <2>1, <1>0, <1>1, <1>4 DEF CallHolds
  <2> QED
    BY <2>1, <2>2, <1>1, <1>5, <1>6
<1>13. CASE AuthUnmaps(u)
  <2>1. /\ upc[u] = "unmap" /\ upc'[u] = "idle" /\ UNCHANGED authId
        /\ authChannels' = [authChannels EXCEPT ![auth[u]] = None]
    BY <1>13, <1>0 DEF AuthUnmaps, UserStep
  <2>2. CallHolds(u)'
    BY <2>1 DEF CallHolds
  <2>3. Carriers'
    <3> SUFFICES ASSUME NEW d \in channels, authId[d] # 0, authId[d] \notin raced PROVE Carried(d)'
      BY <2>1, <1>1 DEF Carriers
    <3>1. authId[d] # auth[u]
      BY <2>1, <1>0, <1>2, <1>3, <1>4 DEF CallHolds
    <3>2. Carried(d) /\ authChannels'[authId[d]] = authChannels[authId[d]]
      BY <3>1, <2>1, <1>0 DEF Carriers
    <3> QED
      BY <3>2, <2>1, <1>1 DEF Carried
  <2> QED
    BY <2>2, <2>3, <1>1, <1>5
<1> QED
  BY <1>7, <1>8, <1>9, <1>10, <1>11, <1>12, <1>13 DEF Authenticating

-----------------------------------------------------------------------------
(* Theorems.                                                                *)

\* The invariant holds in every state of the server.
THEOREM ServerInvariant == ServerSpec => []ServerInv
<1>1. ServerInv /\ [ServerNext]_serverVars => ServerInv'
  BY TypeStep, CountStep, StoredStep, ClosedStep, ShutdownStep DEF ServerInv
<1> QED
  BY InitServes, <1>1, PTL DEF ServerSpec

\* Every variable of BaseServer's model has its type in every state.
THEOREM ServerTypeCorrect == ServerSpec => []TypeOK
<1>1. ServerInv => TypeOK
  BY DEF ServerInv
<1> QED
  BY ServerInvariant, <1>1, PTL

\* connCount counts each connection once, however AddChannel and RemoveChannel of
\* any number of connections interleave.
THEOREM ConnCountExact == ServerSpec => []CountExact
<1>1. ServerInv => CountExact
  BY DEF ServerInv
<1> QED
  BY ServerInvariant, <1>1, PTL

\* AddChannel's count-then-check keeps the map within maxConn although HandleAccept
\* decides on an old count.
THEOREM LimitHolds == ServerSpec => []MaxConnRespected
<1>1. ServerInv => MaxConnRespected
  <2> SUFFICES ASSUME ServerInv, maxConn > 0 PROVE Cardinality(channels) <= maxConn
    BY DEF MaxConnRespected
  <2>1. channels \in SUBSET Conns /\ Storing \in SUBSET Conns /\ maxConn \in Nat
    BY BoundAssumption DEF ServerInv, TypeOK, Storing
  <2>2. Cardinality(channels) \in Nat /\ Cardinality(Storing) \in Nat
    BY <2>1, CardOfConns
  <2> QED
    BY <2>1, <2>2 DEF ServerInv, PlacesHeld
<1> QED
  BY ServerInvariant, <1>1, PTL

\* A connection whose goroutine is over is out of the map unless it was closed
\* before AddChannel stored it.
THEOREM NothingLeftOver == ServerSpec => []NoLeftover
<1>1. ServerInv => NoLeftover
  BY DEF ServerInv, ClosedLeaves, NoLeftover
<1> QED
  BY ServerInvariant, <1>1, PTL

\* BaseClose closes every channel it found, whoever else adds and closes channels.
THEOREM ShutdownIsComplete == ServerSpec => []BaseCloseCloses
<1>1. ServerInv => BaseCloseCloses
  BY DEF ServerInv, ShutdownCloses, BaseCloseCloses
<1> QED
  BY ServerInvariant, <1>1, PTL

\* A channel that carries an authentication id is the one GetChannelByAuthId returns,
\* for any number of connections, ids and goroutines in SetChannelAuth, except for an
\* id for which two calls overlapped or whose mapping RemoveChannel deleted after it
\* had gone to another channel: there is no third way to lose it.
THEOREM CarriersAreFound == ServerSpec => []CarrierIsFound
<1>1. ServerInv /\ AuthInv /\ [ServerNext]_serverVars => AuthInv'
  <2> SUFFICES ASSUME ServerInv, AuthInv, [ServerNext]_serverVars PROVE AuthInv'
    OBVIOUS
  <2>1. CASE UNCHANGED serverVars
    BY <2>1 DEF AuthInv, Unborn, Left, OneCall, Calls, CallHolds, Carriers, Carried, serverVars, connv, closev,
       authv, userv
  <2> QED
    BY <2>1, AuthOfConnection, AuthOfClose, AuthOfShutdown, AuthOfBegin, AuthOfCall DEF ServerNext
<1>2. AuthInv => CarrierIsFound
  BY DEF AuthInv, Carriers, Carried, CarrierIsFound
<1> QED
  BY ServerInvariant, AuthInit, <1>1, <1>2, PTL DEF ServerSpec

-----------------------------------------------------------------------------
(* Part 2: from the bytes of a connection to the read callback.             *)

-----------------------------------------------------------------------------
(* Remainders.                                                              *)

\* A remainder is a cell of the ring.
LEMMA ModRange ==
  ASSUME NEW c \in Nat \ {0}, NEW x \in Nat
  PROVE  (x % c) \in 0 .. c - 1
  OBVIOUS

\* Quotient and remainder rebuild the number.
LEMMA DivMod ==
  ASSUME NEW c \in Nat \ {0}, NEW x \in Nat
  PROVE  x \div c \in Nat /\ x = c * (x \div c) + (x % c)
  OBVIOUS

\* They are the only ones that do.
LEMMA ModUnique ==
  ASSUME NEW c \in Nat \ {0}, NEW q \in Nat, NEW r \in 0 .. c - 1
  PROVE  (c * q + r) % c = r
  OBVIOUS

\* A positive multiple of c is at least c.
LEMMA MulAtLeast ==
  ASSUME NEW c \in Nat, NEW a \in Int, a >= 1
  PROVE  c * a >= c
  OBVIOUS

\* Up to one lap further the remainder is the sum, or the sum less the lap.
LEMMA ModAdd ==
  ASSUME NEW c \in Nat \ {0}, NEW x \in Nat, NEW i \in 0 .. c
  PROVE  (x + i) % c = IF (x % c) + i < c THEN (x % c) + i ELSE (x % c) + i - c
<1> DEFINE q == x \div c
           r == x % c
<1>1. q \in Nat /\ r \in 0 .. c - 1 /\ x = c * q + r
  BY DivMod, ModRange
<1> HIDE DEF q, r
<1>2. CASE r + i < c
  <2>1. x + i = c * q + (r + i) /\ r + i \in 0 .. c - 1
    BY <1>1, <1>2
  <2>2. (c * q + (r + i)) % c = r + i
    BY <1>1, <2>1, ModUnique
  <2> QED
    BY <1>2, <2>1, <2>2 DEF r
<1>3. CASE ~(r + i < c)
  <2>1. x + i = c * (q + 1) + (r + i - c) /\ r + i - c \in 0 .. c - 1 /\ q + 1 \in Nat
    BY <1>1, <1>3
  <2>2. (c * (q + 1) + (r + i - c)) % c = r + i - c
    BY <2>1, ModUnique
  <2> QED
    BY <1>3, <2>1, <2>2 DEF r
<1> QED
  BY <1>2, <1>3

\* Two positions less than a lap apart have different cells.
LEMMA ModInjective ==
  ASSUME NEW c \in Nat \ {0}, NEW x \in Nat, NEW y \in Nat, x < y, y < x + c
  PROVE  (x % c) # (y % c)
<1>1. y - x \in 0 .. c /\ x + (y - x) = y
  OBVIOUS
<1>2. (x + (y - x)) % c = IF (x % c) + (y - x) < c THEN (x % c) + (y - x) ELSE (x % c) + (y - x) - c
  BY <1>1, ModAdd
<1>3. (x % c) \in 0 .. c - 1
  BY ModRange
<1> QED
  BY <1>1, <1>2, <1>3

-----------------------------------------------------------------------------
(* Powers of two.                                                           *)

\* A nonempty set of numbers has a least element, and Min is it.
LEMMA LeastIs ==
  ASSUME NEW S \in SUBSET Nat, S # {}
  PROVE  Min(S) \in S /\ \A n \in S : Min(S) <= n
<1> DEFINE R == {ss \in Nat \X Nat : ss[1] < ss[2]}
<1>1. IsWellFoundedOn(R, Nat)
  BY NatLessThanWellFounded DEF OpToRel
<1>2. PICK m \in S : \A n \in S : ~(<<n, m>> \in R)
  BY <1>1, WFMin
<1>3. ASSUME NEW n \in S PROVE m <= n
  <2>1. <<n, m>> \in Nat \X Nat /\ <<n, m>>[1] = n /\ <<n, m>>[2] = m
    OBVIOUS
  <2> QED
    BY <1>2, <2>1
<1> QED
  BY <1>3 DEF Min

\* Twice a power of two is one.
LEMMA PowerDoubles ==
  ASSUME NEW n \in Nat, IsPowerOfTwo(n)
  PROVE  IsPowerOfTwo(2 * n)
<1> SUFFICES ASSUME NEW d \in 2 .. 2 * n, (2 * n) % d = 0, d % 2 # 0 PROVE FALSE
  BY DEF IsPowerOfTwo
<1> DEFINE q == (2 * n) \div d
           e == d \div 2
<1>1. q \in Nat /\ 2 * n = d * q
  BY DivMod
<1>2. e \in Nat /\ d = 2 * e + 1
  OBVIOUS
<1> HIDE DEF q, e
<1>3. PICK h \in Nat : q = 2 * h
  <2>1. d * q = 2 * (e * q) + q
    BY <1>1, <1>2
  <2>2. e * q \in Nat
    BY <1>1, <1>2
  <2>3. 2 * n = 2 * (e * q) + q
    BY <1>1, <2>1
  <2> DEFINE t == e * q
  <2> HIDE DEF t
  <2>4. t \in Nat /\ 2 * n = 2 * t + q
    BY <2>2, <2>3 DEF t
  <2>5. q = 2 * (n - t) /\ n - t \in Int /\ n - t >= 0
    BY <1>1, <2>4
  <2> QED
    BY <2>5
<1>4. d * q = 2 * (d * h)
  BY <1>3
<1>4a. d * h \in Nat
  OBVIOUS
<1>5. n = d * h
  BY <1>1, <1>4, <1>4a
<1>6. h >= 1
  BY <1>5 DEF IsPowerOfTwo
<1>7. d * h >= d
  BY <1>6, MulAtLeast
<1>8. n % d = 0
  <2>1. (d * h + 0) % d = 0
    BY ModUnique
  <2> QED
    BY <1>4a, <1>5, <2>1
<1> QED
  BY <1>5, <1>7, <1>8 DEF IsPowerOfTwo

\* There is a power of two between a number and its double.
LEMMA PowerExists ==
  ASSUME NEW n \in Nat
  PROVE  {m \in n .. 2 * n + 1 : IsPowerOfTwo(m)} # {}
<1> DEFINE P(k) == {m \in k .. 2 * k + 1 : IsPowerOfTwo(m)}
           S == {k \in Nat : P(k) = {}}
<1> SUFFICES ASSUME S # {} PROVE FALSE
  OBVIOUS
<1>1. PICK k \in S : \A j \in S : k <= j
  <2> HIDE DEF S
  <2>1. S \subseteq Nat
    BY DEF S
  <2> QED
    BY <2>1, LeastIs
<1>2. 1 \in P(0)
  BY DEF IsPowerOfTwo
<1>3. k \in Nat \ {0}
  BY <1>2
<1>4. PICK m \in P(k - 1) : TRUE
  <2>1. k - 1 \in Nat /\ ~(k <= k - 1)
    BY <1>3
  <2> HIDE DEF P
  <2> QED
    BY <1>1, <2>1
<1>5. m \in Nat /\ m >= k - 1 /\ m <= 2 * (k - 1) + 1 /\ IsPowerOfTwo(m)
  BY <1>3
<1>6. CASE m >= k
  BY <1>3, <1>5, <1>6
<1>7. CASE m = k - 1
  <2>1. m > 0 /\ IsPowerOfTwo(2 * m)
    BY <1>5, PowerDoubles DEF IsPowerOfTwo
  <2>2. 2 * m \in k .. 2 * k + 1
    BY <1>3, <1>5, <1>7, <2>1
  <2> QED
    BY <2>1, <2>2
<1> QED
  BY <1>3, <1>5, <1>6, <1>7

\* nextPowerOfTwo64 is large enough.
LEMMA NextPower ==
  ASSUME NEW n \in Nat
  PROVE  nextPowerOfTwo64(n) \in Nat /\ nextPowerOfTwo64(n) >= n /\ nextPowerOfTwo64(n) > 0
         /\ IsPowerOfTwo(nextPowerOfTwo64(n))
<1> DEFINE S == {m \in n .. 2 * n + 1 : IsPowerOfTwo(m)}
<1>1. S \in SUBSET Nat /\ S # {} /\ nextPowerOfTwo64(n) = Min(S)
  BY PowerExists DEF nextPowerOfTwo64
<1> HIDE DEF S
<1>2. Min(S) \in S
  BY <1>1, LeastIs
<1> QED
  BY <1>1, <1>2 DEF S, IsPowerOfTwo

\* A power of two is its own next one.
LEMMA PowerIsNext ==
  ASSUME NEW n \in Nat, IsPowerOfTwo(n)
  PROVE  nextPowerOfTwo64(n) = n
<1> DEFINE S == {m \in n .. 2 * n + 1 : IsPowerOfTwo(m)}
<1>1. S \in SUBSET Nat /\ n \in S /\ nextPowerOfTwo64(n) = Min(S)
  BY DEF nextPowerOfTwo64
<1>2. \A m \in S : m >= n
  OBVIOUS
<1> HIDE DEF S
<1>3. Min(S) \in S /\ Min(S) <= n
  BY <1>1, LeastIs
<1>4. Min(S) \in Nat /\ Min(S) >= n
  BY <1>1, <1>2, <1>3
<1> QED
  BY <1>1, <1>3, <1>4

-----------------------------------------------------------------------------
(* The ring.                                                                *)

\* A ring: two positions, the second at most one lap ahead.
IsRing(r) ==
    /\ DOMAIN r = {"buf", "size", "read", "write", "max"}
    /\ r.size \in Nat \ {0} /\ r.read \in Nat /\ r.write \in Nat /\ r.max \in Nat
    /\ r.read <= r.write /\ r.write <= r.read + r.size

\* What the ring holds at position x of its stream.
At(r, x) == r.buf[x % r.size]

\* Two rings with the same unread data.
SameData(r, s) ==
    /\ DataLen(s) = DataLen(r)
    /\ \A i \in 0..DataLen(r) - 1 : At(s, s.read + i) = At(r, r.read + i)

\* How much is unread and how much is free.
LEMMA RingCounts ==
  ASSUME NEW r, IsRing(r)
  PROVE  /\ DataLen(r) \in Nat /\ Free(r) \in Nat /\ DataLen(r) + Free(r) = r.size
         /\ r.write = r.read + DataLen(r)
         /\ IsEmpty(r) <=> DataLen(r) = 0
         /\ IsFull(r) <=> Free(r) = 0
  BY DEF IsRing, DataLen, Free, IsEmpty, IsFull

\* What is known of the fields.
LEMMA RingIs ==
  ASSUME NEW r, IsRing(r)
  PROVE  /\ r.size \in Nat \ {0} /\ r.read \in Nat /\ r.write \in Nat /\ r.max \in Nat
         /\ DataLen(r) \in Nat /\ r.write = r.read + DataLen(r) /\ DataLen(r) <= r.size
         /\ Free(r) = r.size - DataLen(r)
         /\ DOMAIN r = {"buf", "size", "read", "write", "max"}
  BY DEF IsRing, DataLen, Free

\* What is in the cells.
Cells(r) == {r.buf[x] : x \in 0..r.size - 1}

\* How long a slice is.
LEMMA SliceLen ==
  ASSUME NEW r, NEW lo, NEW hi, lo \in Int, hi \in Int, lo <= hi
  PROVE  Len(slice(r, lo, hi)) = hi - lo
  BY DEF slice

\* What a slice shows.
LEMMA SliceIs ==
  ASSUME NEW r, NEW lo, NEW hi, lo \in Int, hi \in Int, lo <= hi
  PROVE  \A i \in 1..hi - lo : slice(r, lo, hi)[i] = r.buf[lo + i - 1]
  BY DEF slice

\* A slice is a sequence of cells.
LEMMA SliceSeq ==
  ASSUME NEW r, r.size \in Nat, NEW lo \in Nat, NEW hi \in Nat, lo <= hi, hi <= r.size
  PROVE  slice(r, lo, hi) \in Seq(Cells(r))
<1> DEFINE C == Cells(r)
<1>1. hi - lo \in Nat
  OBVIOUS
<1>2. \A i \in 1..hi - lo : r.buf[lo + i - 1] \in C
  <2> TAKE i \in 1..hi - lo
  <2>1. lo + i - 1 \in 0..r.size - 1
    OBVIOUS
  <2> QED
    BY <2>1 DEF Cells
<1> HIDE DEF C
<1>3. slice(r, lo, hi) \in Seq(C)
  BY <1>1, <1>2 DEF slice
<1> QED
  BY <1>3 DEF C

\* PeekAll shows the unread data in order.
LEMMA PeekAllIs ==
  ASSUME NEW r, IsRing(r)
  PROVE  /\ Len(PeekAll(r).first \o PeekAll(r).second) = DataLen(r)
         /\ \A i \in 1..DataLen(r) :
              (PeekAll(r).first \o PeekAll(r).second)[i] = At(r, r.read + i - 1)
<1> DEFINE rp == r.read % r.size
           wp == r.write % r.size
           d == DataLen(r)
           C == Cells(r)
<1>1. /\ r.size \in Nat \ {0} /\ d \in 0..r.size /\ r.write = r.read + d
      /\ r.read \in Nat /\ r.write \in Nat
      /\ IsEmpty(r) <=> d = 0
  BY RingCounts DEF IsRing
<1>2. rp \in 0..r.size - 1 /\ wp \in 0..r.size - 1
  BY <1>1, ModRange
<1>3. wp = IF rp + d < r.size THEN rp + d ELSE rp + d - r.size
  BY <1>1, ModAdd
<1>3a. r.size \in Nat /\ rp \in Nat /\ wp \in Nat /\ rp <= r.size /\ wp <= r.size
  BY <1>1, <1>2
<1>4. \A i \in 1..d : At(r, r.read + i - 1) = r.buf[IF rp + i - 1 < r.size THEN rp + i - 1 ELSE rp + i - 1 - r.size]
  <2> TAKE i \in 1..d
  <2>1. i - 1 \in 0..r.size /\ r.read + (i - 1) = r.read + i - 1
    BY <1>1
  <2> QED
    BY <1>1, <2>1, ModAdd DEF At
<1>5. PeekAll(r) = IF d = 0 THEN [first |-> <<>>, second |-> <<>>]
                   ELSE IF wp > rp THEN [first |-> slice(r, rp, wp), second |-> <<>>]
                   ELSE [first |-> slice(r, rp, r.size), second |-> slice(r, 0, wp)]
  BY <1>1 DEF PeekAll
<1> HIDE DEF rp, wp, d
<1>6. CASE d = 0
  BY <1>5, <1>6 DEF d
<1>7. CASE d # 0 /\ wp > rp
  <2>1. rp + d < r.size /\ wp = rp + d
    BY <1>1, <1>2, <1>3, <1>7
  <2>2. PeekAll(r).first = slice(r, rp, wp) /\ PeekAll(r).second = <<>>
    BY <1>5, <1>7
  <2>3. /\ slice(r, rp, wp) \in Seq(C) /\ Len(slice(r, rp, wp)) = wp - rp
        /\ \A i \in 1..wp - rp : slice(r, rp, wp)[i] = r.buf[rp + i - 1]
    <3>1. slice(r, rp, wp) \in Seq(C)
      BY <1>1, <1>2, <1>7, SliceSeq
    <3>2. Len(slice(r, rp, wp)) = wp - rp
      BY <1>3a, <1>7, SliceLen
    <3>3. \A i \in 1..wp - rp : slice(r, rp, wp)[i] = r.buf[rp + i - 1]
      BY <1>3a, <1>7, SliceIs
    <3> QED
      BY <3>1, <3>2, <3>3
  <2>4. slice(r, rp, wp) \o <<>> = slice(r, rp, wp)
    BY <2>3, ConcatEmptySeq
  <2>5. \A i \in 1..d : At(r, r.read + i - 1) = r.buf[rp + i - 1]
    BY <1>1, <1>2, <1>4, <2>1
  <2>6. wp - rp = d
    BY <1>1, <1>2, <2>1
  <2> QED
    BY <2>2, <2>3, <2>4, <2>5, <2>6 DEF d
<1>8. CASE d # 0 /\ ~(wp > rp)
  <2>1. rp + d >= r.size /\ wp = rp + d - r.size
    BY <1>1, <1>2, <1>3, <1>8
  <2>2. PeekAll(r).first = slice(r, rp, r.size) /\ PeekAll(r).second = slice(r, 0, wp)
    BY <1>5, <1>8
  <2> DEFINE s == slice(r, rp, r.size)
             t == slice(r, 0, wp)
  <2>3. /\ s \in Seq(C) /\ Len(s) = r.size - rp
        /\ \A i \in 1..r.size - rp : s[i] = r.buf[rp + i - 1]
    <3>1. s \in Seq(C)
      BY <1>1, <1>2, SliceSeq
    <3>2. Len(s) = r.size - rp
      BY <1>3a, SliceLen
    <3>3. \A i \in 1..r.size - rp : s[i] = r.buf[rp + i - 1]
      BY <1>3a, SliceIs
    <3> QED
      BY <3>1, <3>2, <3>3
  <2>4. /\ t \in Seq(C) /\ Len(t) = wp
        /\ \A i \in 1..wp : t[i] = r.buf[i - 1]
    <3>1. t \in Seq(C)
      BY <1>1, <1>2, SliceSeq
    <3>2. Len(t) = wp - 0
      BY <1>3a, SliceLen
    <3>3. \A i \in 1..wp - 0 : t[i] = r.buf[0 + i - 1]
      BY <1>3a, SliceIs
    <3> QED
      BY <1>2, <3>1, <3>2, <3>3
  <2> HIDE DEF s, t, C
  <2>5. /\ Len(s \o t) = Len(s) + Len(t)
        /\ \A i \in 1..Len(s) + Len(t) : (s \o t)[i] = IF i <= Len(s) THEN s[i] ELSE t[i - Len(s)]
    BY <2>3, <2>4, ConcatProperties
  <2>6. Len(s) + Len(t) = d
    BY <1>1, <1>2, <2>1, <2>3, <2>4
  <2>7. ASSUME NEW i \in 1..d PROVE (s \o t)[i] = At(r, r.read + i - 1)
    <3>0. i \in 1..Len(s) + Len(t)
      BY <2>6
    <3>1. CASE i <= r.size - rp
      <4>1. (s \o t)[i] = s[i]
        BY <2>3, <2>5, <3>0, <3>1
      <4>2. s[i] = r.buf[rp + i - 1]
        BY <1>1, <1>2, <2>3, <3>1
      <4>3. At(r, r.read + i - 1) = r.buf[rp + i - 1]
        BY <1>1, <1>2, <1>4, <3>1
      <4> QED
        BY <4>1, <4>2, <4>3
    <3>2. CASE ~(i <= r.size - rp)
      <4>1. (s \o t)[i] = t[i - (r.size - rp)] /\ i - (r.size - rp) \in 1..wp
        <5>1. (s \o t)[i] = t[i - Len(s)]
          BY <2>3, <2>5, <3>0, <3>2
        <5>2. i - (r.size - rp) \in 1..wp
          BY <1>1, <1>2, <2>1, <3>2
        <5> QED
          BY <2>3, <5>1, <5>2
      <4>2. t[i - (r.size - rp)] = r.buf[i - (r.size - rp) - 1]
        BY <2>4, <4>1
      <4>3. At(r, r.read + i - 1) = r.buf[rp + i - 1 - r.size]
        BY <1>1, <1>2, <1>4, <3>2
      <4>4. rp + i - 1 - r.size = i - (r.size - rp) - 1
        BY <1>1, <1>2
      <4> QED
        BY <4>1, <4>2, <4>3, <4>4
    <3> QED
      BY <3>1, <3>2
  <2> QED
    BY <2>2, <2>5, <2>6, <2>7 DEF s, t, d
<1> QED
  BY <1>1, <1>6, <1>7, <1>8

\* Moving the data to a larger array keeps it.
LEMMA MovedKeeps ==
  ASSUME NEW r, IsRing(r), NEW k \in Nat \ {0}, k >= DataLen(r)
  PROVE  /\ IsRing(moved(r, k)) /\ SameData(r, moved(r, k))
         /\ moved(r, k).size = k /\ moved(r, k).max = r.max
<1> DEFINE data == PeekAll(r).first \o PeekAll(r).second
           m == moved(r, k)
<1>1. /\ r.size \in Nat \ {0} /\ DataLen(r) \in 0..r.size /\ r.read \in Nat
      /\ DOMAIN r = {"buf", "size", "read", "write", "max"} /\ r.max \in Nat
  BY RingCounts DEF IsRing
<1>2. Len(data) = DataLen(r) /\ \A i \in 1..DataLen(r) : data[i] = At(r, r.read + i - 1)
  BY PeekAllIs
<1>3. m = [r EXCEPT !.buf = [i \in 0..k - 1 |-> IF i < Len(data) THEN data[i + 1] ELSE Blank],
                    !.size = k, !.read = 0, !.write = DataLen(r)]
  BY DEF moved
<1> HIDE DEF data, m
<1>4. /\ DOMAIN m = {"buf", "size", "read", "write", "max"}
      /\ m.size = k /\ m.read = 0 /\ m.write = DataLen(r) /\ m.max = r.max
      /\ m.buf = [i \in 0..k - 1 |-> IF i < Len(data) THEN data[i + 1] ELSE Blank]
  BY <1>1, <1>3
<1>5. IsRing(m)
  BY <1>1, <1>4 DEF IsRing
<1>6. DataLen(m) = DataLen(r)
  BY <1>1, <1>4 DEF DataLen
<1>7. ASSUME NEW i \in 0..DataLen(r) - 1 PROVE At(m, m.read + i) = At(r, r.read + i)
  <2>1. i \in 0..k - 1 /\ i + 1 \in 1..DataLen(r)
    BY <1>1
  <2>2. (0 + i) % k = i
    BY <2>1
  <2>3. m.buf[i] = data[i + 1]
    BY <1>1, <1>2, <1>4, <2>1
  <2>4. data[i + 1] = At(r, r.read + (i + 1) - 1) /\ r.read + (i + 1) - 1 = r.read + i
    BY <1>1, <1>2, <2>1
  <2> QED
    BY <1>4, <2>2, <2>3, <2>4 DEF At
<1> QED
  BY <1>4, <1>5, <1>6, <1>7 DEF m, SameData

\* What g, the result of Grow(r, k), says of r and of the ring it gives.
Grown(r, k, g) ==
    /\ IsRing(g.rb) /\ SameData(r, g.rb)
    /\ g.rb.max = r.max /\ g.rb.size >= r.size
    /\ \/ /\ g.ok = FALSE /\ g.rb = r /\ r.max <= r.size
       \/ /\ g.ok = TRUE
          /\ Free(g.rb) >= k \/ (r.max > r.size /\ g.rb.size = r.max)
          /\ Free(r) < k => g.rb.size > r.size

\* Grow keeps the data.  It refuses when the ring has reached its limit, and
\* otherwise makes room for k, or as much as the limit allows.
LEMMA GrowIs ==
  ASSUME NEW r, IsRing(r), NEW k, k \in Nat
  PROVE  Grown(r, k, Grow(r, k))
<1> DEFINE g == Grow(r, k)
           needed == nextPowerOfTwo64(DataLen(r) + k)
           asked == IF needed > 2 * r.size THEN needed ELSE 2 * r.size
           limited == r.max > 0 /\ asked > r.max
           sz == IF limited THEN r.max ELSE asked
<1>1. /\ r.size \in Nat \ {0} /\ DataLen(r) \in 0..r.size /\ r.max \in Nat
      /\ Free(r) = r.size - DataLen(r)
  BY RingCounts DEF IsRing, Free
<1>2. needed \in Nat /\ needed >= DataLen(r) + k
  BY <1>1, NextPower
<1>3. asked \in Nat /\ asked >= 2 * r.size /\ asked >= DataLen(r) + k
  <2> HIDE DEF needed
  <2> QED
    BY <1>1, <1>2
<1>4. g = IF Free(r) >= k THEN [ok |-> TRUE, rb |-> r]
          ELSE IF limited /\ r.max <= r.size THEN [ok |-> FALSE, rb |-> r]
          ELSE [ok |-> TRUE, rb |-> moved(r, sz)]
  BY DEF Grow
<1> SUFFICES Grown(r, k, g)
  OBVIOUS
<1> HIDE DEF asked, g
<1>5. SameData(r, r)
  BY DEF SameData
<1>6. CASE Free(r) >= k
  <2>1. g.ok = TRUE /\ g.rb = r
    BY <1>4, <1>6
  <2> HIDE DEF needed, limited
  <2>2. ~(Free(r) < k) /\ r.size >= r.size
    BY <1>1, <1>6
  <2> QED
    BY <1>5, <1>6, <2>1, <2>2 DEF Grown
<1>7. CASE ~(Free(r) >= k) /\ r.max > 0 /\ r.max <= r.size
  <2>1. limited
    BY <1>1, <1>3, <1>7
  <2>2. g.ok = FALSE /\ g.rb = r
    BY <1>4, <1>7, <2>1
  <2> HIDE DEF needed, limited
  <2>3. r.size >= r.size
    BY <1>1
  <2> QED
    BY <1>5, <1>7, <2>2, <2>3 DEF Grown
<1>8. CASE ~(Free(r) >= k) /\ ~(r.max > 0 /\ r.max <= r.size)
  <2>1. g.ok = TRUE /\ g.rb = moved(r, sz)
    BY <1>4, <1>8
  <2>2. sz \in Nat /\ sz > r.size
    BY <1>1, <1>3, <1>8
  <2>3. sz = r.max \/ sz - DataLen(r) >= k
    BY <1>1, <1>3
  <2> HIDE DEF sz, needed, limited
  <2>4. sz \in Nat \ {0} /\ sz >= DataLen(r)
    BY <1>1, <2>2
  <2>5. /\ IsRing(g.rb) /\ SameData(r, g.rb)
        /\ g.rb.size = sz /\ g.rb.max = r.max
    BY <2>1, <2>4, MovedKeeps
  <2>6. Free(g.rb) = sz - DataLen(r)
    BY <2>5 DEF Free, SameData
  <2>7. g.ok = TRUE
    BY <2>1
  <2>8. /\ g.rb.size > r.size /\ g.rb.size >= r.size /\ ~(Free(r) >= k)
        /\ Free(g.rb) >= k \/ (r.max > r.size /\ g.rb.size = r.max)
    BY <1>1, <1>8, <2>2, <2>3, <2>5, <2>6
  <2> QED
    BY <2>5, <2>7, <2>8 DEF Grown
<1> QED
  BY <1>6, <1>7, <1>8

\* Storing p where there is room for it puts it behind what is there.
LEMMA StoredIs ==
  ASSUME NEW r, r.size \in Nat \ {0}, r.write \in Nat,
         NEW p, Len(p) \in Nat, NEW lo \in Nat, lo <= r.write, r.write + Len(p) <= lo + r.size
  PROVE  /\ \A j \in 0..Len(p) - 1 : stored(r, p)[(r.write + j) % r.size] = p[j + 1]
         /\ \A x \in lo..r.write - 1 : stored(r, p)[x % r.size] = r.buf[x % r.size]
<1> DEFINE c == r.size
           w == r.write
           wp == w % c
           n == Len(p)
           wrapped == wp + n - c
<1>0. c \in Nat \ {0} /\ w \in Nat /\ n \in 0..c
  OBVIOUS
<1>1. c \in Nat \ {0} /\ w \in Nat /\ n \in 0..c /\ wp \in 0..c - 1
  <2> HIDE DEF c, w, n
  <2> QED
    BY <1>0, ModRange
<1>2. \A i \in 0..c - 1 : stored(r, p)[i] = IF i < wrapped THEN p[n - wrapped + i + 1]
                                           ELSE IF i >= wp /\ i - wp < n THEN p[i - wp + 1]
                                           ELSE r.buf[i]
  BY DEF stored
<1>3. ASSUME NEW j \in 0..n - 1 PROVE stored(r, p)[(w + j) % c] = p[j + 1]
  <2> DEFINE i == (w + j) % c
  <2>1. i = IF wp + j < c THEN wp + j ELSE wp + j - c
    <3>1. j \in 0..c
      BY <1>1
    <3> QED
      BY <1>1, <3>1, ModAdd
  <2>0. w + j \in Nat
    BY <1>1
  <2>2. i \in 0..c - 1
    <3> HIDE DEF c, w
    <3> QED
      BY <1>1, <2>0, ModRange
  <2> HIDE DEF i, wp, n, c, w
  <2>3. CASE wp + j < c
    <3>1. i = wp + j /\ ~(i < wrapped) /\ i >= wp /\ i - wp < n /\ i - wp + 1 = j + 1
      BY <1>1, <2>1, <2>3
    <3>2. stored(r, p)[i] = p[i - wp + 1]
      BY <1>2, <2>2, <3>1
    <3> QED
      BY <3>1, <3>2 DEF i, c, w
  <2>4. CASE ~(wp + j < c)
    <3>1. i = wp + j - c /\ i < wrapped /\ n - wrapped + i + 1 = j + 1
      BY <1>1, <2>1, <2>4
    <3>2. stored(r, p)[i] = p[n - wrapped + i + 1]
      BY <1>2, <2>2, <3>1
    <3> QED
      BY <3>1, <3>2 DEF i, c, w
  <2> QED
    BY <2>3, <2>4
<1>4. ASSUME NEW x \in lo..w - 1 PROVE stored(r, p)[x % c] = r.buf[x % c]
  <2> DEFINE i == x % c
             e == w - x
  <2>1. x \in Nat /\ e \in 1..c /\ x + e = w /\ x + c >= w + n
    <3>1. w + n <= lo + c
      OBVIOUS
    <3>2. x \in Int /\ lo <= x /\ x < w
      BY <1>1
    <3> HIDE DEF c, w, n
    <3>3. x + c >= w + n /\ w - x >= 1 /\ w - x <= c
      BY <1>1, <3>1, <3>2
    <3> QED
      BY <1>1, <3>2, <3>3
  <2>2. i \in 0..c - 1
    BY <1>1, <2>1, ModRange
  <2>3. wp = IF i + e < c THEN i + e ELSE i + e - c
    <3>1. e \in 0..c
      BY <2>1
    <3>2. (x + e) % c = IF (x % c) + e < c THEN (x % c) + e ELSE (x % c) + e - c
      <4> HIDE DEF c, e
      <4> QED
        BY <1>1, <2>1, <3>1, ModAdd
    <3> QED
      BY <2>1, <3>2
  <2>4. e + n <= c
    <3> HIDE DEF c, w, n, e
    <3> QED
      BY <1>1, <2>1
  <2> HIDE DEF i, e, wp, n, c, w
  <2>5. ~(i < wrapped) /\ ~(i >= wp /\ i - wp < n)
    BY <1>1, <2>1, <2>2, <2>3, <2>4
  <2>6. stored(r, p)[i] = r.buf[i]
    BY <1>2, <2>2, <2>5
  <2> QED
    BY <2>6 DEF i, c
<1> QED
  BY <1>3, <1>4

-----------------------------------------------------------------------------
(* Frames.                                                                  *)

\* A byte of the stream.
Bytes == [frame : Nat, at : Nat, val : Int]

\* The frames a peer may send.
Frames(c) == LegalFrames(c) \union OtherFrames(c)

\* Legal, of any configuration.
LegalFor(c, f) == f.version = c.version /\ f.len <= c.maxData /\ f.msgId \in -c.maxMsgId..c.maxMsgId

\* What parseHeader goes by.
LEMMA ConfigIs ==
  ASSUME NEW c \in SocketConfigs
  PROVE  /\ c.maxData \in Nat /\ c.maxMsgId \in 0..3 /\ c.version \in {0, 1}
         /\ HeaderLen(c) = IF c.version >= 1 THEN 3 ELSE 2
  BY ReadPathAssumption, MsgIdAssumption DEF WordSize, HeaderLen, headerSizeV0, headerSizeV1

\* The words of four bytes hold every msgId that a peer may put into them.
LEMMA WordHolds ==
  ASSUME NEW n \in -4..3
  PROVE  uint32(n) \in Nat /\ int32(uint32(n)) = n
<1>1. CASE n >= 0
  <2>1. n % 8 = n
    BY <1>1
  <2> QED
    BY <1>1, <2>1 DEF uint32, int32, WordSize
<1>2. CASE n < 0
  <2>1. n % 8 = n + 8
    BY <1>2
  <2> QED
    BY <1>2, <2>1 DEF uint32, int32, WordSize
<1> QED
  BY <1>1, <1>2

\* What is known of every frame.
LEMMA FrameIs ==
  ASSUME NEW c \in SocketConfigs, NEW f \in Frames(c)
  PROVE  /\ f.len \in Nat /\ f.msgId \in Int /\ f.version \in Nat /\ f.good \in BOOLEAN
         /\ uint32(f.msgId) \in Nat /\ int32(uint32(f.msgId)) = f.msgId
         /\ f.version >= 1 <=> c.version >= 1
         /\ f.version # c.version => c.version >= 1
         /\ f.good = FALSE => f.len = 1
<1>1. /\ f.len \in Nat /\ f.msgId \in -4..3 /\ f.version \in Nat /\ f.good \in BOOLEAN
      /\ f.version >= 1 <=> c.version >= 1
      /\ f.version # c.version => c.version >= 1
      /\ f.good = FALSE => f.len = 1
  <2>1. CASE f \in LegalFrames(c)
    <3>1. f.len \in 0..c.maxData /\ f.msgId = 1 /\ f.version = c.version /\ f.good = TRUE
      BY <2>1 DEF LegalFrames
    <3>2. f.good \in BOOLEAN /\ ~(f.good = FALSE)
      BY <3>1
    <3>3. f.len \in Nat /\ f.msgId \in -4..3 /\ f.version \in Nat
      BY <3>1, ConfigIs
    <3> QED
      BY <3>1, <3>2, <3>3
  <2>2. CASE f = [msgId |-> 1, version |-> c.version, len |-> 1, good |-> FALSE]
    BY <2>2, ConfigIs
  <2>3. CASE f = [msgId |-> 1, version |-> c.version, len |-> c.maxData + 1, good |-> TRUE]
    BY <2>3, ConfigIs
  <2>4. CASE f = [msgId |-> -(c.maxMsgId + 1), version |-> c.version, len |-> 0, good |-> TRUE]
    <3>1. f.msgId = -(c.maxMsgId + 1) /\ f.version = c.version /\ f.len = 0 /\ f.good = TRUE
      BY <2>4
    <3>2. f.good \in BOOLEAN /\ ~(f.good = FALSE)
      BY <3>1
    <3>3. f.len \in Nat /\ f.msgId \in -4..3 /\ f.version \in Nat
      BY <3>1, ConfigIs
    <3> QED
      BY <3>1, <3>2, <3>3
  <2>5. CASE f = [msgId |-> 1, version |-> c.version + 1, len |-> 0, good |-> TRUE] /\ c.version >= 1
    BY <2>5, ConfigIs
  <2> QED
    BY <2>1, <2>2, <2>3, <2>4, <2>5 DEF Frames, OtherFrames
<1>2. f.msgId \in Int
  BY <1>1
<1> QED
  BY <1>1, <1>2, WordHolds

\* Short sequences put together.
LEMMA OneAndTwo ==
  ASSUME NEW x \in Int, NEW y \in Int, NEW z \in Int
  PROVE  <<x>> \o <<y, z>> = <<x, y, z>> /\ <<>> \o <<y, z>> = <<y, z>>
<1> DEFINE s == <<x>>
           t == <<y, z>>
           w == <<x, y, z>>
<1>1. /\ s \in Seq(Int) /\ Len(s) = 1 /\ s[1] = x
      /\ t \in Seq(Int) /\ Len(t) = 2 /\ t[1] = y /\ t[2] = z
      /\ w \in Seq(Int) /\ Len(w) = 3 /\ w[1] = x /\ w[2] = y /\ w[3] = z
  OBVIOUS
<1> HIDE DEF s, t, w
<1>2. /\ s \o t \in Seq(Int) /\ Len(s \o t) = Len(s) + Len(t)
      /\ \A i \in 1..Len(s) + Len(t) : (s \o t)[i] = IF i <= Len(s) THEN s[i] ELSE t[i - Len(s)]
  BY <1>1, ConcatProperties
<1>2a. (s \o t)[1] = x /\ (s \o t)[2] = y /\ (s \o t)[3] = z
  BY <1>1, <1>2
<1>3. ASSUME NEW i \in 1..3 PROVE (s \o t)[i] = w[i]
  <2>1. i = 1 \/ i = 2 \/ i = 3
    OBVIOUS
  <2> QED
    BY <1>1, <1>2a, <2>1
<1>3a. s \o t \in Seq(Int) /\ Len(s \o t) = 3 /\ Len(w) = 3 /\ w \in Seq(Int)
  BY <1>1, <1>2
<1>4. s \o t = w
  <2> DEFINE v == s \o t
  <2> HIDE DEF v
  <2>1. v \in Seq(Int) /\ Len(v) = Len(w) /\ \A i \in 1..Len(v) : v[i] = w[i]
    BY <1>3, <1>3a DEF v
  <2>2. v = w
    BY <1>1, <2>1, SeqEqual
  <2> QED
    BY <2>2 DEF v
<1>5. <<>> \o t = t
  BY <1>1, ConcatEmptySeq
<1> QED
  BY <1>4, <1>5 DEF s, t, w

\* The bytes of a frame: the version, msgId and the length, and then the body.
LEMMA PacketIs ==
  ASSUME NEW c \in SocketConfigs, NEW f \in Frames(c), NEW k \in Nat,
         NEW p, p = PreparePacketFromWire(k, f)
  PROVE  /\ p \in Seq(Bytes) /\ Len(p) = HeaderLen(c) + f.len
         /\ \A i \in 1..Len(p) : p[i].frame = k
         /\ c.version >= 1 => p[1].val = f.version
         /\ p[HeaderLen(c) - 1].val = uint32(f.msgId)
         /\ p[HeaderLen(c)].val = f.len
<1> DEFINE fields == (IF f.version >= 1 THEN <<f.version>> ELSE <<>>) \o <<uint32(f.msgId), f.len>>
           H == HeaderLen(c)
           n == H + f.len
<1>1. /\ f.len \in Nat /\ f.version \in Nat /\ uint32(f.msgId) \in Nat
      /\ f.version >= 1 <=> c.version >= 1
  BY FrameIs
<1>2. H = IF c.version >= 1 THEN 3 ELSE 2
  BY ConfigIs
<1>3. /\ Len(fields) = H /\ \A i \in 1..H : fields[i] \in Int
      /\ c.version >= 1 => fields[1] = f.version
      /\ fields[H - 1] = uint32(f.msgId) /\ fields[H] = f.len
  <2> DEFINE u == uint32(f.msgId)
  <2> HIDE DEF u, H
  <2>1. CASE c.version >= 1
    <3>0. fields = <<f.version>> \o <<u, f.len>> /\ u \in Int /\ f.len \in Int /\ f.version \in Int
      BY <1>1, <2>1 DEF u
    <3>1. fields = <<f.version, u, f.len>> /\ H = 3
      BY <1>2, <2>1, <3>0, OneAndTwo
    <3> QED
      BY <1>1, <2>1, <3>1 DEF u
  <2>2. CASE ~(c.version >= 1)
    <3>0. fields = <<>> \o <<u, f.len>> /\ u \in Int /\ f.len \in Int
      <4>1. ~(f.version >= 1)
        BY <1>1, <2>2
      <4>2. (IF f.version >= 1 THEN <<f.version>> ELSE <<>>) = <<>>
        BY <4>1
      <4>3. u \in Int /\ f.len \in Int
        BY <1>1 DEF u
      <4>4. fields = <<>> \o <<u, f.len>>
        BY <4>2, Zenon DEF u
      <4> QED
        BY <4>3, <4>4
    <3>1. fields = <<u, f.len>> /\ H = 2
      BY <1>2, <2>2, <3>0, OneAndTwo
    <3> QED
      BY <1>1, <2>2, <3>1 DEF u
  <2> QED
    BY <2>1, <2>2
<1>4. p = [i \in 1..Len(fields) + f.len |->
             [frame |-> k, at |-> i, val |-> IF i <= Len(fields) THEN fields[i] ELSE 0]]
  BY DEF PreparePacketFromWire
<1> HIDE DEF fields, H
<1>5. p = [i \in 1..n |-> [frame |-> k, at |-> i, val |-> IF i <= H THEN fields[i] ELSE 0]] /\ n \in Nat
  BY <1>1, <1>2, <1>3, <1>4
<1> HIDE DEF n
<1>6. \A i \in 1..n : /\ p[i] \in Bytes /\ p[i].frame = k
                      /\ i <= H => p[i].val = fields[i]
  <2> TAKE i \in 1..n
  <2>1. p[i] = [frame |-> k, at |-> i, val |-> IF i <= H THEN fields[i] ELSE 0]
    BY <1>5
  <2>2. (IF i <= H THEN fields[i] ELSE 0) \in Int
    BY <1>2, <1>3
  <2>3. i \in Nat
    BY <1>5
  <2> QED
    BY <2>1, <2>2, <2>3 DEF Bytes
<1>7. p \in Seq(Bytes) /\ Len(p) = n
  BY <1>5, <1>6
<1>8. H - 1 \in 1..n /\ H \in 1..n /\ 1 \in 1..n /\ n = H + f.len
  BY <1>1, <1>2 DEF n
<1>9. H - 1 <= H /\ 1 <= H /\ H <= H
  BY <1>2
<1>10. \A i \in 1..Len(p) : p[i].frame = k
  BY <1>6, <1>7
<1>11. p[1].val = fields[1] /\ p[H - 1].val = fields[H - 1] /\ p[H].val = fields[H]
  BY <1>6, <1>8, <1>9
<1> QED
  BY <1>3, <1>7, <1>8, <1>10, <1>11 DEF H

-----------------------------------------------------------------------------
(* Parsing.                                                                 *)

\* A byte that is looked at in place.
LEMMA PeekIs ==
  ASSUME NEW r, NEW o
  PROVE  PeekByte(r, o) = At(r, r.read + o)
  BY DEF PeekByte, At

\* The answers of parseHeader.
LEMMA HeaderIs ==
  ASSUME NEW c \in SocketConfigs, NEW r, NEW h, h = parseHeader(c, r)
  PROVE  LET off    == HeaderLen(c) - 2
             msgId  == int32(At(r, r.read + off).val)
             length == At(r, r.read + (off + 1)).val
             bad    == \/ c.version >= 1 /\ At(r, r.read + 0).val # c.version
                       \/ msgId < -c.maxMsgId \/ msgId > c.maxMsgId
                       \/ length > c.maxData
         IN  h = IF DataLen(r) < HeaderLen(c) THEN [res |-> "more"]
                 ELSE IF bad THEN [res |-> "error"]
                 ELSE IF DataLen(r) < HeaderLen(c) + length THEN [res |-> "more"]
                 ELSE [res |-> "parsed", msgId |-> msgId, length |-> length]
<1> DEFINE off == IF c.version >= 1 THEN 1 ELSE 0
           x == PeekByte(r, off)
           y == PeekByte(r, off + 1)
<1>1. off = HeaderLen(c) - 2 /\ (off = 1 <=> c.version >= 1)
  BY ConfigIs
<1>2. PeekHeader12(r, off)[1] = x /\ PeekHeader12(r, off)[2] = y
  BY DEF PeekHeader12
<1>3. x = At(r, r.read + off) /\ y = At(r, r.read + (off + 1)) /\ PeekByte(r, 0) = At(r, r.read + 0)
  BY PeekIs
<1>4. h = IF DataLen(r) < HeaderLen(c) THEN [res |-> "more"]
          ELSE IF \/ off = 1 /\ PeekByte(r, 0).val # c.version
                  \/ int32(x.val) < -c.maxMsgId \/ int32(x.val) > c.maxMsgId
                  \/ y.val > c.maxData
             THEN [res |-> "error"]
          ELSE IF DataLen(r) < HeaderLen(c) + y.val THEN [res |-> "more"]
          ELSE [res |-> "parsed", msgId |-> int32(x.val), length |-> y.val]
  <2> HIDE DEF x, y
  <2> QED
    BY <1>2 DEF parseHeader
<1> HIDE DEF off, x, y
<1> QED
  BY <1>1, <1>3, <1>4

\* It goes by the unread data alone.
LEMMA ParseSame ==
  ASSUME NEW c \in SocketConfigs, NEW r, NEW s, IsRing(r), SameData(r, s)
  PROVE  parseHeader(c, s) = parseHeader(c, r)
<1> DEFINE H == HeaderLen(c)
<1>1. H \in {2, 3} /\ DataLen(r) \in Nat /\ DataLen(s) = DataLen(r)
  BY ConfigIs, RingCounts DEF SameData
<1>2. CASE DataLen(r) < H
  BY <1>1, <1>2, HeaderIs
<1>3. CASE ~(DataLen(r) < H)
  <2>1. H - 2 \in 0..DataLen(r) - 1 /\ H - 2 + 1 \in 0..DataLen(r) - 1 /\ 0 \in 0..DataLen(r) - 1
    BY <1>1, <1>3
  <2>2. /\ At(s, s.read + (H - 2)) = At(r, r.read + (H - 2))
        /\ At(s, s.read + (H - 2 + 1)) = At(r, r.read + (H - 2 + 1))
        /\ At(s, s.read + 0) = At(r, r.read + 0)
    BY <2>1 DEF SameData
  <2> HIDE DEF H
  <2> QED
    BY <1>1, <1>3, <2>2, HeaderIs DEF H
<1> QED
  BY <1>2, <1>3

\* The ring shows frame f, the k-th of the stream, or as much of it as has arrived.
Shows(r, c, f, k) ==
    \A i \in 0..DataLen(r) - 1 :
      i < HeaderLen(c) + f.len => At(r, r.read + i) = PreparePacketFromWire(k, f)[i + 1]

\* At the front of the ring is a frame, or the part of it that has arrived: the
\* parser takes it for what it is.
LEMMA ParseFrame ==
  ASSUME NEW c \in SocketConfigs, NEW f \in Frames(c), NEW k \in Nat,
         NEW r, IsRing(r), NEW h, h = parseHeader(c, r), Shows(r, c, f, k)
  PROVE  /\ h.res \in {"more", "error", "parsed"}
         /\ h.res = "more" => /\ DataLen(r) < HeaderLen(c) + f.len
                              /\ DataLen(r) < HeaderLen(c) + c.maxData
         /\ h.res = "error" => ~LegalFor(c, f)
         /\ h.res = "parsed" => /\ LegalFor(c, f) /\ h.msgId = f.msgId /\ h.length = f.len
                                /\ DataLen(r) >= HeaderLen(c) + f.len
<1> DEFINE H == HeaderLen(c)
           p == PreparePacketFromWire(k, f)
           a == At(r, r.read + (H - 2)).val
           b == At(r, r.read + (H - 2 + 1)).val
           v == At(r, r.read + 0).val
           bad == \/ c.version >= 1 /\ v # c.version
                  \/ int32(a) < -c.maxMsgId \/ int32(a) > c.maxMsgId
                  \/ b > c.maxData
<1>1. /\ H \in {2, 3} /\ DataLen(r) \in Nat /\ f.len \in Nat /\ c.maxData \in Nat /\ c.maxMsgId \in 0..3
      /\ f.msgId \in Int /\ (f.version # c.version => c.version >= 1)
  BY ConfigIs, FrameIs, RingCounts
<1>2. h = IF DataLen(r) < H THEN [res |-> "more"]
          ELSE IF bad THEN [res |-> "error"]
          ELSE IF DataLen(r) < H + b THEN [res |-> "more"]
          ELSE [res |-> "parsed", msgId |-> int32(a), length |-> b]
  BY HeaderIs
<1>3. CASE DataLen(r) < H
  <2>1. h.res = "more"
    BY <1>2, <1>3
  <2> QED
    BY <1>1, <1>3, <2>1
<1>4. CASE ~(DataLen(r) < H)
  <2>1. /\ H - 2 \in 0..DataLen(r) - 1 /\ H - 2 + 1 \in 0..DataLen(r) - 1 /\ 0 \in 0..DataLen(r) - 1
        /\ H - 2 < H + f.len /\ H - 2 + 1 < H + f.len /\ 0 < H + f.len
        /\ H - 2 + 1 = H - 1 /\ H - 1 + 1 = H
    BY <1>1, <1>4
  <2>2. /\ At(r, r.read + (H - 2)) = p[H - 1] /\ At(r, r.read + (H - 2 + 1)) = p[H]
        /\ At(r, r.read + 0) = p[1]
    BY <2>1 DEF Shows
  <2>3. int32(a) = f.msgId /\ b = f.len /\ (c.version >= 1 => v = f.version)
    <3>1. p[H - 1].val = uint32(f.msgId) /\ p[H].val = f.len /\ (c.version >= 1 => p[1].val = f.version)
      BY PacketIs
    <3>2. int32(uint32(f.msgId)) = f.msgId
      BY FrameIs
    <3> QED
      BY <2>2, <3>1, <3>2
  <2> HIDE DEF a, b, v, H
  <2>4. bad <=> ~LegalFor(c, f)
    BY <1>1, <2>3 DEF LegalFor
  <2> HIDE DEF bad
  <2>5. CASE bad
    <3>1. h.res = "error"
      BY <1>2, <1>4, <2>5
    <3> QED
      BY <2>4, <2>5, <3>1
  <2>6. CASE ~bad /\ DataLen(r) < H + b
    <3>1. h.res = "more"
      BY <1>2, <1>4, <2>6
    <3>2. ~(b > c.maxData)
      BY <2>6 DEF bad
    <3>3. DataLen(r) < H + f.len /\ DataLen(r) < H + c.maxData
      BY <1>1, <2>3, <2>6, <3>2
    <3> QED
      BY <3>1, <3>3 DEF H
  <2>7. CASE ~bad /\ ~(DataLen(r) < H + b)
    <3>1. h.res = "parsed" /\ h.msgId = int32(a) /\ h.length = b
      BY <1>2, <1>4, <2>7
    <3>2. DataLen(r) >= H + f.len
      BY <1>1, <2>3, <2>7
    <3> QED
      BY <2>3, <2>4, <2>7, <3>1, <3>2 DEF H
  <2> QED
    BY <2>5, <2>6, <2>7
<1> QED
  BY <1>3, <1>4

\* The message that is made of a frame shows the cells of its body.
LEMMA MessageIs ==
  ASSUME NEW c \in SocketConfigs, IsRing(rb), NEW h, h.length \in Nat,
         HeaderLen(c) + h.length <= DataLen(rb), NEW m, m = parseBody(c, rb, h)
  PROVE  /\ m.msgId = h.msgId
         /\ messageData(m) = [i \in 1..h.length |-> At(rb, rb.read + (HeaderLen(c) + i - 1))]
<1> DEFINE H == HeaderLen(c)
           n == h.length
           pos == (rb.read + H) % rb.size
           end0 == pos + n
           cells == [i \in 1..n |-> At(rb, rb.read + (H + i - 1))]
<1>1. /\ H \in {2, 3} /\ rb.size \in Nat \ {0} /\ rb.read \in Nat /\ H + n <= rb.size /\ n \in Nat
  BY ConfigIs, RingCounts DEF IsRing
<1>2. pos \in 0..rb.size - 1
  <2>1. rb.read + H \in Nat
    BY <1>1
  <2> HIDE DEF H
  <2> QED
    BY <1>1, <2>1, ModRange
<1>3. ASSUME NEW i \in 1..n
      PROVE  At(rb, rb.read + (H + i - 1)) =
               rb.buf[IF pos + i - 1 < rb.size THEN pos + i - 1 ELSE pos + i - 1 - rb.size]
  <2>1. i - 1 \in 0..rb.size /\ rb.read + (H + i - 1) = (rb.read + H) + (i - 1) /\ rb.read + H \in Nat
    BY <1>1
  <2>2. ((rb.read + H) + (i - 1)) % rb.size =
          IF pos + (i - 1) < rb.size THEN pos + (i - 1) ELSE pos + (i - 1) - rb.size
    BY <1>1, <2>1, ModAdd
  <2>3. pos + (i - 1) = pos + i - 1
    BY <1>2
  <2> QED
    BY <2>1, <2>2, <2>3 DEF At
<1>4. PeekTwoSlices(rb, H, n) = IF end0 <= rb.size THEN <<<<pos, end0>>>>
                                ELSE <<<<pos, rb.size>>, <<0, n - (rb.size - pos)>>>>
  BY DEF PeekTwoSlices
<1> DEFINE view == PeekTwoSlices(rb, H, n)
           copy == slice(rb, view[1][1], view[1][2]) \o slice(rb, view[2][1], view[2][2])
<1>5. m = IF n = 0 THEN [msgId |-> h.msgId, view |-> <<>>, owned |-> <<>>]
          ELSE IF Len(view) = 1 THEN [msgId |-> h.msgId, view |-> view[1], owned |-> <<>>]
          ELSE [msgId |-> h.msgId, view |-> <<>>, owned |-> copy]
  BY DEF parseBody
<1> HIDE DEF view, copy, pos
<1>6. CASE n = 0
  <2>1. m.msgId = h.msgId /\ messageData(m) = <<>>
    BY <1>5, <1>6 DEF messageData
  <2>2. cells = <<>>
    BY <1>6
  <2> QED
    BY <2>1, <2>2
<1>7. CASE n # 0 /\ end0 <= rb.size
  <2>1. view = <<<<pos, end0>>>>
    BY <1>4, <1>7 DEF view
  <2>2. Len(view) = 1 /\ view[1] = <<pos, end0>>
    BY <2>1
  <2>3. m.msgId = h.msgId /\ m.view = <<pos, end0>>
    BY <1>5, <1>7, <2>2
  <2>4. m.view # <<>> /\ m.view[1] = pos /\ m.view[2] = end0
    BY <2>3
  <2>5. messageData(m) = slice(rb, pos, end0)
    BY <2>4 DEF messageData
  <2>6. slice(rb, pos, end0) = [i \in 1..n |-> rb.buf[pos + i - 1]]
    <3>1. end0 - pos = n
      BY <1>1, <1>2
    <3> HIDE DEF end0
    <3> QED
      BY <3>1 DEF slice
  <2>7. \A i \in 1..n : cells[i] = rb.buf[pos + i - 1]
    <3> TAKE i \in 1..n
    <3>1. pos + i - 1 < rb.size
      BY <1>1, <1>2, <1>7
    <3>2. cells[i] = At(rb, rb.read + (H + i - 1))
      OBVIOUS
    <3> HIDE DEF cells, end0
    <3> QED
      BY <1>3, <3>1, <3>2
  <2> QED
    BY <2>3, <2>5, <2>6, <2>7
<1>8. CASE n # 0 /\ ~(end0 <= rb.size)
  <2> DEFINE a == rb.size - pos
             s == slice(rb, pos, rb.size)
             t == slice(rb, 0, n - a)
  <2>1. view = <<<<pos, rb.size>>, <<0, n - a>>>>
    BY <1>4, <1>8 DEF view
  <2>2. Len(view) = 2 /\ copy = s \o t
    BY <2>1 DEF copy
  <2>3. m.msgId = h.msgId /\ m.view = <<>> /\ m.owned = s \o t
    BY <1>5, <1>8, <2>2
  <2>4. messageData(m) = s \o t
    BY <2>3 DEF messageData
  <2>5. a \in 1..rb.size /\ n - a \in Nat /\ n - a <= rb.size /\ pos \in Nat /\ rb.size \in Nat
    BY <1>1, <1>2, <1>8
  <2>6. Len(s) = a
    BY <2>5, SliceLen
  <2>7. \A i \in 1..a : s[i] = rb.buf[pos + i - 1]
    BY <2>5, SliceIs
  <2>8. Len(t) = n - a
    <3>1. Len(t) = n - a - 0
      BY <2>5, SliceLen
    <3> QED
      BY <2>5, <3>1
  <2>9. \A i \in 1..n - a : t[i] = rb.buf[i - 1]
    <3>1. \A i \in 1..n - a - 0 : t[i] = rb.buf[0 + i - 1]
      BY <2>5, SliceIs
    <3> QED
      BY <2>5, <3>1
  <2>10. s \in Seq(Cells(rb)) /\ t \in Seq(Cells(rb))
    <3>1. s \in Seq(Cells(rb))
      BY <1>1, <1>2, <2>5, SliceSeq
    <3>2. t \in Seq(Cells(rb))
      BY <1>1, <1>2, <2>5, SliceSeq
    <3> QED
      BY <3>1, <3>2
  <2> HIDE DEF s, t
  <2>11. /\ s \o t \in Seq(Cells(rb)) /\ Len(s \o t) = n
         /\ \A i \in 1..n : (s \o t)[i] = IF i <= a THEN s[i] ELSE t[i - a]
    <3>1. /\ s \o t \in Seq(Cells(rb)) /\ Len(s \o t) = Len(s) + Len(t)
          /\ \A i \in 1..Len(s) + Len(t) : (s \o t)[i] = IF i <= Len(s) THEN s[i] ELSE t[i - Len(s)]
      BY <2>10, ConcatProperties
    <3>2. Len(s) + Len(t) = n
      BY <1>1, <2>5, <2>6, <2>8
    <3> QED
      BY <2>6, <3>1, <3>2
  <2> HIDE DEF a
  <2>12. \A i \in 1..n : cells[i] = (s \o t)[i]
    <3> TAKE i \in 1..n
    <3>1. CASE i <= a
      <4>1. pos + i - 1 < rb.size /\ i \in 1..a
        BY <1>1, <1>2, <2>5, <3>1 DEF a
      <4> QED
        BY <1>3, <2>7, <2>11, <3>1, <4>1
    <3>2. CASE ~(i <= a)
      <4>1. /\ ~(pos + i - 1 < rb.size) /\ i - a \in 1..n - a
            /\ pos + i - 1 - rb.size = i - a - 1
        BY <1>1, <1>2, <2>5, <3>2 DEF a
      <4>2. (s \o t)[i] = t[i - a] /\ t[i - a] = rb.buf[i - a - 1]
        BY <2>9, <2>11, <3>2, <4>1
      <4> QED
        BY <1>3, <4>1, <4>2
    <3> QED
      BY <3>1, <3>2
  <2>13. s \o t = [i \in 1..n |-> (s \o t)[i]]
    <3> DEFINE z == s \o t
               C == Cells(rb)
    <3>1. z \in Seq(C) /\ Len(z) = n
      BY <2>11
    <3> HIDE DEF z, C
    <3>2. z = [i \in 1..n |-> z[i]]
      BY <1>1, <3>1
    <3> QED
      BY <3>2 DEF z
  <2> QED
    BY <2>3, <2>4, <2>12, <2>13
<1> QED
  BY <1>1, <1>6, <1>7, <1>8

-----------------------------------------------------------------------------
(* The inductive invariant of the read path.                                *)

\* The bytes of frame k, and the i-th of them.
frameLen(k) == HeaderLen(cfg) + sent[k].len
byteOf(k, i) == PreparePacketFromWire(k, sent[k])[i]

\* b says where each frame begins in the stream, and where the next one will.
Offsets(b) ==
    /\ b \in [1..Len(sent) + 1 -> Nat]
    /\ \A k \in 1..Len(sent) : b[k + 1] = b[k] + frameLen(k)
    /\ \A k, l \in 1..Len(sent) + 1 : k <= l => b[k] <= b[l]

\* What was sent and not yet consumed: in the ring, in the reactor's buffer, on the way.
Buffered == DataLen(rb) + got
Size == Buffered + Len(chunk) + Len(wire)
pending(i) ==
    IF i < Buffered THEN At(rb, rb.read + i)
    ELSE IF i < Buffered + Len(chunk) THEN chunk[i - Buffered + 1]
    ELSE wire[i - Buffered - Len(chunk) + 1]

\* It is the frames behind the first K, one after the other, as far as they were
\* not cut off.
Holds(b, K) ==
    /\ \A k \in K + 1..Len(sent) : \A i \in 1..frameLen(k) :
         b[k] - b[K + 1] + i - 1 < Size => pending(b[k] - b[K + 1] + i - 1) = byteOf(k, i)
    /\ peer # "cut" => Size = b[Len(sent) + 1] - b[K + 1]
    /\ peer = "cut" => /\ K < Len(sent)
                       /\ b[Len(sent)] - b[K + 1] <= Size /\ Size < b[Len(sent) + 1] - b[K + 1]

\* The callback was given what is readable of the first K frames, without the one
\* that is being handled.
Given(K) ==
    /\ pc # "handle" => Len(handled) = readable(K)
    /\ pc = "handle" => /\ K >= 1 /\ Len(handled) = readable(K - 1)
                        /\ messageData(msg) = body(K) /\ msg.msgId = sent[K].msgId

\* The types of the variables.
Types ==
    /\ cfg \in SocketConfigs /\ mode \in Modes /\ peer \in {"open", "closed", "cut"}
    /\ pc \in {"read", "second", "parse", "ingest", "handle", "closed"}
    /\ IsRing(rb) /\ got \in Nat /\ chunk \in Seq(Bytes) /\ wire \in Seq(Bytes)
    /\ sent \in Seq(Frames(cfg)) /\ handled \in Seq([msgId : Int, data : Seq(Bytes)])

\* What is free in the ring and where, and that the reader parsed what it could
\* before it reads again.
Room ==
    /\ rb.size >= defaultRingBufferSize
    /\ rb.max = normalizeRingBufferMaxSize(RingBufferMaxSizeForSocket(cfg))
    /\ Buffered <= rb.size
    /\ pc \notin {"second", "closed"} => got = 0
    /\ pc = "second" => got = rb.size - (rb.write % rb.size) /\ got < Free(rb)
    /\ mode = "reactor" => got = 0 /\ pc # "second" /\ Len(chunk) <= ReadBufSize
    /\ mode # "reactor" => chunk = <<>> /\ pc # "ingest"
    /\ pc = "read" => chunk = <<>>
    /\ pc = "ingest" => chunk # <<>> /\ (drained => ~IsFull(rb))
    /\ pc = "read" => parseHeader(cfg, rb).res = "more"
    /\ pc = "ingest" => parseHeader(cfg, rb).res = "more" \/ rb.max <= rb.size

\* Only a connection that the peer ended is at its end.
Ended == pc = "closed" /\ why = "eof" => peer # "open"

RInv(b, K) ==
    /\ Types /\ Room /\ Offsets(b) /\ K \in 0..Len(sent) /\ Holds(b, K) /\ Given(K)
    /\ StreamIntact /\ ClosedForCause /\ Ended

ReadPathInv == \E b, K : RInv(b, K)

-----------------------------------------------------------------------------
(* Lemmas about the state.                                                  *)

\* The limit of the ring is at least the largest legal frame.
LEMMA LimitIs ==
  ASSUME NEW c \in SocketConfigs
  PROVE  /\ RingBufferMaxSizeForSocket(c) = HeaderLen(c) + c.maxData
         /\ normalizeRingBufferMaxSize(RingBufferMaxSizeForSocket(c)) \in Nat
         /\ normalizeRingBufferMaxSize(RingBufferMaxSizeForSocket(c)) >= RingBufferMaxSizeForSocket(c)
         /\ normalizeRingBufferMaxSize(RingBufferMaxSizeForSocket(c)) > 0
<1> DEFINE n == RingBufferMaxSizeForSocket(c)
<1>1. n = c.maxData + HeaderLen(c) /\ HeaderLen(c) \in {2, 3} /\ c.maxData \in Nat
  BY ConfigIs DEF RingBufferMaxSizeForSocket
<1>2. n \in Nat /\ n > 0 /\ n = HeaderLen(c) + c.maxData
  BY <1>1
<1> HIDE DEF n
<1>3. nextPowerOfTwo64(n) \in Nat /\ nextPowerOfTwo64(n) >= n /\ nextPowerOfTwo64(n) > 0
  BY <1>2, NextPower
<1>4. normalizeRingBufferMaxSize(n) = nextPowerOfTwo64(n)
  BY <1>2 DEF normalizeRingBufferMaxSize
<1> QED
  BY <1>2, <1>3, <1>4 DEF n

\* Each readable frame counts one.
LEMMA ReadableIs ==
  ASSUME Types, NEW n \in 0..Len(sent)
  PROVE  /\ readable(n) \in Nat
         /\ n = 0 => readable(n) = 0
         /\ n > 0 => readable(n) = readable(n - 1) + (IF sent[n].good THEN 1 ELSE 0)
<1> DEFINE R(j) == {k \in 1..j : sent[k].good}
<1>1. ASSUME NEW j \in 0..Len(sent) PROVE IsFiniteSet(R(j)) /\ Cardinality(R(j)) \in Nat
  <2>1. IsFiniteSet(1..j)
    BY FS_Interval
  <2>2. R(j) \subseteq 1..j
    OBVIOUS
  <2> HIDE DEF R
  <2> QED
    BY <2>1, <2>2, FS_Subset, FS_CardinalityType
<1>2. readable(n) = Cardinality(R(n)) /\ readable(n - 1) = Cardinality(R(n - 1))
  BY DEF readable
<1>3. CASE n = 0
  <2>1. R(0) = {}
    OBVIOUS
  <2> HIDE DEF R
  <2> QED
    <3>1. Cardinality(R(n)) = 0
      BY <1>3, <2>1, FS_EmptySet
    <3> QED
      BY <1>2, <1>3, <3>1
<1>4. CASE n > 0 /\ sent[n].good
  <2>1. R(n) = R(n - 1) \cup {n} /\ n \notin R(n - 1) /\ n - 1 \in 0..Len(sent)
    BY <1>4
  <2> HIDE DEF R
  <2>2. IsFiniteSet(R(n - 1))
    BY <1>1, <2>1
  <2>3. Cardinality(R(n)) = Cardinality(R(n - 1)) + 1
    BY <2>1, <2>2, FS_AddElement
  <2> QED
    BY <1>1, <1>2, <1>4, <2>3
<1>5. CASE n > 0 /\ ~sent[n].good
  <2>1. R(n) = R(n - 1) /\ n - 1 \in 0..Len(sent)
    BY <1>5
  <2> HIDE DEF R
  <2>2. Cardinality(R(n)) \in Nat /\ Cardinality(R(n - 1)) = Cardinality(R(n))
    BY <1>1, <2>1
  <2> QED
    BY <1>2, <1>5, <2>2
<1> QED
  BY <1>3, <1>4, <1>5

\* A frame that was sent.
LEMMA SentIs ==
  ASSUME Types, NEW k \in 1..Len(sent)
  PROVE  /\ sent[k] \in Frames(cfg) /\ k \in Nat /\ k \in DOMAIN sent
         /\ frameLen(k) \in Nat /\ frameLen(k) >= 2 /\ sent[k].len \in Nat
         /\ PreparePacketFromWire(k, sent[k]) \in Seq(Bytes)
         /\ Len(PreparePacketFromWire(k, sent[k])) = frameLen(k)
<1>1. sent[k] \in Frames(cfg) /\ k \in Nat /\ k \in DOMAIN sent /\ cfg \in SocketConfigs
  BY DEF Types
<1>2. sent[k].len \in Nat
  BY <1>1, FrameIs
<1>3. HeaderLen(cfg) \in {2, 3}
  BY <1>1, ConfigIs
<1>4. /\ PreparePacketFromWire(k, sent[k]) \in Seq(Bytes)
      /\ Len(PreparePacketFromWire(k, sent[k])) = HeaderLen(cfg) + sent[k].len
  BY <1>1, PacketIs
<1> QED
  BY <1>1, <1>2, <1>3, <1>4 DEF frameLen

\* How much is where.
LEMMA SizeIs ==
  ASSUME Types
  PROVE  /\ DataLen(rb) \in Nat /\ Buffered \in Nat /\ Size \in Nat /\ Len(chunk) \in Nat /\ Len(wire) \in Nat
         /\ got = 0 => Buffered = DataLen(rb)
         /\ DataLen(rb) <= Buffered /\ Buffered <= Size
<1>1. DataLen(rb) \in Nat
  BY RingCounts DEF Types
<1>2. Len(chunk) \in Nat /\ Len(wire) \in Nat /\ got \in Nat
  BY DEF Types
<1> QED
  BY <1>1, <1>2 DEF Buffered, Size

\* The frame at the front of the ring, and what the parser says of it.
LEMMA FrontIs ==
  ASSUME NEW b, NEW K, Types, Offsets(b), K \in 0..Len(sent), Holds(b, K), got = 0,
         NEW h, h = parseHeader(cfg, rb)
  PROVE  /\ h.res \in {"more", "error", "parsed"}
         /\ h.res = "more" => DataLen(rb) < RingBufferMaxSizeForSocket(cfg)
         /\ h.res # "more" => K < Len(sent)
         /\ K < Len(sent) =>
              /\ h.res = "more" => DataLen(rb) < frameLen(K + 1)
              /\ h.res = "error" => ~Legal(sent[K + 1])
              /\ h.res = "parsed" => /\ h.msgId = sent[K + 1].msgId /\ h.length = sent[K + 1].len
                                     /\ DataLen(rb) >= frameLen(K + 1)
<1>1. /\ DataLen(rb) \in Nat /\ Size \in Nat /\ Buffered = DataLen(rb) /\ DataLen(rb) <= Size
      /\ cfg \in SocketConfigs /\ Len(sent) \in Nat
  BY SizeIs DEF Types
<1>2. RingBufferMaxSizeForSocket(cfg) = HeaderLen(cfg) + cfg.maxData /\ HeaderLen(cfg) \in {2, 3} /\ cfg.maxData \in Nat
  BY <1>1, LimitIs, ConfigIs
<1>3. CASE K = Len(sent)
  <2>1. Size = b[Len(sent) + 1] - b[K + 1] /\ b[K + 1] \in Nat
    BY <1>1, <1>3 DEF Holds, Offsets, Types
  <2>2. DataLen(rb) = 0
    BY <1>1, <1>3, <2>1
  <2>3. DataLen(rb) < HeaderLen(cfg)
    BY <1>2, <2>2
  <2>4. h = [res |-> "more"]
    BY <1>1, <2>3, HeaderIs
  <2> QED
    BY <1>1, <1>2, <1>3, <2>2, <2>4
<1>4. CASE K < Len(sent)
  <2> DEFINE f == sent[K + 1]
  <2>1. K + 1 \in 1..Len(sent) /\ K + 1 \in K + 1..Len(sent) /\ K + 1 \in Nat
    BY <1>1, <1>4
  <2>2. f \in Frames(cfg) /\ frameLen(K + 1) \in Nat /\ f.len \in Nat
    BY <2>1, SentIs
  <2>3. ASSUME NEW i \in 0..DataLen(rb) - 1, i < HeaderLen(cfg) + f.len
        PROVE  At(rb, rb.read + i) = PreparePacketFromWire(K + 1, f)[i + 1]
    <3>1. i + 1 \in 1..frameLen(K + 1)
      BY <1>1, <1>2, <2>2, <2>3 DEF frameLen
    <3>2. b[K + 1] - b[K + 1] + (i + 1) - 1 = i
      BY <1>1, <2>1 DEF Offsets
    <3>3. i < Size /\ i < Buffered
      BY <1>1
    <3>4. pending(i) = byteOf(K + 1, i + 1)
      BY <2>1, <3>1, <3>2, <3>3 DEF Holds
    <3> QED
      BY <3>3, <3>4 DEF pending, byteOf
  <2>4. IsRing(rb)
    BY DEF Types
  <2> HIDE DEF f
  <2>5. /\ h.res \in {"more", "error", "parsed"}
        /\ h.res = "more" => /\ DataLen(rb) < HeaderLen(cfg) + f.len
                             /\ DataLen(rb) < HeaderLen(cfg) + cfg.maxData
        /\ h.res = "error" => ~LegalFor(cfg, f)
        /\ h.res = "parsed" => /\ LegalFor(cfg, f) /\ h.msgId = f.msgId /\ h.length = f.len
                               /\ DataLen(rb) >= HeaderLen(cfg) + f.len
    <3>1. Shows(rb, cfg, f, K + 1)
      BY <2>3 DEF Shows
    <3> QED
      BY <1>1, <2>1, <2>2, <2>4, <3>1, ParseFrame
  <2>6. LegalFor(cfg, f) <=> Legal(f)
    BY DEF LegalFor, Legal
  <2> QED
    BY <1>2, <1>4, <2>5, <2>6 DEF f, frameLen
<1> QED
  BY <1>1, <1>3, <1>4

\* The frames are where they were if the bytes are.
LEMMA HoldsKept ==
  ASSUME NEW b, NEW K, Types, Offsets(b), K \in 0..Len(sent), Holds(b, K),
         UNCHANGED <<cfg, sent, peer>>, Size' = Size,
         \A i \in 0..Size - 1 : pending(i)' = pending(i)
  PROVE  Offsets(b)' /\ (K \in 0..Len(sent))' /\ Holds(b, K)'
<1>1. Offsets(b)' /\ (K \in 0..Len(sent))'
  BY DEF Offsets, frameLen
<1>2. /\ \A k : frameLen(k)' = frameLen(k)
      /\ \A k, i : byteOf(k, i)' = byteOf(k, i)
  BY DEF frameLen, byteOf
<1>3. ASSUME NEW k \in K + 1..Len(sent), NEW i \in 1..frameLen(k), b[k] - b[K + 1] + i - 1 < Size
      PROVE  pending(b[k] - b[K + 1] + i - 1)' = byteOf(k, i)
  <2> DEFINE x == b[k] - b[K + 1] + i - 1
  <2>1. k \in 1..Len(sent) + 1 /\ K + 1 \in 1..Len(sent) + 1 /\ K + 1 <= k /\ k \in 1..Len(sent) /\ Size \in Nat
    BY SizeIs DEF Types
  <2>2. b[k] \in Nat /\ b[K + 1] \in Nat /\ b[K + 1] <= b[k] /\ frameLen(k) \in Nat
    BY <2>1, SentIs DEF Offsets
  <2>3. x \in 0..Size - 1
    BY <1>3, <2>1, <2>2
  <2>4. pending(x) = byteOf(k, i)
    BY <1>3 DEF Holds
  <2> HIDE DEF x
  <2>5. pending(x)' = pending(x)
    BY <2>3
  <2> QED
    BY <2>4, <2>5 DEF x
<1>4. /\ peer' # "cut" => Size' = b[Len(sent) + 1] - b[K + 1]
      /\ peer' = "cut" => /\ K < Len(sent)
                          /\ b[Len(sent)] - b[K + 1] <= Size' /\ Size' < b[Len(sent) + 1] - b[K + 1]
  BY DEF Holds
<1> QED
  BY <1>1, <1>2, <1>3, <1>4 DEF Holds

\* What the callback was given is unchanged.
LEMMA GivenKept ==
  ASSUME NEW K, StreamIntact, Given(K), pc # "handle", pc' # "handle",
         UNCHANGED <<cfg, sent, handled>>
  PROVE  StreamIntact' /\ Given(K)'
<1>1. readable(K)' = readable(K)
  BY DEF readable
<1>2. Given(K)'
  BY <1>1 DEF Given
<1>3. StreamIntact'
  BY DEF StreamIntact, readable, body
<1> QED
  BY <1>2, <1>3

\* The front part and the rest of the bytes on the way.
LEMMA SplitIs ==
  ASSUME NEW S, NEW s \in Seq(S), NEW n \in 0..Len(s)
  PROVE  /\ SubSeq(s, 1, n) \in Seq(S) /\ Len(SubSeq(s, 1, n)) = n
         /\ \A i \in 1..n : SubSeq(s, 1, n)[i] = s[i]
         /\ SubSeq(s, n + 1, Len(s)) \in Seq(S) /\ Len(SubSeq(s, n + 1, Len(s))) = Len(s) - n
         /\ \A i \in 1..Len(s) - n : SubSeq(s, n + 1, Len(s))[i] = s[n + i]
<1>1. /\ SubSeq(s, 1, n) \in Seq(S) /\ Len(SubSeq(s, 1, n)) = n
      /\ \A i \in 1..n : SubSeq(s, 1, n)[i] = s[i]
  OBVIOUS
<1>2. /\ SubSeq(s, n + 1, Len(s)) \in Seq(S) /\ Len(SubSeq(s, n + 1, Len(s))) = Len(s) - n
      /\ \A i \in 1..Len(s) - n : SubSeq(s, n + 1, Len(s))[i] = s[n + i]
  OBVIOUS
<1> QED
  BY <1>1, <1>2

-----------------------------------------------------------------------------
(* Filling the ring.                                                        *)

\* The ring r with the bytes p stored as in ring q, and the write position e.
FedRing(r, q, p, e) == [r EXCEPT !.buf = stored(q, p), !.write = e]

\* Ring s is r, its write position at e, with p behind the data of r and g more cells.
Fed(r, g, p, e, s) ==
    /\ IsRing(s) /\ s.size = r.size /\ s.read = r.read /\ s.max = r.max /\ s.write = e
    /\ DataLen(s) = e - r.read
    /\ \A i \in 0..DataLen(r) + g - 1 : At(s, s.read + i) = At(r, r.read + i)
    /\ \A j \in 0..Len(p) - 1 : At(s, s.read + (DataLen(r) + g + j)) = p[j + 1]

\* A ring that can hold p takes it behind its data and behind the g bytes that are
\* in its cells and not yet part of it.
LEMMA FeedIs ==
  ASSUME NEW r, IsRing(r), NEW g, g \in Nat, NEW p, Len(p) \in Nat, DataLen(r) + g + Len(p) <= r.size,
         NEW q, q.size = r.size, q.write = r.write + g, q.buf = r.buf,
         NEW e, e \in Nat, r.write <= e, e <= r.read + r.size
  PROVE  Fed(r, g, p, e, FedRing(r, q, p, e))
<1> DEFINE s == FedRing(r, q, p, e)
<1>0. s = [r EXCEPT !.buf = stored(q, p), !.write = e]
  BY DEF FedRing
<1> HIDE DEF s
<1>1. /\ r.size \in Nat \ {0} /\ r.read \in Nat /\ r.write \in Nat /\ r.max \in Nat
      /\ DataLen(r) \in Nat /\ r.write = r.read + DataLen(r)
      /\ DOMAIN r = {"buf", "size", "read", "write", "max"}
  BY RingCounts DEF IsRing
<1>2. /\ DOMAIN s = {"buf", "size", "read", "write", "max"}
      /\ s.size = r.size /\ s.read = r.read /\ s.max = r.max /\ s.write = e
      /\ s.buf = stored(q, p)
  BY <1>0, <1>1
<1>3. IsRing(s) /\ DataLen(s) = e - r.read
  BY <1>1, <1>2 DEF IsRing, DataLen
<1>4. /\ \A j \in 0..Len(p) - 1 : stored(q, p)[(q.write + j) % q.size] = p[j + 1]
      /\ \A x \in r.read..q.write - 1 : stored(q, p)[x % q.size] = q.buf[x % q.size]
  <2>1. /\ q.size \in Nat \ {0} /\ q.write \in Nat /\ r.read <= q.write
        /\ q.write + Len(p) <= r.read + q.size
    BY <1>1
  <2> QED
    BY <1>1, <2>1, StoredIs
<1>5. ASSUME NEW i \in 0..DataLen(r) + g - 1 PROVE At(s, s.read + i) = At(r, r.read + i)
  <2>1. r.read + i \in r.read..q.write - 1
    <3>1. i \in Int /\ 0 <= i /\ i < DataLen(r) + g
      BY <1>1
    <3>2. r.read \in Int /\ q.write \in Int /\ q.write = r.read + (DataLen(r) + g)
      BY <1>1
    <3>3. \A a, d, j \in Int : 0 <= j /\ j < d => a + j \in Int /\ a <= a + j /\ a + j <= a + d - 1
      OBVIOUS
    <3>4. DataLen(r) + g \in Int
      BY <1>1
    <3>5. /\ r.read + i \in Int /\ r.read <= r.read + i
          /\ r.read + i <= r.read + (DataLen(r) + g) - 1
      BY <3>1, <3>2, <3>3, <3>4
    <3>6. r.read + i <= q.write - 1
      BY <3>2, <3>4, <3>5
    <3>7. r.read \in Int /\ q.write - 1 \in Int
      BY <3>2
    <3> QED
      BY <3>5, <3>6, <3>7
  <2> QED
    BY <1>2, <1>4, <2>1 DEF At
<1>6. ASSUME NEW j \in 0..Len(p) - 1 PROVE At(s, s.read + (DataLen(r) + g + j)) = p[j + 1]
  <2>1. r.read + (DataLen(r) + g + j) = q.write + j
    BY <1>1
  <2> QED
    BY <1>2, <1>4, <2>1 DEF At
<1> QED
  BY <1>2, <1>3, <1>5, <1>6 DEF Fed, s

\* The bytes that went from the wire into the ring are behind those that were there.
LEMMA WireMoves ==
  ASSUME Types, chunk = <<>>, chunk' = <<>>, NEW n \in 0..Len(wire),
         wire' = left(n), Buffered' = Buffered + n,
         \A i \in 0..Buffered - 1 : At(rb', rb'.read + i) = At(rb, rb.read + i),
         \A j \in 0..n - 1 : At(rb', rb'.read + (Buffered + j)) = wire[j + 1]
  PROVE  Size' = Size /\ \A i \in 0..Size - 1 : pending(i)' = pending(i)
<1> DEFINE B == Buffered
<1>1. /\ wire \in Seq(Bytes) /\ B \in Nat /\ Len(wire) \in Nat
  BY SizeIs DEF Types
<1>2. /\ Len(wire') = Len(wire) - n
      /\ \A i \in 1..Len(wire) - n : wire'[i] = wire[n + i]
  BY <1>1, SplitIs DEF left
<1>3. Len(chunk) = 0 /\ Len(chunk') = 0
  OBVIOUS
<1>4. Size = B + Len(wire) /\ Size' = B + n + Len(wire')
  BY <1>1, <1>3 DEF Size
<1>5. /\ \A i : pending(i) = IF i < B THEN At(rb, rb.read + i)
                              ELSE IF i < B + Len(chunk) THEN chunk[i - B + 1]
                              ELSE wire[i - B - Len(chunk) + 1]
      /\ \A i : pending(i)' = IF i < B + n THEN At(rb', rb'.read + i)
                              ELSE IF i < B + n + Len(chunk') THEN chunk'[i - (B + n) + 1]
                              ELSE wire'[i - (B + n) - Len(chunk') + 1]
  BY DEF pending
<1> HIDE DEF B
<1>6. ASSUME NEW i \in 0..B + Len(wire) - 1 PROVE pending(i)' = pending(i)
  <2>1. CASE i < B
    <3>1. i < B + n /\ i \in 0..B - 1
      BY <1>1, <2>1
    <3> QED
      BY <1>5, <2>1, <3>1 DEF B
  <2>2. CASE ~(i < B) /\ i < B + n
    <3>1. i - B \in 0..n - 1 /\ B + (i - B) = i /\ ~(i < B + 0) /\ i - B - 0 + 1 = i - B + 1
      BY <1>1, <2>2
    <3>2. pending(i)' = At(rb', rb'.read + i) /\ pending(i) = wire[i - B + 1]
      BY <1>3, <1>5, <2>2, <3>1
    <3>3. At(rb', rb'.read + (B + (i - B))) = wire[i - B + 1]
      BY <3>1 DEF B
    <3> QED
      BY <3>1, <3>2, <3>3
  <2>3. CASE ~(i < B + n)
    <3>1. /\ ~(i < B) /\ ~(i < B + 0) /\ ~(i < B + n + 0)
          /\ i - B - 0 + 1 = i - B + 1 /\ i - (B + n) - 0 + 1 = i - B - n + 1
          /\ i - B - n + 1 \in 1..Len(wire) - n /\ n + (i - B - n + 1) = i - B + 1
      BY <1>1, <2>3
    <3>2. pending(i)' = wire'[i - B - n + 1] /\ pending(i) = wire[i - B + 1]
      BY <1>3, <1>5, <2>3, <3>1
    <3> QED
      BY <1>2, <3>1, <3>2
  <2> QED
    BY <2>1, <2>2, <2>3
<1> QED
  BY <1>1, <1>2, <1>4, <1>6

\* So are those that went from the reactor's buffer into the ring.
LEMMA ChunkMoves ==
  ASSUME Types, NEW n \in 0..Len(chunk),
         chunk' = SubSeq(chunk, n + 1, Len(chunk)), wire' = wire, Buffered' = Buffered + n,
         \A i \in 0..Buffered - 1 : At(rb', rb'.read + i) = At(rb, rb.read + i),
         \A j \in 0..n - 1 : At(rb', rb'.read + (Buffered + j)) = chunk[j + 1]
  PROVE  Size' = Size /\ \A i \in 0..Size - 1 : pending(i)' = pending(i)
<1> DEFINE B == Buffered
           L == Len(chunk)
<1>1. /\ chunk \in Seq(Bytes) /\ B \in Nat /\ L \in Nat /\ Len(wire) \in Nat
  BY SizeIs DEF Types
<1>2. /\ Len(chunk') = L - n
      /\ \A i \in 1..L - n : chunk'[i] = chunk[n + i]
  BY <1>1, SplitIs
<1>4. Size = B + L + Len(wire) /\ Size' = B + n + Len(chunk') + Len(wire)
  BY <1>1 DEF Size
<1>5. /\ \A i : pending(i) = IF i < B THEN At(rb, rb.read + i)
                              ELSE IF i < B + L THEN chunk[i - B + 1]
                              ELSE wire[i - B - L + 1]
      /\ \A i : pending(i)' = IF i < B + n THEN At(rb', rb'.read + i)
                              ELSE IF i < B + n + Len(chunk') THEN chunk'[i - (B + n) + 1]
                              ELSE wire[i - (B + n) - Len(chunk') + 1]
  BY DEF pending
<1> HIDE DEF B, L
<1>6. ASSUME NEW i \in 0..B + L + Len(wire) - 1 PROVE pending(i)' = pending(i)
  <2>1. CASE i < B
    <3>1. i < B + n /\ i \in 0..B - 1
      BY <1>1, <2>1
    <3> QED
      BY <1>5, <2>1, <3>1 DEF B
  <2>2. CASE ~(i < B) /\ i < B + n
    <3>1. i - B \in 0..n - 1 /\ B + (i - B) = i /\ i < B + L
      BY <1>1, <2>2 DEF L
    <3>2. pending(i)' = At(rb', rb'.read + i) /\ pending(i) = chunk[i - B + 1]
      BY <1>5, <2>2, <3>1
    <3>3. At(rb', rb'.read + (B + (i - B))) = chunk[i - B + 1]
      BY <3>1 DEF B
    <3> QED
      BY <3>1, <3>2, <3>3
  <2>3. CASE ~(i < B + n) /\ i < B + L
    <3>1. /\ ~(i < B) /\ i < B + n + (L - n)
          /\ i - (B + n) + 1 = i - B - n + 1
          /\ i - B - n + 1 \in 1..L - n /\ n + (i - B - n + 1) = i - B + 1
      BY <1>1, <2>3
    <3>2. pending(i)' = chunk'[i - B - n + 1] /\ pending(i) = chunk[i - B + 1]
      BY <1>2, <1>5, <2>3, <3>1
    <3> QED
      BY <1>2, <3>1, <3>2
  <2>4. CASE ~(i < B + L)
    <3>1. /\ ~(i < B) /\ ~(i < B + n) /\ ~(i < B + n + (L - n))
          /\ i - (B + n) - (L - n) + 1 = i - B - L + 1
      BY <1>1, <2>4 DEF L
    <3> QED
      BY <1>2, <1>5, <2>4, <3>1
  <2> QED
    BY <2>1, <2>2, <2>3, <2>4
<1> QED
  BY <1>1, <1>2, <1>4, <1>6 DEF L

\* The room that is made before a read keeps the data.
LEMMA RoomToReadIs ==
  ASSUME NEW r, IsRing(r), NEW g, g = roomToRead(r)
  PROVE  IsRing(g.rb) /\ SameData(r, g.rb) /\ g.rb.max = r.max /\ g.rb.size >= r.size
<1>1. readRingGrowStepBytes \in Nat /\ fillStepBytes \in Nat
  BY SizeAssumption
<1>2. r.size \in Nat
  BY DEF IsRing
<1>3. CASE g = [ok |-> TRUE, rb |-> r]
  BY <1>2, <1>3 DEF SameData
<1>4. CASE g = Grow(r, fillStepBytes)
  <2>1. Grown(r, fillStepBytes, g)
    BY <1>1, <1>4, GrowIs
  <2> QED
    BY <2>1 DEF Grown
<1>5. CASE g = Grow(r, readRingGrowStepBytes)
  <2>1. Grown(r, readRingGrowStepBytes, g)
    BY <1>1, <1>5, GrowIs
  <2> QED
    BY <2>1 DEF Grown
<1> QED
  BY <1>3, <1>4, <1>5 DEF roomToRead, makeRoom

\* Room when nothing in the ring changes and the goroutine goes on to parse, to
\* handle a message, or ends.
LEMMA RoomKept ==
  ASSUME Types, Room, UNCHANGED <<cfg, mode, rb, got, chunk>>,
         pc' \in {"parse", "handle", "closed"}, pc' # "closed" => got = 0
  PROVE  Room'
<1>1. Buffered' = Buffered
  BY DEF Buffered
<1> QED
  BY <1>1 DEF Room

\* And the types.
LEMMA TypesKept ==
  ASSUME Types, UNCHANGED <<cfg, mode, sent>>, IsRing(rb'), got' \in Nat,
         peer' \in {"open", "closed", "cut"},
         pc' \in {"read", "second", "parse", "ingest", "handle", "closed"},
         chunk' \in Seq(Bytes), wire' \in Seq(Bytes),
         handled' \in Seq([msgId : Int, data : Seq(Bytes)])
  PROVE  Types'
  BY DEF Types

-----------------------------------------------------------------------------
(* Each action keeps the invariant.                                         *)

\* A step that consumes no frame and gives the callback nothing.
LEMMA RInvKept ==
  ASSUME NEW b, NEW K, RInv(b, K), pc # "handle", pc' # "handle",
         UNCHANGED <<cfg, sent, peer, handled>>, Types', Room', ClosedForCause', Ended',
         Size' = Size, \A i \in 0..Size - 1 : pending(i)' = pending(i)
  PROVE  RInv(b, K)'
<1>1. Types /\ Offsets(b) /\ K \in 0..Len(sent) /\ Holds(b, K) /\ Given(K) /\ StreamIntact
  BY DEF RInv
<1>2. Offsets(b)' /\ (K \in 0..Len(sent))' /\ Holds(b, K)'
  BY <1>1, HoldsKept
<1>3. StreamIntact' /\ Given(K)'
  BY <1>1, GivenKept
<1> QED
  BY <1>2, <1>3 DEF RInv

\* What is pending, when the buffers keep it.
LEMMA PendingKept ==
  ASSUME Types, UNCHANGED <<chunk, wire>>, Buffered' = Buffered,
         \A i \in 0..Buffered - 1 : At(rb', rb'.read + i) = At(rb, rb.read + i)
  PROVE  Size' = Size /\ \A i \in 0..Size - 1 : pending(i)' = pending(i)
<1>1. Buffered \in Nat /\ Size \in Nat
  BY SizeIs
<1>2. Size' = Size
  BY DEF Size
<1>3. ASSUME NEW i \in 0..Size - 1 PROVE pending(i)' = pending(i)
  <2>1. CASE i < Buffered
    <3>1. i \in 0..Buffered - 1
      BY <1>1, <2>1
    <3> QED
      BY <2>1, <3>1 DEF pending
  <2>2. CASE ~(i < Buffered)
    BY <2>2 DEF pending
  <2> QED
    BY <2>1, <2>2
<1> QED
  BY <1>2, <1>3

\* A step that leaves the buffers alone.
LEMMA StillKeeps ==
  ASSUME NEW b, NEW K, RInv(b, K), pc # "handle", pc' \in {"parse", "closed"},
         pc' # "closed" => got = 0,
         UNCHANGED <<cfg, mode, rb, got, chunk, wire, sent, peer, handled>>, ClosedForCause', Ended'
  PROVE  RInv(b, K)'
<1>1. Types /\ Room
  BY DEF RInv
<1>2. Types'
  BY <1>1 DEF Types
<1>3. Room'
  BY <1>1, RoomKept
<1>4. Buffered' = Buffered
  BY DEF Buffered
<1>5. Size' = Size /\ \A i \in 0..Size - 1 : pending(i)' = pending(i)
  BY <1>1, <1>4, PendingKept
<1> QED
  BY <1>2, <1>3, <1>5, RInvKept

\* The goroutine is not at its end after the step.
LEMMA NotClosed ==
  ASSUME pc' # "closed"
  PROVE  ClosedForCause' /\ Ended'
  BY DEF ClosedForCause, Ended

\* The first read of WriteFromReader.
LEMMA ReadFirstKeeps ==
  ASSUME NEW b, NEW K, RInv(b, K), ReadFirst
  PROVE  RInv(b, K)'
<1> DEFINE room == roomToRead(rb)
           r == room.rb
           slices == readSlices(r)
<1>1. Types /\ Room
  BY DEF RInv
<1>2. /\ pc = "read" /\ mode # "reactor" /\ got = 0 /\ chunk = <<>>
      /\ UNCHANGED <<cfg, mode, chunk, sent, peer, handled>>
  BY <1>1 DEF ReadFirst, Room, env
<1>3. CASE ~room.ok
  <2>1. pc' = "parse" /\ UNCHANGED <<rb, got, wire>>
    BY <1>3 DEF ReadFirst
  <2> QED
    BY <1>2, <2>1, StillKeeps, NotClosed
<1>4. CASE room.ok
  <2> DEFINE again(n) == n = slices[1] /\ Len(slices) = 2
  <2>1. PICK n \in 1..slices[1] :
          /\ n <= Len(wire)
          /\ wire' = left(n)
          /\ rb' = [r EXCEPT !.buf = stored(r, arrived(n)), !.write = IF again(n) THEN @ ELSE @ + n]
          /\ got' = IF again(n) THEN n ELSE 0
          /\ pc' = IF again(n) THEN "second" ELSE "parse"
    BY <1>4, Zenon DEF ReadFirst
  <2>2. IsRing(r) /\ SameData(rb, r) /\ r.max = rb.max /\ r.size >= rb.size
    BY <1>1, RoomToReadIs DEF Types
  <2> HIDE DEF room, r
  <2> DEFINE wp == r.write % r.size
             d == DataLen(rb)
  <2>3. /\ r.size \in Nat \ {0} /\ r.read \in Nat /\ r.write \in Nat
        /\ d \in Nat /\ DataLen(r) = d /\ Free(r) = r.size - d /\ r.write = r.read + d /\ d <= r.size
    <3>1. DataLen(r) = d
      BY <2>2 DEF SameData
    <3> HIDE DEF d
    <3> QED
      BY <2>2, <3>1, RingIs
  <2>4. wp \in 0..r.size - 1
    BY <2>3, ModRange
  <2>5. slices = IF wp + (r.size - d) <= r.size THEN <<r.size - d>>
                 ELSE <<r.size - wp, r.size - d - (r.size - wp)>>
    BY <2>3 DEF readSlices
  <2> HIDE DEF wp, d, slices
  <2>6. /\ slices[1] <= r.size - d /\ slices[1] \in Int
        /\ Len(slices) = 2 => slices[1] = r.size - wp /\ r.size - wp < r.size - d
    <3>1. CASE wp + (r.size - d) <= r.size
      <4>1. slices[1] = r.size - d /\ Len(slices) = 1
        BY <2>5, <3>1
      <4> QED
        BY <2>3, <4>1
    <3>2. CASE ~(wp + (r.size - d) <= r.size)
      <4>1. slices[1] = r.size - wp /\ Len(slices) = 2
        BY <2>5, <3>2
      <4> QED
        BY <2>3, <2>4, <3>2, <4>1
    <3> QED
      BY <3>1, <3>2
  <2>7. n \in Nat /\ n >= 1 /\ d + n <= r.size /\ n \in 0..Len(wire) /\ Len(wire) \in Nat
    <3>1. Len(wire) \in Nat
      BY <1>1 DEF Types
    <3>2. n \in Int /\ n >= 1 /\ n <= r.size - d
      BY <2>3, <2>6
    <3>3. n <= Len(wire)
      BY <2>1
    <3> QED
      BY <2>3, <3>1, <3>2, <3>3
  <2> DEFINE p == arrived(n)
             e == IF again(n) THEN r.write ELSE r.write + n
  <2>8. Len(p) = n /\ \A i \in 1..n : p[i] = wire[i]
    BY <1>1, <2>7, SplitIs DEF arrived, Types
  <2>9. rb' = [r EXCEPT !.buf = stored(r, p), !.write = e]
    BY <2>1
  <2>10. e \in Nat /\ r.write <= e /\ e <= r.read + r.size /\ r.write = r.write + 0 /\ d + 0 + n <= r.size
    BY <2>3, <2>7
  <2> HIDE DEF again, p
  <2>11. /\ IsRing(rb') /\ rb'.size = r.size /\ rb'.read = r.read /\ rb'.max = r.max /\ rb'.write = e
         /\ DataLen(rb') = e - r.read
         /\ \A i \in 0..d + 0 - 1 : At(rb', rb'.read + i) = At(r, r.read + i)
         /\ \A j \in 0..n - 1 : At(rb', rb'.read + (d + 0 + j)) = p[j + 1]
    <3> HIDE DEF e
    <3>1. DataLen(r) + 0 + Len(p) <= r.size /\ Len(p) \in Nat
      BY <2>3, <2>7, <2>8, <2>10
    <3>2. /\ IsRing(rb') /\ rb'.size = r.size /\ rb'.read = r.read /\ rb'.max = r.max /\ rb'.write = e
          /\ DataLen(rb') = e - r.read
          /\ \A i \in 0..DataLen(r) + 0 - 1 : At(rb', rb'.read + i) = At(r, r.read + i)
          /\ \A j \in 0..Len(p) - 1 : At(rb', rb'.read + (DataLen(r) + 0 + j)) = p[j + 1]
      <4>1. r.size = r.size /\ r.write = r.write + 0 /\ r.buf = r.buf /\ 0 \in Nat
        BY <2>10
      <4>2. Fed(r, 0, p, e, FedRing(r, r, p, e))
        BY <2>2, <2>10, <3>1, <4>1, FeedIs
      <4>3. rb' = FedRing(r, r, p, e)
        BY <2>9 DEF FedRing
      <4> QED
        BY <4>2, <4>3 DEF Fed
    <3> QED
      BY <2>3, <2>8, <3>2
  <2>12. got' = (IF again(n) THEN n ELSE 0) /\ Buffered = d /\ Buffered' = d + n
    <3>1. Buffered = d
      BY <1>1, <1>2, SizeIs DEF d
    <3>2. got' = (IF again(n) THEN n ELSE 0)
      BY <2>1 DEF again
    <3>3. DataLen(rb') + got' = d + n
      BY <2>3, <2>7, <2>11, <3>2
    <3> QED
      BY <3>1, <3>2, <3>3 DEF Buffered
  <2>13. Size' = Size /\ \A i \in 0..Size - 1 : pending(i)' = pending(i)
    <3>1. ASSUME NEW i \in 0..Buffered - 1 PROVE At(rb', rb'.read + i) = At(rb, rb.read + i)
      BY <2>2, <2>3, <2>11, <2>12, <3>1 DEF SameData, d
    <3>2. ASSUME NEW j \in 0..n - 1 PROVE At(rb', rb'.read + (Buffered + j)) = wire[j + 1]
      <4>1. d + 0 + j = Buffered + j /\ j + 1 \in 1..n
        BY <2>3, <2>7, <2>12
      <4> QED
        BY <2>8, <2>11, <4>1
    <3> QED
      BY <1>1, <1>2, <2>1, <2>7, <2>12, <3>1, <3>2, WireMoves
  <2>14. pc' = IF again(n) THEN "second" ELSE "parse"
    BY <2>1 DEF again
  <2>15. Room'
    <3>1. /\ rb'.size >= defaultRingBufferSize
          /\ rb'.max = normalizeRingBufferMaxSize(RingBufferMaxSizeForSocket(cfg))
      BY <1>1, <2>2, <2>3, <2>11, SizeAssumption DEF Room, Types, IsRing
    <3>2. Buffered' <= rb'.size
      BY <2>7, <2>11, <2>12
    <3>3. /\ pc' \notin {"second", "closed"} => got' = 0
          /\ pc' = "second" => got' = rb'.size - (rb'.write % rb'.size) /\ got' < Free(rb')
      <4>1. CASE again(n)
        <5>1. rb'.write % rb'.size = wp /\ Free(rb') = r.size - d
          BY <2>3, <2>11, <4>1 DEF wp, Free
        <5> QED
          BY <2>6, <2>11, <2>12, <2>14, <4>1, <5>1 DEF again
      <4>2. CASE ~again(n)
        BY <2>12, <2>14, <4>2
      <4> QED
        BY <4>1, <4>2
    <3>4. pc' \in {"second", "parse"} /\ mode' # "reactor" /\ chunk' = <<>>
      BY <1>2, <2>14
    <3> QED
      BY <1>2, <3>1, <3>2, <3>3, <3>4 DEF Room
  <2>16. Types'
    <3>1. wire' \in Seq(Bytes)
      BY <1>1, <2>1, <2>7, SplitIs DEF Types, left
    <3>2. got' \in Nat /\ pc' \in {"read", "second", "parse", "ingest", "handle", "closed"}
      BY <2>7, <2>12, <2>14
    <3> QED
      BY <1>1, <1>2, <2>11, <3>1, <3>2 DEF Types
  <2>17. pc' # "handle" /\ pc' # "closed"
    BY <2>14
  <2> QED
    BY <1>2, <2>13, <2>15, <2>16, <2>17, NotClosed, RInvKept
<1> QED
  BY <1>3, <1>4

\* The second one.
LEMMA ReadSecondKeeps ==
  ASSUME NEW b, NEW K, RInv(b, K), ReadSecond
  PROVE  RInv(b, K)'
<1> DEFINE slices == readSlices(rb)
           wp == rb.write % rb.size
           d == DataLen(rb)
<1>1. Types /\ Room
  BY DEF RInv
<1>2. /\ pc = "second" /\ pc' = "parse" /\ got' = 0
      /\ UNCHANGED <<cfg, mode, chunk, sent, peer, handled>>
  BY DEF ReadSecond, env
<1>3. PICK n \in 1..slices[2] :
         /\ n <= Len(wire)
         /\ wire' = left(n)
         /\ rb' = [rb EXCEPT !.buf = stored([rb EXCEPT !.write = @ + got], arrived(n)),
                             !.write = @ + got + n]
  BY DEF ReadSecond
<1>4. /\ rb.size \in Nat \ {0} /\ rb.read \in Nat /\ rb.write \in Nat /\ IsRing(rb)
      /\ d \in Nat /\ Free(rb) = rb.size - d /\ rb.write = rb.read + d /\ d <= rb.size
      /\ DOMAIN rb = {"buf", "size", "read", "write", "max"}
  <2>1. IsRing(rb)
    BY <1>1 DEF Types
  <2> QED
    BY <2>1, RingIs
<1>5. wp \in 0..rb.size - 1 /\ got = rb.size - wp /\ got < rb.size - d /\ mode # "reactor" /\ chunk = <<>>
  <2>1. wp \in 0..rb.size - 1
    BY <1>4, ModRange
  <2> QED
    BY <1>1, <1>2, <1>4, <2>1 DEF Room
<1>6. slices = IF wp + (rb.size - d) <= rb.size THEN <<rb.size - d>>
               ELSE <<rb.size - wp, rb.size - d - (rb.size - wp)>>
  BY <1>4 DEF readSlices
<1> HIDE DEF wp, d, slices
<1>7. slices[2] = rb.size - d - got
  <2>1. ~(wp + (rb.size - d) <= rb.size)
    BY <1>4, <1>5
  <2> QED
    BY <1>5, <1>6, <2>1
<1>8. n \in Nat /\ n >= 1 /\ d + got + n <= rb.size /\ n \in 0..Len(wire) /\ got \in Nat
  <2>1. n \in Int /\ n >= 1 /\ n <= rb.size - d - got
    BY <1>4, <1>5, <1>7
  <2>2. got \in Nat /\ Len(wire) \in Nat
    BY <1>1 DEF Types
  <2>3. n <= Len(wire)
    BY <1>3
  <2> QED
    BY <1>4, <2>1, <2>2, <2>3
<1> DEFINE p == arrived(n)
           e == rb.write + got + n
           q == [rb EXCEPT !.write = @ + got]
<1>9. Len(p) = n /\ \A i \in 1..n : p[i] = wire[i]
  BY <1>1, <1>8, SplitIs DEF arrived, Types
<1>10. rb' = [rb EXCEPT !.buf = stored(q, p), !.write = e]
  BY <1>3
<1>11. e \in Nat /\ rb.write <= e /\ e <= rb.read + rb.size
  <2>1. rb.write = rb.read + d /\ d + (got + n) <= rb.size /\ e = rb.write + (got + n)
    BY <1>4, <1>8
  <2>2. got + n \in Nat
    BY <1>8
  <2>3. e = rb.read + (d + (got + n)) /\ e \in Nat /\ rb.write <= e
    BY <1>4, <2>1, <2>2
  <2> QED
    BY <1>4, <2>1, <2>2, <2>3
<1>12. q.size = rb.size /\ q.write = rb.write + got /\ q.buf = rb.buf
  BY <1>4
<1> HIDE DEF p, q
<1>13. /\ IsRing(rb') /\ rb'.size = rb.size /\ rb'.read = rb.read /\ rb'.max = rb.max /\ rb'.write = e
       /\ DataLen(rb') = e - rb.read
       /\ \A i \in 0..d + got - 1 : At(rb', rb'.read + i) = At(rb, rb.read + i)
       /\ \A j \in 0..n - 1 : At(rb', rb'.read + (d + got + j)) = p[j + 1]
  <2> HIDE DEF e
  <2>1. DataLen(rb) + got + Len(p) <= rb.size /\ Len(p) \in Nat
    BY <1>8, <1>9 DEF d
  <2>2. /\ IsRing(rb') /\ rb'.size = rb.size /\ rb'.read = rb.read /\ rb'.max = rb.max /\ rb'.write = e
        /\ DataLen(rb') = e - rb.read
        /\ \A i \in 0..DataLen(rb) + got - 1 : At(rb', rb'.read + i) = At(rb, rb.read + i)
        /\ \A j \in 0..Len(p) - 1 : At(rb', rb'.read + (DataLen(rb) + got + j)) = p[j + 1]
    <3>1. Fed(rb, got, p, e, FedRing(rb, q, p, e))
      BY <1>4, <1>8, <1>11, <1>12, <2>1, FeedIs
    <3>2. rb' = FedRing(rb, q, p, e)
      BY <1>10 DEF FedRing
    <3> QED
      BY <3>1, <3>2 DEF Fed
  <2> QED
    BY <1>9, <2>2 DEF d
<1>14. Buffered = d + got /\ Buffered' = Buffered + n
  <2>1. Buffered = d + got
    BY DEF Buffered, d
  <2>2. DataLen(rb') + got' = d + got + n
    BY <1>2, <1>4, <1>8, <1>13
  <2> QED
    BY <2>1, <2>2 DEF Buffered
<1>15. Size' = Size /\ \A i \in 0..Size - 1 : pending(i)' = pending(i)
  <2>1. ASSUME NEW i \in 0..Buffered - 1 PROVE At(rb', rb'.read + i) = At(rb, rb.read + i)
    <3>1. i \in 0..d + got - 1
      BY <1>4, <1>8, <1>14
    <3> QED
      BY <1>13, <3>1
  <2>2. ASSUME NEW j \in 0..n - 1 PROVE At(rb', rb'.read + (Buffered + j)) = wire[j + 1]
    <3>1. j + 1 \in 1..n
      BY <1>8
    <3> QED
      BY <1>9, <1>13, <1>14, <3>1
  <2> QED
    BY <1>1, <1>2, <1>3, <1>5, <1>8, <1>14, <2>1, <2>2, WireMoves
<1>16. Room'
  <2>1. Buffered' <= rb'.size
    BY <1>8, <1>13, <1>14
  <2> QED
    BY <1>1, <1>2, <1>5, <1>13, <2>1 DEF Room
<1>17. Types'
  <2>1. wire' \in Seq(Bytes)
    BY <1>1, <1>3, <1>8, SplitIs DEF Types, left
  <2> QED
    BY <1>1, <1>2, <1>13, <2>1 DEF Types
<1>18. pc # "handle" /\ pc' # "handle" /\ pc' # "closed"
  BY <1>2
<1> QED
  BY <1>2, <1>15, <1>16, <1>17, <1>18, NotClosed, RInvKept

\* The end of the stream at the second one.
LEMMA SecondEOFKeeps ==
  ASSUME NEW b, NEW K, RInv(b, K), SecondEOF
  PROVE  RInv(b, K)'
<1>1. Types /\ Room
  BY DEF RInv
<1>2. /\ pc = "second" /\ pc' = "parse" /\ got' = 0
      /\ rb' = [rb EXCEPT !.write = @ + got]
      /\ UNCHANGED <<cfg, mode, chunk, wire, sent, peer, handled>>
  BY DEF SecondEOF, env, net
<1>3. /\ rb.size \in Nat \ {0} /\ rb.read \in Nat /\ rb.write \in Nat /\ IsRing(rb) /\ got \in Nat
      /\ DataLen(rb) \in Nat /\ Free(rb) = rb.size - DataLen(rb) /\ rb.write = rb.read + DataLen(rb)
      /\ DOMAIN rb = {"buf", "size", "read", "write", "max"} /\ rb.max \in Nat
  BY <1>1, RingCounts DEF Types, IsRing, Free
<1>4. DataLen(rb) + got <= rb.size
  BY <1>1 DEF Room, Buffered
<1>5. /\ rb'.size = rb.size /\ rb'.read = rb.read /\ rb'.max = rb.max /\ rb'.buf = rb.buf
      /\ rb'.write = rb.write + got /\ DOMAIN rb' = {"buf", "size", "read", "write", "max"}
  BY <1>2, <1>3
<1>6. IsRing(rb') /\ DataLen(rb') = DataLen(rb) + got
  BY <1>3, <1>4, <1>5 DEF IsRing, DataLen
<1>7. Buffered' = Buffered
  <2>1. DataLen(rb') + got' = DataLen(rb) + got
    BY <1>2, <1>3, <1>6
  <2> QED
    BY <2>1 DEF Buffered
<1>8. Size' = Size /\ \A i \in 0..Size - 1 : pending(i)' = pending(i)
  <2>1. \A i \in 0..Buffered - 1 : At(rb', rb'.read + i) = At(rb, rb.read + i)
    BY <1>5 DEF At
  <2> QED
    BY <1>1, <1>2, <1>7, <2>1, PendingKept
<1>9. Room'
  BY <1>1, <1>2, <1>5, <1>7 DEF Room
<1>10. Types'
  BY <1>1, <1>2, <1>6 DEF Types
<1>11. pc # "handle" /\ pc' # "handle" /\ pc' # "closed"
  BY <1>2
<1> QED
  BY <1>2, <1>8, <1>9, <1>10, <1>11, NotClosed, RInvKept

\* The end of the stream: nothing is left but a part of a frame that was cut off.
LEMMA ReadEOFKeeps ==
  ASSUME NEW b, NEW K, RInv(b, K), ReadEOF
  PROVE  RInv(b, K)'
<1>1. Types /\ Room /\ Offsets(b) /\ K \in 0..Len(sent) /\ Holds(b, K) /\ Given(K)
  BY DEF RInv
<1>2. /\ pc = "read" /\ pc' = "closed" /\ why' = "eof" /\ wire = <<>> /\ peer # "open"
      /\ UNCHANGED <<cfg, mode, rb, got, chunk, wire, sent, peer, handled>>
  BY DEF ReadEOF, end, env, net
<1>3. got = 0 /\ chunk = <<>> /\ parseHeader(cfg, rb).res = "more"
  BY <1>1, <1>2 DEF Room
<1>4. Size = DataLen(rb) /\ Size \in Nat /\ Len(sent) \in Nat
  <2>1. Len(chunk) = 0 /\ Len(wire) = 0
    BY <1>2, <1>3
  <2> QED
    BY <1>1, <1>3, <2>1, SizeIs DEF Size, Types
<1>5. ASSUME K < Len(sent) PROVE Size < b[K + 2] - b[K + 1]
  <2>1. Size < frameLen(K + 1)
    BY <1>1, <1>3, <1>4, <1>5, FrontIs
  <2>2. K + 1 \in 1..Len(sent) /\ (K + 1) + 1 = K + 2
    BY <1>1, <1>5
  <2>3. b[K + 2] = b[K + 1] + frameLen(K + 1) /\ b[K + 1] \in Nat /\ frameLen(K + 1) \in Nat
    BY <1>1, <2>2, SentIs DEF Offsets
  <2> QED
    BY <2>1, <2>3
<1>6. K = IF peer = "cut" THEN Len(sent) - 1 ELSE Len(sent)
  <2>1. CASE peer = "cut"
    <3>1. K < Len(sent) /\ b[Len(sent)] - b[K + 1] <= Size
      BY <1>1, <2>1 DEF Holds
    <3>2. CASE K + 1 < Len(sent)
      <4>1. /\ K + 2 \in 1..Len(sent) + 1 /\ Len(sent) \in 1..Len(sent) + 1 /\ K + 1 \in 1..Len(sent) + 1
            /\ K + 2 <= Len(sent)
        BY <1>1, <1>4, <3>2
      <4>2. b[K + 2] <= b[Len(sent)] /\ b[K + 2] \in Nat /\ b[Len(sent)] \in Nat /\ b[K + 1] \in Nat
        BY <1>1, <4>1 DEF Offsets
      <4> QED
        BY <1>4, <1>5, <3>1, <4>2
    <3> QED
      BY <1>1, <1>4, <2>1, <3>1, <3>2
  <2>2. CASE peer # "cut"
    <3>1. Size = b[Len(sent) + 1] - b[K + 1]
      BY <1>1, <2>2 DEF Holds
    <3>2. CASE K < Len(sent)
      <4>1. /\ K + 2 \in 1..Len(sent) + 1 /\ Len(sent) + 1 \in 1..Len(sent) + 1 /\ K + 1 \in 1..Len(sent) + 1
            /\ K + 2 <= Len(sent) + 1
        BY <1>1, <1>4, <3>2
      <4>2. b[K + 2] <= b[Len(sent) + 1] /\ b[K + 2] \in Nat /\ b[Len(sent) + 1] \in Nat /\ b[K + 1] \in Nat
        BY <1>1, <4>1 DEF Offsets
      <4> QED
        BY <1>4, <1>5, <3>1, <3>2, <4>2
    <3> QED
      BY <1>1, <1>4, <2>2, <3>2
  <2> QED
    BY <2>1, <2>2
<1>7. Len(handled) = readable(K) /\ readable(K) \in Nat
  BY <1>1, <1>2, ReadableIs DEF Given
<1>8. ClosedForCause'
  <2>1. readable(K)' = readable(K)
    BY <1>2 DEF readable
  <2>2. Len(handled') >= readable(K)'
    BY <1>2, <1>7, <2>1
  <2>3. CASE peer = "cut"
    <3>1. K = Len(sent') - 1 /\ peer' = "cut"
      BY <1>2, <1>6, <2>3
    <3> QED
      BY <1>2, <2>2, <3>1 DEF ClosedForCause, readable
  <2>4. CASE peer # "cut"
    <3>1. K = Len(sent') /\ peer' # "cut"
      BY <1>2, <1>6, <2>4
    <3> QED
      BY <1>2, <2>2, <3>1 DEF ClosedForCause, readable
  <2> QED
    BY <2>3, <2>4
<1>9. Ended'
  BY <1>2 DEF Ended
<1> QED
  BY <1>2, <1>8, <1>9, StillKeeps

\* The other ends of the loop outside the parser.
LEMMA ReadEndsKeep ==
  ASSUME NEW b, NEW K, RInv(b, K), ReadTimeout \/ ReadClosed \/ ReadReset \/ IngestClosed
  PROVE  RInv(b, K)'
<1>1. /\ pc \in {"read", "second", "ingest"} /\ pc' = "closed" /\ why' \in {"timeout", "closed", "reset"}
      /\ UNCHANGED <<cfg, mode, rb, got, chunk, wire, sent, peer, handled>>
  BY DEF ReadTimeout, ReadClosed, ReadReset, IngestClosed, end, env, net
<1>2. ClosedForCause' /\ Ended'
  BY <1>1 DEF ClosedForCause, Ended
<1>3. pc # "handle" /\ pc' \in {"parse", "closed"}
  BY <1>1
<1> QED
  BY <1>1, <1>2, <1>3, StillKeeps

\* The reactor reads into its own buffer.
LEMMA ReactorReadsKeeps ==
  ASSUME NEW b, NEW K, RInv(b, K), ReactorReads
  PROVE  RInv(b, K)'
<1>1. Types /\ Room
  BY DEF RInv
<1>2. /\ pc = "read" /\ mode = "reactor" /\ pc' = "ingest" /\ drained' = FALSE
      /\ UNCHANGED <<cfg, mode, rb, got, sent, peer, handled>>
  BY DEF ReactorReads, env
<1>3. PICK n \in 1..ReadBufSize : n <= Len(wire) /\ chunk' = arrived(n) /\ wire' = left(n)
  BY DEF ReactorReads
<1>4. got = 0 /\ chunk = <<>> /\ parseHeader(cfg, rb).res = "more"
  BY <1>1, <1>2 DEF Room
<1>5. n \in Nat /\ n >= 1 /\ n \in 0..Len(wire) /\ wire \in Seq(Bytes) /\ Len(wire) \in Nat /\ n <= ReadBufSize
  BY <1>1, <1>3, ReadPathAssumption DEF Types
<1>6. /\ chunk' \in Seq(Bytes) /\ Len(chunk') = n /\ \A i \in 1..n : chunk'[i] = wire[i]
      /\ wire' \in Seq(Bytes) /\ Len(wire') = Len(wire) - n
      /\ \A i \in 1..Len(wire) - n : wire'[i] = wire[n + i]
  BY <1>3, <1>5, SplitIs DEF arrived, left
<1>7. Buffered' = Buffered /\ Buffered \in Nat
  BY <1>1, <1>2, SizeIs DEF Buffered
<1>8. Len(chunk) = 0
  BY <1>4
<1>9. Size' = Size /\ Size = Buffered + Len(wire)
  BY <1>5, <1>6, <1>7, <1>8 DEF Size
<1>10. ASSUME NEW i \in 0..Size - 1 PROVE pending(i)' = pending(i)
  <2> DEFINE B == Buffered
  <2>1. /\ pending(i) = IF i < B THEN At(rb, rb.read + i)
                        ELSE IF i < B + Len(chunk) THEN chunk[i - B + 1]
                        ELSE wire[i - B - Len(chunk) + 1]
        /\ pending(i)' = IF i < B THEN At(rb, rb.read + i)
                        ELSE IF i < B + n THEN chunk'[i - B + 1]
                        ELSE wire'[i - B - n + 1]
    BY <1>2, <1>6, <1>7 DEF pending
  <2>2. B \in Nat
    BY <1>7
  <2>3. i \in 0..B + Len(wire) - 1
    <3>1. Size = B + Len(wire)
      BY <1>9
    <3> QED
      BY <1>5, <2>2, <3>1
  <2> HIDE DEF B
  <2>4. CASE i < B
    BY <2>1, <2>4
  <2>5. CASE ~(i < B) /\ i < B + n
    <3>1. ~(i < B + 0) /\ i - B - 0 + 1 = i - B + 1 /\ i - B + 1 \in 1..n
      BY <2>2, <2>3, <2>5
    <3> QED
      BY <1>6, <1>8, <2>1, <2>5, <3>1
  <2>6. CASE ~(i < B + n)
    <3>1. /\ ~(i < B) /\ ~(i < B + 0) /\ i - B - 0 + 1 = i - B + 1
          /\ i - B - n + 1 \in 1..Len(wire) - n /\ n + (i - B - n + 1) = i - B + 1
      BY <1>5, <2>2, <2>3, <2>6
    <3>2. pending(i)' = wire'[i - B - n + 1] /\ pending(i) = wire[i - B + 1]
      BY <1>8, <2>1, <2>6, <3>1
    <3> QED
      BY <1>6, <3>1, <3>2
  <2> QED
    BY <2>4, <2>5, <2>6
<1>11. Room'
  <2>1. chunk' # <<>> /\ Len(chunk') <= ReadBufSize
    BY <1>5, <1>6
  <2> QED
    BY <1>1, <1>2, <1>4, <1>7, <2>1 DEF Room
<1>12. Types'
  BY <1>1, <1>2, <1>6 DEF Types
<1>13. pc # "handle" /\ pc' # "handle" /\ pc' # "closed"
  BY <1>2
<1> QED
  BY <1>2, <1>9, <1>10, <1>11, <1>12, <1>13, NotClosed, RInvKept

\* RingBuffer.Write, when growing to the limit makes room for p: it takes all of p,
\* or, at the limit, as much as is free.
LEMMA WriteIs ==
  ASSUME NEW r, IsRing(r), NEW S, NEW p, p \in Seq(S),
         r.max > r.size => DataLen(r) + Len(p) <= r.max,
         NEW w, w = Write(r, p)
  PROVE  /\ w.n \in 0..Len(p) /\ IsRing(w.rb) /\ w.rb.max = r.max /\ w.rb.size >= r.size
         /\ DataLen(w.rb) = DataLen(r) + w.n
         /\ \A i \in 0..DataLen(r) - 1 : At(w.rb, w.rb.read + i) = At(r, r.read + i)
         /\ \A j \in 0..w.n - 1 : At(w.rb, w.rb.read + (DataLen(r) + j)) = p[j + 1]
         /\ w.n = Len(p) \/ (w.n = Free(r) /\ r.max <= w.rb.size)
<1> DEFINE g == IF Free(r) < Len(p) THEN Grow(r, Len(p)) ELSE [ok |-> TRUE, rb |-> r]
           q == IF g.ok THEN p ELSE SubSeq(p, 1, Free(r))
           t == g.rb
<1>1. /\ r.size \in Nat \ {0} /\ DataLen(r) \in Nat /\ DataLen(r) <= r.size /\ r.max \in Nat
      /\ Free(r) = r.size - DataLen(r) /\ Len(p) \in Nat
  BY RingIs
<1>2. w = [n |-> Len(q), rb |-> [t EXCEPT !.buf = stored(t, q), !.write = @ + Len(q)]]
  BY DEF Write
<1>3. /\ IsRing(t) /\ SameData(r, t) /\ t.max = r.max /\ t.size >= r.size
      /\ q \in Seq(S) /\ Len(q) <= Len(p) /\ \A j \in 1..Len(q) : q[j] = p[j]
      /\ DataLen(r) + Len(q) <= t.size
      /\ Len(q) = Len(p) \/ (Len(q) = Free(r) /\ r.max <= t.size)
  <2>1. CASE Free(r) >= Len(p)
    <3>1. g.ok /\ t = r
      BY <1>1, <2>1
    <3>2. q = p
      BY <3>1
    <3> HIDE DEF t, q
    <3>3. SameData(r, r)
      BY DEF SameData
    <3> QED
      BY <1>1, <2>1, <3>1, <3>2, <3>3
  <2>2. CASE Free(r) < Len(p)
    <3>1. g = Grow(r, Len(p))
      BY <2>2
    <3> HIDE DEF g
    <3>0. Grown(r, Len(p), g)
      BY <1>1, <3>1, GrowIs
    <3>2. IsRing(t) /\ SameData(r, t) /\ t.max = r.max /\ t.size >= r.size
      BY <3>0 DEF Grown
    <3>3. \/ g.ok = FALSE /\ t = r /\ r.max <= r.size
          \/ g.ok = TRUE /\ (Free(t) >= Len(p) \/ (r.max > r.size /\ t.size = r.max))
      BY <3>0 DEF Grown
    <3>4. Free(t) = t.size - DataLen(r) /\ t.size \in Nat
      BY <3>2, RingIs DEF SameData
    <3>5. CASE g.ok = TRUE
      <4>1. q = p /\ (Free(t) >= Len(p) \/ (r.max > r.size /\ t.size = r.max))
        BY <3>3, <3>5
      <4> HIDE DEF t, q
      <4>2. DataLen(r) + Len(p) <= t.size
        BY <1>1, <3>4, <4>1
      <4>3. Len(q) <= Len(p) /\ Len(q) = Len(p) /\ \A j \in 1..Len(q) : q[j] = p[j]
        BY <1>1, <4>1
      <4> QED
        BY <3>2, <4>1, <4>2, <4>3
    <3>6. CASE g.ok = FALSE
      <4>1. q = SubSeq(p, 1, Free(r)) /\ t = r /\ r.max <= r.size
        BY <3>3, <3>6
      <4>2. Free(r) \in 0..Len(p)
        BY <1>1, <2>2
      <4>3. q \in Seq(S) /\ Len(q) = Free(r) /\ \A j \in 1..Free(r) : q[j] = p[j]
        BY <4>1, <4>2, SplitIs
      <4> HIDE DEF t, q
      <4>4. /\ Len(q) <= Len(p) /\ DataLen(r) + Len(q) <= t.size /\ r.max <= t.size
            /\ \A j \in 1..Len(q) : q[j] = p[j]
        BY <1>1, <4>1, <4>2, <4>3
      <4> QED
        BY <3>2, <4>3, <4>4
    <3> QED
      BY <3>3, <3>5, <3>6
  <2> QED
    BY <1>1, <2>1, <2>2
<1> HIDE DEF g, q, t
<1>4. /\ DataLen(t) = DataLen(r) /\ t.write = t.read + DataLen(r) /\ t.size \in Nat /\ t.read \in Nat
      /\ t.write \in Nat /\ Len(q) \in Nat
  BY <1>3, RingIs DEF SameData
<1> DEFINE e == t.write + Len(q)
<1>5. /\ e \in Nat /\ t.write <= e /\ e <= t.read + t.size /\ e - t.read = DataLen(r) + Len(q)
      /\ DataLen(t) + 0 + Len(q) <= t.size
  <2>1. DataLen(r) \in Nat /\ DataLen(r) + Len(q) <= t.size
    BY <1>1, <1>3
  <2>2. e \in Nat /\ t.write <= e
    BY <1>4
  <2>3. e = t.read + (DataLen(r) + Len(q))
    BY <1>4, <2>1
  <2>4. e - t.read = DataLen(r) + Len(q)
    BY <1>4, <2>1, <2>3
  <2>5. e <= t.read + t.size
    BY <1>4, <2>1, <2>3
  <2>6. DataLen(t) + 0 + Len(q) <= t.size
    BY <1>4, <2>1
  <2> QED
    BY <2>2, <2>4, <2>5, <2>6
<1>6. w.n = Len(q) /\ w.rb = FedRing(t, t, q, e)
  BY <1>2 DEF FedRing
<1> HIDE DEF e
<1>7. Fed(t, 0, q, e, FedRing(t, t, q, e))
  <2>1. t.size = t.size /\ t.write = t.write + 0 /\ t.buf = t.buf /\ 0 \in Nat
    BY <1>4
  <2> QED
    BY <1>3, <1>4, <1>5, <2>1, FeedIs
<1>8. /\ IsRing(w.rb) /\ w.rb.size = t.size /\ w.rb.max = t.max /\ DataLen(w.rb) = DataLen(r) + Len(q)
      /\ \A i \in 0..DataLen(t) + 0 - 1 : At(w.rb, w.rb.read + i) = At(t, t.read + i)
      /\ \A j \in 0..Len(q) - 1 : At(w.rb, w.rb.read + (DataLen(t) + 0 + j)) = q[j + 1]
  BY <1>5, <1>6, <1>7 DEF Fed
<1>9. ASSUME NEW i \in 0..DataLen(r) - 1 PROVE At(w.rb, w.rb.read + i) = At(r, r.read + i)
  <2>1. i \in 0..DataLen(t) + 0 - 1
    BY <1>1, <1>4
  <2> QED
    BY <1>3, <1>8, <2>1 DEF SameData
<1>10. ASSUME NEW j \in 0..Len(q) - 1 PROVE At(w.rb, w.rb.read + (DataLen(r) + j)) = p[j + 1]
  <2>1. DataLen(t) + 0 + j = DataLen(r) + j /\ j + 1 \in 1..Len(q)
    BY <1>1, <1>4
  <2> QED
    BY <1>3, <1>8, <2>1
<1>11. Len(q) \in 0..Len(p)
  BY <1>1, <1>3, <1>4
<1> QED
  BY <1>3, <1>6, <1>8, <1>9, <1>10, <1>11

\* The reactor's bytes go into the ring.
LEMMA IngestKeeps ==
  ASSUME NEW b, NEW K, RInv(b, K), Ingest
  PROVE  RInv(b, K)'
<1>1. Types /\ Room /\ Offsets(b) /\ K \in 0..Len(sent) /\ Holds(b, K)
  BY DEF RInv
<1> DEFINE w == Write(rb, chunk)
<1>2. /\ pc = "ingest" /\ rb' = w.rb
      /\ chunk' = SubSeq(chunk, w.n + 1, Len(chunk)) /\ drained' = (w.n = 0)
      /\ IF w.n = 0 /\ drained THEN end("ingest")
         ELSE pc' = (IF w.n = 0 \/ chunk' = <<>> THEN "parse" ELSE "ingest") /\ UNCHANGED why
      /\ UNCHANGED <<cfg, mode, got, wire, sent, peer, handled>>
  BY DEF Ingest, env, net, WriteToReadBuffer
<1> HIDE DEF w
<1>3. /\ mode = "reactor" /\ got = 0 /\ chunk # <<>> /\ (drained => ~IsFull(rb)) /\ Len(chunk) <= ReadBufSize
      /\ parseHeader(cfg, rb).res = "more" \/ rb.max <= rb.size
  BY <1>1, <1>2 DEF Room
<1>4. /\ IsRing(rb) /\ rb.size \in Nat \ {0} /\ DataLen(rb) \in Nat /\ rb.max \in Nat /\ DataLen(rb) <= rb.size
      /\ Free(rb) = rb.size - DataLen(rb)
      /\ chunk \in Seq(Bytes) /\ Len(chunk) \in Nat /\ Len(chunk) >= 1 /\ cfg \in SocketConfigs
      /\ ReadBufSize \in Nat
  <2>1. IsRing(rb) /\ chunk \in Seq(Bytes) /\ cfg \in SocketConfigs
    BY <1>1 DEF Types
  <2>2. Len(chunk) \in Nat /\ Len(chunk) >= 1
    BY <1>3, <2>1
  <2> QED
    BY <2>1, <2>2, RingIs, ReadPathAssumption
<1>5. rb.max > rb.size => DataLen(rb) + Len(chunk) <= rb.max
  <2> SUFFICES ASSUME rb.max > rb.size PROVE DataLen(rb) + Len(chunk) <= rb.max
    OBVIOUS
  <2> DEFINE M == RingBufferMaxSizeForSocket(cfg)
  <2>1. rb.max = normalizeRingBufferMaxSize(M) /\ rb.size >= defaultRingBufferSize /\ defaultRingBufferSize \in Nat
    BY <1>1, SizeAssumption DEF Room
  <2>2. rb.max <= defaultRingBufferSize \/ M - 1 + ReadBufSize <= rb.max
    BY <1>4, <2>1, SlackAssumption
  <2>3. DataLen(rb) < M /\ M \in Int
    <3>1. parseHeader(cfg, rb).res = "more"
      BY <1>3, <1>4
    <3>2. M \in Int
      BY <1>4, LimitIs, ConfigIs
    <3> QED
      BY <1>1, <1>3, <3>1, <3>2, FrontIs
  <2> HIDE DEF M
  <2> QED
    BY <1>3, <1>4, <2>1, <2>2, <2>3
<1>6. /\ w.n \in 0..Len(chunk) /\ IsRing(rb') /\ rb'.max = rb.max /\ rb'.size >= rb.size
      /\ DataLen(rb') = DataLen(rb) + w.n
      /\ \A i \in 0..DataLen(rb) - 1 : At(rb', rb'.read + i) = At(rb, rb.read + i)
      /\ \A j \in 0..w.n - 1 : At(rb', rb'.read + (DataLen(rb) + j)) = chunk[j + 1]
      /\ w.n = Len(chunk) \/ (w.n = Free(rb) /\ rb.max <= rb'.size)
  BY <1>2, <1>4, <1>5, WriteIs DEF w
<1>7. ~(w.n = 0 /\ drained)
  <2>1. IsFull(rb) <=> Free(rb) = 0
    BY <1>4, RingCounts
  <2> QED
    BY <1>3, <1>4, <1>6, <2>1
<1>8. pc' = (IF w.n = 0 \/ chunk' = <<>> THEN "parse" ELSE "ingest")
  BY <1>2, <1>7
<1>9. Buffered = DataLen(rb) /\ Buffered' = Buffered + w.n
  <2>1. Buffered = DataLen(rb)
    BY <1>1, <1>3, SizeIs
  <2>2. DataLen(rb') + got' = DataLen(rb) + w.n
    BY <1>2, <1>3, <1>4, <1>6
  <2> QED
    BY <2>1, <2>2 DEF Buffered
<1>10. Size' = Size /\ \A i \in 0..Size - 1 : pending(i)' = pending(i)
  <2>1. /\ \A i \in 0..Buffered - 1 : At(rb', rb'.read + i) = At(rb, rb.read + i)
        /\ \A j \in 0..w.n - 1 : At(rb', rb'.read + (Buffered + j)) = chunk[j + 1]
    BY <1>6, <1>9
  <2> DEFINE n == w.n
  <2> HIDE DEF n
  <2>2. n \in 0..Len(chunk) /\ chunk' = SubSeq(chunk, n + 1, Len(chunk)) /\ wire' = wire /\ Buffered' = Buffered + n
    BY <1>2, <1>6, <1>9 DEF n
  <2>3. \A j \in 0..n - 1 : At(rb', rb'.read + (Buffered + j)) = chunk[j + 1]
    BY <2>1 DEF n
  <2> QED
    BY <1>1, <2>1, <2>2, <2>3, ChunkMoves
<1>11. chunk' \in Seq(Bytes) /\ Len(chunk') = Len(chunk) - w.n
  BY <1>2, <1>4, <1>6, SplitIs
<1>12. Room'
  <2>1. /\ rb'.size >= defaultRingBufferSize
        /\ rb'.max = normalizeRingBufferMaxSize(RingBufferMaxSizeForSocket(cfg))
    <3>1. rb'.size \in Nat /\ rb.size >= defaultRingBufferSize /\ defaultRingBufferSize \in Nat
      BY <1>1, <1>6, SizeAssumption, RingIs DEF Room
    <3> QED
      BY <1>1, <1>4, <1>6, <3>1 DEF Room
  <2>2. Buffered' <= rb'.size
    <3>1. DataLen(rb') <= rb'.size
      BY <1>6, RingIs
    <3> QED
      BY <1>6, <1>9, <3>1
  <2>3. Len(chunk') <= ReadBufSize
    BY <1>3, <1>4, <1>6, <1>11
  <2>4. pc' = "ingest" => /\ chunk' # <<>> /\ ~drained' /\ rb'.max <= rb'.size
    <3> SUFFICES ASSUME pc' = "ingest" PROVE chunk' # <<>> /\ ~drained' /\ rb'.max <= rb'.size
      OBVIOUS
    <3>1. chunk' # <<>> /\ w.n # 0
      BY <1>8
    <3>2. ~drained'
      BY <1>2, <3>1
    <3>3. w.n # Len(chunk)
      BY <1>4, <1>11, <3>1
    <3> QED
      BY <1>6, <3>1, <3>2, <3>3
  <2>5. pc' \in {"parse", "ingest"}
    BY <1>8
  <2> QED
    BY <1>2, <1>3, <2>1, <2>2, <2>3, <2>4, <2>5 DEF Room
<1>13. Types'
  BY <1>1, <1>2, <1>6, <1>8, <1>11 DEF Types
<1>14. pc # "handle" /\ pc' # "handle" /\ pc' # "closed"
  BY <1>2, <1>8
<1> QED
  BY <1>2, <1>10, <1>12, <1>13, <1>14, NotClosed, RInvKept

\* An incomplete frame: there is room for the rest of it, or the ring can grow.
LEMMA IncompleteKeeps ==
  ASSUME NEW b, NEW K, RInv(b, K), ReadIncomplete \/ ClientIncomplete \/ DispatchIncomplete
  PROVE  RInv(b, K)'
<1>1. Types /\ Room /\ Offsets(b) /\ K \in 0..Len(sent) /\ Holds(b, K)
  BY DEF RInv
<1>2. PICK back \in {"read", "ingest"} :
        /\ incomplete(back)
        /\ back = "read" => chunk = <<>>
        /\ back = "ingest" => mode = "reactor" /\ chunk # <<>>
  <2>1. CASE ReadIncomplete
    BY <1>1, <2>1 DEF ReadIncomplete, Room
  <2>2. CASE ClientIncomplete
    BY <1>1, <2>2 DEF ClientIncomplete, Room
  <2>3. CASE DispatchIncomplete
    BY <2>3 DEF DispatchIncomplete
  <2> QED
    BY <2>1, <2>2, <2>3
<1> DEFINE g == Grow(rb, readRingGrowStepBytes)
<1>3. /\ pc = "parse" /\ parseHeader(cfg, rb).res = "more"
      /\ IF IsFull(rb) /\ ~g.ok THEN end("capacity") /\ UNCHANGED rb
         ELSE rb' = (IF IsFull(rb) THEN g.rb ELSE rb) /\ pc' = back /\ UNCHANGED why
      /\ UNCHANGED <<cfg, mode, got, chunk, drained, wire, sent, peer, handled>>
  BY <1>2 DEF incomplete, env, net
<1> HIDE DEF g
<1>4. got = 0
  BY <1>1, <1>3 DEF Room
<1>5. /\ IsRing(rb) /\ rb.size \in Nat \ {0} /\ DataLen(rb) \in Nat /\ rb.max \in Nat /\ DataLen(rb) <= rb.size
      /\ Free(rb) = rb.size - DataLen(rb) /\ (IsFull(rb) <=> Free(rb) = 0)
      /\ readRingGrowStepBytes \in Nat \ {0} /\ cfg \in SocketConfigs
  <2>1. IsRing(rb) /\ cfg \in SocketConfigs
    BY <1>1 DEF Types
  <2> QED
    BY <2>1, RingIs, RingCounts, SizeAssumption
<1>6. /\ IsRing(g.rb) /\ SameData(rb, g.rb) /\ g.rb.max = rb.max /\ g.rb.size >= rb.size
      /\ \/ g.ok = FALSE /\ rb.max <= rb.size
         \/ g.ok = TRUE /\ (Free(rb) < readRingGrowStepBytes => g.rb.size > rb.size)
  <2>1. readRingGrowStepBytes \in Nat
    BY <1>5
  <2>2. Grown(rb, readRingGrowStepBytes, g)
    BY <1>5, <2>1, GrowIs DEF g
  <2> QED
    BY <2>2 DEF Grown
<1>7. ~(IsFull(rb) /\ ~g.ok)
  <2> SUFFICES ASSUME IsFull(rb), ~g.ok PROVE FALSE
    OBVIOUS
  <2> DEFINE M == RingBufferMaxSizeForSocket(cfg)
  <2>1. rb.max = normalizeRingBufferMaxSize(M)
    BY <1>1 DEF Room
  <2>2. rb.max >= M /\ M \in Int
    BY <1>5, <2>1, LimitIs, ConfigIs
  <2>3. DataLen(rb) < M
    BY <1>1, <1>3, <1>4, FrontIs
  <2> HIDE DEF M
  <2> QED
    BY <1>5, <1>6, <2>2, <2>3
<1>8. rb' = (IF IsFull(rb) THEN g.rb ELSE rb) /\ pc' = back
  BY <1>3, <1>7
<1>9. /\ IsRing(rb') /\ SameData(rb, rb') /\ rb'.max = rb.max /\ rb'.size >= rb.size
      /\ ~IsFull(rb')
  <2>1. CASE IsFull(rb)
    <3>1. rb' = g.rb /\ ~(g.ok = FALSE)
      BY <1>7, <1>8, <2>1
    <3>2. g.rb.size > rb.size /\ DataLen(g.rb) = rb.size
      BY <1>5, <1>6, <2>1, <3>1 DEF SameData
    <3>3. ~IsFull(g.rb)
      BY <1>5, <1>6, <3>2, RingIs DEF IsFull
    <3> QED
      BY <1>6, <3>1, <3>3
  <2>2. CASE ~IsFull(rb)
    <3>1. rb' = rb /\ SameData(rb, rb)
      BY <1>8, <2>2 DEF SameData
    <3> QED
      BY <1>5, <2>2, <3>1
  <2> QED
    BY <2>1, <2>2
<1>10. parseHeader(cfg, rb').res = "more"
  BY <1>3, <1>5, <1>9, ParseSame
<1>11. Buffered' = Buffered /\ Buffered = DataLen(rb)
  <2>1. Buffered = DataLen(rb)
    BY <1>1, <1>4, SizeIs
  <2>2. DataLen(rb') + got' = DataLen(rb) + got
    BY <1>3, <1>9 DEF SameData
  <2> QED
    BY <2>1, <2>2 DEF Buffered
<1>12. Size' = Size /\ \A i \in 0..Size - 1 : pending(i)' = pending(i)
  <2>1. \A i \in 0..Buffered - 1 : At(rb', rb'.read + i) = At(rb, rb.read + i)
    BY <1>9, <1>11 DEF SameData
  <2> QED
    BY <1>1, <1>3, <1>11, <2>1, PendingKept
<1>13. Room'
  <2>1. /\ rb'.size >= defaultRingBufferSize
        /\ rb'.max = normalizeRingBufferMaxSize(RingBufferMaxSizeForSocket(cfg))
    <3>1. rb'.size \in Nat /\ rb.size >= defaultRingBufferSize /\ defaultRingBufferSize \in Nat
      BY <1>1, <1>9, SizeAssumption, RingIs DEF Room
    <3> QED
      BY <1>1, <1>5, <1>9, <3>1 DEF Room
  <2>2. Buffered' <= rb'.size
    <3>1. rb'.size \in Nat
      BY <1>9, RingIs
    <3> QED
      BY <1>5, <1>9, <1>11, <3>1
  <2>3. mode = "reactor" => Len(chunk) <= ReadBufSize
    BY <1>1 DEF Room
  <2>4. mode # "reactor" => chunk = <<>> /\ back # "ingest"
    BY <1>1, <1>2 DEF Room
  <2>5. /\ parseHeader(cfg, rb)'.res = "more" /\ (drained' => ~IsFull(rb'))
        /\ cfg' = cfg /\ mode' = mode /\ chunk' = chunk /\ got' = 0 /\ pc' = back
    BY <1>3, <1>4, <1>8, <1>9, <1>10
  <2> QED
    BY <1>2, <2>1, <2>2, <2>3, <2>4, <2>5 DEF Room
<1>14. Types'
  BY <1>1, <1>3, <1>8, <1>9 DEF Types
<1>15. pc # "handle" /\ pc' # "handle" /\ pc' # "closed"
  BY <1>3, <1>8
<1> QED
  BY <1>3, <1>12, <1>13, <1>14, <1>15, NotClosed, RInvKept

\* An error is reported for a frame that is not legal.
LEMMA ParseErrorKeeps ==
  ASSUME NEW b, NEW K, RInv(b, K), ParseError
  PROVE  RInv(b, K)'
<1>1. Types /\ Room /\ Offsets(b) /\ K \in 0..Len(sent) /\ Holds(b, K)
  BY DEF RInv
<1>2. /\ pc = "parse" /\ parseHeader(cfg, rb).res = "error" /\ pc' = "closed" /\ why' = "protocol"
      /\ UNCHANGED <<cfg, mode, rb, got, chunk, wire, sent, peer, handled>>
  BY DEF ParseError, end, env, net
<1>3. got = 0
  BY <1>1, <1>2 DEF Room
<1>4. K < Len(sent) /\ ~Legal(sent[K + 1])
  BY <1>1, <1>2, <1>3, FrontIs
<1>5. K + 1 \in DOMAIN sent
  BY <1>1, <1>4 DEF Types
<1>6. ClosedForCause'
  <2>1. K + 1 \in DOMAIN sent' /\ ~Legal(sent[K + 1])'
    BY <1>2, <1>4, <1>5 DEF Legal
  <2> QED
    BY <1>2, <2>1 DEF ClosedForCause
<1>7. Ended'
  BY <1>2 DEF Ended
<1>8. pc # "handle" /\ pc' \in {"parse", "closed"}
  BY <1>2
<1> QED
  BY <1>2, <1>3, <1>6, <1>7, <1>8, StillKeeps

\* A complete frame is taken off the ring; the message shows its body.
LEMMA ParseKeeps ==
  ASSUME NEW b, NEW K, RInv(b, K), ParseFromRingBuffer
  PROVE  RInv(b, K + 1)'
<1> DEFINE h == parseHeader(cfg, rb)
           N == Len(sent)
           L == frameLen(K + 1)
           P == PreparePacketFromWire(K + 1, sent[K + 1])
           H == HeaderLen(cfg)
<1>1. Types /\ Room /\ Offsets(b) /\ K \in 0..N /\ Holds(b, K) /\ Given(K) /\ StreamIntact
  BY DEF RInv
<1>2. /\ pc = "parse" /\ h.res = "parsed" /\ pc' = "handle"
      /\ msg' = parseBody(cfg, rb, h) /\ rb' = Discard(rb, HeaderLen(cfg) + h.length)
      /\ UNCHANGED <<cfg, mode, got, chunk, drained, wire, sent, peer, handled, isClose, why>>
  BY DEF ParseFromRingBuffer, env, net
<1>3. got = 0 /\ Len(handled) = readable(K)
  BY <1>1, <1>2 DEF Room, Given
<1>4. /\ K < N /\ h.msgId = sent[K + 1].msgId /\ h.length = sent[K + 1].len /\ DataLen(rb) >= L
  BY <1>1, <1>2, <1>3, FrontIs
<1>5. /\ K \in Nat /\ N \in Nat /\ K + 1 \in 1..N /\ K + 1 \in K + 1..N /\ IsRing(rb) /\ cfg \in SocketConfigs
      /\ H \in {2, 3}
  BY <1>1, <1>4, ConfigIs DEF Types
<1>6. /\ L \in Nat /\ L >= 2 /\ sent[K + 1].len \in Nat /\ L = H + sent[K + 1].len
      /\ P \in Seq(Bytes) /\ Len(P) = L
  BY <1>1, <1>5, SentIs DEF frameLen
<1>7. /\ DataLen(rb) \in Nat /\ Size \in Nat /\ Buffered = DataLen(rb) /\ DataLen(rb) <= Size
      /\ Len(chunk) \in Nat /\ Len(wire) \in Nat
  BY <1>1, <1>3, SizeIs
<1>8. rb' = [rb EXCEPT !.read = @ + L]
  BY <1>2, <1>4, <1>6 DEF Discard
<1> HIDE DEF h, L, P, H
<1>9. /\ IsRing(rb') /\ DataLen(rb') = DataLen(rb) - L /\ rb'.read = rb.read + L /\ rb'.buf = rb.buf
      /\ rb'.size = rb.size /\ rb'.max = rb.max
  <2>1. /\ rb.size \in Nat \ {0} /\ rb.read \in Nat /\ rb.write \in Nat /\ rb.max \in Nat
        /\ DataLen(rb) = rb.write - rb.read /\ rb.read <= rb.write /\ rb.write <= rb.read + rb.size
        /\ DOMAIN rb = {"buf", "size", "read", "write", "max"}
    BY <1>5 DEF IsRing, DataLen
  <2>2. /\ rb'.size = rb.size /\ rb'.read = rb.read + L /\ rb'.write = rb.write /\ rb'.max = rb.max
        /\ rb'.buf = rb.buf /\ DOMAIN rb' = {"buf", "size", "read", "write", "max"}
    BY <1>8, <2>1
  <2>3. DataLen(rb') = rb'.write - rb'.read
    BY DEF DataLen
  <2>4. rb.read + L \in Nat /\ rb.read + L <= rb.write /\ rb.write <= rb.read + L + rb.size
    <3>1. L \in Nat /\ rb.write - rb.read >= L
      BY <1>4, <1>6, <2>1
    <3>2. rb.read + L \in Nat /\ rb.read + L <= rb.write
      BY <2>1, <3>1
    <3>3. rb.write <= rb.read + L + rb.size
      BY <2>1, <3>1
    <3> QED
      BY <3>2, <3>3
  <2>5. DataLen(rb') = DataLen(rb) - L
    BY <1>6, <2>1, <2>2, <2>3
  <2>6. IsRing(rb')
    BY <1>5, <2>1, <2>2, <2>4 DEF IsRing
  <2> QED
    BY <2>2, <2>5, <2>6
<1>10. Buffered' = Buffered - L
  <2>1. DataLen(rb') + got' = DataLen(rb) - L
    BY <1>2, <1>3, <1>6, <1>7, <1>9
  <2> QED
    BY <1>7, <2>1 DEF Buffered
<1>11. Size' = Size - L /\ L <= Size
  <2>1. Size = Buffered + Len(chunk) + Len(wire) /\ Size' = Buffered' + Len(chunk) + Len(wire)
    BY <1>2 DEF Size
  <2>2. /\ L \in Int /\ Buffered \in Int /\ Len(chunk) \in Nat /\ Len(wire) \in Nat
        /\ L <= Buffered /\ Buffered' = Buffered - L
    BY <1>4, <1>6, <1>7, <1>10
  <2>3. Size' = Buffered - L + Len(chunk) + Len(wire)
    BY <2>1, <2>2
  <2>4. L <= Size
    BY <2>1, <2>2
  <2> QED
    BY <2>1, <2>2, <2>3, <2>4
<1>12. ASSUME NEW i \in Nat PROVE pending(i)' = pending(i + L)
  <2> DEFINE B == Buffered
             C == Len(chunk)
  <2>1. /\ B \in Nat /\ C \in Nat /\ L \in Nat /\ Buffered' = B - L /\ rb.read \in Nat
    BY <1>5, <1>6, <1>7, <1>10, RingIs
  <2>2. At(rb', rb'.read + i) = At(rb, rb.read + L + i)
    BY <1>9 DEF At
  <2>3. pending(i)' = IF i < B - L THEN At(rb, rb.read + L + i)
                      ELSE IF i < B - L + C THEN chunk[i - (B - L) + 1]
                      ELSE wire[i - (B - L) - C + 1]
    BY <1>2, <2>1, <2>2 DEF pending
  <2>4. pending(i + L) = IF i + L < B THEN At(rb, rb.read + (i + L))
                         ELSE IF i + L < B + C THEN chunk[i + L - B + 1]
                         ELSE wire[i + L - B - C + 1]
    BY <2>1 DEF pending
  <2> HIDE DEF B, C
  <2>5. /\ (i < B - L <=> i + L < B) /\ (i < B - L + C <=> i + L < B + C)
        /\ rb.read + L + i = rb.read + (i + L) /\ i - (B - L) + 1 = i + L - B + 1
        /\ i - (B - L) - C + 1 = i + L - B - C + 1
    BY <2>1
  <2> QED
    BY <2>3, <2>4, <2>5
<1>13. /\ b[(K + 1) + 1] = b[K + 1] + L /\ b[K + 1] \in Nat /\ b[(K + 1) + 1] \in Nat
       /\ b[N] \in Nat /\ b[N + 1] \in Nat
  <2>1. K + 1 \in 1..N + 1 /\ (K + 1) + 1 \in 1..N + 1 /\ N \in 1..N + 1 /\ N + 1 \in 1..N + 1
    BY <1>5
  <2>2. b[(K + 1) + 1] = b[K + 1] + L
    BY <1>1, <1>5 DEF Offsets, L
  <2> QED
    BY <1>1, <2>1, <2>2 DEF Offsets
<1> DEFINE u == b[K + 1]
           v == b[(K + 1) + 1]
           y == b[N]
           z == b[N + 1]
<1>13a. v = u + L /\ u \in Nat /\ v \in Nat /\ y \in Nat /\ z \in Nat
  BY <1>13
<1> HIDE DEF u, v, y, z
<1>13b. L \in Int /\ Size \in Int /\ Size' = Size - L /\ L <= Size
  BY <1>6, <1>7, <1>11
<1>13c. L \in Int /\ Buffered \in Int /\ Size \in Int /\ L <= Buffered /\ Buffered <= Size
  BY <1>4, <1>6, <1>7
<1>14. /\ \A k : frameLen(k)' = frameLen(k)
       /\ \A k, i : byteOf(k, i)' = byteOf(k, i)
  BY <1>2 DEF frameLen, byteOf
<1>15. Holds(b, K + 1)'
  <2>1. ASSUME NEW k \in (K + 1) + 1..N, NEW i \in 1..frameLen(k), b[k] - b[(K + 1) + 1] + i - 1 < Size'
        PROVE  pending(b[k] - b[(K + 1) + 1] + i - 1)' = byteOf(k, i)
    <3> DEFINE w == b[k]
    <3>1. k \in 1..N + 1 /\ (K + 1) + 1 \in 1..N + 1 /\ (K + 1) + 1 <= k /\ k \in K + 1..N /\ k \in 1..N
      BY <1>5
    <3>2. w \in Nat /\ v <= w /\ i \in 1..frameLen(k) /\ frameLen(k) \in Nat
      BY <1>1, <3>1, SentIs DEF Offsets, v
    <3>3. w - v + i - 1 < Size'
      BY <2>1 DEF v
    <3> HIDE DEF w
    <3>4. w - v + i - 1 \in Nat /\ (w - v + i - 1) + L = w - u + i - 1 /\ w - u + i - 1 < Size
      BY <1>13a, <1>13b, <3>2, <3>3
    <3>5. pending(w - u + i - 1) = byteOf(k, i)
      BY <1>1, <3>1, <3>4 DEF Holds, u, w
    <3>6. pending(w - v + i - 1)' = pending((w - v + i - 1) + L)
      BY <1>12, <3>4
    <3>7. pending(w - v + i - 1)' = byteOf(k, i)
      BY <3>4, <3>5, <3>6
    <3> QED
      BY <3>7 DEF v, w
  <2>2. peer # "cut" => Size' = b[N + 1] - b[(K + 1) + 1]
    <3> SUFFICES ASSUME peer # "cut" PROVE Size' = z - v
      BY DEF z, v
    <3>1. Size = z - u
      BY <1>1 DEF Holds, z, u
    <3> QED
      BY <1>13a, <1>13b, <3>1
  <2>3. peer = "cut" => /\ K + 1 < N
                        /\ b[N] - b[(K + 1) + 1] <= Size' /\ Size' < b[N + 1] - b[(K + 1) + 1]
    <3> SUFFICES ASSUME peer = "cut" PROVE K + 1 < N /\ y - v <= Size' /\ Size' < z - v
      BY DEF y, z, v
    <3>1. y - u <= Size /\ Size < z - u
      BY <1>1 DEF Holds, y, z, u
    <3>2. K + 1 # N
      <4> SUFFICES ASSUME K + 1 = N PROVE z = v
        BY <1>13a, <1>13b, <3>1
      <4> QED
        BY DEF z, v
    <3> QED
      BY <1>4, <1>5, <1>13a, <1>13b, <3>1, <3>2
  <2> QED
    BY <1>2, <1>14, <2>1, <2>2, <2>3 DEF Holds
<1>16. messageData(msg)' = body(K + 1) /\ msg'.msgId = sent[K + 1].msgId
  <2> DEFINE n == sent[K + 1].len
  <2>1. /\ msg'.msgId = h.msgId
        /\ messageData(msg') = [i \in 1..h.length |-> At(rb, rb.read + (HeaderLen(cfg) + i - 1))]
    <3>1. h.length \in Nat /\ HeaderLen(cfg) + h.length <= DataLen(rb)
      BY <1>4, <1>6 DEF H
    <3> QED
      BY <1>2, <1>5, <3>1, MessageIs
  <2>2. messageData(msg)' = messageData(msg')
    BY <1>9 DEF messageData, slice
  <2>3. /\ body(K + 1) \in Seq(Bytes) /\ Len(body(K + 1)) = n
        /\ \A i \in 1..n : body(K + 1)[i] = P[H + i]
    <3>1. H \in 0..Len(P) /\ Len(P) - H = n
      BY <1>5, <1>6
    <3>2. body(K + 1) = SubSeq(P, H + 1, Len(P))
      BY <1>6 DEF body, P, H
    <3>3. /\ SubSeq(P, H + 1, Len(P)) \in Seq(Bytes) /\ Len(SubSeq(P, H + 1, Len(P))) = Len(P) - H
          /\ \A i \in 1..Len(P) - H : SubSeq(P, H + 1, Len(P))[i] = P[H + i]
      BY <1>6, <3>1, SplitIs
    <3> QED
      BY <3>1, <3>2, <3>3
  <2>4. ASSUME NEW i \in 1..n PROVE At(rb, rb.read + (H + i - 1)) = P[H + i]
    <3>1. H + i \in 1..L /\ H + i \in Nat /\ i \in Nat
      BY <1>5, <1>6
    <3>2. /\ H + i - 1 \in Nat /\ H + i - 1 < Buffered /\ H + i - 1 < Size
          /\ u - u + (H + i) - 1 = H + i - 1
      BY <1>5, <1>13a, <1>13c, <3>1
    <3>3. pending(u - u + (H + i) - 1) = byteOf(K + 1, H + i)
      BY <1>1, <1>5, <3>1, <3>2 DEF Holds, L, u
    <3>4. pending(H + i - 1) = At(rb, rb.read + (H + i - 1))
      BY <3>2 DEF pending
    <3>5. pending(H + i - 1) = byteOf(K + 1, H + i)
      BY <3>2, <3>3
    <3> QED
      BY <3>4, <3>5 DEF byteOf, P
  <2>5. [i \in 1..n |-> At(rb, rb.read + (H + i - 1))] = body(K + 1)
    <3> DEFINE s == body(K + 1)
               t == [i \in 1..n |-> At(rb, rb.read + (H + i - 1))]
    <3>1. DOMAIN t = 1..n /\ \A i \in 1..n : t[i] = P[H + i]
      BY <2>4
    <3> HIDE DEF s, t
    <3>2. s \in Seq(Bytes) /\ Len(s) = n /\ \A i \in 1..n : s[i] = P[H + i]
      BY <2>3 DEF s
    <3>3. DOMAIN s = 1..n
      BY <3>2
    <3>4. s = t
      <4>1. t = [i \in 1..n |-> t[i]]
        BY DEF t
      <4>2. s = [i \in 1..n |-> s[i]]
        BY <3>2, <3>3
      <4> QED
        BY <3>1, <3>2, <4>1, <4>2
    <3> QED
      BY <3>4 DEF s, t
  <2> QED
    BY <1>4, <2>1, <2>2, <2>5 DEF H
<1>17. Given(K + 1)'
  <2>1. body(K + 1)' = body(K + 1) /\ readable(K)' = readable(K) /\ (K + 1) - 1 = K
    BY <1>2, <1>5 DEF body, readable
  <2>2. readable((K + 1) - 1)' = readable(K)
    BY <2>1
  <2> QED
    BY <1>2, <1>3, <1>5, <1>16, <2>1, <2>2 DEF Given
<1>18. StreamIntact'
  BY <1>1, <1>2 DEF StreamIntact, readable, body
<1>19. ClosedForCause' /\ Ended'
  <2>1. pc' # "closed"
    BY <1>2
  <2> QED
    BY <2>1, NotClosed
<1>20. Room'
  <2>1. Buffered' <= rb'.size
    BY <1>1, <1>5, <1>6, <1>7, <1>9, <1>10, RingIs DEF Room
  <2> QED
    BY <1>1, <1>2, <1>3, <1>9, <2>1 DEF Room
<1>21. Types'
  BY <1>1, <1>2, <1>9 DEF Types
<1>22. Offsets(b)' /\ (K + 1 \in 0..Len(sent))'
  <2>1. Offsets(b)'
    BY <1>1, <1>2, <1>14 DEF Offsets
  <2> QED
    BY <1>2, <1>5, <2>1
<1> QED
  BY <1>15, <1>17, <1>18, <1>19, <1>20, <1>21, <1>22 DEF RInv

\* The body of a frame, and whether it can be decrypted.
LEMMA BodyIs ==
  ASSUME Types, NEW K \in 1..Len(sent)
  PROVE  body(K) \in Seq(Bytes) /\ (decrypts(body(K)) <=> sent[K].good = TRUE)
<1> DEFINE P == PreparePacketFromWire(K, sent[K])
           H == HeaderLen(cfg)
           f == sent[K]
<1>1. f \in Frames(cfg) /\ f.len \in Nat /\ K \in Nat /\ K \in DOMAIN sent /\ cfg \in SocketConfigs /\ H \in {2, 3}
  BY SentIs, ConfigIs DEF Types
<1>2. /\ P \in Seq(Bytes) /\ Len(P) = H + f.len
      /\ \A i \in 1..Len(P) : P[i].frame = K
  BY <1>1, PacketIs
<1>3. f.good \in BOOLEAN /\ (f.good = FALSE => f.len = 1)
  BY <1>1, FrameIs
<1>4. body(K) = SubSeq(P, H + 1, H + f.len)
  BY DEF body
<1> HIDE DEF P, H, f
<1>5. /\ body(K) \in Seq(Bytes) /\ Len(body(K)) = f.len
      /\ \A i \in 1..f.len : body(K)[i] = P[H + i]
  <2>1. H \in 0..Len(P) /\ Len(P) - H = f.len
    BY <1>1, <1>2
  <2>2. body(K) = SubSeq(P, H + 1, Len(P))
    BY <1>2, <1>4
  <2> QED
    BY <1>2, <2>1, <2>2, SplitIs
<1>6. DOMAIN body(K) = 1..f.len
  BY <1>5
<1>7. \A i \in 1..f.len : body(K)[i].frame = K
  <2> TAKE i \in 1..f.len
  <2>1. H + i \in 1..Len(P)
    BY <1>1, <1>2
  <2> QED
    BY <1>2, <1>5, <2>1
<1>8. decrypts(body(K)) <=> \A i \in 1..f.len : f.good
  BY <1>1, <1>6, <1>7 DEF decrypts, f
<1>9. CASE f.good = TRUE
  <2>1. f.good
    BY <1>9
  <2>2. decrypts(body(K))
    BY <1>8, <2>1
  <2> QED
    BY <1>5, <1>9, <2>2 DEF f
<1>10. CASE f.good = FALSE
  <2>1. ~f.good /\ 1 \in 1..f.len
    BY <1>3, <1>10
  <2>2. ~decrypts(body(K))
    BY <1>8, <2>1
  <2> QED
    BY <1>5, <1>10, <2>2 DEF f
<1> QED
  BY <1>3, <1>9, <1>10

\* The handling of a frame: the callback is given its body, or it is skipped.
LEMMA HandleKeeps ==
  ASSUME NEW b, NEW K, RInv(b, K), HandleParsedMessage \/ ClientHandles
  PROVE  RInv(b, K)'
<1> DEFINE data == messageData(msg)
           entry == [msgId |-> msg.msgId, data |-> data]
<1>1. Types /\ Room /\ Offsets(b) /\ K \in 0..Len(sent) /\ Holds(b, K) /\ Given(K) /\ StreamIntact
  BY DEF RInv
<1>2. /\ pc = "handle" /\ pc' \in {"parse", "closed"} /\ (pc' = "closed" => why' = "decrypt")
      /\ UNCHANGED <<cfg, mode, rb, got, chunk, wire, sent, peer>>
      /\ (decrypts(data) /\ handled' = Append(handled, entry)) \/ (~decrypts(data) /\ handled' = handled)
  <2>1. CASE HandleParsedMessage
    BY <2>1 DEF HandleParsedMessage, end, env, net
  <2>2. CASE ClientHandles
    <3>1. CASE decrypts(data)
      BY <2>2, <3>1 DEF ClientHandles, env, net
    <3>2. CASE ~decrypts(data)
      BY <2>2, <3>2 DEF ClientHandles, env, net
    <3> QED
      BY <3>1, <3>2
  <2> QED
    BY <2>1, <2>2
<1>3. /\ K \in 1..Len(sent) /\ K \in DOMAIN sent /\ Len(handled) = readable(K - 1)
      /\ data = body(K) /\ msg.msgId = sent[K].msgId
  <2>1. /\ K >= 1 /\ Len(handled) = readable(K - 1) /\ data = body(K) /\ msg.msgId = sent[K].msgId
    BY <1>1, <1>2 DEF Given
  <2>2. sent \in Seq(Frames(cfg))
    BY <1>1 DEF Types
  <2> QED
    BY <1>1, <2>1, <2>2
<1>4. /\ readable(K) \in Nat /\ readable(K - 1) \in Nat
      /\ readable(K) = readable(K - 1) + (IF sent[K].good THEN 1 ELSE 0)
  <2>1. K \in 0..Len(sent) /\ K - 1 \in 0..Len(sent) /\ K > 0
    BY <1>3
  <2> QED
    BY <1>1, <2>1, ReadableIs
<1>5. data \in Seq(Bytes) /\ (decrypts(data) <=> sent[K].good = TRUE)
  BY <1>1, <1>3, BodyIs
<1>6. sent[K].good \in BOOLEAN /\ sent[K].msgId \in Int
  <2>1. sent[K] \in Frames(cfg) /\ cfg \in SocketConfigs
    BY <1>1, <1>3, SentIs DEF Types
  <2> QED
    BY <2>1, FrameIs
<1>7. handled \in Seq([msgId : Int, data : Seq(Bytes)]) /\ entry \in [msgId : Int, data : Seq(Bytes)]
  BY <1>1, <1>3, <1>5, <1>6 DEF Types
<1>8. /\ \A n : readable(n)' = readable(n)
      /\ \A k : body(k)' = body(k)
  BY <1>2 DEF readable, body
<1> HIDE DEF data
<1>9. ASSUME sent[K].good = TRUE PROVE StreamIntact' /\ Len(handled') = readable(K)
  <2>1. handled' = Append(handled, entry) /\ sent[K].good
    BY <1>2, <1>5, <1>9
  <2>2. readable(K) = Len(handled) + 1
    BY <1>3, <1>4, <2>1
  <2>3. entry = [msgId |-> sent[K].msgId, data |-> body(K)]
    BY <1>3
  <2> HIDE DEF entry
  <2>4. /\ Len(handled') = Len(handled) + 1 /\ Len(handled) \in Nat
        /\ \A i \in 1..Len(handled) : handled'[i] = handled[i] /\ i \in DOMAIN handled
        /\ handled'[Len(handled) + 1] = entry
        /\ DOMAIN handled' = 1..Len(handled) + 1
    BY <1>7, <2>1
  <2>5. StreamIntact'
    <3>1. ASSUME NEW i \in DOMAIN handled'
          PROVE  \E k \in DOMAIN sent : /\ sent[k].good /\ readable(k) = i
                                        /\ handled'[i] = [msgId |-> sent[k].msgId, data |-> body(k)]
      <4>1. CASE i = Len(handled) + 1
        <5>1. sent[K].good /\ readable(K) = i /\ handled'[i] = [msgId |-> sent[K].msgId, data |-> body(K)]
          BY <2>1, <2>2, <2>3, <2>4, <4>1
        <5> QED
          BY <1>3, <5>1
      <4>2. CASE i # Len(handled) + 1
        <5>1. i \in DOMAIN handled /\ handled'[i] = handled[i]
          BY <2>4, <3>1, <4>2
        <5> QED
          BY <1>1, <5>1 DEF StreamIntact
      <4> QED
        BY <4>1, <4>2
    <3> QED
      BY <1>2, <1>8, <3>1 DEF StreamIntact
  <2> QED
    BY <2>2, <2>4, <2>5
<1>10. ASSUME sent[K].good = FALSE PROVE StreamIntact' /\ Len(handled') = readable(K)
  <2>1. handled' = handled /\ ~sent[K].good
    BY <1>2, <1>5, <1>10
  <2>2. readable(K) = Len(handled)
    BY <1>3, <1>4, <2>1
  <2>3. StreamIntact'
    BY <1>1, <1>2, <1>8, <2>1 DEF StreamIntact
  <2> QED
    BY <2>1, <2>2, <2>3
<1>11. /\ StreamIntact' /\ Len(handled') = readable(K)
       /\ handled' \in Seq([msgId : Int, data : Seq(Bytes)])
  <2>1. StreamIntact' /\ Len(handled') = readable(K)
    BY <1>6, <1>9, <1>10
  <2> HIDE DEF entry
  <2> DEFINE E == [msgId : Int, data : Seq(Bytes)]
  <2>2. handled \in Seq(E) /\ entry \in E
    BY <1>7
  <2> HIDE DEF E
  <2>3. handled' = handled \/ handled' = Append(handled, entry)
    BY <1>2
  <2>4. handled' \in Seq(E)
    BY <2>2, <2>3
  <2> QED
    BY <2>1, <2>4 DEF E
<1>12. Given(K)'
  BY <1>2, <1>8, <1>11 DEF Given
<1>13. ClosedForCause' /\ Ended'
  BY <1>2 DEF ClosedForCause, Ended
<1>14. got = 0
  BY <1>1, <1>2 DEF Room
<1>15. Types'
  <2>1. pc' \in {"read", "second", "parse", "ingest", "handle", "closed"}
    BY <1>2
  <2> QED
    BY <1>1, <1>2, <1>11, <2>1 DEF Types
<1>16. Room'
  <2>1. pc' \in {"parse", "handle", "closed"}
    BY <1>2
  <2> QED
    BY <1>1, <1>2, <1>14, <2>1, RoomKept
<1>17. Offsets(b)' /\ (K \in 0..Len(sent))' /\ Holds(b, K)'
  <2>1. Size' = Size
    BY <1>2 DEF Size, Buffered
  <2>2. \A i \in 0..Size - 1 : pending(i)' = pending(i)
    BY <1>2 DEF pending, Buffered
  <2> QED
    BY <1>1, <1>2, <2>1, <2>2, HoldsKept
<1> QED
  BY <1>11, <1>12, <1>13, <1>15, <1>16, <1>17 DEF RInv

\* Another frame joins the end of the stream.
LEMMA PeerSendsKeeps ==
  ASSUME NEW b, NEW K, RInv(b, K), NEW f \in Frames(cfg), PeerSends(f)
  PROVE  \E c : RInv(c, K)'
<1>0. Types /\ Len(sent) \in Nat /\ f.len \in Nat /\ HeaderLen(cfg) \in {2, 3}
  <2>1. Types /\ Len(sent) \in Nat /\ cfg \in SocketConfigs
    BY DEF RInv, Types
  <2> QED
    BY <2>1, FrameIs, ConfigIs
<1>N. PICK N \in Nat : N = Len(sent)
  BY <1>0
<1>P. PICK P : P = PreparePacketFromWire(N + 1, f)
  OBVIOUS
<1>n. PICK n \in Nat : n = HeaderLen(cfg) + f.len
  BY <1>0
<1> DEFINE c == [i \in 1..N + 2 |-> IF i <= N + 1 THEN b[i] ELSE b[N + 1] + n]
           W == Len(wire)
<1>1. /\ Types /\ Room /\ Offsets(b) /\ K \in 0..N /\ Holds(b, K) /\ Given(K)
      /\ StreamIntact /\ ClosedForCause /\ Ended
  BY <1>N DEF RInv
<1>2. /\ peer = "open" /\ sent' = Append(sent, f) /\ wire' = wire \o P
      /\ UNCHANGED <<cfg, mode, rb, pc, got, chunk, drained, msg, peer, handled, isClose, why>>
  BY <1>N, <1>P DEF PeerSends, env
<1>3. /\ sent \in Seq(Frames(cfg)) /\ N \in Nat /\ wire \in Seq(Bytes) /\ W \in Nat /\ cfg \in SocketConfigs
      /\ N + 1 \in Nat
  BY <1>1 DEF Types
<1>4. P \in Seq(Bytes) /\ Len(P) = n /\ n \in Nat
  BY <1>3, <1>P, <1>n, PacketIs
<1> HIDE DEF W
<1>5. /\ sent' \in Seq(Frames(cfg)) /\ Len(sent') = N + 1 /\ sent'[N + 1] = f
      /\ \A k \in 1..N : sent'[k] = sent[k]
  <2>1. sent' = Append(sent, f) /\ N = Len(sent)
    BY <1>2, <1>N
  <2> QED
    BY <1>3, <2>1
<1>6. /\ wire' \in Seq(Bytes) /\ Len(wire') = W + n
      /\ \A i \in 1..W : wire'[i] = wire[i]
      /\ \A i \in 1..n : wire'[W + i] = P[i]
  <2>1. /\ wire \o P \in Seq(Bytes) /\ Len(wire \o P) = W + Len(P)
        /\ \A i \in 1..W + Len(P) : (wire \o P)[i] = IF i <= W THEN wire[i] ELSE P[i - W]
    BY <1>3, <1>4, ConcatProperties DEF W
  <2>2. ASSUME NEW i \in 1..W PROVE wire'[i] = wire[i]
    <3>1. i \in 1..W + Len(P) /\ i <= W
      BY <1>3, <1>4
    <3> QED
      BY <1>2, <2>1, <3>1
  <2>3. ASSUME NEW i \in 1..n PROVE wire'[W + i] = P[i]
    <3>1. W + i \in 1..W + Len(P) /\ ~(W + i <= W) /\ (W + i) - W = i
      BY <1>3, <1>4
    <3> QED
      BY <1>2, <2>1, <3>1
  <2> QED
    BY <1>2, <1>4, <2>1, <2>2, <2>3
<1>7. /\ Buffered \in Nat /\ Len(chunk) \in Nat /\ Size = Buffered + Len(chunk) + W /\ Size \in Nat
      /\ Size' = Buffered + Len(chunk) + (W + n) /\ Size' = Size + n
  <2>1. Buffered \in Nat /\ Len(chunk) \in Nat /\ Size = Buffered + Len(chunk) + W
    BY <1>1, SizeIs DEF Size, W
  <2>2. Buffered' = Buffered
    BY <1>2 DEF Buffered
  <2>3. Size' = Buffered + Len(chunk) + (W + n)
    BY <1>2, <1>6, <2>2 DEF Size
  <2> QED
    BY <1>3, <1>4, <2>1, <2>3
<1>8. ASSUME NEW i \in 0..Size - 1 PROVE pending(i)' = pending(i)
  <2> DEFINE B == Buffered
             C == Len(chunk)
  <2>1. /\ pending(i) = IF i < B THEN At(rb, rb.read + i)
                        ELSE IF i < B + C THEN chunk[i - B + 1] ELSE wire[i - B - C + 1]
        /\ pending(i)' = IF i < B THEN At(rb, rb.read + i)
                         ELSE IF i < B + C THEN chunk[i - B + 1] ELSE wire'[i - B - C + 1]
    BY <1>2 DEF pending, Buffered
  <2>2. B \in Nat /\ C \in Nat /\ i \in 0..B + C + W - 1
    <3>1. Size = B + C + W /\ B \in Nat /\ C \in Nat /\ W \in Nat
      BY <1>3, <1>7
    <3>2. i \in 0..Size - 1
      OBVIOUS
    <3> HIDE DEF B, C
    <3> QED
      BY <3>1, <3>2
  <2> HIDE DEF B, C
  <2>3. CASE i < B + C
    <3>1. CASE i < B
      BY <2>1, <3>1
    <3>2. CASE ~(i < B)
      BY <2>1, <2>3, <3>2
    <3> QED
      BY <3>1, <3>2
  <2>4. CASE ~(i < B + C)
    <3>1. i - B - C + 1 \in 1..W /\ ~(i < B)
      BY <1>3, <2>2, <2>4
    <3> QED
      BY <1>6, <2>1, <2>4, <3>1
  <2> QED
    BY <2>3, <2>4
<1>9. ASSUME NEW i \in 1..n, NEW x, x = Size + i - 1 PROVE pending(x)' = P[i]
  <2> DEFINE B == Buffered
             C == Len(chunk)
  <2>1. pending(x)' = IF x < B THEN At(rb, rb.read + x)
                      ELSE IF x < B + C THEN chunk[x - B + 1] ELSE wire'[x - B - C + 1]
    BY <1>2 DEF pending, Buffered
  <2>2. B \in Nat /\ C \in Nat /\ x = B + C + W + i - 1
    BY <1>7, <1>9
  <2> HIDE DEF B, C
  <2>3. ~(x < B) /\ ~(x < B + C) /\ x - B - C + 1 = W + i
    BY <1>3, <1>4, <2>2
  <2>4. pending(x)' = P[i]
    BY <1>6, <2>1, <2>3
  <2> QED
    BY <2>4
<1>10. /\ \A k \in 1..N : frameLen(k)' = frameLen(k)
       /\ \A k \in 1..N : \A i : byteOf(k, i)' = byteOf(k, i)
       /\ frameLen(N + 1)' = n
       /\ \A i : byteOf(N + 1, i)' = P[i]
  BY <1>2, <1>3, <1>5, <1>P, <1>n DEF frameLen, byteOf
<1>11. /\ c \in [1..N + 2 -> Nat]
       /\ \A k \in 1..N + 1 : c[k] = b[k] /\ b[k] \in Nat
       /\ c[N + 2] = b[N + 1] + n
  <2>1. b \in [1..N + 1 -> Nat]
    BY <1>1, <1>N DEF Offsets
  <2>2. N + 1 \in 1..N + 1
    BY <1>3
  <2>3. b[N + 1] + n \in Nat
    BY <1>4, <2>1, <2>2
  <2> QED
    BY <1>3, <2>1, <2>3
<1> HIDE DEF c
<1>12. Offsets(c)'
  <2>1. c \in [1..Len(sent') + 1 -> Nat]
    BY <1>3, <1>5, <1>11
  <2>2. ASSUME NEW k \in 1..N + 1 PROVE c[k + 1] = c[k] + frameLen(k)'
    <3>1. CASE k = N + 1
      <4>1. c[k + 1] = b[N + 1] + n /\ c[k] = b[N + 1]
        BY <1>3, <1>11, <3>1
      <4> QED
        BY <1>10, <3>1, <4>1
    <3>2. CASE k # N + 1
      <4>1. k \in 1..N /\ k + 1 \in 1..N + 1
        BY <1>3, <3>2
      <4>2. b[k + 1] = b[k] + frameLen(k)
        BY <1>1, <1>N, <4>1 DEF Offsets
      <4> QED
        BY <1>10, <1>11, <4>1, <4>2
    <3> QED
      BY <3>1, <3>2
  <2>3. ASSUME NEW k \in 1..N + 2, NEW l \in 1..N + 2, k <= l PROVE c[k] <= c[l]
    <3>1. CASE l # N + 2
      <4>1. k \in 1..N + 1 /\ l \in 1..N + 1
        BY <1>3, <2>3, <3>1
      <4>2. b[k] <= b[l]
        BY <1>1, <1>N, <2>3, <4>1 DEF Offsets
      <4> QED
        BY <1>11, <4>1, <4>2
    <3>2. CASE l = N + 2 /\ k # N + 2
      <4>1. k \in 1..N + 1 /\ N + 1 \in 1..N + 1 /\ k <= N + 1
        BY <1>3, <2>3, <3>2
      <4>2. b[k] <= b[N + 1] /\ b[k] \in Nat /\ b[N + 1] \in Nat /\ c[k] = b[k]
        BY <1>1, <1>N, <1>11, <4>1 DEF Offsets
      <4> QED
        BY <1>4, <1>11, <3>2, <4>2
    <3>3. CASE l = N + 2 /\ k = N + 2
      <4>1. c[l] \in Nat
        BY <1>3, <1>11
      <4> QED
        BY <3>3, <4>1
    <3> QED
      BY <3>1, <3>2, <3>3
  <2>4. Len(sent') + 1 = N + 2
    BY <1>3, <1>5
  <2> QED
    BY <1>5, <2>1, <2>2, <2>3, <2>4 DEF Offsets
<1>13. Size = b[N + 1] - b[K + 1] /\ c[K + 1] = b[K + 1] /\ b[K + 1] \in Nat /\ b[N + 1] \in Nat /\ c[N + 1] = b[N + 1]
  <2>1. K + 1 \in 1..N + 1 /\ N + 1 \in 1..N + 1
    BY <1>1, <1>3
  <2> QED
    BY <1>1, <1>N, <1>2, <1>11, <2>1 DEF Holds
<1> DEFINE u == b[K + 1]
           z == b[N + 1]
<1>13a. u \in Nat /\ z \in Nat /\ Size = z - u
  BY <1>13
<1> HIDE DEF u, z
<1>14. Holds(c, K)'
  <2>1. ASSUME NEW k \in K + 1..N + 1, NEW i \in 1..frameLen(k)', c[k] - c[K + 1] + i - 1 < Size'
        PROVE  pending(c[k] - c[K + 1] + i - 1)' = byteOf(k, i)'
    <3>1. CASE k = N + 1
      <4>1. i \in 1..n /\ c[k] = z /\ c[K + 1] = u /\ byteOf(k, i)' = P[i]
        BY <1>10, <1>13, <3>1 DEF u, z
      <4>2. z - u + i - 1 = Size + i - 1
        BY <1>13a
      <4>3. pending(z - u + i - 1)' = P[i]
        BY <1>9, <4>1, <4>2
      <4> QED
        BY <4>1, <4>3
    <3>2. CASE k # N + 1
      <4> DEFINE w == b[k]
                 v == b[k + 1]
      <4>1. k \in 1..N /\ k \in K + 1..N /\ k \in 1..N + 1 /\ k + 1 \in 1..N + 1 /\ K + 1 \in 1..N + 1
            /\ K + 1 <= k /\ k + 1 <= N + 1 /\ N + 1 \in 1..N + 1
        BY <1>1, <1>3, <3>2
      <4>2. frameLen(k)' = frameLen(k) /\ byteOf(k, i)' = byteOf(k, i) /\ c[k] = w /\ c[K + 1] = u
        BY <1>10, <1>11, <1>13, <4>1 DEF u
      <4>3. /\ w \in Nat /\ v \in Nat /\ u <= w /\ v <= z /\ v = w + frameLen(k)
        BY <1>1, <1>N, <1>11, <4>1 DEF Offsets, u, z, w, v
      <4>4. frameLen(k) \in Nat
        BY <1>1, <1>N, <4>1, SentIs
      <4>5. i \in 1..frameLen(k)
        BY <4>2
      <4> HIDE DEF w, v
      <4>6. w - u + i - 1 \in 0..Size - 1 /\ w - u + i - 1 < Size
        BY <1>13a, <4>3, <4>4, <4>5
      <4>7. pending(w - u + i - 1) = byteOf(k, i)
        BY <1>1, <1>N, <4>1, <4>5, <4>6 DEF Holds, w, u
      <4>8. pending(w - u + i - 1)' = pending(w - u + i - 1)
        BY <1>8, <4>6
      <4> QED
        BY <4>2, <4>7, <4>8
    <3> QED
      BY <3>1, <3>2
  <2>2. Size' = c[(N + 1) + 1] - c[K + 1]
    <3>1. c[(N + 1) + 1] = z + n /\ c[K + 1] = u
      <4>1. (N + 1) + 1 = N + 2
        BY <1>3
      <4> QED
        BY <1>11, <1>13, <4>1 DEF z, u
    <3> QED
      BY <1>4, <1>7, <1>13a, <3>1
  <2> QED
    BY <1>2, <1>5, <2>1, <2>2 DEF Holds
<1>15. /\ \A k \in 0..N : readable(k)' = readable(k)
       /\ \A k \in 1..N : body(k)' = body(k)
  <2>1. ASSUME NEW k \in 0..N PROVE readable(k)' = readable(k)
    <3>1. \A j \in 1..k : j \in 1..N
      BY <1>3
    <3>2. {j \in 1..k : sent'[j].good} = {j \in 1..k : sent[j].good}
      BY <1>5, <3>1
    <3> QED
      BY <3>2 DEF readable
  <2>2. ASSUME NEW k \in 1..N PROVE body(k)' = body(k)
    BY <1>2, <1>5 DEF body
  <2> QED
    BY <2>1, <2>2
<1>16. DOMAIN sent = 1..N /\ DOMAIN sent' = 1..N + 1
  BY <1>3, <1>5, <1>N
<1>17. Given(K)'
  <2>1. CASE pc = "handle"
    <3>1. K \in 1..N /\ K - 1 \in 0..N /\ K >= 1
      BY <1>1, <1>3, <2>1 DEF Given
    <3>2. /\ Len(handled) = readable(K - 1) /\ messageData(msg) = body(K) /\ msg.msgId = sent[K].msgId
      BY <1>1, <2>1 DEF Given
    <3>3. messageData(msg)' = messageData(msg)
      BY <1>2 DEF messageData
    <3>4. readable(K - 1)' = readable(K - 1) /\ body(K)' = body(K) /\ sent'[K] = sent[K]
      BY <1>5, <1>15, <3>1
    <3> QED
      BY <1>2, <2>1, <3>1, <3>2, <3>3, <3>4 DEF Given
  <2>2. CASE pc # "handle"
    BY <1>1, <1>2, <1>15, <2>2 DEF Given
  <2> QED
    BY <2>1, <2>2
<1>18. StreamIntact'
  <2> SUFFICES ASSUME NEW i \in DOMAIN handled'
               PROVE  \E k \in DOMAIN sent' : /\ sent'[k].good /\ readable(k)' = i
                                              /\ handled'[i] = [msgId |-> sent'[k].msgId, data |-> body(k)']
    BY DEF StreamIntact
  <2>1. PICK k \in DOMAIN sent : /\ sent[k].good /\ readable(k) = i
                                 /\ handled[i] = [msgId |-> sent[k].msgId, data |-> body(k)]
    BY <1>1, <1>2 DEF StreamIntact
  <2>2. k \in 1..N /\ k \in 0..N /\ k \in DOMAIN sent'
    BY <1>3, <1>16, <2>1
  <2>3. sent'[k] = sent[k] /\ readable(k)' = readable(k) /\ body(k)' = body(k)
    BY <1>5, <1>15, <2>2
  <2> QED
    BY <1>2, <2>1, <2>2, <2>3
<1>19. ClosedForCause' /\ Ended'
  <2>1. Ended'
    BY <1>1, <1>2 DEF Ended
  <2>2. SUFFICES ASSUME pc = "closed" PROVE ClosedForCause'
    BY <1>2, <2>1 DEF ClosedForCause
  <2>3. why # "eof"
    BY <1>1, <1>2, <2>2 DEF Ended
  <2>4. why \notin {"capacity", "ingest"}
    BY <1>1, <2>2 DEF ClosedForCause
  <2>5. why = "protocol" => \E k \in DOMAIN sent' : ~Legal(sent[k])'
    <3> SUFFICES ASSUME why = "protocol" PROVE \E k \in DOMAIN sent' : ~Legal(sent[k])'
      OBVIOUS
    <3>1. PICK k \in DOMAIN sent : ~Legal(sent[k])
      BY <1>1, <2>2 DEF ClosedForCause
    <3>2. k \in DOMAIN sent' /\ sent'[k] = sent[k]
      BY <1>3, <1>5, <1>16
    <3>3. ~Legal(sent[k])'
      BY <1>2, <3>1, <3>2 DEF Legal
    <3> QED
      BY <3>2, <3>3
  <2> QED
    BY <1>2, <2>3, <2>4, <2>5 DEF ClosedForCause
<1>20. Types'
  BY <1>1, <1>2, <1>5, <1>6 DEF Types
<1>21. Room'
  BY <1>1, <1>2 DEF Room, Buffered
<1>22. (K \in 0..Len(sent))'
  BY <1>1, <1>3, <1>5
<1>23. RInv(c, K)'
  BY <1>12, <1>14, <1>17, <1>18, <1>19, <1>20, <1>21, <1>22 DEF RInv
<1> QED
  BY <1>23

\* The peer closes, at the end of a frame or within one: the rest of it never comes.
LEMMA PeerEndsKeeps ==
  ASSUME NEW b, NEW K, RInv(b, K), PeerCloses \/ PeerCut
  PROVE  RInv(b, K)'
<1> DEFINE N == Len(sent)
           W == Len(wire)
           u == b[K + 1]
           y == b[N]
           z == b[N + 1]
<1>1. /\ Types /\ Room /\ Offsets(b) /\ K \in 0..N /\ Holds(b, K) /\ Given(K)
      /\ StreamIntact /\ ClosedForCause /\ Ended
  BY DEF RInv
<1>2. /\ peer = "open"
      /\ UNCHANGED <<cfg, mode, rb, pc, got, chunk, drained, msg, sent, handled, isClose, why>>
      /\ \/ peer' = "closed" /\ wire' = wire
         \/ /\ peer' = "cut" /\ wire # <<>> /\ W <= Len(PreparePacketFromWire(1, sent[N]))
            /\ \E k \in 0..W - 1 : wire' = SubSeq(wire, 1, k)
  <2>1. CASE PeerCloses
    BY <2>1 DEF PeerCloses, env
  <2>2. CASE PeerCut
    BY <2>2 DEF PeerCut, env
  <2> QED
    BY <2>1, <2>2
<1>3. /\ N \in Nat /\ wire \in Seq(Bytes) /\ W \in Nat /\ cfg \in SocketConfigs /\ Size \in Nat
      /\ Buffered \in Nat /\ Len(chunk) \in Nat /\ Size = Buffered + Len(chunk) + W
  BY <1>1, SizeIs DEF Types, Size
<1>4. PICK m \in 0..W : /\ wire' \in Seq(Bytes) /\ Len(wire') = m /\ \A i \in 1..m : wire'[i] = wire[i]
                        /\ peer' = "closed" => m = W
                        /\ peer' = "cut" => m < W /\ W <= Len(PreparePacketFromWire(1, sent[N]))
  <2>1. CASE peer' = "closed"
    <3>1. wire' = wire
      BY <1>2, <2>1
    <3> QED
      BY <1>3, <2>1, <3>1
  <2>2. CASE peer' # "closed"
    <3>1. PICK k \in 0..W - 1 : wire' = SubSeq(wire, 1, k)
      BY <1>2, <2>2
    <3>2. k \in 0..W /\ k < W
      BY <1>3, <3>1
    <3>3. wire' \in Seq(Bytes) /\ Len(wire') = k /\ \A i \in 1..k : wire'[i] = wire[i]
      BY <1>3, <3>1, <3>2, SplitIs
    <3> QED
      BY <1>2, <2>2, <3>2, <3>3
  <2> QED
    BY <2>1, <2>2
<1>5. Buffered' = Buffered
  BY <1>2 DEF Buffered
<1>6. Size' = Size - W + m /\ Size' \in Nat /\ Size' <= Size
  <2>1. Size' = Buffered + Len(chunk) + m
    BY <1>2, <1>4, <1>5 DEF Size
  <2> QED
    BY <1>3, <1>4, <2>1
<1>7. ASSUME NEW i \in 0..Size' - 1 PROVE pending(i)' = pending(i)
  <2> DEFINE B == Buffered
             C == Len(chunk)
  <2>1. /\ pending(i) = IF i < B THEN At(rb, rb.read + i)
                        ELSE IF i < B + C THEN chunk[i - B + 1] ELSE wire[i - B - C + 1]
        /\ pending(i)' = IF i < B THEN At(rb, rb.read + i)
                         ELSE IF i < B + C THEN chunk[i - B + 1] ELSE wire'[i - B - C + 1]
    BY <1>2, <1>5 DEF pending
  <2>2. B \in Nat /\ C \in Nat /\ i \in Nat /\ i < B + C + m
    <3>1. Size' = B + C + m /\ B \in Nat /\ C \in Nat /\ m \in Nat
      BY <1>3, <1>4, <1>6
    <3>2. i \in 0..Size' - 1
      OBVIOUS
    <3> HIDE DEF B, C
    <3> QED
      BY <3>1, <3>2
  <2> HIDE DEF B, C
  <2>3. CASE i < B + C
    <3>1. CASE i < B
      BY <2>1, <3>1
    <3>2. CASE ~(i < B)
      BY <2>1, <2>3, <3>2
    <3> QED
      BY <3>1, <3>2
  <2>4. CASE ~(i < B + C)
    <3>1. i - B - C + 1 \in 1..m /\ ~(i < B)
      BY <1>4, <2>2, <2>4
    <3> QED
      BY <1>4, <2>1, <2>4, <3>1
  <2> QED
    BY <2>3, <2>4
<1>8. Size = z - u /\ u \in Nat /\ z \in Nat
  <2>1. K + 1 \in 1..N + 1 /\ N + 1 \in 1..N + 1
    BY <1>1, <1>3
  <2> QED
    BY <1>1, <1>2, <2>1 DEF Holds, Offsets
<1>9. /\ \A k : frameLen(k)' = frameLen(k)
      /\ \A k, i : byteOf(k, i)' = byteOf(k, i)
  BY <1>2 DEF frameLen, byteOf
<1> HIDE DEF u, y, z
<1>10. ASSUME peer' = "cut" PROVE K < N /\ y - u <= Size' /\ Size' < z - u
  <2>1. m < W
    BY <1>4, <1>10
  <2>2. Size' < Size /\ z # u
    BY <1>3, <1>4, <1>6, <1>8, <2>1
  <2>3. K # N
    BY <2>2 DEF u, z
  <2>4. K < N /\ N \in 1..N /\ N \in 1..N + 1
    BY <1>1, <1>3, <2>3
  <2>5. z = y + frameLen(N) /\ y \in Nat
    BY <1>1, <2>4 DEF Offsets, y, z
  <2>6. sent[N] \in Frames(cfg) /\ frameLen(N) \in Nat
    BY <1>1, <2>4, SentIs
  <2>7. Len(PreparePacketFromWire(1, sent[N])) = frameLen(N)
    <3>1. 1 \in Nat
      OBVIOUS
    <3> QED
      BY <1>3, <2>6, <3>1, PacketIs DEF frameLen
  <2>8. W <= frameLen(N)
    BY <1>4, <1>10, <2>7
  <2>9. /\ Size \in Int /\ W \in Int /\ m \in Int /\ 0 <= m /\ y \in Int /\ z \in Int /\ u \in Int
        /\ frameLen(N) \in Int /\ Size' = Size - W + m /\ Size = z - u
    BY <1>3, <1>4, <1>6, <1>8, <2>5, <2>6
  <2>10. Size' < z - u
    BY <1>6, <2>2, <2>9
  <2>11. y - u <= Size'
    <3>1. z - y = frameLen(N)
      BY <2>5, <2>9
    <3>2. W <= z - y
      BY <2>8, <3>1
    <3> QED
      BY <2>9, <3>2
  <2> QED
    BY <2>4, <2>10, <2>11
<1>11. Holds(b, K)'
  <2>1. ASSUME NEW k \in K + 1..N, NEW i \in 1..frameLen(k), b[k] - b[K + 1] + i - 1 < Size'
        PROVE  pending(b[k] - b[K + 1] + i - 1)' = byteOf(k, i)
    <3> DEFINE w == b[k]
    <3>1. k \in 1..N + 1 /\ K + 1 \in 1..N + 1 /\ K + 1 <= k /\ k \in 1..N
      BY <1>1, <1>3
    <3>2. w \in Nat /\ u <= w /\ frameLen(k) \in Nat
      BY <1>1, <3>1, SentIs DEF Offsets, u
    <3>3. w - u + i - 1 < Size'
      BY <2>1 DEF u
    <3> HIDE DEF w
    <3>4. w - u + i - 1 \in 0..Size' - 1 /\ w - u + i - 1 < Size
      BY <1>3, <1>6, <1>8, <3>2, <3>3
    <3>5. pending(w - u + i - 1) = byteOf(k, i)
      BY <1>1, <3>4 DEF Holds, u, w
    <3>6. pending(w - u + i - 1)' = pending(w - u + i - 1)
      BY <1>7, <3>4
    <3> QED
      BY <3>5, <3>6 DEF u, w
  <2>2. peer' # "cut" => Size' = b[N + 1] - b[K + 1]
    <3> SUFFICES ASSUME peer' # "cut" PROVE Size' = z - u
      BY DEF z, u
    <3>1. m = W
      BY <1>2, <1>4
    <3> QED
      BY <1>3, <1>6, <1>8, <3>1
  <2>3. peer' = "cut" => K < N /\ b[N] - b[K + 1] <= Size' /\ Size' < b[N + 1] - b[K + 1]
    BY <1>10 DEF u, y, z
  <2> QED
    BY <1>2, <1>9, <2>1, <2>2, <2>3 DEF Holds
<1>12. Offsets(b)' /\ (K \in 0..Len(sent))'
  BY <1>1, <1>2, <1>9 DEF Offsets
<1>13. Given(K)'
  BY <1>1, <1>2 DEF Given, readable, body, messageData
<1>14. StreamIntact'
  BY <1>1, <1>2 DEF StreamIntact, readable, body
<1>15. Ended' /\ ClosedForCause'
  <2>1. Ended'
    BY <1>2 DEF Ended
  <2>2. pc = "closed" => why # "eof"
    BY <1>1, <1>2 DEF Ended
  <2>3. ClosedForCause'
    BY <1>1, <1>2, <2>2 DEF ClosedForCause, Legal
  <2> QED
    BY <2>1, <2>3
<1>16. Types'
  BY <1>1, <1>2, <1>4 DEF Types
<1>17. Room'
  BY <1>1, <1>2 DEF Room, Buffered
<1> QED
  BY <1>11, <1>12, <1>13, <1>14, <1>15, <1>16, <1>17 DEF RInv

-----------------------------------------------------------------------------
(* The theorems.                                                            *)

\* A connection begins with an empty ring of the pool, whatever it held before.
LEMMA InitReads == Init => ReadPathInv
<1> SUFFICES ASSUME Init PROVE ReadPathInv
  OBVIOUS
<1> DEFINE b == [i \in 1..1 |-> 0]
           D == defaultRingBufferSize
           M == RingBufferMaxSizeForSocket(cfg)
<1>1. /\ cfg \in SocketConfigs /\ mode \in Modes /\ pc = "read" /\ got = 0 /\ chunk = <<>>
      /\ wire = <<>> /\ sent = <<>> /\ peer = "open" /\ handled = <<>> /\ why = "none"
  BY DEF Init
<1>2. PICK k \in 0..D : rb = GetRingBuffer(usedRing(k), M)
  BY DEF Init
<1>3. D \in Nat /\ D > 0 /\ nextPowerOfTwo64(D) = D
  BY SizeAssumption, PowerIsNext DEF IsPowerOfTwo
<1> HIDE DEF D, M
<1>4. /\ DOMAIN rb = {"buf", "size", "read", "write", "max"}
      /\ rb.size = D /\ rb.read = 0 /\ rb.write = 0 /\ rb.max = normalizeRingBufferMaxSize(M)
  <2> DEFINE o == usedRing(k)
  <2>1. o.size = D /\ DOMAIN o = {"buf", "size", "read", "write", "max"}
    BY <1>3 DEF usedRing, NewRingBuffer, D
  <2>2. rb = [[o EXCEPT !.read = 0, !.write = 0, !.buf = [i \in 0..o.size - 1 |-> Blank]]
                EXCEPT !.max = normalizeRingBufferMaxSize(M)]
    BY <1>2 DEF GetRingBuffer, SetMaxSize, Reset
  <2> HIDE DEF o
  <2> QED
    BY <2>1, <2>2
<1>5. rb.max \in Nat
  BY <1>1, <1>4, LimitIs DEF M
<1>6. IsRing(rb) /\ DataLen(rb) = 0
  BY <1>3, <1>4, <1>5 DEF IsRing, DataLen
<1>7. Len(sent) = 0 /\ Len(chunk) = 0 /\ Len(wire) = 0 /\ Len(handled) = 0
  BY <1>1
<1>8. Buffered = 0 /\ Size = 0
  <2>1. Buffered = 0
    BY <1>1, <1>6 DEF Buffered
  <2> QED
    BY <1>7, <2>1 DEF Size
<1>9. Types
  <2>1. /\ <<>> \in Seq(Bytes) /\ <<>> \in Seq(Frames(cfg)) /\ <<>> \in Seq([msgId : Int, data : Seq(Bytes)])
    OBVIOUS
  <2> QED
    BY <1>1, <1>6, <2>1 DEF Types
<1>10. Room
  <2>1. parseHeader(cfg, rb).res = "more"
    <3>1. DataLen(rb) < HeaderLen(cfg)
      BY <1>1, <1>6, ConfigIs
    <3>2. parseHeader(cfg, rb) = [res |-> "more"]
      BY <1>1, <3>1, HeaderIs
    <3> QED
      BY <3>2
  <2>2. Len(chunk) <= ReadBufSize
    BY <1>7, ReadPathAssumption
  <2> QED
    BY <1>1, <1>3, <1>4, <1>8, <2>1, <2>2 DEF Room, M, D
<1>11. Offsets(b) /\ 0 \in 0..Len(sent)
  BY <1>7 DEF Offsets
<1>12. Holds(b, 0)
  BY <1>1, <1>7, <1>8 DEF Holds
<1>13. Given(0)
  <2>1. readable(0) = 0
    BY <1>7, <1>9, ReadableIs
  <2> QED
    BY <1>1, <1>7, <2>1 DEF Given
<1>14. StreamIntact /\ ClosedForCause /\ Ended
  BY <1>1 DEF StreamIntact, ClosedForCause, Ended
<1>15. RInv(b, 0)
  BY <1>9, <1>10, <1>11, <1>12, <1>13, <1>14 DEF RInv
<1> QED
  BY <1>15 DEF ReadPathInv

\* Every step keeps the invariant, with the offsets and the count that fit the new state.
LEMMA NextReads == ReadPathInv /\ [Next]_vars => ReadPathInv'
<1> SUFFICES ASSUME ReadPathInv, [Next]_vars PROVE ReadPathInv'
  OBVIOUS
<1>1. PICK b, K : RInv(b, K)
  BY DEF ReadPathInv
<1>2. CASE ReaderStep
  <2>1. CASE ReadFirst \/ ReadSecond \/ SecondEOF \/ ReadEOF \/ ReactorReads \/ Ingest \/ ParseError
    BY <1>1, <2>1, ReadFirstKeeps, ReadSecondKeeps, SecondEOFKeeps, ReadEOFKeeps, ReactorReadsKeeps,
       IngestKeeps, ParseErrorKeeps DEF ReadPathInv
  <2>2. CASE ReadClosed \/ IngestClosed
    BY <1>1, <2>2, ReadEndsKeep DEF ReadPathInv
  <2>3. CASE ReadIncomplete \/ ClientIncomplete \/ DispatchIncomplete
    BY <1>1, <2>3, IncompleteKeeps DEF ReadPathInv
  <2>4. CASE ParseFromRingBuffer
    BY <1>1, <2>4, ParseKeeps DEF ReadPathInv
  <2>5. CASE HandleParsedMessage \/ ClientHandles
    BY <1>1, <2>5, HandleKeeps DEF ReadPathInv
  <2> QED
    BY <1>2, <2>1, <2>2, <2>3, <2>4, <2>5 DEF ReaderStep
<1>3. CASE ReadTimeout \/ ReadReset
  BY <1>1, <1>3, ReadEndsKeep DEF ReadPathInv
<1>4. CASE \E f \in LegalFrames(cfg) \union OtherFrames(cfg) : PeerSends(f)
  <2>1. PICK f \in Frames(cfg) : PeerSends(f)
    BY <1>4 DEF Frames
  <2> QED
    BY <1>1, <2>1, PeerSendsKeeps DEF ReadPathInv
<1>5. CASE PeerCloses \/ PeerCut
  BY <1>1, <1>5, PeerEndsKeeps DEF ReadPathInv
<1>6. CASE UNCHANGED vars
  <2>1. UNCHANGED <<cfg, mode, rb, pc, got, chunk, drained, msg, wire, sent, peer, handled, isClose, why>>
    BY <1>6 DEF vars
  <2>2. Types' /\ Room' /\ Offsets(b)' /\ (K \in 0..Len(sent))'
    BY <1>1, <2>1 DEF RInv, Types, Room, Buffered, Offsets, frameLen
  <2>3. /\ \A i : pending(i)' = pending(i)
        /\ \A k, i : byteOf(k, i)' = byteOf(k, i)
        /\ \A k : frameLen(k)' = frameLen(k)
        /\ Size' = Size
    BY <2>1 DEF pending, byteOf, frameLen, Size, Buffered
  <2>4. Holds(b, K)'
    BY <1>1, <2>1, <2>3 DEF RInv, Holds
  <2>5. Given(K)'
    BY <1>1, <2>1 DEF RInv, Given, readable, messageData, body
  <2>6. StreamIntact' /\ ClosedForCause' /\ Ended'
    <3>1. StreamIntact'
      BY <1>1, <2>1 DEF RInv, StreamIntact, readable, body
    <3>2. Ended'
      BY <1>1, <2>1 DEF RInv, Ended
    <3>3. \A k : /\ Legal(sent[k])' <=> Legal(sent[k])
                 /\ readable(k)' = readable(k)
      BY <2>1 DEF Legal, readable
    <3>4. ClosedForCause
      BY <1>1 DEF RInv
    <3>5. ClosedForCause'
      <4>1. CASE peer = "cut"
        BY <2>1, <3>3, <3>4, <4>1 DEF ClosedForCause, Legal, readable
      <4>2. CASE peer # "cut"
        BY <2>1, <3>3, <3>4, <4>2 DEF ClosedForCause, Legal, readable
      <4> QED
        BY <4>1, <4>2
    <3> QED
      BY <3>1, <3>2, <3>5
  <2>7. RInv(b, K)'
    BY <2>2, <2>4, <2>5, <2>6 DEF RInv
  <2> QED
    BY <2>7 DEF ReadPathInv
<1> QED
  BY <1>2, <1>3, <1>4, <1>5, <1>6 DEF Next

\* The inductive invariant of the read path: what the peer sent and the reader has not
\* consumed is, byte for byte, spread over the ring, the reactor's buffer and the wire.
THEOREM ReadPathInvariant == Spec => []ReadPathInv
<1>1. Init => ReadPathInv
  BY InitReads
<1>2. ReadPathInv /\ [Next]_vars => ReadPathInv'
  BY NextReads
<1> QED
  BY <1>1, <1>2, PTL DEF Spec

\* For every ring size, configuration, frame and way to cut the stream into reads, the
\* callback sees the frames that were sent, in order, each with its own bytes.
THEOREM StreamArrivesIntact == Spec => []StreamIntact
<1>1. ReadPathInv => StreamIntact
  BY DEF ReadPathInv, RInv
<1> QED
  BY <1>1, ReadPathInvariant, PTL

\* A read loop never ends because the ring is too small for a legal frame, reports an
\* error only for a frame that is not legal, and at the end of the stream has handled
\* every complete frame.
THEOREM LoopEndsForCause == Spec => []ClosedForCause
<1>1. ReadPathInv => ClosedForCause
  BY DEF ReadPathInv, RInv
<1> QED
  BY <1>1, ReadPathInvariant, PTL
=============================================================================
