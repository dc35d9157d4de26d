---------------------------- MODULE ConsoleProofs ----------------------------
(***************************************************************************)
(* What OperatorConsole keeps for any connections, lanes, scans and modes: *)
(* the hub forgets a connection that has ended, and a console holds one    *)
(* live socket at most.                                                    *)
(*                                                                         *)
(* The hub's part rests on HubInv: whoever is subscribed is being served,  *)
(* and only under lanes that its own coroutine takes back.  The console's  *)
(* part rests on ClientInv: every socket that is not closed yet is the     *)
(* current one of the feed that opened it, only the feed on the screen     *)
(* still opens sockets, and its timer runs only when its own is closed.    *)
(***************************************************************************)
EXTENDS OperatorConsole, FiniteSetTheorems, TLAPS

\* Under a lane are connections that are served and have that lane.
HubInv ==
  /\ subscribers \in [AllKeys -> SUBSET Conns]
  /\ handler \in [Conns -> {"none", "serving", "ended"}]
  /\ \A l \in AllKeys : \A k \in subscribers[l] : handler[k] = "serving" /\ l \in Keys(k)

Feeds == [ws : Pool \cup {None}, stopped : BOOLEAN, timer : BOOLEAN,
          reconnects : Nat, status : {"connecting", "open", "closed"}]

ClientTypeOK ==
  /\ socket \in [Pool -> {"unused", "connecting", "open", "closing", "closed"}]
  /\ feed \in [Mounts -> Feeds]
  /\ mount \in Mounts \cup {0}

\* A socket belongs to one feed, and to its latest attempt.
SocketsOwned ==
  /\ \A k \in Pool : socket[k] \in {"connecting", "open", "closing"}
                       => \E m \in Mounts : feed[m].ws = k
  /\ \A m \in Mounts : feed[m].ws # None => socket[feed[m].ws] # "unused"
  /\ \A m, n \in Mounts : feed[m].ws = feed[n].ws => m = n \/ feed[m].ws = None

\* Only the feed on the screen is not stopped; a feed waits for its timer only
\* when its socket is closed; a live socket is the one on the screen.
OnlyTheScreen ==
  /\ \A m \in Mounts : ~feed[m].stopped => m = mount
  /\ mount # 0 => feed[mount].ws # None /\ ~feed[mount].stopped
  /\ \A m \in Mounts : feed[m].timer =>
       feed[m].ws # None /\ socket[feed[m].ws] = "closed"
  /\ \A k \in Pool : Live(k) => mount # 0 /\ feed[mount].ws = k

ClientInv == ClientTypeOK /\ SocketsOwned /\ OnlyTheScreen

ConsoleInv == mode \in Modes /\ HubInv /\ ClientInv

-----------------------------------------------------------------------------
(* The hub.                                                                *)

LEMMA HubInitInv == HubInit => HubInv
BY DEF HubInit, HubInv

\* Whatever the hub does, it keeps served connections under their own lanes.
LEMMA HubStep ==
  ASSUME HubInv,
         \/ \E k \in Conns : Accept(k) \/ HandlerEnds(k) \/ Stall(k) \/ Break(k)
         \/ \E b \in Topics : Broadcast(b) \/ EndBroadcast(b)
         \/ \E b \in Topics, k \in Conns : Send(b, k) \/ SendRaises(b, k)
         \/ UNCHANGED <<subscribers, handler>>
  PROVE  HubInv'
<1>1. ASSUME NEW k \in Conns, Accept(k) PROVE HubInv'
  BY <1>1 DEF HubInv, Accept
<1>2. ASSUME NEW k \in Conns, HandlerEnds(k) PROVE HubInv'
  <2>1. subscribers' = [l \in AllKeys |-> IF l \in Keys(k) THEN subscribers[l] \ {k}
                                                          ELSE subscribers[l]]
    BY <1>2 DEF HandlerEnds, Disconnect
  <2>2. \A l \in AllKeys : k \notin subscribers'[l]
    BY <2>1 DEF HubInv
  <2> QED
    BY <1>2, <2>1, <2>2 DEF HubInv, HandlerEnds
<1>3. ASSUME NEW b \in Topics, EndBroadcast(b) PROVE HubInv'
  <2>1. LaneOf[b] \in AllKeys
    BY DEF AllKeys
  <2> QED
    BY <1>3, <2>1 DEF HubInv, EndBroadcast
<1>4. CASE UNCHANGED <<subscribers, handler>>
  BY <1>4 DEF HubInv
<1> QED
  BY <1>1, <1>2, <1>3, <1>4 DEF hub, Stall, Break, Broadcast, Send, SendRaises

-----------------------------------------------------------------------------
(* The console's end.                                                      *)

LEMMA ClientInitInv == ClientInit => ClientInv
BY DEF ClientInit, ClientInv, ClientTypeOK, Feeds, SocketsOwned, OnlyTheScreen, Live

\* A record of a feed with some fields replaced is one.
LEMMA FeedFacts ==
  ASSUME NEW f \in Feeds, NEW k \in Pool \cup {None}, NEW b \in BOOLEAN, NEW n \in Nat
  PROVE  /\ f.ws \in Pool \cup {None} /\ f.stopped \in BOOLEAN /\ f.timer \in BOOLEAN
         /\ f.reconnects \in Nat
         /\ [f EXCEPT !.ws = k, !.status = "connecting"] \in Feeds
         /\ [f EXCEPT !.stopped = b] \in Feeds
         /\ [f EXCEPT !.timer = b] \in Feeds
         /\ [f EXCEPT !.stopped = TRUE, !.status = "closed"] \in Feeds
         /\ [f EXCEPT !.reconnects = 0, !.status = "open"] \in Feeds
         /\ [f EXCEPT !.status = "closed", !.timer = b, !.reconnects = n] \in Feeds
BY DEF Feeds

\* Opening a socket for the feed on the screen whose last one, if any, is
\* closed.
LEMMA OpenStep ==
  ASSUME ClientInv, NEW m \in Mounts, NEW f \in Feeds, OpenWith(m, f), mount' = m,
         ~f.stopped, ~f.timer, f.ws = feed[m].ws, mount \in {0, m},
         \A k \in Pool : ~Live(k),
         feed[m].ws # None => socket[feed[m].ws] = "closed"
  PROVE  ClientInv'
<1>1. PICK k \in Fresh :
        /\ socket' = [socket EXCEPT ![k] = "connecting"]
        /\ feed' = [feed EXCEPT ![m] = [f EXCEPT !.ws = k, !.status = "connecting"]]
  BY DEF OpenWith
<1>2. k \in Pool /\ socket[k] = "unused" /\ k # None
  BY <1>1, PoolAssumption DEF Fresh
<1>3. /\ feed' \in [Mounts -> Feeds]
      /\ feed'[m].ws = k /\ ~feed'[m].stopped /\ ~feed'[m].timer
      /\ \A n \in Mounts \ {m} : feed'[n] = feed[n]
  <2> DEFINE g == [f EXCEPT !.ws = k, !.status = "connecting"]
  <2>1. g \in Feeds /\ g.ws = k /\ g.stopped = f.stopped /\ g.timer = f.timer
    BY <1>2 DEF Feeds
  <2>2. feed' = [feed EXCEPT ![m] = g]
    BY <1>1
  <2> HIDE DEF g
  <2> QED
    BY <2>1, <2>2 DEF ClientInv, ClientTypeOK
<1>4. /\ socket'[k] = "connecting"
      /\ \A j \in Pool \ {k} : socket'[j] = socket[j]
  BY <1>1, <1>2 DEF ClientInv, ClientTypeOK
<1>5. ClientTypeOK'
  BY <1>1, <1>3 DEF ClientInv, ClientTypeOK
<1>6. \A n \in Mounts : feed[n].ws # k
  BY <1>2 DEF ClientInv, SocketsOwned
<1>7. SocketsOwned'
  <2>1. \A j \in Pool : socket'[j] \in {"connecting", "open", "closing"}
                          => \E n \in Mounts : feed'[n].ws = j
    <3> SUFFICES ASSUME NEW j \in Pool, socket'[j] \in {"connecting", "open", "closing"},
                        j # k
                 PROVE  \E n \in Mounts : feed'[n].ws = j
      BY <1>3
    <3>1. ~Live(j) /\ socket[j] = "closing"
      BY <1>4 DEF Live
    <3>2. PICK n \in Mounts : feed[n].ws = j
      BY <3>1 DEF ClientInv, SocketsOwned
    <3>3. CASE n = m
      BY <3>1, <3>2, <3>3, PoolAssumption
    <3>4. CASE n # m
      BY <1>3, <3>2, <3>4
    <3> QED
      BY <3>3, <3>4
  <2>2. \A n \in Mounts : feed'[n].ws # None => socket'[feed'[n].ws] # "unused"
    BY <1>3, <1>4, <1>6 DEF ClientInv, ClientTypeOK, SocketsOwned, Feeds
  <2>3. \A i, n \in Mounts : feed'[i].ws = feed'[n].ws => i = n \/ feed'[i].ws = None
    BY <1>3, <1>6 DEF ClientInv, SocketsOwned
  <2> QED
    BY <2>1, <2>2, <2>3 DEF SocketsOwned
<1>8. OnlyTheScreen'
  BY <1>2, <1>3, <1>4, <1>6, MountsAssumption DEF ClientInv, ClientTypeOK, OnlyTheScreen, Live, Feeds
<1> QED
  BY <1>5, <1>7, <1>8 DEF ClientInv
\* Steps that replace the record of one feed and the state of its own socket.
LEMMA OwnSocketStep ==
  ASSUME ClientInv, NEW k \in Pool, NEW m \in Mounts, feed[m].ws = k, NEW g \in Feeds,
         NEW st \in {"open", "closing", "closed"},
         socket[k] \in {"connecting", "open", "closing"},
         socket' = [socket EXCEPT ![k] = st],
         feed' = [feed EXCEPT ![m] = g],
         g.ws = k, g.stopped = feed[m].stopped,
         g.timer => st = "closed",
         st = "open" => Live(k),
         mount' = mount
  PROVE  ClientInv'
<1>1. /\ feed' \in [Mounts -> Feeds]
      /\ feed'[m] = g /\ \A n \in Mounts \ {m} : feed'[n] = feed[n]
  BY DEF ClientInv, ClientTypeOK
<1>2. \A n \in Mounts : feed'[n].ws = feed[n].ws /\ feed'[n].stopped = feed[n].stopped
  BY <1>1
<1>3. /\ socket' \in [Pool -> {"unused", "connecting", "open", "closing", "closed"}]
      /\ socket'[k] = st /\ \A j \in Pool \ {k} : socket'[j] = socket[j]
  BY DEF ClientInv, ClientTypeOK
<1>4. ClientTypeOK'
  BY <1>1, <1>3 DEF ClientInv, ClientTypeOK
<1>5. \A n \in Mounts : feed[n].ws \in Pool \cup {None}
  BY DEF ClientInv, ClientTypeOK, Feeds
<1>6. SocketsOwned'
  BY <1>2, <1>3, <1>5 DEF ClientInv, SocketsOwned
<1>7. OnlyTheScreen'
  <2>1. \A n \in Mounts : ~feed'[n].stopped => n = mount'
    BY <1>2 DEF ClientInv, OnlyTheScreen
  <2>2. mount' # 0 => feed'[mount'].ws # None /\ ~feed'[mount'].stopped
    BY <1>2 DEF ClientInv, ClientTypeOK, OnlyTheScreen
  <2>3. \A n \in Mounts : feed'[n].timer =>
          feed'[n].ws # None /\ socket'[feed'[n].ws] = "closed"
    <3> SUFFICES ASSUME NEW n \in Mounts, feed'[n].timer
                 PROVE  feed'[n].ws # None /\ socket'[feed'[n].ws] = "closed"
      OBVIOUS
    <3>1. CASE n = m
      BY <1>1, <1>3, <3>1, PoolAssumption
    <3>2. CASE n # m
      <4>1. feed[n].timer /\ feed[n].ws # None /\ socket[feed[n].ws] = "closed"
        BY <1>1, <3>2 DEF ClientInv, OnlyTheScreen
      <4> QED
        BY <1>2, <1>3, <1>5, <4>1
    <3> QED
      BY <3>1, <3>2
  <2>4. \A j \in Pool : Live(j)' => mount' # 0 /\ feed'[mount'].ws = j
    BY <1>2, <1>3 DEF ClientInv, ClientTypeOK, OnlyTheScreen, Live
  <2> QED
    BY <2>1, <2>2, <2>3, <2>4 DEF OnlyTheScreen
<1> QED
  BY <1>4, <1>6, <1>7 DEF ClientInv

\* A socket that is not closed yet has one owner.
LEMMA OwnerFacts ==
  ASSUME ClientInv, NEW k \in Pool, socket[k] \in {"connecting", "open", "closing"}
  PROVE  Owner(k) \in Mounts /\ feed[Owner(k)].ws = k
BY DEF ClientInv, SocketsOwned, Owner

LEMMA MountStep ==
  ASSUME ClientInv, NEW m \in Mounts, Mount(m)
  PROVE  ClientInv'
<1> DEFINE f == [feed[m] EXCEPT !.stopped = FALSE]
<1>1. f \in Feeds /\ f.ws = None /\ ~f.stopped /\ f.timer = feed[m].timer
  BY DEF Mount, ClientInv, ClientTypeOK, Feeds
<1>2. OpenWith(m, f) /\ mount' = m /\ mount = 0 /\ feed[m].ws = None
  BY DEF Mount
<1>3. ~feed[m].timer /\ \A k \in Pool : ~Live(k)
  BY <1>2 DEF ClientInv, OnlyTheScreen
<1> HIDE DEF f
<1> QED
  BY <1>1, <1>2, <1>3, OpenStep

\* The timer of a feed that was stopped opens nothing.
LEMMA TimerStep ==
  ASSUME ClientInv, NEW m \in Mounts, TimerFires(m)
  PROVE  ClientInv'
<1> DEFINE f == [feed[m] EXCEPT !.timer = FALSE]
<1>1. /\ f \in Feeds /\ f.ws = feed[m].ws /\ f.stopped = feed[m].stopped /\ ~f.timer
      /\ f.stopped \in BOOLEAN
  BY DEF ClientInv, ClientTypeOK, Feeds
<1>2. feed[m].timer /\ feed[m].ws # None /\ socket[feed[m].ws] = "closed" /\ mount' = mount
  BY DEF TimerFires, ClientInv, OnlyTheScreen
<1>3. CASE ~feed[m].stopped
  <2>1. m = mount /\ OpenWith(m, f)
    BY <1>3 DEF TimerFires, ClientInv, OnlyTheScreen
  <2>2. \A k \in Pool : ~Live(k)
    BY <1>2, <2>1 DEF ClientInv, OnlyTheScreen, Live
  <2> HIDE DEF f
  <2> QED
    BY <1>1, <1>2, <1>3, <2>1, <2>2, OpenStep
<1>4. CASE feed[m].stopped
  <2>1. feed' = [feed EXCEPT ![m] = f] /\ UNCHANGED socket
    BY <1>4 DEF TimerFires
  <2> HIDE DEF f
  <2>2. \A n \in Mounts : /\ feed'[n].ws = feed[n].ws
                          /\ feed'[n].stopped = feed[n].stopped
                          /\ feed'[n].timer => feed[n].timer
    BY <1>1, <2>1 DEF ClientInv, ClientTypeOK
  <2>3. ClientTypeOK'
    BY <1>1, <1>2, <2>1 DEF ClientInv, ClientTypeOK
  <2>4. SocketsOwned'
    BY <2>1, <2>2 DEF ClientInv, SocketsOwned
  <2>5. OnlyTheScreen'
    BY <1>2, <2>1, <2>2 DEF ClientInv, ClientTypeOK, OnlyTheScreen, Live
  <2> QED
    BY <2>3, <2>4, <2>5 DEF ClientInv
<1> QED
  BY <1>1, <1>3, <1>4

LEMMA OpensStep ==
  ASSUME ClientInv, NEW k \in Pool, Opens(k)
  PROVE  ClientInv'
<1> DEFINE m == Owner(k)
           g == [feed[m] EXCEPT !.reconnects = 0, !.status = "open"]
<1>1. socket[k] = "connecting" /\ m \in Mounts /\ feed[m].ws = k
  BY OwnerFacts DEF Opens
<1>2. /\ feed' = [feed EXCEPT ![m] = g]
      /\ socket' = [socket EXCEPT ![k] = "open"] /\ mount' = mount
  BY <1>1 DEF Opens, ClientInv, ClientTypeOK
<1>3. g \in Feeds /\ g.ws = k /\ g.stopped = feed[m].stopped /\ g.timer = feed[m].timer
  BY <1>1 DEF ClientInv, ClientTypeOK, Feeds
<1>4. ~feed[m].timer
  BY <1>1 DEF ClientInv, OnlyTheScreen
<1> HIDE DEF m, g
<1> QED
  BY <1>1, <1>2, <1>3, <1>4, OwnSocketStep DEF Live

LEMMA ClosesStep ==
  ASSUME ClientInv, NEW k \in Pool, Closes(k)
  PROVE  ClientInv'
<1> DEFINE m == Owner(k)
           again == ~feed[m].stopped /\ feed[m].reconnects < MaxReconnects
           n == IF again THEN feed[m].reconnects + 1 ELSE feed[m].reconnects
           g == [feed[m] EXCEPT !.status = "closed", !.timer = again,
                                !.reconnects = IF again THEN @ + 1 ELSE @]
<1>1. m \in Mounts /\ feed[m].ws = k /\ socket[k] \in {"connecting", "open", "closing"}
  BY OwnerFacts DEF Closes
<1>2. /\ feed' = [feed EXCEPT ![m] = g]
      /\ socket' = [socket EXCEPT ![k] = "closed"] /\ mount' = mount
  BY <1>1 DEF Closes
<1>3. g \in Feeds /\ g.ws = k /\ g.stopped = feed[m].stopped
  <2>1. feed[m] \in Feeds /\ feed[m].reconnects \in Nat
    BY <1>1 DEF ClientInv, ClientTypeOK, Feeds
  <2>2. again \in BOOLEAN /\ n \in Nat
    BY <2>1, MountsAssumption
  <2>3. g = [feed[m] EXCEPT !.status = "closed", !.timer = again, !.reconnects = n]
    BY <2>1 DEF Feeds
  <2> HIDE DEF again, n, m, g
  <2> QED
    BY <1>1, <2>1, <2>2, <2>3 DEF Feeds
<1> HIDE DEF m, g
<1> QED
  BY <1>1, <1>2, <1>3, OwnSocketStep

\* Logging out leaves no socket live: the screen's is closing, and no other was.
LEMMA UnmountStep ==
  ASSUME ClientInv, Unmount
  PROVE  ClientInv'
<1> DEFINE m == mount
           k == feed[m].ws
           g == [feed[m] EXCEPT !.stopped = TRUE, !.status = "closed"]
<1>1. m \in Mounts /\ k \in Pool
  BY DEF Unmount, ClientInv, ClientTypeOK, OnlyTheScreen, Feeds
<1>2. feed' = [feed EXCEPT ![m] = g] /\ mount' = 0
  BY <1>1 DEF Unmount, ClientInv, ClientTypeOK
<1>3. g \in Feeds /\ g.ws = k /\ g.stopped /\ g.timer = feed[m].timer
  BY <1>1 DEF ClientInv, ClientTypeOK, Feeds
<1>4. socket' = IF Live(k) THEN [socket EXCEPT ![k] = "closing"] ELSE socket
  BY DEF Unmount, Live
<1> HIDE DEF g
<1>5. \A n \in Mounts : /\ feed'[n].ws = feed[n].ws /\ feed'[n].timer = feed[n].timer
                        /\ feed'[n].stopped
  BY <1>1, <1>2, <1>3 DEF ClientInv, ClientTypeOK, OnlyTheScreen, Feeds
<1>6. ClientTypeOK'
  BY <1>1, <1>2, <1>3, <1>4 DEF ClientInv, ClientTypeOK
<1>7. \A j \in Pool : /\ socket'[j] # "unused" <=> socket[j] # "unused"
                      /\ ~Live(j)'
                      /\ socket'[j] = "closed" <=> socket[j] = "closed"
                      /\ socket'[j] = "closing" => Live(j) \/ socket[j] = "closing"
  BY <1>1, <1>4 DEF ClientInv, ClientTypeOK, OnlyTheScreen, Live
<1>8. \A n \in Mounts : feed[n].ws \in Pool \cup {None}
  BY DEF ClientInv, ClientTypeOK, Feeds
<1>9. SocketsOwned'
  BY <1>5, <1>7, <1>8 DEF ClientInv, SocketsOwned, Live
<1>10. OnlyTheScreen'
  BY <1>2, <1>5, <1>7, <1>8 DEF ClientInv, OnlyTheScreen
<1> QED
  BY <1>6, <1>9, <1>10 DEF ClientInv
-----------------------------------------------------------------------------
(* The console over the hub.                                               *)

LEMMA InitConsole == Init => ConsoleInv
BY HubInitInv, ClientInitInv DEF Init, ConsoleInv

\* The mounts of a mode are mounts.
LEMMA MountsOfMode ==
  ASSUME ClientInv, mode \in Modes, NEW m \in 1 .. mode.mounts
  PROVE  m \in Mounts
BY ModesAssumption

LEMMA NextConsole == ConsoleInv /\ [Next]_vars => ConsoleInv'
<1> SUFFICES ASSUME ConsoleInv, [Next]_vars PROVE ConsoleInv'
  OBVIOUS
<1> USE DEF ConsoleInv
<1>1. HubInv /\ ClientInv /\ mode \in Modes
  OBVIOUS
<1>2. ASSUME UNCHANGED <<client, mode>>,
             \/ \E k \in Conns : Accept(k) \/ HandlerEnds(k) \/ Stall(k) \/ Break(k)
             \/ \E b \in Topics : Broadcast(b) \/ EndBroadcast(b)
             \/ \E b \in Topics, k \in Conns : Send(b, k) \/ SendRaises(b, k)
             \/ UNCHANGED <<subscribers, handler>>
      PROVE  ConsoleInv'
  <2>1. HubInv'
    BY <1>1, <1>2, HubStep
  <2>2. ClientInv'
    BY <1>1, <1>2 DEF client, ClientInv, ClientTypeOK, SocketsOwned, OnlyTheScreen, Live
  <2> QED
    BY <1>1, <1>2, <2>1, <2>2
<1>3. ASSUME ClientInv', UNCHANGED <<hub, mode>> PROVE ConsoleInv'
  <2>1. HubInv'
    BY <1>1, <1>3 DEF HubInv, hub
  <2> QED
    BY <1>1, <1>3, <2>1
<1>4. ASSUME NEW s \in Scans, OtherDecides(s) \/ Commit(s) \/ Casting(s) PROVE ConsoleInv'
  BY <1>2, <1>4, TopicsAreScans DEF OtherDecides, Notice, Commit, Casting, hub
<1>5. ASSUME NEW s \in Scans, NEW k \in Conns, Deliver(s, k) PROVE ConsoleInv'
  BY <1>2, <1>5, TopicsAreScans DEF Deliver
<1>6. ASSUME NEW k \in Conns, Serve(k) \/ GiveUp(k) \/ Network(k) PROVE ConsoleInv'
  BY <1>2, <1>6 DEF Serve, GiveUp, Network
<1>7. ASSUME NEW k \in Pool, Refuse(k) PROVE ConsoleInv'
  BY <1>1, <1>3, <1>7, ClosesStep DEF Refuse
<1>8. ASSUME NEW f \in Fetches, FetchStep(f) PROVE ConsoleInv'
  BY <1>2, <1>8 DEF FetchStep, hub
<1>9. CASE OwnDecides
  BY <1>2, <1>9 DEF OwnDecides, Notice, Broadcast
<1>10. CASE ClientStep
  <2>1. ASSUME NEW m \in 1 .. mode.mounts, Mount(m) \/ TimerFires(m) PROVE ClientInv'
    BY <1>1, <2>1, MountsOfMode, MountStep, TimerStep
  <2>2. ASSUME NEW k \in Pool, Opens(k) \/ Closes(k) PROVE ClientInv'
    BY <1>1, <2>2, OpensStep, ClosesStep
  <2> QED
    BY <1>3, <1>10, <2>1, <2>2 DEF ClientStep
<1>11. CASE Logout
  BY <1>1, <1>3, <1>11, UnmountStep DEF Logout
<1>12. CASE DeskStep \/ DeskFails \/ PollStep
  BY <1>2, <1>12 DEF DeskStep, DeskFails, PollStep, hub
<1>13. CASE UNCHANGED vars
  BY <1>2, <1>13 DEF vars, hub
<1> QED
  BY <1>4, <1>5, <1>6, <1>7, <1>8, <1>9, <1>10, <1>11, <1>12, <1>13 DEF Next
\* The connections and the sockets of the console keep ConsoleInv, whatever others
\* and the network do.
THEOREM ConsoleInvariance == Spec => []ConsoleInv
<1>1. Init => ConsoleInv
  BY InitConsole
<1>2. ConsoleInv /\ [Next]_vars => ConsoleInv'
  BY NextConsole
<1> QED
  BY <1>1, <1>2, PTL DEF Spec

\* Once the coroutine of a connection has ended, no lane holds the connection,
\* whichever broadcasts discard it before, after or never (websocket_endpoint).
THEOREM NoGhostsAreLeft == Spec => []NoGhosts
<1>1. ConsoleInv => NoGhosts
  BY DEF ConsoleInv, HubInv, NoGhosts
<1> QED
  BY <1>1, ConsoleInvariance, PTL

\* However reconnections, closing handshakes and logouts interleave, at most one
\* socket of the console is live, and none at the login screen.
THEOREM OneSocketAtATime == Spec => []OneSocket
<1>1. ASSUME ConsoleInv PROVE OneSocket
  <2> DEFINE L == {k \in Pool : Live(k)}
  <2>1. CASE mount = 0
    <3>1. L = {}
      BY <1>1, <2>1 DEF ConsoleInv, ClientInv, OnlyTheScreen
    <3> QED
      BY <2>1, <3>1, FS_EmptySet DEF OneSocket
  <2>2. CASE mount # 0
    <3>1. L \subseteq {feed[mount].ws}
      BY <1>1, <2>2 DEF ConsoleInv, ClientInv, OnlyTheScreen
    <3>2. IsFiniteSet({feed[mount].ws}) /\ Cardinality({feed[mount].ws}) = 1
      BY FS_Singleton
    <3>3. Cardinality(L) <= 1
      BY <3>1, <3>2, FS_Subset
    <3> QED
      BY <2>2, <3>3 DEF OneSocket
  <2> QED
    BY <2>1, <2>2
<1> QED
  BY <1>1, ConsoleInvariance, PTL
=============================================================================
