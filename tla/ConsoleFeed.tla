---------------------------- MODULE ConsoleFeed -----------------------------
(***************************************************************************)
(* The console's end of the feed (console/src/lib/ws.ts and                *)
(* hooks/useWebSocket.ts): a ScanWebSocket for every time the console is   *)
(* mounted, each with at most one socket, which it opens again after a     *)
(* delay when it closes, and the status the operator sees.                 *)
(***************************************************************************)
EXTENDS NotificationHub

CONSTANTS Mounts,        \* 1 .. n: times the console is mounted
          Pool,          \* the connections it may use
          MaxReconnects  \* MAX_RECONNECTS

ASSUME PoolAssumption == Pool \subseteq Conns /\ None \notin Conns
ASSUME MountsAssumption == 0 \notin Mounts /\ MaxReconnects \in Nat

VARIABLES socket,        \* per connection of the pool: the browser's readyState
          feed,          \* per mount: its ScanWebSocket
          mount          \* the mount on the screen, 0 at the login screen

client == <<socket, feed, mount>>

ClientInit == /\ socket = [k \in Pool |-> "unused"]
              /\ feed = [m \in Mounts |-> [ws |-> None, stopped |-> TRUE, timer |-> FALSE,
                                           reconnects |-> 0, status |-> "closed"]]
              /\ mount = 0

Fresh == {k \in Pool : socket[k] = "unused"}

\* _open, with f the state of the feed it is called in.
OpenWith(m, f) ==
  /\ Fresh # {}
  /\ LET k == CHOOSE k \in Fresh : TRUE
     IN  /\ socket' = [socket EXCEPT ![k] = "connecting"]
         /\ feed' = [feed EXCEPT ![m] = [f EXCEPT !.ws = k, !.status = "connecting"]]

\* WebSocketProvider is mounted: a new ScanWebSocket connects.
Mount(m) == /\ mount = 0 /\ feed[m].ws = None /\ (m > 1 => feed[m - 1].ws # None)
            /\ mount' = m
            /\ OpenWith(m, [feed[m] EXCEPT !.stopped = FALSE])

\* disconnect, when the operator logs out or the session has expired.
Unmount == /\ mount # 0
           /\ LET k == feed[mount].ws
              IN  socket' = IF socket[k] \in {"connecting", "open"}
                              THEN [socket EXCEPT ![k] = "closing"] ELSE socket
           /\ feed' = [feed EXCEPT ![mount].stopped = TRUE, ![mount].status = "closed"]
           /\ mount' = 0

Owner(k) == CHOOSE m \in Mounts : feed[m].ws = k

\* onopen
Opens(k) == /\ socket[k] = "connecting" /\ handler[k] = "serving" /\ pipe[k] = "up"
            /\ socket' = [socket EXCEPT ![k] = "open"]
            /\ feed' = [feed EXCEPT ![Owner(k)].reconnects = 0,
                                    ![Owner(k)].status = "open"]
            /\ UNCHANGED mount

\* onclose, _scheduleReconnect
Closes(k) ==
  /\ socket[k] \in {"connecting", "open", "closing"}
  /\ socket' = [socket EXCEPT ![k] = "closed"]
  /\ LET f == feed[Owner(k)]
         again == ~f.stopped /\ f.reconnects < MaxReconnects
     IN  feed' = [feed EXCEPT ![Owner(k)] =
                    [f EXCEPT !.status = "closed", !.timer = again,
                              !.reconnects = IF again THEN @ + 1 ELSE @]]
  /\ UNCHANGED mount

\* Mutant: the timer opens a socket whether or not the feed was stopped meanwhile.
TimerFiresAnyway(m) == /\ feed[m].timer
                       /\ OpenWith(m, [feed[m] EXCEPT !.timer = FALSE])
                       /\ UNCHANGED mount

\* The delay has passed.
TimerFires(m) == /\ feed[m].timer
                 /\ IF feed[m].stopped
                      THEN /\ feed' = [feed EXCEPT ![m].timer = FALSE]
                           /\ UNCHANGED socket
                      ELSE OpenWith(m, [feed[m] EXCEPT !.timer = FALSE])
                 /\ UNCHANGED mount
-----------------------------------------------------------------------------
Live(k) == socket[k] \in {"connecting", "open"}

\* OneSocket: across reconnections, logouts with a reconnection pending and closing
\* handshakes that end late, a console has one live socket at most, and none at
\* the login screen ("We now expose ONE connection", useWebSocket.ts:11).
OneSocket == Cardinality({k \in Pool : Live(k)}) <= (IF mount = 0 THEN 0 ELSE 1)

\* "operator must always know whether the feed is alive" (ws.ts:4).
OpenMeansServed == mount # 0 /\ feed[mount].status = "open" =>
                     handler[feed[mount].ws] = "serving"
=============================================================================
