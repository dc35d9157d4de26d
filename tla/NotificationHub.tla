-------------------------- MODULE NotificationHub ---------------------------
(***************************************************************************)
(* The notification hub of one API worker (app/api/v1/ws.py): who is       *)
(* subscribed to which lane, the coroutine that serves each connection,    *)
(* and the broadcasts that are under way.  A send waits while the peer     *)
(* does not read, and raises once the connection is broken.                *)
(***************************************************************************)
EXTENDS Integers, FiniteSets

CONSTANTS Conns,        \* connections, each used once
          LanesOf,      \* per connection: the lanes of its claims, {} for all
          Topics,       \* broadcasts, each sent by one request
          LaneOf,       \* per topic: its lane, or "ALL" when it has none
          None

Keys(k) == IF LanesOf[k] = {} THEN {"ALL"} ELSE LanesOf[k]

AllKeys == {"ALL"} \cup {LaneOf[b] : b \in Topics} \cup UNION {Keys(k) : k \in Conns}

VARIABLES subscribers,  \* per lane key: the connections under it
          handler,      \* per connection: "none", "serving", "ended"
          pipe,         \* per connection: "up", "stalled", "broken"
          casts         \* per topic: the broadcast under way, or None

hub == <<subscribers, handler, pipe, casts>>

HubInit == /\ subscribers = [l \in AllKeys |-> {}]
           /\ handler = [k \in Conns |-> "none"]
           /\ pipe = [k \in Conns |-> "up"]
           /\ casts = [b \in Topics |-> None]

\* websocket_endpoint, connect: accepted and subscribed.
Accept(k) == /\ handler[k] = "none"
             /\ handler' = [handler EXCEPT ![k] = "serving"]
             /\ subscribers' = [l \in AllKeys |-> IF l \in Keys(k)
                                                    THEN subscribers[l] \cup {k}
                                                    ELSE subscribers[l]]
             /\ UNCHANGED <<pipe, casts>>

\* Mutant: the connection is looked for under one key only.
DisconnectOne(k) == subscribers' = [subscribers EXCEPT !["ALL"] = @ \ {k}]

\* disconnect
Disconnect(k) == subscribers' = [l \in AllKeys |-> IF l \in Keys(k)
                                                     THEN subscribers[l] \ {k}
                                                     ELSE subscribers[l]]

\* The coroutine finds the connection broken and takes the subscriptions back.
HandlerEnds(k) == /\ handler[k] = "serving" /\ pipe[k] = "broken"
                  /\ handler' = [handler EXCEPT ![k] = "ended"]
                  /\ Disconnect(k)
                  /\ UNCHANGED <<pipe, casts>>

\* broadcast_lane: the targets are copied, then sent to one after the other.
Broadcast(b) == /\ casts' = [casts EXCEPT ![b] =
                      [todo |-> subscribers[LaneOf[b]] \cup subscribers["ALL"],
                       dead |-> {}]]
                /\ UNCHANGED <<subscribers, handler, pipe>>

\* One send that the peer takes.
Send(b, k) == /\ casts[b] # None /\ k \in casts[b].todo /\ pipe[k] = "up"
              /\ casts' = [casts EXCEPT ![b].todo = @ \ {k}]
              /\ UNCHANGED <<subscribers, handler, pipe>>

\* One send that raises.
SendRaises(b, k) == /\ casts[b] # None /\ k \in casts[b].todo /\ pipe[k] = "broken"
                    /\ casts' = [casts EXCEPT ![b].todo = @ \ {k}, ![b].dead = @ \cup {k}]
                    /\ UNCHANGED <<subscribers, handler, pipe>>

\* The dead are discarded under the lane of the message only.
EndBroadcast(b) == /\ casts[b] # None /\ casts[b].todo = {}
                   /\ subscribers' = [subscribers EXCEPT ![LaneOf[b]] = @ \ casts[b].dead]
                   /\ casts' = [casts EXCEPT ![b] = None]
                   /\ UNCHANGED <<handler, pipe>>

\* The network, and the peer's keep-alive: a peer stops reading, goes on, or its
\* connection breaks; one that does not read is given up in the end.
Stall(k) == /\ handler[k] = "serving" /\ pipe[k] = "up"
            /\ pipe' = [pipe EXCEPT ![k] = "stalled"]
            /\ UNCHANGED <<subscribers, handler, casts>>

Break(k) == /\ handler[k] = "serving" /\ pipe[k] # "broken"
            /\ pipe' = [pipe EXCEPT ![k] = "broken"]
            /\ UNCHANGED <<subscribers, handler, casts>>
-----------------------------------------------------------------------------
\* NoGhosts: once the coroutine of a connection has ended, the connection is under
\* no lane, although broadcasts discard the dead under the lane of the message,
\* which may not be theirs, and may do so before or after the coroutine
\* (websocket_endpoint, broadcast_lane).
NoGhosts == \A k \in Conns : handler[k] = "ended" =>
              \A l \in AllKeys : k \notin subscribers[l]

\* "all connected operators for a lane receive every event" (ws.py:17): whoever is
\* served when a broadcast is under way is among those it was or will be sent to.
ConnectedAreTargets ==
  [][\A b \in Topics, k \in Conns :
       casts[b] # None /\ handler'[k] = "serving" /\ handler[k] = "none"
         => k \in casts[b].todo]_hub
=============================================================================
