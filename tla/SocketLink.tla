----------------------------- MODULE SocketLink -----------------------------
(***************************************************************************)
(* The live link of a browser tab: TradingWebSocket (lib/websocket.ts) at  *)
(* one end, the endpoint and the ConnectionManager (api/ws) at the other,  *)
(* and between them connections that are refused, lost, or go half-open.   *)
(*                                                                         *)
(* A slot is one connection: the browser's socket object, the transport,   *)
(* the server's endpoint.  A slot is used again once both ends are through *)
(* with it.  The tab holds at most one socket it calls its own (`ws`), but *)
(* others may still be closing, and their callbacks come late.             *)
(*                                                                         *)
(* Abstractions.  Of the messages only what they do to the link is kept:   *)
(* payloads, the handlers of pages and the stores they fill are left out,  *)
(* and so is the length of the delays, but that the watchdog (10 s) fires  *)
(* before the next beat (20 s).  At most one broadcast is under way.       *)
(***************************************************************************)
EXTENDS Integers, Sequences, FiniteSets

CONSTANTS
  Slots,        \* connections
  Channels,     \* channels a page subscribes to
  AutoChannels, \* channels the endpoint subscribes every client to
  MaxQueue,     \* bound on the messages under way to the server
  None          \* null

ASSUME SocketAssumption ==
  /\ IsFiniteSet(Slots) /\ None \notin Slots
  /\ Channels \cap AutoChannels = {} /\ MaxQueue \in Nat

VARIABLES
  ws,      \* this.ws: the slot of the tab's own socket
  wants,   \* shouldReconnect
  timer,   \* a reconnect is pending
  beat,    \* the slot the heartbeat interval runs for
  watch,   \* the slot the watchdog (pongTimer) would close
  subs,    \* the store's subscribedSymbols
  status,  \* the store's status
  cs,      \* readyState of each socket; "detached": closing without handlers
  net,     \* its transport carries messages
  up,      \* messages on their way to the server
  pong,    \* a pong is on its way back
  srv,     \* its endpoint: none, running, over with the socket not yet closed
  conns,   \* _connections: client id -> slot
  ssubs,   \* _subscriptions: channel -> client ids
  cast     \* the broadcast under way: whom it has yet to send to, whom it found dead

client == <<ws, wants, timer, beat, watch, subs, status>>
link == <<cs, net, up, pong>>
server == <<srv, conns, ssubs, cast>>
vars == <<client, link, server>>

NoCast == [on |-> FALSE, left |-> {}, dead |-> {}]

Message == [type : {"subscribe", "unsubscribe"}, channel : Channels] \cup {[type |-> "ping"]}

Init ==
  /\ ws = None /\ wants = FALSE /\ timer = FALSE /\ beat = None /\ watch = None
  /\ subs = {} /\ status = "disconnected"
  /\ cs = [k \in Slots |-> "none"] /\ net = [k \in Slots |-> TRUE]
  /\ up = [k \in Slots |-> <<>>] /\ pong = [k \in Slots |-> FALSE]
  /\ srv = [k \in Slots |-> "none"]
  /\ conns = <<>> /\ ssubs = [ch \in Channels \cup AutoChannels |-> {}]
  /\ cast = NoCast

-----------------------------------------------------------------------------
(***************************************************************************)
(* The tab: TradingWebSocket.                                              *)
(***************************************************************************)

\* Both ends, the timers and the broadcast are through with the slot.
Free(k) ==
  /\ cs[k] = "none" /\ srv[k] = "none" /\ beat # k /\ watch # k
  /\ k \notin cast.left \cup cast.dead

\* MOnlyOpen: a socket that still opens is not noticed.
MOnlyOpen == ws # None /\ cs[ws] = "open"

\* A socket is already opening or open: connect returns.
HasSocket == ws # None /\ cs[ws] \in {"connecting", "open"}

\* The body of connect past its guard; the former socket, if closing, is superseded
\* and its interval is left to the new socket's onopen.
OpenSocket ==
  \E k \in Slots :
    /\ Free(k)
    /\ ws' = k /\ wants' = TRUE /\ timer' = FALSE /\ status' = "connecting"
    /\ cs' = [cs EXCEPT ![k] = "connecting"]
  /\ UNCHANGED <<beat, watch, subs, net, up, pong, server>>

Connect == ~HasSocket /\ OpenSocket

\* The pending reconnect is due.
TimerFires == timer /\ OpenSocket

\* MForgetsChannels: the new socket is not told what the pages are subscribed to.
MForgetsChannels(k) == {}

\* What onopen subscribes the new socket to.
ToRestore(k) == subs

\* onopen: status, heartbeat, and every channel again.  The order of the channels is
\* the set's own.
Opens(k) ==
  /\ cs[k] = "connecting" /\ srv[k] = "up" /\ net[k]
  /\ cs' = [cs EXCEPT ![k] = "open"]
  /\ IF ws = k
     THEN /\ status' = "connected" /\ beat' = k /\ watch' = None
          /\ \E order \in [1..Cardinality(ToRestore(k)) -> ToRestore(k)] :
               /\ \A ch \in ToRestore(k) : \E i \in DOMAIN order : order[i] = ch
               /\ up' = [up EXCEPT ![k] =
                           [i \in DOMAIN order |-> [type |-> "subscribe", channel |-> order[i]]]]
     ELSE UNCHANGED <<status, beat, watch, up>>
  /\ UNCHANGED <<ws, wants, timer, subs, net, pong, server>>

\* MHeedsAll: the late close of a superseded socket is taken for the tab's own.
\* MUnheard: a socket the watchdog closed has lost its handlers.  MGivesUp: one that
\* never opened is not tried again.
MHeedsAll(k) == cs[k] # "detached"
MUnheard(k) == cs[k] \notin {"closing", "detached"} /\ ws = k
MGivesUp(k) == wants /\ cs[k] # "connecting"

\* onclose is heard and is about the tab's own socket.
OwnClose(k) == cs[k] # "detached" /\ ws = k

\* onclose schedules a reconnect.
Reconnects(k) == wants

\* A slot both ends are through with is as new.
Ended(k) ==
  /\ srv' = [srv EXCEPT ![k] = "none"]
  /\ net' = [net EXCEPT ![k] = TRUE]
  /\ up' = [up EXCEPT ![k] = <<>>]

\* onerror, if it failed, and onclose: one task of the browser, so that the status
\* "error" is never seen.
HearClose(k) ==
  /\ cs' = [cs EXCEPT ![k] = "none"]
  /\ pong' = [pong EXCEPT ![k] = FALSE]
  /\ IF srv[k] = "up" THEN UNCHANGED <<srv, net, up>> ELSE Ended(k)
  /\ IF OwnClose(k)
     THEN /\ ws' = None /\ beat' = None /\ watch' = None /\ status' = "disconnected"
          /\ timer' = (timer \/ Reconnects(k))
     ELSE UNCHANGED <<ws, beat, watch, status, timer>>
  /\ UNCHANGED <<wants, subs, conns, ssubs, cast>>

\* The close handshake ends or times out, the handshake of a new socket fails, or the
\* server's end has closed.
Closes(k) ==
  /\ \/ cs[k] \in {"connecting", "closing", "detached"}
     \/ cs[k] = "open" /\ srv[k] = "over" /\ net[k]
  /\ HearClose(k)

\* The browser happens to notice that the transport is gone.
Resets(k) == cs[k] = "open" /\ ~net[k] /\ HearClose(k)

\* disconnect, when the layout unmounts.  The status is left as it was.
Disconnect ==
  /\ wants
  /\ wants' = FALSE /\ timer' = FALSE /\ beat' = None /\ watch' = None /\ ws' = None
  /\ cs' = IF ws # None THEN [cs EXCEPT ![ws] = "detached"] ELSE cs
  /\ UNCHANGED <<subs, status, net, up, pong, server>>

\* send: dropped unless the tab's socket is open, and lost when nobody is at the
\* other end.
Send(message) ==
  up' = IF ws # None /\ cs[ws] = "open" /\ net[ws] /\ srv[ws] = "up"
        THEN [up EXCEPT ![ws] = Append(@, message)] ELSE up

\* MKeepAlive: the ping only keeps the link alive, nobody waits for the pong.
MKeepAlive(k) == None

\* The socket that is closed if the pong to this one's ping does not come.
Watched(k) == k

\* PONG_TIMEOUT is shorter than HEARTBEAT_INTERVAL: no beat while the watchdog waits.
Beat ==
  /\ beat # None /\ ws = beat /\ watch = None
  /\ Len(up[ws]) <= MaxQueue
  /\ Send([type |-> "ping"])
  /\ watch' = Watched(beat)
  /\ UNCHANGED <<ws, wants, timer, beat, subs, status, cs, net, pong, server>>

\* No pong in time: the socket the watchdog was set for is closed.
WatchdogFires ==
  /\ watch # None
  /\ watch' = None
  /\ cs' = IF cs[watch] \in {"connecting", "open"}
           THEN [cs EXCEPT ![watch] = "closing"] ELSE cs
  /\ UNCHANGED <<ws, wants, timer, beat, subs, status, net, up, pong, server>>

\* A pong clears the watchdog, whichever socket it came by; what comes by a closing
\* socket is dropped.
ReceivePong(k) ==
  /\ pong[k]
  /\ pong' = [pong EXCEPT ![k] = FALSE]
  /\ watch' = IF cs[k] = "open" THEN None ELSE watch
  /\ UNCHANGED <<ws, wants, timer, beat, subs, status, cs, net, up, server>>

\* subscribe and unsubscribe, as pages mount and unmount.
Subscribe(ch) ==
  /\ ch \notin subs
  /\ \A k \in Slots : Len(up[k]) < MaxQueue
  /\ subs' = subs \cup {ch}
  /\ Send([type |-> "subscribe", channel |-> ch])
  /\ UNCHANGED <<ws, wants, timer, beat, watch, status, cs, net, pong, server>>

Unsubscribe(ch) ==
  /\ ch \in subs
  /\ \A k \in Slots : Len(up[k]) < MaxQueue
  /\ subs' = subs \ {ch}
  /\ Send([type |-> "unsubscribe", channel |-> ch])
  /\ UNCHANGED <<ws, wants, timer, beat, watch, status, cs, net, pong, server>>

-----------------------------------------------------------------------------
(***************************************************************************)
(* The server: websocket_endpoint and ConnectionManager.                   *)
(***************************************************************************)

\* MOneId: a client is known by its user, of whom there is one.
MOneId(k) == "user"

\* uuid4: one id for each connection.
ClientId(k) == k

Up == {k \in Slots : srv[k] = "up"}

WithConn(k) ==
  [id \in DOMAIN conns \cup {ClientId(k)} |-> IF id = ClientId(k) THEN k ELSE conns[id]]

Without(table, ids) == [id \in DOMAIN table \ ids |-> table[id]]

\* MKeepsChannels: the channels still list who is gone.
MKeepsChannels(table, ids) == table

\* The channels without these clients.
Unlisted(table, ids) == [ch \in DOMAIN table |-> table[ch] \ ids]

\* disconnect, for each of these clients.
Forget(ids) == conns' = Without(conns, ids) /\ ssubs' = Unlisted(ssubs, ids)

\* The endpoint accepts, registers and subscribes its client to the automatic channels.
Accept(k) ==
  /\ cs[k] \in {"connecting", "detached"} /\ srv[k] = "none" /\ net[k]
  /\ srv' = [srv EXCEPT ![k] = "up"]
  /\ conns' = WithConn(k)
  /\ ssubs' = [ch \in DOMAIN ssubs |->
                 IF ch \in AutoChannels THEN ssubs[ch] \cup {ClientId(k)} ELSE ssubs[ch]]
  /\ UNCHANGED <<cast, client, link>>

\* A write to this client may raise.
CanRaise(k) == ~net[k] \/ cs[k] \notin {"connecting", "open"}

\* One message: subscribe, unsubscribe, or a ping to answer through manager.send,
\* which says nothing to a client it does not know and forgets one it cannot reach.
Serve(k) ==
  /\ srv[k] = "up" /\ up[k] # <<>>
  /\ up' = [up EXCEPT ![k] = Tail(@)]
  /\ LET message == Head(up[k])
     IN  \/ /\ message.type = "subscribe"
            /\ ssubs' = [ssubs EXCEPT ![message.channel] = @ \cup {ClientId(k)}]
            /\ UNCHANGED <<conns, pong>>
         \/ /\ message.type = "unsubscribe"
            /\ ssubs' = [ssubs EXCEPT ![message.channel] = @ \ {ClientId(k)}]
            /\ UNCHANGED <<conns, pong>>
         \/ /\ message.type = "ping" /\ ClientId(k) \in DOMAIN conns
            /\ pong' = [j \in Slots |->
                          pong[j] \/ (j = conns[ClientId(k)] /\ cs[j] # "none")]
            /\ UNCHANGED <<conns, ssubs>>
         \/ /\ message.type = "ping" /\ ClientId(k) \in DOMAIN conns
            /\ CanRaise(conns[ClientId(k)])
            /\ Forget({ClientId(k)})
            /\ UNCHANGED pong
         \/ /\ message.type = "ping" /\ ClientId(k) \notin DOMAIN conns
            /\ UNCHANGED <<conns, ssubs, pong>>
  /\ UNCHANGED <<srv, cast, client, cs, net>>

\* A turn of the endpoint's portfolio loop that cannot reach its client; one that
\* can changes nothing here.
PushFails(k) ==
  /\ srv[k] = "up" /\ ClientId(k) \in DOMAIN conns
  /\ CanRaise(conns[ClientId(k)])
  /\ Forget({ClientId(k)})
  /\ UNCHANGED <<srv, cast, client, link>>

\* The endpoint learns that its client is gone, after all it sent, or that the
\* transport is: the finally clause.
EndpointEnds(k) ==
  /\ srv[k] = "up"
  /\ ~net[k] \/ (cs[k] \in {"closing", "detached", "none"} /\ up[k] = <<>>)
  /\ IF cs[k] = "none" THEN Ended(k)
     ELSE /\ srv' = [srv EXCEPT ![k] = "over"]
          /\ up' = [up EXCEPT ![k] = <<>>]
          /\ UNCHANGED net
  /\ Forget({ClientId(k)})
  /\ UNCHANGED <<cast, client, cs, pong>>

\* broadcast reads the subscribers once, and sends with an await for each.
CastStarts(ch) ==
  /\ ~cast.on /\ ssubs[ch] # {}
  /\ cast' = [on |-> TRUE, left |-> ssubs[ch], dead |-> {}]
  /\ UNCHANGED <<srv, conns, ssubs, client, link>>

CastSends(id) ==
  /\ cast.on /\ id \in cast.left
  /\ \/ /\ id \in DOMAIN conns => CanRaise(conns[id])
        /\ cast' = [cast EXCEPT !.left = @ \ {id}, !.dead = @ \cup {id}]
     \/ /\ id \in DOMAIN conns
        /\ cast' = [cast EXCEPT !.left = @ \ {id}]
  /\ UNCHANGED <<srv, conns, ssubs, client, link>>

CastEnds ==
  /\ cast.on /\ cast.left = {}
  /\ Forget(cast.dead)
  /\ cast' = NoCast
  /\ UNCHANGED <<srv, client, link>>

-----------------------------------------------------------------------------
(***************************************************************************)
(* The world.                                                              *)
(***************************************************************************)

\* The transport is lost without a word to either end.
Cut(k) ==
  /\ cs[k] \in {"connecting", "open"} /\ net[k] /\ srv[k] # "over"
  /\ net' = [net EXCEPT ![k] = FALSE]
  /\ up' = [up EXCEPT ![k] = <<>>]
  /\ pong' = [pong EXCEPT ![k] = FALSE]
  /\ UNCHANGED <<cs, client, server>>

\* The server restarts and knows nobody.
Restart ==
  /\ Up # {}
  /\ srv' = [k \in Slots |-> IF cs[k] = "none" THEN "none"
                             ELSE IF k \in Up THEN "over" ELSE srv[k]]
  /\ up' = [k \in Slots |-> IF k \in Up THEN <<>> ELSE up[k]]
  /\ net' = [k \in Slots |-> net[k] \/ cs[k] = "none"]
  /\ conns' = <<>> /\ ssubs' = [ch \in DOMAIN ssubs |-> {}] /\ cast' = NoCast
  /\ UNCHANGED <<cs, pong, client>>

-----------------------------------------------------------------------------

Tab == Connect \/ TimerFires \/ Disconnect \/ Beat \/ WatchdogFires

SlotStep(k) ==
  \/ Opens(k) \/ Closes(k) \/ Resets(k) \/ ReceivePong(k)
  \/ Accept(k) \/ Serve(k) \/ PushFails(k) \/ EndpointEnds(k) \/ Cut(k)

Pages == \E ch \in Channels : Subscribe(ch) \/ Unsubscribe(ch)

Broadcasts ==
  \/ \E ch \in Channels \cup AutoChannels : CastStarts(ch)
  \/ \E id \in cast.left : CastSends(id)
  \/ CastEnds

Next == Tab \/ Pages \/ (\E k \in Slots : SlotStep(k)) \/ Broadcasts \/ Restart

Spec == Init /\ [][Next]_vars

\* Timers fire, sockets that close are closed, the server's own keepalive (that of
\* uvicorn) ends endpoints whose client is gone, and broadcasts end.  Nothing makes
\* the browser see a lost transport: that is the watchdog's work.
FairSpec ==
  /\ Spec
  /\ WF_vars(TimerFires) /\ WF_vars(Beat) /\ WF_vars(WatchdogFires)
  /\ WF_vars(CastEnds) /\ WF_vars(\E id \in cast.left : CastSends(id))
  /\ \A k \in Slots : WF_vars(Closes(k)) /\ WF_vars(EndpointEnds(k))

-----------------------------------------------------------------------------

\* Every variable keeps its type; the timers run for sockets that exist.
TypeOK ==
  /\ {ws, beat, watch} \subseteq Slots \cup {None}
  /\ {wants, timer} \subseteq BOOLEAN /\ subs \subseteq Channels
  /\ status \in {"disconnected", "connecting", "connected"}
  /\ cs \in [Slots -> {"none", "connecting", "open", "closing", "detached"}]
  /\ net \in [Slots -> BOOLEAN] /\ pong \in [Slots -> BOOLEAN]
  /\ up \in [Slots -> Seq(Message)]
  /\ srv \in [Slots -> {"none", "up", "over"}]
  /\ \A id \in DOMAIN conns : conns[id] \in Slots
  /\ ssubs \in [Channels \cup AutoChannels -> SUBSET {ClientId(k) : k \in Slots}]
  /\ cast \in [on : BOOLEAN, left : SUBSET {ClientId(k) : k \in Slots},
               dead : SUBSET {ClientId(k) : k \in Slots}]
  /\ ws # None => cs[ws] \in {"connecting", "open", "closing"}

\* "Opening another one leaks the previous connection and causes reconnect churn"
\* (websocket.ts:25-27): every socket that opens or is open is the tab's own,
\* whatever remounts, late closes and reconnects come together.
OneSocket == \A k \in Slots : cs[k] \in {"connecting", "open"} => ws = k

\* A tab that wants its link has a socket or a reconnect pending, never both, and
\* what the sidebar shows is the state of that socket: no order of closes, timers and
\* remounts leaves the page waiting for nothing.
NeverStranded ==
  /\ wants => (timer <=> ws = None)
  /\ wants /\ ws = None => status = "disconnected"
  /\ wants /\ ws # None =>
       /\ cs[ws] = "connecting" => status = "connecting"
       /\ cs[ws] = "open" => status = "connected" /\ beat = ws

\* Once all the tab sent over a live link is served, the server lists it for exactly
\* the channels the pages are subscribed to, across any number of reconnects
\* (websocket.ts:54-55).
SubscriptionsAgree ==
  \A k \in Slots :
    ws = k /\ cs[k] = "open" /\ net[k] /\ srv[k] = "up" /\ up[k] = <<>> =>
      \A ch \in Channels : ch \in subs <=> ClientId(k) \in ssubs[ch]

\* The manager forgets the dead and only them: an endpoint with a live client is
\* registered, for the automatic channels too, though late finally clauses and
\* broadcasts with an old list remove others; and no channel lists a client whose
\* endpoint is over.
ServerForgetsOnlyDead ==
  /\ \A k \in Up : cs[k] \in {"connecting", "open"} /\ net[k] =>
       /\ ClientId(k) \in DOMAIN conns /\ conns[ClientId(k)] = k
       /\ \A ch \in AutoChannels : ClientId(k) \in ssubs[ch]
  /\ \A ch \in DOMAIN ssubs : ssubs[ch] \subseteq {ClientId(k) : k \in Up}

\* The link of the tab is lost and no callback says so: the transport is cut, or the
\* server does not know the client any more.
HalfOpen ==
  /\ ws # None /\ cs[ws] = "open"
  /\ ~net[ws] \/ srv[ws] = "over" \/ ClientId(ws) \notin DOMAIN conns

\* "assume the socket is half-open and close it to force a reconnect"
\* (websocket.ts:113-114): a half-open link does not last; the tab tries again unless
\* it no longer wants to.
HalfOpenNoticed ==
  HalfOpen ~> (~wants \/ (ws # None /\ cs[ws] = "connecting"))

=============================================================================
