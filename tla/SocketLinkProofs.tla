-------------------------- MODULE SocketLinkProofs --------------------------
(***************************************************************************)
(* Theorems of SocketLink, for any number of connections, any channels and *)
(* any bound on the queues: the tab has one socket and is never stranded,  *)
(* the server forgets only the dead, and the subscriptions of a link that  *)
(* has caught up agree.                                                    *)
(***************************************************************************)
EXTENDS SocketLink, FiniteSetTheorems, TLAPS

(***************************************************************************)
(* The tab.                                                                *)
(***************************************************************************)

States == {"none", "connecting", "open", "closing", "detached"}

\* The types that the tab's own steps depend on.
TabTyped ==
  /\ {ws, beat, watch} \subseteq Slots \cup {None}
  /\ wants \in BOOLEAN /\ timer \in BOOLEAN
  /\ status \in {"disconnected", "connecting", "connected"}
  /\ cs \in [Slots -> States]
  /\ ws # None => cs[ws] \in {"connecting", "open", "closing"}

\* A socket or a timer is there exactly as long as the link is wanted.
Wanting ==
  /\ wants <=> timer \/ ws # None
  /\ timer => ws = None

\* What the store says of the link.
Shown ==
  /\ wants /\ ws = None => status = "disconnected"
  /\ ws # None /\ cs[ws] = "connecting" => status = "connecting"
  /\ ws # None /\ cs[ws] = "open" => status = "connected" /\ beat = ws

TabInv == TabTyped /\ OneSocket /\ Wanting /\ Shown

LEMMA InitTab == Init => TabInv
  BY SocketAssumption
     DEF Init, TabInv, TabTyped, States, OneSocket, Wanting, Shown

\* A new socket opens where the former one is none, or closing.
LEMMA OpenSocketTab ==
  ASSUME TabInv, OpenSocket, ~HasSocket
  PROVE  TabInv'
<1>1. PICK k \in Slots :
        /\ Free(k)
        /\ ws' = k /\ wants' = TRUE /\ timer' = FALSE /\ status' = "connecting"
        /\ cs' = [cs EXCEPT ![k] = "connecting"]
  BY DEF OpenSocket
<1>2. UNCHANGED <<beat, watch>>
  BY DEF OpenSocket
<1>3. k # None /\ cs'[k] = "connecting" /\ \A j \in Slots \ {k} : cs'[j] = cs[j]
  BY <1>1, SocketAssumption DEF TabInv, TabTyped
<1>4. TabTyped'
  BY <1>1, <1>2, <1>3 DEF TabInv, TabTyped, States
<1>5. OneSocket'
  BY <1>1, <1>3, SocketAssumption DEF TabInv, TabTyped, OneSocket, HasSocket
<1> QED
  BY <1>1, <1>3, <1>4, <1>5 DEF TabInv, Wanting, Shown

LEMMA HearCloseTab ==
  ASSUME TabInv, NEW k \in Slots, HearClose(k)
  PROVE  TabInv'
<1>1. cs' = [cs EXCEPT ![k] = "none"] /\ wants' = wants
  BY DEF HearClose
<1>2. cs'[k] = "none" /\ \A j \in Slots \ {k} : cs'[j] = cs[j]
  BY <1>1 DEF TabInv, TabTyped
<1>3. CASE OwnClose(k)
  <2>1. ws' = None /\ beat' = None /\ watch' = None /\ status' = "disconnected"
        /\ timer' = (timer \/ wants)
    BY <1>3 DEF HearClose, Reconnects
  <2>2. ws = k /\ k # None
    BY <1>3, SocketAssumption DEF OwnClose
  <2> QED
    BY <1>1, <1>2, <2>1, <2>2 DEF TabInv, TabTyped, States, OneSocket, Wanting, Shown
<1>4. CASE ~OwnClose(k)
  <2>1. UNCHANGED <<ws, beat, watch, status, timer>>
    BY <1>4 DEF HearClose
  <2>2. ws # k
    BY <1>4, SocketAssumption DEF OwnClose, TabInv, TabTyped
  <2> QED
    BY <1>1, <1>2, <2>1, <2>2 DEF TabInv, TabTyped, States, OneSocket, Wanting, Shown
<1> QED
  BY <1>3, <1>4

LEMMA NextTab == TabInv /\ [Next]_vars => TabInv'
<1> SUFFICES ASSUME TabInv, [Next]_vars PROVE TabInv'
  OBVIOUS
<1> USE DEF TabInv
<1>1. ASSUME UNCHANGED <<client, cs>> PROVE TabInv'
  BY <1>1 DEF client, TabTyped, OneSocket, Wanting, Shown
<1>2. CASE Connect
  BY <1>2, OpenSocketTab DEF Connect
<1>3. CASE TimerFires
  BY <1>3, OpenSocketTab DEF TimerFires, HasSocket, Wanting
<1>4. CASE Disconnect
  <2>1. wants' = FALSE /\ timer' = FALSE /\ beat' = None /\ watch' = None /\ ws' = None
        /\ status' = status /\ cs' = IF ws # None THEN [cs EXCEPT ![ws] = "detached"] ELSE cs
    BY <1>4 DEF Disconnect
  <2> QED
    BY <2>1 DEF TabTyped, States, OneSocket, Wanting, Shown
<1>5. ASSUME UNCHANGED <<ws, wants, timer, beat, status, cs>>, watch' \in {watch, beat, None}
      PROVE  TabInv'
  BY <1>5 DEF TabTyped, OneSocket, Wanting, Shown
<1>6. CASE WatchdogFires
  <2>1. UNCHANGED <<ws, wants, timer, beat, status>> /\ watch' = None /\ watch \in Slots
        /\ cs' = IF cs[watch] \in {"connecting", "open"} THEN [cs EXCEPT ![watch] = "closing"]
                 ELSE cs
    BY <1>6 DEF WatchdogFires, TabTyped
  <2> QED
    BY <2>1 DEF TabTyped, States, OneSocket, Wanting, Shown
<1>7. ASSUME NEW k \in Slots, Opens(k) PROVE TabInv'
  <2>1. cs' = [cs EXCEPT ![k] = "open"] /\ ws = k /\ k # None
    BY <1>7, SocketAssumption DEF Opens, OneSocket
  <2>2. UNCHANGED <<ws, wants, timer>> /\ status' = "connected" /\ beat' = k /\ watch' = None
    BY <1>7, <2>1 DEF Opens
  <2> QED
    BY <2>1, <2>2 DEF TabTyped, States, OneSocket, Wanting, Shown
<1>8. ASSUME NEW k \in Slots, Closes(k) \/ Resets(k) PROVE TabInv'
  BY <1>8, HearCloseTab DEF Closes, Resets
<1>9. ASSUME NEW k \in Slots, Accept(k) \/ Serve(k) \/ PushFails(k) \/ EndpointEnds(k) \/ Cut(k)
      PROVE  TabInv'
  BY <1>1, <1>9 DEF Accept, Serve, PushFails, EndpointEnds, Cut, link
<1>10. CASE UNCHANGED vars
  BY <1>1, <1>10 DEF vars, link
<1>11. CASE Broadcasts \/ Restart
  BY <1>1, <1>11 DEF Broadcasts, CastStarts, CastSends, CastEnds, Restart, link
<1> HIDE DEF TabInv
<1>12. ASSUME NEW k \in Slots, SlotStep(k) PROVE TabInv'
  <2>1. CASE ReceivePong(k)
    BY <1>5, <2>1 DEF ReceivePong
  <2> QED
    BY <1>7, <1>8, <1>9, <1>12, <2>1 DEF SlotStep
<1>13. CASE Tab
  <2>1. CASE Beat
    BY <1>5, <2>1 DEF Beat, Watched
  <2> QED
    BY <1>2, <1>3, <1>4, <1>6, <1>13, <2>1 DEF Tab
<1>14. CASE Pages
  BY <1>5, <1>14 DEF Pages, Subscribe, Unsubscribe
<1> QED
  BY <1>10, <1>11, <1>12, <1>13, <1>14 DEF Next

LEMMA TabInvariance == Spec => []TabInv
  BY InitTab, NextTab, PTL DEF Spec

\* "Opening another one leaks the previous connection and causes reconnect churn"
\* (websocket.ts:25-27): the tab never has two sockets that open or are open, however
\* many remounts, late closes and reconnects come together.
THEOREM OneSocketAlways == Spec => []OneSocket
<1>1. TabInv => OneSocket
  BY DEF TabInv
<1> QED
  BY <1>1, TabInvariance, PTL

\* A tab that wants its link has a socket or a reconnect pending, and shows which
\* (websocket.ts:24-136).
THEOREM NeverStrandedAlways == Spec => []NeverStranded
<1>1. TabInv => NeverStranded
  BY DEF TabInv, Wanting, Shown, NeverStranded
<1> QED
  BY <1>1, TabInvariance, PTL

-----------------------------------------------------------------------------
(***************************************************************************)
(* The server.                                                             *)
(***************************************************************************)

\* The types of the tables and of what is under way.
ServerTyped ==
  /\ srv \in [Slots -> {"none", "up", "over"}]
  /\ net \in [Slots -> BOOLEAN]
  /\ pong \in [Slots -> BOOLEAN]
  /\ up \in [Slots -> Seq(Message)]
  /\ conns = [id \in DOMAIN conns |-> id] /\ DOMAIN conns \subseteq Slots
  /\ ssubs \in [Channels \cup AutoChannels -> SUBSET Slots]
  /\ cast \in [on : BOOLEAN, left : SUBSET Slots, dead : SUBSET Slots]

\* An endpoint whose client can be reached.
Live(k) == srv[k] = "up" /\ cs[k] \in {"connecting", "open"} /\ net[k]

Registered == \A k \in Slots : Live(k) => k \in DOMAIN conns /\ \A ch \in AutoChannels : k \in ssubs[ch]
Listed == \A ch \in Channels \cup AutoChannels, k \in Slots : k \in ssubs[ch] => srv[k] = "up"

\* A broadcast knows of slots that are not taken again before it ends, and of dead
\* ones that stay dead.
CastSound ==
  /\ \A id \in cast.left \cup cast.dead : srv[id] # "none" \/ cs[id] = "none"
  /\ \A id \in cast.dead : ~Live(id)

\* The pages' channels, of which the tab can make a list.
SubsTyped == subs \subseteq Channels /\ IsFiniteSet(subs)

ServerInv == TabInv /\ SubsTyped /\ ServerTyped /\ Registered /\ Listed /\ CastSound

LEMMA InitServer == Init => ServerInv
<1> SUFFICES ASSUME Init PROVE ServerInv
  OBVIOUS
<1>0. ssubs = [ch \in Channels \cup AutoChannels |-> {}]
  BY DEF Init
<1>1. ServerTyped
  <2>1. up \in [Slots -> Seq(Message)]
    BY DEF Init
  <2>2. conns = [id \in DOMAIN conns |-> id] /\ DOMAIN conns \subseteq Slots
    BY DEF Init
  <2>3. ssubs \in [Channels \cup AutoChannels -> SUBSET Slots]
    BY <1>0
  <2>4. cast \in [on : BOOLEAN, left : SUBSET Slots, dead : SUBSET Slots]
    BY DEF Init, NoCast
  <2>5. srv \in [Slots -> {"none", "up", "over"}] /\ net \in [Slots -> BOOLEAN]
        /\ pong \in [Slots -> BOOLEAN]
    BY DEF Init
  <2> QED
    BY <2>1, <2>2, <2>3, <2>4, <2>5 DEF ServerTyped
<1>2. \A k \in Slots : srv[k] = "none"
  BY DEF Init
<1>3. \A ch \in Channels \cup AutoChannels : ssubs[ch] = {}
  BY <1>0
<1>4. cast.left = {} /\ cast.dead = {}
  BY DEF Init, NoCast
<1>5. SubsTyped
  BY FS_EmptySet DEF Init, SubsTyped
<1> QED
  BY <1>1, <1>2, <1>3, <1>4, <1>5, InitTab DEF ServerInv, Live, Registered, Listed, CastSound

\* What leaves the server alone, brings nobody to life and takes no slot that a
\* broadcast knows of.
LEMMA ServerFrame ==
  ASSUME ServerInv, TabInv', SubsTyped', ServerTyped', UNCHANGED <<srv, conns, ssubs, cast>>,
         \A k \in Slots : Live(k)' => Live(k),
         \A k \in cast.left \cup cast.dead : cs[k] = "none" => cs'[k] = "none" \/ srv[k] # "none"
  PROVE  ServerInv'
  BY DEF ServerInv, Registered, Listed, CastSound, ServerTyped

LEMMA TabSlot == ASSUME TabInv, ws # None PROVE ws \in Slots
  BY DEF TabInv, TabTyped

\* A message the tab sends keeps the types.
LEMMA SendTyped ==
  ASSUME TabInv, ServerTyped, NEW m \in Message, Send(m)
  PROVE  up' \in [Slots -> Seq(Message)]
<1>1. \A k \in Slots : Append(up[k], m) \in Seq(Message)
  BY DEF ServerTyped
<1>2. up' = up \/ \E k \in Slots : up' = [up EXCEPT ![k] = Append(up[k], m)]
  <2>1. CASE ws # None /\ cs[ws] = "open" /\ net[ws] /\ srv[ws] = "up"
    <3>1. up' = [up EXCEPT ![ws] = Append(up[ws], m)]
      BY <2>1 DEF Send
    <3> QED
      BY <2>1, <3>1, TabSlot
  <2> QED
    BY <2>1 DEF Send
<1>3. ASSUME NEW k \in Slots, up' = [up EXCEPT ![k] = Append(up[k], m)]
      PROVE  up' \in [Slots -> Seq(Message)]
  <2> DEFINE q == Append(up[k], m)
  <2>1. q \in Seq(Message)
    BY <1>1
  <2> HIDE DEF q
  <2>2. up' = [up EXCEPT ![k] = q]
    BY <1>3 DEF q
  <2> QED
    BY <2>1, <2>2 DEF ServerTyped
<1> QED
  BY <1>2, <1>3 DEF ServerTyped


\* What the tab's own steps do to the server: nothing.
LEMMA TabServer ==
  ASSUME ServerInv, TabInv', SubsTyped', UNCHANGED <<net, server>>,
         up' \in [Slots -> Seq(Message)], pong' \in [Slots -> BOOLEAN],
         \A k \in Slots : \/ cs'[k] = cs[k]
                          \/ cs[k] # "none" /\ cs'[k] \notin {"connecting", "open"}
                          \/ cs[k] \in {"connecting", "open"} /\ cs'[k] = "open"
                          \/ Free(k)
  PROVE  ServerInv'
<1>1. ServerTyped'
  BY DEF ServerInv, ServerTyped, server
<1>2. \A k \in Slots : Live(k)' => Live(k)
  BY DEF ServerInv, ServerTyped, server, Live, Free
<1>3. \A k \in cast.left \cup cast.dead : cs[k] = "none" => cs'[k] = "none" \/ srv[k] # "none"
  BY DEF ServerInv, ServerTyped, Free
<1> QED
  BY <1>1, <1>2, <1>3, ServerFrame DEF server

LEMMA SubsKept == ASSUME SubsTyped, [Next]_vars PROVE SubsTyped'
<1>1. CASE subs' = subs
  BY <1>1 DEF SubsTyped
<1>2. ASSUME NEW ch \in Channels, Subscribe(ch) PROVE SubsTyped'
  BY <1>2, FS_AddElement DEF SubsTyped, Subscribe
<1>3. ASSUME NEW ch \in Channels, Unsubscribe(ch) PROVE SubsTyped'
  BY <1>3, FS_RemoveElement DEF SubsTyped, Unsubscribe
<1>4. CASE Tab
  BY <1>1, <1>4 DEF Tab, Connect, TimerFires, OpenSocket, Disconnect, Beat, WatchdogFires
<1>5. ASSUME NEW k \in Slots, SlotStep(k) PROVE subs' = subs
  BY <1>5 DEF SlotStep, Opens, Closes, Resets, HearClose, ReceivePong, Accept, Serve, PushFails,
              EndpointEnds, Cut, client
<1>6. CASE Broadcasts \/ Restart \/ UNCHANGED vars
  BY <1>1, <1>6 DEF Broadcasts, CastStarts, CastSends, CastEnds, Restart, client, vars
<1> QED
  BY <1>1, <1>2, <1>3, <1>4, <1>5, <1>6 DEF Next, Pages

LEMMA TabStepServer ==
  ASSUME ServerInv, TabInv', SubsTyped', Tab \/ Pages
  PROVE  ServerInv'
<1> USE DEF ServerInv
<1>1. CASE Connect \/ TimerFires
  <2>1. PICK k \in Slots : Free(k) /\ cs' = [cs EXCEPT ![k] = "connecting"]
    BY <1>1 DEF Connect, TimerFires, OpenSocket
  <2>2. UNCHANGED <<net, up, pong, server>>
    BY <1>1 DEF Connect, TimerFires, OpenSocket
  <2>3. \A j \in Slots : cs'[j] = cs[j] \/ Free(j)
    BY <2>1 DEF TabInv, TabTyped
  <2> QED
    BY <2>2, <2>3, TabServer DEF ServerTyped
<1>2. CASE Disconnect
  <2>1. UNCHANGED <<net, up, pong, server>>
    BY <1>2 DEF Disconnect
  <2>2. \A j \in Slots : cs'[j] = cs[j] \/ (cs[j] # "none" /\ cs'[j] = "detached")
    BY <1>2 DEF Disconnect, TabInv, TabTyped
  <2> QED
    BY <2>1, <2>2, TabServer DEF ServerTyped
<1>3. CASE WatchdogFires
  <2>1. UNCHANGED <<net, up, pong, server>>
    BY <1>3 DEF WatchdogFires
  <2>2. \A j \in Slots : cs'[j] = cs[j] \/ (cs[j] # "none" /\ cs'[j] = "closing")
    BY <1>3 DEF WatchdogFires, TabInv, TabTyped
  <2> QED
    BY <2>1, <2>2, TabServer DEF ServerTyped
<1>4. ASSUME NEW m \in Message, Send(m), UNCHANGED <<cs, net, pong, server>> PROVE ServerInv'
  BY <1>4, SendTyped, TabServer DEF ServerTyped
<1>5. CASE Beat
  <2>1. [type |-> "ping"] \in Message
    BY DEF Message
  <2> QED
    BY <1>4, <1>5, <2>1 DEF Beat
<1>6. CASE Pages
  <2>1. \A ch \in Channels : /\ [type |-> "subscribe", channel |-> ch] \in Message
                             /\ [type |-> "unsubscribe", channel |-> ch] \in Message
    BY DEF Message
  <2> QED
    BY <1>4, <1>6, <2>1 DEF Pages, Subscribe, Unsubscribe
<1> QED
  BY <1>1, <1>2, <1>3, <1>5, <1>6 DEF Tab

\* What a new socket is told is a sequence of messages.
LEMMA OpensTyped ==
  ASSUME ServerInv, NEW k \in Slots, Opens(k)
  PROVE  up' \in [Slots -> Seq(Message)]
<1>1. CASE ws = k
  <2> DEFINE n == Cardinality(ToRestore(k))
             told(order) == [i \in DOMAIN order |-> [type |-> "subscribe", channel |-> order[i]]]
  <2>1. PICK order \in [1..n -> ToRestore(k)] : up' = [up EXCEPT ![k] = told(order)]
    BY <1>1 DEF Opens
  <2>2. subs \subseteq Channels /\ n \in Nat
    BY FS_CardinalityType DEF ToRestore, ServerInv, SubsTyped
  <2> HIDE DEF n
  <2>3. told(order) \in [1..n -> Message]
    BY <2>2 DEF ToRestore, Message
  <2> HIDE DEF told
  <2>4. told(order) \in Seq(Message)
    BY <2>2, <2>3
  <2> QED
    BY <2>1, <2>4 DEF ServerInv, ServerTyped
<1>2. CASE ws # k
  BY <1>2 DEF Opens, ServerInv, ServerTyped
<1> QED
  BY <1>1, <1>2


LEMMA HearCloseServer ==
  ASSUME ServerInv, TabInv', SubsTyped', NEW k \in Slots, HearClose(k)
  PROVE  ServerInv'
<1>1. cs'[k] = "none" /\ \A j \in Slots \ {k} : cs'[j] = cs[j]
  BY DEF HearClose, ServerInv, TabInv, TabTyped
<1>2. UNCHANGED <<conns, ssubs, cast>> /\ pong' = [pong EXCEPT ![k] = FALSE]
  BY DEF HearClose
<1>3. CASE srv[k] = "up"
  <2>1. UNCHANGED <<srv, net, up>>
    BY <1>3 DEF HearClose
  <2>2. ServerTyped'
    BY <1>2, <2>1 DEF ServerInv, ServerTyped
  <2> QED
    BY <1>1, <1>2, <2>1, <2>2, ServerFrame DEF Live, ServerInv, ServerTyped
<1>4. CASE srv[k] # "up"
  <2>1. /\ srv' = [srv EXCEPT ![k] = "none"] /\ net' = [net EXCEPT ![k] = TRUE]
        /\ up' = [up EXCEPT ![k] = <<>>]
    BY <1>4 DEF HearClose, Ended
  <2>2. srv'[k] = "none" /\ \A j \in Slots \ {k} : srv'[j] = srv[j] /\ net'[j] = net[j]
    BY <2>1 DEF ServerInv, ServerTyped
  <2>3. ServerTyped'
    <3>1. <<>> \in Seq(Message)
      OBVIOUS
    <3>2. up' \in [Slots -> Seq(Message)]
      BY <2>1, <3>1 DEF ServerInv, ServerTyped
    <3> QED
      BY <1>2, <2>1, <3>2 DEF ServerInv, ServerTyped
  <2>4. Registered' /\ Listed'
    BY <1>1, <1>2, <1>4, <2>2 DEF ServerInv, Registered, Listed, Live, ServerTyped
  <2>5. CastSound'
    BY <1>1, <1>2, <2>2 DEF ServerInv, CastSound, Live, ServerTyped
  <2> QED
    BY <2>3, <2>4, <2>5 DEF ServerInv
<1> QED
  BY <1>3, <1>4

\* A new endpoint is one that no channel lists and no broadcast knows of.
LEMMA AcceptServer ==
  ASSUME ServerInv, TabInv', SubsTyped', NEW k \in Slots, Accept(k)
  PROVE  ServerInv'
<1> USE DEF ServerInv
<1>1. /\ UNCHANGED <<cs, net, up, pong, cast>> /\ srv' = [srv EXCEPT ![k] = "up"]
      /\ cs[k] \in {"connecting", "detached"} /\ srv[k] = "none"
  BY DEF Accept, link
<1>2. srv'[k] = "up" /\ \A j \in Slots \ {k} : srv'[j] = srv[j]
  BY <1>1 DEF ServerTyped
<1>3. conns' = [id \in DOMAIN conns \cup {k} |-> id]
  BY DEF Accept, WithConn, ClientId, ServerTyped
<1>4. ssubs' = [ch \in Channels \cup AutoChannels |->
                  IF ch \in AutoChannels THEN ssubs[ch] \cup {k} ELSE ssubs[ch]]
  BY DEF Accept, ClientId, ServerTyped
<1>5. ServerTyped'
  <2>1. conns' = [id \in DOMAIN conns' |-> id] /\ DOMAIN conns' \subseteq Slots
    BY <1>3 DEF ServerTyped
  <2>2. ssubs' \in [Channels \cup AutoChannels -> SUBSET Slots]
    BY <1>4 DEF ServerTyped
  <2> QED
    BY <1>1, <2>1, <2>2 DEF ServerTyped
<1>6. Registered'
  BY <1>1, <1>2, <1>3, <1>4 DEF Registered, Live, ServerTyped
<1>7. Listed'
  BY <1>1, <1>2, <1>4 DEF Listed, ServerTyped
<1>8. CastSound'
  BY <1>1, <1>2 DEF CastSound, Live, ServerTyped
<1> QED
  BY <1>5, <1>6, <1>7, <1>8

\* The clients forgotten are not live.
LEMMA ForgetServer ==
  ASSUME ServerInv, TabInv', SubsTyped', NEW ids \in SUBSET Slots, Forget(ids),
         UNCHANGED <<srv, cs, net>>, up' \in [Slots -> Seq(Message)],
         pong' \in [Slots -> BOOLEAN],
         cast' = cast \/ cast' = NoCast, \A id \in ids : ~Live(id)
  PROVE  ServerInv'
<1> USE DEF ServerInv
<1>1. conns' = [id \in DOMAIN conns \ ids |-> id]
  BY DEF Forget, Without, ServerTyped
<1>2. ssubs' = [ch \in Channels \cup AutoChannels |-> ssubs[ch] \ ids]
  BY DEF Forget, Unlisted, ServerTyped
<1>3. ServerTyped'
  <2>1. conns' = [id \in DOMAIN conns' |-> id] /\ DOMAIN conns' \subseteq Slots
    BY <1>1 DEF ServerTyped
  <2>2. ssubs' \in [Channels \cup AutoChannels -> SUBSET Slots]
    BY <1>2 DEF ServerTyped
  <2>3. NoCast \in [on : BOOLEAN, left : SUBSET Slots, dead : SUBSET Slots]
    BY DEF NoCast
  <2> QED
    BY <2>1, <2>2, <2>3 DEF ServerTyped
<1>4. \A k \in Slots : Live(k)' <=> Live(k)
  BY DEF Live
<1>5. Registered'
  BY <1>1, <1>2, <1>4 DEF Registered
<1>6. Listed'
  BY <1>2 DEF Listed
<1>7. CastSound'
  BY <1>4 DEF CastSound, NoCast, ServerTyped
<1> QED
  BY <1>3, <1>5, <1>6, <1>7


\* A write that may raise goes to a client that is not live.
LEMMA RaisesNotLive ==
  ASSUME ServerInv, NEW k \in DOMAIN conns, CanRaise(conns[k])
  PROVE  k \in Slots /\ conns[k] = k /\ ~Live(k)
  BY DEF ServerInv, ServerTyped, CanRaise, Live

LEMMA ServeServer ==
  ASSUME ServerInv, TabInv', SubsTyped', NEW k \in Slots, Serve(k)
  PROVE  ServerInv'
<1> USE DEF ServerInv
<1> DEFINE message == Head(up[k])
<1>1. UNCHANGED <<srv, cast, cs, net>> /\ srv[k] = "up"
  BY DEF Serve
<1>2. message \in Message /\ up' \in [Slots -> Seq(Message)]
  <2>1. up[k] \in Seq(Message) /\ up[k] # <<>> /\ up' = [up EXCEPT ![k] = Tail(up[k])]
    BY DEF Serve, ServerTyped
  <2>2. message \in Message /\ Tail(up[k]) \in Seq(Message)
    BY <2>1
  <2> QED
    BY <2>1, <2>2 DEF ServerTyped
<1> HIDE DEF message
<1>3. ASSUME UNCHANGED conns, UNCHANGED pong, NEW ch \in Channels,
             \/ ssubs' = [ssubs EXCEPT ![ch] = @ \cup {k}]
             \/ ssubs' = [ssubs EXCEPT ![ch] = @ \ {k}]
      PROVE  ServerInv'
  <2>1. ssubs' \in [Channels \cup AutoChannels -> SUBSET Slots]
    BY <1>3 DEF ServerTyped
  <2>2. \A j \in Slots, a \in AutoChannels : j \in ssubs[a] => j \in ssubs'[a]
    BY <1>3, SocketAssumption DEF ServerTyped
  <2>3. ASSUME NEW a \in Channels \cup AutoChannels, NEW j \in Slots, j \in ssubs'[a]
        PROVE  j \in ssubs[a] \/ j = k
    <3>1. CASE a = ch
      BY <1>3, <2>3, <3>1 DEF ServerTyped
    <3>2. CASE a # ch
      BY <1>3, <2>3, <3>2 DEF ServerTyped
    <3> QED
      BY <3>1, <3>2
  <2>4. ServerTyped'
    BY <1>1, <1>2, <1>3, <2>1 DEF ServerTyped
  <2>5. Registered'
    BY <1>1, <1>3, <2>2 DEF Registered, Live
  <2>6. Listed'
    BY <1>1, <2>3 DEF Listed
  <2>7. CastSound'
    BY <1>1 DEF CastSound, Live
  <2> QED
    BY <2>4, <2>5, <2>6, <2>7
<1>4. ASSUME UNCHANGED <<conns, ssubs>>, pong' \in [Slots -> BOOLEAN] PROVE ServerInv'
  <2>1. ServerTyped'
    BY <1>1, <1>2, <1>4 DEF ServerTyped
  <2> QED
    BY <1>1, <1>4, <2>1, ServerFrame DEF Live
<1>5. ASSUME k \in DOMAIN conns, CanRaise(conns[k]), Forget({k}), UNCHANGED pong PROVE ServerInv'
  BY <1>1, <1>2, <1>5, RaisesNotLive, ForgetServer DEF ServerTyped
<1>6. \/ /\ message.type = "subscribe" /\ UNCHANGED <<conns, pong>>
         /\ ssubs' = [ssubs EXCEPT ![message.channel] = @ \cup {k}]
      \/ /\ message.type = "unsubscribe" /\ UNCHANGED <<conns, pong>>
         /\ ssubs' = [ssubs EXCEPT ![message.channel] = @ \ {k}]
      \/ /\ k \in DOMAIN conns /\ UNCHANGED <<conns, ssubs>>
         /\ pong' = [j \in Slots |-> pong[j] \/ (j = conns[k] /\ cs[j] # "none")]
      \/ k \in DOMAIN conns /\ CanRaise(conns[k]) /\ Forget({k}) /\ UNCHANGED pong
      \/ UNCHANGED <<conns, ssubs, pong>>
  BY DEF Serve, message, ClientId
<1>7. message.type \in {"subscribe", "unsubscribe"} => message.channel \in Channels
  BY <1>2 DEF Message
<1>8. pong \in [Slots -> BOOLEAN]
      /\ [j \in Slots |-> pong[j] \/ (j = conns[k] /\ cs[j] # "none")] \in [Slots -> BOOLEAN]
  BY DEF ServerTyped
<1> QED
  BY <1>3, <1>4, <1>5, <1>6, <1>7, <1>8

LEMMA EndpointEndsServer ==
  ASSUME ServerInv, TabInv', SubsTyped', NEW k \in Slots, EndpointEnds(k)
  PROVE  ServerInv'
<1> USE DEF ServerInv
<1>1. UNCHANGED <<cs, pong, cast>> /\ Forget({k}) /\ srv[k] = "up"
  BY DEF EndpointEnds, ClientId
<1>2. /\ srv' = [srv EXCEPT ![k] = IF cs[k] = "none" THEN "none" ELSE "over"]
      /\ net' = [net EXCEPT ![k] = IF cs[k] = "none" THEN TRUE ELSE net[k]]
      /\ up' = [up EXCEPT ![k] = <<>>]
  BY DEF EndpointEnds, Ended, ServerTyped
<1>3. /\ srv'[k] # "up" /\ (srv'[k] = "none" => cs[k] = "none")
      /\ \A j \in Slots \ {k} : srv'[j] = srv[j] /\ net'[j] = net[j]
  BY <1>2 DEF ServerTyped
<1>4. conns' = [id \in DOMAIN conns \ {k} |-> id]
  BY <1>1 DEF Forget, Without, ServerTyped
<1>5. ssubs' = [ch \in Channels \cup AutoChannels |-> ssubs[ch] \ {k}]
  BY <1>1 DEF Forget, Unlisted, ServerTyped
<1>6. ServerTyped'
  <2>1. conns' = [id \in DOMAIN conns' |-> id] /\ DOMAIN conns' \subseteq Slots
    BY <1>4 DEF ServerTyped
  <2>2. ssubs' \in [Channels \cup AutoChannels -> SUBSET Slots]
    BY <1>5 DEF ServerTyped
  <2>3. <<>> \in Seq(Message)
    OBVIOUS
  <2>4. up' \in [Slots -> Seq(Message)]
    BY <1>2, <2>3 DEF ServerTyped
  <2>5. srv' \in [Slots -> {"none", "up", "over"}] /\ net' \in [Slots -> BOOLEAN]
    BY <1>2 DEF ServerTyped
  <2> QED
    BY <1>1, <2>1, <2>2, <2>4, <2>5 DEF ServerTyped
<1>7. Registered'
  BY <1>1, <1>3, <1>4, <1>5 DEF Registered, Live
<1>8. Listed'
  BY <1>3, <1>5 DEF Listed
<1>9. CastSound'
  BY <1>1, <1>3 DEF CastSound, Live, ServerTyped
<1> QED
  BY <1>6, <1>7, <1>8, <1>9

LEMMA SlotStepServer ==
  ASSUME ServerInv, TabInv', SubsTyped', NEW k \in Slots, SlotStep(k)
  PROVE  ServerInv'
<1>1. CASE Opens(k)
  <2>1. UNCHANGED <<net, pong, server>> /\ cs[k] = "connecting" /\ cs' = [cs EXCEPT ![k] = "open"]
    BY <1>1 DEF Opens
  <2>2. \A j \in Slots : cs'[j] = cs[j] \/ (cs[j] = "connecting" /\ cs'[j] = "open")
    BY <2>1 DEF ServerInv, TabInv, TabTyped
  <2>3. up' \in [Slots -> Seq(Message)]
    BY <1>1, OpensTyped
  <2> QED
    BY <2>1, <2>2, <2>3, TabServer DEF ServerInv, ServerTyped
<1>2. CASE Closes(k) \/ Resets(k)
  BY <1>2, HearCloseServer DEF Closes, Resets
<1>3. CASE ReceivePong(k)
  <2>1. UNCHANGED <<cs, net, up, server>> /\ pong' = [pong EXCEPT ![k] = FALSE]
    BY <1>3 DEF ReceivePong
  <2> QED
    BY <2>1, TabServer DEF ServerInv, ServerTyped
<1>4. CASE Accept(k)
  BY <1>4, AcceptServer
<1>5. CASE Serve(k)
  BY <1>5, ServeServer
<1>6. CASE PushFails(k)
  BY <1>6, RaisesNotLive, ForgetServer DEF PushFails, ClientId, link, ServerInv, ServerTyped
<1>7. CASE EndpointEnds(k)
  BY <1>7, EndpointEndsServer
<1>8. CASE Cut(k)
  <2>1. /\ UNCHANGED <<cs, server>> /\ net' = [net EXCEPT ![k] = FALSE]
        /\ up' = [up EXCEPT ![k] = <<>>] /\ pong' = [pong EXCEPT ![k] = FALSE]
    BY <1>8 DEF Cut
  <2>2. <<>> \in Seq(Message)
    OBVIOUS
  <2>3. up' \in [Slots -> Seq(Message)]
    BY <2>1, <2>2 DEF ServerInv, ServerTyped
  <2>4. ServerTyped'
    BY <2>1, <2>3 DEF ServerInv, ServerTyped, server
  <2>5. \A j \in Slots : Live(j)' => Live(j)
    BY <2>1 DEF Live, ServerInv, ServerTyped, server
  <2> QED
    BY <2>1, <2>4, <2>5, ServerFrame DEF server
<1> QED
  BY <1>1, <1>2, <1>3, <1>4, <1>5, <1>6, <1>7, <1>8 DEF SlotStep


LEMMA BroadcastsServer ==
  ASSUME ServerInv, TabInv', SubsTyped', Broadcasts
  PROVE  ServerInv'
<1> USE DEF ServerInv
<1>1. ASSUME UNCHANGED <<srv, conns, ssubs, client, link>>,
             cast' \in [on : BOOLEAN, left : SUBSET Slots, dead : SUBSET Slots],
             \A id \in cast'.left \cup cast'.dead : srv[id] # "none" \/ cs[id] = "none",
             \A id \in cast'.dead : ~Live(id)
      PROVE  ServerInv'
  <2>1. ServerTyped'
    BY <1>1 DEF ServerTyped, link
  <2>2. Registered' /\ Listed' /\ CastSound'
    BY <1>1 DEF Registered, Listed, CastSound, Live, link
  <2> QED
    BY <2>1, <2>2
<1>2. ASSUME NEW ch \in Channels \cup AutoChannels, CastStarts(ch) PROVE ServerInv'
  <2>1. cast' = [on |-> TRUE, left |-> ssubs[ch], dead |-> {}]
        /\ UNCHANGED <<srv, conns, ssubs, client, link>>
    BY <1>2 DEF CastStarts
  <2>2. ssubs[ch] \in SUBSET Slots /\ \A id \in ssubs[ch] : srv[id] = "up"
    BY DEF ServerTyped, Listed
  <2>3. cast' \in [on : BOOLEAN, left : SUBSET Slots, dead : SUBSET Slots]
    BY <2>1, <2>2
  <2> QED
    BY <1>1, <2>1, <2>2, <2>3
<1>3. ASSUME NEW id \in cast.left, CastSends(id) PROVE ServerInv'
  <2>1. UNCHANGED <<srv, conns, ssubs, client, link>> /\ id \in Slots
    BY <1>3 DEF CastSends, ServerTyped
  <2>2. /\ cast.on \in BOOLEAN /\ cast.left \in SUBSET Slots /\ cast.dead \in SUBSET Slots
        /\ cast = [on |-> cast.on, left |-> cast.left, dead |-> cast.dead]
    BY DEF ServerTyped
  <2>3. CASE (id \in DOMAIN conns => CanRaise(conns[id]))
             /\ cast' = [cast EXCEPT !.left = @ \ {id}, !.dead = @ \cup {id}]
    <3>1. ~Live(id)
      BY <2>1, <2>3, RaisesNotLive DEF Registered
    <3>2. cast' = [on |-> cast.on, left |-> cast.left \ {id}, dead |-> cast.dead \cup {id}]
      BY <2>2, <2>3
    <3> QED
      BY <1>1, <2>1, <2>2, <3>1, <3>2 DEF CastSound
  <2>4. CASE cast' = [cast EXCEPT !.left = @ \ {id}]
    <3>1. cast' = [on |-> cast.on, left |-> cast.left \ {id}, dead |-> cast.dead]
      BY <2>2, <2>4
    <3> QED
      BY <1>1, <2>1, <2>2, <3>1 DEF CastSound
  <2> QED
    BY <1>3, <2>3, <2>4 DEF CastSends
<1>4. CASE CastEnds
  <2>1. Forget(cast.dead) /\ cast' = NoCast /\ UNCHANGED <<srv, cs, net, up, pong>>
    BY <1>4 DEF CastEnds, link
  <2>2. cast.dead \in SUBSET Slots /\ \A id \in cast.dead : ~Live(id)
    BY DEF ServerTyped, CastSound
  <2> QED
    BY <2>1, <2>2, ForgetServer DEF ServerTyped
<1> HIDE DEF ServerInv
<1> QED
  BY <1>2, <1>3, <1>4 DEF Broadcasts

LEMMA RestartServer ==
  ASSUME ServerInv, TabInv', SubsTyped', Restart
  PROVE  ServerInv'
<1> USE DEF ServerInv
<1>1. /\ srv' = [k \in Slots |-> IF cs[k] = "none" THEN "none"
                                 ELSE IF k \in Up THEN "over" ELSE srv[k]]
      /\ up' = [k \in Slots |-> IF k \in Up THEN <<>> ELSE up[k]]
      /\ net' = [k \in Slots |-> net[k] \/ cs[k] = "none"]
      /\ conns' = <<>> /\ cast' = NoCast /\ UNCHANGED pong
  BY DEF Restart
<1>2. ssubs' = [ch \in Channels \cup AutoChannels |-> {}]
  BY DEF Restart, ServerTyped
<1>3. \A k \in Slots : srv'[k] # "up"
  BY <1>1 DEF Up, ServerTyped
<1>4. ServerTyped'
  <2>1. conns' = [id \in DOMAIN conns' |-> id] /\ DOMAIN conns' \subseteq Slots
    BY <1>1
  <2>2. ssubs' \in [Channels \cup AutoChannels -> SUBSET Slots]
    BY <1>2
  <2>3. <<>> \in Seq(Message)
    OBVIOUS
  <2>4. up' \in [Slots -> Seq(Message)]
    BY <1>1, <2>3 DEF ServerTyped
  <2>5. srv' \in [Slots -> {"none", "up", "over"}] /\ net' \in [Slots -> BOOLEAN]
    BY <1>1 DEF ServerTyped
  <2>6. cast' \in [on : BOOLEAN, left : SUBSET Slots, dead : SUBSET Slots]
    BY <1>1 DEF NoCast
  <2> QED
    BY <1>1, <2>1, <2>2, <2>4, <2>5, <2>6 DEF ServerTyped
<1>5. Registered'
  BY <1>3 DEF Registered, Live
<1>6. Listed'
  BY <1>2 DEF Listed
<1>7. CastSound'
  BY <1>1 DEF CastSound, NoCast
<1> QED
  BY <1>4, <1>5, <1>6, <1>7

LEMMA NextServer == ServerInv /\ [Next]_vars => ServerInv'
<1> SUFFICES ASSUME ServerInv, [Next]_vars PROVE ServerInv'
  OBVIOUS
<1>1. TabInv' /\ SubsTyped'
  BY NextTab, SubsKept DEF ServerInv
<1>2. CASE UNCHANGED vars
  <2>1. UNCHANGED <<srv, conns, ssubs, cast, cs, net, up, pong>>
    BY <1>2 DEF vars, link, server
  <2>2. ServerTyped'
    BY <2>1 DEF ServerInv, ServerTyped
  <2> QED
    BY <1>1, <2>1, <2>2, ServerFrame DEF Live
<1> QED
  BY <1>1, <1>2, TabStepServer, SlotStepServer, BroadcastsServer, RestartServer DEF Next

LEMMA ServerInvariance == Spec => []ServerInv
  BY InitServer, NextServer, PTL DEF Spec

\* The manager forgets the dead and only them, however late finally clauses and
\* broadcasts with an old list of subscribers are (manager.py:29-66).
THEOREM ForgetsOnlyDead == Spec => []ServerForgetsOnlyDead
<1>1. ServerInv => ServerForgetsOnlyDead
  <2> SUFFICES ASSUME ServerInv PROVE ServerForgetsOnlyDead
    OBVIOUS
  <2>1. \A k \in Up : k \in Slots /\ srv[k] = "up"
    BY DEF Up
  <2>2. \A k \in Up : cs[k] \in {"connecting", "open"} /\ net[k] =>
          k \in DOMAIN conns /\ conns[k] = k /\ \A ch \in AutoChannels : k \in ssubs[ch]
    BY <2>1 DEF ServerInv, ServerTyped, Registered, Live
  <2>3. \A ch \in DOMAIN ssubs : ssubs[ch] \subseteq {ClientId(k) : k \in Up}
    BY DEF ServerInv, ServerTyped, Listed, ClientId, Up
  <2> QED
    BY <2>2, <2>3 DEF ServerForgetsOnlyDead, ClientId
<1> QED
  BY <1>1, ServerInvariance, PTL

\* Every variable of the link keeps its type, and the tab's own socket is never one
\* that has been given up.
THEOREM LinkTyped == Spec => []TypeOK
<1>1. ServerInv => TypeOK
  <2> SUFFICES ASSUME ServerInv PROVE TypeOK
    OBVIOUS
  <2>1. {ClientId(k) : k \in Slots} = Slots
    BY DEF ClientId
  <2>2. \A id \in DOMAIN conns : conns[id] \in Slots
    BY DEF ServerInv, ServerTyped
  <2> QED
    BY <2>1, <2>2
       DEF ServerInv, ServerTyped, SubsTyped, TabInv, TabTyped, States, TypeOK
<1> QED
  BY <1>1, ServerInvariance, PTL


-----------------------------------------------------------------------------
(***************************************************************************)
(* The subscriptions.                                                      *)
(***************************************************************************)

\* A message about a channel.
About(m, ch) == m.type # "ping" /\ m.channel = ch

\* What the server will have listed once it has served the queue is what is wanted:
\* the last message about the channel decides, or the list if there is none.
Leads(q, ch, listed, wanted) ==
  /\ (\A i \in 1..Len(q) : ~About(q[i], ch)) => (wanted <=> listed)
  /\ \A i \in 1..Len(q) :
       About(q[i], ch) /\ (\A j \in (i + 1)..Len(q) : ~About(q[j], ch))
         => (q[i].type = "subscribe" <=> wanted)

\* A message about another channel changes nothing.
LEMMA LeadsAppendOther ==
  ASSUME NEW q \in Seq(Message), NEW m \in Message, NEW ch, NEW listed, NEW wanted,
         ~About(m, ch), Leads(q, ch, listed, wanted)
  PROVE  Leads(Append(q, m), ch, listed, wanted)
<1> DEFINE r == Append(q, m)
<1>1. /\ Len(r) = Len(q) + 1 /\ Len(q) \in Nat /\ r[Len(q) + 1] = m
      /\ \A i \in 1..Len(q) : r[i] = q[i]
  OBVIOUS
<1> HIDE DEF r
<1>2. ASSUME \A i \in 1..Len(r) : ~About(r[i], ch) PROVE wanted <=> listed
  <2>1. \A i \in 1..Len(q) : i \in 1..Len(r) /\ ~About(q[i], ch)
    BY <1>1, <1>2
  <2> QED
    BY <2>1 DEF Leads
<1>3. ASSUME NEW i \in 1..Len(r), About(r[i], ch),
             \A j \in (i + 1)..Len(r) : ~About(r[j], ch)
      PROVE  r[i].type = "subscribe" <=> wanted
  <2>1. i \in 1..Len(q) /\ r[i] = q[i]
    BY <1>1, <1>3
  <2>2. \A j \in (i + 1)..Len(q) : j \in (i + 1)..Len(r) /\ r[j] = q[j]
    BY <1>1, <2>1
  <2>3. \A j \in (i + 1)..Len(q) : ~About(q[j], ch)
    BY <1>3, <2>2
  <2> QED
    BY <1>3, <2>1, <2>3 DEF Leads
<1>4. Leads(r, ch, listed, wanted)
  BY <1>2, <1>3 DEF Leads
<1> QED
  BY <1>4 DEF r

\* The message sent last decides.
LEMMA LeadsAppend ==
  ASSUME NEW q \in Seq(Message), NEW m \in Message, NEW ch, NEW listed, NEW wanted,
         About(m, ch), m.type = "subscribe" <=> wanted
  PROVE  Leads(Append(q, m), ch, listed, wanted)
<1> DEFINE r == Append(q, m)
<1>1. Len(r) = Len(q) + 1 /\ Len(q) \in Nat /\ r[Len(q) + 1] = m
  OBVIOUS
<1> HIDE DEF r
<1>2. ~(\A i \in 1..Len(r) : ~About(r[i], ch))
  BY <1>1
<1>3. ASSUME NEW i \in 1..Len(r), About(r[i], ch),
             \A j \in (i + 1)..Len(r) : ~About(r[j], ch)
      PROVE  r[i].type = "subscribe" <=> wanted
  <2>1. i = Len(q) + 1
    BY <1>1, <1>3
  <2> QED
    BY <1>1, <2>1
<1>4. Leads(r, ch, listed, wanted)
  BY <1>2, <1>3 DEF Leads
<1> QED
  BY <1>4 DEF r

\* Serving a message about another channel.
LEMMA LeadsTailOther ==
  ASSUME NEW q \in Seq(Message), q # <<>>, NEW ch, NEW listed, NEW wanted,
         ~About(Head(q), ch), Leads(q, ch, listed, wanted)
  PROVE  Leads(Tail(q), ch, listed, wanted)
<1> DEFINE r == Tail(q)
<1>1. /\ Len(q) \in Nat /\ Len(q) = Len(r) + 1 /\ Len(r) \in Nat /\ Head(q) = q[1]
      /\ \A i \in 1..Len(r) : r[i] = q[i + 1]
  OBVIOUS
<1> HIDE DEF r
<1>2. ASSUME \A i \in 1..Len(r) : ~About(r[i], ch) PROVE wanted <=> listed
  <2>1. ASSUME NEW i \in 1..Len(q) PROVE ~About(q[i], ch)
    <3>1. CASE i = 1
      BY <1>1, <3>1
    <3>2. CASE i # 1
      <4>1. (i - 1) \in 1..Len(r) /\ r[i - 1] = q[i]
        BY <1>1, <3>2
      <4> QED
        BY <1>2, <4>1
    <3> QED
      BY <3>1, <3>2
  <2> QED
    BY <2>1 DEF Leads
<1>3. ASSUME NEW i \in 1..Len(r), About(r[i], ch),
             \A j \in (i + 1)..Len(r) : ~About(r[j], ch)
      PROVE  r[i].type = "subscribe" <=> wanted
  <2>1. (i + 1) \in 1..Len(q) /\ q[i + 1] = r[i]
    BY <1>1
  <2>2. ASSUME NEW j \in ((i + 1) + 1)..Len(q) PROVE ~About(q[j], ch)
    <3>1. (j - 1) \in (i + 1)..Len(r) /\ r[j - 1] = q[j]
      BY <1>1
    <3> QED
      BY <1>3, <3>1
  <2>3. q[i + 1].type = "subscribe" <=> wanted
    BY <1>3, <2>1, <2>2 DEF Leads
  <2> QED
    BY <2>1, <2>3
<1>4. Leads(r, ch, listed, wanted)
  BY <1>2, <1>3 DEF Leads
<1> QED
  BY <1>4 DEF r

\* Serving a message about the channel lists what it says.
LEMMA LeadsTail ==
  ASSUME NEW q \in Seq(Message), q # <<>>, NEW ch, NEW listed, NEW wanted, NEW after,
         About(Head(q), ch), Leads(q, ch, listed, wanted), Head(q).type = "subscribe" <=> after
  PROVE  Leads(Tail(q), ch, after, wanted)
<1> DEFINE r == Tail(q)
<1>1. /\ Len(q) \in Nat /\ Len(q) = Len(r) + 1 /\ Len(r) \in Nat /\ Head(q) = q[1]
      /\ \A i \in 1..Len(r) : r[i] = q[i + 1]
  OBVIOUS
<1> HIDE DEF r
<1>2. ASSUME \A i \in 1..Len(r) : ~About(r[i], ch) PROVE wanted <=> after
  <2>1. ASSUME NEW i \in (1 + 1)..Len(q) PROVE ~About(q[i], ch)
    <3>1. (i - 1) \in 1..Len(r) /\ r[i - 1] = q[i]
      BY <1>1
    <3> QED
      BY <1>2, <3>1
  <2>2. 1 \in 1..Len(q)
    BY <1>1
  <2>3. q[1].type = "subscribe" <=> wanted
    BY <1>1, <2>1, <2>2 DEF Leads
  <2> QED
    BY <1>1, <2>3
<1>3. ASSUME NEW i \in 1..Len(r), About(r[i], ch),
             \A j \in (i + 1)..Len(r) : ~About(r[j], ch)
      PROVE  r[i].type = "subscribe" <=> wanted
  <2>1. (i + 1) \in 1..Len(q) /\ q[i + 1] = r[i]
    BY <1>1
  <2>2. ASSUME NEW j \in ((i + 1) + 1)..Len(q) PROVE ~About(q[j], ch)
    <3>1. (j - 1) \in (i + 1)..Len(r) /\ r[j - 1] = q[j]
      BY <1>1
    <3> QED
      BY <1>3, <3>1
  <2>3. q[i + 1].type = "subscribe" <=> wanted
    BY <1>3, <2>1, <2>2 DEF Leads
  <2> QED
    BY <2>1, <2>3
<1>4. Leads(r, ch, after, wanted)
  BY <1>2, <1>3 DEF Leads
<1> QED
  BY <1>4 DEF r

\* The tab's own socket, working at both ends.
Linked(k) == ws = k /\ cs[k] = "open" /\ net[k] /\ srv[k] = "up"

\* Nothing is under way to an endpoint that is not there.
Clean == \A k \in Slots : srv[k] # "up" => up[k] = <<>>

\* A socket that still opens has said nothing and is on no list of the pages' channels.
Fresh ==
  \A k \in Slots : cs[k] = "connecting" =>
    up[k] = <<>> /\ \A ch \in Channels : k \notin ssubs[ch]

Agree ==
  \A k \in Slots, ch \in Channels :
    Linked(k) => Leads(up[k], ch, k \in ssubs[ch], ch \in subs)

SubsInv == ServerInv /\ Clean /\ Fresh /\ Agree

LEMMA InitSubs == Init => SubsInv
<1> SUFFICES ASSUME Init PROVE SubsInv
  OBVIOUS
<1>1. \A k \in Slots : srv[k] = "none" /\ cs[k] = "none" /\ up[k] = <<>>
  BY DEF Init
<1> QED
  BY <1>1, InitServer DEF SubsInv, Clean, Fresh, Agree, Linked

\* A step that neither sends nor serves for a link that works before and after it.
LEMMA SubsFrame ==
  ASSUME SubsInv, ServerInv', subs' = subs,
         \A k \in Slots : Linked(k)' => Linked(k) /\ up'[k] = up[k],
         \A k \in Slots : up'[k] = up[k] \/ up'[k] = <<>>,
         \A k \in Slots : srv'[k] # "up" => srv[k] # "up" \/ up'[k] = <<>>,
         \A k \in Slots : cs'[k] = "connecting" => cs[k] = "connecting" \/ Free(k),
         \A k \in Slots, ch \in Channels :
           /\ k \in ssubs'[ch] => k \in ssubs[ch]
           /\ k \in ssubs[ch] => k \in ssubs'[ch] \/ ~Linked(k)'
  PROVE  SubsInv'
<1>1. Clean'
  BY DEF SubsInv, Clean
<1>2. Fresh'
  BY DEF SubsInv, Fresh, Clean, Free, ServerInv, Listed
<1>3. ASSUME NEW k \in Slots, NEW ch \in Channels, Linked(k)'
      PROVE  Leads(up[k], ch, k \in ssubs[ch], ch \in subs)'
  <2>1. Linked(k) /\ up'[k] = up[k] /\ (k \in ssubs'[ch] <=> k \in ssubs[ch])
    BY <1>3
  <2>2. Leads(up[k], ch, k \in ssubs[ch], ch \in subs)
    BY <2>1 DEF SubsInv, Agree
  <2> QED
    BY <2>1, <2>2 DEF Leads
<1> QED
  BY <1>1, <1>2, <1>3 DEF SubsInv, Agree

\* A message of the tab.
LEMMA SendSubs ==
  ASSUME SubsInv, ServerInv', NEW m \in Message, Send(m),
         UNCHANGED <<ws, cs, net, srv, ssubs>>,
         \A ch \in Channels : IF About(m, ch) THEN m.type = "subscribe" <=> ch \in subs'
                              ELSE ch \in subs' <=> ch \in subs
  PROVE  SubsInv'
<1> USE DEF SubsInv
<1>0. up \in [Slots -> Seq(Message)]
  BY DEF ServerInv, ServerTyped
<1>1. CASE up' = up /\ \A k \in Slots : ~Linked(k)
  BY <1>1 DEF Clean, Fresh, Agree, Linked
<1>2. ASSUME NEW k \in Slots, Linked(k), up' = [up EXCEPT ![k] = Append(up[k], m)]
      PROVE  SubsInv'
  <2>1. up'[k] = Append(up[k], m) /\ \A j \in Slots \ {k} : up'[j] = up[j]
    BY <1>0, <1>2
  <2>2. Clean'
    BY <1>2, <2>1 DEF Clean, Linked
  <2>3. Fresh'
    BY <1>2, <2>1 DEF Fresh, Linked
  <2>4. ASSUME NEW ch \in Channels
        PROVE  Leads(Append(up[k], m), ch, k \in ssubs[ch], ch \in subs')
    <3>1. up[k] \in Seq(Message) /\ Leads(up[k], ch, k \in ssubs[ch], ch \in subs)
      BY <1>0, <1>2 DEF Agree
    <3>2. CASE About(m, ch)
      BY <3>1, <3>2, LeadsAppend
    <3>3. CASE ~About(m, ch)
      <4>1. Leads(Append(up[k], m), ch, k \in ssubs[ch], ch \in subs)
        BY <3>1, <3>3, LeadsAppendOther
      <4> QED
        BY <3>3, <4>1 DEF Leads
    <3> QED
      BY <3>2, <3>3
  <2>5. \A j \in Slots : Linked(j)' => j = k
    BY <1>2 DEF Linked
  <2>6. Agree'
    BY <2>1, <2>4, <2>5 DEF Agree
  <2> QED
    BY <2>2, <2>3, <2>6
<1>3. CASE ws # None /\ cs[ws] = "open" /\ net[ws] /\ srv[ws] = "up"
  <2>1. ws \in Slots
    BY <1>3, TabSlot DEF ServerInv
  <2> QED
    BY <1>2, <1>3, <2>1 DEF Send, Linked
<1>4. CASE ~(ws # None /\ cs[ws] = "open" /\ net[ws] /\ srv[ws] = "up")
  BY <1>1, <1>4, SocketAssumption DEF Send, Linked
<1> QED
  BY <1>3, <1>4


\* A new socket is told of every channel, in any order.
LEMMA OpensSubs ==
  ASSUME SubsInv, ServerInv', NEW k \in Slots, Opens(k)
  PROVE  SubsInv'
<1> USE DEF SubsInv
<1>1. /\ cs[k] = "connecting" /\ srv[k] = "up" /\ cs' = [cs EXCEPT ![k] = "open"]
      /\ UNCHANGED <<ws, subs, net, srv, ssubs>>
  BY DEF Opens, server
<1>2. /\ cs \in [Slots -> States] /\ up \in [Slots -> Seq(Message)]
      /\ subs \subseteq Channels /\ Cardinality(subs) \in Nat
  BY FS_CardinalityType DEF ServerInv, ServerTyped, SubsTyped, TabInv, TabTyped
<1>3. up[k] = <<>> /\ \A ch \in Channels : k \notin ssubs[ch]
  BY <1>1 DEF Fresh
<1>4. CASE ws # k
  <2>1. up' = up
    BY <1>4 DEF Opens
  <2>2. \A j \in Slots : Linked(j)' => Linked(j)
    BY <1>1, <1>2, <1>4 DEF Linked
  <2>3. \A j \in Slots : cs'[j] = "connecting" => cs[j] = "connecting"
    BY <1>1, <1>2
  <2> QED
    BY <1>1, <2>1, <2>2, <2>3, SubsFrame
<1>5. CASE ws = k
  <2> DEFINE n == Cardinality(subs)
             told(order) == [i \in DOMAIN order |-> [type |-> "subscribe", channel |-> order[i]]]
  <2>1. PICK order \in [1..n -> subs] :
               (\A ch \in subs : \E i \in DOMAIN order : order[i] = ch)
               /\ up' = [up EXCEPT ![k] = told(order)]
    BY <1>5 DEF Opens, ToRestore
  <2>2. n \in Nat
    BY <1>2
  <2> HIDE DEF n
  <2>3. /\ told(order) \in Seq(Message) /\ Len(told(order)) = n
        /\ \A i \in 1..n : told(order)[i] = [type |-> "subscribe", channel |-> order[i]]
    <3>1. told(order) \in [1..n -> Message]
      BY <1>2, <2>2 DEF Message
    <3>2. DOMAIN told(order) = 1..n
      BY <2>1
    <3>3. \A i \in 1..n : told(order)[i] = [type |-> "subscribe", channel |-> order[i]]
      BY <2>1
    <3> HIDE DEF told
    <3> QED
      BY <2>2, <3>1, <3>2, <3>3
  <2> DEFINE q == told(order)
  <2>4. up'[k] = q /\ \A j \in Slots \ {k} : up'[j] = up[j]
    BY <1>2, <2>1
  <2> HIDE DEF told, q
  <2>5. ASSUME NEW ch \in Channels PROVE Leads(q, ch, k \in ssubs[ch], ch \in subs)
    <3>1. Len(q) = n /\ \A i \in 1..n : q[i].type = "subscribe" /\ q[i].channel = order[i]
      BY <2>3 DEF q
    <3>2. \A i \in 1..n : About(q[i], ch) <=> order[i] = ch
      BY <3>1 DEF About
    <3>3. ch \in subs <=> \E i \in 1..n : order[i] = ch
      BY <2>1
    <3> QED
      BY <1>3, <3>1, <3>2, <3>3 DEF Leads
  <2>6. \A j \in Slots : Linked(j)' => j = k
    BY <1>1, <1>5 DEF Linked
  <2>7. Agree'
    BY <1>1, <2>4, <2>5, <2>6 DEF Agree
  <2>8. Clean' /\ Fresh'
    BY <1>1, <1>2, <2>4 DEF Clean, Fresh
  <2> QED
    BY <2>7, <2>8
<1> QED
  BY <1>4, <1>5

\* A message is served; its word on the channel is now the list's.
LEMMA ServeSubs ==
  ASSUME SubsInv, ServerInv', NEW k \in Slots, Serve(k)
  PROVE  SubsInv'
<1> USE DEF SubsInv
<1> DEFINE message == Head(up[k])
<1>1. UNCHANGED <<ws, subs, srv, cs, net>> /\ srv[k] = "up" /\ up[k] # <<>>
  BY DEF Serve, client
<1>2. up[k] \in Seq(Message) /\ message \in Message
      /\ up'[k] = Tail(up[k]) /\ \A j \in Slots \ {k} : up'[j] = up[j]
  <2>1. up \in [Slots -> Seq(Message)] /\ up' = [up EXCEPT ![k] = Tail(up[k])]
    BY DEF Serve, ServerInv, ServerTyped
  <2> QED
    BY <1>1, <2>1
<1>3. cs[k] # "connecting"
  BY <1>1 DEF Fresh
<1>4. Clean'
  BY <1>1, <1>2 DEF Clean
<1>5. ssubs \in [Channels \cup AutoChannels -> SUBSET Slots]
  BY DEF ServerInv, ServerTyped
<1> HIDE DEF message
<1>6. ASSUME \A ch \in Channels, j \in Slots \ {k} : j \in ssubs'[ch] <=> j \in ssubs[ch],
             \A ch \in Channels : Linked(k) =>
               Leads(Tail(up[k]), ch, k \in ssubs'[ch], ch \in subs)
      PROVE  SubsInv'
  <2>1. Fresh'
    BY <1>1, <1>2, <1>3, <1>6 DEF Fresh
  <2>2. ASSUME NEW j \in Slots, NEW ch \in Channels, Linked(j)'
        PROVE  Leads(up[j], ch, j \in ssubs[ch], ch \in subs)'
    <3>1. Linked(j)
      BY <1>1, <2>2 DEF Linked
    <3>2. CASE j = k
      BY <1>1, <1>2, <1>6, <3>1, <3>2
    <3>3. CASE j # k
      <4>1. up'[j] = up[j] /\ (j \in ssubs'[ch] <=> j \in ssubs[ch]) /\ subs' = subs
        BY <1>1, <1>2, <1>6, <3>3
      <4>2. Leads(up[j], ch, j \in ssubs[ch], ch \in subs)
        BY <3>1 DEF Agree
      <4> QED
        BY <4>1, <4>2 DEF Leads
    <3> QED
      BY <3>2, <3>3
  <2>3. Agree'
    BY <2>2 DEF Agree
  <2> QED
    BY <1>4, <2>1, <2>3
<1>7. ASSUME NEW ch \in Channels, ~About(message, ch), Linked(k)
      PROVE  Leads(Tail(up[k]), ch, k \in ssubs[ch], ch \in subs)
  <2>1. Leads(up[k], ch, k \in ssubs[ch], ch \in subs)
    BY <1>7 DEF Agree
  <2> QED
    BY <1>1, <1>2, <1>7, <2>1, LeadsTailOther DEF message
<1>8. ASSUME NEW ch \in Channels, NEW after, About(message, ch), Linked(k),
             message.type = "subscribe" <=> after
      PROVE  Leads(Tail(up[k]), ch, after, ch \in subs)
  <2>1. Leads(up[k], ch, k \in ssubs[ch], ch \in subs)
    BY <1>8 DEF Agree
  <2> QED
    BY <1>1, <1>2, <1>8, <2>1, LeadsTail DEF message
<1>9. ASSUME message.type = "ping",
             UNCHANGED ssubs \/ (~Linked(k) /\ ssubs' = Unlisted(ssubs, {k}))
      PROVE  SubsInv'
  <2>1. \A ch \in Channels : ~About(message, ch)
    BY <1>9 DEF About
  <2>2. \A ch \in Channels, j \in Slots \ {k} : j \in ssubs'[ch] <=> j \in ssubs[ch]
    BY <1>5, <1>9 DEF Unlisted
  <2> QED
    BY <1>6, <1>7, <1>9, <2>1, <2>2
<1>10. ASSUME message.type \in {"subscribe", "unsubscribe"},
              ssubs' = [ssubs EXCEPT ![message.channel] =
                          IF message.type = "subscribe" THEN @ \cup {k} ELSE @ \ {k}]
       PROVE  SubsInv'
  <2>1. message.channel \in Channels
    BY <1>2, <1>10 DEF Message
  <2>2. \A ch \in Channels, j \in Slots \ {k} : j \in ssubs'[ch] <=> j \in ssubs[ch]
    BY <1>5, <1>10, <2>1
  <2>3. ASSUME NEW ch \in Channels, Linked(k)
        PROVE  Leads(Tail(up[k]), ch, k \in ssubs'[ch], ch \in subs)
    <3>1. CASE ch = message.channel
      <4>1. About(message, ch)
        BY <1>10, <3>1 DEF About
      <4>2. message.type = "subscribe" <=> k \in ssubs'[ch]
        BY <1>5, <1>10, <2>1, <3>1
      <4> QED
        BY <1>8, <2>3, <4>1, <4>2
    <3>2. CASE ch # message.channel
      <4>1. ~About(message, ch)
        BY <3>2 DEF About
      <4>2. ssubs'[ch] = ssubs[ch]
        BY <1>5, <1>10, <3>2
      <4> QED
        BY <1>7, <2>3, <4>1, <4>2
    <3> QED
      BY <3>1, <3>2
  <2> QED
    BY <1>6, <2>2, <2>3
<1>11. \/ /\ message.type = "subscribe"
          /\ ssubs' = [ssubs EXCEPT ![message.channel] = @ \cup {k}]
       \/ /\ message.type = "unsubscribe"
          /\ ssubs' = [ssubs EXCEPT ![message.channel] = @ \ {k}]
       \/ message.type = "ping" /\ UNCHANGED ssubs
       \/ /\ message.type = "ping" /\ k \in DOMAIN conns /\ CanRaise(conns[k])
          /\ ssubs' = Unlisted(ssubs, {k})
  BY DEF Serve, message, ClientId, Forget
<1>12. k \in DOMAIN conns /\ CanRaise(conns[k]) => ~Linked(k)
  BY RaisesNotLive DEF Live, Linked
<1> QED
  BY <1>9, <1>10, <1>11, <1>12

\* Forgetting clients that are not live, with no other change to the link.
LEMMA ForgetSubs ==
  ASSUME SubsInv, ServerInv', NEW ids, \A id \in ids : ~Live(id), Forget(ids),
         UNCHANGED <<ws, subs, cs, net, srv, up>>
  PROVE  SubsInv'
<1>1. ssubs \in [Channels \cup AutoChannels -> SUBSET Slots]
  BY DEF SubsInv, ServerInv, ServerTyped
<1>2. \A ch \in Channels : ssubs'[ch] = ssubs[ch] \ ids
  BY <1>1 DEF Forget, Unlisted
<1>3. \A k \in Slots : Linked(k)' => Linked(k) /\ Live(k)
  BY DEF Linked, Live
<1> QED
  BY <1>2, <1>3, SubsFrame


\* The tab's timers, watchdog and heartbeat, and the pages.
LEMMA TabSubs ==
  ASSUME SubsInv, ServerInv', Tab \/ Pages
  PROVE  SubsInv'
<1>0. cs \in [Slots -> States] /\ ws \in Slots \cup {None} /\ watch \in Slots \cup {None}
  BY DEF SubsInv, ServerInv, TabInv, TabTyped
<1>1. ASSUME UNCHANGED <<subs, net, up, server>>,
             \A k \in Slots : cs'[k] = "open" /\ ws' = k => cs[k] = "open" /\ ws = k,
             \A k \in Slots : cs'[k] = "connecting" => cs[k] = "connecting" \/ Free(k)
      PROVE  SubsInv'
  <2>1. \A k \in Slots : Linked(k)' => Linked(k)
    BY <1>1 DEF Linked, server
  <2> QED
    BY <1>1, <2>1, SubsFrame DEF server
<1>2. CASE Connect \/ TimerFires
  <2>1. PICK k \in Slots : Free(k) /\ ws' = k /\ cs' = [cs EXCEPT ![k] = "connecting"]
    BY <1>2 DEF Connect, TimerFires, OpenSocket
  <2>2. UNCHANGED <<subs, net, up, server>>
    BY <1>2 DEF Connect, TimerFires, OpenSocket
  <2>3. cs'[k] = "connecting" /\ \A j \in Slots \ {k} : cs'[j] = cs[j]
    BY <1>0, <2>1
  <2> QED
    BY <1>1, <2>1, <2>2, <2>3
<1>3. CASE Disconnect
  <2>1. UNCHANGED <<subs, net, up, server>> /\ ws' = None
    BY <1>3 DEF Disconnect
  <2>2. \A j \in Slots : cs'[j] = cs[j] \/ cs'[j] = "detached"
    BY <1>0, <1>3 DEF Disconnect
  <2> QED
    BY <1>1, <2>1, <2>2, SocketAssumption
<1>4. CASE WatchdogFires
  <2>1. UNCHANGED <<ws, subs, net, up, server>>
    BY <1>4 DEF WatchdogFires
  <2>2. \A j \in Slots : cs'[j] = cs[j] \/ cs'[j] = "closing"
    BY <1>0, <1>4 DEF WatchdogFires
  <2> QED
    BY <1>1, <2>1, <2>2
<1>5. CASE Beat
  <2> DEFINE m == [type |-> "ping"]
  <2>1. m \in Message /\ \A ch \in Channels : ~About(m, ch)
    BY DEF Message, About
  <2>2. Send(m) /\ UNCHANGED <<ws, cs, net, srv, ssubs>> /\ subs' = subs
    BY <1>5 DEF Beat, server
  <2> HIDE DEF m
  <2> QED
    BY <2>1, <2>2, SendSubs
<1>6. ASSUME NEW ch \in Channels, Subscribe(ch) PROVE SubsInv'
  <2> DEFINE m == [type |-> "subscribe", channel |-> ch]
  <2>1. m \in Message /\ m.type = "subscribe" /\ \A c \in Channels : About(m, c) <=> c = ch
    BY DEF Message, About
  <2>2. Send(m) /\ UNCHANGED <<ws, cs, net, srv, ssubs>> /\ subs' = subs \cup {ch}
    BY <1>6 DEF Subscribe, server
  <2> HIDE DEF m
  <2> QED
    BY <2>1, <2>2, SendSubs
<1>7. ASSUME NEW ch \in Channels, Unsubscribe(ch) PROVE SubsInv'
  <2> DEFINE m == [type |-> "unsubscribe", channel |-> ch]
  <2>1. m \in Message /\ m.type # "subscribe" /\ \A c \in Channels : About(m, c) <=> c = ch
    BY DEF Message, About
  <2>2. Send(m) /\ UNCHANGED <<ws, cs, net, srv, ssubs>> /\ subs' = subs \ {ch}
    BY <1>7 DEF Unsubscribe, server
  <2> HIDE DEF m
  <2> QED
    BY <2>1, <2>2, SendSubs
<1> QED
  BY <1>2, <1>3, <1>4, <1>5, <1>6, <1>7 DEF Tab, Pages

\* Callbacks of the browser, steps of the endpoints and lost transports.
LEMMA SlotStepSubs ==
  ASSUME SubsInv, ServerInv', NEW k \in Slots, SlotStep(k)
  PROVE  SubsInv'
<1>0. /\ cs \in [Slots -> States] /\ up \in [Slots -> Seq(Message)]
      /\ net \in [Slots -> BOOLEAN] /\ srv \in [Slots -> {"none", "up", "over"}]
      /\ ws \in Slots \cup {None} /\ conns = [id \in DOMAIN conns |-> id]
      /\ DOMAIN conns \subseteq Slots
      /\ ssubs \in [Channels \cup AutoChannels -> SUBSET Slots]
  BY DEF SubsInv, ServerInv, ServerTyped, TabInv, TabTyped
<1>1. CASE Closes(k) \/ Resets(k)
  <2>1. HearClose(k)
    BY <1>1 DEF Closes, Resets
  <2>2. UNCHANGED <<subs, ssubs>> /\ cs' = [cs EXCEPT ![k] = "none"]
        /\ (ws' = ws \/ ws' = None)
    BY <2>1 DEF HearClose
  <2>3. cs'[k] = "none" /\ \A j \in Slots \ {k} : cs'[j] = cs[j]
    BY <1>0, <2>2
  <2>4. /\ \A j \in Slots \ {k} : srv'[j] = srv[j] /\ net'[j] = net[j] /\ up'[j] = up[j]
        /\ up'[k] = up[k] \/ up'[k] = <<>>
        /\ srv'[k] # "up" => srv[k] # "up" \/ up'[k] = <<>>
    <3>1. CASE srv[k] = "up"
      BY <2>1, <3>1 DEF HearClose
    <3>2. CASE srv[k] # "up"
      BY <1>0, <2>1, <3>2 DEF HearClose, Ended
    <3> QED
      BY <3>1, <3>2
  <2>5. \A j \in Slots : Linked(j)' => Linked(j) /\ up'[j] = up[j]
    BY <2>2, <2>3, <2>4, SocketAssumption DEF Linked
  <2> QED
    BY <2>2, <2>3, <2>4, <2>5, SubsFrame
<1>2. CASE ReceivePong(k)
  <2>1. UNCHANGED <<ws, subs, cs, net, up, srv, ssubs>>
    BY <1>2 DEF ReceivePong, server
  <2> QED
    BY <2>1, SubsFrame DEF Linked
<1>3. CASE Accept(k)
  <2>1. /\ srv[k] = "none" /\ cs[k] \in {"connecting", "detached"}
        /\ srv' = [srv EXCEPT ![k] = "up"] /\ UNCHANGED <<ws, subs, cs, net, up>>
    BY <1>3 DEF Accept, client, link
  <2>2. \A ch \in Channels : ssubs'[ch] = ssubs[ch]
    BY <1>0, <1>3, SocketAssumption DEF Accept
  <2>3. \A j \in Slots \ {k} : srv'[j] = srv[j]
    BY <1>0, <2>1
  <2>4. \A j \in Slots : Linked(j)' => Linked(j)
    BY <2>1, <2>3 DEF Linked
  <2>5. \A j \in Slots : srv'[j] # "up" => srv[j] # "up"
    BY <1>0, <2>1
  <2> QED
    BY <2>1, <2>2, <2>4, <2>5, SubsFrame
<1>4. CASE PushFails(k)
  <2>1. Forget({k}) /\ ~Live(k) /\ UNCHANGED <<ws, subs, cs, net, srv, up>>
    BY <1>4, RaisesNotLive DEF PushFails, ClientId, client, link, SubsInv
  <2> QED
    BY <2>1, ForgetSubs
<1>5. CASE EndpointEnds(k)
  <2>1. Forget({k}) /\ UNCHANGED <<ws, subs, cs>>
    BY <1>5 DEF EndpointEnds, ClientId, client
  <2>2. /\ srv'[k] # "up" /\ up'[k] = <<>>
        /\ \A j \in Slots \ {k} : srv'[j] = srv[j] /\ net'[j] = net[j] /\ up'[j] = up[j]
    BY <1>0, <1>5 DEF EndpointEnds, Ended
  <2>3. \A ch \in Channels : ssubs'[ch] = ssubs[ch] \ {k}
    BY <1>0, <2>1 DEF Forget, Unlisted
  <2>4. \A j \in Slots : Linked(j)' => j # k /\ Linked(j)
    BY <2>1, <2>2 DEF Linked
  <2> QED
    BY <2>1, <2>2, <2>3, <2>4, SubsFrame
<1>6. CASE Cut(k)
  <2>1. UNCHANGED <<ws, subs, cs, srv, ssubs>>
    BY <1>6 DEF Cut, client, server
  <2>2. /\ net'[k] = FALSE /\ up'[k] = <<>>
        /\ \A j \in Slots \ {k} : net'[j] = net[j] /\ up'[j] = up[j]
    BY <1>0, <1>6 DEF Cut
  <2>3. \A j \in Slots : Linked(j)' => j # k /\ Linked(j)
    BY <2>1, <2>2 DEF Linked
  <2> QED
    BY <2>1, <2>2, <2>3, SubsFrame
<1> QED
  BY <1>1, <1>2, <1>3, <1>4, <1>5, <1>6, OpensSubs, ServeSubs DEF SlotStep

\* Broadcasts forget the dead they found; a restart leaves no link.
LEMMA ServerSideSubs ==
  ASSUME SubsInv, ServerInv', Broadcasts \/ Restart
  PROVE  SubsInv'
<1>1. ASSUME UNCHANGED <<ws, subs, cs, net, srv, up, ssubs>> PROVE SubsInv'
  BY <1>1, SubsFrame DEF Linked
<1>2. CASE CastEnds
  <2>1. Forget(cast.dead) /\ UNCHANGED <<ws, subs, cs, net, srv, up>>
    BY <1>2 DEF CastEnds, client, link
  <2>2. \A id \in cast.dead : ~Live(id)
    BY DEF SubsInv, ServerInv, CastSound
  <2> QED
    BY <2>1, <2>2, ForgetSubs
<1>3. CASE Restart
  <2>1. UNCHANGED <<ws, subs, cs>>
    BY <1>3 DEF Restart, client
  <2>2. \A k \in Slots : srv'[k] # "up" /\ (up'[k] = up[k] \/ up'[k] = <<>>)
                         /\ (srv[k] = "up" => up'[k] = <<>>)
    BY <1>3 DEF Restart, Up
  <2>3. \A ch \in Channels : ssubs'[ch] = {}
    BY <1>3 DEF Restart, SubsInv, ServerInv, ServerTyped
  <2>4. \A k \in Slots : ~Linked(k)'
    BY <2>2 DEF Linked
  <2> QED
    BY <2>1, <2>2, <2>3, <2>4, SubsFrame
<1> QED
  BY <1>1, <1>2, <1>3 DEF Broadcasts, CastStarts, CastSends, client, link

LEMMA NextSubs == SubsInv /\ [Next]_vars => SubsInv'
<1> SUFFICES ASSUME SubsInv, [Next]_vars PROVE SubsInv'
  OBVIOUS
<1>1. ServerInv'
  BY NextServer DEF SubsInv
<1>2. CASE UNCHANGED vars
  <2>1. UNCHANGED <<ws, subs, cs, net, srv, up, ssubs>>
    BY <1>2 DEF vars, client, link, server
  <2> QED
    BY <1>1, <2>1, SubsFrame DEF Linked
<1> QED
  BY <1>1, <1>2, TabSubs, SlotStepSubs, ServerSideSubs DEF Next

\* Across reconnects, lost transports and restarts, a link that has caught up is
\* subscribed to exactly what the pages want (websocket.ts:54-55).
THEOREM SubscriptionsAgreeAlways == Spec => []SubscriptionsAgree
<1>1. SubsInv => SubscriptionsAgree
  <2> SUFFICES ASSUME SubsInv, NEW k \in Slots, NEW ch \in Channels,
                      Linked(k), up[k] = <<>>
               PROVE  ch \in subs <=> ClientId(k) \in ssubs[ch]
    BY DEF SubscriptionsAgree, Linked
  <2>1. Leads(<<>>, ch, k \in ssubs[ch], ch \in subs)
    BY DEF SubsInv, Agree
  <2> QED
    BY <2>1 DEF Leads, ClientId
<1> QED
  BY <1>1, InitSubs, NextSubs, PTL DEF Spec

=============================================================================
