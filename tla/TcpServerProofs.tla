--------------------------- MODULE TcpServerProofs ---------------------------
(***************************************************************************)
(* What becomes of a connection that nothing activates.  The library never *)
(* sets TcpConnection::running_, close() returns at once while it is false,*)
(* and only close() asks the server to forget a connection.  So, whatever  *)
(* the peers, the users and the owner do, such a connection stays in       *)
(* TcpServer::connections_ for good.                                       *)
(*                                                                         *)
(* The property is about one step and is not inductive: RemoveConnection   *)
(* removes whatever its trigger event names.  CloseOnlyActivated follows   *)
(* the name back to the test of running_.                                  *)
(***************************************************************************)
EXTENDS TcpServer, FiniteSetTheorems, TLAPS

Places == {"trigger", "poll", "dispatch", "handle", "add", "setcb", "close", "remove"}

LoopType == [at : Places, conn : Clients \cup {Listener},
             events : SUBSET {"IN", "OUT", "HUP"}, trigger : BOOLEAN]

\* The types of the variables that carry a connection's name to its removal.
CarrierTypes ==
  /\ trigger_events_ \in Seq([op : {"close", "remove"}, conn : Clients])
  /\ loop \in LoopType
  /\ user \in [Users -> [at : {"idle", "write", "close"}, conn : Clients \cup {Listener}]]
  /\ swept \subseteq Clients /\ connections_ \subseteq Clients /\ queue \subseteq Clients
  /\ channels_ \subseteq Clients \cup {Listener}
  /\ event_list \subseteq [conn : Clients \cup {Listener},
                           events : SUBSET {"IN", "OUT", "HUP"}]
  /\ loop.at \in {"add", "close", "remove"} => loop.conn \in Clients
  /\ \A u \in Users : user[u].at # "idle" => user[u].conn \in Clients

\* Only an activated connection is alive, is closed, or is named by the posted
\* event that removes it.
CloseOnlyActivated ==
  /\ alive \subseteq Activated
  /\ \A i \in 1 .. Len(trigger_events_) :
       trigger_events_[i].op = "remove" => trigger_events_[i].conn \in Activated
  /\ loop.at \in {"close", "remove"} => loop.conn \in Activated
  /\ \A u \in Users : user[u].at = "close" => user[u].conn \in Activated

Inv == CarrierTypes /\ CloseOnlyActivated

Event == [op : {"close", "remove"}, conn : Clients]

-----------------------------------------------------------------------------
\* A posted event joins the others at the end.
LEMMA Posted ==
  ASSUME NEW s \in Seq(Event), NEW e \in Event
  PROVE  /\ Append(s, e) \in Seq(Event)
         /\ \A i \in 1 .. Len(Append(s, e)) :
              Append(s, e)[i] = e \/ (i \in 1 .. Len(s) /\ Append(s, e)[i] = s[i])
  OBVIOUS

\* Taking the first event leaves the others.
LEMMA Taken ==
  ASSUME NEW s \in Seq(Event), s # <<>>
  PROVE  /\ Head(s) = s[1] /\ 1 \in 1 .. Len(s) /\ Head(s) \in Event
         /\ Tail(s) \in Seq(Event)
         /\ \A i \in 1 .. Len(Tail(s)) : i + 1 \in 1 .. Len(s) /\ Tail(s)[i] = s[i + 1]
  OBVIOUS

\* TcpConnection::close on an activated connection posts at most the removal
\* of that connection.
LEMMA Closing ==
  ASSUME Inv, NEW c \in Clients \cap Activated, CloseEffects(c)
  PROVE  /\ trigger_events_' \in Seq(Event)
         /\ \A i \in 1 .. Len(trigger_events_') :
              trigger_events_'[i].op = "remove" => trigger_events_'[i].conn \in Activated
         /\ alive' \subseteq Activated
         /\ channels_' \subseteq Clients \cup {Listener}
<1>1. trigger_events_ \in Seq(Event)
  BY DEF Inv, CarrierTypes, Event
<1>2. \A i \in 1 .. Len(trigger_events_) :
        trigger_events_[i].op = "remove" => trigger_events_[i].conn \in Activated
  BY DEF Inv, CloseOnlyActivated
<1>3. CASE c \in callback
  <2> DEFINE e == [op |-> "remove", conn |-> c]
  <2>1. e \in Event
    BY DEF Event
  <2>2. trigger_events_' = Append(trigger_events_, e)
    BY <1>3 DEF CloseEffects
  <2>3. e.conn \in Activated
    OBVIOUS
  <2> HIDE DEF e
  <2>4. trigger_events_' \in Seq(Event)
    BY <1>1, <2>1, <2>2, Posted
  <2>5. ASSUME NEW i \in 1 .. Len(trigger_events_'), trigger_events_'[i].op = "remove"
        PROVE  trigger_events_'[i].conn \in Activated
    BY <1>1, <1>2, <2>1, <2>2, <2>3, <2>5, Posted
  <2> QED
    BY <2>4, <2>5 DEF CloseEffects, Inv, CarrierTypes, CloseOnlyActivated
<1>4. CASE c \notin callback
  BY <1>1, <1>2, <1>4 DEF CloseEffects, Inv, CarrierTypes, CloseOnlyActivated
<1> QED
  BY <1>3, <1>4

\* Where the loop goes next carries no name that is closed or removed.
LEMMA AtType ==
  ASSUME NEW place \in Places
  PROVE  At(place) \in LoopType /\ At(place).at = place
  BY DEF At, LoopType

\* The fields that the loop sets when it takes an event.
LEMMA AtIs ==
  ASSUME NEW op
  PROVE  At(op).at = op
<1>1. At(op) = [at |-> op, conn |-> Listener, events |-> {}, trigger |-> FALSE]
  BY DEF At
<1> QED
  BY <1>1

LEMMA TriggerTaken ==
  ASSUME NEW op, NEW c, loop' = [At(op) EXCEPT !.conn = c, !.trigger = TRUE]
  PROVE  loop'.at = op /\ loop'.conn = c
<1>1. loop' = [at |-> op, conn |-> c, events |-> {}, trigger |-> TRUE]
  BY DEF At
<1> QED
  BY ONLY <1>1

LEMMA EventTaken ==
  ASSUME NEW c, NEW es, loop' = [At("handle") EXCEPT !.conn = c, !.events = es]
  PROVE  loop'.at = "handle" /\ loop'.conn = c /\ ~ loop'.trigger
<1>1. loop' = [at |-> "handle", conn |-> c, events |-> es, trigger |-> FALSE]
  BY DEF At
<1> QED
  BY ONLY <1>1

LEMMA AfterType ==
  ASSUME loop \in LoopType, NEW e
  PROVE  After(e) \in LoopType /\ After(e).at \in {"dispatch", "handle"}
<1>1. CASE loop.events = {e}
  BY <1>1, AtType DEF After, Places
<1>2. CASE loop.events # {e}
  <2>1. loop.events \ {e} \in SUBSET {"IN", "OUT", "HUP"}
    BY DEF LoopType
  <2>2. After(e) = [loop EXCEPT !.at = "handle", !.events = loop.events \ {e}]
    BY <1>2 DEF After
  <2> QED
    BY <2>1, <2>2 DEF LoopType, Places
<1> QED
  BY <1>1, <1>2

\* A step of the loop that moves only the loop and the peers, and goes to a
\* place that carries no name, keeps the invariant.
LEMMA Moving ==
  ASSUME Inv,
         loop' \in LoopType, loop'.at \notin {"add", "close", "remove"},
         event_list' \subseteq [conn : Clients \cup {Listener},
                                events : SUBSET {"IN", "OUT", "HUP"}],
         queue' \subseteq queue, connections_' \subseteq Clients,
         UNCHANGED <<trigger_events_, user, swept, channels_, alive>>
  PROVE  Inv'
  BY DEF Inv, CarrierTypes, CloseOnlyActivated

-----------------------------------------------------------------------------
\* The server starts with no connection and nothing posted.
LEMMA InitInv == Init => Inv
  BY ServerAssumption DEF Init, Inv, CarrierTypes, CloseOnlyActivated, At, IdleUser, Places,
                           LoopType

\* The steps of peers and of the owner.
LEMMA OthersKeepInv ==
  ASSUME Inv,
         Start \/ StopSweep \/ Stopping
           \/ \E c \in Clients : Connect(c) \/ PeerSends(c) \/ PeerSendsUrgent(c)
  PROVE  Inv'
<1> USE DEF Inv, CarrierTypes, CloseOnlyActivated, loopVars, connVars, peerVars, serverVars
<1>1. CASE Start
  BY <1>1 DEF Start
<1>2. CASE StopSweep
  BY <1>2 DEF StopSweep
<1>3. CASE SweepDone
  BY <1>3 DEF SweepDone
<1>4. CASE CloseAcceptor
  BY <1>4 DEF CloseAcceptor
<1>5. CASE StopReturn
  BY <1>5 DEF StopReturn
<1>6. ASSUME NEW c \in Clients, Disconnect(c)
      PROVE  Inv'
  <2> DEFINE e == [op |-> "close", conn |-> c]
  <2>1. trigger_events_ \in Seq(Event) /\ e \in Event
    BY DEF Event
  <2>2. trigger_events_' = Append(trigger_events_, e) /\ e.op # "remove"
    BY <1>6 DEF Disconnect
  <2> HIDE DEF e
  <2>3. trigger_events_' \in Seq(Event)
    BY <2>1, <2>2, Posted
  <2>4. ASSUME NEW i \in 1 .. Len(trigger_events_'), trigger_events_'[i].op = "remove"
        PROVE  trigger_events_'[i].conn \in Activated
    BY <2>1, <2>2, <2>4, Posted
  <2> QED
    BY <1>6, <2>3, <2>4 DEF Disconnect, Event
<1>7. ASSUME NEW c \in Clients, Connect(c) \/ PeerSends(c) \/ PeerSendsUrgent(c)
      PROVE  Inv'
  BY <1>7 DEF Connect, PeerSends, PeerSendsUrgent
<1> QED
  BY <1>1, <1>2, <1>3, <1>4, <1>5, <1>6, <1>7 DEF Stopping

\* The steps of the users.
LEMMA UsersKeepInv ==
  ASSUME Inv, NEW u \in Users, User(u) \/ \E c \in Clients : Append1(u, c)
  PROVE  Inv'
<1>1. ASSUME NEW c \in Clients, Append1(u, c)
      PROVE  Inv'
  BY <1>1 DEF Append1, Inv, CarrierTypes, CloseOnlyActivated, loopVars, serverVars, peerVars
<1>2. CASE UserWrite(u)
  <2>1. user' \in [Users -> [at : {"idle", "write", "close"}, conn : Clients \cup {Listener}]]
    BY <1>2 DEF UserWrite, IdleUser, Inv, CarrierTypes
  <2>2. \A v \in Users : user'[v].at # "idle" => user'[v].conn \in Clients
    BY <1>2 DEF UserWrite, IdleUser, Inv, CarrierTypes
  <2>3. \A v \in Users : user'[v].at = "close" => user'[v].conn \in Activated
    BY <1>2 DEF UserWrite, IdleUser, Inv, CarrierTypes, CloseOnlyActivated
  <2> QED
    BY <1>2, <2>1, <2>2, <2>3
    DEF UserWrite, Inv, CarrierTypes, CloseOnlyActivated, loopVars, serverVars, peerVars
<1>3. CASE UserClose(u)
  <2>1. user[u].conn \in Clients \cap Activated
    BY <1>3 DEF UserClose, Inv, CarrierTypes, CloseOnlyActivated
  <2> DEFINE c == user[u].conn
  <2>2. CloseEffects(c)
    BY <1>3 DEF UserClose
  <2> HIDE DEF c
  <2>3. /\ trigger_events_' \in Seq(Event)
        /\ \A i \in 1 .. Len(trigger_events_') :
             trigger_events_'[i].op = "remove" => trigger_events_'[i].conn \in Activated
        /\ alive' \subseteq Activated
        /\ channels_' \subseteq Clients \cup {Listener}
    BY <2>1, <2>2, Closing DEF c
  <2> QED
    BY <1>3, <2>3 DEF UserClose, IdleUser, Event, Inv, CarrierTypes, CloseOnlyActivated,
                      serverVars, peerVars
<1> QED
  BY <1>1, <1>2, <1>3 DEF User

\* The steps of the loop thread.
LEMMA LoopKeepsInv ==
  ASSUME Inv, Loop
  PROVE  Inv'
<1>1. CASE RunTrigger
  <2>1. CASE trigger_events_ = <<>>
    BY <1>1, <2>1, Moving, AtType
    DEF RunTrigger, Places, Inv, CarrierTypes, connVars, serverVars, peerVars
  <2>2. CASE trigger_events_ # <<>>
    <3> DEFINE ev == Head(trigger_events_)
    <3>1. trigger_events_ \in Seq(Event)
      BY DEF Inv, CarrierTypes, Event
    <3>2. ev \in Event /\ (ev.op = "remove" => ev.conn \in Activated)
      BY <2>2, <3>1, Taken DEF Inv, CloseOnlyActivated
    <3>3. trigger_events_' = Tail(trigger_events_)
      BY <1>1, <2>2 DEF RunTrigger
    <3>4. /\ trigger_events_' \in Seq(Event)
          /\ \A i \in 1 .. Len(trigger_events_') :
               trigger_events_'[i].op = "remove" => trigger_events_'[i].conn \in Activated
      BY <2>2, <3>1, <3>3, Taken DEF Inv, CloseOnlyActivated
    <3>5. \/ loop' = At("trigger")
          \/ /\ loop' = [At(ev.op) EXCEPT !.conn = ev.conn, !.trigger = TRUE]
             /\ ev.op = "close" => ev.conn \in alive
      BY <1>1, <2>2, <3>2 DEF RunTrigger, Event
    <3> HIDE DEF ev
    <3>6. /\ loop' \in LoopType
          /\ loop'.at \in {"add", "close", "remove"} => loop'.conn \in Clients
          /\ loop'.at \in {"close", "remove"} => loop'.conn \in Activated
      <4>1. CASE loop' = At("trigger")
        BY <4>1, AtType DEF Places
      <4>2. CASE loop' = [At(ev.op) EXCEPT !.conn = ev.conn, !.trigger = TRUE]
        <5>1. ev.op \in Places /\ ev.op \in {"close", "remove"} /\ ev.conn \in Clients
          BY <3>2 DEF Event, Places
        <5>2. loop' = [at |-> ev.op, conn |-> ev.conn, events |-> {}, trigger |-> TRUE]
          BY <4>2 DEF At
        <5>3. ev.conn \in Activated
          BY <3>2, <3>5, <4>2, <5>1, <5>2 DEF At, Inv, CloseOnlyActivated
        <5> QED
          BY <5>1, <5>2, <5>3 DEF LoopType
      <4> QED
        BY <3>5, <4>1, <4>2
    <3> QED
      BY <1>1, <3>4, <3>6 DEF RunTrigger, Event, Inv, CarrierTypes, CloseOnlyActivated,
                              connVars, serverVars, peerVars
  <2> QED
    BY <2>1, <2>2
<1>2. CASE RemoveConnection
  BY <1>2, AtType, Moving
  DEF RemoveConnection, Places, Inv, CarrierTypes, connVars, peerVars
<1>3. CASE Select
  <2>1. event_list' \subseteq [conn : Clients \cup {Listener},
                               events : SUBSET {"IN", "OUT", "HUP"}]
    BY <1>3 DEF Select, Ready, Inv, CarrierTypes
  <2> QED
    BY <1>3, <2>1, AtType, Moving
    DEF Select, Places, Inv, CarrierTypes, connVars, peerVars, serverVars
<1>4. CASE Dispatch
  <2>1. CASE event_list = {}
    BY <1>4, <2>1, Moving, AtType
    DEF Dispatch, Places, Inv, CarrierTypes, connVars, peerVars, serverVars
  <2>2. ASSUME NEW r \in event_list,
               event_list' = event_list \ {r},
               loop' = [At("handle") EXCEPT !.conn = r.conn, !.events = r.events]
        PROVE  Inv'
    <3>1. /\ r.conn \in Clients \cup {Listener}
          /\ r.events \in SUBSET {"IN", "OUT", "HUP"}
      BY DEF Inv, CarrierTypes
    <3>2. loop' = [at |-> "handle", conn |-> r.conn, events |-> r.events, trigger |-> FALSE]
      BY <2>2 DEF At
    <3>3. loop' \in LoopType /\ loop'.at = "handle"
      BY <3>1, <3>2 DEF LoopType, Places
    <3> QED
      BY <1>4, <2>2, <3>3, Moving
      DEF Dispatch, Inv, CarrierTypes, connVars, peerVars, serverVars
  <2> QED
    BY <1>4, <2>1, <2>2 DEF Dispatch
<1>5. CASE HandleConnection
  <2>1. /\ loop' \in LoopType
        /\ loop'.at \in {"add", "close", "remove"} => loop'.conn \in Clients
        /\ loop'.at \in {"close", "remove"} => loop'.conn \in Activated
    <3>1. CASE loop' = After(NextEvent)
      BY <3>1, AfterType DEF Inv, CarrierTypes
    <3>2. CASE loop' = [loop EXCEPT !.at = "close"] /\ loop.conn \in alive
      BY <1>5, <3>2 DEF HandleConnection, LoopType, Places, Inv, CarrierTypes,
                        CloseOnlyActivated
    <3> QED
      BY <1>5, <3>1, <3>2 DEF HandleConnection
  <2> QED
    BY <1>5, <2>1 DEF HandleConnection, Inv, CarrierTypes, CloseOnlyActivated, peerVars,
                      serverVars
<1>6. CASE LoopClose
  <2>1. loop.conn \in Clients \cap Activated
    BY <1>6 DEF LoopClose, Inv, CarrierTypes, CloseOnlyActivated
  <2> DEFINE c == loop.conn
  <2>2. CloseEffects(c)
    BY <1>6 DEF LoopClose
  <2> HIDE DEF c
  <2>3. /\ trigger_events_' \in Seq(Event)
        /\ \A i \in 1 .. Len(trigger_events_') :
             trigger_events_'[i].op = "remove" => trigger_events_'[i].conn \in Activated
        /\ alive' \subseteq Activated
        /\ channels_' \subseteq Clients \cup {Listener}
    BY <2>1, <2>2, Closing DEF c
  <2>4. /\ loop' \in LoopType
        /\ loop'.at \notin {"add", "close", "remove"}
    BY <1>6, AtType, AfterType DEF LoopClose, Places, Inv, CarrierTypes
  <2> QED
    BY <1>6, <2>3, <2>4 DEF LoopClose, Event, Inv, CarrierTypes, CloseOnlyActivated,
                            serverVars, peerVars
<1>7. CASE Accept
  <2>1. /\ After("IN") \in LoopType
        /\ After("IN").at \notin {"add", "close", "remove"}
    BY AfterType DEF Inv, CarrierTypes
  <2>2. CASE UNCHANGED <<made, alive, channels_>> /\ loop' = After("IN") /\ queue' \subseteq queue
    BY <1>7, <2>1, <2>2 DEF Accept, Inv, CarrierTypes, CloseOnlyActivated
  <2>3. ASSUME NEW c \in queue,
               queue' = queue \ {c},
               alive' = IF RunningWhenMade(c) THEN alive \cup {c} ELSE alive,
               channels_' = channels_ \cup {c},
               loop' = [loop EXCEPT !.at = "add", !.conn = c]
        PROVE  Inv'
    <3>1. c \in Clients
      BY DEF Inv, CarrierTypes
    <3>2. alive' \subseteq Activated
      BY <2>3 DEF RunningWhenMade, Inv, CloseOnlyActivated
    <3>3. /\ loop' \in LoopType
          /\ loop'.at = "add"
          /\ loop'.conn \in Clients
      BY <2>3, <3>1 DEF LoopType, Places, Inv, CarrierTypes
    <3> QED
      BY <1>7, <2>3, <3>1, <3>2, <3>3 DEF Accept, Inv, CarrierTypes, CloseOnlyActivated
  <2> QED
    BY <1>7, <2>2, <2>3 DEF Accept
<1>8. CASE AcceptRefused
  BY <1>8, AfterType, Moving DEF AcceptRefused, Inv, CarrierTypes, serverVars, connVars
<1>9. CASE AddConnection
  BY <1>9 DEF AddConnection, LoopType, Places, Inv, CarrierTypes, CloseOnlyActivated, connVars, peerVars
<1>10. CASE SetDisconnectCallback
  BY <1>10, AtType, Moving
  DEF SetDisconnectCallback, Places, Inv, CarrierTypes, peerVars, connVars
<1> QED
  BY <1>1, <1>2, <1>3, <1>4, <1>5, <1>6, <1>7, <1>8, <1>9, <1>10 DEF Loop

\* Every step keeps the invariant.
LEMMA StepKeepsInv == Inv /\ [Next]_vars => Inv'
<1> SUFFICES ASSUME Inv, [Next]_vars
             PROVE  Inv'
  OBVIOUS
<1>1. CASE UNCHANGED vars
  BY <1>1 DEF vars, peerVars, serverVars, connVars, loopVars, Inv, CarrierTypes,
              CloseOnlyActivated
<1>2. CASE Next
  BY <1>2, OthersKeepInv, UsersKeepInv, LoopKeepsInv DEF Next
<1> QED
  BY <1>1, <1>2

-----------------------------------------------------------------------------
\* Only a connection that something activated is ever closed, and only such a
\* one is named by a posted removal (TcpConnection.cpp:107-121).
THEOREM OnlyActivatedClose == Spec => []Inv
  BY InitInv, StepKeepsInv, PTL DEF Spec

\* A connection as the library makes it is never removed from
\* TcpServer::connections_, so stop(), once it has seen one, polls for ever
\* (TcpServer.cpp:52-55).
THEOREM NeverRemoved == Spec => NeverRemovedAsShipped
<1>1. Inv /\ [Next]_vars => [connections_ \ Activated \subseteq connections_']_vars
  <2> SUFFICES ASSUME Inv, Next
               PROVE  connections_ \ Activated \subseteq connections_'
    BY DEF vars, serverVars
  <2>1. CASE RemoveConnection
    BY <2>1 DEF RemoveConnection, Inv, CloseOnlyActivated
  <2>2. CASE Loop /\ ~RemoveConnection
    BY <2>2 DEF Loop, RunTrigger, Select, Dispatch, HandleConnection, LoopClose, Accept,
                AcceptRefused, AddConnection, SetDisconnectCallback, serverVars
  <2>3. CASE Start \/ StopSweep \/ Stopping
    BY <2>3 DEF Start, StopSweep, Stopping, SweepDone, CloseAcceptor, StopReturn, Disconnect
  <2>4. CASE \E c \in Clients : Connect(c) \/ PeerSends(c) \/ PeerSendsUrgent(c)
    BY <2>4 DEF Connect, PeerSends, PeerSendsUrgent, serverVars
  <2>5. CASE \E u \in Users : User(u) \/ \E c \in Clients : Append1(u, c)
    BY <2>5 DEF User, UserWrite, UserClose, Append1, serverVars
  <2> QED
    BY <2>1, <2>2, <2>3, <2>4, <2>5 DEF Next
<1> QED
  BY <1>1, OnlyActivatedClose, PTL DEF Spec, NeverRemovedAsShipped

-----------------------------------------------------------------------------
(* What the loop has in hand still exists.                                 *)

\* A connection is made once, and gets its callback after that.
Fresh == /\ queue \cap made = {} /\ callback \subseteq made
         /\ loop.at \in {"add", "setcb"} => loop.conn \in made

\* The channel of a connection that is to be removed is registered no more.
Gone == /\ \A i \in 1 .. Len(trigger_events_) :
             trigger_events_[i].op = "remove" => trigger_events_[i].conn \in made \ channels_
        /\ loop.at = "remove" => loop.conn \in made \ channels_

\* A registered channel is that of a connection in the map, or on the way there.
Kept == \A c \in channels_ :
          c = Listener \/ c \in connections_ \/ (loop.at = "add" /\ loop.conn = c)

\* Trigger events run between two rounds of dispatch.
Round == /\ loop.trigger => loop.at \in {"close", "remove"}
         /\ loop.at = "remove" => loop.trigger
         /\ loop.trigger \/ loop.at \in {"trigger", "poll"} => event_list = {}

Handled == /\ \A r \in event_list : r.conn = Listener \/ r.conn \in connections_
           /\ loop.at = "handle" \/ (loop.at = "close" /\ ~ loop.trigger) =>
                loop.conn = Listener \/ loop.conn \in connections_

InHand == Inv /\ Fresh /\ Gone /\ Kept /\ Round /\ Handled

\* What a step that leaves the loop and the map alone has to keep.
Around == /\ UNCHANGED <<made, callback, connections_, event_list, loop>>
          /\ queue' \cap made = {} /\ channels_' \subseteq channels_ \cup {Listener}
          /\ \A i \in 1 .. Len(trigger_events_') :
               trigger_events_'[i].op = "remove" => trigger_events_'[i].conn \in made \ channels_'

LEMMA MadeAreClients ==
  ASSUME InHand PROVE \A i \in 1 .. Len(trigger_events_) : trigger_events_[i].conn # Listener
<1>1. trigger_events_ \in Seq(Event)
  BY DEF InHand, Inv, CarrierTypes, Event
<1>2. \A i \in 1 .. Len(trigger_events_) : trigger_events_[i] \in Event
  BY <1>1
<1>3. \A e \in Event : e.conn # Listener
  BY ServerAssumption DEF Event
<1> QED
  BY <1>2, <1>3

LEMMA AroundKeeps ==
  ASSUME InHand, Inv', Around
  PROVE  InHand'
<1>1. loop.at = "remove" => loop.conn # Listener
  BY ServerAssumption DEF InHand, Inv, CarrierTypes
<1>2. Gone'
  BY <1>1 DEF InHand, Gone, Around
<1>3. Kept'
  BY DEF InHand, Kept, Around
<1>4. Fresh' /\ Round' /\ Handled'
  BY DEF InHand, Fresh, Round, Handled, Around
<1> QED
  BY <1>2, <1>3, <1>4 DEF InHand

\* TcpConnection::close takes the channel away before it posts the removal.
LEMMA ClosingPosts ==
  ASSUME InHand, NEW c \in Clients, CloseEffects(c)
  PROVE  /\ channels_' = channels_ \ {c}
         /\ \A i \in 1 .. Len(trigger_events_') :
              trigger_events_'[i].op = "remove" => trigger_events_'[i].conn \in made \ channels_'
<1>1. trigger_events_ \in Seq(Event) /\ channels_' = channels_ \ {c}
  BY DEF InHand, Inv, CarrierTypes, Event, CloseEffects
<1>2. \A i \in 1 .. Len(trigger_events_) :
        trigger_events_[i].op = "remove" => trigger_events_[i].conn \in made \ channels_'
  BY <1>1 DEF InHand, Gone
<1>3. CASE c \in callback
  <2> DEFINE e == [op |-> "remove", conn |-> c]
  <2>1. e \in Event /\ e.conn \in made \ channels_'
    BY <1>1, <1>3 DEF Event, InHand, Fresh
  <2>2. trigger_events_' = Append(trigger_events_, e)
    BY <1>3 DEF CloseEffects
  <2> HIDE DEF e
  <2> QED
    BY <1>1, <1>2, <2>1, <2>2, Posted
<1>4. CASE c \notin callback
  BY <1>1, <1>2, <1>4 DEF CloseEffects
<1> QED
  BY <1>1, <1>3, <1>4

LEMMA OthersKeepHand ==
  ASSUME InHand, Inv',
         Start \/ StopSweep \/ Stopping
           \/ \E c \in Clients : Connect(c) \/ PeerSends(c) \/ PeerSendsUrgent(c)
  PROVE  InHand'
<1>0. queue \cap made = {} /\ \A i \in 1 .. Len(trigger_events_) :
        trigger_events_[i].op = "remove" => trigger_events_[i].conn \in made \ (channels_ \cup {Listener})
  BY MadeAreClients DEF InHand, Fresh, Gone
<1>1. CASE Start \/ StopSweep \/ SweepDone \/ CloseAcceptor \/ StopReturn
  <2>1. /\ UNCHANGED <<made, callback, connections_, event_list, loop, trigger_events_>>
        /\ queue' \subseteq queue /\ channels_' \subseteq channels_ \cup {Listener}
    BY <1>1 DEF Start, StopSweep, SweepDone, CloseAcceptor, StopReturn, peerVars, serverVars,
                connVars, loopVars
  <2>2. Around
    BY <1>0, <2>1 DEF Around
  <2> QED
    BY <2>2, AroundKeeps
<1>2. ASSUME NEW c \in Clients, Disconnect(c)
      PROVE  InHand'
  <2> DEFINE e == [op |-> "close", conn |-> c]
  <2>1. trigger_events_ \in Seq(Event) /\ e \in Event /\ e.op # "remove"
    BY DEF Event, InHand, Inv, CarrierTypes
  <2>2. /\ trigger_events_' = Append(trigger_events_, e)
        /\ UNCHANGED <<made, callback, connections_, event_list, loop, queue, channels_>>
    BY <1>2 DEF Disconnect, peerVars, connVars
  <2> HIDE DEF e
  <2>3. \A i \in 1 .. Len(trigger_events_') :
          trigger_events_'[i].op = "remove" => trigger_events_'[i].conn \in made \ channels_
    BY <1>0, <2>1, <2>2, Posted
  <2>4. Around
    BY <1>0, <2>2, <2>3 DEF Around
  <2> QED
    BY <2>4, AroundKeeps
<1>3. ASSUME NEW c \in Clients, Connect(c) \/ PeerSends(c) \/ PeerSendsUrgent(c)
      PROVE  InHand'
  <2>1. /\ UNCHANGED <<made, callback, connections_, event_list, loop, trigger_events_, channels_>>
        /\ queue' \cap made = {}
    BY <1>0, <1>3 DEF Connect, PeerSends, PeerSendsUrgent, serverVars, connVars, loopVars
  <2>2. Around
    BY <1>0, <2>1 DEF Around
  <2> QED
    BY <2>2, AroundKeeps
<1> QED
  BY <1>1, <1>2, <1>3 DEF Stopping

LEMMA UsersKeepHand ==
  ASSUME InHand, Inv', NEW u \in Users, User(u) \/ \E c \in Clients : Append1(u, c)
  PROVE  InHand'
<1>0. queue \cap made = {} /\ \A i \in 1 .. Len(trigger_events_) :
        trigger_events_[i].op = "remove" => trigger_events_[i].conn \in made \ channels_
  BY DEF InHand, Fresh, Gone
<1>1. CASE UserWrite(u) \/ \E c \in Clients : Append1(u, c)
  <2>1. UNCHANGED <<made, callback, connections_, event_list, loop, trigger_events_, channels_, queue>>
    BY <1>1 DEF UserWrite, Append1, loopVars, serverVars, peerVars
  <2>2. Around
    BY <1>0, <2>1 DEF Around
  <2> QED
    BY <2>2, AroundKeeps
<1>2. CASE UserClose(u)
  <2> DEFINE c == user[u].conn
  <2>1. /\ c \in Clients /\ CloseEffects(c)
        /\ UNCHANGED <<made, callback, connections_, event_list, loop, queue>>
    BY <1>2 DEF UserClose, InHand, Inv, CarrierTypes, serverVars, peerVars
  <2> HIDE DEF c
  <2>2. Around
    BY <1>0, <2>1, ClosingPosts DEF Around
  <2> QED
    BY <2>2, AroundKeeps
<1> QED
  BY <1>1, <1>2 DEF User

\* The loop goes to its next step, and posts nothing.
LEMMA HandMoves ==
  ASSUME InHand, Inv', UNCHANGED <<trigger_events_, made, callback, channels_>>,
         queue' \subseteq queue, connections_ \subseteq connections_',
         loop'.at \notin {"add", "setcb", "remove"}, ~ loop'.trigger,
         loop.at = "add" => loop.conn \in connections_',
         loop'.at \in {"trigger", "poll"} => event_list' = {},
         \A r \in event_list' : r.conn = Listener \/ r.conn \in connections_',
         loop'.at \in {"handle", "close"} => loop'.conn = Listener \/ loop'.conn \in connections_'
  PROVE  InHand'
<1>1. Fresh' /\ Gone'
  BY DEF InHand, Fresh, Gone
<1>2. Kept'
  BY DEF InHand, Kept
<1>3. Round' /\ Handled'
  BY DEF InHand, Round, Handled
<1> QED
  BY <1>1, <1>2, <1>3 DEF InHand

LEMMA AfterGoes ==
  ASSUME loop \in LoopType, NEW e
  PROVE  \/ After(e) = At("dispatch")
         \/ After(e).at = "handle" /\ After(e).conn = loop.conn /\ After(e).trigger = loop.trigger
<1>1. CASE loop.events # {e}
  <2>1. After(e) = [loop EXCEPT !.at = "handle", !.events = loop.events \ {e}]
    BY <1>1 DEF After
  <2> QED
    BY <2>1 DEF LoopType
<1> QED
  BY <1>1 DEF After

LEMMA LoopKeepsHand ==
  ASSUME InHand, Inv', Loop
  PROVE  InHand'
<1>0. /\ trigger_events_ \in Seq(Event) /\ loop \in LoopType
      /\ \A i \in 1 .. Len(trigger_events_) :
           trigger_events_[i].op = "remove" => trigger_events_[i].conn \in made \ channels_
      /\ \A r \in event_list : r.conn = Listener \/ r.conn \in connections_
  BY DEF InHand, Inv, CarrierTypes, Event, Gone, Handled
<1>1. CASE RunTrigger
  <2>1. /\ loop.at = "trigger" /\ event_list = {}
        /\ UNCHANGED <<queue, made, callback, channels_, connections_, event_list>>
    BY <1>1 DEF RunTrigger, InHand, Round, peerVars, serverVars, connVars
  <2>2. CASE trigger_events_ = <<>>
    <3>1. loop'.at = "poll" /\ ~ loop'.trigger /\ UNCHANGED trigger_events_
      BY <1>1, <2>2 DEF RunTrigger, At
    <3> QED
      BY <1>0, <2>1, <3>1, HandMoves
  <2>3. CASE trigger_events_ # <<>>
    <3> DEFINE ev == Head(trigger_events_)
    <3>1. /\ ev \in Event /\ (ev.op = "remove" => ev.conn \in made \ channels_)
          /\ \A i \in 1 .. Len(Tail(trigger_events_)) :
               Tail(trigger_events_)[i].op = "remove"
                 => Tail(trigger_events_)[i].conn \in made \ channels_
      BY <1>0, <2>3, Taken
    <3>2. trigger_events_' = Tail(trigger_events_)
      BY <1>1, <2>3 DEF RunTrigger
    <3>3. \/ loop' = At("trigger")
          \/ loop' = [At(ev.op) EXCEPT !.conn = ev.conn, !.trigger = TRUE]
      BY <1>1, <2>3 DEF RunTrigger
    <3>4. \/ loop'.at = "trigger" /\ ~ loop'.trigger
          \/ loop'.at = ev.op /\ loop'.conn = ev.conn /\ loop'.trigger
      <4>1. CASE loop' = At("trigger")
        BY <4>1 DEF At
      <4>2. CASE loop' = [At(ev.op) EXCEPT !.conn = ev.conn, !.trigger = TRUE]
        <5>1. loop' = [at |-> ev.op, conn |-> ev.conn, events |-> {}, trigger |-> TRUE]
          BY <4>2 DEF At
        <5> QED
          BY <5>1
      <4> QED
        BY <3>3, <4>1, <4>2
    <3>0. ev.op \in {"close", "remove"}
      BY <3>1 DEF Event
    <3> HIDE DEF ev
    <3>5. Fresh' /\ Gone'
      BY <2>1, <3>0, <3>1, <3>2, <3>4 DEF InHand, Fresh, Gone
    <3>6. Kept' /\ Round' /\ Handled'
      BY <2>1, <3>0, <3>1, <3>4 DEF InHand, Kept, Round, Handled
    <3> QED
      BY <3>5, <3>6 DEF InHand
  <2> QED
    BY <2>2, <2>3
<1>2. CASE RemoveConnection
  <2>1. /\ loop.at = "remove" /\ event_list = {} /\ loop' = At("trigger")
        /\ connections_' = connections_ \ {loop.conn}
        /\ UNCHANGED <<queue, made, callback, channels_, trigger_events_, event_list>>
    BY <1>2 DEF RemoveConnection, InHand, Round, peerVars, connVars
  <2>2. loop'.at = "trigger" /\ ~ loop'.trigger
    BY <2>1 DEF At
  <2>3. Kept'
    BY <2>1, <2>2 DEF InHand, Kept, Gone
  <2>4. Fresh' /\ Gone' /\ Round' /\ Handled'
    BY <2>1, <2>2 DEF InHand, Fresh, Gone, Round, Handled
  <2> QED
    BY <2>3, <2>4 DEF InHand
<1>3. CASE Select
  <2>1. /\ loop.at = "poll" /\ loop' = At("dispatch") /\ \A r \in event_list' : r.conn \in channels_
        /\ UNCHANGED <<queue, made, callback, channels_, trigger_events_, connections_>>
    BY <1>3 DEF Select, peerVars, serverVars, connVars
  <2>2. loop'.at = "dispatch" /\ ~ loop'.trigger
    BY <2>1 DEF At
  <2>3. \A r \in event_list' : r.conn = Listener \/ r.conn \in connections_
    BY <2>1 DEF InHand, Kept
  <2> QED
    BY <2>1, <2>2, <2>3, HandMoves
<1>4. CASE Dispatch
  <2>1. /\ loop.at = "dispatch" /\ event_list' \subseteq event_list
        /\ UNCHANGED <<queue, made, callback, channels_, trigger_events_, connections_>>
    BY <1>4 DEF Dispatch, peerVars, serverVars, connVars
  <2>2. \/ loop' = At("trigger") /\ event_list' = {}
        \/ \E r \in event_list :
             loop' = [At("handle") EXCEPT !.conn = r.conn, !.events = r.events]
    BY <1>4 DEF Dispatch
  <2>3. \/ loop'.at = "trigger" /\ ~ loop'.trigger /\ event_list' = {}
        \/ /\ loop'.at = "handle" /\ ~ loop'.trigger
           /\ loop'.conn = Listener \/ loop'.conn \in connections_
    <3>1. CASE loop' = At("trigger") /\ event_list' = {}
      BY <3>1 DEF At
    <3>2. ASSUME NEW r \in event_list,
                 loop' = [At("handle") EXCEPT !.conn = r.conn, !.events = r.events]
          PROVE  /\ loop'.at = "handle" /\ ~ loop'.trigger
                 /\ loop'.conn = Listener \/ loop'.conn \in connections_
      <4>1. loop' = [at |-> "handle", conn |-> r.conn, events |-> r.events, trigger |-> FALSE]
        BY <3>2 DEF At
      <4> QED
        BY <1>0, <4>1
    <3> QED
      BY <2>2, <3>1, <3>2
  <2> QED
    BY <1>0, <2>1, <2>3, HandMoves
<1>5. CASE HandleConnection
  <2>1. /\ loop.at = "handle" /\ ~ loop.trigger
        /\ loop.conn = Listener \/ loop.conn \in connections_
        /\ UNCHANGED <<queue, made, callback, channels_, trigger_events_, connections_, event_list>>
    BY <1>5 DEF HandleConnection, InHand, Round, Handled, peerVars, serverVars
  <2>2. loop' = [loop EXCEPT !.at = "close"] \/ loop' = After(NextEvent)
    BY <1>5 DEF HandleConnection
  <2>3. loop'.at \in {"dispatch", "handle", "close"} /\ ~ loop'.trigger
        /\ (loop'.at \in {"handle", "close"} => loop'.conn = loop.conn)
    <3>1. CASE loop' = [loop EXCEPT !.at = "close"]
      BY <1>0, <2>1, <3>1 DEF LoopType
    <3>2. CASE loop' = After(NextEvent)
      BY <1>0, <2>1, <3>2, AfterGoes DEF At
    <3> QED
      BY <2>2, <3>1, <3>2
  <2> QED
    BY <1>0, <2>1, <2>3, HandMoves
<1>6. CASE LoopClose
  <2> DEFINE c == loop.conn
  <2>1. /\ loop.at = "close" /\ c \in Clients /\ CloseEffects(c)
        /\ UNCHANGED <<queue, made, callback, connections_, event_list>>
    BY <1>6 DEF LoopClose, InHand, Inv, CarrierTypes, peerVars, serverVars
  <2>2. loop' = IF loop.trigger THEN At("trigger") ELSE After(NextEvent)
    BY <1>6 DEF LoopClose
  <2>3. \/ loop.trigger /\ loop'.at = "trigger" /\ ~ loop'.trigger
        \/ ~ loop.trigger /\ loop'.at = "dispatch" /\ ~ loop'.trigger
        \/ ~ loop.trigger /\ loop'.at = "handle" /\ ~ loop'.trigger /\ loop'.conn = loop.conn
    <3>1. CASE loop.trigger
      BY <2>2, <3>1 DEF At
    <3>2. CASE ~ loop.trigger
      BY <1>0, <2>2, <3>2, AfterGoes DEF At
    <3> QED
      BY <3>1, <3>2
  <2>4. /\ channels_' = channels_ \ {c}
        /\ \A i \in 1 .. Len(trigger_events_') :
             trigger_events_'[i].op = "remove" => trigger_events_'[i].conn \in made \ channels_'
    BY <2>1, ClosingPosts
  <2>5. Fresh' /\ Gone'
    BY <2>1, <2>3, <2>4 DEF InHand, Fresh, Gone
  <2>6. Kept' /\ Round' /\ Handled'
    BY <2>1, <2>3, <2>4 DEF InHand, Kept, Round, Handled
  <2> QED
    BY <2>5, <2>6 DEF InHand
<1>7. CASE Accept
  <2>1. /\ loop.at = "handle" /\ loop.conn = Listener /\ ~ loop.trigger
        /\ UNCHANGED <<callback, trigger_events_, connections_, event_list>>
    BY <1>7 DEF Accept, InHand, Round
  <2>2. CASE UNCHANGED <<made, channels_>> /\ loop' = After("IN") /\ queue' \subseteq queue
    <3>1. loop'.at \in {"dispatch", "handle"} /\ ~ loop'.trigger
          /\ (loop'.at = "handle" => loop'.conn = Listener)
      BY <1>0, <2>1, <2>2, AfterGoes DEF At
    <3> QED
      BY <1>0, <2>1, <2>2, <3>1, HandMoves
  <2>3. ASSUME NEW c \in queue, queue' = queue \ {c}, made' = made \cup {c},
               channels_' = channels_ \cup {c}, loop' = [loop EXCEPT !.at = "add", !.conn = c]
        PROVE  InHand'
    <3>1. loop'.at = "add" /\ loop'.conn = c /\ ~ loop'.trigger
      BY <1>0, <2>1, <2>3 DEF LoopType
    <3>2. c \notin made
      BY DEF InHand, Fresh
    <3>3. Fresh' /\ Gone'
      BY <2>1, <2>3, <3>1, <3>2 DEF InHand, Fresh, Gone
    <3>4. Kept' /\ Round' /\ Handled'
      BY <2>1, <2>3, <3>1 DEF InHand, Kept, Round, Handled
    <3> QED
      BY <3>3, <3>4 DEF InHand
  <2> QED
    BY <1>7, <2>2, <2>3 DEF Accept
<1>8. CASE AcceptRefused
  <2>1. /\ loop.at = "handle" /\ loop.conn = Listener /\ ~ loop.trigger /\ loop' = After("IN")
        /\ queue' \subseteq queue
        /\ UNCHANGED <<made, callback, channels_, trigger_events_, connections_, event_list>>
    BY <1>8 DEF AcceptRefused, InHand, Round, serverVars, connVars
  <2>2. loop'.at \in {"dispatch", "handle"} /\ ~ loop'.trigger
        /\ (loop'.at = "handle" => loop'.conn = Listener)
    BY <1>0, <2>1, AfterGoes DEF At
  <2> QED
    BY <1>0, <2>1, <2>2, HandMoves
<1>9. CASE AddConnection
  <2>1. /\ loop.at = "add" /\ loop' = [loop EXCEPT !.at = "setcb"]
        /\ connections_' = connections_ \cup {loop.conn}
        /\ UNCHANGED <<queue, made, callback, channels_, trigger_events_, event_list>>
    BY <1>9 DEF AddConnection, peerVars, connVars
  <2>2. loop'.at = "setcb" /\ loop'.conn = loop.conn /\ loop'.trigger = loop.trigger
    BY <1>0, <2>1 DEF LoopType
  <2>3. Fresh' /\ Gone'
    BY <2>1, <2>2 DEF InHand, Fresh, Gone
  <2>4. Kept' /\ Round' /\ Handled'
    BY <2>1, <2>2 DEF InHand, Kept, Round, Handled
  <2> QED
    BY <2>3, <2>4 DEF InHand
<1>10. CASE SetDisconnectCallback
  <2>1. /\ loop.at = "setcb" /\ loop' = At("dispatch") /\ callback' = callback \cup {loop.conn}
        /\ UNCHANGED <<queue, made, connections_, channels_, trigger_events_, event_list>>
    BY <1>10 DEF SetDisconnectCallback, peerVars
  <2>2. loop'.at = "dispatch" /\ ~ loop'.trigger
    BY <2>1 DEF At
  <2>3. Fresh' /\ Gone'
    BY <2>1, <2>2 DEF InHand, Fresh, Gone
  <2>4. Kept' /\ Round' /\ Handled'
    BY <2>1, <2>2 DEF InHand, Kept, Round, Handled
  <2> QED
    BY <2>3, <2>4 DEF InHand
<1> QED
  BY <1>1, <1>2, <1>3, <1>4, <1>5, <1>6, <1>7, <1>8, <1>9, <1>10 DEF Loop

LEMMA HandInit == Init => InHand
<1> SUFFICES ASSUME Init PROVE InHand
  OBVIOUS
<1>1. loop.at = "trigger" /\ ~ loop.trigger
  BY DEF Init, At
<1> QED
  BY <1>1, InitInv DEF Init, InHand, Fresh, Gone, Kept, Round, Handled

LEMMA HandStep == InHand /\ [Next]_vars => InHand'
<1> SUFFICES ASSUME InHand, [Next]_vars
             PROVE  InHand'
  OBVIOUS
<1>1. Inv'
  BY StepKeepsInv DEF InHand
<1>2. CASE UNCHANGED vars
  BY <1>1, <1>2 DEF vars, peerVars, serverVars, connVars, loopVars, InHand, Fresh, Gone, Kept,
                    Round, Handled
<1>3. CASE Next
  BY <1>1, <1>3, OthersKeepHand, UsersKeepHand, LoopKeepsHand DEF Next
<1> QED
  BY <1>2, <1>3

\* Whatever the loop has registered, collected or is dispatching still exists,
\* for every number of peers and users (TcpConnection.cpp:8-11, TcpServer.cpp:11-17).
THEOREM NothingDangles == Spec => []NoDanglingChannel
<1>1. InHand => NoDanglingChannel
  <2> SUFFICES ASSUME InHand,
                      NEW c \in channels_ \cup {r.conn : r \in event_list}
                                 \cup (IF loop.at = "handle" THEN {loop.conn} ELSE {}),
                      c # Listener
               PROVE  Referenced(c)
    BY DEF NoDanglingChannel
  <2>1. c \in connections_ \/ (loop.at = "add" /\ loop.conn = c)
    BY DEF InHand, Kept, Handled
  <2> QED
    BY <2>1 DEF Referenced
<1> QED
  BY <1>1, HandInit, HandStep, PTL DEF Spec

-----------------------------------------------------------------------------
(* The Acceptor after its close.                                           *)

\* A connection is on its way into the map only while the Acceptor's mutex is
\* held and its socket is not closed.
Accepting == /\ loop.at \in {"add", "setcb"} => acceptor_mutex_ = LoopThread /\ socket_ # "closed"
             /\ owner \in {"wait", "stopped"} => socket_ = "closed"

LEMMA Distinct == Nobody # LoopThread
<1> SUFFICES ASSUME Nobody = LoopThread PROVE FALSE
  OBVIOUS
<1>1. IsFiniteSet({}) /\ Cardinality({}) = 0
  BY FS_EmptySet
<1>2. IsFiniteSet({Owner}) /\ Cardinality({Owner}) = 1
  BY FS_Singleton
<1>3. {Nobody, LoopThread, Owner} = {Owner} \cup {Nobody}
  OBVIOUS
<1>4. Cardinality({Nobody, LoopThread, Owner}) \in {1, 2}
  BY <1>2, <1>3, FS_AddElement
<1> QED
  BY <1>4, ServerAssumption

LEMMA AcceptingStep ==
  ASSUME Inv, Accepting, Next
  PROVE  Accepting'
<1> USE DEF Accepting
<1>0. loop \in LoopType
  BY DEF Inv, CarrierTypes
<1>1. CASE Start \/ StopSweep \/ SweepDone \/ StopReturn \/ \E c \in Clients : Disconnect(c)
  BY <1>1 DEF Start, StopSweep, SweepDone, StopReturn, Disconnect, AcceptorFree, loopVars
<1>2. CASE CloseAcceptor
  BY <1>2, Distinct DEF CloseAcceptor, AcceptorFree
<1>3. CASE \E c \in Clients : Connect(c) \/ PeerSends(c) \/ PeerSendsUrgent(c)
  BY <1>3 DEF Connect, PeerSends, PeerSendsUrgent, serverVars, loopVars
<1>4. CASE \E u \in Users : User(u) \/ \E c \in Clients : Append1(u, c)
  BY <1>4 DEF User, UserWrite, UserClose, Append1, serverVars, loopVars
<1>5. CASE RunTrigger
  <2>1. UNCHANGED <<owner, socket_, acceptor_mutex_>>
    BY <1>5 DEF RunTrigger, serverVars
  <2>2. loop'.at \notin {"add", "setcb"}
    <3>1. CASE trigger_events_ = <<>>
      BY <1>5, <3>1 DEF RunTrigger, At
    <3>2. CASE trigger_events_ # <<>>
      <4> DEFINE ev == Head(trigger_events_)
      <4>1. ev \in Event
        BY <3>2, Taken DEF Inv, CarrierTypes, Event
      <4>2. ev.op \in {"close", "remove"}
        BY <4>1 DEF Event
      <4>3. loop' = At("trigger") \/ loop' = [At(ev.op) EXCEPT !.conn = ev.conn, !.trigger = TRUE]
        BY <1>5, <3>2 DEF RunTrigger
      <4>4. loop'.at = "trigger" \/ loop'.at = ev.op
        BY <4>3, AtIs, TriggerTaken
      <4> QED
        BY <4>2, <4>4
    <3> QED
      BY <3>1, <3>2
  <2> QED
    BY <2>1, <2>2
<1>6. CASE RemoveConnection \/ Select
  BY <1>6 DEF RemoveConnection, Select, At, serverVars
<1>7. CASE Dispatch
  <2>1. UNCHANGED <<owner, socket_, acceptor_mutex_>>
    BY <1>7 DEF Dispatch, serverVars
  <2>2. \/ loop' = At("trigger")
        \/ \E r \in event_list : loop' = [At("handle") EXCEPT !.conn = r.conn, !.events = r.events]
    BY <1>7 DEF Dispatch
  <2>3. loop'.at \in {"trigger", "handle"}
    BY <2>2, AtIs, EventTaken
  <2> QED
    BY <2>1, <2>3
<1>8. CASE HandleConnection \/ LoopClose \/ AcceptRefused
  <2>1. UNCHANGED <<owner, socket_, acceptor_mutex_>>
    BY <1>8 DEF HandleConnection, LoopClose, AcceptRefused, serverVars
  <2>2. \/ loop' = At("trigger") \/ loop' = [loop EXCEPT !.at = "close"]
        \/ \E e \in {NextEvent, "IN"} : loop' = After(e)
    BY <1>8 DEF HandleConnection, LoopClose, AcceptRefused
  <2>3. loop'.at \notin {"add", "setcb"}
    BY <1>0, <2>2, AfterType DEF At, LoopType
  <2> QED
    BY <2>1, <2>3
<1>9. CASE Accept
  <2>1. UNCHANGED <<owner, socket_>>
    BY <1>9 DEF Accept
  <2>2. CASE loop' = After("IN")
    BY <1>0, <2>1, <2>2, AfterType
  <2>3. CASE socket_ = "open" /\ acceptor_mutex_' = LoopThread
    BY <2>1, <2>3
  <2> QED
    BY <1>9, <2>2, <2>3 DEF Accept
<1>10. CASE AddConnection
  BY <1>0, <1>10 DEF AddConnection, LoopType
<1>11. CASE SetDisconnectCallback
  BY <1>11 DEF SetDisconnectCallback, At
<1> QED
  BY <1>1, <1>2, <1>3, <1>4, <1>5, <1>6, <1>7, <1>8, <1>9, <1>10, <1>11 DEF Next, Stopping, Loop

\* Once stop() has closed the Acceptor no connection is added, whatever was
\* being accepted (Acceptor.cpp:38-58).
THEOREM NoneAfterClose == Spec => NoConnectionAfterClose
<1>1. Init => Accepting
  BY DEF Init, Accepting, At
<1>2. Inv /\ Accepting /\ [Next]_vars => Accepting'
  <2>1. CASE UNCHANGED vars
    BY <2>1 DEF vars, serverVars, loopVars, Accepting
  <2> QED
    BY <2>1, AcceptingStep
<1>3. Inv /\ Accepting /\ [Next]_vars
        => [(owner \in {"wait", "stopped"}) => connections_' \subseteq connections_]_vars
  <2> SUFFICES ASSUME Accepting, Next, owner \in {"wait", "stopped"}
               PROVE  connections_' \subseteq connections_
    BY DEF vars
  <2>1. ~ AddConnection
    BY DEF Accepting, AddConnection
  <2>2. CASE Loop
    BY <2>1, <2>2 DEF Loop, RunTrigger, RemoveConnection, Select, Dispatch, HandleConnection,
                      LoopClose, Accept, AcceptRefused, SetDisconnectCallback, serverVars
  <2>3. CASE Start \/ StopSweep \/ Stopping
    BY <2>3 DEF Start, StopSweep, Stopping, SweepDone, CloseAcceptor, StopReturn, Disconnect
  <2>4. CASE \E c \in Clients : Connect(c) \/ PeerSends(c) \/ PeerSendsUrgent(c)
    BY <2>4 DEF Connect, PeerSends, PeerSendsUrgent, serverVars
  <2>5. CASE \E u \in Users : User(u) \/ \E c \in Clients : Append1(u, c)
    BY <2>5 DEF User, UserWrite, UserClose, Append1, serverVars
  <2> QED
    BY <2>2, <2>3, <2>4, <2>5 DEF Next
<1> QED
  BY <1>1, <1>2, <1>3, InitInv, StepKeepsInv, PTL DEF Spec, NoConnectionAfterClose

-----------------------------------------------------------------------------
(* Disconnections of the connections that users leave to the loop.         *)

\* Who is alive or not yet made has reported nothing, and the loop closes only
\* who is alive.
Reported ==
  /\ disconnected \in [Clients -> Nat]
  /\ alive \subseteq made /\ queue \cap made = {}
  /\ \A u \in Users : user[u].at # "idle" => user[u].conn \in Shared
  /\ \A c \in Clients \ Shared :
       disconnected[c] <= 1 /\ (c \in alive \/ c \notin made => disconnected[c] = 0)
  /\ loop.at = "close" => loop.conn \in alive \cup Shared

LEMMA ClosingReports ==
  ASSUME Reported, NEW c \in Clients, c \in alive \cup Shared, CloseEffects(c)
  PROVE  /\ disconnected' \in [Clients -> Nat] /\ alive' = alive \ {c}
         /\ \A d \in Clients \ Shared :
              disconnected'[d] <= 1 /\ (d \in alive' \/ d \notin made => disconnected'[d] = 0)
<1>1. alive' = alive \ {c}
  BY DEF CloseEffects
<1>2. CASE c \notin callback
  BY <1>1, <1>2 DEF CloseEffects, Reported
<1>3. CASE c \in callback
  <2>1. disconnected' = [disconnected EXCEPT ![c] = disconnected[c] + 1]
    BY <1>3 DEF CloseEffects
  <2>2. disconnected \in [Clients -> Nat]
    BY DEF Reported
  <2>3. /\ disconnected' \in [Clients -> Nat]
        /\ \A d \in Clients : disconnected'[d] = IF d = c THEN disconnected[c] + 1 ELSE disconnected[d]
    BY <2>1, <2>2
  <2>4. c \notin Shared => c \in made /\ disconnected[c] = 0
    BY DEF Reported
  <2> QED
    BY <1>1, <2>3, <2>4 DEF Reported
<1> QED
  BY <1>1, <1>2, <1>3

LEMMA ReportedStep ==
  ASSUME Inv, Reported, Next
  PROVE  Reported'
<1>0. loop \in LoopType
  BY DEF Inv, CarrierTypes
<1>1. CASE Start \/ StopSweep \/ Stopping \/ \E c \in Clients : Connect(c) \/ PeerSends(c) \/ PeerSendsUrgent(c)
  <2>1. UNCHANGED <<disconnected, alive, made, user, loop>> /\ queue' \cap made = {}
    BY <1>1 DEF Start, StopSweep, Stopping, SweepDone, CloseAcceptor, StopReturn, Disconnect, Connect,
                PeerSends, PeerSendsUrgent, peerVars, serverVars, connVars, loopVars, histVars, Reported
  <2> QED
    BY <2>1 DEF Reported
<1>2. ASSUME NEW u \in Users, NEW c \in Clients, Append1(u, c)
      PROVE  Reported'
  <2>1. /\ UNCHANGED <<disconnected, alive, made, queue, loop>>
        /\ user' = [user EXCEPT ![u] = [at |-> "write", conn |-> c]] /\ c \in Shared
    BY <1>2 DEF Append1, peerVars, loopVars
  <2>2. \A v \in Users : user'[v].at # "idle" => user'[v].conn \in Shared
    BY <2>1 DEF Reported, Inv, CarrierTypes
  <2> QED
    BY <2>1, <2>2 DEF Reported
<1>3. ASSUME NEW u \in Users, UserWrite(u)
      PROVE  Reported'
  <2>1. UNCHANGED <<disconnected, alive, made, queue, loop>> /\ user[u].at = "write"
    BY <1>3 DEF UserWrite, peerVars, loopVars, histVars
  <2>2. user' = [user EXCEPT ![u].at = "close"] \/ user' = [user EXCEPT ![u] = IdleUser]
    BY <1>3 DEF UserWrite
  <2>3. \A v \in Users : user'[v].at # "idle" => user'[v].conn \in Shared
    <3>1. \A v \in Users : v # u => user'[v] = user[v]
      BY <2>2 DEF Inv, CarrierTypes
    <3>2. CASE user' = [user EXCEPT ![u].at = "close"]
      <4>1. user'[u].conn = user[u].conn
        BY <3>2 DEF Inv, CarrierTypes
      <4> QED
        BY <2>1, <3>1, <4>1 DEF Reported
    <3>3. CASE user' = [user EXCEPT ![u] = IdleUser]
      <4>1. user'[u].at = "idle"
        BY <3>3 DEF IdleUser, Inv, CarrierTypes
      <4> QED
        BY <3>1, <4>1 DEF Reported
    <3> QED
      BY <2>2, <3>2, <3>3
  <2> QED
    BY <2>1, <2>3 DEF Reported
<1>4. ASSUME NEW u \in Users, UserClose(u)
      PROVE  Reported'
  <2> DEFINE c == user[u].conn
  <2>1. /\ UNCHANGED <<made, queue, loop>> /\ user' = [user EXCEPT ![u] = IdleUser]
        /\ c \in Clients \cap Shared /\ CloseEffects(c)
    BY <1>4 DEF UserClose, peerVars, Reported, Inv, CarrierTypes
  <2>2. \A v \in Users : user'[v].at # "idle" => user'[v].conn \in Shared
    BY <2>1 DEF IdleUser, Reported, Inv, CarrierTypes
  <2> HIDE DEF c
  <2>3. loop.at = "close" => loop.conn \in (alive \ {c}) \cup Shared
    BY <2>1 DEF Reported
  <2> QED
    BY <2>1, <2>2, <2>3, ClosingReports DEF Reported
<1>5. CASE RunTrigger
  <2>1. UNCHANGED <<disconnected, alive, made, queue, user>>
    BY <1>5 DEF RunTrigger, peerVars, connVars, histVars
  <2>2. loop'.at = "close" => loop'.conn \in alive
    <3>1. CASE loop' = At("trigger") \/ loop' = At("poll")
      BY <3>1 DEF At
    <3>2. ASSUME NEW ev, loop' = [At(ev.op) EXCEPT !.conn = ev.conn, !.trigger = TRUE],
                 ~ (ev.op = "close" /\ ev.conn \notin alive)
          PROVE  loop'.at = "close" => loop'.conn \in alive
      <4>1. loop'.at = ev.op /\ loop'.conn = ev.conn
        BY <3>2, TriggerTaken
      <4> QED
        BY <3>2, <4>1
    <3> QED
      BY <1>5, <3>1, <3>2 DEF RunTrigger
  <2> QED
    BY <2>1, <2>2 DEF Reported
<1>6. CASE RemoveConnection \/ Select \/ Dispatch \/ AcceptRefused \/ SetDisconnectCallback
  <2>1. UNCHANGED <<disconnected, alive, made, user>> /\ queue' \subseteq queue
    BY <1>6 DEF RemoveConnection, Select, Dispatch, AcceptRefused, SetDisconnectCallback, peerVars,
                serverVars, connVars, histVars
  <2>2. \/ \E place \in {"trigger", "dispatch"} : loop' = At(place)
        \/ \E r \in event_list : loop' = [At("handle") EXCEPT !.conn = r.conn, !.events = r.events]
        \/ loop' = After("IN")
    BY <1>6 DEF RemoveConnection, Select, Dispatch, AcceptRefused, SetDisconnectCallback
  <2>3. loop'.at # "close"
    BY <1>0, <2>2, AfterType, AtIs, EventTaken
  <2> QED
    BY <2>1, <2>3 DEF Reported
<1>7. CASE HandleConnection
  <2>1. UNCHANGED <<disconnected, alive, made, queue, user>>
    BY <1>7 DEF HandleConnection, peerVars, histVars
  <2>2. loop' = After(NextEvent) \/ (loop' = [loop EXCEPT !.at = "close"] /\ loop.conn \in alive)
    BY <1>7 DEF HandleConnection
  <2>3. loop'.at = "close" => loop'.conn \in alive
    BY <1>0, <2>2, AfterType DEF LoopType
  <2> QED
    BY <2>1, <2>3 DEF Reported
<1>8. CASE LoopClose
  <2> DEFINE c == loop.conn
  <2>1. /\ UNCHANGED <<made, queue, user>> /\ c \in Clients /\ c \in alive \cup Shared /\ CloseEffects(c)
    BY <1>8 DEF LoopClose, peerVars, Reported, Inv, CarrierTypes
  <2>2. loop' = At("trigger") \/ loop' = After(NextEvent)
    BY <1>8 DEF LoopClose
  <2>3. loop'.at # "close"
    BY <1>0, <2>2, AfterType DEF At
  <2> HIDE DEF c
  <2> QED
    BY <2>1, <2>3, ClosingReports DEF Reported
<1>9. CASE Accept
  <2>1. UNCHANGED <<disconnected, user>>
    BY <1>9 DEF Accept
  <2>2. CASE UNCHANGED <<made, alive>> /\ loop' = After("IN") /\ queue' \subseteq queue
    <3>1. loop'.at # "close"
      BY <1>0, <2>2, AfterType
    <3> QED
      BY <2>1, <2>2, <3>1 DEF Reported
  <2>3. ASSUME NEW c \in queue, queue' = queue \ {c}, made' = made \cup {c},
               alive' = IF RunningWhenMade(c) THEN alive \cup {c} ELSE alive,
               loop' = [loop EXCEPT !.at = "add", !.conn = c]
        PROVE  Reported'
    <3>1. c \notin made /\ alive' \subseteq alive \cup {c} /\ loop'.at = "add"
      BY <1>0, <2>3 DEF LoopType, Reported
    <3> QED
      BY <2>1, <2>3, <3>1 DEF Reported
  <2> QED
    BY <1>9, <2>2, <2>3 DEF Accept
<1>10. CASE AddConnection
  <2>1. UNCHANGED <<disconnected, alive, made, queue, user>> /\ loop'.at = "setcb"
    BY <1>0, <1>10 DEF AddConnection, LoopType, peerVars, connVars, histVars
  <2> QED
    BY <2>1 DEF Reported
<1> QED
  BY <1>1, <1>2, <1>3, <1>4, <1>5, <1>6, <1>7, <1>8, <1>9, <1>10 DEF Next, User, Loop

-----------------------------------------------------------------------------
(* Disconnections of all connections.                                      *)

\* The loop is in a close that disconnect posted, without the mutex.
InPosted(c) == loop.at = "close" /\ loop.trigger /\ loop.conn = c

\* The disconnections that were reported and those that may still be.
Reports(c) == disconnected[c] + (IF InPosted(c) THEN 1 ELSE 0)
                              + (IF conn_mutex_[c] # Nobody THEN 1 ELSE 0)

\* Every other close is under the connection's mutex, and is begun for who is
\* alive only, who has reported nothing.
Twice ==
  /\ conn_mutex_ \in [Clients -> Users \cup {Nobody, LoopThread}]
  /\ loop.at = "close" /\ ~ loop.trigger => conn_mutex_[loop.conn] = LoopThread
  /\ \A u \in Users : user[u].at = "close" => conn_mutex_[user[u].conn] = u
  /\ \A c \in Clients : /\ c \in alive \/ c \notin made => disconnected[c] = 0
                        /\ c \notin alive => Reports(c) <= 2

LEMMA Holders == Nobody # LoopThread /\ \A u \in Users : u # Nobody /\ u # LoopThread
<1>1. \A u \in Users : u # Nobody /\ u # LoopThread
  BY ServerAssumption
<1> QED
  BY <1>1, Distinct

LEMMA ClosingCounts ==
  ASSUME Reported, NEW c \in Clients, CloseEffects(c)
  PROVE  /\ disconnected' \in [Clients -> Nat] /\ alive' = alive \ {c}
         /\ \A d \in Clients : d # c => disconnected'[d] = disconnected[d]
         /\ disconnected'[c] \in {disconnected[c], disconnected[c] + 1}
         /\ c \notin callback => disconnected' = disconnected
<1>1. \/ disconnected' = disconnected
      \/ disconnected' = [disconnected EXCEPT ![c] = disconnected[c] + 1]
  BY DEF CloseEffects
<1>2. disconnected \in [Clients -> Nat]
  BY DEF Reported
<1> QED
  BY <1>1, <1>2 DEF CloseEffects

\* A step that neither begins nor ends a close.
LEMMA Steady ==
  ASSUME Reported, Twice, UNCHANGED <<disconnected, conn_mutex_>>,
         made \subseteq made', alive \subseteq alive', alive' \cap made \subseteq alive,
         loop' = loop \/ (loop.at # "close" /\ loop'.at # "close"),
         \A u \in Users : user'[u] = user[u] \/ user'[u].at # "close"
  PROVE  Twice'
<1>1. \A c \in Clients : InPosted(c)' <=> InPosted(c)
  BY DEF InPosted
<1>2. \A c \in Clients : Reports(c)' = Reports(c)
  BY <1>1 DEF Reports
<1>3. loop'.at = "close" /\ ~ loop'.trigger => conn_mutex_'[loop'.conn] = LoopThread
  BY DEF Twice
<1>4. \A u \in Users : user'[u].at = "close" => conn_mutex_'[user'[u].conn] = u
  BY DEF Twice
<1>5. ASSUME NEW c \in Clients
      PROVE  /\ c \in alive' \/ c \notin made' => disconnected'[c] = 0
             /\ c \notin alive' => Reports(c)' <= 2
  BY <1>2 DEF Twice
<1> QED
  BY <1>3, <1>4, <1>5 DEF Twice

\* Thread h takes the mutex of a connection that is alive, to close it.
LEMMA Begins ==
  ASSUME Reported, Twice, NEW c \in Clients, NEW h \in Users \cup {LoopThread},
         c \in alive, conn_mutex_[c] = Nobody, conn_mutex_' = [conn_mutex_ EXCEPT ![c] = h],
         UNCHANGED <<disconnected, alive, made>>,
         \/ h = LoopThread /\ UNCHANGED user /\ loop.at # "close" /\ ~ loop.trigger
              /\ loop'.at = "close" /\ ~ loop'.trigger /\ loop'.conn = c
         \/ h \in Users /\ UNCHANGED loop /\ user'[h].conn = c
              /\ \A v \in Users : v # h => user'[v] = user[v]
  PROVE  Twice'
<1>1. \A d \in Clients : conn_mutex_'[d] = IF d = c THEN h ELSE conn_mutex_[d]
  BY DEF Twice
<1>2. conn_mutex_' \in [Clients -> Users \cup {Nobody, LoopThread}]
  BY DEF Twice
<1>3. \A d \in Clients : InPosted(d)' <=> InPosted(d)
  BY Holders DEF InPosted
<1>4. \A d \in Clients : d # c => Reports(d)' = Reports(d)
  BY <1>1, <1>3 DEF Reports
<1>5. \A d \in Clients : /\ d \in alive' \/ d \notin made' => disconnected'[d] = 0
                         /\ d \notin alive' => Reports(d)' <= 2
  BY <1>4 DEF Twice
<1>6. loop'.at = "close" /\ ~ loop'.trigger => conn_mutex_'[loop'.conn] = LoopThread
  <2>1. CASE h = LoopThread /\ loop'.conn = c
    BY <1>1, <2>1
  <2>2. CASE h \in Users /\ UNCHANGED loop
    BY <2>2, Holders DEF Twice
  <2> QED
    BY <2>1, <2>2
<1>7. ASSUME NEW v \in Users, user'[v].at = "close"
      PROVE  conn_mutex_'[user'[v].conn] = v
  <2>1. CASE user'[v] = user[v] /\ v # h
    BY <1>7, <2>1, Holders DEF Twice
  <2>2. CASE v = h /\ user'[v].conn = c
    BY <1>1, <2>2
  <2> QED
    BY <2>1, <2>2, Holders
<1> QED
  BY <1>2, <1>5, <1>6, <1>7 DEF Twice

\* A close of c is through, and who made it has left it: its mutex is free again
\* or the loop's posted close is over.
LEMMA Ends ==
  ASSUME Reported, Twice, Fresh, NEW c \in Clients, CloseEffects(c), made' = made,
         \/ /\ conn_mutex_[c] # Nobody /\ conn_mutex_' = [conn_mutex_ EXCEPT ![c] = Nobody]
            /\ \A d \in Clients : InPosted(d)' <=> InPosted(d)
         \/ /\ InPosted(c) /\ conn_mutex_' = conn_mutex_
            /\ \A d \in Clients : ~ InPosted(d)'
  PROVE  /\ conn_mutex_' \in [Clients -> Users \cup {Nobody, LoopThread}]
         /\ \A d \in Clients : /\ d \in alive' \/ d \notin made' => disconnected'[d] = 0
                               /\ d \notin alive' => Reports(d)' <= 2
<1> DEFINE P(d) == IF InPosted(d) THEN 1 ELSE 0
           M(d) == IF conn_mutex_[d] # Nobody THEN 1 ELSE 0
<1>1. /\ conn_mutex_' \in [Clients -> Users \cup {Nobody, LoopThread}]
      /\ \A d \in Clients : d # c => conn_mutex_'[d] = conn_mutex_[d]
  BY DEF Twice
<1>2. \A d \in Clients : d # c => (InPosted(d)' <=> InPosted(d))
  BY DEF InPosted
<1>3. /\ \A d \in Clients : d # c => disconnected'[d] = disconnected[d]
      /\ disconnected'[c] \in {disconnected[c], disconnected[c] + 1}
      /\ disconnected[c] \in Nat /\ alive' = alive \ {c}
      /\ c \notin made => disconnected' = disconnected
  BY ClosingCounts DEF Reported, Fresh
<1>4. ASSUME NEW d \in Clients, d # c
      PROVE  /\ d \in alive' \/ d \notin made' => disconnected'[d] = 0
             /\ d \notin alive' => Reports(d)' <= 2
  <2>1. Reports(d)' = Reports(d)
    BY <1>1, <1>2, <1>3, <1>4 DEF Reports
  <2> QED
    BY <1>3, <1>4, <2>1 DEF Twice
<1>5. /\ Reports(c) = disconnected[c] + P(c) + M(c)
      /\ Reports(c)' = disconnected'[c] + P(c)' + M(c)'
  BY DEF Reports
<1>6. \/ M(c) = 1 /\ M(c)' = 0 /\ P(c)' = P(c)
      \/ P(c) = 1 /\ P(c)' = 0 /\ M(c)' = M(c)
  BY DEF Twice
<1>7. P(c) \in {0, 1} /\ M(c) \in {0, 1}
  OBVIOUS
<1>8. c \in alive => disconnected[c] = 0
  BY DEF Twice
<1>9. c \notin alive => Reports(c) <= 2
  BY DEF Twice
<1> HIDE DEF P, M
<1>10. Reports(c)' <= 2
  <2>1. CASE c \in alive
    BY <1>3, <1>5, <1>6, <1>7, <1>8, <2>1
  <2>2. CASE c \notin alive
    BY <1>3, <1>5, <1>6, <1>7, <1>9, <2>2
  <2> QED
    BY <2>1, <2>2
<1>11. c \notin alive' /\ (c \notin made' => disconnected'[c] = 0)
  BY <1>3 DEF Twice
<1> QED
  BY <1>1, <1>4, <1>10, <1>11

LEMMA TwiceStep ==
  ASSUME InHand, Reported, Twice, Next
  PROVE  Twice'
<1>0. loop \in LoopType /\ Inv /\ (loop.trigger => loop.at \in {"close", "remove"})
  BY DEF InHand, Inv, CarrierTypes, Round
<1>00. loop \in LoopType
  BY <1>0
<1>1. CASE Start \/ StopSweep \/ Stopping \/ \E c \in Clients : Connect(c) \/ PeerSends(c) \/ PeerSendsUrgent(c)
  <2>1. UNCHANGED <<disconnected, conn_mutex_, alive, made, user, loop>>
    BY <1>1 DEF Start, StopSweep, Stopping, SweepDone, CloseAcceptor, StopReturn, Disconnect, Connect,
                PeerSends, PeerSendsUrgent, peerVars, serverVars, connVars, loopVars, histVars
  <2> QED
    BY <2>1, Steady
<1>2. ASSUME NEW u \in Users, NEW c \in Clients, Append1(u, c)
      PROVE  Twice'
  <2>1. /\ UNCHANGED <<disconnected, conn_mutex_, alive, made, loop>>
        /\ user' = [user EXCEPT ![u] = [at |-> "write", conn |-> c]]
    BY <1>2 DEF Append1, peerVars, loopVars
  <2>2. \A v \in Users : user'[v] = user[v] \/ user'[v].at # "close"
    BY <1>0, <2>1 DEF Inv, CarrierTypes
  <2> QED
    BY <2>1, <2>2, Steady
<1>3. ASSUME NEW u \in Users, UserWrite(u)
      PROVE  Twice'
  <2> DEFINE c == user[u].conn
  <2>1. UNCHANGED <<disconnected, alive, made, loop>> /\ c \in Clients /\ conn_mutex_[c] = Nobody
    BY <1>0, <1>3 DEF UserWrite, loopVars, histVars, Inv, CarrierTypes
  <2>2. CASE c \in alive /\ conn_mutex_' = [conn_mutex_ EXCEPT ![c] = u] /\ user' = [user EXCEPT ![u].at = "close"]
    <3>1. user'[u].conn = c /\ \A v \in Users : v # u => user'[v] = user[v]
      BY <1>0, <2>2 DEF Inv, CarrierTypes
    <3> HIDE DEF c
    <3> QED
      BY <2>1, <2>2, <3>1, Begins
  <2>3. CASE UNCHANGED conn_mutex_ /\ user' = [user EXCEPT ![u] = IdleUser]
    <3>1. \A v \in Users : user'[v] = user[v] \/ user'[v].at # "close"
      BY <1>0, <2>3 DEF IdleUser, Inv, CarrierTypes
    <3> QED
      BY <2>1, <2>3, <3>1, Steady
  <2> QED
    BY <1>3, <2>2, <2>3 DEF UserWrite
<1>4. ASSUME NEW u \in Users, UserClose(u)
      PROVE  Twice'
  <2> DEFINE c == user[u].conn
  <2>1. /\ UNCHANGED <<made, loop>> /\ c \in Clients /\ CloseEffects(c) /\ conn_mutex_[c] = u
        /\ user' = [user EXCEPT ![u] = IdleUser] /\ conn_mutex_' = [conn_mutex_ EXCEPT ![c] = Nobody]
    BY <1>0, <1>4 DEF UserClose, Release, Inv, CarrierTypes, Twice
  <2>2. /\ \A v \in Users : v # u => user'[v] = user[v]
        /\ user'[u].at # "close"
    BY <1>0, <2>1 DEF IdleUser, Inv, CarrierTypes
  <2> HIDE DEF c
  <2>3. /\ conn_mutex_[c] # Nobody
        /\ \A d \in Clients : InPosted(d)' <=> InPosted(d)
    BY <2>1, Holders DEF InPosted
  <2>4. \A d \in Clients : d # c => conn_mutex_'[d] = conn_mutex_[d]
    BY <2>1 DEF Twice
  <2>5. loop'.at = "close" /\ ~ loop'.trigger => conn_mutex_'[loop'.conn] = LoopThread
    <3>1. loop.at = "close" /\ ~ loop.trigger => loop.conn \in Clients /\ loop.conn # c
      BY <1>0, <2>1, Holders DEF Twice, Inv, CarrierTypes
    <3> QED
      BY <2>1, <2>4, <3>1 DEF Twice
  <2>6. ASSUME NEW v \in Users, user'[v].at = "close"
        PROVE  conn_mutex_'[user'[v].conn] = v
    <3>1. v # u /\ user'[v] = user[v]
      BY <2>2, <2>6
    <3>2. user[v].conn \in Clients /\ user[v].conn # c
      BY <1>0, <2>1, <2>6, <3>1 DEF Twice, Inv, CarrierTypes
    <3> QED
      BY <2>4, <2>6, <3>1, <3>2 DEF Twice
  <2>7. /\ conn_mutex_' \in [Clients -> Users \cup {Nobody, LoopThread}]
        /\ \A d \in Clients : /\ d \in alive' \/ d \notin made' => disconnected'[d] = 0
                              /\ d \notin alive' => Reports(d)' <= 2
    BY <2>1, <2>3, Ends DEF InHand
  <2> QED
    BY <2>5, <2>6, <2>7 DEF Twice
<1>5. CASE RunTrigger
  <2>1. UNCHANGED <<disconnected, alive, made, conn_mutex_, user>> /\ loop.at = "trigger"
    BY <1>5 DEF RunTrigger, connVars, histVars
  <2>2. loop'.at = "close" => loop'.trigger /\ loop'.conn \in alive
    <3>1. CASE loop' = At("trigger") \/ loop' = At("poll")
      BY <3>1 DEF At
    <3>2. ASSUME NEW ev, loop' = [At(ev.op) EXCEPT !.conn = ev.conn, !.trigger = TRUE],
                 ~ (ev.op = "close" /\ ev.conn \notin alive)
          PROVE  loop'.at = "close" => loop'.trigger /\ loop'.conn \in alive
      <4>1. loop'.at = ev.op /\ loop'.conn = ev.conn /\ loop'.trigger
        BY <3>2, TriggerTaken DEF At
      <4> QED
        BY <3>2, <4>1
    <3> QED
      BY <1>5, <3>1, <3>2 DEF RunTrigger
  <2>3. \A d \in Clients : d \notin alive => Reports(d)' = Reports(d)
    BY <2>1, <2>2 DEF Reports, InPosted
  <2> QED
    BY <2>1, <2>2, <2>3 DEF Twice
<1>6. CASE RemoveConnection \/ Select \/ Dispatch \/ AcceptRefused \/ SetDisconnectCallback
  <2>1. UNCHANGED <<disconnected, alive, made, conn_mutex_, user>> /\ loop.at # "close"
    BY <1>6 DEF RemoveConnection, Select, Dispatch, AcceptRefused, SetDisconnectCallback,
                connVars, histVars
  <2>2. \/ \E place \in {"trigger", "dispatch"} : loop' = At(place)
        \/ \E r \in event_list : loop' = [At("handle") EXCEPT !.conn = r.conn, !.events = r.events]
        \/ loop' = After("IN")
    BY <1>6 DEF RemoveConnection, Select, Dispatch, AcceptRefused, SetDisconnectCallback
  <2>3. loop'.at # "close"
    BY <1>00, <2>2, AfterType, AtIs, EventTaken
  <2> QED
    BY <2>1, <2>3, Steady
<1>7. CASE HandleConnection
  <2> DEFINE c == loop.conn
  <2>1. /\ UNCHANGED <<disconnected, alive, made, user>> /\ loop.at = "handle" /\ ~ loop.trigger
        /\ c \in Clients /\ conn_mutex_[c] = Nobody
    BY <1>0, <1>7 DEF HandleConnection, histVars, LoopType
  <2>2. CASE c \in alive /\ conn_mutex_' = [conn_mutex_ EXCEPT ![c] = LoopThread] /\ loop' = [loop EXCEPT !.at = "close"]
    <3>1. loop'.at = "close" /\ ~ loop'.trigger /\ loop'.conn = c
      BY <1>0, <2>1, <2>2 DEF LoopType
    <3> HIDE DEF c
    <3> QED
      BY <2>1, <2>2, <3>1, Begins
  <2>3. CASE UNCHANGED conn_mutex_ /\ loop' = After(NextEvent)
    <3>1. loop'.at # "close"
      BY <1>0, <2>3, AfterType
    <3> QED
      BY <2>1, <2>3, <3>1, Steady
  <2> QED
    BY <1>7, <2>2, <2>3 DEF HandleConnection
<1>8. CASE LoopClose
  <2> DEFINE c == loop.conn
  <2>1. UNCHANGED <<made, user>> /\ c \in Clients /\ CloseEffects(c) /\ loop.at = "close"
    BY <1>0, <1>8 DEF LoopClose, Inv, CarrierTypes
  <2>2. loop' = At("trigger") \/ loop' = After(NextEvent)
    BY <1>8 DEF LoopClose
  <2>3. loop'.at # "close"
    BY <1>0, <2>2, AfterType DEF At
  <2>4. \A d \in Clients : ~ InPosted(d)'
    BY <2>3 DEF InPosted
  <2>5. CASE loop.trigger /\ UNCHANGED conn_mutex_
    <3>1. InPosted(c)
      BY <2>1, <2>5 DEF InPosted
    <3> HIDE DEF c
    <3> QED
      BY <1>0, <2>1, <2>3, <2>4, <2>5, <3>1, Ends DEF Twice, InHand
  <2>6. CASE ~ loop.trigger /\ conn_mutex_' = [conn_mutex_ EXCEPT ![c] = Nobody]
    <3>1. conn_mutex_[c] = LoopThread
      BY <2>1, <2>6 DEF Twice
    <3>2. \A d \in Clients : InPosted(d)' <=> InPosted(d)
      BY <2>4, <2>6 DEF InPosted
    <3> HIDE DEF c
    <3>3. ASSUME NEW v \in Users, user'[v].at = "close"
          PROVE  conn_mutex_'[user'[v].conn] = v
      <4>1. user'[v] = user[v] /\ user[v].conn \in Clients /\ conn_mutex_[user[v].conn] = v
        BY <1>0, <2>1, <3>3 DEF Twice, Inv, CarrierTypes
      <4> QED
        BY <2>6, <3>1, <4>1, Holders DEF Twice
    <3> QED
      BY <1>0, <2>1, <2>3, <2>6, <3>1, <3>2, <3>3, Holders, Ends DEF Twice, InHand
  <2> QED
    BY <1>8, <2>5, <2>6 DEF LoopClose, Release
<1>9. CASE Accept
  <2>1. UNCHANGED <<disconnected, conn_mutex_, user>> /\ loop.at = "handle"
    BY <1>9 DEF Accept
  <2>2. CASE UNCHANGED <<made, alive>> /\ loop' = After("IN")
    <3>1. loop'.at # "close"
      BY <1>0, <2>2, AfterType
    <3> QED
      BY <2>1, <2>2, <3>1, Steady
  <2>3. ASSUME NEW c \in queue, made' = made \cup {c},
               alive' = IF RunningWhenMade(c) THEN alive \cup {c} ELSE alive,
               loop' = [loop EXCEPT !.at = "add", !.conn = c]
        PROVE  Twice'
    <3>1. c \notin made /\ loop'.at = "add"
      BY <1>0, <2>3 DEF LoopType, Reported
    <3>2. alive \subseteq alive' /\ alive' \cap made \subseteq alive
      BY <2>3, <3>1
    <3> QED
      BY <2>1, <2>3, <3>1, <3>2, Steady
  <2> QED
    BY <1>9, <2>2, <2>3 DEF Accept
<1>10. CASE AddConnection
  <2>1. /\ UNCHANGED <<disconnected, alive, made, conn_mutex_, user>>
        /\ loop.at # "close" /\ loop'.at # "close"
    BY <1>0, <1>10 DEF AddConnection, LoopType, connVars, histVars
  <2> QED
    BY <2>1, Steady
<1> QED
  BY <1>1, <1>2, <1>3, <1>4, <1>5, <1>6, <1>7, <1>8, <1>9, <1>10 DEF Next, User, Loop

\* A connection reports its disconnection at most once when only the loop touches
\* it, and never more than twice, whatever events, sends and posted closes are in
\* flight (TcpConnection.cpp:107-121).
THEOREM ReportedOnce == Spec => []DisconnectedOnce
<1> DEFINE I == InHand /\ Reported /\ Twice
<1>1. Init => I
  <2> SUFFICES ASSUME Init PROVE I
    OBVIOUS
  <2>1. Reported
    BY DEF Init, Reported, At, IdleUser
  <2>2. \A c \in Clients : Reports(c) <= 2
    BY DEF Init, Reports, InPosted, At
  <2>3. Twice
    BY <2>2 DEF Init, Twice, At, IdleUser
  <2> QED
    BY <2>1, <2>3, HandInit
<1>2. I /\ [Next]_vars => I'
  <2> SUFFICES ASSUME I, [Next]_vars PROVE I'
    OBVIOUS
  <2>1. CASE UNCHANGED vars
    <3>1. UNCHANGED <<disconnected, conn_mutex_, made, alive, queue, loop, user>>
      BY <2>1 DEF vars, peerVars, connVars, loopVars, histVars
    <3>2. Reported'
      BY <3>1 DEF Reported
    <3>3. Twice'
      BY <3>1, Steady
    <3> QED
      BY <3>2, <3>3, HandStep
  <2>2. CASE Next
    BY <2>2, HandStep, ReportedStep, TwiceStep DEF InHand
  <2> QED
    BY <2>1, <2>2
<1>3. I => DisconnectedOnce
  <2> SUFFICES ASSUME I, NEW c \in Clients
               PROVE  disconnected[c] <= 1 \/ (c \in Shared /\ disconnected[c] = 2)
    BY DEF DisconnectedOnce
  <2>1. disconnected[c] \in Nat /\ (c \notin Shared => disconnected[c] <= 1)
    BY DEF Reported
  <2>2. c \in alive => disconnected[c] = 0
    BY DEF Twice
  <2>3. c \notin alive => disconnected[c] <= 2
    BY <2>1 DEF Twice, Reports
  <2> QED
    BY <2>1, <2>2, <2>3
<1> QED
  BY <1>1, <1>2, <1>3, PTL DEF Spec

-----------------------------------------------------------------------------
(* Types: what the invariants above leave.                                 *)

PeerTypes == /\ made \subseteq Clients /\ readable \subseteq Clients /\ urgent \subseteq Clients
             /\ leaked \subseteq LongAddress

ServerTypes == /\ running_ \in BOOLEAN /\ socket_ \in {"null", "open", "closed"}
               /\ mutex_ \in {Nobody, Owner} /\ acceptor_mutex_ \in {Nobody, LoopThread}
               /\ owner \in {"new", "started", "sweep", "close", "wait", "stopped", "crashed"}
               /\ connections_ \subseteq made

WriteTypes == /\ conn_mutex_ \in [Clients -> Users \cup {Nobody, LoopThread}]
              /\ writes \in [Clients -> Nat] /\ appended \in 0 .. MaxAppends
              /\ \A c \in Clients : writes[c] <= appended
              /\ writing \subseteq made

SelectTypes == write_backup_ \subseteq Clients /\ reset_ \in BOOLEAN

Rest == PeerTypes /\ ServerTypes /\ WriteTypes /\ SelectTypes

All == InHand /\ Reported /\ Rest

LEMMA PeerTypesStep == All /\ Next => PeerTypes'
<1> SUFFICES ASSUME All, Next PROVE PeerTypes'
  OBVIOUS
<1>0. PeerTypes /\ queue \subseteq Clients /\ LongAddress \subseteq Clients
  BY ServerAssumption DEF All, Rest, InHand, Inv, CarrierTypes
<1>1. CASE \E c \in Clients : Connect(c) \/ PeerSends(c) \/ PeerSendsUrgent(c)
  BY <1>0, <1>1 DEF Connect, PeerSends, PeerSendsUrgent, PeerTypes, connVars, histVars
<1>2. CASE Accept
  BY <1>0, <1>2 DEF Accept, PeerTypes
<1>3. CASE Start \/ StopSweep \/ Stopping \/ (Loop /\ ~ Accept)
  BY <1>0, <1>3 DEF Start, StopSweep, Stopping, SweepDone, CloseAcceptor, StopReturn, Disconnect,
     Loop, RunTrigger, RemoveConnection, Select, Dispatch, HandleConnection, LoopClose,
     AcceptRefused, AddConnection, SetDisconnectCallback, PeerTypes, peerVars, connVars, histVars
<1>4. CASE \E u \in Users : User(u) \/ \E c \in Clients : Append1(u, c)
  BY <1>0, <1>4 DEF User, UserWrite, UserClose, Append1, PeerTypes, peerVars, histVars
<1> QED
  BY <1>1, <1>2, <1>3, <1>4 DEF Next

LEMMA ServerTypesStep == All /\ Next => ServerTypes'
<1> SUFFICES ASSUME All, Next PROVE ServerTypes'
  OBVIOUS
<1>0. ServerTypes /\ (loop.at = "add" => loop.conn \in made)
  BY DEF All, Rest, InHand, Fresh
<1>1. CASE Start \/ StopSweep \/ SweepDone \/ StopReturn
  BY <1>0, <1>1 DEF Start, StopSweep, SweepDone, StopReturn, ServerTypes, connVars
<1>2. CASE CloseAcceptor
  BY <1>0, <1>2 DEF CloseAcceptor, ServerTypes, connVars
<1>3. ASSUME NEW c \in Clients, Disconnect(c) \/ Connect(c) \/ PeerSends(c) \/ PeerSendsUrgent(c)
      PROVE  ServerTypes'
  BY <1>0, <1>3 DEF Disconnect, Connect, PeerSends, PeerSendsUrgent, ServerTypes, serverVars, connVars
<1>4. CASE Accept
  <2>1. UNCHANGED <<running_, socket_, connections_, mutex_, owner>>
    BY <1>4 DEF Accept
  <2>2. acceptor_mutex_' \in {acceptor_mutex_, LoopThread} /\ made \subseteq made'
    BY <1>4 DEF Accept
  <2> QED
    BY <1>0, <2>1, <2>2 DEF ServerTypes
<1>5. CASE RemoveConnection \/ AddConnection \/ SetDisconnectCallback
  BY <1>0, <1>5 DEF RemoveConnection, AddConnection, SetDisconnectCallback, ServerTypes, connVars
<1>6. CASE RunTrigger \/ Select \/ Dispatch \/ HandleConnection \/ LoopClose \/ AcceptRefused
  <2>1. UNCHANGED <<serverVars, made>>
    BY <1>6 DEF RunTrigger, Select, Dispatch, HandleConnection, LoopClose, AcceptRefused, connVars
  <2> QED
    BY <1>0, <2>1 DEF ServerTypes, serverVars
<1>7. CASE \E u \in Users : User(u) \/ \E c \in Clients : Append1(u, c)
  <2>1. UNCHANGED <<serverVars, made>>
    BY <1>7 DEF User, UserWrite, UserClose, Append1
  <2> QED
    BY <1>0, <2>1 DEF ServerTypes, serverVars
<1> QED
  BY <1>1, <1>2, <1>3, <1>4, <1>5, <1>6, <1>7 DEF Next, Stopping, Loop

\* One buffer less, of a connection that has one.
LEMMA WritesOne ==
  ASSUME WriteTypes, NEW c \in Clients, c \in made, ~ NothingToWrite(c), WriteOne(c),
         UNCHANGED <<made, appended>>, conn_mutex_' = conn_mutex_
  PROVE  WriteTypes'
<1>1. writes[c] \in Nat /\ writes[c] # 0 /\ appended \in Nat
  BY DEF WriteTypes, NothingToWrite
<1>2. writes' = [writes EXCEPT ![c] = writes[c] - 1] /\ writing' \subseteq made
  BY DEF WriteOne, WriteTypes
<1>3. /\ writes' \in [Clients -> Nat]
      /\ \A d \in Clients : writes'[d] = IF d = c THEN writes[c] - 1 ELSE writes[d]
  BY <1>1, <1>2 DEF WriteTypes
<1>4. \A d \in Clients : writes'[d] <= appended
  BY <1>1, <1>3 DEF WriteTypes
<1> QED
  BY <1>2, <1>3, <1>4 DEF WriteTypes

LEMMA MutexTaken ==
  ASSUME WriteTypes, NEW c \in Clients, NEW h \in Users \cup {Nobody, LoopThread},
         conn_mutex_' = [conn_mutex_ EXCEPT ![c] = h],
         UNCHANGED <<writes, writing, appended>>, made \subseteq made'
  PROVE  WriteTypes'
BY DEF WriteTypes

LEMMA WriteTypesStep == All /\ Next => WriteTypes'
<1> SUFFICES ASSUME All, Next PROVE WriteTypes'
  OBVIOUS
<1>0. WriteTypes /\ alive \subseteq made /\ made \subseteq Clients /\ loop \in LoopType
  BY DEF All, Rest, PeerTypes, Reported, InHand, Inv, CarrierTypes
<1>1. CASE HandleConnection
  <2> DEFINE c == loop.conn
  <2>0. UNCHANGED <<made, appended>> /\ c \in Clients
    BY <1>0, <1>1 DEF HandleConnection, LoopType, histVars
  <2>1. \/ UNCHANGED <<writes, writing>> /\ conn_mutex_' = [conn_mutex_ EXCEPT ![c] = LoopThread]
        \/ UNCHANGED <<writes, writing, conn_mutex_>>
        \/ c \in made /\ ~ NothingToWrite(c) /\ WriteOne(c) /\ conn_mutex_' = conn_mutex_
    BY <1>0, <1>1 DEF HandleConnection
  <2> HIDE DEF c
  <2>2. CASE UNCHANGED <<writes, writing, conn_mutex_>>
    BY <1>0, <2>0, <2>2 DEF WriteTypes
  <2> QED
    BY <1>0, <2>0, <2>1, <2>2, WritesOne, MutexTaken
<1>2. CASE LoopClose
  <2>1. UNCHANGED <<made, writes, writing, appended>> /\ loop.conn \in Clients
    BY <1>2 DEF LoopClose, All, InHand, Inv, CarrierTypes
  <2>2. conn_mutex_' = conn_mutex_ \/ conn_mutex_' = [conn_mutex_ EXCEPT ![loop.conn] = Nobody]
    BY <1>2 DEF LoopClose, Release
  <2>3. CASE conn_mutex_' = conn_mutex_
    BY <1>0, <2>1, <2>3 DEF WriteTypes
  <2> QED
    BY <1>0, <2>1, <2>2, <2>3, MutexTaken
<1>3. CASE Accept
  BY <1>0, <1>3 DEF Accept, WriteTypes
<1>4. CASE \/ Start \/ StopSweep \/ Stopping
           \/ \E c \in Clients : Connect(c) \/ PeerSends(c) \/ PeerSendsUrgent(c)
           \/ RunTrigger \/ RemoveConnection \/ Select \/ Dispatch \/ AcceptRefused
           \/ AddConnection \/ SetDisconnectCallback
  <2>1. UNCHANGED <<conn_mutex_, writes, writing, made, appended>>
    BY <1>4 DEF Start, StopSweep, Stopping, SweepDone, CloseAcceptor, StopReturn, Disconnect,
       Connect, PeerSends, PeerSendsUrgent, RunTrigger, RemoveConnection, Select, Dispatch,
       AcceptRefused, AddConnection, SetDisconnectCallback, connVars, histVars
  <2> QED
    BY <1>0, <2>1 DEF WriteTypes
<1>5. ASSUME NEW u \in Users, NEW c \in Clients, Append1(u, c)
      PROVE  WriteTypes'
  <2>1. /\ UNCHANGED <<made, conn_mutex_, writing>> /\ appended < MaxAppends
        /\ appended' = appended + 1 /\ writes' = [writes EXCEPT ![c] = writes[c] + 1]
    BY <1>5 DEF Append1
  <2>2. /\ appended \in Nat /\ MaxAppends \in Nat
        /\ \A d \in Clients : writes[d] \in Nat /\ writes[d] <= appended
    BY <1>0, ServerAssumption DEF WriteTypes
  <2>3. /\ writes' \in [Clients -> Nat]
        /\ \A d \in Clients : writes'[d] = IF d = c THEN writes[c] + 1 ELSE writes[d]
    BY <1>0, <2>1, <2>2 DEF WriteTypes
  <2>4. \A d \in Clients : writes'[d] <= appended'
    BY <2>1, <2>2, <2>3
  <2>5. appended' \in 0 .. MaxAppends
    BY <2>1, <2>2
  <2> QED
    BY <1>0, <2>1, <2>3, <2>4, <2>5 DEF WriteTypes
<1>6. ASSUME NEW u \in Users, UserWrite(u)
      PROVE  WriteTypes'
  <2> DEFINE c == user[u].conn
  <2>0. UNCHANGED <<made, appended>> /\ c \in Clients
    BY <1>6 DEF UserWrite, histVars, All, InHand, Inv, CarrierTypes
  <2>1. \/ UNCHANGED <<writes, writing>> /\ conn_mutex_' = [conn_mutex_ EXCEPT ![c] = u]
        \/ UNCHANGED <<writes, writing, conn_mutex_>>
        \/ c \in made /\ ~ NothingToWrite(c) /\ WriteOne(c) /\ conn_mutex_' = conn_mutex_
    BY <1>0, <1>6 DEF UserWrite
  <2> HIDE DEF c
  <2>2. CASE UNCHANGED <<writes, writing, conn_mutex_>>
    BY <1>0, <2>0, <2>2 DEF WriteTypes
  <2> QED
    BY <1>0, <2>0, <2>1, <2>2, WritesOne, MutexTaken
<1>7. ASSUME NEW u \in Users, UserClose(u)
      PROVE  WriteTypes'
  <2>1. /\ UNCHANGED <<made, writes, writing, appended>> /\ user[u].conn \in Clients
        /\ conn_mutex_' = [conn_mutex_ EXCEPT ![user[u].conn] = Nobody]
    BY <1>7 DEF UserClose, Release, All, InHand, Inv, CarrierTypes
  <2> QED
    BY <1>0, <2>1, MutexTaken
<1> QED
  BY <1>1, <1>2, <1>3, <1>4, <1>5, <1>6, <1>7 DEF Next, User, Loop

LEMMA SelectTypesStep == All /\ Next => SelectTypes'
<1> SUFFICES ASSUME All, Next PROVE SelectTypes'
  OBVIOUS
<1>0. SelectTypes /\ writing \subseteq Clients
  BY DEF All, Rest, PeerTypes, WriteTypes
<1>1. CASE Select
  BY <1>0, <1>1 DEF Select, SelectTypes
<1>2. CASE Start \/ CloseAcceptor \/ Accept \/ LoopClose
  BY <1>0, <1>2 DEF Start, CloseAcceptor, Accept, LoopClose, CloseEffects, SelectTypes
<1>3. CASE \E u \in Users : User(u) \/ \E c \in Clients : Append1(u, c)
  BY <1>0, <1>3 DEF User, UserWrite, UserClose, Append1, CloseEffects, SelectTypes, loopVars
<1>4. CASE \/ StopSweep \/ SweepDone \/ StopReturn
           \/ \E c \in Clients : Disconnect(c) \/ Connect(c) \/ PeerSends(c) \/ PeerSendsUrgent(c)
           \/ RunTrigger \/ RemoveConnection \/ Dispatch \/ HandleConnection \/ AcceptRefused
           \/ AddConnection \/ SetDisconnectCallback
  BY <1>0, <1>4 DEF StopSweep, SweepDone, StopReturn, Disconnect, Connect, PeerSends, PeerSendsUrgent,
     RunTrigger, RemoveConnection, Dispatch, HandleConnection, AcceptRefused, AddConnection,
     SetDisconnectCallback, SelectTypes, loopVars
<1> QED
  BY <1>1, <1>2, <1>3, <1>4 DEF Next, Stopping, Loop

\* The types, for every number of peers, users and sends.
THEOREM ServerTypesHold == Spec => []TypeOK
<1>1. Init => All
  <2> SUFFICES ASSUME Init PROVE All
    OBVIOUS
  <2>1. Reported
    BY DEF Init, Reported, At, IdleUser
  <2>2. PeerTypes /\ ServerTypes /\ SelectTypes
    BY DEF Init, PeerTypes, ServerTypes, SelectTypes
  <2>3. WriteTypes
    BY ServerAssumption DEF Init, WriteTypes
  <2> QED
    BY <2>1, <2>2, <2>3, HandInit DEF All, Rest
<1>2. All /\ [Next]_vars => All'
  <2> SUFFICES ASSUME All, [Next]_vars PROVE All'
    OBVIOUS
  <2>1. InHand'
    BY HandStep DEF All
  <2>2. CASE UNCHANGED vars
    BY <2>1, <2>2 DEF vars, peerVars, serverVars, connVars, loopVars, histVars, All, Reported, Rest,
                      PeerTypes, ServerTypes, WriteTypes, SelectTypes
  <2>3. CASE Next
    BY <2>1, <2>3, ReportedStep, PeerTypesStep, ServerTypesStep, WriteTypesStep, SelectTypesStep
       DEF All, InHand, Rest
  <2> QED
    BY <2>2, <2>3
<1>3. All => TypeOK
  <2> SUFFICES ASSUME All PROVE TypeOK
    OBVIOUS
  <2>1. writes \in [Clients -> 0 .. MaxAppends]
    <3>1. \A c \in Clients : writes[c] \in 0 .. MaxAppends
      BY ServerAssumption DEF All, Rest, WriteTypes
    <3> QED
      BY <3>1 DEF All, Rest, WriteTypes
  <2>2. /\ loop \in [at : {"trigger", "poll", "dispatch", "handle", "add", "setcb", "close", "remove"},
                     conn : ConnOrListener, events : SUBSET {"IN", "OUT", "HUP"},
                     trigger : BOOLEAN]
        /\ user \in [Users -> [at : {"idle", "write", "close"}, conn : ConnOrListener]]
        /\ event_list \subseteq [conn : ConnOrListener, events : SUBSET {"IN", "OUT", "HUP"}]
        /\ channels_ \subseteq ConnOrListener
    BY DEF All, InHand, Inv, CarrierTypes, LoopType, Places, ConnOrListener
  <2>3. /\ trigger_events_ \in Seq([op : {"close", "remove"}, conn : Clients])
        /\ queue \subseteq Clients /\ swept \subseteq Clients /\ alive \subseteq made /\ callback \subseteq made
        /\ disconnected \in [Clients -> Nat]
    BY DEF All, InHand, Inv, CarrierTypes, Fresh, Reported
  <2> QED
    BY <2>1, <2>2, <2>3 DEF TypeOK, All, Rest, PeerTypes, ServerTypes, WriteTypes, SelectTypes
<1> QED
  BY <1>1, <1>2, <1>3, PTL DEF Spec
=============================================================================
