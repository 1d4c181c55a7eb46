------------------------------ MODULE TcpServer ------------------------------
(***************************************************************************)
(* TcpServer, Acceptor, Channel and TcpConnection (src/src/net) on one     *)
(* SelectManager loop, with clients that connect, send and hang up, an     *)
(* owner that starts and stops the server, and user threads that send on   *)
(* connections.                                                            *)
(*                                                                         *)
(* The loop thread alternates handleTriggerEvent and handleEvent; the      *)
(* latter collects the ready channels under SelectManager's mutex and      *)
(* dispatches them without it.  A connection is named by its client; file  *)
(* descriptors are never reused, because a TcpConnection never closes its  *)
(* own.  TcpConnection::running_ starts false and nothing in the library   *)
(* sets it: a subclass may (the member is protected).  Activated are the   *)
(* connections made by such a subclass.                                    *)
(***************************************************************************)
EXTENDS Naturals, Sequences, FiniteSets

CONSTANTS Clients,       \* peers; each connects at most once
          LongAddress,   \* the peers whose address text exceeds 7 characters
          Users,         \* threads that call TcpConnection::send
          Activated,     \* the peers whose connection sets running_ in its constructor
          Shared,        \* the peers whose connection is handed to the Users
          Listener,      \* the Acceptor's channel
          Nobody, LoopThread, Owner,   \* holders of mutexes
          MaxAppends     \* sends in all

ASSUME ServerAssumption ==
  /\ LongAddress \subseteq Clients
  /\ Activated \subseteq Clients /\ Shared \subseteq Clients
  /\ Listener \notin Clients
  /\ Cardinality({Nobody, LoopThread, Owner}) = 3
  /\ Users \cap {Nobody, LoopThread, Owner} = {}
  /\ MaxAppends \in Nat

VARIABLES
  \* the peers and the kernel
  queue,           \* peers that wait to be accepted
  readable,        \* peers with unread data, or that hung up
  urgent,          \* peers that sent out-of-band data
  \* TcpServer, Acceptor
  running_,        \* TcpServer::running_
  socket_,         \* the Acceptor's socket: "null", "open" or "closed"
  connections_,    \* TcpServer::connections_
  mutex_,          \* holder of TcpServer::mutex_
  acceptor_mutex_, \* holder of Acceptor::mutex_
  owner,           \* where the owner stands
  swept,           \* connections stop() has still to disconnect
  \* the connections
  made,            \* constructed connections
  alive,           \* TcpConnection::running_ of each
  conn_mutex_,     \* holder of TcpConnection::mutex_ of each
  writes,          \* buffers in write_buffer_ of each
  writing,         \* channels with EVENT_OUT enabled
  callback,        \* connections with disconnect_cb_ set
  \* TaskScheduler, SelectManager
  trigger_events_, \* pending [op, conn] events
  channels_,       \* registered channels
  reset_,          \* the three is_fd_*_reset_ flags, which move together here
  write_backup_,   \* fd_write_backup_
  event_list,      \* collected and not yet dispatched: [conn, events]
  loop,            \* where the loop thread stands: [at, conn, events, trigger]
  user,            \* where each user thread stands: [at, conn]
  \* history
  leaked,          \* accepted by the kernel, returned as kInvalidSocket
  appended,        \* number of buffers appended
  disconnected     \* how often disconnect_cb_ ran for each connection

peerVars == <<queue, readable, urgent>>
serverVars == <<running_, socket_, connections_, mutex_, acceptor_mutex_, owner, swept>>
connVars == <<made, alive, conn_mutex_, writes, writing, callback>>
loopVars == <<trigger_events_, channels_, reset_, write_backup_, event_list, loop>>
histVars == <<leaked, appended, disconnected>>
vars == <<peerVars, serverVars, connVars, loopVars, user, histVars>>

At(place) == [at |-> place, conn |-> Listener, events |-> {}, trigger |-> FALSE]
IdleUser == [at |-> "idle", conn |-> Listener]

\* TcpServer::running_ has no initializer and the project builds as C++17, so
\* it starts with either value.
Init ==
  /\ queue = {} /\ readable = {} /\ urgent = {}
  /\ running_ \in BOOLEAN
  /\ socket_ = "null" /\ connections_ = {}
  /\ mutex_ = Nobody /\ acceptor_mutex_ = Nobody /\ owner = "new" /\ swept = {}
  /\ made = {} /\ alive = {} /\ conn_mutex_ = [c \in Clients |-> Nobody]
  /\ writes = [c \in Clients |-> 0] /\ writing = {} /\ callback = {}
  /\ trigger_events_ = <<>> /\ channels_ = {} /\ reset_ = TRUE /\ write_backup_ = {}
  /\ event_list = {} /\ loop = At("trigger")
  /\ user = [u \in Users |-> IdleUser]
  /\ leaked = {} /\ appended = 0 /\ disconnected = [c \in Clients |-> 0]

-----------------------------------------------------------------------------
(* Peers *)

Connect(c) == /\ socket_ = "open"
              /\ c \notin queue \cup made \cup leaked
              /\ queue' = queue \cup {c}
              /\ UNCHANGED <<readable, urgent, serverVars, connVars, loopVars, user, histVars>>

\* Data or a hang-up makes the socket readable; nothing ever reads it empty.
PeerSends(c) == /\ c \in made \ readable
                /\ readable' = readable \cup {c}
                /\ UNCHANGED <<queue, urgent, serverVars, connVars, loopVars, user, histVars>>

PeerSendsUrgent(c) == /\ c \in made \ urgent
                      /\ urgent' = urgent \cup {c}
                      /\ UNCHANGED <<queue, readable, serverVars, connVars, loopVars, user,
                                     histVars>>

-----------------------------------------------------------------------------
(* The owner: TcpServer::start and TcpServer::stop *)

\* Mutant: the Acceptor has no mutex.
AcceptorUnguarded == TRUE

\* Acceptor::mutex_ is free.
AcceptorFree == acceptor_mutex_ = Nobody

\* start: Acceptor::listen registers the listening channel.
Start ==
  /\ owner = "new"
  /\ IF running_
       THEN UNCHANGED <<running_, socket_, channels_, reset_>>
       ELSE /\ AcceptorFree
            /\ socket_' = "open"
            /\ channels_' = channels_ \cup {Listener}
            /\ reset_' = TRUE
            /\ running_' = TRUE
  /\ owner' = "started"
  /\ UNCHANGED <<peerVars, connections_, mutex_, acceptor_mutex_, swept, connVars,
                 trigger_events_, write_backup_, event_list, loop, user, histVars>>

\* stop: take the mutex and walk over the connections.
StopSweep == /\ owner = "started"
             /\ running_
             /\ mutex_ = Nobody
             /\ mutex_' = Owner
             /\ swept' = connections_
             /\ owner' = "sweep"
             /\ UNCHANGED <<peerVars, running_, socket_, connections_, acceptor_mutex_,
                            connVars, loopVars, user, histVars>>

\* TcpConnection::disconnect posts the close to the loop.
Disconnect(c) == /\ owner = "sweep"
                 /\ c \in swept
                 /\ conn_mutex_[c] = Nobody
                 /\ trigger_events_' = Append(trigger_events_, [op |-> "close", conn |-> c])
                 /\ swept' = swept \ {c}
                 /\ UNCHANGED <<peerVars, running_, socket_, connections_, mutex_,
                                acceptor_mutex_, owner, connVars, channels_, reset_,
                                write_backup_, event_list, loop, user, histVars>>

\* Mutant: stop keeps the mutex while it closes the Acceptor.
SweepDoneHolding == /\ owner = "sweep"
                    /\ swept = {}
                    /\ owner' = "close"
                    /\ UNCHANGED <<peerVars, running_, socket_, connections_, mutex_,
                                   acceptor_mutex_, swept, connVars, loopVars, user,
                                   histVars>>

SweepDone == /\ owner = "sweep"
             /\ swept = {}
             /\ mutex_' = Nobody
             /\ owner' = "close"
             /\ UNCHANGED <<peerVars, running_, socket_, connections_, acceptor_mutex_,
                            swept, connVars, loopVars, user, histVars>>

\* Acceptor::close, then running_ = false.  socket_ is null when running_
\* started out true: the dereference ends the process.
CloseAcceptor ==
  /\ owner = "close"
  /\ AcceptorFree
  /\ IF socket_ = "null"
       THEN owner' = "crashed" /\ UNCHANGED <<queue, running_, socket_, channels_, reset_>>
       ELSE /\ queue' = {}
            /\ channels_' = channels_ \ {Listener}
            /\ reset_' = TRUE
            /\ socket_' = "closed"
            /\ running_' = FALSE
            /\ owner' = "wait"
  /\ UNCHANGED <<readable, urgent, connections_, mutex_, acceptor_mutex_, swept, connVars,
                 trigger_events_, write_backup_, event_list, loop, user, histVars>>

\* The polling loop at the end of stop reads connections_ without the mutex.
StopReturn == /\ owner = "wait"
              /\ connections_ = {}
              /\ owner' = "stopped"
              /\ UNCHANGED <<peerVars, running_, socket_, connections_, mutex_,
                             acceptor_mutex_, swept, connVars, loopVars, user, histVars>>

Stopping == SweepDone \/ CloseAcceptor \/ StopReturn \/ \E c \in Clients : Disconnect(c)

-----------------------------------------------------------------------------
(* TcpConnection::close.  The test of running_ is one step, made by the    *)
(* caller; the rest is another.  The loop calls it with the connection's   *)
(* mutex from an event and without it from a trigger event.                *)

\* Mutant: the channel stays registered.
CloseKeepsChannel(c) ==
  /\ alive' = alive \ {c}
  /\ IF c \in callback
       THEN /\ trigger_events_' = Append(trigger_events_, [op |-> "remove", conn |-> c])
            /\ disconnected' = [disconnected EXCEPT ![c] = @ + 1]
       ELSE UNCHANGED <<trigger_events_, disconnected>>
  /\ UNCHANGED <<channels_, reset_>>

\* Mutant: running_ is not cleared.
CloseStaysRunning(c) ==
  /\ channels_' = channels_ \ {c}
  /\ reset_' = (reset_ \/ c \in channels_)
  /\ IF c \in callback
       THEN /\ trigger_events_' = Append(trigger_events_, [op |-> "remove", conn |-> c])
            /\ disconnected' = [disconnected EXCEPT ![c] = @ + 1]
       ELSE UNCHANGED <<trigger_events_, disconnected>>
  /\ UNCHANGED alive

CloseEffects(c) ==
  /\ alive' = alive \ {c}
  /\ channels_' = channels_ \ {c}
  /\ reset_' = (reset_ \/ c \in channels_)
  /\ IF c \in callback
       THEN /\ trigger_events_' = Append(trigger_events_, [op |-> "remove", conn |-> c])
            /\ disconnected' = [disconnected EXCEPT ![c] = @ + 1]
       ELSE UNCHANGED <<trigger_events_, disconnected>>

\* Mutant: the last buffer does not count.
NothingElse(c) == writes[c] <= 1

\* BufferWriter::empty
NothingToWrite(c) == writes[c] = 0

\* BufferWriter::send pops one buffer, whatever part of it the socket takes;
\* then onWrite asks for EVENT_OUT while buffers are left.  The write set of
\* SelectManager is not refreshed.
WriteOne(c) == /\ writes' = [writes EXCEPT ![c] = @ - 1]
               /\ writing' = IF writes[c] = 1 THEN writing \ {c} ELSE writing \cup {c}

Release(c) == conn_mutex_' = [conn_mutex_ EXCEPT ![c] = Nobody]

-----------------------------------------------------------------------------
(* The loop thread *)

\* handleTriggerEvent: run the first event, or go on to handleEvent.
RunTrigger ==
  /\ loop.at = "trigger"
  /\ IF trigger_events_ = <<>>
       THEN loop' = At("poll") /\ UNCHANGED trigger_events_
       ELSE LET ev == Head(trigger_events_) IN
              /\ trigger_events_' = Tail(trigger_events_)
              /\ loop' = IF ev.op = "close" /\ ev.conn \notin alive
                           THEN At("trigger")
                           ELSE [At(ev.op) EXCEPT !.conn = ev.conn, !.trigger = TRUE]
  /\ UNCHANGED <<peerVars, serverVars, connVars, channels_, reset_, write_backup_,
                 event_list, user, histVars>>

\* Mutant: nothing is removed once the server has stopped.
RemoveWhileRunning ==
  /\ loop.at = "remove"
  /\ mutex_ = Nobody
  /\ connections_' = IF running_ THEN connections_ \ {loop.conn} ELSE connections_
  /\ loop' = At("trigger")
  /\ UNCHANGED <<peerVars, running_, socket_, mutex_, acceptor_mutex_, owner, swept,
                 connVars, trigger_events_, channels_, reset_, write_backup_,
                 event_list, user, histVars>>

\* TcpServer::removeConnection
RemoveConnection ==
  /\ loop.at = "remove"
  /\ mutex_ = Nobody
  /\ connections_' = connections_ \ {loop.conn}
  /\ loop' = At("trigger")
  /\ UNCHANGED <<peerVars, running_, socket_, mutex_, acceptor_mutex_, owner, swept,
                 connVars, trigger_events_, channels_, reset_, write_backup_,
                 event_list, user, histVars>>

\* SelectManager::handleEvent: refresh the write set if asked to, select,
\* collect.  A socket in the write set is ready unless its send buffer is full.
Ready(c, wset) ==
  IF c = Listener THEN IF queue # {} THEN {"IN"} ELSE {}
  ELSE {e \in {"IN", "OUT", "HUP"} :
          c \in (CASE e = "IN" -> readable [] e = "OUT" -> wset [] e = "HUP" -> urgent)}

Select ==
  /\ loop.at = "poll"
  /\ write_backup_' = IF reset_ THEN writing \cap channels_ ELSE write_backup_
  /\ reset_' = FALSE
  /\ \E full \in SUBSET Clients :
       event_list' = {r \in {[conn |-> c, events |-> Ready(c, write_backup_' \ full)] :
                             c \in channels_} : r.events # {}}
  /\ loop' = At("dispatch")
  /\ UNCHANGED <<peerVars, serverVars, connVars, trigger_events_, channels_, user, histVars>>

Dispatch ==
  /\ loop.at = "dispatch"
  /\ IF event_list = {}
       THEN loop' = At("trigger") /\ UNCHANGED event_list
       ELSE \E r \in event_list :
              /\ event_list' = event_list \ {r}
              /\ loop' = [At("handle") EXCEPT !.conn = r.conn, !.events = r.events]
  /\ UNCHANGED <<peerVars, serverVars, connVars, trigger_events_, channels_, reset_,
                 write_backup_, user, histVars>>

\* Channel::handleEvent calls the read, write and close callbacks in turn.
NextEvent == IF "IN" \in loop.events THEN "IN"
             ELSE IF "OUT" \in loop.events THEN "OUT" ELSE "HUP"

After(e) == IF loop.events = {e} THEN At("dispatch")
            ELSE [loop EXCEPT !.at = "handle", !.events = @ \ {e}]

\* onRead of an active connection ends in close: BufferReader::read(fd) sends
\* its own empty buffer instead of receiving and so returns 0.  onWrite closes
\* when there is nothing to write; onClose closes.  Inactive: nothing happens.
HandleConnection ==
  LET c == loop.conn
      e == NextEvent
  IN /\ loop.at = "handle"
     /\ c # Listener
     /\ conn_mutex_[c] = Nobody
     /\ IF c \in alive /\ (e = "OUT" => NothingToWrite(c))
          THEN /\ conn_mutex_' = [conn_mutex_ EXCEPT ![c] = LoopThread]
               /\ loop' = [loop EXCEPT !.at = "close"]
               /\ UNCHANGED <<writes, writing>>
          ELSE /\ loop' = After(e)
               /\ IF c \in alive
                    THEN WriteOne(c)
                    ELSE UNCHANGED <<writes, writing>>
               /\ UNCHANGED conn_mutex_
     /\ UNCHANGED <<peerVars, serverVars, made, alive, callback, trigger_events_,
                    channels_, reset_, write_backup_, event_list, user, histVars>>

LoopClose ==
  /\ loop.at = "close"
  /\ CloseEffects(loop.conn)
  /\ IF loop.trigger
       THEN loop' = At("trigger") /\ UNCHANGED conn_mutex_
       ELSE loop' = After(NextEvent) /\ Release(loop.conn)
  /\ UNCHANGED <<peerVars, serverVars, made, writes, writing, callback, write_backup_,
                 event_list, user, leaked, appended>>

\* The value of running_ after the constructor.
RunningWhenMade(c) == c \in Activated

\* Acceptor::onAccept.  accept() passes sizeof(char *) as the room for the
\* address text, so a longer one makes it return kInvalidSocket although the
\* kernel has accepted; its address length is uninitialised, so the kernel may
\* also refuse the call and drop the peer.
Accept ==
  /\ loop.at = "handle"
  /\ loop.conn = Listener
  /\ AcceptorFree
  /\ \/ /\ socket_ = "open" => queue = {}
        /\ loop' = After("IN")
        /\ UNCHANGED <<queue, acceptor_mutex_, made, alive, channels_, reset_, leaked>>
     \/ /\ socket_ = "open"
        /\ \E c \in queue :
             /\ queue' = queue \ {c}
             /\ IF c \in LongAddress
                  THEN /\ leaked' = leaked \cup {c}
                       /\ loop' = After("IN")
                       /\ UNCHANGED <<acceptor_mutex_, made, alive, channels_, reset_>>
                  ELSE /\ made' = made \cup {c}
                       /\ alive' = IF RunningWhenMade(c) THEN alive \cup {c} ELSE alive
                       /\ channels_' = channels_ \cup {c}
                       /\ reset_' = TRUE
                       /\ acceptor_mutex_' = LoopThread
                       /\ loop' = [loop EXCEPT !.at = "add", !.conn = c]
                       /\ UNCHANGED leaked
  /\ UNCHANGED <<readable, urgent, running_, socket_, connections_, mutex_, owner, swept,
                 conn_mutex_, writes, writing, callback, trigger_events_, write_backup_,
                 event_list, user, appended, disconnected>>

AcceptRefused ==
  /\ loop.at = "handle"
  /\ loop.conn = Listener
  /\ AcceptorFree
  /\ \E c \in queue : queue' = queue \ {c}
  /\ loop' = After("IN")
  /\ UNCHANGED <<readable, urgent, serverVars, connVars, trigger_events_, channels_,
                 reset_, write_backup_, event_list, user, histVars>>

AddConnection ==
  /\ loop.at = "add"
  /\ mutex_ = Nobody
  /\ connections_' = connections_ \cup {loop.conn}
  /\ loop' = [loop EXCEPT !.at = "setcb"]
  /\ UNCHANGED <<peerVars, running_, socket_, mutex_, acceptor_mutex_, owner, swept,
                 connVars, trigger_events_, channels_, reset_, write_backup_,
                 event_list, user, histVars>>

SetDisconnectCallback ==
  /\ loop.at = "setcb"
  /\ callback' = callback \cup {loop.conn}
  /\ acceptor_mutex_' = Nobody
  /\ loop' = At("dispatch")
  /\ UNCHANGED <<peerVars, running_, socket_, connections_, mutex_, owner, swept,
                 made, alive, conn_mutex_, writes, writing, trigger_events_, channels_,
                 reset_, write_backup_, event_list, user, histVars>>

Loop == \/ RunTrigger \/ RemoveConnection \/ Select \/ Dispatch \/ HandleConnection
        \/ LoopClose \/ Accept \/ AcceptRefused \/ AddConnection \/ SetDisconnectCallback

-----------------------------------------------------------------------------
(* User threads: TcpConnection::send = append under the mutex, then onWrite *)

Append1(u, c) == /\ user[u] = IdleUser
                 /\ c \in Shared \cap made \cap alive
                 /\ conn_mutex_[c] = Nobody
                 /\ appended < MaxAppends
                 /\ appended' = appended + 1
                 /\ writes' = [writes EXCEPT ![c] = @ + 1]
                 /\ user' = [user EXCEPT ![u] = [at |-> "write", conn |-> c]]
                 /\ UNCHANGED <<peerVars, serverVars, made, alive, conn_mutex_, writing,
                                callback, loopVars, leaked, disconnected>>

UserWrite(u) ==
  LET c == user[u].conn
  IN /\ user[u].at = "write"
     /\ conn_mutex_[c] = Nobody
     /\ IF c \in alive /\ NothingToWrite(c)
          THEN /\ conn_mutex_' = [conn_mutex_ EXCEPT ![c] = u]
               /\ user' = [user EXCEPT ![u].at = "close"]
               /\ UNCHANGED <<writes, writing>>
          ELSE /\ user' = [user EXCEPT ![u] = IdleUser]
               /\ IF c \in alive
                    THEN WriteOne(c)
                    ELSE UNCHANGED <<writes, writing>>
               /\ UNCHANGED conn_mutex_
     /\ UNCHANGED <<peerVars, serverVars, made, alive, callback, loopVars, histVars>>

UserClose(u) ==
  LET c == user[u].conn
  IN /\ user[u].at = "close"
     /\ CloseEffects(c)
     /\ Release(c)
     /\ user' = [user EXCEPT ![u] = IdleUser]
     /\ UNCHANGED <<peerVars, serverVars, made, writes, writing, callback, write_backup_,
                    event_list, loop, leaked, appended>>

User(u) == UserWrite(u) \/ UserClose(u)

-----------------------------------------------------------------------------
Next == \/ Start \/ StopSweep \/ Stopping \/ Loop
        \/ \E c \in Clients : Connect(c) \/ PeerSends(c) \/ PeerSendsUrgent(c)
        \/ \E u \in Users : User(u) \/ \E c \in Clients : Append1(u, c)

Spec == Init /\ [][Next]_vars

\* The loop, the thread inside stop() and the threads inside send() run when
\* they can and get the mutexes they wait for.  Peers hang up in the end.
Fairness == /\ SF_vars(Loop) /\ SF_vars(Stopping)
            /\ \A u \in Users : SF_vars(User(u))
            /\ \A c \in Clients : WF_vars(PeerSends(c))

FairSpec == Spec /\ Fairness

-----------------------------------------------------------------------------
ConnOrListener == Clients \cup {Listener}

TypeOK ==
  /\ queue \subseteq Clients /\ readable \subseteq Clients /\ urgent \subseteq Clients
  /\ running_ \in BOOLEAN /\ socket_ \in {"null", "open", "closed"}
  /\ connections_ \subseteq made /\ swept \subseteq Clients
  /\ mutex_ \in {Nobody, Owner} /\ acceptor_mutex_ \in {Nobody, LoopThread}
  /\ owner \in {"new", "started", "sweep", "close", "wait", "stopped", "crashed"}
  /\ made \subseteq Clients /\ alive \subseteq made /\ callback \subseteq made
  /\ conn_mutex_ \in [Clients -> Users \cup {Nobody, LoopThread}]
  /\ writes \in [Clients -> 0 .. MaxAppends] /\ writing \subseteq made
  /\ trigger_events_ \in Seq([op : {"close", "remove"}, conn : Clients])
  /\ channels_ \subseteq ConnOrListener /\ write_backup_ \subseteq Clients
  /\ reset_ \in BOOLEAN
  /\ event_list \subseteq [conn : ConnOrListener, events : SUBSET {"IN", "OUT", "HUP"}]
  /\ loop \in [at : {"trigger", "poll", "dispatch", "handle", "add", "setcb", "close",
                     "remove"},
               conn : ConnOrListener, events : SUBSET {"IN", "OUT", "HUP"},
               trigger : BOOLEAN]
  /\ user \in [Users -> [at : {"idle", "write", "close"}, conn : ConnOrListener]]
  /\ leaked \subseteq LongAddress /\ appended \in 0 .. MaxAppends
  /\ disconnected \in [Clients -> Nat]

\* Somebody holds a shared_ptr to the connection: the server's map, onAccept
\* until it has added it, a posted or running close, a user inside send.
Referenced(c) ==
  \/ c \in connections_
  \/ loop.conn = c /\ (loop.at \in {"add", "setcb"} \/ (loop.at = "close" /\ loop.trigger))
  \/ \E i \in DOMAIN trigger_events_ : trigger_events_[i] = [op |-> "close", conn |-> c]
  \/ \E u \in Users : user[u].conn = c

\* The channel's callbacks hold a raw this (TcpConnection.cpp:8-11).  Whatever
\* the loop has registered, collected or is dispatching still exists, since a
\* connection leaves the map only by an event the loop runs between two rounds
\* of dispatch (TcpServer.cpp:11-17).
NoDanglingChannel ==
  LET inUse == channels_ \cup {r.conn : r \in event_list}
                 \cup (IF loop.at = "handle" THEN {loop.conn} ELSE {})
  IN  \A c \in inUse \ {Listener} : Referenced(c)

\* Once stop() has closed the Acceptor no connection is added any more, even
\* one whose accept was under way (Acceptor.cpp:38-58 hold one mutex).
NoConnectionAfterClose ==
  [][(owner \in {"wait", "stopped"}) => connections_' \subseteq connections_]_vars

\* close tests and clears running_ in two steps (TcpConnection.cpp:107-121).  The
\* callbacks take the connection's mutex around it, the close that disconnect
\* posts does not: a disconnection is reported once when only the loop touches
\* the connection, and never more than twice, however many events, sends and
\* posted closes are in flight.
DisconnectedOnce ==
  \A c \in Clients : disconnected[c] <= 1 \/ (c \in Shared /\ disconnected[c] = 2)

\* Every active connection that is closed leaves the map, which stop() waits for
\* (TcpServer.cpp:11-17, 52-55), although it is alive, and in the map, before its
\* disconnect callback is set: nobody closes it in between.  The loop is busy, the
\* close that stop() posts comes after, and a thread inside send finds a buffer to
\* send as long as the loop has taken none.
DisconnectedIsRemoved ==
  \A c \in Activated : (c \in made \ alive) ~> c \notin connections_

\* When the connections stop() waits for are active and peers hang up some time,
\* stop() returns, also when one was accepted between the walk over the
\* connections and the close of the Acceptor, and whoever closes them.
StopReturns ==
  (owner = "wait" /\ connections_ \subseteq Activated) ~> (owner = "stopped")

\* stop() never waits for ever for one of the mutexes: it holds the server's
\* while it takes the connections', the loop holds the Acceptor's or a
\* connection's while it takes the server's or posts an event.
StopReachesTheWait == owner \in {"sweep", "close"} ~> owner \in {"wait", "crashed"}

\* The library alone never activates a connection (TcpConnection.h:43 starts
\* running_ as false and only close writes it, with false), so a connection
\* that no subclass activates is, once added, never removed: neither a hang-up
\* nor the close that stop() posts reaches TcpServer::removeConnection.
NeverRemovedAsShipped == [][connections_ \ Activated \subseteq connections_']_vars

\* "\return the accepted socket" (Socket.h:36-39): what the kernel accepted
\* is returned.
AcceptedSocketReturned == leaked = {}
=============================================================================
