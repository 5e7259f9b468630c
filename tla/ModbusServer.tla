---------------------------- MODULE ModbusServer ----------------------------
(***************************************************************************)
(* The Modbus TCP server (modbus.py: ModbusTcpServer) and the way run()    *)
(* (app.py) ends it: the handler task of each connection, close(), and the *)
(* main task that closes the server and then waits for the poller.         *)
(*                                                                         *)
(* asyncio (Python 3.12) is external: closing a transport sends what is    *)
(* buffered before the connection is lost, Server.close() stops accepting, *)
(* and Server.wait_closed() waits until every connection is lost.          *)
(* MeterRuntime models the poller; here it runs, has failed or has ended.  *)
(***************************************************************************)
EXTENDS Integers, Sequences, SequencesExt

CONSTANTS
    Conns,      \* connections a client may open
    Keys,       \* (peer, unit, function, start, count) of a request
    NoKey,      \* a request that gets an exception response
    Limit       \* _MAX_INTERVAL_SIGNATURES

ASSUME ServerAssumption ==
    /\ NoKey \notin Keys
    /\ Limit \in Nat \ {0}

VARIABLES
    main,       \* run(): "serving", "closing", "joining", "exited"
    stop,       \* stop_event
    poller,     \* poll_task: "running", "failed" or "ended"
    closing,    \* self._closing
    listening,  \* self._server accepts connections
    clients,    \* self._clients
    handler,    \* _handle_client of each connection
    transport,  \* its connection: "none", "open", "closing" or "lost"
    unsent,     \* the transport holds responses the peer has not read
    recent,     \* keys of self._last_request_at, oldest first
    asked       \* history: every key ever answered, latest last

runVars == <<main, stop, poller>>
serverVars == <<closing, listening, clients>>
connVars == <<handler, transport, unsent>>
cacheVars == <<recent, asked>>
vars == <<runVars, serverVars, connVars, cacheVars>>

Init ==
    /\ main = "serving" /\ stop = FALSE /\ poller = "running"
    /\ closing = FALSE /\ listening = TRUE /\ clients = {}
    /\ handler = [c \in Conns |-> "none"]
    /\ transport = [c \in Conns |-> "none"]
    /\ unsent = [c \in Conns |-> FALSE]
    /\ recent = <<>> /\ asked = <<>>
-----------------------------------------------------------------------------
(* The peer and its connection *)

\* asyncio makes a transport and a handler task that has not started yet.
Connect(c) ==
    /\ listening /\ handler[c] = "none"
    /\ handler' = [handler EXCEPT ![c] = "created"]
    /\ transport' = [transport EXCEPT ![c] = "open"]
    /\ UNCHANGED <<runVars, serverVars, unsent, cacheVars>>

PeerReads(c) ==
    /\ unsent[c] /\ transport[c] # "lost"
    /\ unsent' = [unsent EXCEPT ![c] = FALSE]
    /\ UNCHANGED <<runVars, serverVars, handler, transport, cacheVars>>

Lost(c) ==
    /\ transport' = [transport EXCEPT ![c] = "lost"]
    /\ unsent' = [unsent EXCEPT ![c] = FALSE]
    /\ UNCHANGED <<runVars, serverVars, handler, cacheVars>>

\* A reset by the peer, at any time.
PeerResets(c) == transport[c] \in {"open", "closing"} /\ Lost(c)

\* A closed transport has sent what it held.
Flushed(c) == transport[c] = "closing" /\ ~unsent[c] /\ Lost(c)
-----------------------------------------------------------------------------
(* _handle_client *)

ClosedOne(c) == [transport EXCEPT ![c] = IF @ = "open" THEN "closing" ELSE @]

\* finally: writer.close(), and the handler waits for the connection's end.
Leave(c) ==
    /\ handler' = [handler EXCEPT ![c] = "leaving"]
    /\ transport' = ClosedOne(c)

\* Mutant of Proceed: the loop does not look at _closing.
ProceedAlways(c) ==
    /\ handler' = [handler EXCEPT ![c] = "reading"]
    /\ UNCHANGED transport

\* while not self._closing
Proceed(c) ==
    \/ closing /\ Leave(c)
    \/ /\ ~closing
       /\ handler' = [handler EXCEPT ![c] = "reading"]
       /\ UNCHANGED transport

Start(c) ==
    /\ handler[c] = "created"
    /\ clients' = clients \cup {c}
    /\ Proceed(c)
    /\ UNCHANGED <<runVars, closing, listening, unsent, cacheVars>>

\* dict.pop(key, None): the other keys keep their order.
Without(keys, key) ==
    IF \E i \in DOMAIN keys : keys[i] = key
    THEN RemoveAt(keys, CHOOSE i \in DOMAIN keys : keys[i] = key)
    ELSE keys

\* Mutant of Remember: one signature too many before the oldest is dropped.
RememberLate(key) ==
    LET others == Without(recent, key)
    IN  IF others = recent /\ Len(others) > Limit
        THEN Append(Tail(others), key)
        ELSE Append(others, key)

\* _last_request_at after a successful request: the key moves to the end.
Remember(key) ==
    LET others == Without(recent, key)
    IN  IF others = recent /\ Len(others) >= Limit
        THEN Append(Tail(others), key)
        ELSE Append(others, key)

\* Mutant of Logged: requests that failed are remembered too.
LoggedAlways(key) == TRUE

\* signature is not None and response_result == "ok"
Logged(key) == key # NoKey

\* A request that has arrived (perhaps just before close()) is answered; the
\* response is dropped when the transport is closed and has nothing to send.
\* drain() returns at once unless the peer is slow and the buffer is full.
Answer(c, key) ==
    /\ handler[c] = "reading" /\ transport[c] \in {"open", "closing"}
    /\ recent' = IF Logged(key) THEN Remember(key) ELSE recent
    /\ asked' = IF Logged(key) THEN Append(Without(asked, key), key) ELSE asked
    /\ \/ Proceed(c) /\ UNCHANGED unsent
       \/ /\ transport[c] = "open" \/ unsent[c]
          /\ unsent' = [unsent EXCEPT ![c] = TRUE]
          /\ \/ Proceed(c)
             \/ /\ handler' = [handler EXCEPT ![c] = "draining"]
                /\ UNCHANGED transport
    /\ UNCHANGED <<runVars, serverVars>>

\* drain() returns when the peer has read.
Drained(c) ==
    /\ handler[c] = "draining" /\ ~unsent[c] /\ transport[c] # "lost"
    /\ Proceed(c)
    /\ UNCHANGED <<runVars, serverVars, unsent, cacheVars>>

\* The connection is lost: readexactly() or drain() raises.
Broken(c) ==
    /\ handler[c] \in {"reading", "draining"} /\ transport[c] = "lost"
    /\ Leave(c)
    /\ UNCHANGED <<runVars, serverVars, unsent, cacheVars>>

\* The peer sends an invalid header or ends the stream.
Hangup(c) ==
    /\ handler[c] = "reading" /\ transport[c] \in {"open", "closing"}
    /\ Leave(c)
    /\ UNCHANGED <<runVars, serverVars, unsent, cacheVars>>

\* wait_closed() returns or raises.  An OSError that is no ConnectionError, as
\* of a peer that timed out, ends the task before its writer is discarded.
Finish(c) ==
    /\ handler[c] = "leaving" /\ transport[c] = "lost"
    /\ handler' = [handler EXCEPT ![c] = "done"]
    /\ clients' = clients \ {c} \/ UNCHANGED clients
    /\ UNCHANGED <<runVars, closing, listening, transport, unsent, cacheVars>>
-----------------------------------------------------------------------------
(* run() and close() *)

StopRequested ==
    /\ main = "serving" /\ ~stop
    /\ stop' = TRUE
    /\ UNCHANGED <<main, poller, serverVars, connVars, cacheVars>>

\* A write has failed: MeterRuntime's main task raises.
PollerFails ==
    /\ poller = "running"
    /\ poller' = "failed"
    /\ UNCHANGED <<main, stop, serverVars, connVars, cacheVars>>

\* MeterRuntime's main task returns because stop_event is set.
PollerEnds ==
    /\ poller = "running" /\ stop
    /\ poller' = "ended"
    /\ UNCHANGED <<main, stop, serverVars, connVars, cacheVars>>

\* Mutant of CloseClients: connections are left to their peers.
CloseNone == UNCHANGED transport

\* for writer in tuple(self._clients): writer.close()
CloseClients ==
    transport' = [c \in Conns |-> IF c \in clients /\ transport[c] = "open"
                                  THEN "closing" ELSE transport[c]]

\* asyncio.wait returns; stop_event is set for the poller; close() begins.
Close ==
    /\ main = "serving"
    /\ stop \/ poller # "running"
    /\ main' = "closing" /\ stop' = TRUE
    /\ closing' = TRUE /\ listening' = FALSE
    /\ CloseClients
    /\ UNCHANGED <<poller, clients, handler, unsent, cacheVars>>

\* Server.wait_closed(), and the clients' wait_closed() with it.
Closed ==
    /\ main = "closing"
    /\ \A c \in Conns : transport[c] \in {"none", "lost"}
    /\ main' = "joining"
    /\ UNCHANGED <<stop, poller, serverVars, connVars, cacheVars>>

\* await poll_task, whose exception is raised.  asyncio.run cancels the
\* handlers that have not ended.
Exit ==
    /\ main = "joining" /\ poller # "running"
    /\ main' = "exited"
    /\ handler' = [c \in Conns |-> IF handler[c] = "none" THEN "none" ELSE "done"]
    /\ clients' = {}
    /\ UNCHANGED <<stop, poller, closing, listening, transport, unsent, cacheVars>>

HandlerStep(c) == Start(c) \/ Drained(c) \/ Broken(c) \/ Finish(c)

Next ==
    \/ \E c \in Conns :
          \/ Connect(c) \/ PeerReads(c) \/ PeerResets(c) \/ Flushed(c)
          \/ HandlerStep(c) \/ Hangup(c)
          \/ \E key \in Keys \cup {NoKey} : Answer(c, key)
    \/ StopRequested \/ PollerFails \/ PollerEnds
    \/ Close \/ Closed \/ Exit

Spec == Init /\ [][Next]_vars

\* Handlers and the main task run when they can, the poller ends (see
\* ShutdownCompletes of MeterRuntime), and a peer reads its responses or its
\* connection breaks: the code has no timeout of its own for that.
FairSpec ==
    /\ Spec
    /\ \A c \in Conns :
          /\ WF_vars(HandlerStep(c)) /\ WF_vars(Flushed(c)) /\ WF_vars(PeerReads(c))
    /\ WF_vars(PollerEnds) /\ WF_vars(Close) /\ WF_vars(Closed) /\ WF_vars(Exit)
-----------------------------------------------------------------------------
(* Properties *)

\* The variables have their types.
TypeOK ==
    /\ main \in {"serving", "closing", "joining", "exited"}
    /\ poller \in {"running", "failed", "ended"}
    /\ stop \in BOOLEAN /\ closing \in BOOLEAN /\ listening \in BOOLEAN
    /\ clients \subseteq Conns
    /\ handler \in [Conns -> {"none", "created", "reading", "draining", "leaving", "done"}]
    /\ transport \in [Conns -> {"none", "open", "closing", "lost"}]
    /\ unsent \in [Conns -> BOOLEAN]
    /\ \A i \in DOMAIN recent : recent[i] \in Keys
    /\ \A i \in DOMAIN asked : asked[i] \in Keys

\* close() forgets no connection: one that is still open while the server
\* closes belongs to a handler that has not started and will see _closing.
NoneForgotten ==
    closing => \A c \in Conns : transport[c] = "open" => handler[c] = "created"

\* The interval log remembers the Limit signatures that were answered last
\* and no other: a repeated request renews its entry, a new one evicts the
\* oldest, and the memory stays bounded.
RecentIsLatest ==
    recent = IF Len(asked) <= Limit THEN asked
             ELSE SubSeq(asked, Len(asked) - Limit + 1, Len(asked))

\* A stop request or a failed poller ends the process, with every Modbus
\* connection, whatever state the handlers are in.
ServiceEnds == (stop \/ poller = "failed") ~> main = "exited"
=============================================================================
