----------------------------- MODULE MsQuicServer -----------------------------
(***************************************************************************)
(* The life of the daemon's QUIC servers (daemon/src/msquic_server.cpp)    *)
(* and of the main function that owns them (daemon/src/main.cpp).          *)
(*                                                                         *)
(* main starts the servers one after the other; start() may fail half-way, *)
(* and then keeps what it has opened and lets the daemon run on.  msquic's *)
(* workers call back for connections and streams from the moment a         *)
(* listener starts.  A signal clears g_running; main leaves its loop,      *)
(* joins the watchdog, and the destructors stop the servers in the         *)
(* opposite order.                                                         *)
(*                                                                         *)
(* What is assumed of msquic: callbacks of one object do not overlap;      *)
(* ListenerClose waits for callbacks of the listener; after StreamClose or *)
(* ConnectionClose an object is not called back any more; every stream of  *)
(* a connection that ends gets SHUTDOWN_COMPLETE; and RegistrationClose    *)
(* waits until its connections and streams are gone.                       *)
(***************************************************************************)
EXTENDS Naturals, Sequences

CONSTANTS
    Servers,    \* the servers in the order main declares and starts them
    Conn,       \* connections clients may open
    Stream,     \* streams they may open on them
    None        \* the server of a connection, or connection of a stream, not opened yet

Server == {Servers[i] : i \in 1..Len(Servers)}

ASSUME ServersAssumption ==
    /\ Servers \in Seq(Server) /\ Len(Servers) > 0
    /\ \A i, j \in 1..Len(Servers) : Servers[i] = Servers[j] => i = j
ASSUME NoneAssumption == None \notin Server \cup Conn

VARIABLES
    main,       \* what main does
    cur,        \* the server it starts or stops
    stage,      \* the call start() makes next
    running,    \* g_running
    waiting,    \* main is blocked in receive_from
    watchdog,   \* watchdog_thr has not ended
    handles,    \* the handles of each server that are not null
    callback,   \* servers whose on_message_ is set
    listening,  \* servers whose listener has been started
    owner,      \* server of each connection
    up,         \* connections msquic may call back
    of,         \* connection of each stream
    open,       \* streams msquic may call back
    ctx         \* StreamCtx objects alive: new minus delete, per stream

quic == <<owner, up, of, open, ctx>>
server == <<handles, callback, listening>>
control == <<main, cur, stage, running, waiting, watchdog>>
vars == <<control, server, quic>>
-----------------------------------------------------------------------------
Handle == {"Api", "Registration", "Configuration", "Listener"}

\* The calls start() makes, each of which may fail.
Calls == <<"Api", "Registration", "Configuration", "LoadCredential", "Listener", "ListenerStart">>

Init ==
    /\ main = "starting" /\ cur = 1 /\ stage = 1
    /\ running = TRUE /\ waiting = FALSE /\ watchdog = TRUE
    /\ handles = [s \in Server |-> {}]
    /\ callback = {} /\ listening = {}
    /\ owner = [c \in Conn |-> None] /\ up = {}
    /\ of = [st \in Stream |-> None] /\ open = {}
    /\ ctx = [st \in Stream |-> 0]

-----------------------------------------------------------------------------
\* start() returns: main goes on to the next server, or into its loop.
Started ==
    /\ stage' = 1
    /\ IF cur < Len(Servers)
       THEN cur' = cur + 1 /\ main' = "starting"
       ELSE cur' = cur /\ main' = "serving"

\* The next call of start() succeeds.
StartCall ==
    LET s == Servers[cur]  call == Calls[stage] IN
    /\ main = "starting"
    /\ callback' = callback \cup {s}
    /\ handles' = [handles EXCEPT ![s] = @ \cup ({call} \cap Handle)]
    /\ listening' = IF call = "ListenerStart" THEN listening \cup {s} ELSE listening
    /\ IF stage < Len(Calls)
       THEN stage' = stage + 1 /\ UNCHANGED <<main, cur>>
       ELSE Started
    /\ UNCHANGED <<running, waiting, watchdog, quic>>

\* It fails, and start() returns false without closing anything.
StartFails ==
    /\ main = "starting"
    /\ callback' = callback \cup {Servers[cur]}
    /\ Started
    /\ UNCHANGED <<running, waiting, watchdog, handles, listening, quic>>

\* SIGINT or SIGTERM.  signal() restarts a blocked receive, so nothing else happens.
Signal ==
    /\ running
    /\ running' = FALSE
    /\ UNCHANGED <<main, cur, stage, waiting, watchdog, server, quic>>

\* The UDP loop tests g_running only between two datagrams.
WaitForDatagram ==
    /\ main = "serving" /\ ~waiting /\ running
    /\ waiting' = TRUE
    /\ UNCHANGED <<main, cur, stage, running, watchdog, server, quic>>

Datagram ==
    /\ waiting
    /\ waiting' = FALSE
    /\ UNCHANGED <<main, cur, stage, running, watchdog, server, quic>>

LeaveLoop ==
    /\ main = "serving" /\ ~waiting /\ ~running
    /\ main' = "joining"
    /\ UNCHANGED <<cur, stage, running, waiting, watchdog, server, quic>>

WatchdogEnds ==
    /\ watchdog /\ ~running
    /\ watchdog' = FALSE
    /\ UNCHANGED <<main, cur, stage, running, waiting, server, quic>>

Join ==
    /\ main = "joining" /\ ~watchdog
    /\ main' = "stopping"
    /\ UNCHANGED <<cur, stage, running, waiting, watchdog, server, quic>>

-----------------------------------------------------------------------------
\* Everything msquic still has to tell server s about has been told.
Quiet(s) ==
    /\ \A c \in up : owner[c] # s
    /\ \A st \in open : owner[of[st]] # s

\* One call of stop() on the current server: closes h, when those closed before
\* it are null.
CloseAfter(h, before) ==
    LET s == Servers[cur] IN
    /\ main = "stopping"
    /\ h \in handles[s] /\ handles[s] \cap before = {}
    /\ h = "Registration" => Quiet(s)
    /\ handles' = [handles EXCEPT ![s] = @ \ {h}]
    /\ listening' = IF h = "Listener" THEN listening \ {s} ELSE listening
    /\ UNCHANGED <<control, callback, quic>>

\* Faulty: closes in the order of opening.
StopCallFirstToLast ==
    \/ CloseAfter("Api", {})
    \/ CloseAfter("Registration", {"Api"})
    \/ CloseAfter("Configuration", {"Api", "Registration"})
    \/ CloseAfter("Listener", {"Api", "Registration", "Configuration"})

\* stop()
StopCall ==
    \/ CloseAfter("Listener", {})
    \/ CloseAfter("Configuration", {"Listener"})
    \/ CloseAfter("Registration", {"Listener", "Configuration"})
    \/ CloseAfter("Api", {"Listener", "Configuration", "Registration"})

Destroyed ==
    /\ IF cur > 1 THEN cur' = cur - 1 /\ UNCHANGED main ELSE main' = "gone" /\ UNCHANGED cur
    /\ UNCHANGED <<stage, running, waiting, watchdog, handles, listening, quic>>

\* Faulty: stop() closes only what a listener stands for.
StoppedUnlessListening ==
    /\ main = "stopping"
    /\ "Listener" \notin handles[Servers[cur]]
    /\ callback' = callback \ {Servers[cur]}
    /\ Destroyed

\* stop() has closed all it had; it clears on_message_ and the object is gone.
Stopped ==
    /\ main = "stopping"
    /\ handles[Servers[cur]] = {}
    /\ callback' = callback \ {Servers[cur]}
    /\ Destroyed

-----------------------------------------------------------------------------
\* listener_cb: NEW_CONNECTION
NewConnection(c, s) ==
    /\ s \in listening /\ owner[c] = None
    /\ owner' = [owner EXCEPT ![c] = s]
    /\ up' = up \cup {c}
    /\ UNCHANGED <<of, open, ctx, server, control>>

\* conn_cb: PEER_STREAM_STARTED
PeerStreamStarted(c, st) ==
    /\ c \in up /\ of[st] = None
    /\ of' = [of EXCEPT ![st] = c]
    /\ open' = open \cup {st}
    /\ ctx' = [ctx EXCEPT ![st] = @ + 1]
    /\ UNCHANGED <<owner, up, server, control>>

\* Faulty: the handle stays open, for the next event.
StreamEndKeepsHandle(st) ==
    /\ st \in open
    /\ ctx' = [ctx EXCEPT ![st] = @ - 1]
    /\ UNCHANGED <<open, owner, up, of, server, control>>

\* stream_cb: PEER_SEND_SHUTDOWN or SHUTDOWN_COMPLETE, StreamClose and delete.
\* Either may be the first that is heard of the end of a stream.
StreamEnd(st) ==
    /\ st \in open
    /\ open' = open \ {st}
    /\ ctx' = [ctx EXCEPT ![st] = @ - 1]
    /\ UNCHANGED <<owner, up, of, server, control>>

\* Faulty: logs the event and leaves the connection to somebody else.
ConnectionEndUnclosed(c) == c \in up /\ UNCHANGED vars

\* conn_cb: the cases of a shutdown fall through to ConnectionClose, whichever
\* comes first.
ConnectionEnd(c) ==
    /\ c \in up
    /\ up' = up \ {c}
    /\ UNCHANGED <<owner, of, open, ctx, server, control>>

-----------------------------------------------------------------------------
Main ==
    \/ StartCall
    \/ WaitForDatagram
    \/ LeaveLoop
    \/ Join
    \/ StopCall
    \/ Stopped

Next ==
    \/ Main
    \/ StartFails
    \/ Signal
    \/ Datagram
    \/ WatchdogEnds
    \/ \E c \in Conn, s \in Server : NewConnection(c, s)
    \/ \E c \in Conn, st \in Stream : PeerStreamStarted(c, st)
    \/ \E st \in Stream : StreamEnd(st)
    \/ \E c \in Conn : ConnectionEnd(c)

Spec == Init /\ [][Next]_vars

\* main and the watchdog go on when they can; clients leave, or the idle timeout
\* of 30 s ends their connection; msquic then ends its streams.  Nobody has to
\* send a signal or a datagram.
FairSpec ==
    /\ Spec
    /\ WF_vars(Main) /\ WF_vars(WatchdogEnds)
    /\ \A c \in Conn : WF_vars(ConnectionEnd(c))
    /\ \A st \in Stream : WF_vars(StreamEnd(st))
-----------------------------------------------------------------------------
(* Properties *)

\* Types.  A StreamCtx is never deleted twice: ctx would be negative.
TypeOK ==
    /\ main \in {"starting", "serving", "joining", "stopping", "gone"}
    /\ cur \in 1..Len(Servers) /\ stage \in 1..Len(Calls)
    /\ running \in BOOLEAN /\ waiting \in BOOLEAN /\ watchdog \in BOOLEAN
    /\ handles \in [Server -> SUBSET Handle]
    /\ callback \subseteq Server /\ listening \subseteq Server
    /\ owner \in [Conn -> Server \cup {None}] /\ up \subseteq Conn
    /\ of \in [Stream -> Conn \cup {None}] /\ open \subseteq Stream
    /\ ctx \in [Stream -> {0, 1}]

\* A handle is never open without the ones it was opened with, whether start()
\* ran through, failed half-way or stop() is under way.
HandlesNested ==
    \A s \in Server :
        /\ "Listener" \in handles[s] => "Configuration" \in handles[s]
        /\ "Configuration" \in handles[s] => "Registration" \in handles[s]
        /\ "Registration" \in handles[s] => "Api" \in handles[s]

\* A stream that msquic may call back has its StreamCtx; one it may not has none.
ContextMatchesStream == \A st \in Stream : ctx[st] = IF st \in open THEN 1 ELSE 0

\* Whatever msquic may call back belongs to a server that is still there, with
\* the API table and the function a callback uses.
ServerOutlivesCallbacks ==
    \A s \in Server :
        s \in listening \/ ~Quiet(s) => {"Api", "Registration"} \subseteq handles[s] /\ s \in callback

\* When main returns nothing is left open, even after a start that failed.
CleanExit ==
    main = "gone" => /\ \A s \in Server : handles[s] = {}
                     /\ up = {} /\ open = {}

\* A daemon that is told to stop and is not blocked in receive_from comes to its
\* end.  (One that is blocked there waits for one more datagram.)
Exits == (~running /\ ~waiting) ~> (main = "gone")
=============================================================================
