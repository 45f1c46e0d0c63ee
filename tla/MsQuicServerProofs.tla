-------------------------- MODULE MsQuicServerProofs --------------------------
(***************************************************************************)
(* Proofs of MsQuicServer's safety properties, for any number of servers,  *)
(* connections and streams.                                                *)
(*                                                                         *)
(* What the servers still to be started and those already stopped have in  *)
(* common is that they hold nothing; the one main works on holds what its  *)
(* stage of start() says; and whatever msquic may call back has an owner.  *)
(***************************************************************************)
EXTENDS MsQuicServer, TLAPS

Index == 1..Len(Servers)

\* Servers after the current one hold nothing while main starts or stops them.
LaterClosed ==
    \A i \in Index :
        main \in {"starting", "stopping"} /\ i > cur =>
            handles[Servers[i]] = {} /\ Servers[i] \notin listening

\* Once all have been started the last one is the current one, the first to stop.
AtLast == main \in {"serving", "joining"} => cur = Len(Servers)

AllClosed == main = "gone" => \A s \in Server : handles[s] = {}

\* What start() has opened so far on the current server, and no more.
HandlesByStage ==
    main = "starting" =>
        LET h == handles[Servers[cur]] IN
        /\ "Api" \in h <=> stage > 1
        /\ "Registration" \in h <=> stage > 2
        /\ "Configuration" \in h <=> stage > 3
        /\ "Listener" \in h <=> stage > 5

\* A started listener is open, and a server with any handle has its callback.
ListenerOpen == \A s \in listening : "Listener" \in handles[s]
CallbackSet == \A s \in Server : handles[s] # {} => s \in callback

\* msquic calls back only for what some server has accepted.
Owned ==
    /\ \A c \in up : owner[c] \in Server
    /\ \A st \in open : of[st] \in Conn /\ owner[of[st]] \in Server

\* A server with connections or streams has its registration.
RegistrationHeld ==
    \A s \in Server : ~Quiet(s) => "Registration" \in handles[s]

IInv ==
    /\ TypeOK /\ HandlesNested /\ ContextMatchesStream
    /\ LaterClosed /\ AtLast /\ AllClosed /\ HandlesByStage
    /\ ListenerOpen /\ CallbackSet /\ Owned /\ RegistrationHeld
-----------------------------------------------------------------------------
\* The servers main declares are different objects.
LEMMA ServerFacts ==
    /\ Len(Servers) \in Nat \ {0}
    /\ \A i \in Index : Servers[i] \in Server
    /\ \A s \in Server : \E i \in Index : s = Servers[i]
    /\ \A i, j \in Index : Servers[i] = Servers[j] => i = j
BY ServersAssumption DEF Server, Index

LEMMA InitEstablishes == Init => IInv
<1> SUFFICES ASSUME Init PROVE IInv
    OBVIOUS
<1> USE ServerFacts DEF Init
<1>1. TypeOK
    <2>1. cur \in 1..Len(Servers) /\ stage \in 1..Len(Calls)
        BY DEF Calls, Index
    <2> QED BY <2>1 DEF TypeOK
<1>2. HandlesNested /\ ContextMatchesStream
    BY DEF HandlesNested, ContextMatchesStream
<1>3. LaterClosed /\ AtLast /\ AllClosed /\ CallbackSet
    BY DEF LaterClosed, AtLast, AllClosed, CallbackSet
<1>4. HandlesByStage
    BY DEF HandlesByStage, Index
<1>5. ListenerOpen /\ Owned /\ RegistrationHeld
    BY DEF ListenerOpen, Owned, RegistrationHeld, Quiet
<1> QED BY <1>1, <1>2, <1>3, <1>4, <1>5 DEF IInv
-----------------------------------------------------------------------------
\* A successful call of start() opens its handle inside those opened before.
LEMMA StartCallKeeps ==
    ASSUME IInv, StartCall
    PROVE  IInv'
<1> DEFINE s == Servers[cur]  call == Calls[stage]
<1>1. /\ main = "starting" /\ UNCHANGED <<running, waiting, watchdog, quic>>
      /\ callback' = callback \cup {s}
      /\ handles' = [handles EXCEPT ![s] = @ \cup ({call} \cap Handle)]
      /\ listening' = IF call = "ListenerStart" THEN listening \cup {s} ELSE listening
    BY DEF StartCall
<1>2. /\ cur \in Index /\ stage \in 1..6 /\ s \in Server
      /\ handles \in [Server -> SUBSET Handle]
      /\ \A t \in Server :
            handles'[t] = IF t = s THEN handles[s] \cup ({call} \cap Handle) ELSE handles[t]
    BY <1>1, ServerFacts DEF IInv, TypeOK, Calls, Index
<1>3. /\ stage = 1 => call = "Api"
      /\ stage = 2 => call = "Registration"
      /\ stage = 3 => call = "Configuration"
      /\ stage = 4 => call = "LoadCredential"
      /\ stage = 5 => call = "Listener"
      /\ stage = 6 => call = "ListenerStart"
    BY <1>2 DEF Calls
<1>4. /\ stage < 6 => stage' = stage + 1 /\ main' = main /\ cur' = cur
      /\ stage = 6 => /\ stage' = 1
                      /\ \/ cur < Len(Servers) /\ cur' = cur + 1 /\ main' = "starting"
                         \/ cur = Len(Servers) /\ cur' = cur /\ main' = "serving"
    BY <1>2, ServerFacts DEF StartCall, Started, Calls, Index
<1> HIDE DEF s, call
<1>5. TypeOK'
    <2>1. cur' \in Index /\ stage' \in 1..6 /\ main' \in {"starting", "serving"}
        BY <1>1, <1>2, <1>4, ServerFacts DEF Index
    <2>2. handles' \in [Server -> SUBSET Handle] /\ callback' \subseteq Server
          /\ listening' \subseteq Server
        BY <1>1, <1>2 DEF IInv, TypeOK
    <2> QED BY <1>1, <2>1, <2>2 DEF IInv, TypeOK, quic, Calls, Index
<1>6. HandlesNested'
    <2> SUFFICES ASSUME NEW t \in Server
                 PROVE  /\ "Listener" \in handles'[t] => "Configuration" \in handles'[t]
                        /\ "Configuration" \in handles'[t] => "Registration" \in handles'[t]
                        /\ "Registration" \in handles'[t] => "Api" \in handles'[t]
        BY DEF HandlesNested
    <2>1. CASE t # s
        BY <1>2, <2>1 DEF IInv, HandlesNested
    <2>2. CASE t = s
        <3>1. /\ "Api" \in handles[s] <=> stage > 1
              /\ "Registration" \in handles[s] <=> stage > 2
              /\ "Configuration" \in handles[s] <=> stage > 3
              /\ "Listener" \in handles[s] <=> stage > 5
            BY <1>1 DEF IInv, HandlesByStage, s
        <3> QED BY <1>2, <1>3, <2>2, <3>1 DEF Handle
    <2> QED BY <2>1, <2>2
<1>7. LaterClosed'
    <2> SUFFICES ASSUME NEW i \in Index, i > cur', main' \in {"starting", "stopping"}
                 PROVE  handles'[Servers[i]] = {} /\ Servers[i] \notin listening'
        BY DEF LaterClosed
    <2>1. i > cur /\ Servers[i] \in Server /\ Servers[i] # s
        BY <1>2, <1>4, ServerFacts DEF Index, s
    <2>2. handles[Servers[i]] = {} /\ Servers[i] \notin listening
        BY <1>1, <2>1 DEF IInv, LaterClosed
    <2> QED BY <1>1, <1>2, <2>1, <2>2
<1>8. AllClosed' /\ AtLast'
    BY <1>1, <1>2, <1>4, ServerFacts DEF AllClosed, AtLast, Index
<1>9. HandlesByStage'
    <2> SUFFICES ASSUME main' = "starting"
                 PROVE  LET h == handles'[Servers[cur']] IN
                        /\ "Api" \in h <=> stage' > 1
                        /\ "Registration" \in h <=> stage' > 2
                        /\ "Configuration" \in h <=> stage' > 3
                        /\ "Listener" \in h <=> stage' > 5
        BY DEF HandlesByStage
    <2>1. CASE stage < 6
        <3>1. /\ "Api" \in handles[s] <=> stage > 1
              /\ "Registration" \in handles[s] <=> stage > 2
              /\ "Configuration" \in handles[s] <=> stage > 3
              /\ "Listener" \in handles[s] <=> stage > 5
            BY <1>1 DEF IInv, HandlesByStage, s
        <3>2. Servers[cur'] = s
            BY <1>4, <2>1 DEF s
        <3>3. /\ stage' = stage + 1 /\ stage \in 1..5
              /\ \A h \in Handle : h \in handles'[s] <=> h \in handles[s] \/ h = call
            BY <1>2, <1>4, <2>1
        <3>4. /\ call = "Api" <=> stage = 1
              /\ call = "Registration" <=> stage = 2
              /\ call = "Configuration" <=> stage = 3
              /\ call = "Listener" <=> stage = 5
            BY <1>3, <3>3
        <3> QED BY <3>1, <3>2, <3>3, <3>4 DEF Handle
    <2>2. CASE stage = 6
        <3>1. cur' = cur + 1 /\ cur' \in Index /\ stage' = 1
            BY <1>2, <1>4, <2>2, ServerFacts DEF Index
        <3>2. cur' > cur /\ Servers[cur'] # s /\ Servers[cur'] \in Server
            BY <1>2, <3>1, ServerFacts DEF Index, s
        <3>3. handles[Servers[cur']] = {}
            BY <1>1, <3>1, <3>2 DEF IInv, LaterClosed
        <3> QED BY <1>2, <3>1, <3>2, <3>3
    <2> QED BY <1>2, <2>1, <2>2
<1>10. ListenerOpen'
    <2>1. stage = 6 => "Listener" \in handles[s]
        BY <1>1 DEF IInv, HandlesByStage, s
    <2>2. listening \subseteq Server
        BY DEF IInv, TypeOK
    <2> QED BY <1>1, <1>2, <1>3, <2>1, <2>2 DEF IInv, ListenerOpen
<1>11. CallbackSet'
    BY <1>1, <1>2 DEF IInv, CallbackSet
<1>12. Owned' /\ ContextMatchesStream'
    BY <1>1 DEF IInv, Owned, ContextMatchesStream, quic
<1>13. RegistrationHeld'
    BY <1>1, <1>2 DEF IInv, RegistrationHeld, Quiet, quic
<1> QED BY <1>5, <1>6, <1>7, <1>8, <1>9, <1>10, <1>11, <1>12, <1>13 DEF IInv

\* A start() that fails leaves what is open as it is.
LEMMA StartFailsKeeps ==
    ASSUME IInv, StartFails
    PROVE  IInv'
<1>1. /\ main = "starting" /\ cur \in Index /\ Servers[cur] \in Server
      /\ UNCHANGED <<running, waiting, watchdog, handles, listening, quic>>
      /\ callback' = callback \cup {Servers[cur]}
    BY ServerFacts DEF StartFails, IInv, TypeOK, Index
<1>2. /\ stage' = 1
      /\ \/ cur < Len(Servers) /\ cur' = cur + 1 /\ main' = "starting"
         \/ cur = Len(Servers) /\ cur' = cur /\ main' = "serving"
    BY <1>1, ServerFacts DEF StartFails, Started, Index
<1>3. cur' \in Index /\ main' \in {"starting", "serving"} /\ cur' >= cur
    BY <1>1, <1>2, ServerFacts DEF Index
<1>4. TypeOK'
    <2>1. stage' \in 1..Len(Calls)
        BY <1>2 DEF Calls
    <2>2. callback' \subseteq Server /\ cur' \in 1..Len(Servers)
        BY <1>1, <1>3 DEF IInv, TypeOK, Index
    <2>3. /\ main' \in {"starting", "serving", "joining", "stopping", "gone"}
          /\ running' \in BOOLEAN /\ waiting' \in BOOLEAN /\ watchdog' \in BOOLEAN
        BY <1>1, <1>3 DEF IInv, TypeOK
    <2> QED BY <1>1, <2>1, <2>2, <2>3 DEF IInv, TypeOK, quic
<1>5. LaterClosed'
    <2> SUFFICES ASSUME NEW i \in Index, i > cur'
                 PROVE  handles[Servers[i]] = {} /\ Servers[i] \notin listening
        BY <1>1 DEF LaterClosed
    <2>1. i > cur
        BY <1>1, <1>3 DEF Index
    <2> QED BY <1>1, <2>1 DEF IInv, LaterClosed
<1>6. AtLast' /\ AllClosed'
    BY <1>2 DEF AtLast, AllClosed
<1>7. HandlesByStage'
    <2> SUFFICES ASSUME main' = "starting" PROVE handles[Servers[cur']] = {}
        BY <1>1, <1>2 DEF HandlesByStage
    <2>1. cur' > cur
        BY <1>1, <1>2 DEF Index
    <2> QED BY <1>1, <1>3, <2>1 DEF IInv, LaterClosed
<1>8. HandlesNested' /\ ListenerOpen' /\ CallbackSet'
    BY <1>1 DEF IInv, HandlesNested, ListenerOpen, CallbackSet
<1>9. ContextMatchesStream' /\ Owned' /\ RegistrationHeld'
    BY <1>1 DEF IInv, ContextMatchesStream, Owned, RegistrationHeld, Quiet, quic
<1> QED BY <1>4, <1>5, <1>6, <1>7, <1>8, <1>9 DEF IInv

\* From the loop to the first stop() no server changes.
LEMMA LoopKeeps ==
    ASSUME IInv,
           Signal \/ WaitForDatagram \/ Datagram \/ LeaveLoop \/ WatchdogEnds \/ Join
    PROVE  IInv'
<1>1. UNCHANGED <<cur, stage, server, quic>>
    BY DEF Signal, WaitForDatagram, Datagram, LeaveLoop, WatchdogEnds, Join
<1>2. /\ running' \in BOOLEAN /\ waiting' \in BOOLEAN /\ watchdog' \in BOOLEAN
      /\ \/ main' = main
         \/ main = "serving" /\ main' = "joining"
         \/ main = "joining" /\ main' = "stopping"
    BY DEF IInv, TypeOK, Signal, WaitForDatagram, Datagram, LeaveLoop, WatchdogEnds, Join
<1>3. TypeOK'
    BY <1>1, <1>2 DEF IInv, TypeOK, server, quic
<1>4. LaterClosed'
    BY <1>1, <1>2, ServerFacts DEF IInv, LaterClosed, AtLast, server, Index
<1>5. AtLast' /\ AllClosed' /\ HandlesByStage'
    BY <1>1, <1>2 DEF IInv, AtLast, AllClosed, HandlesByStage, server
<1>6. HandlesNested' /\ ListenerOpen' /\ CallbackSet'
    BY <1>1 DEF IInv, HandlesNested, ListenerOpen, CallbackSet, server
<1>7. ContextMatchesStream' /\ Owned' /\ RegistrationHeld'
    BY <1>1 DEF IInv, ContextMatchesStream, Owned, RegistrationHeld, Quiet, server, quic
<1> QED BY <1>3, <1>4, <1>5, <1>6, <1>7 DEF IInv

\* stop() closes a handle only after those opened inside it, and the
\* registration only when nothing is left that msquic could call back.
LEMMA StopCallKeeps ==
    ASSUME IInv, StopCall
    PROVE  IInv'
<1> DEFINE s == Servers[cur]
<1>1. PICK h \in Handle :
        /\ main = "stopping" /\ h \in handles[s]
        /\ h = "Configuration" => "Listener" \notin handles[s]
        /\ h = "Registration" => Quiet(s) /\ handles[s] \cap {"Listener", "Configuration"} = {}
        /\ h = "Api" => handles[s] \cap {"Listener", "Configuration", "Registration"} = {}
        /\ handles' = [handles EXCEPT ![s] = @ \ {h}]
        /\ listening' = IF h = "Listener" THEN listening \ {s} ELSE listening
        /\ UNCHANGED <<control, callback, quic>>
    BY DEF StopCall, CloseAfter, Handle
<1>2. /\ cur \in Index /\ s \in Server
      /\ \A t \in Server : handles'[t] = IF t = s THEN handles[s] \ {h} ELSE handles[t]
    BY <1>1, ServerFacts DEF IInv, TypeOK, Index
<1> HIDE DEF s
<1>3. TypeOK'
    BY <1>1 DEF IInv, TypeOK, control, quic
<1>4. HandlesNested'
    BY <1>1, <1>2 DEF IInv, HandlesNested, Handle
<1>5. LaterClosed'
    BY <1>1, <1>2, ServerFacts DEF IInv, LaterClosed, control
<1>6. AtLast' /\ AllClosed' /\ HandlesByStage'
    BY <1>1 DEF IInv, AtLast, AllClosed, HandlesByStage, control
<1>7. ListenerOpen'
    <2> SUFFICES ASSUME NEW t \in listening' PROVE "Listener" \in handles'[t]
        BY DEF ListenerOpen
    <2>1. t \in listening /\ t \in Server /\ "Listener" \in handles[t]
        BY <1>1 DEF IInv, ListenerOpen, TypeOK
    <2> QED BY <1>1, <1>2, <2>1
<1>8. CallbackSet'
    BY <1>1, <1>2 DEF IInv, CallbackSet
<1>9. ContextMatchesStream' /\ Owned'
    BY <1>1 DEF IInv, ContextMatchesStream, Owned, quic
<1>10. RegistrationHeld'
    <2> SUFFICES ASSUME NEW t \in Server, ~Quiet(t) PROVE "Registration" \in handles'[t]
        BY <1>1 DEF RegistrationHeld, Quiet, quic
    <2>1. "Registration" \in handles[t]
        BY DEF IInv, RegistrationHeld
    <2> QED BY <1>1, <1>2, <2>1
<1> QED BY <1>3, <1>4, <1>5, <1>6, <1>7, <1>8, <1>9, <1>10 DEF IInv

\* A server that is gone has nothing left that needs its callback.
LEMMA StoppedKeeps ==
    ASSUME IInv, Stopped
    PROVE  IInv'
<1> DEFINE s == Servers[cur]
<1>1. /\ main = "stopping" /\ handles[s] = {} /\ callback' = callback \ {s}
      /\ UNCHANGED <<stage, running, waiting, watchdog, handles, listening, quic>>
      /\ cur \in Index /\ s \in Server
    BY ServerFacts DEF Stopped, Destroyed, IInv, TypeOK, Index
<1>2. \/ cur > 1 /\ cur' = cur - 1 /\ main' = main
      \/ cur = 1 /\ cur' = cur /\ main' = "gone"
    BY <1>1 DEF Stopped, Destroyed, Index
<1>3. cur' \in Index
    BY <1>1, <1>2 DEF Index
<1>4. s \notin listening
    BY <1>1 DEF IInv, ListenerOpen
<1>5. TypeOK'
    BY <1>1, <1>2, <1>3 DEF IInv, TypeOK, Index, quic
<1>6. LaterClosed'
    <2> SUFFICES ASSUME NEW i \in Index, i > cur', main' \in {"starting", "stopping"}
                 PROVE  handles[Servers[i]] = {} /\ Servers[i] \notin listening
        BY <1>1 DEF LaterClosed
    <2>1. i = cur \/ i > cur
        BY <1>1, <1>2 DEF Index
    <2> QED BY <1>1, <1>4, <2>1 DEF IInv, LaterClosed
<1>7. AllClosed'
    <2> SUFFICES ASSUME cur = 1, NEW t \in Server PROVE handles[t] = {}
        BY <1>1, <1>2 DEF AllClosed
    <2>1. PICK i \in Index : t = Servers[i]
        BY ServerFacts
    <2>2. i = cur \/ i > cur
        BY <2>1 DEF Index
    <2> QED BY <1>1, <2>1, <2>2 DEF IInv, LaterClosed
<1>8. AtLast' /\ HandlesByStage'
    BY <1>1, <1>2 DEF AtLast, HandlesByStage
<1>9. HandlesNested' /\ ListenerOpen' /\ CallbackSet'
    BY <1>1 DEF IInv, HandlesNested, ListenerOpen, CallbackSet
<1>10. ContextMatchesStream' /\ Owned' /\ RegistrationHeld'
    BY <1>1 DEF IInv, ContextMatchesStream, Owned, RegistrationHeld, Quiet, quic
<1> QED BY <1>5, <1>6, <1>7, <1>8, <1>9, <1>10 DEF IInv
-----------------------------------------------------------------------------
\* What the callbacks do: connections and streams come and go, servers do not.
LEMMA CallbackKeeps ==
    ASSUME IInv, UNCHANGED <<server, control>>,
           TypeOK', ContextMatchesStream', Owned', RegistrationHeld'
    PROVE  IInv'
BY DEF IInv, HandlesNested, LaterClosed, AtLast, AllClosed, HandlesByStage,
       ListenerOpen, CallbackSet, server, control

\* A connection is accepted only by a listener, whose server has a registration.
LEMMA NewConnectionKeeps ==
    ASSUME IInv, NEW c \in Conn, NEW s \in Server, NewConnection(c, s)
    PROVE  IInv'
<1>1. /\ s \in listening /\ owner[c] = None
      /\ owner' = [owner EXCEPT ![c] = s] /\ up' = up \cup {c}
      /\ UNCHANGED <<of, open, ctx, server, control>>
    BY DEF NewConnection
<1>2. \A d \in Conn : owner'[d] = IF d = c THEN s ELSE owner[d]
    BY <1>1 DEF IInv, TypeOK
<1>3. TypeOK' /\ ContextMatchesStream'
    BY <1>1 DEF IInv, TypeOK, ContextMatchesStream, server, control
<1>4. Owned'
    BY <1>1, <1>2 DEF IInv, Owned, TypeOK
<1>5. "Registration" \in handles[s]
    BY <1>1 DEF IInv, ListenerOpen, HandlesNested
<1>6. RegistrationHeld'
    <2> SUFFICES ASSUME NEW t \in Server, ~Quiet(t)', t # s
                 PROVE  ~Quiet(t)
        BY <1>1, <1>5 DEF IInv, RegistrationHeld, server
    <2>1. None \notin Server
        BY NoneAssumption
    <2> QED BY <1>1, <1>2, <2>1 DEF IInv, Quiet, Owned, TypeOK
<1> QED BY <1>1, <1>3, <1>4, <1>6, CallbackKeeps

\* A stream belongs to a connection, whose server has a registration.
LEMMA PeerStreamStartedKeeps ==
    ASSUME IInv, NEW c \in Conn, NEW st \in Stream, PeerStreamStarted(c, st)
    PROVE  IInv'
<1>1. /\ c \in up /\ of[st] = None
      /\ of' = [of EXCEPT ![st] = c] /\ open' = open \cup {st}
      /\ ctx' = [ctx EXCEPT ![st] = @ + 1]
      /\ UNCHANGED <<owner, up, server, control>>
    BY DEF PeerStreamStarted
<1>2. st \notin open /\ ctx[st] = 0
    BY <1>1, NoneAssumption DEF IInv, Owned, ContextMatchesStream
<1>3. /\ \A x \in Stream : of'[x] = IF x = st THEN c ELSE of[x]
      /\ \A x \in Stream : ctx'[x] = IF x = st THEN 1 ELSE ctx[x]
    BY <1>1, <1>2 DEF IInv, TypeOK
<1>4. ctx' \in [Stream -> {0, 1}] /\ of' \in [Stream -> Conn \cup {None}]
    BY <1>1, <1>2 DEF IInv, TypeOK
<1>5. TypeOK' /\ ContextMatchesStream'
    BY <1>1, <1>3, <1>4 DEF IInv, TypeOK, ContextMatchesStream, server, control
<1>6. Owned'
    BY <1>1, <1>3 DEF IInv, Owned, TypeOK
<1>7. RegistrationHeld'
    <2> SUFFICES ASSUME NEW t \in Server, ~Quiet(t)' PROVE ~Quiet(t)
        BY <1>1 DEF IInv, RegistrationHeld, server
    <2> QED BY <1>1, <1>3 DEF IInv, Quiet, TypeOK
<1> QED BY <1>1, <1>5, <1>6, <1>7, CallbackKeeps

\* The end of a stream deletes its StreamCtx, and takes it from msquic for good.
LEMMA StreamEndKeeps ==
    ASSUME IInv, NEW st \in Stream, StreamEnd(st)
    PROVE  IInv'
<1>1. /\ st \in open /\ open' = open \ {st}
      /\ ctx' = [ctx EXCEPT ![st] = @ - 1]
      /\ UNCHANGED <<owner, up, of, server, control>>
    BY DEF StreamEnd
<1>2. ctx[st] = 1
    BY <1>1 DEF IInv, ContextMatchesStream
<1>3. /\ \A x \in Stream : ctx'[x] = IF x = st THEN 0 ELSE ctx[x]
      /\ ctx' \in [Stream -> {0, 1}]
    BY <1>1, <1>2 DEF IInv, TypeOK
<1>4. TypeOK' /\ ContextMatchesStream'
    BY <1>1, <1>3 DEF IInv, TypeOK, ContextMatchesStream, server, control
<1>5. Owned' /\ RegistrationHeld'
    BY <1>1 DEF IInv, Owned, RegistrationHeld, Quiet, server
<1> QED BY <1>1, <1>4, <1>5, CallbackKeeps

LEMMA ConnectionEndKeeps ==
    ASSUME IInv, NEW c \in Conn, ConnectionEnd(c)
    PROVE  IInv'
<1>1. up' = up \ {c} /\ UNCHANGED <<owner, of, open, ctx, server, control>>
    BY DEF ConnectionEnd
<1>2. TypeOK' /\ ContextMatchesStream'
    BY <1>1 DEF IInv, TypeOK, ContextMatchesStream, server, control
<1>3. Owned' /\ RegistrationHeld'
    BY <1>1 DEF IInv, Owned, RegistrationHeld, Quiet, server
<1> QED BY <1>1, <1>2, <1>3, CallbackKeeps
-----------------------------------------------------------------------------
LEMMA NextKeeps == IInv /\ [Next]_vars => IInv'
<1> SUFFICES ASSUME IInv, [Next]_vars PROVE IInv'
    OBVIOUS
<1>1. CASE StartCall
    BY <1>1, StartCallKeeps
<1>2. CASE StartFails
    BY <1>2, StartFailsKeeps
<1>3. CASE Signal \/ WaitForDatagram \/ Datagram \/ LeaveLoop \/ WatchdogEnds \/ Join
    BY <1>3, LoopKeeps
<1>4. CASE StopCall
    BY <1>4, StopCallKeeps
<1>5. CASE Stopped
    BY <1>5, StoppedKeeps
<1>6. CASE \E c \in Conn, s \in Server : NewConnection(c, s)
    BY <1>6, NewConnectionKeeps
<1>7. CASE \E c \in Conn, st \in Stream : PeerStreamStarted(c, st)
    BY <1>7, PeerStreamStartedKeeps
<1>8. CASE \E st \in Stream : StreamEnd(st)
    BY <1>8, StreamEndKeeps
<1>9. CASE \E c \in Conn : ConnectionEnd(c)
    BY <1>9, ConnectionEndKeeps
<1>10. CASE UNCHANGED vars
    <2>1. UNCHANGED <<server, control, quic>>
        BY <1>10 DEF vars
    <2>2. TypeOK' /\ ContextMatchesStream' /\ Owned' /\ RegistrationHeld'
        BY <2>1 DEF IInv, TypeOK, ContextMatchesStream, Owned, RegistrationHeld, Quiet,
                    server, control, quic
    <2> QED BY <2>1, <2>2, CallbackKeeps
<1> QED BY <1>1, <1>2, <1>3, <1>4, <1>5, <1>6, <1>7, <1>8, <1>9, <1>10 DEF Next, Main

\* The inductive invariant holds of every reachable state.
THEOREM InvariantAlways == Spec => []IInv
BY InitEstablishes, NextKeeps, PTL DEF Spec

\* No StreamCtx is deleted twice (msquic_server.cpp:221), and types.
THEOREM TypeCorrect == Spec => []TypeOK
<1>1. IInv => TypeOK
    BY DEF IInv
<1> QED BY <1>1, InvariantAlways, PTL

\* Handles are open inside one another even after a start() that failed
\* (msquic_server.cpp:28-120) and while stop() closes them (125-128).
THEOREM HandlesNestedAlways == Spec => []HandlesNested
<1>1. IInv => HandlesNested
    BY DEF IInv
<1> QED BY <1>1, InvariantAlways, PTL

\* A stream callback never finds its StreamCtx deleted, and none is leaked.
THEOREM ContextMatchesStreamAlways == Spec => []ContextMatchesStream
<1>1. IInv => ContextMatchesStream
    BY DEF IInv
<1> QED BY <1>1, InvariantAlways, PTL

\* A callback never finds its server without API table or on_message_, though
\* stop() runs while msquic's workers do (msquic_server.cpp:124).
THEOREM ServerOutlivesCallbacksAlways == Spec => []ServerOutlivesCallbacks
<1>1. IInv => ServerOutlivesCallbacks
    BY DEF IInv, ServerOutlivesCallbacks, ListenerOpen, HandlesNested, CallbackSet,
           RegistrationHeld
<1> QED BY <1>1, InvariantAlways, PTL

\* main returns with every handle closed, and no object msquic could call back.
THEOREM CleanExitAlways == Spec => []CleanExit
<1>1. IInv => CleanExit
    <2> SUFFICES ASSUME IInv, main = "gone"
                 PROVE  /\ \A s \in Server : handles[s] = {}
                        /\ up = {} /\ open = {}
        BY DEF CleanExit
    <2>1. \A s \in Server : handles[s] = {}
        BY DEF IInv, AllClosed
    <2>2. \A s \in Server : Quiet(s)
        BY <2>1 DEF IInv, RegistrationHeld
    <2> QED BY <2>1, <2>2 DEF IInv, Owned, Quiet
<1> QED BY <1>1, InvariantAlways, PTL
=============================================================================
