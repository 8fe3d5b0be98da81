------------------------------- MODULE Gateway -------------------------------
(***************************************************************************)
(* The life of the credential-gateway process: main() starts the listeners *)
(* one after the other, each listener's goroutine accepts connections and  *)
(* runs a handler per connection, a signal makes Gateway.Stop stop all     *)
(* listeners in parallel under a deadline, and main returns.               *)
(*                                                                         *)
(* What a handler does with its peers is in the modules of the proxies;    *)
(* here it logs, dials, may fail or panic anywhere before the relay, and   *)
(* relays for as long as the peers like.  An HTTP listener is an           *)
(* http.Server, of which this module models what Shutdown relies on.       *)
(***************************************************************************)
EXTENDS Naturals, Sequences, FiniteSets

CONSTANTS
    Order,       \* the listeners, in the order New appends them
    Http,        \* those of kind http; the others relay TCP
    Conns,       \* bound: the client connections of a run
    NoConn       \* not a connection

Listeners == {Order[i] : i \in 1..Len(Order)}

ASSUME ListenersAssumption ==
    /\ Order \in Seq(Listeners)
    /\ \A i, j \in 1..Len(Order) : Order[i] = Order[j] => i = j
    /\ Http \subseteq Listeners
    /\ NoConn \notin Conns

VARIABLES
    proc,       \* main: "starting", "running", "stopping", "exited"
    next,       \* the index of the listener Gateway.Start starts next
    sig,        \* a signal is in the quit channel
    expired,    \* the ten seconds of Stop's context have passed
    exit,       \* how the process ended: "none", "ok", "failed", "signal", "crash"
    cut,        \* the connections being served when the process ended
    ln,         \* [Listeners -> ...]: the listening socket
    acc,        \* [Listeners -> ...]: the goroutine in accept() or Serve()
    accepted,   \* [Listeners -> ...]: the connection Accept has just returned
    stop,       \* [Listeners -> ...]: the goroutine of Stop for this listener
    at,         \* [Conns -> ...]: the listener the client connected to
    st,         \* [Conns -> ...]: the state of the connection and its handler
    csock,      \* [Conns -> BOOLEAN]: the client's socket is open here
    usock,      \* [Conns -> BOOLEAN]: the upstream's socket is open here
    panicking,  \* [Conns -> BOOLEAN]: the handler unwinds a panic
    connSeq,    \* the process-wide connection counter
    id,         \* [Conns -> Nat]: the id of the accept line, 0 before it
    closeLine   \* [Conns -> Nat]: the id of the close line, 0 before it

mainVars == <<proc, next, sig, expired, exit, cut>>
lnVars   == <<ln, acc, accepted, stop>>
connVars == <<at, st, csock, usock, panicking>>
logVars  == <<connSeq, id, closeLine>>
vars == <<mainVars, lnVars, connVars, logVars>>

Alive == proc # "exited"

\* The states in which a handler is at work on a connection.
TcpServed  == {"new", "handshake", "relay", "piped", "unwind", "recover"}
HttpServed == {"new", "active", "idle", "upgraded"}
Served(c)  == st[c] \in TcpServed \cup HttpServed
Of(l)      == {c \in Conns : at[c] = l}
IsHttp(c)  == at[c] \in Http
IsTcp(c)   == at[c] \in Listeners \ Http

\* http.Server forgets a connection that the reverse proxy hijacks.
Tracked(c) == Served(c) /\ st[c] # "upgraded"

Init ==
    /\ proc = "starting" /\ next = 1
    /\ sig = FALSE /\ expired = FALSE
    /\ exit = "none" /\ cut = {}
    /\ ln = [l \in Listeners |-> "unbound"]
    /\ acc = [l \in Listeners |-> "none"]
    /\ accepted = [l \in Listeners |-> NoConn]
    /\ stop = [l \in Listeners |-> "no"]
    /\ at = [c \in Conns |-> "nowhere"]
    /\ st = [c \in Conns |-> "none"]
    /\ csock = [c \in Conns |-> FALSE]
    /\ usock = [c \in Conns |-> FALSE]
    /\ panicking = [c \in Conns |-> FALSE]
    /\ connSeq = 0
    /\ id = [c \in Conns |-> 0]
    /\ closeLine = [c \in Conns |-> 0]

-----------------------------------------------------------------------------
(* main() and Gateway.Start *)

\* The process ends: the kernel closes every socket, a served connection is cut.
Exit(how) ==
    /\ proc' = "exited"
    /\ exit' = how
    /\ cut' = {c \in Conns : Served(c)}

\* A TCP proxy's Start binds and starts accept(); an HTTP proxy's goroutine
\* calls Serve, which may come to run much later.
AfterBind(l) == IF l \in Http THEN "none" ELSE "accept"

StartListener ==
    /\ proc = "starting" /\ next <= Len(Order)
    /\ ln' = [ln EXCEPT ![Order[next]] = "bound"]
    /\ acc' = [acc EXCEPT ![Order[next]] = AfterBind(Order[next])]
    /\ next' = next + 1
    /\ UNCHANGED <<proc, sig, expired, exit, cut, accepted, stop, connVars, logVars>>

\* The port is taken or the upstream URL is bad: Start returns the error and
\* main exits, whatever the listeners already started are serving.
OnStartErrorIgnored ==      \* mutant: the error is logged and Start goes on
    /\ next' = next + 1
    /\ UNCHANGED <<proc, exit, cut>>
OnStartError ==
    /\ Exit("failed")
    /\ UNCHANGED next

StartFails ==
    /\ proc = "starting" /\ next <= Len(Order)
    /\ OnStartError
    /\ UNCHANGED <<sig, expired, lnVars, connVars, logVars>>

\* Start returns and main installs the quit channel.
StartDone ==
    /\ proc = "starting" /\ next > Len(Order)
    /\ proc' = "running"
    /\ UNCHANGED <<next, sig, expired, exit, cut, lnVars, connVars, logVars>>

\* SIGINT or SIGTERM.  Before signal.Notify it has its default effect; after
\* it the channel of capacity 1 keeps the first signal.
Signal ==
    /\ Alive /\ ~sig
    /\ IF proc = "starting"
       THEN Exit("signal") /\ UNCHANGED sig
       ELSE sig' = TRUE /\ UNCHANGED <<proc, exit, cut>>
    /\ UNCHANGED <<next, expired, lnVars, connVars, logVars>>

\* main receives the signal; Gateway.Stop spawns one goroutine per listener.
BeginStop ==
    /\ proc = "running" /\ sig
    /\ proc' = "stopping"
    /\ stop' = [l \in Listeners |-> "called"]
    /\ UNCHANGED <<next, sig, expired, exit, cut, ln, acc, accepted, connVars, logVars>>

Deadline ==
    /\ proc = "stopping" /\ ~expired
    /\ expired' = TRUE
    /\ UNCHANGED <<proc, next, sig, exit, cut, lnVars, connVars, logVars>>

\* wg.Wait returns, main returns.
StopWaitsForAny == \E l \in Listeners : stop[l] = "done"    \* mutant: wg.Add(1) once
StopWaits == \A l \in Listeners : stop[l] = "done"

StopReturns ==
    /\ proc = "stopping" /\ StopWaits
    /\ Exit("ok")
    /\ UNCHANGED <<next, sig, expired, lnVars, connVars, logVars>>

Main == StartListener \/ StartDone \/ BeginStop \/ StopReturns
-----------------------------------------------------------------------------
(* Accepting *)

\* The kernel completes a connection as long as the socket listens.
Connect(c, l) ==
    /\ Alive /\ ln[l] = "bound" /\ st[c] = "none"
    /\ at' = [at EXCEPT ![c] = l]
    /\ st' = [st EXCEPT ![c] = "backlog"]
    /\ UNCHANGED <<csock, usock, panicking, mainVars, lnVars, logVars>>

\* Closing the listening socket resets what is still in its backlog.
CloseListener(l) ==
    /\ ln' = [ln EXCEPT ![l] = "closed"]
    /\ st' = [c \in Conns |-> IF c \in Of(l) /\ st[c] = "backlog"
                              THEN "refused" ELSE st[c]]

\* Serve registers its listener with the server, unless Shutdown came first:
\* then it closes the listener and returns.
ServeBegins(l) ==
    /\ Alive /\ l \in Http
    /\ ln[l] = "bound" /\ acc[l] = "none"
    /\ IF stop[l] \in {"no", "called"}
       THEN acc' = [acc EXCEPT ![l] = "accept"] /\ UNCHANGED <<ln, st>>
       ELSE acc' = [acc EXCEPT ![l] = "ended"] /\ CloseListener(l)
    /\ UNCHANGED <<accepted, stop, at, csock, usock, panicking, mainVars, logVars>>

\* accept() takes the next connection when the previous handler runs in its own
\* goroutine.
AcceptReadyInline(l) ==      \* mutant: the loop runs the handler itself
    acc[l] = "accept" /\ \A c \in Of(l) : ~Served(c)
AcceptReady(l) == acc[l] = "accept"

Accept(l) ==
    /\ Alive /\ ln[l] = "bound" /\ AcceptReady(l)
    /\ \E c \in Of(l) :
           /\ st[c] = "backlog"
           /\ st' = [st EXCEPT ![c] = "accepted"]
           /\ csock' = [csock EXCEPT ![c] = TRUE]
           /\ accepted' = [accepted EXCEPT ![l] = c]
    /\ acc' = [acc EXCEPT ![l] = "got"]
    /\ UNCHANGED <<ln, stop, at, usock, panicking, mainVars, logVars>>

\* The loop ends when the listener is closed.
AcceptEnds(l) ==
    /\ Alive /\ acc[l] = "accept" /\ ln[l] = "closed"
    /\ acc' = [acc EXCEPT ![l] = "ended"]
    /\ UNCHANGED <<ln, accepted, stop, mainVars, connVars, logVars>>

\* Accept reports an error.  accept() of a TCP proxy returns on any (no file
\* descriptor left, say), with its socket still listening.  Serve retries those
\* that pass; on one that lasts it returns, which closes the listener and is
\* logged as "http proxy exited".
AcceptFailsFatal(l) ==      \* mutant: log.Fatalf("http proxy exited")
    /\ Alive /\ acc[l] = "accept" /\ ln[l] = "bound"
    /\ Exit("fatal")
    /\ UNCHANGED <<next, sig, expired, lnVars, connVars, logVars>>
AcceptFails(l) ==
    /\ Alive /\ acc[l] = "accept" /\ ln[l] = "bound"
    /\ acc' = [acc EXCEPT ![l] = "ended"]
    /\ \/ l \notin Http /\ UNCHANGED <<ln, st>>
       \/ l \in Http /\ CloseListener(l)
    /\ UNCHANGED <<accepted, stop, at, csock, usock, panicking, mainVars, logVars>>

\* go safeHandle(conn, ...), even if the listener has been closed meanwhile.
Spawn(l) ==
    /\ Alive /\ acc[l] = "got"
    /\ acc' = [acc EXCEPT ![l] = "accept"]
    /\ st' = [st EXCEPT ![accepted[l]] = "new"]
    /\ accepted' = [accepted EXCEPT ![l] = NoConn]
    /\ UNCHANGED <<ln, stop, at, csock, usock, panicking, mainVars, logVars>>
-----------------------------------------------------------------------------
(* The handler of a TCP proxy, under safeHandle *)

Step(c, from, to) ==
    /\ Alive /\ IsTcp(c) /\ st[c] = from
    /\ st' = [st EXCEPT ![c] = to]

\* connSeq.Add(1) is atomic.
NextIdOfLive(c) ==        \* mutant: the number of live connections
    1 + Cardinality({d \in Conns \ {c} : csock[d]})
NextId(c) == connSeq + 1

LogAccept(c) ==
    /\ Step(c, "new", "handshake")
    /\ connSeq' = connSeq + 1
    /\ id' = [id EXCEPT ![c] = NextId(c)]
    /\ UNCHANGED <<closeLine, at, csock, usock, panicking, mainVars, lnVars>>

Dial(c) ==
    /\ Step(c, "handshake", "handshake") /\ ~usock[c]
    /\ usock' = [usock EXCEPT ![c] = TRUE]
    /\ UNCHANGED <<at, csock, panicking, mainVars, lnVars, logVars>>

\* Any of the error returns before the relay.
HandshakeFails(c) ==
    /\ Step(c, "handshake", "unwind")
    /\ UNCHANGED <<at, csock, usock, panicking, mainVars, lnVars, logVars>>

\* An index out of range on a malformed message.
HandshakePanics(c) ==
    /\ Step(c, "handshake", "unwind")
    /\ panicking' = [panicking EXCEPT ![c] = TRUE]
    /\ UNCHANGED <<at, csock, usock, mainVars, lnVars, logVars>>

StartRelay(c) ==
    /\ Step(c, "handshake", "relay") /\ usock[c]
    /\ UNCHANGED <<at, csock, usock, panicking, mainVars, lnVars, logVars>>

\* pipe has closed both connections when it returns (module Pipe).
RelayEnds(c) ==
    /\ Step(c, "relay", "piped")
    /\ csock' = [csock EXCEPT ![c] = FALSE]
    /\ usock' = [usock EXCEPT ![c] = FALSE]
    /\ UNCHANGED <<at, panicking, mainVars, lnVars, logVars>>

\* The connLog carries the id of its own accept line.
LogClose(c) ==
    /\ Step(c, "piped", "unwind")
    /\ closeLine' = [closeLine EXCEPT ![c] = id[c]]
    /\ UNCHANGED <<connSeq, id, at, csock, usock, panicking, mainVars, lnVars>>

\* The deferred closes run on every way out, a panic included; the upstream is
\* closed only if it was dialled.
DeferUpstreamNever(c) == usock[c]     \* mutant: no defer upstream.Close()
DeferUpstream(c) == FALSE

Unwind(c) ==
    /\ Step(c, "unwind", IF panicking[c] THEN "recover" ELSE "ended")
    /\ usock' = [usock EXCEPT ![c] = DeferUpstream(c)]
    /\ csock' = [csock EXCEPT ![c] = FALSE]
    /\ UNCHANGED <<at, panicking, mainVars, lnVars, logVars>>

\* safeHandle recovers, logs, and closes the connection once more.
OnPanicCrash == Exit("crash")        \* mutant: no recover()
OnPanic == UNCHANGED <<proc, exit, cut>>

Recover(c) ==
    /\ Step(c, "recover", "ended")
    /\ OnPanic
    /\ csock' = [csock EXCEPT ![c] = FALSE]
    /\ panicking' = [panicking EXCEPT ![c] = FALSE]
    /\ UNCHANGED <<next, sig, expired, at, usock, lnVars, logVars>>

\* The steps the handler takes without waiting for a peer.
HandlerGoesOn(c) == LogAccept(c) \/ LogClose(c) \/ Unwind(c) \/ Recover(c)

\* The steps that depend on the peers.
HandlerMayDo(c) ==
    Dial(c) \/ HandshakeFails(c) \/ HandshakePanics(c) \/ StartRelay(c) \/ RelayEnds(c)
-----------------------------------------------------------------------------
(* A connection of an http.Server *)

\* A request arrives on a new or a kept-alive connection.
Request(c) ==
    /\ Alive /\ IsHttp(c) /\ st[c] \in {"new", "idle"}
    /\ st' = [st EXCEPT ![c] = "active"]
    /\ UNCHANGED <<at, csock, usock, panicking, mainVars, lnVars, logVars>>

\* The response (the upstream's, or 502 Bad Gateway) is complete.  The
\* connection is kept alive unless the server is shutting down or the client
\* wants it closed.
KeepsAlive(c) == stop[at[c]] \in {"no", "called"}

Respond(c) ==
    /\ Alive /\ IsHttp(c) /\ st[c] = "active"
    /\ \/ /\ KeepsAlive(c)
          /\ st' = [st EXCEPT ![c] = "idle"]
          /\ UNCHANGED csock
       \/ /\ st' = [st EXCEPT ![c] = "ended"]
          /\ csock' = [csock EXCEPT ![c] = FALSE]
    /\ UNCHANGED <<at, usock, panicking, mainVars, lnVars, logVars>>

\* The upstream answers an Upgrade request (WebSocket) with 101: the reverse
\* proxy hijacks the connection and copies both ways, Shutdown or not.
Upgrade(c) ==
    /\ Alive /\ IsHttp(c) /\ st[c] = "active"
    /\ st' = [st EXCEPT ![c] = "upgraded"]
    /\ UNCHANGED <<at, csock, usock, panicking, mainVars, lnVars, logVars>>

\* The client goes away, or either peer of an upgraded connection.
HttpPeerLeaves(c) ==
    /\ Alive /\ IsHttp(c) /\ st[c] \in HttpServed
    /\ st' = [st EXCEPT ![c] = "ended"]
    /\ csock' = [csock EXCEPT ![c] = FALSE]
    /\ UNCHANGED <<at, usock, panicking, mainVars, lnVars, logVars>>
-----------------------------------------------------------------------------
(* Stop *)

\* Every listener is stopped in a goroutine of its own.
StopRunsInTurn(l) ==      \* mutant: Stop calls them one after the other
    /\ stop[l] = "called"
    /\ \A i, j \in 1..Len(Order) :
           i < j /\ Order[j] = l => stop[Order[i]] = "done"
StopRuns(l) == stop[l] = "called"

\* A TCP proxy only closes its listener.
TcpStop(l) ==
    /\ Alive /\ l \notin Http /\ StopRuns(l)
    /\ CloseListener(l)
    /\ stop' = [stop EXCEPT ![l] = "done"]
    /\ UNCHANGED <<acc, accepted, at, csock, usock, panicking, mainVars, logVars>>

\* Shutdown closes the listeners that Serve has registered, ...
ShutdownBegins(l) ==
    /\ Alive /\ l \in Http /\ StopRuns(l)
    /\ IF acc[l] = "none" THEN UNCHANGED <<ln, st>> ELSE CloseListener(l)
    /\ stop' = [stop EXCEPT ![l] = "closed"]
    /\ UNCHANGED <<acc, accepted, at, csock, usock, panicking, mainVars, logVars>>

\* ... waits until Serve no longer accepts, ...
ServeIsOver(l) == acc[l] \in {"none", "ended"}

ShutdownPolls(l) ==
    /\ Alive /\ stop[l] = "closed" /\ ServeIsOver(l)
    /\ stop' = [stop EXCEPT ![l] = "polling"]
    /\ UNCHANGED <<ln, acc, accepted, mainVars, connVars, logVars>>

\* ... closes idle connections, and new ones that sent nothing for a while, ...
CloseIdle(c) ==
    /\ Alive /\ IsHttp(c) /\ stop[at[c]] = "polling"
    /\ st[c] \in {"idle", "new"}
    /\ st' = [st EXCEPT ![c] = "ended"]
    /\ csock' = [csock EXCEPT ![c] = FALSE]
    /\ UNCHANGED <<at, usock, panicking, mainVars, lnVars, logVars>>

\* ... and returns when the server knows of no connection or the context has
\* expired.
DrainedUnlessActive(l) == \A c \in Of(l) : st[c] # "idle"   \* mutant: active ones are dropped
Drained(l) == \A c \in Of(l) : ~Tracked(c)
GivesUpNever(l) == FALSE        \* mutant: Shutdown(context.Background())
GivesUp(l) == expired

ShutdownReturns(l) ==
    /\ Alive /\ stop[l] = "polling"
    /\ Drained(l) \/ GivesUp(l)
    /\ stop' = [stop EXCEPT ![l] = "done"]
    /\ UNCHANGED <<ln, acc, accepted, mainVars, connVars, logVars>>

Stopper(l) ==
    TcpStop(l) \/ ShutdownBegins(l) \/ ShutdownPolls(l) \/ ShutdownReturns(l)

AcceptLoop(l) == ServeBegins(l) \/ Accept(l) \/ AcceptEnds(l) \/ Spawn(l)
-----------------------------------------------------------------------------
Next ==
    \/ Main \/ StartFails \/ Signal \/ Deadline
    \/ \E l \in Listeners : AcceptLoop(l) \/ AcceptFails(l) \/ Stopper(l)
    \/ \E c \in Conns :
           \/ \E l \in Listeners : Connect(c, l)
           \/ HandlerGoesOn(c) \/ HandlerMayDo(c)
           \/ Request(c) \/ Respond(c) \/ Upgrade(c) \/ HttpPeerLeaves(c)
           \/ CloseIdle(c)

Spec == Init /\ [][Next]_vars

\* Every goroutine that can go on does.  Peers owe nothing: a handshake, a
\* relay or a request may take for ever.
SchedulerFair ==
    /\ WF_vars(Main)
    /\ \A l \in Listeners : WF_vars(AcceptLoop(l)) /\ WF_vars(Stopper(l))
    /\ \A c \in Conns : WF_vars(HandlerGoesOn(c)) /\ WF_vars(CloseIdle(c))

FairSpec == Spec /\ SchedulerFair
-----------------------------------------------------------------------------
(* Properties *)

TypeOK ==
    /\ proc \in {"starting", "running", "stopping", "exited"}
    /\ next \in 1..(Len(Order) + 1)
    /\ sig \in BOOLEAN /\ expired \in BOOLEAN
    /\ exit \in {"none", "ok", "failed", "signal"}
    /\ cut \subseteq Conns
    /\ ln \in [Listeners -> {"unbound", "bound", "closed"}]
    /\ acc \in [Listeners -> {"none", "accept", "got", "ended"}]
    /\ accepted \in [Listeners -> Conns \cup {NoConn}]
    /\ stop \in [Listeners -> {"no", "called", "closed", "polling", "done"}]
    /\ at \in [Conns -> Listeners \cup {"nowhere"}]
    /\ st \in [Conns -> {"none", "backlog", "refused", "accepted", "ended"}
                            \cup TcpServed \cup HttpServed]
    /\ csock \in [Conns -> BOOLEAN]
    /\ usock \in [Conns -> BOOLEAN]
    /\ panicking \in [Conns -> BOOLEAN]
    /\ connSeq \in Nat
    /\ id \in [Conns -> Nat]
    /\ closeLine \in [Conns -> Nat]

\* The process ends only by a signal or because a listener could not start:
\* whatever the connections do, a panic included, the listeners stay up.
EndsOnlyWhenAsked ==
    /\ exit = "ok" => sig
    /\ exit = "failed" => next <= Len(Order)
    /\ exit \in {"none", "ok", "failed", "signal"}
    /\ exit = "none" <=> Alive

\* main waits for a signal only after every configured listener was bound, and
\* until its Stop a listener is closed by nothing but the end of its own Serve:
\* neither a failing TCP accept loop nor another listener's Stop closes it.
AllOrNothing ==
    /\ proc \in {"running", "stopping"} => \A l \in Listeners : ln[l] # "unbound"
    /\ \A l \in Listeners :
           ln[l] = "closed" /\ stop[l] \in {"no", "called"}
               => l \in Http /\ acc[l] = "ended"

\* A handler that is over, by whichever return or panic, holds no socket, and a
\* socket is held only by a handler that is not over.
SocketsReleased ==
    \A c \in Conns :
        /\ st[c] = "ended" => ~csock[c] /\ ~usock[c]
        /\ usock[c] => csock[c] /\ st[c] \in {"handshake", "relay", "unwind"}

\* "Shutdown is graceful": unless the ten seconds are over, the process does
\* not end under a request of an HTTP listener, however it came in.  The one
\* kind of HTTP connection it does cut is an upgraded one.
HttpDrainsOnStop ==
    exit = "ok" /\ ~expired => \A c \in cut : IsHttp(c) => st[c] = "upgraded"

\* Once Shutdown of a listener has returned in time, no request of its is being
\* served and none will be: nothing is left between Accept and its handler
\* either, only connections that were upgraded.
HttpQuietAfterShutdown ==
    \A l \in Http :
        stop[l] = "done" /\ ~expired
            => \A c \in Of(l) : ~Tracked(c) /\ st[c] # "accepted"

\* "all listeners drain within 10 seconds": README.md:142 says it of every
\* listener; the TCP proxies' Stop only closes the listening socket, and Shutdown
\* of an HTTP proxy does not wait for an upgraded connection.
AllListenersDrain ==
    exit = "ok" /\ ~expired => \A c \in cut : st[c] \notin {"relay", "upgraded"}

\* "The id correlates the two lines" (pipe.go): over the life of the process no
\* two connections share an id, and a close line, if one comes at all, has the
\* id of its own accept line and comes behind the relay.
LogLinesCorrelate ==
    \A c \in Conns :
        /\ id[c] # 0 => \A d \in Conns \ {c} : id[d] # id[c]
        /\ closeLine[c] # 0 =>
               closeLine[c] = id[c] /\ st[c] \in {"unwind", "recover", "ended"}

\* After a signal the process ends, whatever handshakes, relays and requests
\* are under way: the timer of Stop's context sees to it.
StopTerminates == WF_vars(Deadline) => (sig ~> ~Alive)

\* Stop closes every listening socket without waiting for the requests another
\* listener is draining.
StopIsParallel ==
    proc = "stopping" ~> (~Alive \/ \A l \in Listeners : ln[l] = "closed")

\* A handler that hangs holds up nobody else: a client in the backlog is
\* accepted or refused, as long as its accept loop has not died of an error.
NobodyWaitsForOthers ==
    \A c \in Conns :
        st[c] = "backlog" ~> (~Alive \/ st[c] # "backlog" \/ acc[at[c]] = "ended")
=============================================================================
