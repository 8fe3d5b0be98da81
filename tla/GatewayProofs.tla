---------------------------- MODULE GatewayProofs ----------------------------
(***************************************************************************)
(* Proofs about Gateway, for any listeners of either kind, in any order,    *)
(* and any set of connections.                                              *)
(*                                                                         *)
(* The invariants are proved one upon the other: each is inductive with    *)
(* the help of those before it.  A step is the process's, a listener's, a   *)
(* client's that connects, or a handler's; what each kind leaves alone is   *)
(* stated first, so that a proof names only the steps that matter to it.    *)
(***************************************************************************)
EXTENDS Gateway, TLAPS

ProcessStep == Main \/ StartFails \/ Signal \/ Deadline
ListenerStep(l) == AcceptLoop(l) \/ AcceptFails(l) \/ Stopper(l)
HttpStep(c) ==
    Request(c) \/ Respond(c) \/ Upgrade(c) \/ HttpPeerLeaves(c) \/ CloseIdle(c)
HandlerStep(c) ==
    HandlerGoesOn(c) \/ HandlerMayDo(c)
    \/ HttpStep(c)

LEMMA NextSplit ==
    Next => \/ ProcessStep
            \/ \E l \in Listeners : ListenerStep(l)
            \/ \E c \in Conns, l \in Listeners : Connect(c, l)
            \/ \E c \in Conns : HandlerStep(c)
BY DEF Next, ProcessStep, ListenerStep, HandlerStep, HttpStep

LEMMA ProcessFrame ==
    ASSUME ProcessStep
    PROVE  UNCHANGED <<accepted, connVars, logVars>>
BY DEF ProcessStep, Main, StartListener, StartDone, BeginStop, StopReturns, StartFails,
   Signal, Deadline, lnVars

LEMMA ListenerFrame ==
    ASSUME NEW l \in Listeners, ListenerStep(l)
    PROVE  Alive /\ UNCHANGED <<mainVars, at, usock, panicking, logVars>>
BY DEF ListenerStep, AcceptLoop, ServeBegins, Accept, AcceptEnds, Spawn, AcceptFails, CloseListener,
   Stopper, TcpStop, ShutdownBegins, ShutdownPolls, ShutdownReturns, connVars

LEMMA HandlerFrame ==
    ASSUME NEW c \in Conns, HandlerStep(c)
    PROVE  Alive /\ UNCHANGED <<mainVars, lnVars, at>>
<1>1. CASE HandlerGoesOn(c)
  BY <1>1 DEF HandlerGoesOn, LogAccept, LogClose, Unwind, Recover, OnPanic, Step,
     mainVars
<1>2. CASE HandlerMayDo(c)
  BY <1>2 DEF HandlerMayDo, Dial, HandshakeFails, HandshakePanics, StartRelay,
     RelayEnds, Step
<1>3. CASE HttpStep(c)
  BY <1>3 DEF HttpStep, Request, Respond, Upgrade, HttpPeerLeaves, CloseIdle
<1>4. QED
  BY <1>1, <1>2, <1>3 DEF HandlerStep

\* A handler moves its own connection only.
LEMMA HandlerMoves ==
    ASSUME NEW c \in Conns, HandlerStep(c)
    PROVE  \E to \in {"handshake", "relay", "piped", "unwind", "recover", "ended",
                      "active", "idle", "upgraded"} :
               st' = [st EXCEPT ![c] = to]
<1>1. CASE HandlerGoesOn(c)
  BY <1>1 DEF HandlerGoesOn, LogAccept, LogClose, Unwind, Recover, Step
<1>2. CASE HandlerMayDo(c)
  BY <1>2 DEF HandlerMayDo, Dial, HandshakeFails, HandshakePanics, StartRelay,
     RelayEnds, Step
<1>3. CASE HttpStep(c)
  BY <1>3 DEF HttpStep, Request, Respond, Upgrade, HttpPeerLeaves, CloseIdle
<1>4. QED
  BY <1>1, <1>2, <1>3 DEF HandlerStep

\* Start takes a listener of its list.
LEMMA NextListener ==
    ASSUME next <= Len(Order), next \in 1..(Len(Order) + 1)
    PROVE  Order[next] \in Listeners /\ next + 1 \in 1..(Len(Order) + 1)
<1>1. Len(Order) \in Nat
  BY ListenersAssumption
<1>2. next \in 1..Len(Order)
  BY <1>1
<1>3. Order[next] \in Listeners
  BY <1>2 DEF Listeners
<1>4. QED
  BY <1>1, <1>2, <1>3

-----------------------------------------------------------------------------
(* Types *)

States == {"none", "backlog", "refused", "accepted", "ended"}
          \cup TcpServed \cup HttpServed

MainType ==
    /\ proc \in {"starting", "running", "stopping", "exited"}
    /\ next \in 1..(Len(Order) + 1)
    /\ sig \in BOOLEAN /\ expired \in BOOLEAN
    /\ exit \in {"none", "ok", "failed", "signal"}
    /\ cut \subseteq Conns
LnType ==
    /\ ln \in [Listeners -> {"unbound", "bound", "closed"}]
    /\ acc \in [Listeners -> {"none", "accept", "got", "ended"}]
    /\ accepted \in [Listeners -> Conns \cup {NoConn}]
    /\ stop \in [Listeners -> {"no", "called", "closed", "polling", "done"}]
AtType == at \in [Conns -> Listeners \cup {"nowhere"}]
StType == st \in [Conns -> States]
SockType ==
    /\ csock \in [Conns -> BOOLEAN]
    /\ usock \in [Conns -> BOOLEAN]
    /\ panicking \in [Conns -> BOOLEAN]
LogType == connSeq \in Nat /\ id \in [Conns -> Nat] /\ closeLine \in [Conns -> Nat]

LEMMA TypeParts ==
    TypeOK <=> MainType /\ LnType /\ AtType /\ StType /\ SockType /\ LogType
BY DEF TypeOK, MainType, LnType, AtType, StType, SockType, LogType, States

LEMMA StatesServed == TcpServed \subseteq States /\ HttpServed \subseteq States
                      /\ {"none", "backlog", "refused", "accepted", "ended"} \subseteq States
BY DEF States

LEMMA InitType == Init => TypeOK
<1> SUFFICES ASSUME Init PROVE TypeOK
  OBVIOUS
<1>1. MainType
  <2>1. Len(Order) \in Nat
    BY ListenersAssumption
  <2>2. next \in 1..(Len(Order) + 1)
    BY <2>1 DEF Init
  <2>3. QED
    BY <2>2 DEF Init, MainType
<1>2. LnType
  BY DEF Init, LnType
<1>3. AtType /\ StType
  BY DEF Init, AtType, StType, States
<1>4. SockType /\ LogType
  BY DEF Init, SockType, LogType
<1>5. QED
  BY <1>1, <1>2, <1>3, <1>4, TypeParts

\* The process: its own variables, and what it does to the listeners.
LEMMA ProcessType == ASSUME TypeOK, ProcessStep PROVE TypeOK'
<1>1. AtType' /\ StType' /\ SockType' /\ LogType'
  BY ProcessFrame, TypeParts
  DEF AtType, StType, SockType, LogType, connVars, logVars
<1>2. MainType /\ LnType
  BY TypeParts
<1>3. MainType'
  <2>1. ASSUME NEW how \in {"ok", "failed", "signal"}, Exit(how)
        PROVE  /\ proc' \in {"starting", "running", "stopping", "exited"}
               /\ exit' \in {"none", "ok", "failed", "signal"} /\ cut' \subseteq Conns
    BY <2>1 DEF Exit
  <2>2. CASE StartListener
    BY <1>2, <2>2, NextListener DEF StartListener, MainType
  <2>3. CASE StartDone \/ BeginStop \/ Deadline
    BY <1>2, <2>3 DEF StartDone, BeginStop, Deadline, MainType
  <2>4. CASE StopReturns
    BY <1>2, <2>1, <2>4 DEF StopReturns, MainType
  <2>5. CASE StartFails
    BY <1>2, <2>1, <2>5 DEF StartFails, OnStartError, MainType
  <2>6. CASE Signal
    BY <1>2, <2>1, <2>6 DEF Signal, MainType
  <2>7. QED
    BY <2>2, <2>3, <2>4, <2>5, <2>6 DEF ProcessStep, Main
<1>4. LnType'
  <2>1. CASE StartListener
    <3>1. Order[next] \in Listeners
      BY <1>2, <2>1, NextListener DEF StartListener, MainType
    <3>2. QED
      BY <1>2, <2>1, <3>1 DEF StartListener, LnType, AfterBind
  <2>2. CASE BeginStop
    BY <1>2, <2>2 DEF BeginStop, LnType
  <2>3. CASE StartDone \/ StopReturns \/ StartFails \/ Signal \/ Deadline
    BY <1>2, <2>3 DEF StartDone, StopReturns, StartFails, Signal, Deadline, lnVars, LnType
  <2>4. QED
    BY <2>1, <2>2, <2>3 DEF ProcessStep, Main
<1>5. QED
  <2>1. TypeOK' <=> (MainType' /\ LnType' /\ AtType' /\ StType' /\ SockType' /\ LogType')
    BY TypeParts, PTL
  <2>2. QED
    BY <1>1, <1>3, <1>4, <2>1

\* A listener: its own state, and the state of connections in its backlog.
LEMMA ListenerType == ASSUME TypeOK, NEW l \in Listeners, ListenerStep(l) PROVE TypeOK'
<1>1. MainType' /\ AtType' /\ LogType'
  BY ListenerFrame, TypeParts DEF AtType, LogType, MainType, mainVars, logVars
<1>2. LnType /\ StType /\ SockType
  BY TypeParts
<1>3. LnType'
  <2>1. CASE ServeBegins(l) \/ AcceptEnds(l) \/ AcceptFails(l)
    BY <1>2, <2>1 DEF ServeBegins, AcceptEnds, AcceptFails, CloseListener, LnType
  <2>2. CASE Accept(l) \/ Spawn(l)
    BY <1>2, <2>2 DEF Accept, Spawn, Of, LnType
  <2>3. CASE Stopper(l)
    BY <1>2, <2>3 DEF Stopper, TcpStop, ShutdownBegins, ShutdownPolls, ShutdownReturns,
       CloseListener, LnType
  <2>4. QED
    BY <2>1, <2>2, <2>3 DEF ListenerStep, AcceptLoop
<1>4. StType'
  <2>1. ASSUME st' = [c \in Conns |-> IF c \in Of(l) /\ st[c] = "backlog"
                                      THEN "refused" ELSE st[c]]
        PROVE  StType'
    BY <1>2, <2>1, StatesServed DEF StType
  <2>2. CASE ServeBegins(l) \/ AcceptFails(l)
    BY <1>2, <2>1, <2>2 DEF ServeBegins, AcceptFails, CloseListener, StType
  <2>3. CASE AcceptEnds(l) \/ ShutdownPolls(l) \/ ShutdownReturns(l)
    BY <1>2, <2>3 DEF AcceptEnds, ShutdownPolls, ShutdownReturns, connVars, StType
  <2>4. CASE Accept(l)
    BY <1>2, <2>4, StatesServed DEF Accept, StType
  <2>5. CASE Spawn(l)
    BY <1>2, <2>5, StatesServed DEF Spawn, StType, TcpServed
  <2>6. CASE TcpStop(l) \/ ShutdownBegins(l)
    BY <1>2, <2>1, <2>6 DEF TcpStop, ShutdownBegins, CloseListener, StType
  <2>7. QED
    BY <2>2, <2>3, <2>4, <2>5, <2>6 DEF ListenerStep, AcceptLoop, Stopper
<1>5. SockType'
  <2>1. CASE Accept(l)
    BY <1>2, <2>1 DEF Accept, SockType
  <2>2. CASE ~Accept(l)
    BY <1>2, <2>2 DEF ListenerStep, AcceptLoop, ServeBegins, AcceptEnds, Spawn,
       AcceptFails, CloseListener, Stopper, TcpStop, ShutdownBegins, ShutdownPolls, ShutdownReturns,
       connVars, SockType
  <2>3. QED
    BY <2>1, <2>2
<1>6. QED
  <2>1. TypeOK' <=> (MainType' /\ LnType' /\ AtType' /\ StType' /\ SockType' /\ LogType')
    BY TypeParts, PTL
  <2>2. QED
    BY <1>1, <1>3, <1>4, <1>5, <2>1

LEMMA ConnectType ==
    ASSUME TypeOK, NEW c \in Conns, NEW l \in Listeners, Connect(c, l) PROVE TypeOK'
<1>1. MainType' /\ LnType' /\ SockType' /\ LogType'
  BY TypeParts
  DEF Connect, MainType, LnType, SockType, LogType, mainVars, lnVars, logVars
<1>2. AtType' /\ StType'
  BY TypeParts, StatesServed DEF Connect, AtType, StType
<1>3. QED
  <2>1. TypeOK' <=> (MainType' /\ LnType' /\ AtType' /\ StType' /\ SockType' /\ LogType')
    BY TypeParts, PTL
  <2>2. QED
    BY <1>1, <1>2, <2>1

LEMMA HandlerType == ASSUME TypeOK, NEW c \in Conns, HandlerStep(c) PROVE TypeOK'
<1>1. MainType' /\ LnType' /\ AtType'
  BY HandlerFrame, TypeParts DEF MainType, LnType, AtType, mainVars, lnVars
<1>2. StType /\ SockType /\ LogType
  BY TypeParts
<1>3. StType'
  BY <1>2, HandlerMoves, StatesServed DEF StType, TcpServed, HttpServed
<1>4. SockType' /\ LogType'
  <2>1. CASE LogAccept(c)
    BY <1>2, <2>1 DEF LogAccept, NextId, SockType, LogType
  <2>2. CASE LogClose(c)
    BY <1>2, <2>2 DEF LogClose, SockType, LogType
  <2>3. CASE Unwind(c) \/ Recover(c)
    BY <1>2, <2>3 DEF Unwind, Recover, DeferUpstream, SockType, LogType, logVars
  <2>4. CASE HandlerMayDo(c)
    BY <1>2, <2>4 DEF HandlerMayDo, Dial, HandshakeFails, HandshakePanics, StartRelay,
       RelayEnds, SockType, LogType, logVars
  <2>5. CASE HttpStep(c)
    BY <1>2, <2>5 DEF HttpStep, Request, Respond, Upgrade, HttpPeerLeaves, CloseIdle, SockType, LogType,
       logVars
  <2>6. QED
    BY <2>1, <2>2, <2>3, <2>4, <2>5 DEF HandlerStep, HandlerGoesOn
<1>5. QED
  <2>1. TypeOK' <=> (MainType' /\ LnType' /\ AtType' /\ StType' /\ SockType' /\ LogType')
    BY TypeParts, PTL
  <2>2. QED
    BY <1>1, <1>3, <1>4, <2>1

\* Every variable of the gateway keeps its type.
THEOREM AlwaysTypeOK == Spec => []TypeOK
<1>1. ASSUME TypeOK, [Next]_vars PROVE TypeOK'
  <2>1. CASE UNCHANGED vars
    BY <1>1, <2>1 DEF vars, mainVars, lnVars, connVars, logVars, TypeOK
  <2>2. CASE Next
    BY <1>1, <2>2, NextSplit, ProcessType, ListenerType, ConnectType, HandlerType
  <2>3. QED
    BY <1>1, <2>1, <2>2
<1>2. QED
  BY InitType, <1>1, PTL DEF Spec

-----------------------------------------------------------------------------
(* Starting and stopping *)

\* While main starts the listeners, those before next have been bound and those
\* from next on are untouched; nothing stops before main says so, and it says so on a
\* signal.
Lifecycle ==
    /\ proc = "starting" =>
           /\ \A i \in 1..Len(Order) : i < next => ln[Order[i]] # "unbound"
           /\ \A i \in 1..Len(Order) :
                  i >= next => ln[Order[i]] = "unbound" /\ acc[Order[i]] = "none"
    /\ proc \in {"starting", "running"} => \A l \in Listeners : stop[l] = "no"
    /\ proc = "stopping" => sig

LifeInv == Lifecycle /\ AllOrNothing /\ EndsOnlyWhenAsked

LEMMA InitLife == Init => LifeInv
BY ListenersAssumption
DEF Init, LifeInv, Lifecycle, AllOrNothing, EndsOnlyWhenAsked, Alive, Listeners

LEMMA ProcessLife == ASSUME TypeOK, LifeInv, ProcessStep PROVE LifeInv'
<1>1. Lifecycle /\ AllOrNothing /\ EndsOnlyWhenAsked
  BY DEF LifeInv
<1>2. MainType /\ LnType /\ Len(Order) \in Nat
  BY TypeParts, ListenersAssumption
<1>3. CASE StartListener
  <2>1. /\ proc = "starting" /\ next <= Len(Order) /\ next \in 1..(Len(Order) + 1)
        /\ next' = next + 1 /\ UNCHANGED <<proc, sig, exit, stop>>
    BY <1>2, <1>3 DEF StartListener, MainType
  <2>2. Order[next] \in Listeners
    BY <2>1, NextListener
  <2>3. ln'[Order[next]] = "bound"
    BY <1>2, <1>3, <2>2 DEF StartListener, LnType
  <2>4. \A l \in Listeners : l # Order[next] => ln'[l] = ln[l] /\ acc'[l] = acc[l]
    BY <1>2, <1>3 DEF StartListener, LnType
  <2>5. ASSUME NEW i \in 1..Len(Order)
        PROVE  /\ i < next' => ln'[Order[i]] # "unbound"
               /\ i >= next' => ln'[Order[i]] = "unbound" /\ acc'[Order[i]] = "none"
    <3>1. Order[i] \in Listeners
      BY DEF Listeners
    <3>2. CASE i = next
      BY <1>2, <2>1, <2>3, <3>2
    <3>3. CASE i # next
      <4>1. Order[i] # Order[next]
        BY <1>2, <2>1, <3>3, ListenersAssumption
      <4>2. ln'[Order[i]] = ln[Order[i]] /\ acc'[Order[i]] = acc[Order[i]]
        BY <2>4, <3>1, <4>1
      <4>3. (i < next' => i < next) /\ (i >= next' => i >= next)
        BY <1>2, <2>1, <3>3
      <4>4. QED
        BY <1>1, <2>1, <4>2, <4>3 DEF Lifecycle
    <3>4. QED
      BY <3>2, <3>3
  <2>6. Lifecycle'
    BY <1>1, <2>1, <2>5 DEF Lifecycle
  <2>7. AllOrNothing'
    BY <1>1, <2>1, <2>2, <2>3, <2>4 DEF AllOrNothing, Lifecycle
  <2>8. EndsOnlyWhenAsked'
    BY <1>1, <2>1 DEF EndsOnlyWhenAsked, Alive
  <2>9. QED
    BY <2>6, <2>7, <2>8 DEF LifeInv
<1>4. CASE StartDone
  <2>1. /\ proc = "starting" /\ proc' = "running" /\ next > Len(Order)
        /\ UNCHANGED <<next, sig, exit, ln, acc, stop>>
    BY <1>4 DEF StartDone, lnVars
  <2>2. \A l \in Listeners : ln[l] # "unbound"
    BY <1>1, <1>2, <2>1 DEF Lifecycle, Listeners, MainType
  <2>3. QED
    BY <1>1, <2>1, <2>2 DEF LifeInv, Lifecycle, AllOrNothing, EndsOnlyWhenAsked, Alive
<1>5. CASE BeginStop
  <2>1. /\ proc = "running" /\ sig /\ proc' = "stopping"
        /\ UNCHANGED <<next, sig, exit, ln, acc>>
    BY <1>5 DEF BeginStop
  <2>2. \A l \in Listeners : ln'[l] = "closed" => l \in Http /\ acc'[l] = "ended"
    BY <1>1, <2>1 DEF AllOrNothing, Lifecycle
  <2>3. QED
    BY <1>1, <2>1, <2>2 DEF LifeInv, Lifecycle, AllOrNothing, EndsOnlyWhenAsked, Alive
<1>6. CASE Deadline
  BY <1>1, <1>6
  DEF Deadline, lnVars, LifeInv, Lifecycle, AllOrNothing, EndsOnlyWhenAsked, Alive
<1>7. CASE StopReturns \/ StartFails \/ Signal
  <2>1. UNCHANGED <<next, ln, acc, stop>> /\ Alive
    BY <1>7 DEF StopReturns, StartFails, Signal, OnStartError, lnVars, Alive
  <2>2. \/ proc' = "exited" /\ exit' = "signal" /\ UNCHANGED sig
        \/ proc' = "exited" /\ exit' = "ok" /\ proc = "stopping" /\ UNCHANGED sig
        \/ proc' = "exited" /\ exit' = "failed" /\ next <= Len(Order) /\ UNCHANGED sig
        \/ UNCHANGED <<proc, exit>> /\ sig'
    BY <1>7 DEF StopReturns, StartFails, Signal, OnStartError, Exit
  <2>3. QED
    BY <1>1, <2>1, <2>2 DEF LifeInv, Lifecycle, AllOrNothing, EndsOnlyWhenAsked, Alive
<1>8. QED
  BY <1>3, <1>4, <1>5, <1>6, <1>7 DEF ProcessStep, Main

LEMMA ListenerLife ==
    ASSUME TypeOK, LifeInv, NEW l \in Listeners, ListenerStep(l) PROVE LifeInv'
<1>1. Lifecycle /\ AllOrNothing /\ EndsOnlyWhenAsked /\ LnType
  BY TypeParts DEF LifeInv
<1>2. UNCHANGED <<proc, next, sig, exit>>
  BY ListenerFrame DEF mainVars
<1>3. \A k \in Listeners : k # l => UNCHANGED <<ln[k], acc[k], stop[k]>>
  <2>1. CASE AcceptLoop(l) \/ AcceptFails(l)
    BY <1>1, <2>1 DEF AcceptLoop, ServeBegins, Accept, AcceptEnds, Spawn, AcceptFails, CloseListener,
       LnType
  <2>2. CASE Stopper(l)
    BY <1>1, <2>2 DEF Stopper, TcpStop, ShutdownBegins, ShutdownPolls, ShutdownReturns,
       CloseListener, LnType
  <2>3. QED
    BY <2>1, <2>2 DEF ListenerStep
<1>4. /\ stop'[l] = stop[l] \/ (stop[l] # "no" /\ stop'[l] \in {"closed", "polling", "done"})
      /\ \/ ln'[l] = ln[l]
         \/ ln'[l] = "closed" /\ ln[l] = "bound" /\ l \in Http /\ acc'[l] = "ended"
         \/ ln'[l] = "closed" /\ stop'[l] \notin {"no", "called"} /\ stop[l] # "no"
  <2>1. CASE AcceptLoop(l) \/ AcceptFails(l)
    BY <1>1, <2>1 DEF AcceptLoop, ServeBegins, Accept, AcceptEnds, Spawn, AcceptFails, CloseListener,
       LnType
  <2>2. CASE Stopper(l)
    BY <1>1, <2>2 DEF Stopper, TcpStop, ShutdownBegins, ShutdownPolls, ShutdownReturns,
       CloseListener, StopRuns, LnType
  <2>3. QED
    BY <2>1, <2>2 DEF ListenerStep
<1>5. /\ ln[l] = "unbound" /\ acc[l] = "none" => acc'[l] = acc[l]
      /\ acc[l] = "ended" => acc'[l] = acc[l]
  <2>1. CASE AcceptLoop(l) \/ AcceptFails(l)
    BY <2>1 DEF AcceptLoop, ServeBegins, Accept, AcceptReady, AcceptEnds, Spawn,
       AcceptFails, CloseListener
  <2>2. CASE Stopper(l)
    BY <2>2 DEF Stopper, TcpStop, ShutdownBegins, ShutdownPolls, ShutdownReturns
  <2>3. QED
    BY <2>1, <2>2 DEF ListenerStep
<1>6. \A i \in 1..Len(Order) : Order[i] \in Listeners
  BY DEF Listeners
<1>7. Lifecycle'
  BY <1>1, <1>2, <1>3, <1>4, <1>5, <1>6 DEF Lifecycle
<1>8. AllOrNothing'
  BY <1>1, <1>2, <1>3, <1>4, <1>5 DEF AllOrNothing, Lifecycle
<1>9. QED
  BY <1>1, <1>2, <1>7, <1>8 DEF LifeInv, EndsOnlyWhenAsked, Alive

LEMMA NextLife == TypeOK /\ LifeInv /\ [Next]_vars => LifeInv'
<1> SUFFICES ASSUME TypeOK, LifeInv, [Next]_vars PROVE LifeInv'
  OBVIOUS
<1>1. CASE UNCHANGED <<mainVars, lnVars>>
  BY <1>1 DEF mainVars, lnVars, LifeInv, Lifecycle, AllOrNothing, EndsOnlyWhenAsked,
     Alive
<1>2. ASSUME NEW c \in Conns, NEW l \in Listeners, Connect(c, l)
      PROVE  UNCHANGED <<mainVars, lnVars>>
  BY <1>2 DEF Connect
<1>3. UNCHANGED vars => UNCHANGED <<mainVars, lnVars>>
  BY DEF vars
<1>4. QED
  BY <1>1, <1>2, <1>3, NextSplit, ProcessLife, ListenerLife, HandlerFrame

LEMMA AlwaysLife == Spec => []LifeInv
BY AlwaysTypeOK, InitLife, NextLife, PTL DEF Spec

\* main waits for its signal only after every listener was bound, and before Stop
\* nothing closes a listener but the end of its own Serve (gateway.go:35-43,
\* main.go:78-95, http.go:53-57).
THEOREM AlwaysAllOrNothing == Spec => []AllOrNothing
<1>1. LifeInv => AllOrNothing
  BY DEF LifeInv
<1>2. QED
  BY AlwaysLife, <1>1, PTL

\* No connection, whatever it does, ends the process (pipe.go:44-60).
THEOREM AlwaysEndsOnlyWhenAsked == Spec => []EndsOnlyWhenAsked
<1>1. LifeInv => EndsOnlyWhenAsked
  BY DEF LifeInv
<1>2. QED
  BY AlwaysLife, <1>1, PTL

-----------------------------------------------------------------------------
(* From Accept to the handler's end: who holds which socket *)

\* What Accept has returned waits at its listener, and nowhere else, for its
\* goroutine.
Handed ==
    /\ \A l \in Listeners : acc[l] = "got" =>
           accepted[l] \in Conns /\ at[accepted[l]] = l /\ st[accepted[l]] = "accepted"
    /\ \A c \in Conns : st[c] = "accepted" =>
           at[c] \in Listeners /\ acc[at[c]] = "got" /\ accepted[at[c]] = c

\* The client's socket is open before the handler can use it.
ClientOpen ==
    \A c \in Conns : st[c] \in {"accepted", "new", "handshake", "relay"} => csock[c]

SockInv == Handed /\ ClientOpen /\ SocketsReleased

LEMMA InitSock == Init => SockInv
BY DEF Init, SockInv, Handed, ClientOpen, SocketsReleased

\* The process leaves every accepted connection where it is.
LEMMA ProcessSock == ASSUME TypeOK, LifeInv, SockInv, ProcessStep PROVE SockInv'
<1>1. UNCHANGED <<accepted, at, st, csock, usock>>
  BY ProcessFrame DEF connVars
<1>2. \A l \in Listeners : acc[l] = "got" <=> acc'[l] = "got"
  <2>1. CASE StartListener
    <3>1. Order[next] \in Listeners /\ acc[Order[next]] = "none"
      <4>1. Order[next] \in Listeners
        BY <2>1, NextListener, TypeParts DEF StartListener, MainType
      <4>2. next \in 1..Len(Order) /\ next >= next
        BY <2>1, TypeParts, ListenersAssumption DEF StartListener, MainType
      <4>3. QED
        BY <2>1, <4>1, <4>2 DEF StartListener, LifeInv, Lifecycle
    <3>2. QED
      BY <2>1, <3>1, TypeParts DEF StartListener, AfterBind, LnType
  <2>2. CASE ~StartListener
    BY <2>2 DEF ProcessStep, Main, StartDone, BeginStop, StopReturns, StartFails, Signal,
       Deadline, lnVars
  <2>3. QED
    BY <2>1, <2>2
<1>3. QED
  BY <1>1, <1>2 DEF SockInv, Handed, ClientOpen, SocketsReleased

\* Closing a listener refuses what is in its backlog, which holds no socket.
LEMMA RefusedSock ==
    ASSUME TypeOK, SockInv, UNCHANGED <<accepted, at, csock, usock>>,
           \A c \in Conns : st'[c] = st[c] \/ (st[c] = "backlog" /\ st'[c] = "refused"),
           \A l \in Listeners : acc[l] = "got" <=> acc'[l] = "got"
    PROVE  SockInv'
<1>1. Handed'
  BY DEF SockInv, Handed
<1>2. ClientOpen' /\ SocketsReleased'
  BY DEF SockInv, ClientOpen, SocketsReleased
<1>3. QED
  BY <1>1, <1>2 DEF SockInv

LEMMA ListenerSock ==
    ASSUME TypeOK, SockInv, NEW l \in Listeners, ListenerStep(l) PROVE SockInv'
<1>1. LnType /\ StType /\ SockType /\ AtType
  BY TypeParts
<1>2. Handed /\ ClientOpen /\ SocketsReleased
  BY DEF SockInv
<1>3. UNCHANGED <<at, usock>>
  BY ListenerFrame
<1>4. CASE Accept(l)
  <2>1. PICK c \in Of(l) :
            /\ st[c] = "backlog"
            /\ st' = [st EXCEPT ![c] = "accepted"]
            /\ csock' = [csock EXCEPT ![c] = TRUE]
            /\ accepted' = [accepted EXCEPT ![l] = c]
    BY <1>4 DEF Accept
  <2>2. c \in Conns /\ at[c] = l
    BY DEF Of
  <2>3. acc[l] = "accept" /\ acc' = [acc EXCEPT ![l] = "got"]
    BY <1>4 DEF Accept, AcceptReady
  <2>4. /\ st'[c] = "accepted" /\ csock'[c] /\ accepted'[l] = c /\ acc'[l] = "got"
        /\ \A d \in Conns : d # c => st'[d] = st[d] /\ (csock'[d] <=> csock[d])
        /\ \A k \in Listeners : k # l => accepted'[k] = accepted[k] /\ acc'[k] = acc[k]
    BY <1>1, <2>1, <2>2, <2>3 DEF LnType, StType, SockType
  <2>5. ASSUME NEW k \in Listeners, acc'[k] = "got"
        PROVE  accepted'[k] \in Conns /\ at[accepted'[k]] = k /\ st'[accepted'[k]] = "accepted"
    BY <1>2, <2>2, <2>4, <2>5, <2>1 DEF Handed
  <2>6. ASSUME NEW d \in Conns, st'[d] = "accepted"
        PROVE  at[d] \in Listeners /\ acc'[at[d]] = "got" /\ accepted'[at[d]] = d
    BY <1>2, <2>2, <2>3, <2>4, <2>6 DEF Handed
  <2>7. Handed'
    BY <1>3, <2>5, <2>6 DEF Handed
  <2>8. ClientOpen' /\ SocketsReleased'
    BY <1>2, <1>3, <2>1, <2>2, <2>4 DEF ClientOpen, SocketsReleased
  <2>9. QED
    BY <2>7, <2>8 DEF SockInv
<1>5. CASE Spawn(l)
  <2> DEFINE c == accepted[l]
  <2>1. c \in Conns /\ at[c] = l /\ st[c] = "accepted"
    BY <1>2, <1>5 DEF Spawn, Handed
  <2>2. /\ st'[c] = "new" /\ csock' = csock /\ acc'[l] = "accept"
        /\ \A d \in Conns : d # c => st'[d] = st[d]
        /\ \A k \in Listeners : k # l => accepted'[k] = accepted[k] /\ acc'[k] = acc[k]
    BY <1>1, <1>5, <2>1 DEF Spawn, LnType, StType
  <2>3. ASSUME NEW k \in Listeners, acc'[k] = "got"
        PROVE  accepted'[k] \in Conns /\ at[accepted'[k]] = k /\ st'[accepted'[k]] = "accepted"
    BY <1>2, <2>1, <2>2, <2>3 DEF Handed
  <2>4. ASSUME NEW d \in Conns, st'[d] = "accepted"
        PROVE  at[d] \in Listeners /\ acc'[at[d]] = "got" /\ accepted'[at[d]] = d
    BY <1>2, <2>1, <2>2, <2>4 DEF Handed
  <2>5. Handed'
    BY <1>3, <2>3, <2>4 DEF Handed
  <2>6. ClientOpen' /\ SocketsReleased'
    BY <1>2, <1>3, <2>1, <2>2 DEF ClientOpen, SocketsReleased
  <2>7. QED
    BY <2>5, <2>6 DEF SockInv
<1>6. CASE ~Accept(l) /\ ~Spawn(l)
  <2>1. CASE ServeBegins(l) \/ AcceptEnds(l) \/ AcceptFails(l)
    <3>1. UNCHANGED <<accepted, csock>> /\ \A k \in Listeners : acc[k] = "got" <=> acc'[k] = "got"
      BY <1>1, <2>1 DEF ServeBegins, AcceptEnds, AcceptFails, CloseListener, connVars, LnType
    <3>2. \A c \in Conns : st'[c] = st[c] \/ (st[c] = "backlog" /\ st'[c] = "refused")
      BY <2>1 DEF ServeBegins, AcceptEnds, AcceptFails, CloseListener, connVars
    <3>3. QED
      BY <1>3, <3>1, <3>2, RefusedSock
  <2>2. CASE Stopper(l)
    <3>1. UNCHANGED <<accepted, csock, acc>>
      BY <2>2 DEF Stopper, TcpStop, ShutdownBegins, ShutdownPolls, ShutdownReturns,
         connVars
    <3>2. \A c \in Conns : st'[c] = st[c] \/ (st[c] = "backlog" /\ st'[c] = "refused")
      BY <2>2 DEF Stopper, TcpStop, ShutdownBegins, ShutdownPolls, ShutdownReturns,
         CloseListener, connVars
    <3>3. QED
      BY <1>3, <3>1, <3>2, RefusedSock
  <2>3. QED
    BY <1>6, <2>1, <2>2 DEF ListenerStep, AcceptLoop
<1>7. QED
  BY <1>4, <1>5, <1>6

LEMMA ConnectSock ==
    ASSUME TypeOK, SockInv, NEW c \in Conns, NEW l \in Listeners, Connect(c, l)
    PROVE  SockInv'
<1>1. UNCHANGED <<acc, accepted, csock, usock>> /\ st[c] = "none"
  BY DEF Connect, lnVars
<1>2. /\ st'[c] = "backlog"
      /\ \A d \in Conns : d # c => st'[d] = st[d] /\ at'[d] = at[d]
  BY TypeParts DEF Connect, StType, AtType
<1>3. Handed'
  BY <1>1, <1>2 DEF SockInv, Handed
<1>4. ClientOpen' /\ SocketsReleased'
  BY <1>1, <1>2 DEF SockInv, ClientOpen, SocketsReleased
<1>5. QED
  BY <1>3, <1>4 DEF SockInv

\* A handler: what becomes of its own connection.
LEMMA HandlerSock ==
    ASSUME TypeOK, SockInv, NEW c \in Conns, HandlerStep(c) PROVE SockInv'
<1>1. StType /\ SockType
  BY TypeParts
<1>2. UNCHANGED <<acc, accepted, at>>
  BY HandlerFrame DEF lnVars
<1>3. \A d \in Conns : d # c => st'[d] = st[d]
  BY <1>1, HandlerMoves DEF StType
<1>4. /\ st[c] # "accepted" /\ st'[c] # "accepted"
      /\ \A d \in Conns : d # c => (csock'[d] <=> csock[d]) /\ (usock'[d] <=> usock[d])
      /\ st'[c] \in {"new", "handshake", "relay"} => csock'[c]
      /\ st'[c] = "ended" => ~csock'[c] /\ ~usock'[c]
      /\ usock'[c] => csock'[c] /\ st'[c] \in {"handshake", "relay", "unwind"}
  <2>1. CASE LogAccept(c) \/ LogClose(c)
    BY <1>1, <2>1 DEF LogAccept, LogClose, Step, SockInv, ClientOpen, SocketsReleased,
       StType
  <2>2. CASE Unwind(c) \/ Recover(c)
    BY <1>1, <2>2 DEF Unwind, Recover, DeferUpstream, Step, SockInv, SocketsReleased,
       StType, SockType
  <2>3. CASE Dial(c) \/ RelayEnds(c)
    BY <1>1, <2>3 DEF Dial, RelayEnds, Step, SockInv, ClientOpen, SocketsReleased,
       StType, SockType
  <2>4. CASE HandshakeFails(c) \/ HandshakePanics(c) \/ StartRelay(c)
    BY <1>1, <2>4 DEF HandshakeFails, HandshakePanics, StartRelay, Step, SockInv,
       ClientOpen, SocketsReleased, StType
  <2>5. CASE HttpStep(c)
    BY <1>1, <2>5 DEF HttpStep, Request, Respond, Upgrade, HttpPeerLeaves, CloseIdle, HttpServed, SockInv,
       SocketsReleased, StType, SockType
  <2>6. QED
    BY <2>1, <2>2, <2>3, <2>4, <2>5 DEF HandlerStep, HandlerGoesOn, HandlerMayDo
<1>5. Handed'
  BY <1>2, <1>3, <1>4 DEF SockInv, Handed
<1>6. ClientOpen' /\ SocketsReleased'
  BY <1>3, <1>4 DEF SockInv, ClientOpen, SocketsReleased
<1>7. QED
  BY <1>5, <1>6 DEF SockInv

LEMMA NextSock == TypeOK /\ LifeInv /\ SockInv /\ [Next]_vars => SockInv'
<1>1. SockInv /\ UNCHANGED vars => SockInv'
  BY DEF vars, lnVars, connVars, SockInv, Handed, ClientOpen, SocketsReleased
<1>2. QED
  BY <1>1, NextSplit, ProcessSock, ListenerSock, ConnectSock, HandlerSock

LEMMA AlwaysSock == Spec => []SockInv
BY AlwaysTypeOK, AlwaysLife, InitSock, NextSock, PTL DEF Spec

\* Whichever way a handler ends, by a return before or after the relay or by a
\* panic, it has closed both its sockets (safehandle.go, the deferred closes).
THEOREM AlwaysSocketsReleased == Spec => []SocketsReleased
<1>1. SockInv => SocketsReleased
  BY DEF SockInv
<1>2. QED
  BY AlwaysSock, <1>1, PTL

-----------------------------------------------------------------------------
(* The connection log *)

\* The counter is ahead of every id it has given.
LogInv == LogLinesCorrelate /\ \A c \in Conns : id[c] <= connSeq

LEMMA InitLog == Init => LogInv
BY DEF Init, LogInv, LogLinesCorrelate

\* No other step takes a connection out of the states behind its relay.
LEMMA OthersLog ==
    ASSUME TypeOK, LogInv, UNCHANGED logVars,
           \A c \in Conns : st[c] \in {"unwind", "recover", "ended"}
                                => st'[c] \in {"unwind", "recover", "ended"}
    PROVE  LogInv'
BY TypeParts DEF LogInv, LogLinesCorrelate, LogType, logVars

LEMMA ListenerLog ==
    ASSUME TypeOK, SockInv, LogInv, NEW l \in Listeners, ListenerStep(l) PROVE LogInv'
<1>1. StType
  BY TypeParts
<1>2. SUFFICES ASSUME NEW c \in Conns, st[c] \in {"unwind", "recover", "ended"}
               PROVE  st'[c] = st[c]
  BY <1>2, ListenerFrame, OthersLog
<1>3. CASE Accept(l)
  BY <1>1, <1>2, <1>3 DEF Accept, Of, StType
<1>4. CASE Spawn(l)
  <2>1. st[accepted[l]] = "accepted"
    BY <1>4 DEF Spawn, SockInv, Handed
  <2>2. QED
    BY <1>1, <1>2, <1>4, <2>1 DEF Spawn, StType
<1>5. CASE ServeBegins(l) \/ AcceptEnds(l) \/ AcceptFails(l)
  BY <1>2, <1>5 DEF ServeBegins, AcceptEnds, AcceptFails, CloseListener, connVars
<1>6. CASE Stopper(l)
  BY <1>2, <1>6 DEF Stopper, TcpStop, ShutdownBegins, ShutdownPolls, ShutdownReturns,
     CloseListener, connVars
<1>7. QED
  BY <1>3, <1>4, <1>5, <1>6 DEF ListenerStep, AcceptLoop

LEMMA HandlerLog ==
    ASSUME TypeOK, LogInv, NEW c \in Conns, HandlerStep(c) PROVE LogInv'
<1>1. StType /\ LogType
  BY TypeParts
<1>2. \A d \in Conns : d # c => st'[d] = st[d]
  BY <1>1, HandlerMoves DEF StType
<1>3. CASE LogAccept(c)
  <2>1. st[c] = "new" /\ st'[c] = "handshake" /\ UNCHANGED closeLine
    BY <1>1, <1>3 DEF LogAccept, Step, StType
  <2>2. connSeq' = connSeq + 1 /\ id'[c] = connSeq + 1
        /\ \A d \in Conns : d # c => id'[d] = id[d]
    BY <1>1, <1>3 DEF LogAccept, NextId, LogType
  <2>3. closeLine[c] = 0
    BY <2>1 DEF LogInv, LogLinesCorrelate
  <2>4. \A d \in Conns : id[d] \in Nat /\ id[d] <= connSeq /\ connSeq \in Nat
    BY <1>1 DEF LogInv, LogType
  <2>5. \A d \in Conns : id'[d] <= connSeq'
    BY <2>2, <2>4
  <2>6. \A d \in Conns \ {c} : id'[d] # id'[c]
    BY <2>2, <2>4
  <2>7. LogLinesCorrelate'
    BY <1>2, <2>1, <2>2, <2>3, <2>6 DEF LogInv, LogLinesCorrelate
  <2>8. QED
    BY <2>5, <2>7 DEF LogInv
<1>4. CASE LogClose(c)
  <2>1. st'[c] = "unwind" /\ UNCHANGED <<connSeq, id>>
    BY <1>1, <1>4 DEF LogClose, Step, StType
  <2>2. closeLine'[c] = id[c] /\ \A d \in Conns : d # c => closeLine'[d] = closeLine[d]
    BY <1>1, <1>4 DEF LogClose, LogType
  <2>3. QED
    BY <1>2, <2>1, <2>2 DEF LogInv, LogLinesCorrelate
<1>5. CASE Unwind(c) \/ Recover(c)
  <2>1. st'[c] \in {"recover", "ended"} /\ UNCHANGED logVars
    BY <1>1, <1>5 DEF Unwind, Recover, Step, StType
  <2>2. QED
    BY <1>2, <2>1, OthersLog
<1>6. CASE HandlerMayDo(c)
  <2>1. st[c] \in {"handshake", "relay"} /\ UNCHANGED logVars
    BY <1>6 DEF HandlerMayDo, Dial, HandshakeFails, HandshakePanics, StartRelay,
       RelayEnds, Step
  <2>2. QED
    BY <1>2, <2>1, OthersLog
<1>7. CASE HttpStep(c)
  <2>1. st[c] \in {"new", "active", "idle", "upgraded"} /\ UNCHANGED logVars
    BY <1>7 DEF HttpStep, Request, Respond, Upgrade, HttpPeerLeaves, CloseIdle, HttpServed
  <2>2. QED
    BY <1>2, <2>1, OthersLog
<1>8. QED
  BY <1>3, <1>4, <1>5, <1>6, <1>7 DEF HandlerStep, HandlerGoesOn

LEMMA NextLog == TypeOK /\ SockInv /\ LogInv /\ [Next]_vars => LogInv'
<1> SUFFICES ASSUME TypeOK, SockInv, LogInv, [Next]_vars PROVE LogInv'
  OBVIOUS
<1>1. UNCHANGED vars \/ ProcessStep => UNCHANGED <<st, logVars>>
  BY ProcessFrame DEF vars, connVars
<1>2. ASSUME NEW c \in Conns, NEW l \in Listeners, Connect(c, l)
      PROVE  /\ UNCHANGED logVars
             /\ \A d \in Conns : st[d] \in {"unwind", "recover", "ended"} => st'[d] = st[d]
  BY <1>2, TypeParts DEF Connect, StType
<1>3. QED
  BY <1>1, <1>2, NextSplit, ListenerLog, HandlerLog, OthersLog

\* The ids of the connection log are unique over the life of the process, however
\* many handlers take one at a time, and a close line carries the id of its own
\* accept line (pipe.go:14-50).
THEOREM AlwaysLogLinesCorrelate == Spec => []LogLinesCorrelate
<1>1. LogInv => LogLinesCorrelate
  BY DEF LogInv
<1>2. QED
  BY AlwaysTypeOK, AlwaysSock, InitLog, NextLog, <1>1, PTL DEF Spec

-----------------------------------------------------------------------------
(* Draining *)

\* Once Shutdown polls, Serve no longer accepts.
ServeOver ==
    \A l \in Http : stop[l] \in {"polling", "done"} => acc[l] \in {"none", "ended"}

QuietInv == ServeOver /\ HttpQuietAfterShutdown

LEMMA InitQuiet == Init => QuietInv
BY ListenersAssumption DEF Init, QuietInv, ServeOver, HttpQuietAfterShutdown

LEMMA HttpListeners == Http \subseteq Listeners
BY ListenersAssumption

LEMMA ProcessQuiet == ASSUME TypeOK, LifeInv, QuietInv, ProcessStep PROVE QuietInv'
<1>1. UNCHANGED <<at, st>>
  BY ProcessFrame DEF connVars
<1>2. CASE StartListener \/ BeginStop
  <2>1. \A l \in Listeners : stop'[l] \in {"no", "called"}
    BY <1>2 DEF StartListener, BeginStop, LifeInv, Lifecycle
  <2>2. QED
    BY <2>1, HttpListeners DEF QuietInv, ServeOver, HttpQuietAfterShutdown
<1>3. CASE ~StartListener /\ ~BeginStop
  <2>1. UNCHANGED lnVars /\ (expired' = expired \/ expired' = TRUE)
    BY <1>3 DEF ProcessStep, Main, StartDone, StopReturns, StartFails, Signal, Deadline
  <2>2. QED
    BY <1>1, <2>1
    DEF QuietInv, ServeOver, HttpQuietAfterShutdown, Of, Tracked, Served, lnVars
<1>4. QED
  BY <1>2, <1>3

\* Another listener, or this one before and after its Shutdown.
LEMMA ListenerQuiet ==
    ASSUME TypeOK, SockInv, QuietInv, NEW k \in Listeners, ListenerStep(k)
    PROVE  QuietInv'
<1>1. LnType /\ StType
  BY TypeParts
<1>2. UNCHANGED <<at, expired>>
  BY ListenerFrame DEF mainVars
<1>3. \A l \in Listeners : l # k => acc'[l] = acc[l] /\ stop'[l] = stop[l]
  BY <1>1 DEF ListenerStep, AcceptLoop, ServeBegins, Accept, AcceptEnds, Spawn,
     AcceptFails, CloseListener, Stopper, TcpStop, ShutdownBegins, ShutdownPolls, ShutdownReturns, LnType
<1>4. ServeOver'
  <2>1. k \in Http /\ stop'[k] \in {"polling", "done"} => acc'[k] \in {"none", "ended"}
    <3>1. CASE AcceptLoop(k) \/ AcceptFails(k)
      BY <1>1, <3>1 DEF AcceptLoop, ServeBegins, Accept, AcceptReady, AcceptEnds, Spawn,
         AcceptFails, CloseListener, LnType, QuietInv, ServeOver
    <3>2. CASE Stopper(k)
      BY <1>1, <3>2 DEF Stopper, TcpStop, ShutdownBegins, ShutdownPolls, ServeIsOver,
         ShutdownReturns, LnType, QuietInv, ServeOver
    <3>3. QED
      BY <3>1, <3>2 DEF ListenerStep
  <2>2. QED
    BY <1>3, <2>1, HttpListeners DEF QuietInv, ServeOver
<1>5. ASSUME NEW l \in Http, stop'[l] = "done", ~expired, NEW c \in Conns, at[c] = l
      PROVE  ~Tracked(c)' /\ st'[c] # "accepted"
  <2>1. l \in Listeners /\ (stop[l] = "done" => ~Tracked(c) /\ st[c] # "accepted")
    BY <1>2, <1>5, HttpListeners DEF QuietInv, HttpQuietAfterShutdown, Of
  <2>2. st'[c] = st[c] => Tracked(c)' = Tracked(c)
    BY DEF Tracked, Served
  <2>3. CASE stop[l] = "done"
    <3>1. st'[c] = st[c] \/ st'[c] = "refused"
      <4>1. CASE Accept(k)
        <5>1. k # l
          BY <2>3, <4>1 DEF Accept, AcceptReady, QuietInv, ServeOver
        <5>2. QED
          BY <1>1, <1>5, <4>1, <5>1 DEF Accept, Of, StType
      <4>2. CASE Spawn(k)
        <5>1. k # l
          BY <2>3, <4>2 DEF Spawn, QuietInv, ServeOver
        <5>2. at[accepted[k]] = k
          BY <4>2 DEF Spawn, SockInv, Handed
        <5>3. QED
          BY <1>1, <1>5, <4>2, <5>1, <5>2 DEF Spawn, StType
      <4>3. CASE ServeBegins(k) \/ AcceptEnds(k) \/ AcceptFails(k)
        BY <4>3 DEF ServeBegins, AcceptEnds, AcceptFails, CloseListener, connVars
      <4>4. CASE Stopper(k)
        BY <4>4 DEF Stopper, TcpStop, ShutdownBegins, ShutdownPolls, ShutdownReturns,
           CloseListener, connVars
      <4>5. QED
        BY <4>1, <4>2, <4>3, <4>4 DEF ListenerStep, AcceptLoop
    <3>2. st'[c] = "refused" => ~Tracked(c)'
      BY DEF Tracked, Served, TcpServed, HttpServed
    <3>3. QED
      BY <2>1, <2>2, <2>3, <3>1, <3>2
  <2>4. CASE stop[l] # "done"
    <3>1. k = l /\ ShutdownReturns(l)
      <4>1. k = l
        BY <1>3, <1>5, <2>1, <2>4
      <4>2. CASE AcceptLoop(l) \/ AcceptFails(l)
        BY <1>5, <2>4, <4>2 DEF AcceptLoop, ServeBegins, Accept, AcceptEnds, Spawn, AcceptFails, CloseListener
      <4>3. CASE Stopper(l)
        BY <1>1, <1>5, <2>1, <2>4, <4>1, <4>3 DEF Stopper, TcpStop, ShutdownBegins,
           ShutdownPolls, LnType
      <4>4. QED
        BY <4>1, <4>2, <4>3 DEF ListenerStep
    <3>2. Drained(l) /\ stop[l] = "polling" /\ st' = st
      BY <1>5, <3>1 DEF ShutdownReturns, GivesUp, connVars
    <3>3. ~Tracked(c)
      BY <1>5, <3>2 DEF Drained, Of
    <3>4. st[c] # "accepted"
      BY <1>5, <3>2 DEF SockInv, Handed, QuietInv, ServeOver
    <3>5. QED
      BY <2>2, <3>2, <3>3, <3>4
  <2>5. QED
    BY <2>3, <2>4
<1>6. HttpQuietAfterShutdown'
  BY <1>2, <1>5 DEF HttpQuietAfterShutdown, Of, Tracked, Served
<1>7. QED
  BY <1>4, <1>6 DEF QuietInv

LEMMA ConnectQuiet ==
    ASSUME TypeOK, QuietInv, NEW c \in Conns, NEW l \in Listeners, Connect(c, l)
    PROVE  QuietInv'
<1>1. UNCHANGED <<stop, acc, expired>>
  BY DEF Connect, mainVars, lnVars
<1>2. /\ st'[c] = "backlog"
      /\ \A d \in Conns : d # c => st'[d] = st[d] /\ at'[d] = at[d]
  BY TypeParts DEF Connect, StType, AtType
<1>3. ServeOver'
  BY <1>1 DEF QuietInv, ServeOver
<1>4. HttpQuietAfterShutdown'
  BY <1>1, <1>2
  DEF QuietInv, HttpQuietAfterShutdown, Of, Tracked, Served, TcpServed, HttpServed
<1>5. QED
  BY <1>3, <1>4 DEF QuietInv

\* No connection comes back to the server: a handler's step starts from one it
\* tracks, or ends one that was upgraded.
LEMMA HandlerQuiet ==
    ASSUME TypeOK, QuietInv, NEW c \in Conns, HandlerStep(c) PROVE QuietInv'
<1>1. UNCHANGED <<stop, acc, at, expired>>
  BY HandlerFrame DEF mainVars, lnVars
<1>2. \A d \in Conns : d # c => st'[d] = st[d]
  BY HandlerMoves, TypeParts DEF StType
<1>3. Tracked(c) \/ st'[c] = st[c] \/ st'[c] = "ended"
  <2>1. CASE HandlerGoesOn(c)
    BY <2>1 DEF HandlerGoesOn, LogAccept, LogClose, Unwind, Recover, Step, Tracked,
       Served, TcpServed
  <2>2. CASE HandlerMayDo(c)
    BY <2>2 DEF HandlerMayDo, Dial, HandshakeFails, HandshakePanics, StartRelay,
       RelayEnds, Step, Tracked, Served, TcpServed
  <2>3. CASE HttpStep(c)
    BY <2>3, TypeParts DEF HttpStep, Request, Respond, Upgrade, HttpPeerLeaves,
       CloseIdle, Tracked, Served, HttpServed, StType
  <2>4. QED
    BY <2>1, <2>2, <2>3 DEF HandlerStep
<1>4. ServeOver'
  BY <1>1 DEF QuietInv, ServeOver
<1>5. HttpQuietAfterShutdown'
  BY <1>1, <1>2, <1>3 DEF QuietInv, HttpQuietAfterShutdown, Of, Tracked, Served,
     TcpServed, HttpServed
<1>6. QED
  BY <1>4, <1>5 DEF QuietInv

LEMMA NextQuiet == TypeOK /\ LifeInv /\ SockInv /\ QuietInv /\ [Next]_vars => QuietInv'
<1>1. QuietInv /\ UNCHANGED vars => QuietInv'
  BY DEF vars, mainVars, lnVars, connVars, QuietInv, ServeOver, HttpQuietAfterShutdown,
     Of, Tracked, Served
<1>2. QED
  BY <1>1, NextSplit, ProcessQuiet, ListenerQuiet, ConnectQuiet, HandlerQuiet

LEMMA AlwaysQuiet == Spec => []QuietInv
BY AlwaysTypeOK, AlwaysLife, AlwaysSock, InitQuiet, NextQuiet, PTL DEF Spec

\* A Shutdown that returns in time leaves of its listener's connections only
\* those that were upgraded, and none that Accept has returned and no handler
\* has: it waits for Serve before it looks (http.go:61-66).
THEOREM AlwaysHttpQuiet == Spec => []HttpQuietAfterShutdown
<1>1. QuietInv => HttpQuietAfterShutdown
  BY DEF QuietInv
<1>2. QED
  BY AlwaysQuiet, <1>1, PTL

\* Hence the process, unless its ten seconds are over, does not end under a
\* request of an HTTP listener (README.md:142).
THEOREM AlwaysHttpDrains == Spec => []HttpDrainsOnStop
<1>1. Init => HttpDrainsOnStop
  BY DEF Init, HttpDrainsOnStop
<1>2. ASSUME EndsOnlyWhenAsked, QuietInv, HttpDrainsOnStop, [Next]_vars
      PROVE  HttpDrainsOnStop'
  <2>1. CASE StopReturns
    <3>1. ASSUME NEW c \in Conns, Served(c), IsHttp(c), st[c] # "upgraded", ~expired
          PROVE  FALSE
      <4>1. stop[at[c]] = "done" /\ at[c] \in Http
        BY <2>1, <3>1, HttpListeners DEF StopReturns, StopWaits, IsHttp
      <4>2. QED
        BY <1>2, <3>1, <4>1 DEF QuietInv, HttpQuietAfterShutdown, Of, Tracked
    <3>2. cut' = {c \in Conns : Served(c)} /\ UNCHANGED <<at, st, expired>>
      BY <2>1 DEF StopReturns, Exit, connVars
    <3>3. QED
      BY <3>1, <3>2 DEF HttpDrainsOnStop, IsHttp
  <2>2. CASE Next /\ ~StopReturns
    <3>1. Alive
      BY <2>2, NextSplit, ListenerFrame, HandlerFrame
      DEF ProcessStep, Main, StartListener, StartDone, BeginStop, StartFails, Signal,
          Deadline, Connect, Alive
    <3>2. exit' \in {"none", "failed", "signal"}
      <4>1. exit' = exit \/ exit' \in {"failed", "signal"}
        BY <2>2, NextSplit, ListenerFrame, HandlerFrame
        DEF ProcessStep, Main, StartListener, StartDone, BeginStop, StartFails,
            OnStartError, Exit, Signal, Deadline, Connect, mainVars
      <4>2. QED
        BY <1>2, <3>1, <4>1 DEF EndsOnlyWhenAsked
    <3>3. QED
      BY <3>2 DEF HttpDrainsOnStop
  <2>3. CASE UNCHANGED vars
    BY <1>2, <2>3 DEF vars, mainVars, connVars, HttpDrainsOnStop, IsHttp
  <2>4. QED
    BY <1>2, <2>1, <2>2, <2>3
<1>3. QED
  BY AlwaysEndsOnlyWhenAsked, AlwaysQuiet, <1>1, <1>2, PTL DEF Spec
=============================================================================
