------------------------------ MODULE Connection ------------------------------
(***************************************************************************)
(* What the handlers of one connection have in common: two peers, the four *)
(* streams between them and the handler, and the ways in which a handler   *)
(* reads, writes and gives up.  PostgresProxy, MySQLProxy, OracleProxy and *)
(* HTTPProxy extend it.                                                    *)
(*                                                                         *)
(* A stream is kept whole, as a sequence of messages, with the number of   *)
(* messages its reader has taken.  The client sends its script without     *)
(* waiting for answers; the upstream follows a mode, that of an honest     *)
(* server or "free": it sends anything.                                    *)
(***************************************************************************)
EXTENDS Naturals, Sequences, SequencesExt

CONSTANTS
    Scripts,     \* what clients send: sequences of client messages
    Modes,       \* the upstream's behaviours
    Configs,     \* what may be configured, as far as the handler looks at it
    FreeMsgs,    \* what an upstream in mode "free" may send
    MaxFree,     \* bound: how many of them
    MaxAhead     \* bound: how many of them the handler has not yet read

VARIABLES
    pc,         \* where the handler is
    mode,       \* how the upstream behaves
    cfg,        \* the configuration of the service
    script,     \* what the client will send
    cSent,      \* what the client has sent
    cRead,      \* how much of it the handler has read
    toClient,   \* what the handler has written to the client
    uSent,      \* what the upstream has sent
    uRead,      \* how much of it the handler has read
    toUpstream, \* what the handler has written to the upstream
    srvRead,    \* how much of it the upstream has read
    srv,        \* the state of an honest upstream
    cEof, uEof  \* the client, the upstream has closed its side

handlerVars == <<pc, cRead, toClient, uRead, toUpstream>>
clientVars  == <<script, cSent, cEof>>
serverVars  == <<mode, cfg, uSent, srvRead, srv, uEof>>
vars == <<handlerVars, clientVars, serverVars>>

InitAt(handler, server) ==
    /\ pc = handler /\ srv = server
    /\ mode \in Modes /\ cfg \in Configs /\ script \in Scripts
    /\ cSent = <<>> /\ cRead = 0 /\ toClient = <<>>
    /\ uSent = <<>> /\ uRead = 0 /\ toUpstream = <<>> /\ srvRead = 0
    /\ cEof = FALSE /\ uEof = FALSE
-----------------------------------------------------------------------------
(* The client *)

ClientSends ==
    /\ pc # "closed" /\ ~cEof /\ Len(cSent) < Len(script)
    /\ cSent' = Append(cSent, script[Len(cSent) + 1])
    /\ UNCHANGED <<handlerVars, serverVars, script, cEof>>

ClientCloses ==
    /\ pc # "closed" /\ ~cEof
    /\ cEof' = TRUE
    /\ UNCHANGED <<handlerVars, serverVars, script, cSent>>
-----------------------------------------------------------------------------
(* The upstream.  It is there while the handler is in one of the states     *)
(* connected.                                                               *)

\* It sends reply of itself and goes on to t.
Speaks(connected, reply, t) ==
    /\ pc \in connected /\ ~uEof /\ mode # "free"
    /\ uSent' = uSent \o reply
    /\ srv' = t
    /\ UNCHANGED <<handlerVars, clientVars, mode, cfg, srvRead, uEof>>

\* In state s it reads m, sends reply and goes on to t.
Answer(s, m, reply, t) ==
    /\ pc # "closed" /\ mode # "free" /\ ~uEof
    /\ srv = s /\ srvRead < Len(toUpstream) /\ toUpstream[srvRead + 1] = m
    /\ srvRead' = srvRead + 1
    /\ uSent' = uSent \o reply
    /\ srv' = t
    /\ UNCHANGED <<handlerVars, clientVars, mode, cfg, uEof>>

SendsAnything(connected) ==
    /\ mode = "free" /\ ~uEof /\ pc \in connected
    /\ Len(uSent) < MaxFree /\ Len(uSent) - uRead < MaxAhead
    /\ \E m \in FreeMsgs : uSent' = Append(uSent, m)
    /\ UNCHANGED <<handlerVars, clientVars, mode, cfg, srvRead, srv, uEof>>

Closes(connected) ==
    /\ ~uEof /\ pc \in connected
    /\ uEof' = TRUE
    /\ UNCHANGED <<handlerVars, clientVars, mode, cfg, uSent, srvRead, srv>>
-----------------------------------------------------------------------------
(* The handler *)

FromClient   == cSent[cRead + 1]
FromUpstream == uSent[uRead + 1]
ReadsClient   == cRead < Len(cSent) /\ cRead' = cRead + 1 /\ UNCHANGED uRead
ReadsUpstream == uRead < Len(uSent) /\ uRead' = uRead + 1 /\ UNCHANGED cRead
ReadsNobody   == UNCHANGED <<cRead, uRead>>

TellClient(m)   == toClient' = Append(toClient, m) /\ UNCHANGED toUpstream
TellUpstream(m) == toUpstream' = Append(toUpstream, m) /\ UNCHANGED toClient
TellNobody      == UNCHANGED <<toClient, toUpstream>>

Goto(p) == pc' = p
Stay    == UNCHANGED pc

\* A return or a panic: the deferred calls close both connections, whatever the
\* peers still have under way.
Close == pc' = "closed"

PeersUnchanged == UNCHANGED <<clientVars, serverVars>>

\* A read finds its peer gone, or a write fails: in the states reading the
\* handler reads from that peer, in the states writing it (also) writes to it.
ClientGone(reading, writing) ==
    /\ cEof
    /\ (pc \in reading /\ cRead = Len(cSent)) \/ pc \in writing
    /\ Close /\ TellNobody /\ ReadsNobody /\ PeersUnchanged

UpstreamGone(reading, writing) ==
    /\ uEof
    /\ (pc \in reading /\ uRead = Len(uSent)) \/ pc \in writing
    /\ Close /\ TellNobody /\ ReadsNobody /\ PeersUnchanged

\* pipe (module Pipe), message by message; the client's bytes begin where the
\* handler stopped reading.
RelayedLatest == cSent[Len(cSent)]     \* mutant: a buffer is overwritten
Relayed == FromClient

PassUp ==
    /\ ReadsClient /\ TellUpstream(Relayed)
    /\ Stay /\ PeersUnchanged

PassDown ==
    /\ pc = "relay" /\ ReadsUpstream
    /\ TellClient(FromUpstream)
    /\ Stay /\ PeersUnchanged
-----------------------------------------------------------------------------
(* For the properties *)

TypeInvariant(states, serverStates) ==
    /\ pc \in states /\ srv \in serverStates
    /\ mode \in Modes /\ cfg \in Configs /\ script \in Scripts
    /\ IsPrefix(cSent, script) /\ cRead \in 0..Len(cSent)
    /\ uRead \in 0..Len(uSent) /\ srvRead \in 0..Len(toUpstream)
    /\ cEof \in BOOLEAN /\ uEof \in BOOLEAN

\* How often the message m, a message of one of the types, occurs among the first
\* n messages of s.
Count(s, n, m)          == Cardinality({i \in 1..n : s[i] = m})
CountTypes(s, n, types) == Cardinality({i \in 1..n : s[i][1] \in types})

\* m is the first of its like in the sequence s, at g.
IsFirst(s, m, g) == s[g] = m /\ \A j \in 1..(g - 1) : s[j] # m
=============================================================================
