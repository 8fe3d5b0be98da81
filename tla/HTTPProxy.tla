------------------------------ MODULE HTTPProxy ------------------------------
(***************************************************************************)
(* One client connection of an HTTP listener, internal/gateway/http.go: a  *)
(* net/http server hands its requests one after the other to a             *)
(* ReverseProxy, whose Director sets the configured headers.  Server and   *)
(* ReverseProxy are the library's; they are modelled as far as the code    *)
(* relies on them.                                                         *)
(*                                                                         *)
(* A request is <<"request", i, headers, nominated>>: headers gives every  *)
(* name a value, "" for none, and nominated holds the names listed in its  *)
(* Connection header.  cfg is the set of configured <<name, value>> pairs; *)
(* names are in their canonical form, so that two spellings of a name are  *)
(* two pairs.                                                              *)
(***************************************************************************)
EXTENDS Connection

\* A credential, another header, and one that is between neighbours only.
Names    == {"Authorization", "X-Api-Key", "Proxy-Authorization"}
HopByHop == {"Proxy-Authorization"}

Request(i, headers, nominated) == <<"request", i, headers, nominated>>
Forwarded(i, headers)          == <<"forwarded", i, headers>>
Reply(i)                       == <<"reply", i>>
BadGateway(i)                  == <<"badGateway", i>>

ClientMsgs == {"request"} \X Nat \X [Names -> STRING] \X SUBSET Names

Id(m)        == m[2]
Headers(m)   == m[3]
Nominated(m) == m[4]

Connected == {"await"}

Init == InitAt("serve", "up")
-----------------------------------------------------------------------------
(* The upstream answers a request; it may fail instead at any moment, which *)
(* the handler sees as the error of a dial or of an exchange.               *)

UpstreamAnswers ==
    \E m \in Range(toUpstream) : Answer("up", m, <<Reply(Id(m))>>, "up")
-----------------------------------------------------------------------------
(* The handler *)

Configured(n) == {p[2] : p \in {q \in cfg : q[1] = n}}

\* The Director deletes and sets each configured header, in the order of a map:
\* of two spellings of a name either may be the last.
Injected(h) ==
    {g \in [Names -> UNION {{h[n]} \cup Configured(n) : n \in Names}] :
        \A n \in Names : IF Configured(n) = {} THEN g[n] = h[n]
                                               ELSE g[n] \in Configured(n)}

\* Behind the Director ReverseProxy removes what the Connection header
\* nominates and what is between neighbours only.
Stripped(h, nominated) ==
    [n \in Names |-> IF n \in nominated \cup HopByHop THEN "" ELSE h[n]]

\* An exchange that has failed leaves nothing of its connection behind.
DropConnection == uRead' = Len(uSent) /\ srvRead' = Len(toUpstream)

Serve ==
    /\ pc = "serve" /\ ReadsClient
    /\ LET m == FromClient IN
       \/ /\ \E h \in Injected(Headers(m)) :
                 TellUpstream(Forwarded(Id(m), Stripped(h, Nominated(m))))
          /\ Goto("await")
       \/ TellClient(BadGateway(Id(m))) /\ Stay
    /\ PeersUnchanged

ForwardAnswer ==
    /\ pc = "await" /\ ReadsUpstream
    /\ TellClient(FromUpstream)
    /\ Goto("serve") /\ PeersUnchanged

\* ErrorHandler: the upstream has failed before its answer has begun; the
\* connection to the client goes on.
ExchangeFails ==
    /\ pc = "await"
    /\ TellClient(BadGateway(cRead)) /\ Goto("serve")
    /\ DropConnection
    /\ UNCHANGED <<cRead, clientVars, mode, cfg, uSent, srv, uEof>>

\* An answer that breaks off ends the connection to the client, too.
AnswerBreaksOff ==
    /\ pc = "await" /\ ReadsUpstream
    /\ Close /\ TellNobody /\ PeersUnchanged

ClientLeft == ClientGone({"serve"}, {"await"})

Handler == Serve \/ ForwardAnswer \/ ExchangeFails \/ AnswerBreaksOff \/ ClientLeft

Next == ClientSends \/ ClientCloses \/ UpstreamAnswers \/ Handler

Spec == Init /\ [][Next]_vars
-----------------------------------------------------------------------------
(* Properties *)

TypeOK ==
    /\ TypeInvariant({"serve", "await", "closed"}, {"up"})
    /\ \A m \in Range(toUpstream) : DOMAIN Headers(m) = Names

\* What the upstream gets for a configured name is the configured value or
\* nothing, never the client's; other headers pass as they are unless they are
\* meant for the gateway.
UpstreamSeesConfig ==
    \A m \in Range(toUpstream), n \in Names :
        LET asked == cSent[Id(m)] IN
        Headers(m)[n] \in
            IF n \in Nominated(asked) \cup HopByHop THEN {""}
            ELSE IF Configured(n) # {} THEN Configured(n)
            ELSE {Headers(asked)[n]}

\* "Headers the gateway sets on every request" (docs/new-users-guide.md:136).
SetOnEveryRequest ==
    \A m \in Range(toUpstream), n \in Names :
        Configured(n) # {} => Headers(m)[n] \in Configured(n)

\* Every request has its own answer or an error, in the order of the requests:
\* the answer of an exchange that was given up reaches no later one.
RepliesMatch ==
    \A k \in 1..Len(toClient) : toClient[k] \in {Reply(k), BadGateway(k)}

\* No session is opened and none refused: every request carries the credential.
MustOpen == FALSE
MustEnd  == FALSE
Asked(i)    == i <= Len(cSent) /\ pc # "closed"
Answered(i) == Len(toClient) >= i \/ pc = "closed"
=============================================================================
