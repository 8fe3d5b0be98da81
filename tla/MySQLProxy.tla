------------------------------ MODULE MySQLProxy ------------------------------
(***************************************************************************)
(* One connection of the MySQL proxy, internal/gateway/mysql.go: the       *)
(* upstream's handshake goes to the client without the offer of TLS, the   *)
(* client's response is replaced by one with the configured credential,    *)
(* and the upstream's result decides between the relay and the end.        *)
(*                                                                         *)
(* A packet is <<type, number, content>>; packet numbers are bytes.  The   *)
(* packets of the relay keep whatever number they have.  cfg is the        *)
(* configured database, "" for none.                                       *)
(***************************************************************************)
EXTENDS Connection

Byte == 256
Number(p)  == p[2]
Content(p) == p[3]

\* Client packets: a HandshakeResponse names a database or "", says whether the
\* client speaks protocol 4.1, and gives the length of its authentication data
\* (coded) or ends them with a zero; one of fewer than four bytes; a query.
Response(n, d, p41, coded) == <<"response", n, <<d, p41, coded>>>>
Short(n) == <<"short", n, <<>>>>
Query(i) == <<"query", 0, i>>
ClientMsgs ==
    ({"response"} \X (0..(Byte - 1)) \X (STRING \X BOOLEAN \X BOOLEAN))
    \cup ({"short"} \X (0..(Byte - 1)) \X {<<>>}) \cup ({"query"} \X {0} \X Nat)

\* Upstream packets.
Handshake(n, ssl) == <<"handshake", n, ssl>>
NoHandshake(n)    == <<"noHandshake", n, "">>  \* an error, another protocol, a torn one
OK(n)             == <<"ok", n, "">>
Err(n)            == <<"err", n, "">>
Switch(n)         == <<"switch", n, "">>       \* 0xfe: another plugin is wanted
More(n)           == <<"more", n, "">>         \* AuthMoreData, or an empty packet
Reply(i)          == <<"reply", 1, i>>

\* Gateway packets.
OurResponse(d)  == <<"ourResponse", 1, d>>     \* with the configured credential
OwnErr(n, p41)  == <<"ownErr", n, p41>>        \* names the plugin; SQLSTATE if p41

Connected == {"handshake", "response", "result", "relay"}

Init == InitAt("dial", "greeting")
-----------------------------------------------------------------------------
(* The upstream: an honest server takes the configured password, another    *)
(* one, or has an account with another plugin; one in mode "busy" turns     *)
(* every connection down with an error packet in place of the handshake.    *)

GoodModes    == {"native"}
RefusedModes == {"wrong", "switch", "busy"}

AnswerResponse(n) ==
    CASE mode = "native" -> OK(n)
      [] mode = "switch" -> Switch(n)
      [] OTHER           -> Err(n)

Greets ==
    /\ srv = "greeting"
    /\ Speaks(Connected, <<IF mode = "busy" THEN NoHandshake(0) ELSE Handshake(0, TRUE)>>,
              "login")

UpstreamAnswers ==
    \/ Greets
    \/ Answer("login", toUpstream[1], <<AnswerResponse(Number(toUpstream[1]) + 1)>>, "session")
    \/ \E i \in 1..Len(script) : Answer("session", Query(i), <<Reply(i)>>, "session")

UpstreamSendsAnything == SendsAnything(Connected)
UpstreamCloses == Closes(Connected)
-----------------------------------------------------------------------------
(* handle *)

Dial ==
    /\ pc = "dial"
    /\ Goto("handshake") \/ Close
    /\ TellNobody /\ ReadsNobody /\ PeersUnchanged

\* mysqlClearSSL: what the upstream offers, without TLS.
Masked(p) == Handshake(Number(p), FALSE)

\* What is not a handshake, or too short to hold a nonce, ends the session by an
\* error or a panic, and the client is told nothing.
ReadHandshake ==
    /\ pc = "handshake" /\ ReadsUpstream
    /\ \/ /\ FromUpstream[1] = "handshake"
          /\ TellClient(Masked(FromUpstream))
          /\ Goto("response")
       \/ /\ FromUpstream[1] # "handshake"
          /\ TellNobody /\ Close
    /\ PeersUnchanged

\* mysqlParseDatabase takes the first byte of the authentication data for their
\* length, whether or not the client has coded one.
Requested(p) ==
    IF Content(p)[1] = "" \/ Content(p)[3] THEN Content(p)[1] ELSE "garbled"

ChosenDbClient(p) == Requested(p)     \* mutant: the configured database is not looked at
ChosenDb(p) == IF cfg # "" THEN cfg ELSE Requested(p)

\* Whatever has four bytes is taken for the response.
ReadResponse ==
    /\ pc = "response" /\ ReadsClient
    /\ \/ /\ FromClient[1] # "short"
          /\ TellUpstream(OurResponse(ChosenDb(FromClient)))
          /\ Goto("result")
       \/ /\ FromClient[1] = "short"
          /\ TellNobody /\ Close
    /\ PeersUnchanged

\* The error in place of an authentication switch follows the client's packet.
OwnErrNumberLast(p, resp) == (Number(p) + 1) % Byte   \* mutant: follows the upstream's
OwnErrNumberWide(p, resp) == Number(resp) + 1         \* mutant: does not wrap
OwnErrNumber(p, resp) == (Number(resp) + 1) % Byte

IsSwitch(p) == p[1] = "switch"
IsErr(p) == p[1] = "err"

\* What is neither a switch nor an error is forwarded and opens the relay.
ReadResult ==
    /\ pc = "result" /\ ReadsUpstream
    /\ LET p == FromUpstream  resp == cSent[1] IN
       \/ /\ IsSwitch(p)
          /\ TellClient(OwnErr(OwnErrNumber(p, resp), Content(resp)[2]))
          /\ Close
       \/ /\ ~IsSwitch(p) /\ IsErr(p)
          /\ TellClient(p) /\ Close
       \/ /\ ~IsSwitch(p) /\ ~IsErr(p)
          /\ TellClient(p) /\ Goto("relay")
    /\ PeersUnchanged

RelayToUpstream == pc = "relay" /\ PassUp
RelayToClient   == PassDown

ClientLeft   == ClientGone({"response"}, {"handshake", "result", "relay"})
UpstreamLeft == UpstreamGone({"handshake", "result"}, {"response", "relay"})

Handler == Dial \/ ReadHandshake \/ ReadResponse \/ ReadResult \/ ClientLeft \/ UpstreamLeft

Relay == RelayToUpstream \/ RelayToClient

Next ==
    \/ ClientSends \/ ClientCloses
    \/ UpstreamAnswers \/ UpstreamSendsAnything \/ UpstreamCloses
    \/ Handler \/ Relay

Spec == Init /\ [][Next]_vars
-----------------------------------------------------------------------------
(* Properties *)

TypeOK ==
    /\ TypeInvariant({"dial", "closed"} \cup Connected, {"greeting", "login", "session"})
    /\ \A p \in Range(toClient) \cup Range(toUpstream) : Number(p) \in 0..(Byte - 1)

\* A result on which the handler lets the client in, though it need not be an OK.
LetsIn == Len(uSent) > 1 /\ uSent[2][1] \notin {"switch", "err"}

\* The client sees the upstream's stream without a gap, from the handshake on,
\* in which TLS is not offered; a switch never reaches it, and nothing follows
\* an error.
ClientSeesOnlySession ==
    \A k \in 1..Len(toClient) :
        \/ k = 1 /\ toClient[1] = Handshake(Number(uSent[1]), FALSE)
        \/ k = 2 /\ ~LetsIn /\ Len(toClient) = 2
                 /\ IF uSent[2][1] = "err" THEN toClient[2] = uSent[2]
                                           ELSE toClient[2][1] = "ownErr"
        \/ k > 1 /\ LetsIn /\ toClient[k] = uSent[k]

\* The upstream gets our response, with the configured database or else the one
\* the client has asked for with a length-coded response, and then the client's
\* stream from its second packet on, once it has answered with neither a switch nor
\* an error.
UpstreamSeesConfig ==
    toUpstream # <<>> =>
        /\ toUpstream[1][1] = "ourResponse"
        /\ cfg # "" => Content(toUpstream[1]) = cfg
        /\ cfg = "" /\ Content(cSent[1])[3] =>
               Content(toUpstream[1]) = Content(cSent[1])[1]
        /\ Tail(toUpstream) = SubSeq(cSent, 2, cRead)
        /\ cRead > 1 => uRead > 1 /\ LetsIn

\* Packet numbers are in step on the client's side, although the gateway takes
\* them from three places: a client whose response follows the handshake gets a
\* result that follows its response if the upstream counts from the gateway's 1,
\* and the gateway's own error follows the client's response, whatever number
\* that has; it holds an SQLSTATE just if the client expects one.
NumbersInStep ==
    /\ mode # "free" /\ Len(toClient) > 1 /\ Number(cSent[1]) = Number(toClient[1]) + 1
           => Number(toClient[2]) = Number(cSent[1]) + 1
    /\ \A k \in 1..Len(toClient) : toClient[k][1] = "ownErr" =>
           toClient[k] = OwnErr((Number(cSent[1]) + 1) % 256, Content(cSent[1])[2])

\* With an upstream that takes the configured credential a client that has
\* responded is let in; a session that the upstream refuses ends.
MustOpen == mode \in GoodModes /\ pc = "handshake" /\ script[1][1] = "response"
MustEnd  == mode \in RefusedModes /\ pc \in {"handshake", "result"}

Asked(i)    == pc = "relay" /\ Query(i) \in Range(cSent)
Answered(i) == Reply(i) \in Range(toClient)

\* The session as CredentialSession sees it: what the upstream has said to the
\* response, by its own packet and not by what the handler takes it for.
Phase   == IF pc \in {"relay", "closed"} THEN pc ELSE "opening"
Verdict ==
    IF Len(uSent) < 2 THEN "pending"
    ELSE CASE uSent[2][1] = "ok"                -> "accepted"
           [] uSent[2][1] \in {"err", "switch"} -> "refused"
           [] OTHER                             -> "other"
Passed  == IF toUpstream = <<>> THEN 0 ELSE Len(toUpstream) - 1
=============================================================================
