------------------------------ MODULE OracleProxy ------------------------------
(***************************************************************************)
(* One connection of the Oracle proxy, internal/gateway/oracle.go: the     *)
(* gateway connects to the configured service on its own, lets one round   *)
(* of native services pass, and logs in to the upstream with the           *)
(* configured credential while the client logs in to a dummy.              *)
(*                                                                         *)
(* A message is <<packet type, content>>.  cfg is the configured service.  *)
(***************************************************************************)
EXTENDS Connection

\* Client messages.
Connect  == <<"connect", "">>
NSAnswer == <<"data", "ns">>
O3Log    == <<"data", "o3log">>      \* a login request
O3Auth   == <<"data", "o3auth">>     \* a proof made from the client's password
Stub     == <<"data", "stub">>       \* DATA too short for a function code
Marker   == <<"marker", "">>         \* another packet type
Query(i) == <<"query", i>>           \* DATA in the open session
ClientMsgs == ({"connect", "data", "marker"} \X STRING) \cup ({"query"} \X Nat)

\* Upstream messages.
Accept      == <<"accept", "body">>
AcceptEmpty == <<"accept", "">>      \* a header without a body
Resend      == <<"resend", "">>
Refuse      == <<"refuse", "">>
NSOffer     == <<"data", "offer">>
SessKey(s)  == <<"data", s>>         \* the challenge with salt s
AuthOK      == <<"data", "ok">>
Reply(i)    == <<"reply", i>>

\* Gateway messages.
OurConnect(service) == <<"ourConnect", service>>  \* the service in capitals
OurO3Log            == <<"ourO3log", "">>         \* the configured user
OurO3Auth(s)        == <<"ourO3auth", s>>         \* configured user, password and salt
FakeKey             == <<"fakeKey", "">>          \* a challenge of zeros
OwnOK               == <<"ownOK", "">>

IsData(m) == m[1] \in {"data", "query", "reply"}

Connected == {"accept", "nsUp", "nsDown", "login", "challenge", "proof", "verdict", "relay"}

Init == InitAt("connect", "listener")
-----------------------------------------------------------------------------
(* The upstream: a listener that accepts, that first asks for the CONNECT   *)
(* again, that refuses the service, or whose server rejects the proof.      *)

GoodModes    == {"accepts", "resends"}
RefusedModes == {"refuses", "rejects"}

Greeting == <<Accept, NSOffer>>

AnswerConnect ==
    CASE mode = "resends" -> <<Resend>>
      [] mode = "refuses" -> <<Refuse>>
      [] OTHER            -> Greeting

UpstreamAnswers ==
    \/ Answer("listener", OurConnect(cfg), AnswerConnect,
              IF mode = "resends" THEN "again" ELSE "ns")
    \/ Answer("again", OurConnect(cfg), Greeting, "ns")
    \/ Answer("ns", toUpstream[srvRead + 1], <<>>, "login")   \* whatever it gets
    \/ Answer("login", OurO3Log, <<SessKey("salt")>>, "proof")
    \/ Answer("proof", OurO3Auth("salt"),
              IF mode = "rejects" THEN <<Refuse>> ELSE <<AuthOK>>, "session")
    \/ \E i \in 1..Len(script) : Answer("session", Query(i), <<Reply(i)>>, "session")

UpstreamSendsAnything == SendsAnything(Connected)
UpstreamCloses == Closes(Connected)
-----------------------------------------------------------------------------
(* handle and doAuth *)

\* A peer that sends what the handler does not expect ends the session, and
\* nobody is told.
GiveUp == TellNobody /\ Close

ReadConnect ==
    /\ pc = "connect" /\ ReadsClient
    /\ Goto(IF FromClient = Connect THEN "dial" ELSE "closed")
    /\ TellNobody /\ PeersUnchanged

Dial ==
    /\ pc = "dial"
    /\ \/ Goto("accept") /\ TellUpstream(OurConnect(cfg))
       \/ GiveUp
    /\ ReadsNobody /\ PeersUnchanged

\* The loop ends with an ACCEPT that has a body; one without leaves acceptBody
\* nil, and the next packet is read.
OnResendWait == TellNobody /\ Stay           \* mutant: CONNECT is not sent again
OnResend == TellUpstream(OurConnect(cfg)) /\ Stay

ReadAccept ==
    /\ pc = "accept" /\ ReadsUpstream
    /\ LET m == FromUpstream IN
       \/ m = Resend /\ OnResend
       \/ m = Refuse /\ TellClient(m) /\ Close
       \/ m = Accept /\ TellClient(m) /\ Goto("nsUp")
       \/ m = AcceptEmpty /\ TellNobody /\ Stay
       \/ m[1] \notin {"resend", "refuse", "accept"} /\ GiveUp
    /\ PeersUnchanged

NSFromUpstream ==
    /\ pc = "nsUp" /\ ReadsUpstream
    /\ \/ IsData(FromUpstream) /\ TellClient(FromUpstream) /\ Goto("nsDown")
       \/ ~IsData(FromUpstream) /\ GiveUp
    /\ PeersUnchanged

NSFromClient ==
    /\ pc = "nsDown" /\ ReadsClient
    /\ \/ IsData(FromClient) /\ TellUpstream(FromClient) /\ Goto("login")
       \/ ~IsData(FromClient) /\ GiveUp
    /\ PeersUnchanged

\* DATA too short for a function code makes the handler panic.
ReadO3Log ==
    /\ pc = "login" /\ ReadsClient
    /\ \/ FromClient = O3Log /\ TellUpstream(OurO3Log) /\ Goto("challenge")
       \/ FromClient # O3Log /\ GiveUp
    /\ PeersUnchanged

\* The challenge may be any DATA; the salt is what lies at its place, or zeros.
ReadChallenge ==
    /\ pc = "challenge" /\ ReadsUpstream
    /\ \/ IsData(FromUpstream) /\ TellClient(FakeKey) /\ Goto("proof")
       \/ ~IsData(FromUpstream) /\ GiveUp
    /\ PeersUnchanged

SaltAt(m) == IF m = AuthOK THEN "zeros" ELSE m[2]

ChallengeFirst == CHOOSE m \in Range(uSent) : IsData(m)    \* mutant: of the NS round
Challenge == uSent[uRead]

\* Whatever the client sends in place of its proof is dropped.
DropProof ==
    /\ pc = "proof" /\ ReadsClient
    /\ TellUpstream(OurO3Auth(SaltAt(Challenge)))
    /\ Goto("verdict") /\ PeersUnchanged

IsAuthOK(m) == m = AuthOK

\* A rejected login ends the session, and the client is told nothing of it.
ReadVerdict ==
    /\ pc = "verdict" /\ ReadsUpstream
    /\ \/ IsAuthOK(FromUpstream) /\ TellClient(OwnOK) /\ Goto("relay")
       \/ ~IsAuthOK(FromUpstream) /\ GiveUp
    /\ PeersUnchanged

RelayToUpstream == pc = "relay" /\ PassUp
RelayToClient   == PassDown

ClientLeft == ClientGone({"connect", "nsDown", "login", "proof"},
                         {"accept", "nsUp", "challenge", "verdict", "relay"})
UpstreamLeft == UpstreamGone({"nsUp", "challenge", "verdict"},
                             {"accept", "nsDown", "login", "proof", "relay"})

Handler ==
    \/ ReadConnect \/ Dial \/ ReadAccept \/ NSFromUpstream \/ NSFromClient
    \/ ReadO3Log \/ ReadChallenge \/ DropProof \/ ReadVerdict
    \/ ClientLeft \/ UpstreamLeft

Relay == RelayToUpstream \/ RelayToClient

Next ==
    \/ ClientSends \/ ClientCloses
    \/ UpstreamAnswers \/ UpstreamSendsAnything \/ UpstreamCloses
    \/ Handler \/ Relay

Spec == Init /\ [][Next]_vars
-----------------------------------------------------------------------------
(* Properties *)

TypeOK ==
    TypeInvariant({"connect", "dial", "closed"} \cup Connected,
                  {"listener", "again", "ns", "login", "proof", "session"})

\* Where the upstream accepts or refuses; Len(uSent) + 1 if it has not yet.
Settled == CHOOSE k \in 1..(Len(uSent) + 1) :
               /\ k <= Len(uSent) => uSent[k] \in {Accept, Refuse}
               /\ \A j \in 1..(k - 1) : uSent[j] \notin {Accept, Refuse}
Accepted == Len(uSent) >= Settled + 3 /\ uSent[Settled] = Accept
                                      /\ uSent[Settled + 3] = AuthOK

\* The client sees the upstream's ACCEPT and NS offer, then a login of the
\* gateway's own, and then the upstream's stream without a gap from behind its
\* verdict: neither the upstream's challenge nor the verdict reaches it.
ClientSeesOnlySession ==
    \A k \in 1..Len(toClient) :
        toClient[k] = CASE k = 3 -> FakeKey
                        [] k = 4 -> OwnOK
                        [] OTHER -> uSent[Settled + k - 1]

\* The upstream gets one CONNECT to the configured service and one for each
\* RESEND, the client's answer to the NS offer, a login with the configured
\* user and a proof for its own salt, and then the client's stream from behind
\* its own proof on, once the upstream has accepted ours.  The client's login
\* and proof reach nobody.
UpstreamSeesConfig ==
    LET Connects == CountTypes(toUpstream, Len(toUpstream), {"ourConnect"})
        Behind   == Len(toUpstream) - Connects
        Due(k)   == CASE k = 1 -> cSent[2]
                      [] k = 2 -> OurO3Log
                      [] k = 3 -> OurO3Auth(SaltAt(uSent[Settled + 2]))
                      [] OTHER -> cSent[k + 1]
    IN  /\ \A k \in 1..Connects : toUpstream[k] = OurConnect(cfg)
        /\ pc = "accept" => Connects = 1 + Count(uSent, uRead, Resend)
        /\ \A k \in 1..Behind : toUpstream[Connects + k] = Due(k)
        /\ Behind > 3 => Accepted
        /\ pc = "relay" => Behind = cRead - 1

\* A session that the upstream accepts opens for a client that logs in, also
\* after a RESEND; one that it refuses or rejects ends.
MustOpen ==
    /\ mode \in GoodModes /\ pc = "accept"
    /\ IsPrefix(<<Connect, NSAnswer, O3Log>>, script) /\ Len(script) > 3
MustEnd  == mode \in RefusedModes /\ pc \in {"accept", "verdict"}

Asked(i)    == pc = "relay" /\ Query(i) \in Range(cSent)
Answered(i) == Reply(i) \in Range(toClient)

\* The session as CredentialSession sees it; the answer to the NS offer, the
\* first of the client's messages to pass, is not the client's own traffic.
Phase   == IF pc \in {"relay", "closed"} THEN pc ELSE "opening"
Verdict == IF Accepted THEN "accepted" ELSE "pending"
OurTypes == {"ourConnect", "ourO3log", "ourO3auth"}
Passed  == LET others == Len(toUpstream) - CountTypes(toUpstream, Len(toUpstream), OurTypes)
           IN  IF others = 0 THEN 0 ELSE others - 1
=============================================================================
