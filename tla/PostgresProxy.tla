---------------------------- MODULE PostgresProxy ----------------------------
(***************************************************************************)
(* One connection of the PostgreSQL proxy, internal/gateway/postgres.go:   *)
(* the handler takes the client's startup, authenticates to the upstream   *)
(* with the configured credential (trust, MD5 or SCRAM-SHA-256), shows the *)
(* client the session from AuthenticationOk on, and relays.                *)
(*                                                                         *)
(* A message is <<type, content>>.  The upstream is an honest server with  *)
(* the configured password, one with another password, one that cannot     *)
(* prove itself, or anything.  cfg is the configured database, "" for none.*)
(***************************************************************************)
EXTENDS Connection

\* Client messages.
SSL         == <<"ssl", "">>
Startup(db) == <<"startup", db>>
BadProto    == <<"proto", "">>       \* a cancel request, GSS, another version
Malformed   == <<"malformed", "">>   \* the handler panics on it
Query(i)    == <<"q", i>>
ClientMsgs  == ({"ssl", "startup", "proto", "malformed"} \X STRING) \cup ({"q"} \X Nat)

\* Gateway messages.
NoSSL           == <<"N", "">>
OurStartup(db)  == <<"ourStartup", db>>    \* with the configured user
MD5Response     == <<"p", "md5">>          \* of the configured user and password
SASLInitial     == <<"p", "clientFirst">>
SASLResponse    == <<"p", "clientFinal">>  \* the proof of the configured password

\* Upstream messages.
AuthOK       == <<"R", "ok">>
AuthMD5      == <<"R", "md5">>
AuthSASL     == <<"R", "sasl">>          \* offers SCRAM-SHA-256
AuthSASLElse == <<"R", "saslOther">>     \* offers other mechanisms only
ServerFirst  == <<"R", "serverFirst">>   \* extends our nonce, salt and count good
BadFirst     == <<"R", "badFirst">>      \* another nonce, salt or count
ServerFinal  == <<"R", "serverFinal">>   \* signed with the password's server key
BadFinal     == <<"R", "badFinal">>      \* another signature
AuthOther    == <<"R", "other">>         \* cleartext, GSS, ...
Error        == <<"E", "">>
Status       == <<"S", "">>              \* ParameterStatus, BackendKeyData
Ready        == <<"Z", "">>
Reply(i)     == <<"D", i>>

Connected == {"auth", "serverFirst", "serverFinal", "forward", "relay"}

Init == InitAt("startup", "startup")
-----------------------------------------------------------------------------
(* The upstream *)

\* How an upstream of each mode answers the startup message, the password
\* message and the two SASL messages.
Session == <<AuthOK, Status, Ready>>

AnswerStartup ==
    CASE mode = "trust"                          -> Session
      [] mode \in {"md5", "md5Wrong"}            -> <<AuthMD5>>
      [] mode \in {"scram", "scramWrong", "impostor"} -> <<AuthSASL>>
      [] mode = "noScram"                        -> <<AuthSASLElse>>
      [] OTHER                                   -> <<AuthOther>>

AnswerMD5 == IF mode = "md5" THEN Session ELSE <<Error>>

AnswerProof ==
    CASE mode = "scram"      -> <<ServerFinal>> \o Session
      [] mode = "impostor"   -> <<BadFinal>> \o Session
      [] OTHER               -> <<Error>>

UpstreamAnswers ==
    \/ Answer("startup", toUpstream[1], AnswerStartup, "password")
    \/ Answer("password", MD5Response, AnswerMD5, "session")
    \/ Answer("password", SASLInitial, <<ServerFirst>>, "proof")
    \/ Answer("proof", SASLResponse, AnswerProof, "session")
    \/ \E i \in 1..Len(script) :
           Answer(IF mode = "trust" THEN "password" ELSE "session",
                  Query(i), <<Reply(i)>>, srv)

UpstreamSendsAnything == SendsAnything(Connected)
UpstreamCloses == Closes(Connected)
-----------------------------------------------------------------------------
(* handle *)

\* The database of the configuration overrides the client's.
ChosenDb(m) == IF cfg # "" THEN cfg ELSE m[2]

\* The first message may be an SSLRequest, which is refused once.
ReadStartup ==
    /\ pc \in {"startup", "afterSsl"} /\ ReadsClient
    /\ \/ /\ pc = "startup" /\ FromClient = SSL
          /\ TellClient(NoSSL)
          /\ Goto("afterSsl")
       \/ /\ FromClient[1] = "startup"
          /\ Goto("dial") /\ TellNobody
       \/ /\ FromClient[1] # "startup" /\ ~(pc = "startup" /\ FromClient = SSL)
          /\ Close /\ TellNobody
    /\ PeersUnchanged

Dial ==
    /\ pc = "dial"
    /\ \/ Goto("auth") /\ TellUpstream(OurStartup(ChosenDb(cSent[cRead])))
       \/ Close /\ TellNobody
    /\ ReadsNobody /\ PeersUnchanged

\* One message of the authentication loop.  Whatever is not listed ends the
\* session, and the client is told nothing of it.
OnAuthErrorForward(m) == TellClient(m) /\ Close     \* mutant: forwarded, then closed
OnAuthError(m) == TellNobody /\ Close

AsksMD5Default(m) == m \in {AuthMD5, AuthOther}     \* mutant: MD5 is the default case
AsksMD5(m) == m = AuthMD5

AuthLoop ==
    /\ pc = "auth" /\ ReadsUpstream
    /\ LET m == FromUpstream IN
       \/ /\ m = AuthOK
          /\ TellClient(m)
          /\ Goto("forward")
       \/ /\ AsksMD5(m)
          /\ TellUpstream(MD5Response)
          /\ Stay
       \/ /\ m = AuthSASL
          /\ TellUpstream(SASLInitial)
          /\ Goto("serverFirst")
       \/ /\ m \notin {AuthOK, AuthSASL} /\ ~AsksMD5(m)
          /\ OnAuthError(m)
    /\ PeersUnchanged

\* doSCRAM: the server's nonce must begin with ours, salt and count be usable;
\* then its signature must be the one the configured password yields.
FinalVerifiedAny(m) == m \in {ServerFinal, BadFinal}    \* mutant: v= not compared
FinalVerified(m) == m = ServerFinal

ScramFirst ==
    /\ pc = "serverFirst" /\ ReadsUpstream
    /\ \/ /\ FromUpstream = ServerFirst
          /\ TellUpstream(SASLResponse)
          /\ Goto("serverFinal")
       \/ /\ FromUpstream # ServerFirst
          /\ TellNobody /\ Close
    /\ PeersUnchanged

ScramFinal ==
    /\ pc = "serverFinal" /\ ReadsUpstream
    /\ \/ /\ FinalVerified(FromUpstream)
          /\ Goto("auth")
       \/ ~FinalVerified(FromUpstream) /\ Close
    /\ TellNobody
    /\ PeersUnchanged

\* forwardStartup: everything the upstream sends up to ReadyForQuery.
EndsStartup(m) == m = Ready

ForwardStartup ==
    /\ pc = "forward" /\ ReadsUpstream
    /\ TellClient(FromUpstream)
    /\ pc' = IF EndsStartup(FromUpstream) THEN "relay" ELSE "forward"
    /\ PeersUnchanged

\* pipe, from ReadyForQuery on.
PipesClientEarly == pc \in {"forward", "relay"}  \* mutant: pipe from AuthenticationOk on
PipesClient == pc = "relay"

RelayToUpstream == PipesClient /\ PassUp
RelayToClient   == PassDown

ClientLeft   == ClientGone({"startup", "afterSsl"}, {"auth", "forward", "relay"})
UpstreamLeft == UpstreamGone({"serverFinal", "forward"}, {"auth", "serverFirst", "relay"})

Handler ==
    \/ ReadStartup \/ Dial \/ AuthLoop \/ ScramFirst \/ ScramFinal
    \/ ForwardStartup \/ ClientLeft \/ UpstreamLeft

Relay == RelayToUpstream \/ RelayToClient

Next ==
    \/ ClientSends \/ ClientCloses
    \/ UpstreamAnswers \/ UpstreamSendsAnything \/ UpstreamCloses
    \/ Handler \/ Relay

Spec == Init /\ [][Next]_vars
-----------------------------------------------------------------------------
(* Properties *)

OurTypes     == {"ourStartup", "p"}
GoodModes    == {"trust", "md5", "scram"}
RefusedModes == {"md5Wrong", "scramWrong", "impostor", "noScram", "cleartext"}

TypeOK ==
    TypeInvariant({"startup", "afterSsl", "dial", "closed"} \cup Connected,
                  {"startup", "password", "proof", "session"})

\* Behind the refusal of TLS, which comes first.
SeenByClient ==
    IF toClient # <<>> /\ Head(toClient) = NoSSL THEN Tail(toClient) ELSE toClient

\* What the client sees of the upstream is its stream from the first
\* AuthenticationOk on, without a gap: no challenge and no authentication error
\* reaches it, and no message of the session is lost, repeated or reordered.
ClientSeesOnlySession ==
    SeenByClient # <<>> =>
        \E g \in 1..Len(uSent) :
            /\ IsFirst(uSent, AuthOK, g)
            /\ SeenByClient = SubSeq(uSent, g, g + Len(SeenByClient) - 1)

\* The upstream gets our startup, with the configured database or else the
\* client's, answers to its own challenges only, and then the client's messages
\* from the first behind its startup on: what the client sent early is neither
\* lost nor let in before the upstream is ready.
Ours          == CountTypes(toUpstream, Len(toUpstream), OurTypes)
SentByClient  == SubSeq(toUpstream, Ours + 1, Len(toUpstream))
StartupAt(i)  == cSent[i][1] = "startup" /\ \A j \in 1..(i - 1) : cSent[j][1] # "startup"
UpstreamSeesConfig ==
    toUpstream # <<>> =>
        \E i \in 1..cRead :
            /\ StartupAt(i)
            /\ toUpstream[1] = OurStartup(IF cfg = "" THEN cSent[i][2] ELSE cfg)
            /\ Len(SentByClient) = cRead - i
            /\ SentByClient = SubSeq(cSent, i + 1, cRead)
            /\ SentByClient # <<>> => \E r \in 1..uRead : uSent[r] = Ready

\* An upstream that asked for SCRAM must have proved that it knows the
\* configured password before the client is told that the session is open.
GrantNeedsSignature ==
    \A g, k \in 1..Len(uSent) :
        IsFirst(uSent, AuthOK, g) /\ SeenByClient # <<>> /\ k < g /\ uSent[k] = AuthSASL
            => k + 2 < g /\ uSent[k + 1] = ServerFirst /\ uSent[k + 2] = ServerFinal

\* No credential is volunteered: every password and SASL message answers a
\* challenge of its own that the upstream has sent and the handler has read.
AnswersChallenges ==
    LET Sent(m)  == Count(toUpstream, Len(toUpstream), m)
        Taken(m) == Count(uSent, uRead, m)
    IN  /\ Sent(MD5Response) <= Taken(AuthMD5)
        /\ Sent(SASLInitial) <= Taken(AuthSASL)
        /\ Sent(SASLResponse) <= Taken(ServerFirst)

\* With an honest upstream that holds the configured password every client for
\* which it has been dialled is let into the relay, whichever method it asks
\* for, unless a peer leaves.  A session that the upstream refuses, or whose
\* upstream cannot prove itself, ends: nobody has to time out or close first.
MustOpen == mode \in GoodModes /\ pc \in Connected
MustEnd  == mode \in RefusedModes /\ pc = "auth"

\* The i-th query has been sent in an open session; it has been answered.
Asked(i)    == pc = "relay" /\ Query(i) \in Range(cSent)
Answered(i) == Reply(i) \in Range(toClient)

\* The session as CredentialSession sees it.
Phase   == CASE pc \in {"relay", "closed"} -> pc
             [] pc = "forward"             -> "granted"
             [] OTHER                      -> "opening"
Verdict == IF AuthOK \in Range(uSent) THEN "accepted" ELSE "pending"
Passed  == Len(SentByClient)
=============================================================================
