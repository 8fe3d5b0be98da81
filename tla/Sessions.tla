------------------------------- MODULE Sessions -------------------------------
(***************************************************************************)
(* One connection to a listener of the gateway, whatever its service: the  *)
(* handlers of internal/gateway side by side, with what all of them        *)
(* promise.  The constants give every kind of service its own scripts,     *)
(* modes, configurations and bounds.                                       *)
(***************************************************************************)
EXTENDS Naturals, Sequences

CONSTANTS
    Kinds,       \* the services of this instance
    ScriptsOf, ModesOf, ConfigsOf, FreeOf, MaxFreeOf,   \* functions of the service
    MaxAhead

Services == {"postgres", "mysql", "oracle", "redis", "http"}

ASSUME KindsAssumption == Kinds \subseteq Services
ASSUME BoundsAssumption == MaxAhead \in Nat /\ \A k \in Kinds : MaxFreeOf[k] \in Nat

VARIABLES
    kind,                     \* the service of the listener
    pc, mode, cfg, script, cSent, cRead, toClient, uSent, uRead, toUpstream,
    srvRead, srv, cEof, uEof, \* see Connection
    br                        \* the redis handler's bufio.Reader

vars == <<kind, pc, mode, cfg, script, cSent, cRead, toClient, uSent, uRead,
          toUpstream, srvRead, srv, cEof, uEof, br>>

PG == INSTANCE PostgresProxy
          WITH Scripts <- ScriptsOf["postgres"], Modes <- ModesOf["postgres"],
               Configs <- ConfigsOf["postgres"], FreeMsgs <- FreeOf["postgres"],
               MaxFree <- MaxFreeOf["postgres"]
MY == INSTANCE MySQLProxy
          WITH Scripts <- ScriptsOf["mysql"], Modes <- ModesOf["mysql"],
               Configs <- ConfigsOf["mysql"], FreeMsgs <- FreeOf["mysql"],
               MaxFree <- MaxFreeOf["mysql"]
OR == INSTANCE OracleProxy
          WITH Scripts <- ScriptsOf["oracle"], Modes <- ModesOf["oracle"],
               Configs <- ConfigsOf["oracle"], FreeMsgs <- FreeOf["oracle"],
               MaxFree <- MaxFreeOf["oracle"]
HT == INSTANCE HTTPProxy
          WITH Scripts <- ScriptsOf["http"], Modes <- ModesOf["http"],
               Configs <- ConfigsOf["http"], FreeMsgs <- FreeOf["http"],
               MaxFree <- MaxFreeOf["http"]
RD == INSTANCE RedisProxy
          WITH Scripts <- ScriptsOf["redis"], Modes <- ModesOf["redis"]

\* Clients send what the handlers tell apart.  The requests of an HTTP client are
\* numbered, and the first packet of a MySQL client is a response or shorter.
ASSUME ScriptsAssumption ==
    /\ "postgres" \in Kinds => ScriptsOf["postgres"] \subseteq Seq(PG!ClientMsgs)
    /\ "mysql" \in Kinds =>
           /\ ScriptsOf["mysql"] \subseteq Seq(MY!ClientMsgs)
           /\ \A s \in ScriptsOf["mysql"] : Len(s) > 0 => s[1][1] # "query"
    /\ "oracle" \in Kinds => ScriptsOf["oracle"] \subseteq Seq(OR!ClientMsgs)
    /\ "redis" \in Kinds => ScriptsOf["redis"] \subseteq Seq(RD!Commands)
    /\ "http" \in Kinds =>
           /\ ScriptsOf["http"] \subseteq Seq(HT!ClientMsgs)
           /\ \A s \in ScriptsOf["http"] : \A i \in 1..Len(s) : HT!Id(s[i]) = i

\* A MySQL packet's number is a byte, and only the gateway's own error is called
\* so.
ASSUME PeersAssumption ==
    /\ "redis" \in Kinds => ModesOf["redis"] \subseteq RD!AllModes
    /\ "mysql" \in Kinds =>
           \A p \in FreeOf["mysql"] : p[1] # "ownErr" /\ p[2] \in 0..(MY!Byte - 1)

Init ==
    /\ kind \in Kinds
    /\ \/ kind = "postgres" /\ PG!Init /\ br = <<>>
       \/ kind = "mysql"    /\ MY!Init /\ br = <<>>
       \/ kind = "oracle"   /\ OR!Init /\ br = <<>>
       \/ kind = "http"     /\ HT!Init /\ br = <<>>
       \/ kind = "redis"    /\ RD!Init /\ cfg = "" /\ srv = ""

\* What is not a variable of the handler's module.
Rest      == UNCHANGED <<kind, br>>
RestRedis == UNCHANGED <<kind, cfg, srv>>

Next ==
    \/ kind = "postgres" /\ PG!Next /\ Rest
    \/ kind = "mysql"    /\ MY!Next /\ Rest
    \/ kind = "oracle"   /\ OR!Next /\ Rest
    \/ kind = "http"     /\ HT!Next /\ Rest
    \/ kind = "redis"    /\ RD!Next /\ RestRedis

Spec == Init /\ [][Next]_vars
-----------------------------------------------------------------------------
(* Fairness: a goroutine that can go on does, an honest upstream answers, and *)
(* a client sends what it has to say (a Redis client need not).  Nobody has   *)
(* to close, and a dial may fail.                                             *)

Handler ==
    \/ kind = "postgres" /\ PG!Handler /\ Rest
    \/ kind = "mysql"    /\ MY!Handler /\ Rest
    \/ kind = "oracle"   /\ OR!Handler /\ Rest
    \/ kind = "http"     /\ HT!Handler /\ Rest
    \/ kind = "redis"    /\ RD!Handler /\ RestRedis

Upward ==
    \/ kind = "postgres" /\ PG!RelayToUpstream /\ Rest
    \/ kind = "mysql"    /\ MY!RelayToUpstream /\ Rest
    \/ kind = "oracle"   /\ OR!RelayToUpstream /\ Rest
    \/ kind = "redis"    /\ RD!Upward /\ RestRedis

Downward ==
    \/ kind = "postgres" /\ PG!RelayToClient /\ Rest
    \/ kind = "mysql"    /\ MY!RelayToClient /\ Rest
    \/ kind = "oracle"   /\ OR!RelayToClient /\ Rest
    \/ kind = "redis"    /\ RD!RelayToClient /\ RestRedis

Asking ==
    \/ kind = "postgres" /\ PG!ClientSends /\ Rest
    \/ kind = "mysql"    /\ MY!ClientSends /\ Rest
    \/ kind = "oracle"   /\ OR!ClientSends /\ Rest
    \/ kind = "http"     /\ HT!ClientSends /\ Rest

Answering ==
    \/ kind = "postgres" /\ PG!UpstreamAnswers /\ Rest
    \/ kind = "mysql"    /\ MY!UpstreamAnswers /\ Rest
    \/ kind = "oracle"   /\ OR!UpstreamAnswers /\ Rest
    \/ kind = "http"     /\ HT!UpstreamAnswers /\ Rest
    \/ kind = "redis"    /\ RD!UpstreamAnswers /\ RestRedis

FairSpec ==
    /\ Spec
    /\ WF_vars(Handler) /\ WF_vars(Upward) /\ WF_vars(Downward)
    /\ WF_vars(Asking) /\ WF_vars(Answering)
-----------------------------------------------------------------------------
(* Properties *)

TypeOK ==
    /\ kind \in Kinds
    /\ CASE kind = "postgres" -> PG!TypeOK
         [] kind = "mysql"    -> MY!TypeOK
         [] kind = "oracle"   -> OR!TypeOK
         [] kind = "http"     -> HT!TypeOK
         [] kind = "redis"    -> RD!TypeOK

\* What the client sees is the upstream's stream from the point on at which the
\* handler lets it in, without a gap; of the exchange with the configured
\* credential it sees what the gateway makes up, and nothing else.
ClientSeesOnlySession ==
    CASE kind = "postgres" -> PG!ClientSeesOnlySession
      [] kind = "mysql"    -> MY!ClientSeesOnlySession
      [] kind = "oracle"   -> OR!ClientSeesOnlySession
      [] OTHER             -> TRUE

\* What the upstream sees is the configured login, for its own challenge and
\* with the configured database or service, and then the client's stream from
\* behind its own login on, without a gap, once the upstream has accepted; for
\* HTTP, requests in which the configured headers have replaced the client's.
UpstreamSeesConfig ==
    CASE kind = "postgres" -> PG!UpstreamSeesConfig
      [] kind = "mysql"    -> MY!UpstreamSeesConfig
      [] kind = "oracle"   -> OR!UpstreamSeesConfig
      [] kind = "http"     -> HT!UpstreamSeesConfig
      [] OTHER             -> TRUE

\* A SCRAM upstream must prove itself before the client is let in, and no
\* password or SASL message is sent without a challenge (postgres.go).
GrantNeedsSignature == kind = "postgres" => PG!GrantNeedsSignature
AnswersChallenges   == kind = "postgres" => PG!AnswersChallenges

\* The packet numbers a MySQL client sees are in step with its own (mysql.go).
NumbersInStep == kind = "mysql" => MY!NumbersInStep

\* A Redis client's bytes pass once and in order, but for an AUTH (redis.go).
ClientBytesOnce == kind = "redis" => RD!ClientBytesOnce

\* Every command or request has its own reply, in order (redis.go, http.go).
RepliesMatch ==
    CASE kind = "redis" -> RD!RepliesMatch
      [] kind = "http"  -> HT!RepliesMatch
      [] OTHER          -> TRUE

MustOpen ==
    CASE kind = "postgres" -> PG!MustOpen
      [] kind = "mysql"    -> MY!MustOpen
      [] kind = "oracle"   -> OR!MustOpen
      [] OTHER             -> FALSE

MustEnd ==
    CASE kind = "postgres" -> PG!MustEnd
      [] kind = "mysql"    -> MY!MustEnd
      [] kind = "oracle"   -> OR!MustEnd
      [] kind = "redis"    -> RD!MustEnd
      [] OTHER             -> FALSE

\* A session whose upstream takes the configured credential opens, unless a
\* peer leaves; one that the upstream refuses, or whose upstream cannot prove
\* itself, ends, and nobody has to time out or to close first.
SessionsSettle ==
    /\ MustOpen ~> (pc = "relay" \/ cEof \/ uEof)
    /\ MustEnd ~> pc = "closed"

Asked(i) ==
    CASE kind = "postgres" -> PG!Asked(i)
      [] kind = "mysql"    -> MY!Asked(i)
      [] kind = "oracle"   -> OR!Asked(i)
      [] kind = "http"     -> HT!Asked(i)
      [] kind = "redis"    -> RD!Asked(i)

Answered(i) ==
    CASE kind = "postgres" -> PG!Answered(i)
      [] kind = "mysql"    -> MY!Answered(i)
      [] kind = "oracle"   -> OR!Answered(i)
      [] kind = "http"     -> HT!Answered(i)
      [] kind = "redis"    -> RD!Answered(i)

\* With an upstream that keeps to the protocol, what a client asks is answered,
\* also what it sent before the session was open or, to Redis, behind an AUTH in
\* the same segment.
QueriesAnswered ==
    \A i \in 1..2 : mode # "free" /\ Asked(i) ~> (Answered(i) \/ cEof \/ uEof)

\* What a comment says of AUTH (redis.go:99-101) and the guide of headers
\* (docs/new-users-guide.md:136).
StartAuthConsumed == kind = "redis" => RD!StartAuthConsumed
SetOnEveryRequest == kind = "http" => HT!SetOnEveryRequest

\* The session as CredentialSession sees it.  An HTTP connection opens none: a
\* request carries its credential itself.
Phase ==
    CASE kind = "postgres" -> PG!Phase
      [] kind = "mysql"    -> MY!Phase
      [] kind = "oracle"   -> OR!Phase
      [] kind = "redis"    -> RD!Phase
      [] kind = "http"     -> IF pc = "closed" THEN pc ELSE "opening"

Verdict ==
    CASE kind = "postgres" -> PG!Verdict
      [] kind = "mysql"    -> MY!Verdict
      [] kind = "oracle"   -> OR!Verdict
      [] kind = "redis"    -> RD!Verdict
      [] kind = "http"     -> "pending"

Passed ==
    CASE kind = "postgres" -> PG!Passed
      [] kind = "mysql"    -> MY!Passed
      [] kind = "oracle"   -> OR!Passed
      [] kind = "redis"    -> RD!Passed
      [] kind = "http"     -> 0

Abstract == INSTANCE CredentialSession
                WITH phase <- Phase, verdict <- Verdict, passed <- Passed

\* Every handler implements the abstract credential session: the client's own
\* messages pass only in the open relay, the client is let in only after the
\* upstream has accepted the configured credential (MySQL's: has answered it with
\* neither an error nor a request for another plugin), and closed is final.
ImplementsSession == Abstract!Spec
=============================================================================
