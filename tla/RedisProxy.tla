------------------------------ MODULE RedisProxy ------------------------------
(***************************************************************************)
(* One connection of the Redis proxy, internal/gateway/redis.go: the       *)
(* handler authenticates to the upstream with the configured password,     *)
(* takes an AUTH out of the beginning of the client's stream and answers   *)
(* it itself, and relays the rest.                                         *)
(*                                                                         *)
(* A client command is three pieces: the first settles Peek(4), the second *)
(* the longer peek of an array or of an inline AUTH, the third is the      *)
(* remainder (the password of an AUTH).  The pieces of the client's script *)
(* are numbered, and a piece is its number; pieces arrive one by one and a *)
(* read takes some of those that have arrived.                             *)
(***************************************************************************)
EXTENDS Naturals, Sequences, SequencesExt

CONSTANTS
    Scripts,    \* what clients send: sequences of commands
    Modes       \* how the upstream and the configured password fit

Pieces == 3

\* The commands: AUTH as a two-element array, AUTH on a line of its own, AUTH
\* with a user name (three elements), a two-element command and a single one.
Commands == {"authArray", "authInline", "authUser", "get", "ping"}
TwoPeeks == {"authArray", "authInline", "get"}

\* No password is configured or needed; it is right; it is wrong; it is right
\* and the answer to it arrives in two segments, cut in "+OK" or behind it.
AllModes == {"none", "right", "wrong", "split", "splitEnd"}

VARIABLES
    pc,         \* where the handler is
    mode,       \* one of Modes
    script,     \* the commands the client sends
    cSent,      \* number of pieces the client has sent
    cRead,      \* number of pieces taken from the client's socket
    br,         \* pieces in the bufio.Reader
    toUpstream, \* what the handler has written to the upstream
    uSent,      \* what the upstream has sent
    uRead,      \* how much of it the handler has read
    srvRead,    \* how much of toUpstream the upstream has processed
    toClient,   \* what the handler has written to the client
    cEof, uEof  \* the client, the upstream has closed its side

handlerVars == <<pc, cRead, br, toUpstream, uRead, toClient>>
clientVars  == <<mode, script, cSent, cEof>>
serverVars  == <<uSent, srvRead, uEof>>
vars == <<handlerVars, clientVars, serverVars>>

Credential == 0                   \* AUTH with the configured password
OwnOK      == <<"ownOK", 0>>      \* +OK written by the gateway
OK         == <<"ok", 0>>         \* +OK of the upstream, whole
OKBegin    == <<"ok", 1>>         \* ... cut before the K
OKRest     == <<"ok", 2>>
OKLine     == <<"ok", 3>>         \* ... cut behind it, in the end of the line
LineEnd    == <<"ok", 4>>
Err        == <<"err", 0>>
Reply(c)   == <<"reply", c>>      \* the upstream's reply to the c-th command

Kind(i)     == script[((i - 1) \div Pieces) + 1]
EndOf(c)     == Pieces * c                       \* the last piece of a command
Connected   == {"auth", "peek", "consume", "relay"}

Init ==
    /\ pc = "dial"
    /\ mode \in Modes /\ script \in Scripts
    /\ cSent = 0 /\ cRead = 0 /\ br = <<>>
    /\ toUpstream = <<>> /\ uSent = <<>> /\ uRead = 0 /\ srvRead = 0
    /\ toClient = <<>>
    /\ cEof = FALSE /\ uEof = FALSE
-----------------------------------------------------------------------------
(* The peers *)

ClientSends ==
    /\ ~cEof /\ cSent < EndOf(Len(script))
    /\ cSent' = cSent + 1
    /\ UNCHANGED <<handlerVars, serverVars, mode, script, cEof>>

ClientCloses ==
    /\ ~cEof
    /\ cEof' = TRUE
    /\ UNCHANGED <<handlerVars, serverVars, mode, script, cSent>>

AnswerCredential ==
    CASE mode = "wrong"    -> <<Err>>
      [] mode = "split"    -> <<OKBegin, OKRest>>
      [] mode = "splitEnd" -> <<OKLine, LineEnd>>
      [] OTHER             -> <<OK>>

\* The upstream answers a command when its last piece has come.
UpstreamAnswers ==
    /\ ~uEof /\ srvRead < Len(toUpstream)
    /\ srvRead' = srvRead + 1
    /\ LET m == toUpstream[srvRead + 1] IN
       uSent' = CASE m = Credential   -> uSent \o AnswerCredential
                  [] m % Pieces # 0   -> uSent
                  [] OTHER            -> Append(uSent, Reply(m \div Pieces))
    /\ UNCHANGED <<handlerVars, clientVars, uEof>>

UpstreamCloses ==
    /\ ~uEof /\ pc \in Connected
    /\ uEof' = TRUE
    /\ UNCHANGED <<handlerVars, clientVars, uSent, srvRead>>
-----------------------------------------------------------------------------
(* handle *)

Close == pc' = "closed" /\ UNCHANGED <<cRead, br, toUpstream, uRead, toClient>>

\* A configured password is sent and its answer awaited; without one the
\* handler turns to the client at once.
AfterDial == IF mode = "none" THEN "peek" ELSE "auth"

Dial ==
    /\ pc = "dial"
    /\ \/ /\ pc' = AfterDial
          /\ toUpstream' = IF mode = "none" THEN <<>> ELSE <<Credential>>
          /\ UNCHANGED <<cRead, br, uRead, toClient>>
       \/ Close
    /\ UNCHANGED <<clientVars, serverVars>>

\* One Read of at most 32 bytes; it must begin with +OK, and whatever of the line
\* it leaves behind is the relay's.
Accepts(answer) ==
    answer[1] \in {OK, OKLine} \/ (Len(answer) > 1 /\ answer[1] = OKBegin)

AuthReply ==
    /\ pc = "auth"
    /\ \E k \in 1..(Len(uSent) - uRead) :
           /\ uRead' = uRead + k
           /\ pc' = IF Accepts(SubSeq(uSent, uRead + 1, uRead + k))
                    THEN "peek" ELSE "closed"
    /\ UNCHANGED <<cRead, br, toUpstream, toClient, clientVars, serverVars>>

AuthLost ==
    /\ pc = "auth" /\ uEof /\ uRead = Len(uSent)
    /\ Close
    /\ UNCHANGED <<clientVars, serverVars>>

\* What Peek, or the reader of a whole AUTH, still misses in the buffer.
Wants ==
    CASE pc = "peek"    -> IF br # <<>> /\ Kind(br[1]) \in TwoPeeks THEN 2 ELSE 1
      [] pc = "consume" -> Pieces
      [] OTHER          -> 0

\* The bufio.Reader fills with whatever has arrived.
Fill ==
    /\ Len(br) < Wants
    /\ \E k \in 1..(cSent - cRead) :
           /\ br' = br \o [i \in 1..k |-> cRead + i]
           /\ cRead' = cRead + k
    /\ UNCHANGED <<pc, toUpstream, uRead, toClient, clientVars, serverVars>>

\* discardClientAuth: an AUTH is found, or there is none at the beginning.
FoundLater(b) == \E i \in 1..Len(b) :      \* mutant: looks beyond the first command
    Kind(b[i]) \in {"authArray", "authInline"}
Found(b) == Kind(b[1]) \in {"authArray", "authInline"}

Peek ==
    /\ pc = "peek" /\ Len(br) >= Wants
    /\ pc' = IF Found(br) THEN "consume" ELSE "relay"
    /\ UNCHANGED <<cRead, br, toUpstream, uRead, toClient, clientVars, serverVars>>

\* consumeArrayAuth and consumeInlineAuth: exactly this command is taken.
AuthTakenAll == Len(br)          \* mutant: the buffer is discarded with it
AuthTaken == Pieces

ConsumeAuth ==
    /\ pc = "consume" /\ Len(br) >= Wants
    /\ br' = SubSeq(br, AuthTaken + 1, Len(br))
    /\ toClient' = Append(toClient, OwnOK)
    /\ pc' = "relay"
    /\ UNCHANGED <<cRead, toUpstream, uRead, clientVars, serverVars>>

\* The client is gone before what it should send: a peek gives up and what has
\* come is relayed, an AUTH cut short (or one that cannot be answered) ends the
\* session.
ClientSilent ==
    /\ cEof
    /\ \/ /\ pc = "peek" /\ Len(br) < Wants /\ cRead = cSent
          /\ pc' = "relay"
          /\ UNCHANGED <<cRead, br, toUpstream, uRead, toClient>>
       \/ /\ pc = "consume"
          /\ Len(br) < Wants => cRead = cSent
          /\ Close
    /\ UNCHANGED <<clientVars, serverVars>>

\* pipe (module Pipe), piece by piece: the buffered bytes come first.
HeadFirst == br # <<>>

RelayHead ==
    /\ pc = "relay" /\ HeadFirst
    /\ toUpstream' = Append(toUpstream, Head(br))
    /\ br' = Tail(br)
    /\ UNCHANGED <<pc, cRead, uRead, toClient, clientVars, serverVars>>

RelayToUpstream ==
    /\ pc = "relay" /\ ~HeadFirst /\ cRead < cSent
    /\ toUpstream' = Append(toUpstream, cRead + 1)
    /\ cRead' = cRead + 1
    /\ UNCHANGED <<pc, br, uRead, toClient, clientVars, serverVars>>

RelayToClient ==
    /\ pc = "relay" /\ uRead < Len(uSent)
    /\ toClient' = Append(toClient, uSent[uRead + 1])
    /\ uRead' = uRead + 1
    /\ UNCHANGED <<pc, cRead, br, toUpstream, clientVars, serverVars>>

\* Either end ends the relay, at the end of its stream or by a failed write.
RelayEnds ==
    /\ pc = "relay" /\ (cEof \/ uEof)
    /\ Close
    /\ UNCHANGED <<clientVars, serverVars>>

Handler == Dial \/ AuthReply \/ AuthLost \/ Fill \/ Peek \/ ConsumeAuth \/ ClientSilent
Upward  == RelayHead \/ RelayToUpstream
Relay   == Upward \/ RelayToClient \/ RelayEnds

Next ==
    \/ ClientSends \/ ClientCloses \/ UpstreamAnswers \/ UpstreamCloses
    \/ Handler \/ Relay

Spec == Init /\ [][Next]_vars
-----------------------------------------------------------------------------
(* Properties *)

Replies == {Reply(c) : c \in 1..Len(script)}

TypeOK ==
    /\ pc \in {"dial", "closed"} \cup Connected
    /\ mode \in Modes /\ script \in Scripts
    /\ cSent \in 0..EndOf(Len(script)) /\ cRead \in 0..cSent
    /\ br \in Seq(1..cRead)
    /\ toUpstream \in Seq(0..cRead)
    /\ uSent \in Seq({OK, OKBegin, OKRest, OKLine, LineEnd, Err} \cup Replies)
    /\ toClient \in Seq({OwnOK, LineEnd} \cup Replies)
    /\ uRead \in 0..Len(uSent) /\ srvRead \in 0..Len(toUpstream)
    /\ cEof \in BOOLEAN /\ uEof \in BOOLEAN

FromTheClient ==
    IF toUpstream # <<>> /\ Head(toUpstream) = Credential THEN Tail(toUpstream)
                                                          ELSE toUpstream
Intercepted   == IF OwnOK \in Range(toClient) THEN Pieces ELSE 0

\* What the upstream gets from the client is the client's stream without a gap,
\* from its first piece or, if the gateway has answered an AUTH, from the first
\* piece behind that AUTH: the buffer that found it neither swallows, repeats
\* nor overtakes anything.
ClientBytesOnce ==
    /\ FromTheClient = [i \in 1..Len(FromTheClient) |-> Intercepted + i]
    /\ pc = "relay" => Intercepted + Len(FromTheClient) + Len(br) = cRead

\* Every command has its own reply, in order: the answer to a client's AUTH comes
\* before any other and is not given twice, and of the upstream's answer to the
\* configured password no client sees more than the end of the line, in front of
\* every reply, and that only if the segment with +OK ended before it.
Stray == IF LineEnd \in Range(toClient) THEN 1 ELSE 0

RepliesMatch ==
    LET first == IF Kind(1) \in {"authArray", "authInline"} THEN 1 ELSE 0
        own   == IF OwnOK \in Range(toClient) THEN 1 ELSE 0
    IN  \A i \in 1..Len(toClient) :
            \/ toClient[i] = Reply(i - Stray) /\ i > first + Stray
            \/ toClient[i] = OwnOK /\ i = first
            \/ toClient[i] = LineEnd /\ i = own + 1 /\ mode = "splitEnd"

\* A command that has been sent completely, also one sent before the gateway
\* was authenticated or behind an AUTH in the same segment, is answered.
Asked(c) ==
    /\ mode \in {"none", "right"} /\ pc \in Connected
    /\ c <= Len(script) /\ cSent >= EndOf(c)
Answered(c) == Len(toClient) >= c

\* A refused password ends the session; whether one opens is up to the client.
MustOpen == FALSE
MustEnd  == mode = "wrong" /\ pc = "auth"

\* "peeks at br for an AUTH command at connection start. If found, it consumes
\* the command" (redis.go:99-101), in every form AUTH has.
StartAuthConsumed ==
    \A m \in Range(toUpstream) :
        m # Credential /\ m <= EndOf(1) /\ m % Pieces = 0
            => Kind(m) \notin {"authArray", "authInline", "authUser"}

\* The session as CredentialSession sees it.
Phase == CASE pc \in {"dial", "auth"}     -> "opening"
           [] pc \in {"peek", "consume"}  -> "granted"
           [] OTHER                       -> pc
Verdict == IF mode = "none" \/ Range(uSent) \cap {OK, OKRest, OKLine} # {}
           THEN "accepted" ELSE "pending"
Passed == Len(FromTheClient)
=============================================================================
