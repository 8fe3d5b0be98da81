-------------------------- MODULE MySQLSessionProofs --------------------------
(***************************************************************************)
(* Proofs about the MySQL connections of Sessions: for any scripts,        *)
(* upstreams and number of packets, the packet numbers the client sees are *)
(* in step with its own, TLS is never offered to it, and what each side    *)
(* sees is the other's stream from the right packet on.                    *)
(***************************************************************************)
EXTENDS RepliesProofs

-----------------------------------------------------------------------------
(* The invariant *)

MYStates == {"dial", "closed"} \cup MY!Connected

\* A packet of the upstream has a byte for its number, and is not the gateway's.
MYPacket(p) == MY!Number(p) \in 0..(MY!Byte - 1) /\ p[1] # "ownErr"

MYTypes ==
    /\ kind = "mysql" /\ Streams /\ pc \in MYStates
    /\ srv \in {"greeting", "login", "session"}
    /\ \A i \in 1..Len(script) : script[i] \in MY!ClientMsgs
    /\ Len(script) > 0 => script[1][1] # "query"
    /\ \A k \in 1..Len(uSent) : MYPacket(uSent[k])

\* An honest upstream greets first, and counts on from the gateway's response.
MYHonest ==
    mode # "free" =>
        /\ srv = "greeting" => Len(uSent) = 0
        /\ srv = "login"    => Len(uSent) = 1
        /\ srv = "session"  => Len(uSent) > 1
        /\ Len(uSent) > 0 => MY!Number(uSent[1]) = 0
        /\ Len(uSent) > 1 => MY!Number(uSent[2]) = 2

\* How far the handler is in the four streams.
MYPlace ==
    /\ Len(toClient) <= uRead
    /\ pc \in {"dial", "handshake"} => Len(toClient) = 0 /\ uRead = 0
    /\ pc \in {"response", "result"} => Len(toClient) = 1 /\ uRead = 1
    /\ pc \in {"dial", "handshake", "response"} => cRead = 0 /\ Len(toUpstream) = 0
    /\ pc = "result" => cRead = 1
    /\ pc \in {"result", "relay"} => Len(toUpstream) > 0
    /\ pc = "relay" => uRead = Len(toClient) /\ uRead > 1 /\ MY!LetsIn

\* The gateway's error in place of a request for another plugin.
MYOwnErr(p) == MY!OwnErr((MY!Number(p) + 1) % MY!Byte, MY!Content(p)[2])

MYSecond ==
    \/ MY!LetsIn /\ \A k \in 2..Len(toClient) : toClient[k] = uSent[k]
    \/ ~MY!LetsIn /\ Len(toClient) = 2 /\ uSent[2][1] = "err" /\ toClient[2] = uSent[2]
    \/ ~MY!LetsIn /\ Len(toClient) = 2 /\ uSent[2][1] # "err" /\ toClient[2] = MYOwnErr(cSent[1])

MYClient ==
    /\ Len(toClient) > 0 => toClient[1] = MY!Masked(uSent[1])
    /\ Len(toClient) > 1 => cRead > 0 /\ cSent[1][1] = "response" /\ MYSecond

\* The gateway's response, and the client's packets behind its own.
MYOpening == MY!OurResponse(MY!ChosenDb(cSent[1]))

MYUpstream ==
    Len(toUpstream) > 0 =>
        /\ Len(toUpstream) = cRead /\ cSent[1][1] = "response" /\ toUpstream[1] = MYOpening
        /\ \A k \in 2..cRead : toUpstream[k] = cSent[k]
        /\ cRead > 1 => uRead > 1 /\ MY!LetsIn

MYInv == MYTypes /\ MYHonest /\ MYPlace /\ MYClient /\ MYUpstream

-----------------------------------------------------------------------------
(* What the steps leave alone *)

\* The numbers of the invariant are numbers.
LEMMA MYNumbers ==
    ASSUME MYTypes
    PROVE  /\ Len(cSent) \in Nat /\ Len(script) \in Nat /\ Len(uSent) \in Nat
           /\ Len(toClient) \in Nat /\ Len(toUpstream) \in Nat
           /\ cRead \in Nat /\ cRead <= Len(cSent) /\ uRead \in Nat /\ uRead <= Len(uSent)
           /\ Sequence(uSent) /\ Sequence(cSent) /\ Sequence(toClient) /\ Sequence(toUpstream)
<1>1. /\ Len(cSent) \in Nat /\ Len(script) \in Nat /\ Len(uSent) \in Nat
      /\ Len(toClient) \in Nat /\ Len(toUpstream) \in Nat
  BY LenIs DEF MYTypes, Streams
<1>2. QED
  BY <1>1 DEF MYTypes, Streams

\* A client's packet is a response, a short packet or a query, and its number a byte.
LEMMA MYClientMsgIs ==
    ASSUME NEW m \in MY!ClientMsgs
    PROVE  /\ MY!Number(m) \in 0..(MY!Byte - 1)
           /\ m[1] \notin {"short", "query"} => m[1] = "response"
  BY DEF MY!ClientMsgs, MY!Number, MY!Byte

LEMMA MYSentIs ==
    ASSUME MYTypes, NEW j \in 1..Len(cSent)
    PROVE  /\ cSent[j] \in MY!ClientMsgs
           /\ j = 1 /\ cSent[j][1] # "short" => cSent[j][1] = "response"
<1>1. j \in 1..Len(script) /\ cSent[j] = script[j] /\ Len(script) \in Nat
  BY MYNumbers DEF MYTypes, Streams
<1>2. cSent[j] \in MY!ClientMsgs
  BY <1>1 DEF MYTypes
<1>3. j = 1 => cSent[j][1] # "query"
  BY <1>1 DEF MYTypes
<1>4. QED
  BY <1>2, <1>3, MYClientMsgIs

\* Whether the upstream's result lets the client in is settled with its second packet.
LEMMA MYLetsInKept ==
    ASSUME MYTypes, uRead > 1, \A j \in 1..uRead : uSent'[j] = uSent[j],
           Len(uSent') \in Nat, Len(uSent) <= Len(uSent')
    PROVE  MY!LetsIn' = MY!LetsIn
<1>1. 2 \in 1..uRead /\ Len(uSent) > 1 /\ Len(uSent') > 1
  BY MYNumbers
<1>2. uSent'[2] = uSent[2]
  BY <1>1
<1>3. QED
  BY <1>1, <1>2 DEF MY!LetsIn

LEMMA MYTypesKept ==
    ASSUME MYTypes, Streams', UNCHANGED <<kind, script>>, pc' \in MYStates,
           srv' \in {"greeting", "login", "session"},
           \A k \in 1..Len(uSent') : MYPacket(uSent'[k])
    PROVE  MYTypes'
  BY DEF MYTypes, MYPacket

\* The peers write behind what the handler has read.
LEMMA MYPeersKeep ==
    ASSUME MYInv, MYTypes', MYHonest',
           UNCHANGED <<pc, cfg, cRead, toClient, uRead, toUpstream>>,
           \A j \in 1..cRead : cSent'[j] = cSent[j],
           \A j \in 1..uRead : uSent'[j] = uSent[j],
           Len(uSent') \in Nat, Len(uSent) <= Len(uSent')
    PROVE  MYInv'
<1>1. MYTypes /\ cRead \in Nat /\ uRead \in Nat /\ Len(toClient) \in Nat
      /\ Len(toUpstream) \in Nat
  BY MYNumbers DEF MYInv
<1>2. uRead > 1 => MY!LetsIn' = MY!LetsIn
  BY <1>1, MYLetsInKept
<1>3. MYPlace'
  BY <1>1, <1>2 DEF MYInv, MYPlace
<1>4. cRead > 0 => cSent'[1] = cSent[1]
  BY <1>1
<1>5. MYClient'
  <2>1. Len(toClient) <= uRead
    BY DEF MYInv, MYPlace
  <2>2. Len(toClient) > 0 => uSent'[1] = uSent[1]
    BY <1>1, <2>1
  <2>3. Len(toClient) > 1 => uSent'[2] = uSent[2] /\ uRead > 1
    BY <1>1, <2>1
  <2>4. \A k \in 2..Len(toClient) : uSent'[k] = uSent[k]
    BY <1>1, <2>1
  <2>5. Len(toClient) > 1 /\ cRead > 0 /\ MYSecond => MYSecond'
    BY <1>2, <1>4, <2>3, <2>4 DEF MYSecond, MYOwnErr
  <2>6. Len(toClient) > 0 => MY!Masked(uSent'[1]) = MY!Masked(uSent[1])
    BY <2>2
  <2>7. QED
    BY <1>4, <2>5, <2>6 DEF MYInv, MYClient
<1>6. MYUpstream'
  <2>1. ASSUME cRead > 0 PROVE MYOpening' = MYOpening
    <3>1. cSent'[1] = cSent[1] /\ cfg' = cfg
      BY <1>4, <2>1
    <3>2. QED
      BY <3>1, Zenon DEF MYOpening, MY!ChosenDb, MY!Requested
  <2>2. \A k \in 2..cRead : cSent'[k] = cSent[k]
    BY <1>1
  <2>3. QED
    BY <1>1, <1>2, <1>4, <2>1, <2>2 DEF MYInv, MYUpstream
<1>7. QED
  BY <1>3, <1>5, <1>6 DEF MYInv

-----------------------------------------------------------------------------
(* The steps *)

LEMMA MYInit == ASSUME Init, kind = "mysql" PROVE MYInv
<1>1. MY!Init /\ br = <<>> /\ kind \in Kinds
  BY DEF Init
<1>2. Sequence(script) /\ script \in Seq(MY!ClientMsgs)
      /\ (Len(script) > 0 => script[1][1] # "query")
  BY <1>1, ScriptsAssumption DEF MY!Init, MY!InitAt, Sequence
<1>3. Streams
  BY <1>1, <1>2, InitStreams DEF MY!Init, MY!InitAt
<1>4. \A i \in 1..Len(script) : script[i] \in MY!ClientMsgs
  BY <1>2, ElementOfSeq
<1>5. /\ pc = "dial" /\ srv = "greeting" /\ cRead = 0 /\ uRead = 0
      /\ uSent = <<>> /\ toClient = <<>> /\ toUpstream = <<>>
  BY <1>1 DEF MY!Init, MY!InitAt
<1>6. Len(uSent) = 0 /\ Len(toClient) = 0 /\ Len(toUpstream) = 0
  BY <1>5, EmptyIs
<1>7. MYTypes
  BY <1>1, <1>2, <1>3, <1>4, <1>5, <1>6 DEF MYTypes, MYStates
<1>8. MYHonest /\ MYPlace
  BY <1>5, <1>6 DEF MYHonest, MYPlace
<1>9. MYClient /\ MYUpstream
  BY <1>6 DEF MYClient, MYUpstream
<1>10. QED
  BY <1>7, <1>8, <1>9 DEF MYInv

LEMMA MYClientMoves ==
    ASSUME MYInv, MY!ClientSends \/ MY!ClientCloses, UNCHANGED <<kind, br>> PROVE MYInv'
<1>1. MYTypes
  BY DEF MYInv
<1>2. ClientStep
  BY DEF ClientStep, MY!ClientSends, MY!ClientCloses, MY!handlerVars, MY!serverVars
<1>3. Streams' /\ Grows(cSent, cSent')
  BY <1>1, <1>2, ClientStepKeeps DEF MYTypes
<1>4. MYTypes'
  BY <1>1, <1>2, <1>3, MYTypesKept DEF ClientStep, MYTypes
<1>5. \A j \in 1..cRead : cSent'[j] = cSent[j]
  <2>1. \A j \in 1..cRead : j \in 1..Len(cSent)
    BY <1>1, MYNumbers
  <2>2. QED
    BY <1>3, <2>1 DEF Grows
<1>6. MYHonest'
  BY <1>2 DEF MYInv, MYHonest, ClientStep
<1>7. Len(uSent') \in Nat /\ Len(uSent) <= Len(uSent') /\ uSent' = uSent
  BY <1>1, <1>2, MYNumbers DEF ClientStep
<1>8. QED
  BY <1>2, <1>4, <1>5, <1>6, <1>7, MYPeersKeep DEF ClientStep

\* The packets an upstream sends of itself or as answers.
LEMMA MYPacketsAre ==
    /\ MYPacket(MY!Handshake(0, TRUE)) /\ MYPacket(MY!NoHandshake(0))
    /\ MY!Number(MY!Handshake(0, TRUE)) = 0 /\ MY!Number(MY!NoHandshake(0)) = 0
    /\ MYPacket(MY!AnswerResponse(2)) /\ MY!Number(MY!AnswerResponse(2)) = 2
    /\ \A i : MYPacket(MY!Reply(i))
<1> USE DEF MYPacket, MY!Number, MY!Byte
<1>1. MYPacket(MY!Handshake(0, TRUE)) /\ MY!Number(MY!Handshake(0, TRUE)) = 0
  BY DEF MY!Handshake
<1>2. MYPacket(MY!NoHandshake(0)) /\ MY!Number(MY!NoHandshake(0)) = 0
  BY DEF MY!NoHandshake
<1>3. MYPacket(MY!AnswerResponse(2)) /\ MY!Number(MY!AnswerResponse(2)) = 2
  <2>1. CASE mode = "native"
    BY <2>1 DEF MY!AnswerResponse, MY!OK
  <2>2. CASE mode = "switch"
    BY <2>2 DEF MY!AnswerResponse, MY!Switch
  <2>3. CASE mode \notin {"native", "switch"}
    BY <2>3 DEF MY!AnswerResponse, MY!Err
  <2>4. QED
    BY <2>1, <2>2, <2>3
<1>4. ASSUME NEW i PROVE MYPacket(MY!Reply(i))
  BY DEF MY!Reply
<1>5. QED
  BY <1>1, <1>2, <1>3, <1>4

\* One more packet of the upstream.
LEMMA MYOneMore ==
    ASSUME MYTypes, NEW p, MYPacket(p), uSent' = uSent \o <<p>> \/ uSent' = Append(uSent, p)
    PROVE  /\ Grows(uSent, uSent') /\ Len(uSent') = Len(uSent) + 1
           /\ uSent'[Len(uSent) + 1] = p
           /\ \A k \in 1..Len(uSent') : MYPacket(uSent'[k])
<1>1. Sequence(uSent) /\ Len(uSent) \in Nat /\ \A k \in 1..Len(uSent) : MYPacket(uSent[k])
  BY MYNumbers DEF MYTypes
<1>2. /\ Sequence(uSent') /\ Len(uSent') = Len(uSent) + 1 /\ uSent'[Len(uSent) + 1] = p
      /\ \A i \in 1..Len(uSent) : uSent'[i] = uSent[i]
  <2>1. CASE uSent' = uSent \o <<p>>
    <3>1. Sequence(<<p>>) /\ Len(<<p>>) = 1 /\ <<p>>[1] = p
      BY OneIs
    <3>2. QED
      BY <1>1, <2>1, <3>1, ConcatIs
  <2>2. CASE uSent' = Append(uSent, p)
    BY <1>1, <2>2, AppendIs
  <2>3. QED
    BY <2>1, <2>2
<1>3. \A k \in 1..Len(uSent') : MYPacket(uSent'[k])
  <2>1. ASSUME NEW k \in 1..Len(uSent') PROVE MYPacket(uSent'[k])
    <3>1. k \in 1..Len(uSent) \/ k = Len(uSent) + 1
      BY <1>1, <1>2
    <3>2. uSent'[k] = p \/ (k \in 1..Len(uSent) /\ uSent'[k] = uSent[k])
      BY <1>2, <3>1
    <3>3. QED
      BY <1>1, <3>2
  <2>2. QED
    BY <2>1
<1>4. QED
  BY <1>1, <1>2, <1>3 DEF Grows

\* What the upstream does is a step of an upstream.
LEMMA MYUpstreamSteps ==
    ASSUME MYInv, MY!UpstreamAnswers \/ MY!UpstreamSendsAnything \/ MY!UpstreamCloses,
           UNCHANGED <<kind, br>>
    PROVE  /\ UpstreamStep /\ srv' \in {"greeting", "login", "session"} /\ MYHonest'
           /\ \A k \in 1..Len(uSent') : MYPacket(uSent'[k])
<1> DEFINE states == {"greeting", "login", "session"}
           Good == /\ UpstreamStep /\ srv' \in states /\ MYHonest'
                   /\ \A k \in 1..Len(uSent') : MYPacket(uSent'[k])
<1>1. MYTypes /\ MYHonest
  BY DEF MYInv
<1>2. /\ Sequence(uSent) /\ Len(uSent) \in Nat /\ srvRead \in 0..Len(toUpstream)
      /\ Len(toUpstream) \in Nat /\ uEof \in BOOLEAN /\ srv \in states /\ kind = "mysql"
      /\ kind \in Kinds
  BY <1>1, MYNumbers DEF MYTypes, Streams
<1>3. ASSUME MY!UpstreamAnswers PROVE Good
  <2>1. ASSUME MY!Greets PROVE Good
    <3>1. PICK p : p = IF mode = "busy" THEN MY!NoHandshake(0) ELSE MY!Handshake(0, TRUE)
      OBVIOUS
    <3>2. /\ srv = "greeting" /\ mode # "free" /\ uSent' = uSent \o <<p>> /\ srv' = "login"
          /\ UNCHANGED <<pc, cRead, toClient, uRead, toUpstream, script, cSent, cEof, mode, cfg,
                         srvRead, uEof>>
      BY <2>1, <3>1 DEF MY!Greets, MY!Speaks, MY!handlerVars, MY!clientVars
    <3>3. MYPacket(p) /\ MY!Number(p) = 0
      BY <3>1, MYPacketsAre
    <3>4. /\ Grows(uSent, uSent') /\ Len(uSent') = Len(uSent) + 1
          /\ uSent'[Len(uSent) + 1] = p
          /\ \A k \in 1..Len(uSent') : MYPacket(uSent'[k])
      BY <1>1, <3>2, <3>3, MYOneMore
    <3>5. Len(uSent) = 0
      BY <1>1, <3>2 DEF MYHonest
    <3>6. MYHonest'
      BY <3>2, <3>3, <3>4, <3>5 DEF MYHonest
    <3>7. UpstreamStep
      BY <1>2, <3>2, <3>4 DEF UpstreamStep
    <3>8. QED
      BY <3>2, <3>4, <3>6, <3>7
  <2>2. ASSUME MY!Answer("login", toUpstream[1],
                         <<MY!AnswerResponse(MY!Number(toUpstream[1]) + 1)>>, "session")
        PROVE  Good
    <3>1. Len(toUpstream) > 0
      BY <1>2, <2>2 DEF MY!Answer
    <3>2. MY!Number(toUpstream[1]) = 1
      BY <3>1 DEF MYInv, MYUpstream, MYOpening, MY!OurResponse, MY!Number
    <3>3. PICK p : p = MY!AnswerResponse(2)
      OBVIOUS
    <3>4. p = MY!AnswerResponse(MY!Number(toUpstream[1]) + 1)
      <4>1. MY!Number(toUpstream[1]) + 1 = 2
        BY <3>2
      <4>2. QED
        BY <3>3, <4>1
    <3>5. /\ srv = "login" /\ mode # "free" /\ uSent' = uSent \o <<p>> /\ srv' = "session"
          /\ srvRead < Len(toUpstream) /\ srvRead' = srvRead + 1
          /\ UNCHANGED <<pc, cRead, toClient, uRead, toUpstream, script, cSent, cEof, mode, cfg,
                         uEof>>
      BY <2>2, <3>4 DEF MY!Answer, MY!handlerVars, MY!clientVars
    <3>6. MYPacket(p) /\ MY!Number(p) = 2
      BY <3>3, MYPacketsAre
    <3>7. /\ Grows(uSent, uSent') /\ Len(uSent') = Len(uSent) + 1
          /\ uSent'[Len(uSent) + 1] = p
          /\ \A k \in 1..Len(uSent') : MYPacket(uSent'[k])
      BY <1>1, <3>5, <3>6, MYOneMore
    <3>8. Len(uSent) = 1 /\ MY!Number(uSent[1]) = 0
      BY <1>1, <3>5 DEF MYHonest
    <3>9. MYHonest'
      <4>1. uSent'[1] = uSent[1] /\ uSent'[2] = p /\ Len(uSent') = 2
        BY <3>7, <3>8 DEF Grows
      <4>2. QED
        BY <3>5, <3>6, <3>8, <4>1 DEF MYHonest
    <3>10. UpstreamStep
      BY <1>2, <3>5, <3>7 DEF UpstreamStep
    <3>11. QED
      BY <3>5, <3>7, <3>9, <3>10
  <2>3. ASSUME NEW i \in 1..Len(script),
               MY!Answer("session", MY!Query(i), <<MY!Reply(i)>>, "session")
        PROVE  Good
    <3>1. PICK p : p = MY!Reply(i)
      OBVIOUS
    <3>2. /\ srv = "session" /\ mode # "free" /\ uSent' = uSent \o <<p>> /\ srv' = "session"
          /\ srvRead < Len(toUpstream) /\ srvRead' = srvRead + 1
          /\ UNCHANGED <<pc, cRead, toClient, uRead, toUpstream, script, cSent, cEof, mode, cfg,
                         uEof>>
      BY <2>3, <3>1 DEF MY!Answer, MY!handlerVars, MY!clientVars
    <3>3. MYPacket(p)
      BY <3>1, MYPacketsAre
    <3>4. /\ Grows(uSent, uSent') /\ Len(uSent') = Len(uSent) + 1
          /\ \A k \in 1..Len(uSent') : MYPacket(uSent'[k])
      BY <1>1, <3>2, <3>3, MYOneMore
    <3>5. /\ Len(uSent) > 1 /\ MY!Number(uSent[1]) = 0 /\ MY!Number(uSent[2]) = 2
          /\ uSent'[1] = uSent[1] /\ uSent'[2] = uSent[2]
      BY <1>1, <1>2, <3>2, <3>4 DEF MYHonest, Grows
    <3>6. MYHonest'
      BY <1>2, <3>2, <3>4, <3>5 DEF MYHonest
    <3>7. UpstreamStep
      BY <1>2, <3>2, <3>4 DEF UpstreamStep
    <3>8. QED
      BY <3>2, <3>4, <3>6, <3>7
  <2>4. QED
    BY <1>3, <2>1, <2>2, <2>3 DEF MY!UpstreamAnswers
<1>4. ASSUME MY!UpstreamSendsAnything PROVE Good
  <2>1. PICK p \in FreeOf["mysql"] : uSent' = Append(uSent, p)
    BY <1>4 DEF MY!UpstreamSendsAnything, MY!SendsAnything
  <2>2. MYPacket(p)
    BY <1>2, PeersAssumption DEF MYPacket, MY!Number
  <2>3. Grows(uSent, uSent') /\ \A k \in 1..Len(uSent') : MYPacket(uSent'[k])
    BY <1>1, <2>1, <2>2, MYOneMore
  <2>4. mode' = "free" /\ srv' = srv
    BY <1>4 DEF MY!UpstreamSendsAnything, MY!SendsAnything
  <2>5. UpstreamStep
    BY <1>2, <1>4, <2>3
    DEF UpstreamStep, MY!UpstreamSendsAnything, MY!SendsAnything, MY!handlerVars, MY!clientVars
  <2>6. QED
    BY <1>2, <2>3, <2>4, <2>5 DEF MYHonest
<1>5. ASSUME MY!UpstreamCloses PROVE Good
  <2>1. Grows(uSent, uSent') /\ UNCHANGED <<uSent, srv, mode>>
    BY <1>2, <1>5 DEF MY!UpstreamCloses, MY!Closes, Grows
  <2>2. UpstreamStep
    BY <1>2, <1>5, <2>1
    DEF UpstreamStep, MY!UpstreamCloses, MY!Closes, MY!handlerVars, MY!clientVars
  <2>3. \A k \in 1..Len(uSent') : MYPacket(uSent'[k])
    BY <1>1, <2>1 DEF MYTypes
  <2>4. QED
    BY <1>1, <1>2, <2>1, <2>2, <2>3 DEF MYHonest
<1>6. QED
  BY <1>3, <1>4, <1>5

LEMMA MYUpstreamMoves ==
    ASSUME MYInv, MY!UpstreamAnswers \/ MY!UpstreamSendsAnything \/ MY!UpstreamCloses,
           UNCHANGED <<kind, br>>
    PROVE  MYInv'
<1>1. MYTypes
  BY DEF MYInv
<1>2. /\ UpstreamStep /\ srv' \in {"greeting", "login", "session"} /\ MYHonest'
      /\ \A k \in 1..Len(uSent') : MYPacket(uSent'[k])
  BY MYUpstreamSteps
<1>3. MYTypes'
  BY <1>1, <1>2, UpstreamStepKeeps, MYTypesKept DEF UpstreamStep, MYTypes
<1>4. /\ \A j \in 1..uRead : uSent'[j] = uSent[j]
      /\ Len(uSent') \in Nat /\ Len(uSent) <= Len(uSent')
  <2>1. \A j \in 1..uRead : j \in 1..Len(uSent)
    BY <1>1, MYNumbers
  <2>2. QED
    BY <1>2, <2>1, LenIs DEF UpstreamStep, Grows
<1>5. QED
  BY <1>2, <1>3, <1>4, MYPeersKeep DEF UpstreamStep

LEMMA MYHandlerStep ==
    ASSUME MY!Handler \/ MY!Relay, UNCHANGED <<kind, br>> PROVE HandlerStep
<1> USE DEF HandlerStep, MY!PeersUnchanged, MY!clientVars, MY!serverVars, MY!ReadsClient,
            MY!ReadsUpstream, MY!ReadsNobody, MY!TellClient, MY!TellUpstream, MY!TellNobody
<1>1. CASE MY!Dial
  BY <1>1 DEF MY!Dial
<1>2. CASE MY!ReadHandshake
  BY <1>2 DEF MY!ReadHandshake
<1>3. CASE MY!ReadResponse
  BY <1>3 DEF MY!ReadResponse
<1>4. CASE MY!ReadResult
  BY <1>4 DEF MY!ReadResult
<1>5. CASE MY!ClientLeft \/ MY!UpstreamLeft
  BY <1>5 DEF MY!ClientLeft, MY!UpstreamLeft, MY!ClientGone, MY!UpstreamGone
<1>6. CASE MY!Relay
  BY <1>6 DEF MY!Relay, MY!RelayToUpstream, MY!RelayToClient, MY!PassUp, MY!PassDown
<1>7. QED
  BY <1>1, <1>2, <1>3, <1>4, <1>5, <1>6 DEF MY!Handler

LEMMA MYTypesStep ==
    ASSUME MYInv, HandlerStep, pc' \in MYStates PROVE MYTypes' /\ MYHonest'
<1>1. MYTypes'
  BY HandlerStepKeeps, MYTypesKept DEF HandlerStep, MYInv, MYTypes
<1>2. QED
  BY <1>1 DEF MYInv, MYHonest, HandlerStep

\* What was written and read stays what it was.
LEMMA MYStepNumbers ==
    ASSUME MYInv, HandlerStep
    PROVE  /\ cRead' \in Nat /\ cRead <= cRead' /\ uRead' \in Nat /\ uRead <= uRead'
           /\ UNCHANGED <<cfg, cSent, uSent>> /\ MY!LetsIn' = MY!LetsIn
           /\ MYOpening' = MYOpening
<1>1. cRead \in Nat /\ uRead \in Nat
  BY MYNumbers DEF MYInv
<1>2. UNCHANGED <<cfg, cSent, uSent>>
  BY DEF HandlerStep
<1>3. MY!LetsIn' = MY!LetsIn
  BY <1>2 DEF MY!LetsIn
<1>4. MYOpening' = MYOpening
  <2>1. cfg' = cfg /\ cSent'[1] = cSent[1]
    BY <1>2
  <2>2. QED
    BY <2>1, Zenon DEF MYOpening, MY!ChosenDb, MY!Requested
<1>5. cRead' \in Nat /\ cRead <= cRead' /\ uRead' \in Nat /\ uRead <= uRead'
  <2>1. cRead' \in {cRead, cRead + 1} /\ uRead' \in {uRead, uRead + 1}
    BY DEF HandlerStep
  <2>2. QED
    BY <1>1, <2>1
<1>6. QED
  BY <1>2, <1>3, <1>4, <1>5

LEMMA MYClientSame ==
    ASSUME MYInv, HandlerStep, UNCHANGED toClient PROVE MYClient'
<1>1. cRead \in Nat /\ cRead' \in Nat /\ cRead <= cRead'
  BY MYNumbers, MYStepNumbers DEF MYInv
<1>2. MYSecond' = MYSecond
  BY MYStepNumbers DEF MYSecond, MYOwnErr
<1>3. UNCHANGED <<cSent, uSent>>
  BY DEF HandlerStep
<1>4. MY!Masked(uSent[1])' = MY!Masked(uSent[1])
  BY <1>3
<1>5. QED
  BY <1>1, <1>2, <1>3, <1>4 DEF MYInv, MYClient

LEMMA MYUpstreamSame ==
    ASSUME MYInv, HandlerStep, UNCHANGED toUpstream, cRead' = cRead \/ Len(toUpstream) = 0
    PROVE  MYUpstream'
<1>1. UNCHANGED <<cSent, uSent>> /\ uRead \in Nat /\ uRead' \in Nat /\ uRead <= uRead'
  BY MYNumbers, MYStepNumbers DEF MYInv
<1>2. QED
  BY <1>1, MYStepNumbers DEF MYInv, MYUpstream

\* The end of a session, with or without a last packet read.
LEMMA MYCloses ==
    ASSUME MYInv, HandlerStep, pc' = "closed", UNCHANGED <<toClient, toUpstream>>,
           cRead' = cRead \/ Len(toUpstream) = 0
    PROVE  MYInv'
<1>1. MYTypes' /\ MYHonest'
  BY MYTypesStep DEF MYStates
<1>2. MYPlace'
  <2>1. Len(toClient) \in Nat /\ uRead \in Nat
    BY MYNumbers DEF MYInv
  <2>2. QED
    BY <2>1, MYStepNumbers DEF MYInv, MYPlace
<1>3. QED
  BY <1>1, <1>2, MYClientSame, MYUpstreamSame DEF MYInv

LEMMA MYDials == ASSUME MYInv, MY!Dial, HandlerStep PROVE MYInv'
<1>1. pc = "dial" /\ UNCHANGED <<toClient, toUpstream, cRead, uRead>>
  BY DEF MY!Dial, MY!TellNobody, MY!ReadsNobody
<1>2. CASE pc' = "closed"
  BY <1>1, <1>2, MYCloses
<1>3. CASE pc' = "handshake"
  <2>1. MYTypes' /\ MYHonest'
    BY <1>3, MYTypesStep DEF MYStates, MY!Connected
  <2>2. MYPlace'
    BY <1>1, <1>3 DEF MYInv, MYPlace
  <2>3. QED
    BY <1>1, <2>1, <2>2, MYClientSame, MYUpstreamSame DEF MYInv
<1>4. QED
  BY <1>2, <1>3 DEF MY!Dial, MY!Goto, MY!Close

LEMMA MYReadsHandshake == ASSUME MYInv, MY!ReadHandshake, HandlerStep PROVE MYInv'
<1>1. /\ pc = "handshake" /\ uRead' = uRead + 1 /\ cRead' = cRead /\ toUpstream' = toUpstream
      /\ Len(toClient) = 0 /\ uRead = 0 /\ cRead = 0 /\ Len(toUpstream) = 0
  BY DEF MY!ReadHandshake, MY!ReadsUpstream, MY!TellClient, MY!TellNobody, MYInv, MYPlace
<1>2. CASE pc' = "closed" /\ toClient' = toClient
  BY <1>1, <1>2, MYCloses
<1>3. CASE pc' = "response" /\ toClient' = Append(toClient, MY!Masked(uSent[1]))
  <2> DEFINE p == MY!Masked(uSent[1])
  <2>1. Len(toClient') = 1 /\ toClient'[1] = p
    <3>1. Sequence(toClient) /\ Len(toClient) = 0 /\ toClient' = Append(toClient, p)
      BY <1>1, <1>3, MYNumbers DEF MYInv
    <3> HIDE DEF p
    <3>2. QED
      BY <3>1, AppendIs
  <2>2. MYTypes' /\ MYHonest'
    BY <1>3, MYTypesStep DEF MYStates, MY!Connected
  <2>3. MYPlace'
    BY <1>1, <1>3, <2>1 DEF MYPlace
  <2>4. MYClient'
    <3>1. MY!Masked(uSent[1])' = p
      BY DEF HandlerStep
    <3> HIDE DEF p
    <3>2. QED
      BY <2>1, <3>1 DEF MYClient
  <2>5. MYUpstream'
    BY <1>1, MYUpstreamSame
  <2>6. QED
    BY <2>2, <2>3, <2>4, <2>5 DEF MYInv
<1>4. QED
  <2>1. MY!FromUpstream = uSent[1]
    BY <1>1 DEF MY!FromUpstream
  <2>2. QED
    BY <1>2, <1>3, <2>1
    DEF MY!ReadHandshake, MY!TellClient, MY!TellNobody, MY!Goto, MY!Close

LEMMA MYReadsResponse == ASSUME MYInv, MY!ReadResponse, HandlerStep PROVE MYInv'
<1>1. /\ pc = "response" /\ cRead < Len(cSent) /\ cRead' = cRead + 1 /\ uRead' = uRead
      /\ toClient' = toClient /\ Len(toClient) = 1 /\ uRead = 1 /\ cRead = 0
      /\ Len(toUpstream) = 0
  BY DEF MY!ReadResponse, MY!ReadsClient, MY!TellUpstream, MY!TellNobody, MYInv, MYPlace
<1>2. CASE pc' = "closed" /\ toUpstream' = toUpstream
  BY <1>1, <1>2, MYCloses
<1>3. CASE /\ cSent[1][1] # "short" /\ pc' = "result"
           /\ toUpstream' = Append(toUpstream, MYOpening)
  <2>1. Len(toUpstream') = 1 /\ toUpstream'[1] = MYOpening
    <3>1. Sequence(toUpstream)
      BY MYNumbers DEF MYInv
    <3>2. QED
      BY <1>1, <1>3, <3>1, AppendIs
  <2>2. MYTypes' /\ MYHonest'
    BY <1>3, MYTypesStep DEF MYStates, MY!Connected
  <2>3. MYPlace'
    BY <1>1, <1>3, <2>1 DEF MYPlace
  <2>4. MYUpstream'
    <3>1. cSent[1][1] = "response"
      <4>1. 1 \in 1..Len(cSent)
        BY <1>1, MYNumbers DEF MYInv
      <4>2. QED
        BY <1>3, <4>1, MYSentIs DEF MYInv
    <3>2. UNCHANGED cSent /\ MYOpening' = MYOpening
      BY MYStepNumbers
    <3>3. QED
      BY <1>1, <2>1, <3>1, <3>2 DEF MYUpstream
  <2>5. QED
    BY <1>1, <2>2, <2>3, <2>4, MYClientSame DEF MYInv
<1>4. QED
  <2>1. MY!FromClient = cSent[1]
    BY <1>1 DEF MY!FromClient
  <2>2. QED
    BY <1>2, <1>3, <2>1
    DEF MY!ReadResponse, MY!TellUpstream, MY!TellNobody, MY!Goto, MY!Close, MYOpening

LEMMA MYReadsResult == ASSUME MYInv, MY!ReadResult, HandlerStep PROVE MYInv'
<1>1. /\ pc = "result" /\ uRead < Len(uSent) /\ uRead' = uRead + 1 /\ cRead' = cRead
      /\ toUpstream' = toUpstream /\ Len(toClient) = 1 /\ uRead = 1 /\ cRead = 1
      /\ Len(toUpstream) > 0
  BY DEF MY!ReadResult, MY!ReadsUpstream, MY!TellClient, MYInv, MYPlace
<1>2. /\ Sequence(toClient) /\ Len(uSent) \in Nat /\ UNCHANGED <<cSent, uSent>>
      /\ Len(uSent) > 1
  BY <1>1, MYNumbers DEF MYInv, HandlerStep
<1>3. cSent[1][1] = "response"
  BY <1>1 DEF MYInv, MYUpstream
<1>4. ASSUME NEW p, toClient' = Append(toClient, p), pc' \in {"closed", "relay"},
             pc' = "relay" => MY!LetsIn,
             \/ MY!LetsIn /\ p = uSent[2]
             \/ ~MY!LetsIn /\ uSent[2][1] = "err" /\ p = uSent[2]
             \/ ~MY!LetsIn /\ uSent[2][1] # "err" /\ p = MYOwnErr(cSent[1])
      PROVE  MYInv'
  <2>1. Len(toClient') = 2 /\ toClient'[1] = toClient[1] /\ toClient'[2] = p
    <3>1. /\ Len(toClient') = Len(toClient) + 1 /\ toClient'[Len(toClient) + 1] = p
          /\ \A i \in 1..Len(toClient) : toClient'[i] = toClient[i]
      BY <1>2, <1>4, AppendIs
    <3>2. Len(toClient) = 1 /\ 1 \in 1..1
      BY <1>1
    <3>3. QED
      BY <3>1, <3>2
  <2>2. MYTypes' /\ MYHonest'
    BY <1>4, MYTypesStep DEF MYStates, MY!Connected
  <2>3. MY!LetsIn' = MY!LetsIn
    BY MYStepNumbers
  <2>4. MYPlace'
    BY <1>1, <1>4, <2>1, <2>3 DEF MYPlace
  <2>5. MYClient'
    <3>1. toClient[1] = MY!Masked(uSent[1])
      BY <1>1 DEF MYInv, MYClient
    <3>2. MY!Masked(uSent[1])' = MY!Masked(uSent[1])
      BY <1>2
    <3>3. MYOwnErr(cSent[1])' = MYOwnErr(cSent[1])
      BY <1>2
    <3>4. MYSecond'
      <4>1. \A k \in 2..Len(toClient') : k = 2
        BY <2>1
      <4>2. QED
        BY <1>2, <1>4, <2>1, <2>3, <3>3, <4>1 DEF MYSecond
    <3>5. QED
      BY <1>1, <1>2, <1>3, <2>1, <3>1, <3>2, <3>4 DEF MYClient
  <2>6. MYUpstream'
    BY <1>1, MYUpstreamSame
  <2>7. QED
    BY <2>2, <2>4, <2>5, <2>6 DEF MYInv
<1>5. MY!LetsIn <=> uSent[2][1] \notin {"switch", "err"}
  BY <1>2 DEF MY!LetsIn
<1>6. MY!FromUpstream = uSent[2]
  BY <1>1 DEF MY!FromUpstream
<1>7. CASE MY!IsSwitch(uSent[2])
  <2>1. pc' = "closed" /\ toClient' = Append(toClient, MYOwnErr(cSent[1]))
    BY <1>6, <1>7
    DEF MY!ReadResult, MY!IsSwitch, MY!TellClient, MY!Close, MYOwnErr, MY!OwnErrNumber
  <2>2. ~MY!LetsIn /\ uSent[2][1] # "err"
    BY <1>5, <1>7 DEF MY!IsSwitch
  <2>3. QED
    BY <1>4, <2>1, <2>2
<1>8. CASE ~MY!IsSwitch(uSent[2]) /\ MY!IsErr(uSent[2])
  <2>1. pc' = "closed" /\ toClient' = Append(toClient, uSent[2])
    BY <1>6, <1>8 DEF MY!ReadResult, MY!TellClient, MY!Close
  <2>2. ~MY!LetsIn /\ uSent[2][1] = "err"
    BY <1>5, <1>8 DEF MY!IsErr
  <2>3. QED
    BY <1>4, <2>1, <2>2
<1>9. CASE ~MY!IsSwitch(uSent[2]) /\ ~MY!IsErr(uSent[2])
  <2>1. pc' = "relay" /\ toClient' = Append(toClient, uSent[2])
    BY <1>6, <1>9 DEF MY!ReadResult, MY!TellClient, MY!Goto
  <2>2. MY!LetsIn
    BY <1>5, <1>9 DEF MY!IsErr, MY!IsSwitch
  <2>3. QED
    BY <1>4, <2>1, <2>2
<1>10. QED
  BY <1>7, <1>8, <1>9

LEMMA MYPassesUp == ASSUME MYInv, MY!RelayToUpstream, HandlerStep PROVE MYInv'
<1> DEFINE m == cSent[cRead + 1]
           n == Len(toUpstream)
<1>1. /\ pc = "relay" /\ pc' = "relay" /\ cRead' = cRead + 1 /\ UNCHANGED <<uRead, toClient>>
      /\ toUpstream' = Append(toUpstream, m) /\ uRead = Len(toClient) /\ uRead > 1
      /\ MY!LetsIn /\ n > 0
  BY DEF MY!RelayToUpstream, MY!PassUp, MY!Relayed, MY!FromClient, MY!ReadsClient,
         MY!TellUpstream, MY!Stay, MYInv, MYPlace
<1>2. /\ n = cRead /\ cSent[1][1] = "response" /\ toUpstream[1] = MYOpening
      /\ \A k \in 2..cRead : toUpstream[k] = cSent[k]
  BY <1>1 DEF MYInv, MYUpstream
<1>3. cRead \in Nat /\ n \in Nat /\ Sequence(toUpstream)
  BY MYNumbers DEF MYInv
<1> HIDE DEF m
<1>4. /\ Len(toUpstream') = cRead + 1 /\ toUpstream'[cRead + 1] = m
      /\ \A i \in 1..cRead : toUpstream'[i] = toUpstream[i]
  BY <1>1, <1>2, <1>3, AppendIs
<1>5. MYTypes' /\ MYHonest'
  BY <1>1, MYTypesStep DEF MYStates, MY!Connected
<1>6. UNCHANGED cSent /\ MYOpening' = MYOpening /\ MY!LetsIn' = MY!LetsIn
  BY MYStepNumbers
<1>7. MYPlace'
  BY <1>1, <1>3, <1>4, <1>6 DEF MYPlace
<1>8. MYUpstream'
  <2>1. toUpstream'[1] = MYOpening'
    BY <1>1, <1>2, <1>3, <1>4, <1>6
  <2>2. ASSUME NEW k \in 2..cRead' PROVE toUpstream'[k] = cSent'[k]
    <3>1. CASE k = cRead + 1
      BY <1>4, <1>6, <3>1 DEF m
    <3>2. CASE k \in 2..cRead
      BY <1>2, <1>3, <1>4, <1>6, <3>2
    <3>3. k = cRead + 1 \/ k \in 2..cRead
      <4>1. cRead' = cRead + 1 /\ cRead \in Nat
        BY <1>1, <1>3
      <4>2. QED
        BY <4>1
    <3>4. QED
      BY <3>1, <3>2, <3>3
  <2>3. Len(toUpstream') = cRead' /\ cSent'[1] = cSent[1] /\ uRead' > 1 /\ MY!LetsIn'
    <3>1. uRead' = uRead /\ cSent' = cSent /\ MY!LetsIn'
      BY <1>1, <1>6
    <3>2. QED
      BY <1>1, <1>4, <3>1
  <2>4. cSent'[1][1] = "response"
    BY <1>2, <2>3
  <2>5. QED
    BY <2>1, <2>2, <2>3, <2>4 DEF MYUpstream
<1>9. QED
  BY <1>1, <1>5, <1>7, <1>8, MYClientSame DEF MYInv

LEMMA MYPassesDown == ASSUME MYInv, MY!RelayToClient, HandlerStep PROVE MYInv'
<1> DEFINE m == uSent[uRead + 1]
<1>1. /\ pc = "relay" /\ pc' = "relay" /\ uRead' = uRead + 1 /\ UNCHANGED <<cRead, toUpstream>>
      /\ toClient' = Append(toClient, m) /\ uRead = Len(toClient) /\ uRead > 1
      /\ MY!LetsIn /\ Len(toUpstream) > 0
  BY DEF MY!RelayToClient, MY!PassDown, MY!FromUpstream, MY!ReadsUpstream,
         MY!TellClient, MY!Stay, MYInv, MYPlace
<1>2. /\ toClient[1] = MY!Masked(uSent[1]) /\ cRead > 0 /\ cSent[1][1] = "response"
      /\ \A k \in 2..uRead : toClient[k] = uSent[k]
  BY <1>1 DEF MYInv, MYClient, MYSecond
<1>3. uRead \in Nat /\ Sequence(toClient)
  BY MYNumbers DEF MYInv
<1> HIDE DEF m
<1>4. /\ Len(toClient') = uRead + 1 /\ toClient'[uRead + 1] = m
      /\ \A i \in 1..uRead : toClient'[i] = toClient[i]
  BY <1>1, <1>3, AppendIs
<1>5. MYTypes' /\ MYHonest'
  BY <1>1, MYTypesStep DEF MYStates, MY!Connected
<1>6. UNCHANGED <<cSent, uSent>> /\ MY!LetsIn' = MY!LetsIn
  BY MYStepNumbers
<1>7. MYPlace'
  BY <1>1, <1>3, <1>4, <1>6 DEF MYPlace
<1>8. MYClient'
  <2>1. ASSUME NEW k \in 2..Len(toClient') PROVE toClient'[k] = uSent'[k]
    <3>1. CASE k = uRead + 1
      BY <1>4, <1>6, <3>1 DEF m
    <3>2. CASE k \in 2..uRead
      BY <1>2, <1>3, <1>4, <1>6, <3>2
    <3>3. QED
      BY <1>3, <1>4, <3>1, <3>2
  <2>2. toClient'[1] = MY!Masked(uSent[1])'
    <3>1. MY!Masked(uSent[1])' = MY!Masked(uSent[1])
      BY <1>6
    <3>2. QED
      BY <1>1, <1>2, <1>3, <1>4, <3>1
  <2>3. MYSecond'
    BY <1>1, <1>6, <2>1 DEF MYSecond
  <2>4. QED
    BY <1>1, <1>2, <1>6, <2>2, <2>3 DEF MYClient
<1>9. QED
  BY <1>1, <1>5, <1>7, <1>8, MYUpstreamSame DEF MYInv

LEMMA MYNext == ASSUME MYInv, MY!Next, UNCHANGED <<kind, br>> PROVE MYInv'
<1>1. CASE MY!ClientSends \/ MY!ClientCloses
  BY <1>1, MYClientMoves
<1>2. CASE MY!UpstreamAnswers \/ MY!UpstreamSendsAnything \/ MY!UpstreamCloses
  BY <1>2, MYUpstreamMoves
<1>3. CASE MY!Handler \/ MY!Relay
  <2>1. HandlerStep
    BY <1>3, MYHandlerStep
  <2>2. CASE MY!Dial \/ MY!ReadHandshake
    BY <2>1, <2>2, MYDials, MYReadsHandshake
  <2>3. CASE MY!ReadResponse \/ MY!ReadResult
    BY <2>1, <2>3, MYReadsResponse, MYReadsResult
  <2>4. CASE MY!Relay
    BY <2>1, <2>4, MYPassesUp, MYPassesDown DEF MY!Relay
  <2>5. CASE MY!ClientLeft \/ MY!UpstreamLeft
    BY <2>1, <2>5, MYCloses
    DEF MY!ClientLeft, MY!UpstreamLeft, MY!ClientGone, MY!UpstreamGone, MY!Close, MY!TellNobody,
        MY!ReadsNobody
  <2>6. QED
    BY <1>3, <2>2, <2>3, <2>4, <2>5 DEF MY!Handler
<1>4. QED
  BY <1>1, <1>2, <1>3 DEF MY!Next

LEMMA MYStutter == ASSUME MYInv, UNCHANGED vars PROVE MYInv'
<1>1. MYTypes /\ MYTypes' /\ MYHonest'
  BY DEF MYInv, MYTypes, MYHonest, Streams, vars
<1>2. /\ UNCHANGED <<pc, cfg, cRead, toClient, uRead, toUpstream>>
      /\ cSent' = cSent /\ uSent' = uSent
  BY DEF vars
<1>3. QED
  BY <1>1, <1>2, MYNumbers, MYPeersKeep

-----------------------------------------------------------------------------
(* What the invariant means *)

LEMMA MYTripleIs ==
    ASSUME NEW a, NEW b, NEW c PROVE <<a, b, c>>[1] = a /\ <<a, b, c>>[2] = b
  OBVIOUS

LEMMA MYMaskedIs ==
    ASSUME NEW p
    PROVE  /\ MY!Masked(p) = MY!Handshake(MY!Number(p), FALSE)
           /\ MY!Number(MY!Masked(p)) = MY!Number(p) /\ MY!Masked(p)[1] = "handshake"
  BY MYTripleIs, Zenon DEF MY!Masked, MY!Handshake, MY!Number

LEMMA MYNumbersMean ==
    ASSUME MYInv
    PROVE  \A p \in MY!Range(toClient) \cup MY!Range(toUpstream) :
               MY!Number(p) \in 0..(MY!Byte - 1)
<1>1. MYTypes /\ cRead \in Nat /\ cRead <= Len(cSent) /\ uRead \in Nat /\ uRead <= Len(uSent)
      /\ Len(uSent) \in Nat /\ Len(cSent) \in Nat /\ Len(toClient) <= uRead
      /\ Len(toClient) \in Nat /\ Len(toUpstream) \in Nat
  BY MYNumbers DEF MYInv, MYPlace
<1>2. \A j \in 1..Len(cSent) : MY!Number(cSent[j]) \in 0..(MY!Byte - 1)
  BY <1>1, MYSentIs, MYClientMsgIs
<1>3. \A j \in 1..Len(uSent) : MY!Number(uSent[j]) \in 0..(MY!Byte - 1)
  BY <1>1 DEF MYTypes, MYPacket
<1>4. ASSUME NEW k \in 1..Len(toClient) PROVE MY!Number(toClient[k]) \in 0..(MY!Byte - 1)
  <2>1. CASE k = 1
    <3>1. MY!Number(toClient[1]) = MY!Number(uSent[1])
      <4>1. toClient[1] = MY!Masked(uSent[1])
        BY <1>1, <1>4 DEF MYInv, MYClient
      <4>2. QED
        BY <4>1, MYMaskedIs
    <3>2. 1 \in 1..Len(uSent)
      BY <1>1, <1>4
    <3>3. QED
      BY <1>3, <2>1, <3>1, <3>2
  <2>2. CASE k > 1
    <3>1. MYSecond /\ cRead > 0 /\ k \in 2..Len(toClient) /\ k \in 1..Len(uSent)
      BY <1>1, <1>4, <2>2 DEF MYInv, MYClient
    <3>2. CASE toClient[k] = uSent[k]
      BY <1>3, <3>1, <3>2
    <3>3. CASE toClient[k] = MYOwnErr(cSent[1])
      <4>1. PICK n \in Nat : n = MY!Number(cSent[1])
        <5>1. 1 \in 1..Len(cSent)
          BY <1>1, <3>1
        <5>2. QED
          BY <1>2, <5>1 DEF MY!Byte
      <4>2. MY!Number(MYOwnErr(cSent[1])) = (n + 1) % MY!Byte
        BY <4>1 DEF MYOwnErr, MY!OwnErr, MY!Number
      <4>3. (n + 1) % MY!Byte \in 0..(MY!Byte - 1)
        BY DEF MY!Byte
      <4>4. QED
        BY <3>3, <4>2, <4>3
    <3>4. QED
      BY <3>1, <3>2, <3>3 DEF MYSecond
  <2>3. QED
    BY <1>1, <1>4, <2>1, <2>2
<1>5. ASSUME NEW k \in 1..Len(toUpstream) PROVE MY!Number(toUpstream[k]) \in 0..(MY!Byte - 1)
  <2>1. Len(toUpstream) = cRead /\ toUpstream[1] = MYOpening
        /\ \A j \in 2..cRead : toUpstream[j] = cSent[j]
    BY <1>1, <1>5 DEF MYInv, MYUpstream
  <2>2. CASE k = 1
    <3>1. MY!Number(MYOpening) = 1
      BY DEF MYOpening, MY!OurResponse, MY!Number
    <3>2. QED
      BY <2>1, <2>2, <3>1 DEF MY!Byte
  <2>3. CASE k \in 2..cRead
    BY <1>1, <1>2, <2>1, <2>3
  <2>4. QED
    BY <1>1, <1>5, <2>1, <2>2, <2>3
<1>6. Sequence(toClient) /\ Sequence(toUpstream)
  BY <1>1 DEF MYTypes, Streams
<1>7. /\ \A p \in Range(toClient) : \E k \in 1..Len(toClient) : toClient[k] = p
      /\ \A p \in Range(toUpstream) : \E k \in 1..Len(toUpstream) : toUpstream[k] = p
  BY <1>6, RangeIs
<1>8. QED
  BY <1>4, <1>5, <1>7 DEF MY!Range, Range

LEMMA MYTypeMeans == ASSUME MYInv PROVE MY!TypeOK
<1>1. MYTypes
  BY DEF MYInv
<1>2. MY!IsPrefix(cSent, script)
  BY <1>1, PrefixIs DEF MY!IsPrefix, MYTypes, Streams
<1>3. MY!TypeInvariant({"dial", "closed"} \cup MY!Connected, {"greeting", "login", "session"})
  BY <1>1, <1>2 DEF MY!TypeInvariant, MYTypes, MYStates, Streams
<1>4. QED
  BY <1>3, MYNumbersMean DEF MY!TypeOK

LEMMA MYClientMeans == ASSUME MYInv PROVE MY!ClientSeesOnlySession
<1>1. Len(toClient) \in Nat
  BY MYNumbers DEF MYInv
<1>2. ASSUME NEW k \in 1..Len(toClient)
      PROVE  \/ k = 1 /\ toClient[1] = MY!Handshake(MY!Number(uSent[1]), FALSE)
             \/ k = 2 /\ ~MY!LetsIn /\ Len(toClient) = 2
                      /\ IF uSent[2][1] = "err" THEN toClient[2] = uSent[2]
                                                ELSE toClient[2][1] = "ownErr"
             \/ k > 1 /\ MY!LetsIn /\ toClient[k] = uSent[k]
  <2>1. CASE k = 1
    <3>1. toClient[1] = MY!Masked(uSent[1])
      BY <1>1, <1>2 DEF MYInv, MYClient
    <3>2. QED
      BY <2>1, <3>1, MYMaskedIs
  <2>2. CASE k > 1
    <3>1. MYSecond /\ k \in 2..Len(toClient)
      BY <1>1, <1>2, <2>2 DEF MYInv, MYClient
    <3>2. CASE MY!LetsIn /\ \A j \in 2..Len(toClient) : toClient[j] = uSent[j]
      BY <2>2, <3>1, <3>2
    <3>3. CASE ~MY!LetsIn /\ Len(toClient) = 2 /\ uSent[2][1] = "err" /\ toClient[2] = uSent[2]
      BY <3>1, <3>3
    <3>4. CASE /\ ~MY!LetsIn /\ Len(toClient) = 2 /\ uSent[2][1] # "err"
               /\ toClient[2] = MYOwnErr(cSent[1])
      <4>1. toClient[2][1] = "ownErr"
        BY <3>4 DEF MYOwnErr, MY!OwnErr
      <4>2. QED
        BY <3>1, <3>4, <4>1
    <3>5. QED
      BY <3>1, <3>2, <3>3, <3>4 DEF MYSecond
  <2>3. k = 1 \/ k > 1
    BY <1>1, <1>2
  <2>4. QED
    BY <2>1, <2>2, <2>3
<1>3. QED
  BY <1>2 DEF MY!ClientSeesOnlySession

LEMMA MYUpstreamMeans == ASSUME MYInv PROVE MY!UpstreamSeesConfig
<1> SUFFICES ASSUME toUpstream # <<>> PROVE MY!UpstreamSeesConfig
  BY Zenon DEF MY!UpstreamSeesConfig
<1>1. /\ Sequence(toUpstream) /\ Sequence(cSent) /\ Len(toUpstream) \in Nat /\ cRead \in Nat
      /\ Len(cSent) \in Nat /\ cRead <= Len(cSent)
  BY MYNumbers DEF MYInv
<1>2. Len(toUpstream) > 0
  BY <1>1, EmptyIs
<1>3. /\ Len(toUpstream) = cRead /\ toUpstream[1] = MYOpening
      /\ \A k \in 2..cRead : toUpstream[k] = cSent[k]
      /\ cRead > 1 => uRead > 1 /\ MY!LetsIn
  BY <1>2 DEF MYInv, MYUpstream
<1>4. MYOpening[1] = "ourResponse" /\ MY!Content(MYOpening) = MY!ChosenDb(cSent[1])
  BY DEF MYOpening, MY!OurResponse, MY!Content
<1>5. /\ cfg # "" => MY!ChosenDb(cSent[1]) = cfg
      /\ cfg = "" /\ MY!Content(cSent[1])[3] =>
             MY!ChosenDb(cSent[1]) = MY!Content(cSent[1])[1]
  BY Zenon DEF MY!ChosenDb, MY!Requested
<1>6. Tail(toUpstream) = SubSeq(cSent, 2, cRead)
  <2> DEFINE s == Tail(toUpstream)
             t == SubSeq(cSent, 2, cRead)
  <2>1. Sequence(s) /\ Len(s) = cRead - 1 /\ \A i \in 1..(cRead - 1) : s[i] = toUpstream[i + 1]
    BY <1>1, <1>3, TailIs
  <2>2. Sequence(t) /\ Len(t) = cRead - 1 /\ \A i \in 1..(cRead - 1) : t[i] = cSent[i + 1]
    <3>1. 2 \in Nat /\ 1 <= 2 /\ 2 <= cRead + 1 /\ cRead - 2 + 1 = cRead - 1
          /\ \A i \in 1..(cRead - 1) : 2 + i - 1 = i + 1
      BY <1>1, <1>2, <1>3
    <3>2. Sequence(t) /\ Len(t) = cRead - 2 + 1
          /\ \A i \in 1..(cRead - 2 + 1) : t[i] = cSent[2 + i - 1]
      BY <1>1, <3>1, SubSeqIs
    <3> HIDE DEF t
    <3>3. QED
      BY <3>1, <3>2
  <2> HIDE DEF s, t
  <2>3. \A i \in 1..(cRead - 1) : s[i] = t[i]
    <3>1. \A i \in 1..(cRead - 1) : i + 1 \in 2..cRead
      BY <1>1
    <3>2. QED
      BY <1>3, <2>1, <2>2, <3>1
  <2>4. s = t
    BY <2>1, <2>2, <2>3, SameSequence
  <2>5. QED
    BY <2>4 DEF s, t
<1>7. toUpstream[1][1] = "ourResponse" /\ MY!Content(toUpstream[1]) = MY!ChosenDb(cSent[1])
  BY <1>3, <1>4
<1>8. /\ cfg # "" => MY!Content(toUpstream[1]) = cfg
      /\ cfg = "" /\ MY!Content(cSent[1])[3] =>
             MY!Content(toUpstream[1]) = MY!Content(cSent[1])[1]
  BY <1>5, <1>7, Zenon
<1>9. QED
  BY <1>3, <1>6, <1>7, <1>8, Zenon DEF MY!UpstreamSeesConfig

LEMMA MYInStepMeans == ASSUME MYInv PROVE MY!NumbersInStep
<1>1. MYTypes /\ Len(toClient) \in Nat /\ Len(uSent) \in Nat /\ uRead <= Len(uSent)
      /\ uRead \in Nat /\ Len(toClient) <= uRead /\ Len(cSent) \in Nat /\ cRead \in Nat
      /\ cRead <= Len(cSent)
  BY MYNumbers DEF MYInv, MYPlace
<1>2. ASSUME mode # "free", Len(toClient) > 1,
             MY!Number(cSent[1]) = MY!Number(toClient[1]) + 1
      PROVE  MY!Number(toClient[2]) = MY!Number(cSent[1]) + 1
  <2>1. MY!Number(uSent[1]) = 0 /\ MY!Number(uSent[2]) = 2
    BY <1>1, <1>2 DEF MYInv, MYHonest
  <2>2. MY!Number(toClient[1]) = 0 /\ MYSecond
    <3>1. toClient[1] = MY!Masked(uSent[1]) /\ MYSecond
      BY <1>1, <1>2 DEF MYInv, MYClient
    <3>2. QED
      BY <2>1, <3>1, MYMaskedIs
  <2>3. MY!Number(cSent[1]) = 1
    BY <1>2, <2>2
  <2>4. MY!Number(MYOwnErr(cSent[1])) = 2
    <3>1. MY!Number(MYOwnErr(cSent[1])) = (MY!Number(cSent[1]) + 1) % MY!Byte
      BY DEF MYOwnErr, MY!OwnErr, MY!Number
    <3>2. (1 + 1) % MY!Byte = 2
      BY DEF MY!Byte
    <3>3. QED
      BY <2>3, <3>1, <3>2
  <2>5. toClient[2] = uSent[2] \/ toClient[2] = MYOwnErr(cSent[1])
    BY <1>1, <1>2, <2>2 DEF MYSecond
  <2>6. QED
    BY <2>1, <2>3, <2>4, <2>5
<1>3. ASSUME NEW k \in 1..Len(toClient), toClient[k][1] = "ownErr"
      PROVE  toClient[k] = MY!OwnErr((MY!Number(cSent[1]) + 1) % 256, MY!Content(cSent[1])[2])
  <2>1. k # 1
    <3>1. MY!Masked(uSent[1])[1] # "ownErr"
      BY MYMaskedIs
    <3>2. Len(toClient) > 0 /\ toClient[1] = MY!Masked(uSent[1])
      BY <1>1, <1>3 DEF MYInv, MYClient
    <3>3. QED
      BY <1>3, <3>1, <3>2
  <2>2. MYSecond /\ k \in 2..Len(toClient) /\ k \in 1..Len(uSent)
    BY <1>1, <1>3, <2>1 DEF MYInv, MYClient
  <2>3. toClient[k] # uSent[k]
    <3>1. uSent[k][1] # "ownErr"
      BY <1>1, <2>2 DEF MYTypes, MYPacket
    <3>2. QED
      BY <1>3, <3>1
  <2>4. toClient[k] = MYOwnErr(cSent[1])
    BY <2>2, <2>3 DEF MYSecond
  <2>5. QED
    BY <2>4 DEF MYOwnErr, MY!Byte
<1>4. QED
  BY <1>2, <1>3 DEF MY!NumbersInStep

LEMMA MYMeans ==
    ASSUME MYInv
    PROVE  /\ MY!TypeOK /\ MY!ClientSeesOnlySession /\ MY!UpstreamSeesConfig
           /\ MY!NumbersInStep
  BY MYTypeMeans, MYClientMeans, MYUpstreamMeans, MYInStepMeans

-----------------------------------------------------------------------------
(* The steps as CredentialSession sees them *)

\* What the upstream has answered is never taken back.
LEMMA MYVerdictGrows ==
    ASSUME MYInv, Grows(uSent, uSent')
    PROVE  \/ MY!Verdict' = MY!Verdict
           \/ MY!Verdict = "pending" /\ MY!Verdict' \in {"accepted", "refused", "other"}
<1>1. Len(uSent) \in Nat /\ Len(uSent') \in Nat
  BY MYNumbers, LenIs DEF MYInv, Grows
<1>2. CASE Len(uSent) < 2
  BY <1>1, <1>2 DEF MY!Verdict
<1>3. CASE Len(uSent) > 1
  <2>1. Len(uSent') > 1 /\ uSent'[2] = uSent[2]
    BY <1>1, <1>3 DEF Grows
  <2>2. QED
    BY <1>1, <1>3, <2>1 DEF MY!Verdict
<1>4. QED
  BY <1>1, <1>2, <1>3

LEMMA MYRefines ==
    ASSUME MYInv, MY!Next, UNCHANGED <<kind, br>>
    PROVE  MayGo(MY!Phase, MY!Phase', MY!Verdict, MY!Verdict', MY!Passed, MY!Passed')
<1>1. /\ MYTypes /\ Sequence(toUpstream) /\ Len(toUpstream) \in Nat /\ Len(uSent) \in Nat
      /\ uRead \in Nat /\ Sequence(uSent) /\ Sequence(cSent)
  BY MYNumbers DEF MYInv
<1>2. ASSUME UNCHANGED <<pc, toUpstream>>, Grows(uSent, uSent')
      PROVE  MayGo(MY!Phase, MY!Phase', MY!Verdict, MY!Verdict', MY!Passed, MY!Passed')
  BY <1>2, MYVerdictGrows DEF MayGo, MY!Phase, MY!Passed
<1>3. CASE MY!ClientSends \/ MY!ClientCloses
  BY <1>1, <1>2, <1>3, LenIs DEF MY!ClientSends, MY!ClientCloses, MY!handlerVars, MY!serverVars, Grows
<1>4. CASE MY!UpstreamAnswers \/ MY!UpstreamSendsAnything \/ MY!UpstreamCloses
  BY <1>2, <1>4, MYUpstreamSteps DEF UpstreamStep
<1>5. CASE MY!Handler \/ MY!Relay
  <2>1. HandlerStep
    BY <1>5, MYHandlerStep
  <2>2. uSent' = uSent /\ MY!Verdict' = MY!Verdict
    BY <2>1 DEF HandlerStep, MY!Verdict
  <2>3. ASSUME pc \in {"dial", "handshake", "response", "result"}, UNCHANGED toUpstream,
               pc' \in {"dial", "handshake", "response", "result", "closed"}
        PROVE  MayGo(MY!Phase, MY!Phase', MY!Verdict, MY!Verdict', MY!Passed, MY!Passed')
    BY <2>2, <2>3 DEF MayGo, MY!Phase, MY!Passed
  <2>4. CASE MY!Dial
    BY <2>3, <2>4 DEF MY!Dial, MY!Goto, MY!Close, MY!TellNobody
  <2>5. CASE MY!ReadHandshake
    BY <2>3, <2>5 DEF MY!ReadHandshake, MY!Goto, MY!Close, MY!TellClient, MY!TellNobody
  <2>6. CASE MY!ReadResponse
    <3>1. CASE UNCHANGED toUpstream
      BY <2>3, <2>6, <3>1 DEF MY!ReadResponse, MY!Goto, MY!Close
    <3>2. ASSUME NEW m, toUpstream' = Append(toUpstream, m), pc' = "result"
          PROVE  MayGo(MY!Phase, MY!Phase', MY!Verdict, MY!Verdict', MY!Passed, MY!Passed')
      <4>1. pc = "response" /\ Len(toUpstream) = 0
        BY <2>6 DEF MY!ReadResponse, MYInv, MYPlace
      <4>2. Len(toUpstream') = 1
        BY <1>1, <3>2, <4>1, AppendIs
      <4>3. MY!Passed = 0 /\ MY!Passed' = 0
        BY <1>1, <4>1, <4>2, EmptyIs DEF MY!Passed
      <4>4. QED
        BY <2>2, <3>2, <4>1, <4>3 DEF MayGo, MY!Phase
    <3>3. QED
      BY <2>6, <3>1, <3>2 DEF MY!ReadResponse, MY!Goto, MY!TellNobody, MY!TellUpstream
  <2>7. CASE MY!ReadResult
    <3>1. pc = "result" /\ UNCHANGED toUpstream
      BY <2>7 DEF MY!ReadResult, MY!TellClient
    <3>2. CASE pc' = "closed"
      BY <2>3, <3>1, <3>2
    <3>3. CASE pc' = "relay"
      <4>1. uRead = 1 /\ 1 < Len(uSent) /\ uSent[2][1] \notin {"switch", "err"}
        <5>1. uRead < Len(uSent) /\ ~MY!IsSwitch(uSent[uRead + 1]) /\ ~MY!IsErr(uSent[uRead + 1])
          BY <2>7, <3>3 DEF MY!ReadResult, MY!ReadsUpstream, MY!FromUpstream, MY!Close
        <5>2. uRead = 1
          BY <3>1 DEF MYInv, MYPlace
        <5>3. QED
          BY <5>1, <5>2 DEF MY!IsSwitch, MY!IsErr
      <4>2. MY!Verdict \in {"accepted", "other"}
        BY <1>1, <4>1 DEF MY!Verdict
      <4>3. MY!Passed' = MY!Passed
        BY <3>1 DEF MY!Passed
      <4>4. QED
        BY <2>2, <3>1, <3>3, <4>2, <4>3 DEF MayGo, MY!Phase
    <3>4. QED
      BY <2>7, <3>2, <3>3 DEF MY!ReadResult, MY!Goto, MY!Close
  <2>8. CASE MY!ClientLeft \/ MY!UpstreamLeft
    <3>1. pc # "closed" /\ pc' = "closed" /\ UNCHANGED toUpstream
      BY <2>8 DEF MY!ClientLeft, MY!UpstreamLeft, MY!ClientGone, MY!UpstreamGone, MY!Close,
                  MY!TellNobody
    <3>2. QED
      BY <2>2, <3>1 DEF MayGo, MY!Phase, MY!Passed
  <2>9. CASE MY!RelayToUpstream
    <3>1. PICK m : toUpstream' = Append(toUpstream, m)
      BY <2>9 DEF MY!RelayToUpstream, MY!PassUp, MY!TellUpstream
    <3>2. pc = "relay" /\ pc' = pc /\ Len(toUpstream) > 0
      BY <2>9 DEF MY!RelayToUpstream, MY!PassUp, MY!Stay, MYInv, MYPlace
    <3>3. Len(toUpstream') = Len(toUpstream) + 1 /\ Sequence(toUpstream')
      BY <1>1, <3>1, AppendIs
    <3>4. MY!Passed' = MY!Passed + 1
      <4>1. toUpstream # <<>> /\ toUpstream' # <<>>
        BY <1>1, <3>2, <3>3, EmptyIs
      <4>2. QED
        BY <1>1, <3>3, <4>1 DEF MY!Passed
    <3>5. QED
      BY <2>2, <3>2, <3>4 DEF MayGo, MY!Phase
  <2>10. CASE MY!RelayToClient
    BY <1>1, <1>2, <2>2, <2>10, LenIs
    DEF MY!RelayToClient, MY!PassDown, MY!TellClient, MY!Stay, Grows
  <2>11. QED
    BY <1>5, <2>4, <2>5, <2>6, <2>7, <2>8, <2>9, <2>10 DEF MY!Handler, MY!Relay
<1>6. QED
  BY <1>3, <1>4, <1>5 DEF MY!Next

-----------------------------------------------------------------------------
(* The theorem *)

MySQLInv == kind = "mysql" => MYInv

LEMMA AlwaysMySQL == Spec => []MySQLInv
<1>1. Init => MySQLInv
  BY MYInit DEF MySQLInv
<1>2. MySQLInv /\ [Next]_vars => MySQLInv'
  <2> SUFFICES ASSUME MySQLInv, [Next]_vars PROVE MySQLInv'
    OBVIOUS
  <2>1. kind' = kind
    BY DEF Next, Rest, RestRedis, vars
  <2>2. CASE Next /\ kind = "mysql"
    <3>1. MY!Next /\ UNCHANGED <<kind, br>>
      BY <2>2 DEF Next, Rest
    <3>2. QED
      BY <2>1, <2>2, <3>1, MYNext DEF MySQLInv
  <2>3. CASE UNCHANGED vars
    BY <2>1, <2>3, MYStutter DEF MySQLInv
  <2>4. QED
    BY <2>1, <2>2, <2>3 DEF MySQLInv
<1>3. QED
  BY <1>1, <1>2, PTL DEF Spec

\* A MySQL client whose response follows the handshake gets a result that follows
\* its response, and the gateway's own error follows the client's packet, whatever
\* number that has (handle in mysql.go).
THEOREM AlwaysNumbersInStep == Spec => []NumbersInStep
<1>1. MySQLInv => NumbersInStep
  BY MYMeans DEF MySQLInv, NumbersInStep
<1>2. QED
  BY <1>1, AlwaysMySQL, PTL
=============================================================================
