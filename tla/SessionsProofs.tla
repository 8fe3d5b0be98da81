---------------------------- MODULE SessionsProofs ----------------------------
(***************************************************************************)
(* Proofs about Sessions as a whole: first the Oracle connections, then    *)
(* what all services promise, put together from their invariants.          *)
(***************************************************************************)
EXTENDS PostgresSessionProofs, MySQLSessionProofs, WellFoundedInduction

-----------------------------------------------------------------------------
(* The invariant of the Oracle connections *)

ORStates == {"connect", "dial", "closed"} \cup OR!Connected

ORTypes ==
    /\ kind = "oracle" /\ Streams /\ pc \in ORStates
    /\ srv \in {"listener", "again", "ns", "login", "proof", "session"}
    /\ \A i \in 1..Len(script) : script[i] \in OR!ClientMsgs

\* The upstream has accepted or refused with its s-th message.
ORSettles(m) == m \in {OR!Accept, OR!Refuse}
ORSettledAt(s) ==
    /\ s \in 1..uRead /\ ORSettles(uSent[s])
    /\ \A j \in 1..(s - 1) : ~ORSettles(uSent[j])

\* Up to then the upstream gets nothing but CONNECTs, one for each RESEND.
OREarly ==
    /\ pc \in {"connect", "dial"} => Len(toClient) = 0 /\ Len(toUpstream) = 0 /\ uRead = 0
    /\ pc = "connect" => cRead = 0
    /\ pc \in {"dial", "accept"} => cRead = 1
    /\ pc = "accept" =>
           /\ Len(toClient) = 0
           /\ Len(toUpstream) = 1 + PG!Count(uSent, uRead, OR!Resend)
           /\ \A j \in 1..uRead : ~ORSettles(uSent[j])
    /\ Len(toClient) = 0 => \A k \in 1..Len(toUpstream) : toUpstream[k] = OR!OurConnect(cfg)

\* The client's k-th message, and the upstream's k-th behind the c CONNECTs.
ORSeen(s, k) ==
    CASE k = 3 -> OR!FakeKey
      [] k = 4 -> OR!OwnOK
      [] OTHER -> uSent[s + k - 1]
ORDue(s, k) ==
    CASE k = 1 -> cSent[2]
      [] k = 2 -> OR!OurO3Log
      [] k = 3 -> OR!OurO3Auth(OR!SaltAt(uSent[s + 2]))
      [] OTHER -> cSent[k + 1]

ORStreams(s, c) ==
    /\ ORSettledAt(s) /\ c \in 0..Len(toUpstream)
    /\ Len(toClient) <= uRead - s + 1
    /\ \A k \in 1..Len(toClient) : toClient[k] = ORSeen(s, k)
    /\ \A k \in 1..c : toUpstream[k] = OR!OurConnect(cfg)
    /\ Len(toUpstream) > c => Len(toUpstream) - c < cRead
    /\ Len(toUpstream) - c > 2 => uRead > s + 1
    /\ Len(toUpstream) - c > 3 =>
           uRead > s + 2 /\ uSent[s] = OR!Accept /\ uSent[s + 3] = OR!AuthOK
    /\ \A k \in 1..(Len(toUpstream) - c) : toUpstream[c + k] = ORDue(s, k)

\* How far the handler is in the four streams.
ORAt(u, k, b, r) == uRead = u /\ Len(toClient) = k /\ Len(toUpstream) = b /\ cRead = r
ORPlace(s, c) ==
    /\ pc = "nsUp"      => ORAt(s, 1, c, 1)
    /\ pc = "nsDown"    => ORAt(s + 1, 2, c, 1)
    /\ pc = "login"     => ORAt(s + 1, 2, c + 1, 2)
    /\ pc = "challenge" => ORAt(s + 1, 2, c + 2, 3)
    /\ pc = "proof"     => ORAt(s + 2, 3, c + 2, 3)
    /\ pc = "verdict"   => ORAt(s + 2, 3, c + 3, 4)
    /\ pc = "relay"     => /\ ORAt(s + Len(toClient) - 1, Len(toClient), c + cRead - 1, cRead)
                           /\ cRead > 3 /\ Len(toClient) > 3 /\ uSent[s + 3] = OR!AuthOK
    /\ pc # "closed"    => uSent[s] = OR!Accept

ORLogin ==
    /\ pc \in OR!Connected \ {"accept"} => Len(toClient) > 0
    /\ Len(toClient) > 0 =>
           \E s \in 1..uRead, c \in 0..Len(toUpstream) : ORStreams(s, c) /\ ORPlace(s, c)

ORInv == ORTypes /\ OREarly /\ ORLogin

-----------------------------------------------------------------------------
(* What the steps leave alone *)

\* The numbers of the invariant are numbers.
LEMMA ORNumbers ==
    ASSUME ORTypes
    PROVE  /\ Len(cSent) \in Nat /\ Len(script) \in Nat /\ Len(uSent) \in Nat
           /\ Len(toClient) \in Nat /\ Len(toUpstream) \in Nat
           /\ cRead \in Nat /\ cRead <= Len(cSent) /\ uRead \in Nat /\ uRead <= Len(uSent)
           /\ Sequence(uSent) /\ Sequence(cSent) /\ Sequence(toClient) /\ Sequence(toUpstream)
<1>1. /\ Len(cSent) \in Nat /\ Len(script) \in Nat /\ Len(uSent) \in Nat
      /\ Len(toClient) \in Nat /\ Len(toUpstream) \in Nat
  BY LenIs DEF ORTypes, Streams
<1>2. QED
  BY <1>1 DEF ORTypes, Streams

LEMMA ORTypesKept ==
    ASSUME ORTypes, Streams', UNCHANGED <<kind, script>>, pc' \in ORStates,
           srv' \in {"listener", "again", "ns", "login", "proof", "session"}
    PROVE  ORTypes'
  BY DEF ORTypes

LEMMA ORTypesStep ==
    ASSUME ORTypes, HandlerStep, pc' \in ORStates PROVE ORTypes'
  BY HandlerStepKeeps, ORTypesKept DEF HandlerStep, ORTypes

\* A step reads on, and changes nothing of what was read.
ORReadsOn ==
    /\ cRead' \in Nat /\ cRead <= cRead' /\ uRead' \in Nat /\ uRead <= uRead'
    /\ \A j \in 1..cRead : cSent'[j] = cSent[j]
    /\ \A j \in 1..uRead : uSent'[j] = uSent[j]

LEMMA ORReadsOnIs ==
    ASSUME ORTypes, ORReadsOn
    PROVE  /\ cRead \in Nat /\ uRead \in Nat
           /\ cRead' \in Nat /\ cRead <= cRead' /\ uRead' \in Nat /\ uRead <= uRead'
           /\ \A j \in 1..cRead : cSent'[j] = cSent[j]
           /\ \A j \in 1..uRead : uSent'[j] = uSent[j]
  BY ORNumbers DEF ORReadsOn

\* The position from which the client sees the upstream is settled.
LEMMA ORSettledKept ==
    ASSUME ORTypes, NEW s, ORSettledAt(s), ORReadsOn
    PROVE  ORSettledAt(s)'
<1>1. uRead \in Nat /\ s \in 1..uRead /\ ORSettles(uSent[s])
      /\ \A j \in 1..(s - 1) : ~ORSettles(uSent[j])
  BY ORNumbers DEF ORSettledAt
<1>2. s \in 1..uRead' /\ uSent'[s] = uSent[s]
  BY <1>1, ORReadsOnIs
<1>3. \A j \in 1..(s - 1) : uSent'[j] = uSent[j]
  BY <1>1, ORReadsOnIs
<1>4. QED
  BY <1>1, <1>2, <1>3 DEF ORSettledAt, ORSettles

LEMMA ORSeenKept ==
    ASSUME ORTypes, NEW s, s \in 1..uRead, NEW k \in 1..(uRead - s + 1),
           ORReadsOn
    PROVE  ORSeen(s, k)' = ORSeen(s, k)
<1>1. s + k - 1 \in 1..uRead
  <2>1. uRead \in Nat
    BY ORNumbers
  <2>2. QED
    BY <2>1
<1>2. uSent'[s + k - 1] = uSent[s + k - 1]
  BY <1>1, ORReadsOnIs
<1>3. QED
  BY <1>2, Zenon DEF ORSeen

LEMMA ORDueKept ==
    ASSUME ORTypes, NEW s, s \in 1..uRead, NEW k, k \in Nat, 0 < k, k < cRead,
           k > 2 => uRead > s + 1, ORReadsOn
    PROVE  ORDue(s, k)' = ORDue(s, k)
<1>1. cRead \in Nat /\ uRead \in Nat
  BY ORNumbers
<1>2. cSent'[2] = cSent[2] /\ cSent'[k + 1] = cSent[k + 1]
  <2>1. 2 \in 1..cRead /\ k + 1 \in 1..cRead
    BY <1>1
  <2>2. QED
    BY <2>1, ORReadsOnIs
<1>3. k > 2 => uSent'[s + 2] = uSent[s + 2]
  <2>1. k > 2 => s + 2 \in 1..uRead
    BY <1>1
  <2>2. QED
    BY <2>1, ORReadsOnIs
<1>4. CASE k = 1
  BY <1>2, <1>4 DEF ORDue
<1>5. CASE k = 2
  BY <1>5 DEF ORDue
<1>6. CASE k = 3
  <2>1. uSent'[s + 2] = uSent[s + 2]
    BY <1>3, <1>6
  <2>2. OR!SaltAt(uSent[s + 2])' = OR!SaltAt(uSent[s + 2])
    BY <2>1
  <2>3. QED
    BY <1>6, <2>2 DEF ORDue
<1>7. CASE k > 3
  BY <1>2, <1>7 DEF ORDue
<1>8. QED
  BY <1>4, <1>5, <1>6, <1>7

\* What was written stays what it has to be.
LEMMA ORStreamsKept ==
    ASSUME ORTypes, NEW s, NEW c, ORStreams(s, c), UNCHANGED <<cfg, toClient, toUpstream>>,
           ORReadsOn
    PROVE  ORStreams(s, c)'
<1>0. /\ Len(toClient) \in Nat /\ Len(toUpstream) \in Nat /\ cRead \in Nat /\ uRead \in Nat
      /\ s \in 1..uRead /\ c \in 0..Len(toUpstream)
  BY ORNumbers DEF ORStreams, ORSettledAt
<1> PICK d \in Nat : d = Len(toUpstream) - c /\ (d > 0 <=> Len(toUpstream) > c)
  BY <1>0
<1>1. /\ Len(toClient) <= uRead - s + 1 /\ (d > 0 => d < cRead)
      /\ (d > 2 => uRead > s + 1) /\ (d > 3 => uRead > s + 2)
  <2>1. /\ Len(toClient) <= uRead - s + 1
        /\ Len(toUpstream) > c => Len(toUpstream) - c < cRead
        /\ Len(toUpstream) - c > 2 => uRead > s + 1
        /\ Len(toUpstream) - c > 3 => uRead > s + 2
    BY DEF ORStreams
  <2>2. QED
    BY <2>1
<1>2. ORSettledAt(s)'
  BY ORSettledKept DEF ORStreams
<1>3. \A k \in 1..Len(toClient) : toClient[k] = ORSeen(s, k)'
  <2>1. ASSUME NEW k \in 1..Len(toClient) PROVE toClient[k] = ORSeen(s, k)'
    <3>1. k \in 1..(uRead - s + 1)
      BY <1>0, <1>1
    <3>2. ORSeen(s, k)' = ORSeen(s, k)
      BY <1>0, <3>1, ORSeenKept
    <3>3. QED
      BY <3>2 DEF ORStreams
  <2>2. QED
    BY <2>1
<1>4. \A k \in 1..(Len(toUpstream) - c) : toUpstream[c + k] = ORDue(s, k)'
  <2>1. ASSUME NEW k \in 1..(Len(toUpstream) - c) PROVE toUpstream[c + k] = ORDue(s, k)'
    <3>1. k \in Nat /\ 0 < k /\ k <= d /\ d > 0
      OBVIOUS
    <3>2. k < cRead /\ (k > 2 => uRead > s + 1)
      BY <1>0, <1>1, <3>1
    <3>3. ORDue(s, k)' = ORDue(s, k)
      BY <1>0, <3>1, <3>2, ORDueKept
    <3>4. QED
      BY <3>3 DEF ORStreams
  <2>2. QED
    BY <2>1
<1>5. ASSUME d > 3
      PROVE  uSent'[s] = OR!Accept /\ uSent'[s + 3] = OR!AuthOK
  <2>1. s \in 1..uRead /\ s + 3 \in 1..uRead
    BY <1>0, <1>1, <1>5
  <2>2. uSent[s] = OR!Accept /\ uSent[s + 3] = OR!AuthOK
    BY <1>5 DEF ORStreams
  <2>3. QED
    BY <2>1, <2>2, ORReadsOnIs
<1>6. /\ Len(toClient) <= uRead' - s + 1 /\ (d > 0 => d < cRead')
      /\ (d > 2 => uRead' > s + 1) /\ (d > 3 => uRead' > s + 2)
  <2>1. cRead' \in Nat /\ cRead <= cRead' /\ uRead' \in Nat /\ uRead <= uRead'
    BY ORReadsOnIs
  <2>2. s \in Nat
    BY <1>0
  <2>3. Len(toClient) <= uRead' - s + 1
    <3>1. \A n, u, v, t \in Nat : n <= u - t + 1 /\ u <= v => n <= v - t + 1
      OBVIOUS
    <3>2. Len(toClient) \in Nat /\ uRead \in Nat /\ Len(toClient) <= uRead - s + 1
      BY <1>0, <1>1
    <3>3. QED
      BY <2>1, <2>2, <3>1, <3>2
  <2>4. d > 0 => d < cRead'
    BY <1>0, <1>1, <2>1
  <2>5. (d > 2 => uRead' > s + 1) /\ (d > 3 => uRead' > s + 2)
    BY <1>0, <1>1, <2>1, <2>2
  <2>6. QED
    BY <2>3, <2>4, <2>5
<1>7. \A k \in 1..c : toUpstream[k] = OR!OurConnect(cfg)
  BY DEF ORStreams
<1>8. QED
  BY <1>0, <1>2, <1>3, <1>4, <1>5, <1>6, <1>7 DEF ORStreams

\* The peers write behind what the handler has read.
LEMMA ORPeersKeep ==
    ASSUME ORInv, ORTypes', UNCHANGED <<pc, cfg, cRead, toClient, uRead, toUpstream>>,
           \A j \in 1..cRead : cSent'[j] = cSent[j],
           \A j \in 1..uRead : uSent'[j] = uSent[j]
    PROVE  ORInv'
<1>1. ORTypes /\ cRead \in Nat /\ uRead \in Nat /\ Len(toClient) \in Nat
  BY ORNumbers DEF ORInv
<1>2. OREarly'
  <2>1. PG!Count(uSent', uRead, OR!Resend) = PG!Count(uSent, uRead, OR!Resend)
    BY <1>1, CountSame
  <2>2. pc = "accept" => \A j \in 1..uRead : ~ORSettles(uSent'[j])
    BY DEF ORInv, OREarly
  <2>3. QED
    BY <2>1, <2>2 DEF ORInv, OREarly, ORSettles
<1>3. ORLogin'
  <2>1. ASSUME NEW s \in 1..uRead, NEW c, ORStreams(s, c), ORPlace(s, c)
        PROVE  ORStreams(s, c)' /\ ORPlace(s, c)'
    <3>1. ORStreams(s, c)'
      BY <1>1, <2>1, ORStreamsKept DEF ORReadsOn
    <3>2. uSent'[s] = uSent[s]
      OBVIOUS
    <3>3. pc = "relay" => uSent'[s + 3] = uSent[s + 3]
      <4>1. pc = "relay" => uRead = s + Len(toClient) - 1 /\ Len(toClient) > 3
        BY <2>1 DEF ORPlace, ORAt
      <4>2. pc = "relay" => s + 3 \in 1..uRead
        BY <1>1, <4>1
      <4>3. QED
        BY <4>2
    <3>4. ORPlace(s, c)'
      BY <2>1, <3>2, <3>3 DEF ORPlace, ORAt
    <3>5. QED
      BY <3>1, <3>4
  <2>2. QED
    BY <2>1 DEF ORInv, ORLogin
<1>4. QED
  BY <1>2, <1>3 DEF ORInv

-----------------------------------------------------------------------------
(* The beginning, and the steps of the peers *)

LEMMA ORInit == ASSUME Init, kind = "oracle" PROVE ORInv
<1>1. OR!Init /\ br = <<>> /\ kind \in Kinds
  BY DEF Init
<1>2. Sequence(script) /\ script \in Seq(OR!ClientMsgs)
  BY <1>1, ScriptsAssumption DEF OR!Init, OR!InitAt, Sequence
<1>3. Streams
  BY <1>1, <1>2, InitStreams DEF OR!Init, OR!InitAt
<1>4. \A i \in 1..Len(script) : script[i] \in OR!ClientMsgs
  BY <1>2, ElementOfSeq
<1>5. /\ pc = "connect" /\ srv = "listener" /\ cRead = 0 /\ uRead = 0
      /\ toClient = <<>> /\ toUpstream = <<>>
  BY <1>1 DEF OR!Init, OR!InitAt
<1>6. Len(toClient) = 0 /\ Len(toUpstream) = 0
  BY <1>5, EmptyIs
<1>7. ORTypes
  BY <1>1, <1>3, <1>4, <1>5 DEF ORTypes, ORStates
<1>8. OREarly /\ ORLogin
  BY <1>5, <1>6 DEF OREarly, ORLogin, OR!Connected
<1>9. QED
  BY <1>7, <1>8 DEF ORInv

LEMMA ORClientMoves ==
    ASSUME ORInv, OR!ClientSends \/ OR!ClientCloses, UNCHANGED <<kind, br>> PROVE ORInv'
<1>1. ORTypes
  BY DEF ORInv
<1>2. ClientStep
  BY DEF ClientStep, OR!ClientSends, OR!ClientCloses, OR!handlerVars, OR!serverVars
<1>3. Streams' /\ Grows(cSent, cSent')
  BY <1>1, <1>2, ClientStepKeeps DEF ORTypes
<1>4. ORTypes'
  BY <1>1, <1>2, <1>3, ORTypesKept DEF ClientStep, ORTypes
<1>5. \A j \in 1..cRead : cSent'[j] = cSent[j]
  <2>1. \A j \in 1..cRead : j \in 1..Len(cSent)
    BY <1>1, ORNumbers
  <2>2. QED
    BY <1>3, <2>1 DEF Grows
<1>6. QED
  BY <1>2, <1>4, <1>5, ORPeersKeep DEF ClientStep

\* What the upstream does is a step of an upstream.
LEMMA ORUpstreamSteps ==
    ASSUME ORInv, OR!UpstreamAnswers \/ OR!UpstreamSendsAnything \/ OR!UpstreamCloses,
           UNCHANGED <<kind, br>>
    PROVE  UpstreamStep /\ srv' \in {"listener", "again", "ns", "login", "proof", "session"}
<1> DEFINE states == {"listener", "again", "ns", "login", "proof", "session"}
           Good == UpstreamStep /\ srv' \in states
<1>1. ORTypes
  BY DEF ORInv
<1>2. /\ Sequence(uSent) /\ Len(uSent) \in Nat /\ srvRead \in 0..Len(toUpstream)
      /\ Len(toUpstream) \in Nat /\ uEof \in BOOLEAN /\ srv \in states
  BY <1>1, ORNumbers DEF ORTypes, Streams
<1>3. ASSUME NEW s, NEW m, NEW r, NEW t \in states, Sequence(r), OR!Answer(s, m, r, t)
      PROVE  Good
  <2>1. Grows(uSent, uSent')
    BY <1>2, <1>3, ConcatGrows DEF OR!Answer
  <2>2. srvRead' \in 0..Len(toUpstream)
    BY <1>2, <1>3 DEF OR!Answer
  <2>3. QED
    BY <1>2, <1>3, <2>1, <2>2 DEF OR!Answer, UpstreamStep, OR!handlerVars, OR!clientVars
<1>4. ASSUME OR!UpstreamAnswers PROVE Good
  <2>1. /\ Sequence(OR!AnswerConnect) /\ Sequence(OR!Greeting) /\ Sequence(<<>>)
        /\ \A m : Sequence(<<m>>)
    <3>1. Sequence(<<>>) /\ \A m : Sequence(<<m>>)
      <4>1. ASSUME NEW m PROVE Sequence(<<m>>)
        BY OneIs
      <4>2. QED
        BY <4>1, EmptyIs
    <3>2. Sequence(OR!Greeting)
      <4>1. OR!Greeting \in Seq({OR!Accept, OR!NSOffer})
        BY DEF OR!Greeting
      <4>2. QED
        BY <4>1 DEF Sequence
    <3>3. QED
      BY <3>1, <3>2 DEF OR!AnswerConnect
  <2>2. ASSUME OR!Answer("listener", OR!OurConnect(cfg), OR!AnswerConnect,
                         IF mode = "resends" THEN "again" ELSE "ns")
        PROVE  Good
    <3>1. PICK t \in states : t = IF mode = "resends" THEN "again" ELSE "ns"
      OBVIOUS
    <3>2. QED
      BY <1>3, <2>1, <2>2, <3>1
  <2>3. ASSUME OR!Answer("again", OR!OurConnect(cfg), OR!Greeting, "ns") PROVE Good
    BY <1>3, <2>1, <2>3
  <2>4. ASSUME OR!Answer("ns", toUpstream[srvRead + 1], <<>>, "login") PROVE Good
    BY <1>3, <2>1, <2>4
  <2>5. ASSUME OR!Answer("login", OR!OurO3Log, <<OR!SessKey("salt")>>, "proof") PROVE Good
    BY <1>3, <2>1, <2>5
  <2>6. ASSUME OR!Answer("proof", OR!OurO3Auth("salt"),
                         IF mode = "rejects" THEN <<OR!Refuse>> ELSE <<OR!AuthOK>>, "session")
        PROVE  Good
    BY <1>3, <2>1, <2>6
  <2>7. ASSUME NEW i \in 1..Len(script),
               OR!Answer("session", OR!Query(i), <<OR!Reply(i)>>, "session")
        PROVE  Good
    BY <1>3, <2>1, <2>7
  <2>8. QED
    BY <1>4, <2>2, <2>3, <2>4, <2>5, <2>6, <2>7 DEF OR!UpstreamAnswers
<1>5. ASSUME OR!UpstreamSendsAnything PROVE Good
  <2>1. PICK m : uSent' = Append(uSent, m)
    BY <1>5 DEF OR!UpstreamSendsAnything, OR!SendsAnything
  <2>2. Grows(uSent, uSent')
    BY <1>2, <2>1, AppendGrows
  <2>3. QED
    BY <1>2, <1>5, <2>2
    DEF UpstreamStep, OR!UpstreamSendsAnything, OR!SendsAnything, OR!handlerVars, OR!clientVars
<1>6. ASSUME OR!UpstreamCloses PROVE Good
  <2>1. Grows(uSent, uSent')
    BY <1>2, <1>6 DEF OR!UpstreamCloses, OR!Closes, Grows
  <2>2. QED
    BY <1>2, <1>6, <2>1
    DEF UpstreamStep, OR!UpstreamCloses, OR!Closes, OR!handlerVars, OR!clientVars
<1>7. QED
  BY <1>4, <1>5, <1>6

LEMMA ORUpstreamMoves ==
    ASSUME ORInv, OR!UpstreamAnswers \/ OR!UpstreamSendsAnything \/ OR!UpstreamCloses,
           UNCHANGED <<kind, br>>
    PROVE  ORInv'
<1>1. ORTypes
  BY DEF ORInv
<1>2. UpstreamStep /\ srv' \in {"listener", "again", "ns", "login", "proof", "session"}
  BY ORUpstreamSteps
<1>3. ORTypes'
  BY <1>1, <1>2, UpstreamStepKeeps, ORTypesKept DEF UpstreamStep, ORTypes
<1>4. \A j \in 1..uRead : uSent'[j] = uSent[j]
  <2>1. \A j \in 1..uRead : j \in 1..Len(uSent)
    BY <1>1, ORNumbers
  <2>2. QED
    BY <1>2, <2>1 DEF UpstreamStep, Grows
<1>5. QED
  BY <1>2, <1>3, <1>4, ORPeersKeep DEF UpstreamStep

-----------------------------------------------------------------------------
(* The steps of the handler *)

LEMMA ORHandlerStep ==
    ASSUME OR!Handler \/ OR!Relay, UNCHANGED <<kind, br>> PROVE HandlerStep
<1> USE DEF HandlerStep, OR!PeersUnchanged, OR!clientVars, OR!serverVars, OR!ReadsClient,
            OR!ReadsUpstream, OR!ReadsNobody, OR!TellClient, OR!TellUpstream, OR!TellNobody
<1>1. CASE OR!ReadConnect \/ OR!Dial
  BY <1>1 DEF OR!ReadConnect, OR!Dial, OR!GiveUp
<1>2. CASE OR!ReadAccept
  BY <1>2 DEF OR!ReadAccept, OR!OnResend, OR!GiveUp
<1>3. CASE OR!NSFromUpstream
  BY <1>3 DEF OR!NSFromUpstream, OR!GiveUp
<1>4. CASE OR!NSFromClient
  BY <1>4 DEF OR!NSFromClient, OR!GiveUp
<1>5. CASE OR!ReadO3Log
  BY <1>5 DEF OR!ReadO3Log, OR!GiveUp
<1>6. CASE OR!ReadChallenge
  BY <1>6 DEF OR!ReadChallenge, OR!GiveUp
<1>7. CASE OR!DropProof
  BY <1>7 DEF OR!DropProof
<1>8. CASE OR!ReadVerdict
  BY <1>8 DEF OR!ReadVerdict, OR!GiveUp
<1>9. CASE OR!ClientLeft \/ OR!UpstreamLeft
  BY <1>9 DEF OR!ClientLeft, OR!UpstreamLeft, OR!ClientGone, OR!UpstreamGone
<1>10. CASE OR!Relay
  BY <1>10 DEF OR!Relay, OR!RelayToUpstream, OR!RelayToClient, OR!PassUp, OR!PassDown
<1>11. QED
  BY <1>1, <1>2, <1>3, <1>4, <1>5, <1>6, <1>7, <1>8, <1>9, <1>10 DEF OR!Handler

LEMMA ORStepReads ==
    ASSUME ORTypes, HandlerStep
    PROVE  ORReadsOn /\ UNCHANGED <<cfg, cSent, uSent>>
<1>1. cRead \in Nat /\ uRead \in Nat
  BY ORNumbers
<1>2. cRead' \in {cRead, cRead + 1} /\ uRead' \in {uRead, uRead + 1}
  BY DEF HandlerStep
<1>3. UNCHANGED <<cfg, cSent, uSent>>
  BY DEF HandlerStep
<1>4. cRead' \in Nat /\ cRead <= cRead' /\ uRead' \in Nat /\ uRead <= uRead'
  BY <1>1, <1>2
<1>5. QED
  BY <1>3, <1>4 DEF ORReadsOn

\* The end of a session, with or without a last message read.
LEMMA ORCloses ==
    ASSUME ORInv, HandlerStep, pc' = "closed", UNCHANGED <<toClient, toUpstream>>
    PROVE  ORInv'
<1>1. ORTypes /\ uRead \in Nat /\ ORReadsOn /\ UNCHANGED <<cfg, cSent, uSent>>
      /\ uRead' \in Nat /\ uRead <= uRead'
  BY ORNumbers, ORStepReads, ORReadsOnIs DEF ORInv
<1>2. ORTypes'
  BY <1>1, ORTypesStep DEF ORStates
<1>3. OREarly'
  BY <1>1 DEF ORInv, OREarly
<1>4. ASSUME Len(toClient) > 0
      PROVE  (\E s \in 1..uRead, c \in 0..Len(toUpstream) : ORStreams(s, c) /\ ORPlace(s, c))'
  <2>1. PICK s \in 1..uRead, c \in 0..Len(toUpstream) : ORStreams(s, c)
    BY <1>4 DEF ORInv, ORLogin
  <2>2. ORStreams(s, c)'
    BY <1>1, <2>1, ORStreamsKept
  <2>3. ORPlace(s, c)'
    BY DEF ORPlace
  <2>4. s \in 1..uRead'
    BY <1>1
  <2>5. QED
    BY <2>2, <2>3, <2>4
<1>5. ORLogin'
  BY <1>4 DEF ORLogin, OR!Connected
<1>6. QED
  BY <1>2, <1>3, <1>5 DEF ORInv

\* A message to the client for one from the upstream.
LEMMA ORGoesDown ==
    ASSUME ORTypes, HandlerStep, NEW s, NEW c, ORStreams(s, c), NEW m,
           uRead' = uRead + 1, UNCHANGED toUpstream, toClient' = Append(toClient, m),
           m = ORSeen(s, Len(toClient) + 1)
    PROVE  ORStreams(s, c)' /\ Len(toClient') = Len(toClient) + 1
<1>1. /\ Len(toClient) \in Nat /\ Len(toUpstream) \in Nat /\ cRead \in Nat /\ uRead \in Nat
      /\ s \in 1..uRead /\ c \in 0..Len(toUpstream) /\ Sequence(toClient)
      /\ Len(toClient) <= uRead - s + 1 /\ ORSettledAt(s)
  BY ORNumbers DEF ORStreams, ORSettledAt
<1>2. ORReadsOn /\ UNCHANGED <<cfg, cSent, uSent>> /\ cRead' \in Nat /\ cRead <= cRead'
  BY ORStepReads, ORReadsOnIs
<1>3. /\ Len(toClient') = Len(toClient) + 1 /\ toClient'[Len(toClient) + 1] = m
      /\ \A i \in 1..Len(toClient) : toClient'[i] = toClient[i]
  BY <1>1, AppendIs
<1>4. ORSettledAt(s)'
  BY <1>1, <1>2, ORSettledKept
<1>5. \A k : ORSeen(s, k)' = ORSeen(s, k) /\ ORDue(s, k)' = ORDue(s, k)
  <2>1. ASSUME NEW k PROVE ORSeen(s, k)' = ORSeen(s, k) /\ ORDue(s, k)' = ORDue(s, k)
    BY <1>2, Zenon DEF ORSeen, ORDue
  <2>2. QED
    BY <2>1
<1>6. \A k \in 1..Len(toClient') : toClient'[k] = ORSeen(s, k)'
  <2>1. ASSUME NEW k \in 1..Len(toClient') PROVE toClient'[k] = ORSeen(s, k)'
    <3>1. CASE k = Len(toClient) + 1
      BY <1>3, <1>5, <3>1
    <3>2. CASE k \in 1..Len(toClient)
      BY <1>3, <1>5, <3>2 DEF ORStreams
    <3>3. k = Len(toClient) + 1 \/ k \in 1..Len(toClient)
      BY <1>1, <1>3
    <3>4. QED
      BY <3>1, <3>2, <3>3
  <2>2. QED
    BY <2>1
<1>7. Len(toClient') <= uRead' - s + 1
  BY <1>1, <1>3
<1> PICK d \in Nat : d = Len(toUpstream) - c /\ (d > 0 <=> Len(toUpstream) > c)
  <2>1. Len(toUpstream) \in Nat /\ c \in 0..Len(toUpstream)
    BY <1>1
  <2>2. \A n \in Nat : \A k \in 0..n : n - k \in Nat /\ (n - k > 0 <=> n > k)
    OBVIOUS
  <2>3. QED
    BY <2>1, <2>2, Zenon
<1>8. /\ Len(toUpstream) > c => Len(toUpstream) - c < cRead'
      /\ d > 2 => uRead' > s + 1
      /\ d > 3 => uRead' > s + 2
  <2>1. /\ Len(toUpstream) > c => Len(toUpstream) - c < cRead
        /\ Len(toUpstream) - c > 2 => uRead > s + 1
        /\ Len(toUpstream) - c > 3 => uRead > s + 2
    BY DEF ORStreams
  <2>2. (d > 2 => uRead > s + 1) /\ (d > 3 => uRead > s + 2) /\ (d > 0 => d < cRead)
    BY <2>1
  <2>3. d > 0 => d < cRead'
    BY <1>1, <1>2, <2>2
  <2>4. (d > 2 => uRead' > s + 1) /\ (d > 3 => uRead' > s + 2)
    BY <1>1, <2>2
  <2>5. QED
    BY <2>3, <2>4
<1>9. /\ d > 3 => uSent[s] = OR!Accept /\ uSent[s + 3] = OR!AuthOK
      /\ \A k \in 1..c : toUpstream[k] = OR!OurConnect(cfg)
      /\ \A k \in 1..(Len(toUpstream) - c) : toUpstream[c + k] = ORDue(s, k)
  BY DEF ORStreams
<1>10. QED
  BY <1>1, <1>2, <1>3, <1>4, <1>5, <1>6, <1>7, <1>8, <1>9 DEF ORStreams

\* A message to the upstream for one from the client.
LEMMA ORGoesUp ==
    ASSUME ORTypes, HandlerStep, NEW s, NEW c, ORStreams(s, c), NEW m, NEW d \in Nat,
           cRead' = cRead + 1, UNCHANGED <<toClient, uRead>>,
           toUpstream' = Append(toUpstream, m),
           Len(toUpstream) = c + d, m = ORDue(s, d + 1), d < cRead,
           d > 1 => uRead > s + 1,
           d > 2 => uRead > s + 2 /\ uSent[s] = OR!Accept /\ uSent[s + 3] = OR!AuthOK
    PROVE  ORStreams(s, c)' /\ Len(toUpstream') = c + (d + 1)
<1>1. /\ Len(toClient) \in Nat /\ Len(toUpstream) \in Nat /\ cRead \in Nat /\ uRead \in Nat
      /\ s \in 1..uRead /\ c \in Nat /\ Sequence(toUpstream)
      /\ Len(toClient) <= uRead - s + 1 /\ ORSettledAt(s)
  BY ORNumbers DEF ORStreams, ORSettledAt
<1>2. ORReadsOn /\ UNCHANGED <<cfg, cSent, uSent>>
  BY ORStepReads
<1>3. /\ Len(toUpstream') = c + (d + 1) /\ toUpstream'[c + (d + 1)] = m
      /\ \A i \in 1..(c + d) : toUpstream'[i] = toUpstream[i]
  <2>1. Len(toUpstream') = Len(toUpstream) + 1 /\ toUpstream'[Len(toUpstream) + 1] = m
        /\ \A i \in 1..Len(toUpstream) : toUpstream'[i] = toUpstream[i]
    BY <1>1, AppendIs
  <2>2. Len(toUpstream) + 1 = c + (d + 1)
    BY <1>1
  <2>3. QED
    BY <2>1, <2>2
<1>4. ORSettledAt(s)'
  BY <1>1, <1>2, ORSettledKept
<1>5. \A k : ORSeen(s, k)' = ORSeen(s, k) /\ ORDue(s, k)' = ORDue(s, k)
  <2>1. ASSUME NEW k PROVE ORSeen(s, k)' = ORSeen(s, k) /\ ORDue(s, k)' = ORDue(s, k)
    BY <1>2, Zenon DEF ORSeen, ORDue
  <2>2. QED
    BY <2>1
<1>6. \A k \in 1..(d + 1) : toUpstream'[c + k] = ORDue(s, k)'
  <2>1. ASSUME NEW k \in 1..(d + 1) PROVE toUpstream'[c + k] = ORDue(s, k)'
    <3>1. CASE k = d + 1
      BY <1>3, <1>5, <3>1
    <3>2. CASE k \in 1..d
      <4>1. c + k \in 1..(c + d) /\ k \in 1..(Len(toUpstream) - c)
        BY <1>1, <3>2
      <4>2. toUpstream[c + k] = ORDue(s, k)
        BY <4>1 DEF ORStreams
      <4>3. QED
        BY <1>3, <1>5, <4>1, <4>2
    <3>3. k = d + 1 \/ k \in 1..d
      OBVIOUS
    <3>4. QED
      BY <3>1, <3>2, <3>3
  <2>2. QED
    BY <2>1
<1>7. \A k \in 1..c : toUpstream'[k] = OR!OurConnect(cfg)
  <2>1. ASSUME NEW k \in 1..c PROVE toUpstream'[k] = OR!OurConnect(cfg)
    <3>1. k \in 1..(c + d)
      BY <1>1
    <3>2. toUpstream[k] = OR!OurConnect(cfg)
      BY DEF ORStreams
    <3>3. QED
      BY <1>3, <3>1, <3>2
  <2>2. QED
    BY <2>1
<1>8. /\ Len(toUpstream') - c = d + 1 /\ c \in 0..Len(toUpstream') /\ d + 1 < cRead'
      /\ (d + 1 > 2 => d > 1) /\ (d + 1 > 3 => d > 2)
  BY <1>1, <1>3
<1>9. \A k \in 1..Len(toClient) : toClient[k] = ORSeen(s, k)
  BY DEF ORStreams
<1>10. QED
  BY <1>1, <1>2, <1>3, <1>4, <1>5, <1>6, <1>7, <1>8, <1>9 DEF ORStreams

\* The upstream accepts or refuses.
LEMMA ORSettlesNow ==
    ASSUME ORInv, HandlerStep, pc = "accept", uRead' = uRead + 1,
           UNCHANGED toUpstream, ORSettles(uSent[uRead + 1]),
           toClient' = Append(toClient, uSent[uRead + 1]),
           NEW s, s = uRead + 1, NEW c, c = Len(toUpstream)
    PROVE  ORStreams(s, c)' /\ Len(toClient') = 1
<1>1. /\ ORTypes /\ uRead \in Nat /\ Len(toUpstream) \in Nat /\ Sequence(toClient)
      /\ UNCHANGED <<cfg, cSent, uSent>>
  BY ORNumbers, ORStepReads DEF ORInv
<1>2. /\ Len(toClient) = 0 /\ \A j \in 1..uRead : ~ORSettles(uSent[j])
      /\ \A k \in 1..Len(toUpstream) : toUpstream[k] = OR!OurConnect(cfg)
  BY DEF ORInv, OREarly
<1>3. Len(toClient') = 1 /\ toClient'[1] = uSent[s]
  BY <1>1, <1>2, AppendIs
<1>4. ORSettledAt(s)'
  <2>1. s \in 1..uRead' /\ s - 1 = uRead
    BY <1>1
  <2>2. QED
    BY <1>1, <1>2, <2>1 DEF ORSettledAt, ORSettles
<1>5. ORSeen(s, 1)' = uSent[s]
  <2>1. s + 1 - 1 = s
    BY <1>1
  <2>2. QED
    BY <1>1, <2>1 DEF ORSeen
<1>6. \A k \in 1..Len(toClient') : toClient'[k] = ORSeen(s, k)'
  <2>1. ASSUME NEW k \in 1..Len(toClient') PROVE k = 1
    BY <1>3
  <2>2. QED
    BY <1>3, <1>5, <2>1
<1>7. /\ c \in 0..Len(toUpstream) /\ Len(toUpstream) - c = 0 /\ ~(Len(toUpstream) > c)
      /\ 1..0 = {} /\ 1 <= uRead' - s + 1
  BY <1>1
<1>8. QED
  BY <1>1, <1>2, <1>3, <1>4, <1>6, <1>7 DEF ORStreams

\* What a step has to leave behind once the client sees the upstream.
LEMMA ORInvIs ==
    ASSUME ORTypes', Len(toClient') > 0, pc' \notin {"connect", "dial", "accept"},
           NEW s, NEW c, ORStreams(s, c)', ORPlace(s, c)'
    PROVE  ORInv'
<1>1. OREarly'
  BY DEF OREarly
<1>2. s \in 1..uRead' /\ c \in 0..Len(toUpstream')
  BY DEF ORStreams, ORSettledAt
<1>3. ORLogin'
  BY <1>2 DEF ORLogin
<1>4. QED
  BY <1>1, <1>3 DEF ORInv

LEMMA ORReadsConnect == ASSUME ORInv, OR!ReadConnect, HandlerStep PROVE ORInv'
<1>1. /\ pc = "connect" /\ pc' \in {"dial", "closed"} /\ cRead' = cRead + 1
      /\ UNCHANGED <<uRead, toClient, toUpstream>>
  BY DEF OR!ReadConnect, OR!ReadsClient, OR!Goto, OR!TellNobody
<1>2. CASE pc' = "closed"
  BY <1>1, <1>2, ORCloses
<1>3. CASE pc' = "dial"
  <2>1. ORTypes'
    BY <1>3, ORTypesStep DEF ORInv, ORStates
  <2>2. OREarly'
    BY <1>1, <1>3 DEF ORInv, OREarly
  <2>3. ORLogin'
    BY <1>1, <1>3 DEF ORInv, OREarly, ORLogin, OR!Connected
  <2>4. QED
    BY <2>1, <2>2, <2>3 DEF ORInv
<1>4. QED
  BY <1>1, <1>2, <1>3

LEMMA CountNone == ASSUME NEW s, NEW m PROVE PG!Count(s, 0, m) = 0
<1>1. {i \in 1..0 : s[i] = m} = {}
  OBVIOUS
<1>2. QED
  BY <1>1, CountIs, FS_EmptySet

LEMMA ORDials == ASSUME ORInv, OR!Dial, HandlerStep PROVE ORInv'
<1>1. pc = "dial" /\ UNCHANGED <<cRead, uRead>>
  BY DEF OR!Dial, OR!ReadsNobody
<1>2. CASE pc' = "closed" /\ UNCHANGED <<toClient, toUpstream>>
  BY <1>2, ORCloses
<1>3. ASSUME pc' = "accept", toUpstream' = Append(toUpstream, OR!OurConnect(cfg)),
             UNCHANGED toClient
      PROVE  ORInv'
  <2>1. /\ Len(toClient) = 0 /\ Len(toUpstream) = 0 /\ uRead = 0 /\ cRead = 1
        /\ Sequence(toUpstream) /\ UNCHANGED cfg
    BY <1>1, ORNumbers, ORStepReads DEF ORInv, OREarly
  <2>2. Len(toUpstream') = 1 /\ toUpstream'[1] = OR!OurConnect(cfg)
    BY <1>3, <2>1, AppendIs
  <2>3. Len(toUpstream') = 1 + PG!Count(uSent', uRead', OR!Resend)
    BY <1>1, <2>1, <2>2, CountNone
  <2>4. \A k \in 1..Len(toUpstream') : toUpstream'[k] = OR!OurConnect(cfg)'
    <3>1. ASSUME NEW k \in 1..Len(toUpstream') PROVE k = 1
      BY <2>2
    <3>2. QED
      BY <2>1, <2>2, <3>1
  <2>5. uRead' = 0 /\ 1..0 = {}
    BY <1>1, <2>1
  <2>6. OREarly'
    BY <1>1, <1>3, <2>1, <2>3, <2>4, <2>5 DEF OREarly
  <2>7. ORLogin'
    BY <1>3, <2>1 DEF ORLogin
  <2>8. ORTypes'
    BY <1>3, ORTypesStep DEF ORInv, ORStates, OR!Connected
  <2>9. QED
    BY <2>6, <2>7, <2>8 DEF ORInv
<1>4. QED
  BY <1>2, <1>3 DEF OR!Dial, OR!Goto, OR!GiveUp, OR!Close, OR!TellNobody, OR!TellUpstream

\* What does not settle the matter.
LEMMA ORUnsettled ==
    /\ ~ORSettles(OR!Resend) /\ ~ORSettles(OR!AcceptEmpty)
    /\ OR!AcceptEmpty # OR!Resend
  BY DEF ORSettles, OR!Resend, OR!Accept, OR!Refuse, OR!AcceptEmpty

LEMMA ORReadsAccept == ASSUME ORInv, OR!ReadAccept, HandlerStep PROVE ORInv'
<1> DEFINE m == uSent[uRead + 1]
<1>1. pc = "accept" /\ uRead' = uRead + 1 /\ UNCHANGED cRead
  BY DEF OR!ReadAccept, OR!ReadsUpstream
<1>2. /\ ORTypes /\ uRead \in Nat /\ Len(toUpstream) \in Nat /\ Sequence(toUpstream)
      /\ UNCHANGED <<cfg, cSent, uSent>>
      /\ Len(toClient) = 0 /\ cRead = 1 /\ \A j \in 1..uRead : ~ORSettles(uSent[j])
      /\ \A k \in 1..Len(toUpstream) : toUpstream[k] = OR!OurConnect(cfg)
      /\ Len(toUpstream) = 1 + PG!Count(uSent, uRead, OR!Resend)
  BY <1>1, ORNumbers, ORStepReads DEF ORInv, OREarly
<1>3. /\ PG!Count(uSent, uRead, OR!Resend) \in Nat
      /\ PG!Count(uSent, uRead + 1, OR!Resend) =
             PG!Count(uSent, uRead, OR!Resend) + (IF m = OR!Resend THEN 1 ELSE 0)
  BY <1>2, CountNumber, CountNext
\* Another round of the loop, with a CONNECT if it was a RESEND.
<1>4. ASSUME UNCHANGED <<pc, toClient>>, ~ORSettles(m),
             Len(toUpstream') = Len(toUpstream) + (IF m = OR!Resend THEN 1 ELSE 0),
             \A k \in 1..Len(toUpstream') : toUpstream'[k] = OR!OurConnect(cfg)
      PROVE  ORInv'
  <2>1. ORTypes'
    BY <1>2, <1>4, ORTypesStep DEF ORTypes
  <2>2. Len(toUpstream') = 1 + PG!Count(uSent', uRead', OR!Resend)
    BY <1>1, <1>2, <1>3, <1>4
  <2>3. \A j \in 1..uRead' : ~ORSettles(uSent'[j])
    <3>1. ASSUME NEW j \in 1..uRead' PROVE ~ORSettles(uSent[j])
      <4>1. j \in 1..uRead \/ j = uRead + 1
        BY <1>1, <1>2
      <4>2. QED
        BY <1>2, <1>4, <4>1
    <3>2. QED
      BY <1>2, <3>1
  <2>4. OREarly'
    BY <1>1, <1>2, <1>4, <2>2, <2>3 DEF OREarly, ORSettles
  <2>5. ORLogin'
    BY <1>1, <1>2, <1>4 DEF ORLogin
  <2>6. QED
    BY <2>1, <2>4, <2>5 DEF ORInv
<1>5. ASSUME m = OR!Resend, UNCHANGED <<pc, toClient>>,
             toUpstream' = Append(toUpstream, OR!OurConnect(cfg))
      PROVE  ORInv'
  <2>1. Len(toUpstream') = Len(toUpstream) + 1
        /\ toUpstream'[Len(toUpstream) + 1] = OR!OurConnect(cfg)
        /\ \A k \in 1..Len(toUpstream) : toUpstream'[k] = toUpstream[k]
    BY <1>2, <1>5, AppendIs
  <2>2. \A k \in 1..Len(toUpstream') : toUpstream'[k] = OR!OurConnect(cfg)
    <3>1. ASSUME NEW k \in 1..Len(toUpstream') PROVE toUpstream'[k] = OR!OurConnect(cfg)
      <4>1. k \in 1..Len(toUpstream) \/ k = Len(toUpstream) + 1
        BY <1>2, <2>1
      <4>2. QED
        BY <1>2, <2>1, <4>1
    <3>2. QED
      BY <3>1
  <2>3. ~ORSettles(m)
    BY <1>5, ORUnsettled
  <2>4. QED
    BY <1>4, <1>5, <2>1, <2>2, <2>3
<1>6. ASSUME m = OR!AcceptEmpty, UNCHANGED <<pc, toClient, toUpstream>> PROVE ORInv'
  <2>1. m # OR!Resend /\ ~ORSettles(m)
    BY <1>6, ORUnsettled
  <2>2. Len(toUpstream') = Len(toUpstream) + (IF m = OR!Resend THEN 1 ELSE 0)
    BY <1>2, <1>6, <2>1
  <2>3. QED
    BY <1>2, <1>4, <1>6, <2>1, <2>2
<1>7. ASSUME UNCHANGED toUpstream, toClient' = Append(toClient, m),
             \/ m = OR!Refuse /\ pc' = "closed"
             \/ m = OR!Accept /\ pc' = "nsUp"
      PROVE  ORInv'
  <2>1. PICK s, c : s = uRead + 1 /\ c = Len(toUpstream)
    OBVIOUS
  <2>2. ORStreams(s, c)' /\ Len(toClient') = 1
    <3>1. ORSettles(uSent[uRead + 1]) /\ toClient' = Append(toClient, uSent[uRead + 1])
      BY <1>7 DEF ORSettles
    <3>2. QED
      BY <1>1, <1>7, <2>1, <3>1, ORSettlesNow
  <2>3. ORTypes'
    BY <1>2, <1>7, ORTypesStep DEF ORStates, OR!Connected
  <2>4. ORPlace(s, c)'
    BY <1>1, <1>2, <1>7, <2>1, <2>2 DEF ORPlace, ORAt
  <2>5. QED
    BY <1>7, <2>2, <2>3, <2>4, ORInvIs
<1>8. CASE pc' = "closed" /\ UNCHANGED <<toClient, toUpstream>>
  BY <1>8, ORCloses
<1>9. QED
  BY <1>5, <1>6, <1>7, <1>8
  DEF OR!ReadAccept, OR!FromUpstream, OR!OnResend, OR!TellUpstream, OR!TellClient,
      OR!TellNobody, OR!Stay, OR!Close, OR!Goto, OR!GiveUp

\* Where the handler is, once the client sees the upstream.
LEMMA ORPlaceIs ==
    ASSUME ORInv, pc \in OR!Connected \ {"accept"}
    PROVE  \E s, c : /\ ORTypes /\ ORStreams(s, c) /\ ORPlace(s, c)
                     /\ s \in Nat /\ s > 0 /\ c \in Nat /\ uSent[s] = OR!Accept
                     /\ Len(toClient) \in Nat /\ Len(toUpstream) \in Nat
                     /\ cRead \in Nat /\ uRead \in Nat
<1>1. /\ Len(toClient) \in Nat /\ Len(toUpstream) \in Nat /\ cRead \in Nat /\ uRead \in Nat
      /\ ORTypes
  BY ORNumbers DEF ORInv
<1>2. PICK s \in 1..uRead, c \in 0..Len(toUpstream) : ORStreams(s, c) /\ ORPlace(s, c)
  BY DEF ORInv, ORLogin
<1>3. uSent[s] = OR!Accept
  BY <1>2 DEF ORPlace, OR!Connected
<1>4. s \in Nat /\ s > 0 /\ c \in Nat
  BY <1>1
<1>5. QED
  BY <1>1, <1>2, <1>3, <1>4

LEMMA ORReadsOffer == ASSUME ORInv, OR!NSFromUpstream, HandlerStep PROVE ORInv'
<1>1. pc = "nsUp" /\ uRead' = uRead + 1 /\ UNCHANGED cRead
  BY DEF OR!NSFromUpstream, OR!ReadsUpstream
<1>2. ASSUME pc' = "nsDown", toClient' = Append(toClient, uSent[uRead + 1]),
             UNCHANGED toUpstream
      PROVE  ORInv'
  <2>1. PICK s, c : /\ ORTypes /\ ORStreams(s, c) /\ ORPlace(s, c)
                    /\ s \in Nat /\ s > 0 /\ c \in Nat /\ uSent[s] = OR!Accept
    BY <1>1, ORPlaceIs DEF OR!Connected
  <2>2. uRead = s /\ Len(toClient) = 1 /\ Len(toUpstream) = c /\ cRead = 1
    BY <1>1, <2>1 DEF ORPlace, ORAt
  <2>3. uSent[uRead + 1] = ORSeen(s, Len(toClient) + 1)
    <3>1. Len(toClient) + 1 = 2 /\ s + 2 - 1 = uRead + 1
      BY <2>1, <2>2
    <3>2. QED
      BY <3>1 DEF ORSeen
  <2>4. ORStreams(s, c)' /\ Len(toClient') = 2
    BY <1>1, <1>2, <2>1, <2>2, <2>3, ORGoesDown
  <2>5. ORTypes' /\ UNCHANGED uSent
    BY <1>2, <2>1, ORTypesStep, ORStepReads DEF ORStates, OR!Connected
  <2>6. ORPlace(s, c)'
    BY <1>1, <1>2, <2>1, <2>2, <2>4, <2>5 DEF ORPlace, ORAt
  <2>7. QED
    BY <1>2, <2>4, <2>5, <2>6, ORInvIs
<1>3. CASE pc' = "closed" /\ UNCHANGED <<toClient, toUpstream>>
  BY <1>3, ORCloses
<1>4. QED
  BY <1>2, <1>3
  DEF OR!NSFromUpstream, OR!FromUpstream, OR!TellClient, OR!TellNobody, OR!Close, OR!Goto,
      OR!GiveUp

LEMMA ORReadsAnswer == ASSUME ORInv, OR!NSFromClient, HandlerStep PROVE ORInv'
<1>1. pc = "nsDown" /\ cRead' = cRead + 1 /\ UNCHANGED uRead
  BY DEF OR!NSFromClient, OR!ReadsClient
<1>2. ASSUME pc' = "login", toUpstream' = Append(toUpstream, cSent[cRead + 1]),
             UNCHANGED toClient
      PROVE  ORInv'
  <2>1. PICK s, c : /\ ORTypes /\ ORStreams(s, c) /\ ORPlace(s, c)
                    /\ s \in Nat /\ s > 0 /\ c \in Nat /\ uSent[s] = OR!Accept
    BY <1>1, ORPlaceIs DEF OR!Connected
  <2>2. uRead = s + 1 /\ Len(toClient) = 2 /\ Len(toUpstream) = c + 0 /\ cRead = 1
    BY <1>1, <2>1 DEF ORPlace, ORAt
  <2>3. cSent[cRead + 1] = ORDue(s, 0 + 1)
    BY <2>2 DEF ORDue
  <2>4. ORStreams(s, c)' /\ Len(toUpstream') = c + (0 + 1)
    BY <1>1, <1>2, <2>1, <2>2, <2>3, ORGoesUp
  <2>5. ORTypes' /\ UNCHANGED uSent
    BY <1>2, <2>1, ORTypesStep, ORStepReads DEF ORStates, OR!Connected
  <2>6. ORPlace(s, c)'
    BY <1>1, <1>2, <2>1, <2>2, <2>4, <2>5 DEF ORPlace, ORAt
  <2>7. QED
    BY <1>2, <2>2, <2>4, <2>5, <2>6, ORInvIs
<1>3. CASE pc' = "closed" /\ UNCHANGED <<toClient, toUpstream>>
  BY <1>3, ORCloses
<1>4. QED
  BY <1>2, <1>3
  DEF OR!NSFromClient, OR!FromClient, OR!TellUpstream, OR!TellNobody, OR!Close, OR!Goto,
      OR!GiveUp

LEMMA ORReadsO3Log == ASSUME ORInv, OR!ReadO3Log, HandlerStep PROVE ORInv'
<1>1. pc = "login" /\ cRead' = cRead + 1 /\ UNCHANGED uRead
  BY DEF OR!ReadO3Log, OR!ReadsClient
<1>2. ASSUME pc' = "challenge", toUpstream' = Append(toUpstream, OR!OurO3Log),
             UNCHANGED toClient
      PROVE  ORInv'
  <2>1. PICK s, c : /\ ORTypes /\ ORStreams(s, c) /\ ORPlace(s, c)
                    /\ s \in Nat /\ s > 0 /\ c \in Nat /\ uSent[s] = OR!Accept
    BY <1>1, ORPlaceIs DEF OR!Connected
  <2>2. uRead = s + 1 /\ Len(toClient) = 2 /\ Len(toUpstream) = c + 1 /\ cRead = 2
    BY <1>1, <2>1 DEF ORPlace, ORAt
  <2>3. OR!OurO3Log = ORDue(s, 1 + 1)
    BY DEF ORDue
  <2>4. ORStreams(s, c)' /\ Len(toUpstream') = c + (1 + 1)
    BY <1>1, <1>2, <2>1, <2>2, <2>3, ORGoesUp
  <2>5. ORTypes' /\ UNCHANGED uSent
    BY <1>2, <2>1, ORTypesStep, ORStepReads DEF ORStates, OR!Connected
  <2>6. ORPlace(s, c)'
    BY <1>1, <1>2, <2>1, <2>2, <2>4, <2>5 DEF ORPlace, ORAt
  <2>7. QED
    BY <1>2, <2>2, <2>4, <2>5, <2>6, ORInvIs
<1>3. CASE pc' = "closed" /\ UNCHANGED <<toClient, toUpstream>>
  BY <1>3, ORCloses
<1>4. QED
  BY <1>2, <1>3
  DEF OR!ReadO3Log, OR!FromClient, OR!TellUpstream, OR!TellNobody, OR!Close, OR!Goto,
      OR!GiveUp

LEMMA ORReadsChallenge == ASSUME ORInv, OR!ReadChallenge, HandlerStep PROVE ORInv'
<1>1. pc = "challenge" /\ uRead' = uRead + 1 /\ UNCHANGED cRead
  BY DEF OR!ReadChallenge, OR!ReadsUpstream
<1>2. ASSUME pc' = "proof", toClient' = Append(toClient, OR!FakeKey),
             UNCHANGED toUpstream
      PROVE  ORInv'
  <2>1. PICK s, c : /\ ORTypes /\ ORStreams(s, c) /\ ORPlace(s, c)
                    /\ s \in Nat /\ s > 0 /\ c \in Nat /\ uSent[s] = OR!Accept
    BY <1>1, ORPlaceIs DEF OR!Connected
  <2>2. uRead = s + 1 /\ Len(toClient) = 2 /\ Len(toUpstream) = c + 2 /\ cRead = 3
    BY <1>1, <2>1 DEF ORPlace, ORAt
  <2>3. OR!FakeKey = ORSeen(s, Len(toClient) + 1)
    BY <2>2 DEF ORSeen
  <2>4. ORStreams(s, c)' /\ Len(toClient') = 3
    BY <1>1, <1>2, <2>1, <2>2, <2>3, ORGoesDown
  <2>5. ORTypes' /\ UNCHANGED uSent
    BY <1>2, <2>1, ORTypesStep, ORStepReads DEF ORStates, OR!Connected
  <2>6. ORPlace(s, c)'
    BY <1>1, <1>2, <2>1, <2>2, <2>4, <2>5 DEF ORPlace, ORAt
  <2>7. QED
    BY <1>2, <2>4, <2>5, <2>6, ORInvIs
<1>3. CASE pc' = "closed" /\ UNCHANGED <<toClient, toUpstream>>
  BY <1>3, ORCloses
<1>4. QED
  BY <1>2, <1>3
  DEF OR!ReadChallenge, OR!FromUpstream, OR!TellClient, OR!TellNobody, OR!Close, OR!Goto,
      OR!GiveUp

\* The proof is made for the salt of the challenge read last.
LEMMA ORDropsProof == ASSUME ORInv, OR!DropProof, HandlerStep PROVE ORInv'
<1>1. pc = "proof" /\ cRead' = cRead + 1 /\ UNCHANGED uRead
  BY DEF OR!DropProof, OR!ReadsClient
<1>2. ASSUME pc' = "verdict", toUpstream' = Append(toUpstream, OR!OurO3Auth(OR!SaltAt(uSent[uRead]))),
             UNCHANGED toClient
      PROVE  ORInv'
  <2>1. PICK s, c : /\ ORTypes /\ ORStreams(s, c) /\ ORPlace(s, c)
                    /\ s \in Nat /\ s > 0 /\ c \in Nat /\ uSent[s] = OR!Accept
    BY <1>1, ORPlaceIs DEF OR!Connected
  <2>2. uRead = s + 2 /\ Len(toClient) = 3 /\ Len(toUpstream) = c + 2 /\ cRead = 3
    BY <1>1, <2>1 DEF ORPlace, ORAt
  <2>3. OR!OurO3Auth(OR!SaltAt(uSent[uRead])) = ORDue(s, 2 + 1)
    <3>1. uSent[uRead] = uSent[s + 2]
      BY <2>2
    <3>2. QED
      BY <3>1 DEF ORDue
  <2>4. ORStreams(s, c)' /\ Len(toUpstream') = c + (2 + 1)
    BY <1>1, <1>2, <2>1, <2>2, <2>3, ORGoesUp
  <2>5. ORTypes' /\ UNCHANGED uSent
    BY <1>2, <2>1, ORTypesStep, ORStepReads DEF ORStates, OR!Connected
  <2>6. ORPlace(s, c)'
    BY <1>1, <1>2, <2>1, <2>2, <2>4, <2>5 DEF ORPlace, ORAt
  <2>7. QED
    BY <1>2, <2>2, <2>4, <2>5, <2>6, ORInvIs
<1>3. QED
  BY <1>2 DEF OR!DropProof, OR!Challenge, OR!TellUpstream, OR!Goto

LEMMA ORReadsVerdict == ASSUME ORInv, OR!ReadVerdict, HandlerStep PROVE ORInv'
<1>1. pc = "verdict" /\ uRead' = uRead + 1 /\ UNCHANGED cRead
  BY DEF OR!ReadVerdict, OR!ReadsUpstream
<1>2. ASSUME pc' = "relay", toClient' = Append(toClient, OR!OwnOK),
             UNCHANGED toUpstream,
             uSent[uRead + 1] = OR!AuthOK
      PROVE  ORInv'
  <2>1. PICK s, c : /\ ORTypes /\ ORStreams(s, c) /\ ORPlace(s, c)
                    /\ s \in Nat /\ s > 0 /\ c \in Nat /\ uSent[s] = OR!Accept
    BY <1>1, ORPlaceIs DEF OR!Connected
  <2>2. uRead = s + 2 /\ Len(toClient) = 3 /\ Len(toUpstream) = c + 3 /\ cRead = 4
    BY <1>1, <2>1 DEF ORPlace, ORAt
  <2>3. OR!OwnOK = ORSeen(s, Len(toClient) + 1)
    BY <2>2 DEF ORSeen
  <2>4. ORStreams(s, c)' /\ Len(toClient') = 4
    BY <1>1, <1>2, <2>1, <2>2, <2>3, ORGoesDown
  <2>5. ORTypes' /\ UNCHANGED uSent
    BY <1>2, <2>1, ORTypesStep, ORStepReads DEF ORStates, OR!Connected
  <2>6. ORPlace(s, c)'
    BY <1>1, <1>2, <2>1, <2>2, <2>4, <2>5 DEF ORPlace, ORAt
  <2>7. QED
    BY <1>2, <2>4, <2>5, <2>6, ORInvIs
<1>3. CASE pc' = "closed" /\ UNCHANGED <<toClient, toUpstream>>
  BY <1>3, ORCloses
<1>4. QED
  BY <1>2, <1>3
  DEF OR!ReadVerdict, OR!IsAuthOK, OR!FromUpstream, OR!TellClient, OR!TellNobody, OR!Close, OR!Goto,
      OR!GiveUp

LEMMA ORPassesUp == ASSUME ORInv, OR!RelayToUpstream, HandlerStep PROVE ORInv'
<1>1. /\ pc = "relay" /\ pc' = "relay" /\ cRead' = cRead + 1 /\ UNCHANGED <<uRead, toClient>>
      /\ toUpstream' = Append(toUpstream, cSent[cRead + 1])
  BY DEF OR!RelayToUpstream, OR!PassUp, OR!ReadsClient, OR!TellUpstream, OR!Relayed,
         OR!FromClient, OR!Stay
<1>2. PICK s, c : /\ ORTypes /\ ORStreams(s, c) /\ ORPlace(s, c)
                  /\ s \in Nat /\ s > 0 /\ c \in Nat /\ uSent[s] = OR!Accept
                  /\ Len(toClient) \in Nat /\ cRead \in Nat /\ uRead \in Nat
  BY <1>1, ORPlaceIs DEF OR!Connected
<1>3. /\ uRead = s + Len(toClient) - 1 /\ Len(toUpstream) = c + cRead - 1
      /\ cRead > 3 /\ Len(toClient) > 3 /\ uSent[s + 3] = OR!AuthOK
  BY <1>1, <1>2 DEF ORPlace, ORAt
<1> PICK d \in Nat : cRead = d + 1 /\ d > 2
  <2>1. cRead = (cRead - 1) + 1 /\ cRead - 1 \in Nat /\ cRead - 1 > 2
    BY <1>2, <1>3
  <2>2. QED
    BY <2>1
<1>4. Len(toUpstream) = c + d /\ uRead > s + 1 /\ uRead > s + 2 /\ d < cRead
  BY <1>2, <1>3
<1>5. cSent[cRead + 1] = ORDue(s, d + 1)
  <2>1. d + 1 # 1 /\ d + 1 # 2 /\ d + 1 # 3
    OBVIOUS
  <2>2. QED
    BY <2>1 DEF ORDue
<1>6. ORStreams(s, c)' /\ Len(toUpstream') = c + (d + 1)
  BY <1>1, <1>2, <1>3, <1>4, <1>5, ORGoesUp
<1>7. ORTypes' /\ UNCHANGED uSent
  BY <1>1, <1>2, ORTypesStep, ORStepReads DEF ORTypes
<1>8. ORPlace(s, c)'
  <2>1. Len(toUpstream') = c + cRead' - 1 /\ cRead' > 3
    BY <1>1, <1>2, <1>6
  <2>2. QED
    BY <1>1, <1>2, <1>3, <1>7, <2>1 DEF ORPlace, ORAt
<1>9. QED
  BY <1>1, <1>3, <1>6, <1>7, <1>8, ORInvIs

LEMMA ORPassesDown == ASSUME ORInv, OR!RelayToClient, HandlerStep PROVE ORInv'
<1>1. /\ pc = "relay" /\ pc' = "relay" /\ uRead' = uRead + 1 /\ UNCHANGED <<cRead, toUpstream>>
      /\ toClient' = Append(toClient, uSent[uRead + 1])
  BY DEF OR!RelayToClient, OR!PassDown, OR!ReadsUpstream, OR!TellClient, OR!FromUpstream,
         OR!Stay
<1>2. PICK s, c : /\ ORTypes /\ ORStreams(s, c) /\ ORPlace(s, c)
                  /\ s \in Nat /\ s > 0 /\ c \in Nat /\ uSent[s] = OR!Accept
                  /\ Len(toClient) \in Nat /\ cRead \in Nat /\ uRead \in Nat
  BY <1>1, ORPlaceIs DEF OR!Connected
<1>3. /\ uRead = s + Len(toClient) - 1 /\ Len(toUpstream) = c + cRead - 1
      /\ cRead > 3 /\ Len(toClient) > 3 /\ uSent[s + 3] = OR!AuthOK
  BY <1>1, <1>2 DEF ORPlace, ORAt
<1>4. uSent[uRead + 1] = ORSeen(s, Len(toClient) + 1)
  <2>1. Len(toClient) + 1 # 3 /\ Len(toClient) + 1 # 4
        /\ s + (Len(toClient) + 1) - 1 = uRead + 1
    BY <1>2, <1>3
  <2>2. QED
    BY <2>1 DEF ORSeen
<1>5. ORStreams(s, c)' /\ Len(toClient') = Len(toClient) + 1
  BY <1>1, <1>2, <1>4, ORGoesDown
<1>6. ORTypes' /\ UNCHANGED uSent
  BY <1>1, <1>2, ORTypesStep, ORStepReads DEF ORTypes
<1>7. ORPlace(s, c)'
  <2>1. uRead' = s + Len(toClient') - 1 /\ Len(toClient') > 3
    BY <1>1, <1>2, <1>3, <1>5
  <2>2. QED
    BY <1>1, <1>2, <1>3, <1>6, <2>1 DEF ORPlace, ORAt
<1>8. QED
  BY <1>1, <1>2, <1>3, <1>5, <1>6, <1>7, ORInvIs

LEMMA ORNext == ASSUME ORInv, OR!Next, UNCHANGED <<kind, br>> PROVE ORInv'
<1>1. CASE OR!ClientSends \/ OR!ClientCloses
  BY <1>1, ORClientMoves
<1>2. CASE OR!UpstreamAnswers \/ OR!UpstreamSendsAnything \/ OR!UpstreamCloses
  BY <1>2, ORUpstreamMoves
<1>3. CASE OR!Handler \/ OR!Relay
  <2>1. HandlerStep
    BY <1>3, ORHandlerStep
  <2>2. CASE OR!ReadConnect \/ OR!Dial \/ OR!ReadAccept
    BY <2>1, <2>2, ORReadsConnect, ORDials, ORReadsAccept
  <2>3. CASE OR!NSFromUpstream \/ OR!NSFromClient
    BY <2>1, <2>3, ORReadsOffer, ORReadsAnswer
  <2>4. CASE OR!ReadO3Log \/ OR!ReadChallenge \/ OR!DropProof \/ OR!ReadVerdict
    BY <2>1, <2>4, ORReadsO3Log, ORReadsChallenge, ORDropsProof, ORReadsVerdict
  <2>5. CASE OR!Relay
    BY <2>1, <2>5, ORPassesUp, ORPassesDown DEF OR!Relay
  <2>6. CASE OR!ClientLeft \/ OR!UpstreamLeft
    BY <2>1, <2>6, ORCloses
    DEF OR!ClientLeft, OR!UpstreamLeft, OR!ClientGone, OR!UpstreamGone, OR!Close, OR!TellNobody
  <2>7. QED
    BY <1>3, <2>2, <2>3, <2>4, <2>5, <2>6 DEF OR!Handler
<1>4. QED
  BY <1>1, <1>2, <1>3 DEF OR!Next

LEMMA ORStutter == ASSUME ORInv, UNCHANGED vars PROVE ORInv'
<1>1. ORTypes'
  BY DEF ORInv, ORTypes, Streams, vars
<1>2. /\ UNCHANGED <<pc, cfg, cRead, toClient, uRead, toUpstream>>
      /\ cSent' = cSent /\ uSent' = uSent
  BY DEF vars
<1>3. QED
  BY <1>1, <1>2, ORPeersKeep

-----------------------------------------------------------------------------
(* What the invariant means *)

\* There is but one message with which the upstream settles the matter: the first
\* that can.
LEMMA ORFirstIs ==
    ASSUME NEW u, Len(u) \in Nat, NEW s \in 1..Len(u), ORSettles(u[s]),
           \A j \in 1..(s - 1) : ~ORSettles(u[j])
    PROVE  (CHOOSE k \in 1..(Len(u) + 1) :
               /\ k <= Len(u) => u[k] \in {OR!Accept, OR!Refuse}
               /\ \A j \in 1..(k - 1) : u[j] \notin {OR!Accept, OR!Refuse}) = s
<1> DEFINE P(k) == /\ k <= Len(u) => u[k] \in {OR!Accept, OR!Refuse}
                   /\ \A j \in 1..(k - 1) : u[j] \notin {OR!Accept, OR!Refuse}
<1>1. s \in 1..(Len(u) + 1) /\ P(s)
  BY DEF ORSettles
<1>2. ASSUME NEW k \in 1..(Len(u) + 1), P(k) PROVE k = s
  <2>1. ~(k < s)
    <3>1. k < s => k \in 1..(s - 1) /\ k <= Len(u)
      OBVIOUS
    <3>2. QED
      BY <1>2, <3>1 DEF ORSettles
  <2>2. ~(s < k)
    <3>1. s < k => s \in 1..(k - 1)
      OBVIOUS
    <3>2. QED
      BY <1>1, <1>2, <3>1 DEF ORSettles
  <2>3. QED
    BY <2>1, <2>2
<1> HIDE DEF P
<1>3. (CHOOSE k \in 1..(Len(u) + 1) : P(k)) = s
  BY <1>1, <1>2
<1>4. QED
  BY <1>3 DEF P

LEMMA ORSettledIs ==
    ASSUME ORTypes, NEW s, ORSettledAt(s) PROVE OR!Settled = s
<1>1. s \in 1..Len(uSent) /\ Len(uSent) \in Nat
  BY ORNumbers DEF ORSettledAt
<1>2. QED
  BY <1>1, ORFirstIs DEF ORSettledAt, OR!Settled

LEMMA ORTypeMeans == ASSUME ORInv PROVE OR!TypeOK
<1>1. ORTypes
  BY DEF ORInv
<1>2. OR!IsPrefix(cSent, script)
  BY <1>1, PrefixIs DEF OR!IsPrefix, ORTypes, Streams
<1>3. QED
  BY <1>1, <1>2 DEF OR!TypeOK, OR!TypeInvariant, ORTypes, ORStates, Streams

LEMMA ORClientMeans == ASSUME ORInv PROVE OR!ClientSeesOnlySession
<1> SUFFICES ASSUME NEW k \in 1..Len(toClient)
             PROVE  toClient[k] = CASE k = 3 -> OR!FakeKey
                                    [] k = 4 -> OR!OwnOK
                                    [] OTHER -> uSent[OR!Settled + k - 1]
  BY DEF OR!ClientSeesOnlySession
<1>1. Len(toClient) > 0
  BY ORNumbers DEF ORInv
<1>2. PICK s, c : ORStreams(s, c)
  BY <1>1 DEF ORInv, ORLogin
<1>3. OR!Settled = s
  BY <1>2, ORSettledIs DEF ORInv, ORStreams
<1>4. toClient[k] = ORSeen(s, k)
  BY <1>2 DEF ORStreams
<1>5. QED
  BY <1>3, <1>4, Zenon DEF ORSeen

\* What passes is a client's message, and what the gateway makes up for the login
\* is no CONNECT.
LEMMA ORDueIs ==
    ASSUME ORTypes, NEW s, NEW k \in Nat, 0 < k, k < cRead
    PROVE  ORDue(s, k)[1] # "ourConnect"
<1>1. cRead \in Nat /\ cRead <= Len(cSent) /\ Len(cSent) \in Nat /\ Len(script) \in Nat
  BY ORNumbers
<1>2. ASSUME NEW j \in 1..cRead PROVE cSent[j][1] # "ourConnect"
  <2>1. j \in 1..Len(cSent) /\ j \in 1..Len(script)
    BY <1>1 DEF ORTypes, Streams
  <2>2. cSent[j] = script[j] /\ script[j] \in OR!ClientMsgs
    BY <2>1 DEF ORTypes, Streams
  <2>3. \A m \in OR!ClientMsgs : m[1] # "ourConnect"
    BY DEF OR!ClientMsgs
  <2>4. QED
    BY <2>2, <2>3
<1>3. 2 \in 1..cRead /\ k + 1 \in 1..cRead
  BY <1>1
<1>4. cSent[2][1] # "ourConnect" /\ cSent[k + 1][1] # "ourConnect"
  BY <1>2, <1>3
<1>5. OR!OurO3Log[1] # "ourConnect" /\ \A t : OR!OurO3Auth(t)[1] # "ourConnect"
  BY DEF OR!OurO3Log, OR!OurO3Auth
<1>6. CASE k = 1
  BY <1>4, <1>6 DEF ORDue
<1>7. CASE k = 2
  BY <1>5, <1>7 DEF ORDue
<1>8. CASE k = 3
  BY <1>5, <1>8 DEF ORDue
<1>9. CASE k > 3
  BY <1>4, <1>9 DEF ORDue
<1>10. QED
  BY <1>6, <1>7, <1>8, <1>9

LEMMA ORConnects ==
    ASSUME ORTypes, NEW c \in 0..Len(toUpstream),
           \A k \in 1..c : toUpstream[k] = OR!OurConnect(cfg),
           \A k \in 1..(Len(toUpstream) - c) : toUpstream[c + k][1] # "ourConnect"
    PROVE  OR!CountTypes(toUpstream, Len(toUpstream), {"ourConnect"}) = c
<1>1. Len(toUpstream) \in Nat /\ c \in Nat
  BY ORNumbers
<1> PICK types : types = {"ourConnect"}
  OBVIOUS
<1>2. \A i \in 1..c : toUpstream[i][1] \in types
  BY DEF OR!OurConnect
<1>3. \A i \in 1..Len(toUpstream) : i > c => toUpstream[i][1] \notin types
  <2>1. ASSUME NEW i \in 1..Len(toUpstream), i > c PROVE toUpstream[i][1] # "ourConnect"
    <3>1. i - c \in 1..(Len(toUpstream) - c) /\ c + (i - c) = i
      BY <1>1, <2>1
    <3>2. QED
      BY <3>1
  <2>2. QED
    BY <2>1
<1>4. PG!CountTypes(toUpstream, Len(toUpstream), types) = c
  BY <1>1, <1>2, <1>3, CountTypesIs
<1> DEFINE C == {i \in 1..Len(toUpstream) : toUpstream[i][1] \in types}
<1>5. PG!CountTypes(toUpstream, Len(toUpstream), types) = Cardinality(C)
  BY DEF PG!CountTypes, PG!Cardinality, Cardinality
<1>6. OR!CountTypes(toUpstream, Len(toUpstream), types) = Cardinality(C)
  BY DEF OR!CountTypes, OR!Cardinality, Cardinality
<1>7. QED
  BY <1>4, <1>5, <1>6

LEMMA ORUpstreamMeans == ASSUME ORInv PROVE OR!UpstreamSeesConfig
<1> DEFINE Connects == OR!CountTypes(toUpstream, Len(toUpstream), {"ourConnect"})
           Behind   == Len(toUpstream) - Connects
           Due(k)   == CASE k = 1 -> cSent[2]
                         [] k = 2 -> OR!OurO3Log
                         [] k = 3 -> OR!OurO3Auth(OR!SaltAt(uSent[OR!Settled + 2]))
                         [] OTHER -> cSent[k + 1]
           Seen == /\ \A k \in 1..Connects : toUpstream[k] = OR!OurConnect(cfg)
                   /\ pc = "accept" => Connects = 1 + OR!Count(uSent, uRead, OR!Resend)
                   /\ \A k \in 1..Behind : toUpstream[Connects + k] = Due(k)
                   /\ Behind > 3 => OR!Accepted
                   /\ pc = "relay" => Behind = cRead - 1
<1>1. /\ ORTypes /\ Len(toClient) \in Nat /\ Len(toUpstream) \in Nat /\ Len(uSent) \in Nat
      /\ cRead \in Nat /\ uRead \in Nat /\ uRead <= Len(uSent)
  BY ORNumbers DEF ORInv
<1>2. CASE Len(toClient) = 0
  <2>1. \A k \in 1..Len(toUpstream) : toUpstream[k] = OR!OurConnect(cfg)
    BY <1>2 DEF ORInv, OREarly
  <2>2. Connects = Len(toUpstream)
    <3>1. Len(toUpstream) \in 0..Len(toUpstream) /\ 1..(Len(toUpstream) - Len(toUpstream)) = {}
      BY <1>1
    <3>2. QED
      BY <1>1, <2>1, <3>1, ORConnects
  <2>3. pc = "accept" => Len(toUpstream) = 1 + OR!Count(uSent, uRead, OR!Resend)
    BY DEF ORInv, OREarly, PG!Count, OR!Count, PG!Cardinality, OR!Cardinality
  <2>4. pc # "relay"
    BY <1>2 DEF ORInv, ORLogin, OR!Connected
  <2>5. Behind = 0 /\ 1..0 = {}
    BY <1>1, <2>2
  <2>6. Seen
    BY <2>1, <2>2, <2>3, <2>4, <2>5
  <2>7. QED
    BY <2>6, Zenon DEF OR!UpstreamSeesConfig
<1>3. CASE Len(toClient) > 0
  <2>1. PICK s \in 1..uRead, c \in 0..Len(toUpstream) : ORStreams(s, c) /\ ORPlace(s, c)
    BY <1>3 DEF ORInv, ORLogin
  <2>2. OR!Settled = s
    BY <1>1, <2>1, ORSettledIs DEF ORStreams
  <2>3. \A k : Due(k) = ORDue(s, k)
    <3>1. ASSUME NEW k PROVE Due(k) = ORDue(s, k)
      BY <2>2, Zenon DEF ORDue
    <3>2. QED
      BY <3>1
  <2>4. \A k \in 1..(Len(toUpstream) - c) : toUpstream[c + k] = ORDue(s, k)
    BY <2>1 DEF ORStreams
  <2>5. ASSUME NEW k \in 1..(Len(toUpstream) - c) PROVE toUpstream[c + k][1] # "ourConnect"
    <3>1. Len(toUpstream) > c => Len(toUpstream) - c < cRead
      BY <2>1 DEF ORStreams
    <3>2. k \in Nat /\ 0 < k /\ k < cRead
      BY <1>1, <3>1
    <3>3. ORDue(s, k)[1] # "ourConnect"
      BY <1>1, <3>2, ORDueIs
    <3>4. QED
      BY <2>4, <3>3
  <2>6. \A k \in 1..c : toUpstream[k] = OR!OurConnect(cfg)
    BY <2>1 DEF ORStreams
  <2>7. Connects = c
    BY <1>1, <2>5, <2>6, ORConnects
  <2>8. pc # "accept"
    BY <1>3 DEF ORInv, OREarly
  <2>9. Len(toUpstream) - c > 3 => OR!Accepted
    <3>1. Len(toUpstream) - c > 3 =>
              uRead > s + 2 /\ uSent[s] = OR!Accept /\ uSent[s + 3] = OR!AuthOK
      BY <2>1 DEF ORStreams
    <3>2. uRead > s + 2 => Len(uSent) >= s + 3
      BY <1>1
    <3>3. QED
      BY <2>2, <3>1, <3>2 DEF OR!Accepted
  <2>10. pc = "relay" => Len(toUpstream) - c = cRead - 1
    <3>1. pc = "relay" => Len(toUpstream) = c + cRead - 1
      BY <2>1 DEF ORPlace, ORAt
    <3>2. QED
      BY <1>1, <3>1
  <2>11. Seen
    BY <2>3, <2>4, <2>6, <2>7, <2>8, <2>9, <2>10
  <2>12. QED
    BY <2>11, Zenon DEF OR!UpstreamSeesConfig
<1>4. QED
  BY <1>1, <1>2, <1>3

LEMMA ORMeans ==
    ASSUME ORInv PROVE OR!TypeOK /\ OR!ClientSeesOnlySession /\ OR!UpstreamSeesConfig
  BY ORTypeMeans, ORClientMeans, ORUpstreamMeans

-----------------------------------------------------------------------------
(* The steps of an Oracle connection as CredentialSession sees them *)

\* A set of natural numbers has a least one.
LEMMA Least ==
    ASSUME NEW S, S \subseteq Nat, S # {}
    PROVE  \E k \in S : \A j \in S : k <= j
<1> DEFINE T == {0..n : n \in S}
           R == StrictSubsetOrdering(Nat)
<1>1. T \subseteq FiniteSubsetsOf(Nat) /\ T # {}
  <2>1. ASSUME NEW n \in S PROVE IsFiniteSet(0..n) /\ 0..n \subseteq Nat
    <3>1. n \in Nat
      OBVIOUS
    <3>2. QED
      BY <3>1, FS_Interval
  <2>2. QED
    BY <2>1 DEF FiniteSubsetsOf
<1>2. PICK x \in T : \A y \in T : ~(<<y, x>> \in R)
  <2>1. IsWellFoundedOn(R, FiniteSubsetsOf(Nat))
    BY FS_StrictSubsetOrderingWellFounded
  <2> HIDE DEF T, R
  <2>2. QED
    BY <1>1, <2>1, WFMin
<1>3. PICK k \in S : x = 0..k
  OBVIOUS
<1>4. ASSUME NEW j \in S, j < k PROVE FALSE
  <2>1. 0..j \in T /\ 0..j \subseteq 0..k /\ 0..j # 0..k /\ 0..k \subseteq Nat /\ 0..j \subseteq Nat
    <3>1. j \in Nat /\ k \in Nat
      OBVIOUS
    <3>2. k \in 0..k /\ k \notin 0..j
      BY <3>1, <1>4
    <3>3. QED
      BY <3>1, <3>2, <1>4
  <2>2. <<0..j, 0..k>> \in R
    BY <2>1 DEF StrictSubsetOrdering
  <2>3. QED
    BY <1>2, <1>3, <2>1, <2>2
<1>5. \A j \in S : k <= j
  BY <1>4
<1>6. QED
  BY <1>5

\* In any sequence, the place where the upstream settles is the first of its like.
LEMMA ORSettledFirst ==
    ASSUME Sequence(uSent), OR!Accepted
    PROVE  /\ OR!Settled \in 1..Len(uSent)
           /\ \A j \in 1..(OR!Settled - 1) : ~ORSettles(uSent[j])
<1> DEFINE n == Len(uSent)
           S == {k \in 1..(n + 1) : k <= n => ORSettles(uSent[k])}
<1>1. n \in Nat
  BY LenIs
<1>2. n + 1 \in S /\ S \subseteq Nat
  BY <1>1
<1>3. PICK k \in S : \A j \in S : k <= j
  <2> HIDE DEF S
  <2>1. QED
    BY <1>2, Least
<1>4. \A j \in 1..(k - 1) : ~ORSettles(uSent[j])
  <2>1. ASSUME NEW j \in 1..(k - 1), ORSettles(uSent[j]) PROVE FALSE
    <3>1. j \in 1..(n + 1) /\ ~(k <= j)
      BY <1>1, <1>3
    <3>2. j \in S
      BY <2>1, <3>1
    <3>3. QED
      BY <1>3, <3>1, <3>2
  <2>2. QED
    BY <2>1
<1> DEFINE P(i) == /\ i <= n => uSent[i] \in {OR!Accept, OR!Refuse}
                   /\ \A j \in 1..(i - 1) : uSent[j] \notin {OR!Accept, OR!Refuse}
<1>5. k \in 1..(n + 1) /\ P(k)
  BY <1>3, <1>4 DEF ORSettles
<1> HIDE DEF P
<1>6. OR!Settled = CHOOSE i \in 1..(n + 1) : P(i)
  BY DEF OR!Settled, P
<1>7. OR!Settled \in 1..(n + 1) /\ P(OR!Settled)
  BY <1>5, <1>6
<1>8. n >= OR!Settled + 3
  BY DEF OR!Accepted
<1>9. QED
  BY <1>1, <1>7, <1>8 DEF P, ORSettles

\* That the upstream has accepted is never taken back.
LEMMA ORVerdictGrows ==
    ASSUME ORTypes, Grows(uSent, uSent')
    PROVE  OR!Verdict' = OR!Verdict \/ (OR!Verdict = "pending" /\ OR!Verdict' = "accepted")
<1>1. /\ Sequence(uSent) /\ Len(uSent) \in Nat /\ Len(uSent') \in Nat /\ Len(uSent) <= Len(uSent')
      /\ \A i \in 1..Len(uSent) : uSent'[i] = uSent[i]
  BY ORNumbers, LenIs DEF Grows
<1>2. ASSUME OR!Accepted PROVE OR!Accepted'
  <2>1. PICK s : s = OR!Settled
    OBVIOUS
  <2>2. /\ s \in 1..Len(uSent) /\ \A j \in 1..(s - 1) : ~ORSettles(uSent[j])
        /\ Len(uSent) >= s + 3 /\ uSent[s] = OR!Accept /\ uSent[s + 3] = OR!AuthOK
    BY <1>1, <1>2, <2>1, ORSettledFirst DEF OR!Accepted
  <2>3. uSent'[s] = OR!Accept /\ uSent'[s + 3] = OR!AuthOK /\ Len(uSent') >= s + 3
    BY <1>1, <2>2
  <2>4. \A j \in 1..(s - 1) : ~ORSettles(uSent'[j])
    BY <1>1, <2>2
  <2>5. OR!Settled' = s
    BY <1>1, <2>2, <2>3, <2>4, ORFirstIs DEF OR!Settled, ORSettles
  <2>6. QED
    BY <2>3, <2>5 DEF OR!Accepted
<1>3. QED
  BY <1>2 DEF OR!Verdict

\* What has passed are the messages that are not the gateway's own, but the first.
LEMMA ORPassedIs ==
    ASSUME NEW u
    PROVE  Len(u) - OR!CountTypes(u, Len(u), OR!OurTypes) = Others(u, OR!OurTypes)
<1> PICK types : types = OR!OurTypes
  OBVIOUS
<1>1. OR!CountTypes(u, Len(u), types) = PG!CountTypes(u, Len(u), types)
  <2> DEFINE C == {i \in 1..Len(u) : u[i][1] \in types}
  <2>1. PG!CountTypes(u, Len(u), types) = Cardinality(C)
    BY DEF PG!CountTypes, PG!Cardinality, Cardinality
  <2>2. OR!CountTypes(u, Len(u), types) = Cardinality(C)
    BY DEF OR!CountTypes, OR!Cardinality, Cardinality
  <2>3. QED
    BY <2>1, <2>2
<1>2. QED
  BY <1>1 DEF Others

\* What a client sends is none of the gateway's own.
LEMMA ORClientsAre ==
    ASSUME ORTypes, NEW i \in 1..Len(cSent) PROVE cSent[i][1] \notin OR!OurTypes
<1>1. i \in 1..Len(script) /\ cSent[i] = script[i]
  BY ORNumbers DEF ORTypes, Streams
<1>2. cSent[i] \in OR!ClientMsgs
  BY <1>1 DEF ORTypes
<1>3. cSent[i][1] \in {"connect", "data", "marker", "query"}
  BY <1>2 DEF OR!ClientMsgs
<1>4. QED
  BY <1>3 DEF OR!OurTypes

LEMMA ORRefines ==
    ASSUME ORInv, OR!Next, UNCHANGED <<kind, br>>
    PROVE  MayGo(OR!Phase, OR!Phase', OR!Verdict, OR!Verdict', OR!Passed, OR!Passed')
<1> DEFINE Goal == MayGo(OR!Phase, OR!Phase', OR!Verdict, OR!Verdict', OR!Passed, OR!Passed')
           others == Others(toUpstream, OR!OurTypes)
           opening == {"connect", "dial"} \cup (OR!Connected \ {"relay"})
<1>1. /\ ORTypes /\ Sequence(toUpstream) /\ Sequence(uSent) /\ Len(uSent) \in Nat
      /\ uRead \in Nat /\ cRead \in Nat /\ Len(cSent) \in Nat /\ others \in Nat
      /\ Len(toUpstream) \in Nat
  BY ORNumbers, OthersNumber DEF ORInv
<1>2. toUpstream' = toUpstream => OR!Passed' = OR!Passed
  BY DEF OR!Passed
<1>3. ASSUME UNCHANGED <<pc, toUpstream>>, Grows(uSent, uSent') PROVE Goal
  BY <1>1, <1>2, <1>3, ORVerdictGrows DEF MayGo, OR!Phase
<1>4. Grows(uSent, uSent)
  BY <1>1 DEF Grows
<1>5. CASE OR!ClientSends \/ OR!ClientCloses
  BY <1>3, <1>4, <1>5 DEF OR!ClientSends, OR!ClientCloses, OR!handlerVars, OR!serverVars
<1>6. CASE OR!UpstreamAnswers \/ OR!UpstreamSendsAnything \/ OR!UpstreamCloses
  BY <1>3, <1>6, ORUpstreamSteps DEF UpstreamStep
<1>7. CASE OR!Handler \/ OR!Relay
  <2>1. HandlerStep
    BY <1>7, ORHandlerStep
  <2>2. /\ UNCHANGED <<uSent, cSent>> /\ OR!Verdict' = OR!Verdict
    BY <2>1 DEF HandlerStep, OR!Verdict, OR!Accepted, OR!Settled
  <2>3. OR!Passed = IF others = 0 THEN 0 ELSE others - 1
    <3>1. Len(toUpstream) - OR!CountTypes(toUpstream, Len(toUpstream), OR!OurTypes) = others
      BY ORPassedIs
    <3>2. QED
      BY <3>1 DEF OR!Passed
  <2>4. OR!Passed' = IF others' = 0 THEN 0 ELSE others' - 1
    <3>1. Len(toUpstream') - OR!CountTypes(toUpstream', Len(toUpstream'), OR!OurTypes)
              = Others(toUpstream', OR!OurTypes)
      BY ORPassedIs
    <3>2. QED
      BY <3>1 DEF OR!Passed
  <2>5. ASSUME NEW m, toUpstream' = Append(toUpstream, m)
        PROVE  others' = others + (IF m[1] \in OR!OurTypes THEN 0 ELSE 1)
    BY <1>1, <2>5, OthersAppend
  <2>6. ASSUME NEW m, toUpstream' = Append(toUpstream, m), m[1] \in OR!OurTypes
        PROVE  OR!Passed' = OR!Passed
    BY <1>1, <2>3, <2>4, <2>5, <2>6
  <2> HIDE DEF others
  <2>7. ASSUME pc \in opening, pc' \in opening, OR!Passed' = OR!Passed PROVE Goal
    BY <2>2, <2>7 DEF MayGo, OR!Phase, OR!Connected
  <2>8. ASSUME pc # "closed", pc \in ORStates, pc' = "closed", UNCHANGED toUpstream PROVE Goal
    BY <1>2, <2>2, <2>8 DEF MayGo, OR!Phase, ORStates, OR!Connected
  <2>9. /\ pc \in ORStates /\ OR!OurO3Log[1] \in OR!OurTypes
        /\ \A t : OR!OurConnect(t)[1] \in OR!OurTypes /\ OR!OurO3Auth(t)[1] \in OR!OurTypes
    BY <1>1 DEF ORTypes, OR!OurO3Log, OR!OurO3Auth, OR!OurConnect, OR!OurTypes
  <2> USE DEF OR!Goto, OR!Close, OR!Stay, OR!GiveUp, OR!TellNobody, OR!TellUpstream,
              OR!TellClient
  <2>10. CASE OR!ReadConnect
    <3>1. pc = "connect" /\ pc' \in {"dial", "closed"} /\ UNCHANGED toUpstream
      BY <2>10 DEF OR!ReadConnect
    <3>2. QED
      BY <1>2, <2>7, <2>8, <2>9, <3>1
  <2>11. CASE OR!Dial
    <3>1. pc = "dial" /\ \/ pc' = "accept" /\ toUpstream' = Append(toUpstream, OR!OurConnect(cfg))
                         \/ pc' = "closed" /\ UNCHANGED toUpstream
      BY <2>11 DEF OR!Dial
    <3>2. QED
      BY <2>6, <2>7, <2>8, <2>9, <3>1 DEF OR!Connected
  <2>12. CASE OR!ReadAccept
    <3>1. /\ pc = "accept"
          /\ \/ pc' = "accept" /\ toUpstream' = Append(toUpstream, OR!OurConnect(cfg))
             \/ pc' \in {"accept", "nsUp", "closed"} /\ UNCHANGED toUpstream
      BY <2>12 DEF OR!ReadAccept, OR!OnResend
    <3>2. QED
      BY <1>2, <2>6, <2>7, <2>8, <2>9, <3>1 DEF OR!Connected
  <2>13. CASE OR!NSFromUpstream \/ OR!ReadChallenge
    <3>1. /\ pc \in {"nsUp", "challenge"} /\ pc' \in {"nsDown", "proof", "closed"}
          /\ UNCHANGED toUpstream
      BY <2>13 DEF OR!NSFromUpstream, OR!ReadChallenge
    <3>2. QED
      BY <1>2, <2>7, <2>8, <2>9, <3>1 DEF OR!Connected
  <2>14. CASE OR!NSFromClient
    <3>1. pc = "nsDown" /\ cRead < Len(cSent)
      BY <2>14 DEF OR!NSFromClient, OR!ReadsClient
    <3>2. CASE pc' = "closed" /\ UNCHANGED toUpstream
      BY <2>8, <2>9, <3>1, <3>2
    <3>3. CASE pc' = "login" /\ toUpstream' = Append(toUpstream, cSent[cRead + 1])
      <4>1. others = 0
        <5>1. PICK s, c : ORStreams(s, c) /\ ORPlace(s, c)
          BY <3>1, ORPlaceIs DEF OR!Connected
        <5>2. \A k \in 1..Len(toUpstream) : toUpstream[k] = OR!OurConnect(cfg)
          BY <3>1, <5>1 DEF ORStreams, ORPlace, ORAt
        <5>3. QED
          BY <1>1, <2>9, <5>2, OthersNone DEF others
      <4>2. OR!Passed' = OR!Passed
        BY <1>1, <2>3, <2>4, <2>5, <3>3, <4>1
      <4>3. QED
        BY <2>7, <3>1, <3>3, <4>2 DEF OR!Connected
    <3>4. QED
      BY <2>14, <3>2, <3>3 DEF OR!NSFromClient, OR!FromClient
  <2>15. CASE OR!ReadO3Log \/ OR!DropProof
    <3>1. /\ pc \in {"login", "proof"}
          /\ \/ pc' = "challenge" /\ toUpstream' = Append(toUpstream, OR!OurO3Log)
             \/ /\ pc' = "verdict"
                /\ toUpstream' = Append(toUpstream, OR!OurO3Auth(OR!SaltAt(OR!Challenge)))
             \/ pc' = "closed" /\ UNCHANGED toUpstream
      BY <2>15 DEF OR!ReadO3Log, OR!DropProof
    <3>2. QED
      BY <2>6, <2>7, <2>8, <2>9, <3>1 DEF OR!Connected
  <2>16. CASE OR!ReadVerdict
    <3>1. pc = "verdict" /\ uRead < Len(uSent) /\ UNCHANGED toUpstream
      BY <2>16 DEF OR!ReadVerdict, OR!ReadsUpstream
    <3>2. CASE pc' = "closed"
      BY <2>8, <2>9, <3>1, <3>2
    <3>3. CASE pc' = "relay" /\ uSent[uRead + 1] = OR!AuthOK
      <4>1. PICK s, c : /\ ORStreams(s, c) /\ ORPlace(s, c)
                        /\ s \in Nat /\ s > 0 /\ uSent[s] = OR!Accept
        BY <3>1, ORPlaceIs DEF OR!Connected
      <4>2. uRead = s + 2 /\ OR!Settled = s
        BY <1>1, <3>1, <4>1, ORSettledIs DEF ORStreams, ORPlace, ORAt
      <4>3. OR!Verdict = "accepted"
        <5>1. uRead + 1 = s + 3 /\ Len(uSent) >= s + 3
          BY <1>1, <3>1, <4>1, <4>2
        <5>2. QED
          BY <3>3, <4>1, <4>2, <5>1 DEF OR!Verdict, OR!Accepted
      <4>4. QED
        BY <1>2, <2>2, <3>1, <3>3, <4>3 DEF MayGo, OR!Phase
    <3>4. QED
      BY <2>16, <3>2, <3>3 DEF OR!ReadVerdict, OR!IsAuthOK, OR!FromUpstream
  <2>17. CASE OR!ClientLeft \/ OR!UpstreamLeft
    <3>1. pc # "closed" /\ pc' = "closed" /\ UNCHANGED toUpstream
      BY <2>17 DEF OR!ClientLeft, OR!UpstreamLeft, OR!ClientGone, OR!UpstreamGone
    <3>2. QED
      BY <2>8, <2>9, <3>1
  <2>18. CASE OR!RelayToUpstream
    <3>1. /\ pc = "relay" /\ pc' = pc /\ cRead < Len(cSent)
          /\ toUpstream' = Append(toUpstream, cSent[cRead + 1])
      BY <2>18 DEF OR!RelayToUpstream, OR!PassUp, OR!ReadsClient, OR!Relayed, OR!FromClient
    <3>2. others > 0
      <4>1. PICK s, c : /\ ORStreams(s, c) /\ ORPlace(s, c) /\ c \in Nat
        BY <3>1, ORPlaceIs DEF OR!Connected
      <4>2. Len(toUpstream) = c + cRead - 1 /\ cRead > 3
        BY <3>1, <4>1 DEF ORPlace, ORAt
      <4>3. 1 \in 1..(Len(toUpstream) - c) /\ c + 1 \in 1..Len(toUpstream) /\ 2 \in 1..Len(cSent)
        BY <1>1, <3>1, <4>1, <4>2
      <4>4. toUpstream[c + 1] = cSent[2]
        BY <4>1, <4>3 DEF ORStreams, ORDue
      <4>5. QED
        BY <1>1, <4>3, <4>4, ORClientsAre, OthersSome DEF others
    <3>3. cSent[cRead + 1][1] \notin OR!OurTypes
      BY <1>1, <3>1, ORClientsAre
    <3>4. others' = others + 1
      BY <2>5, <3>1, <3>3
    <3>5. OR!Passed' = OR!Passed + 1
      BY <1>1, <2>3, <2>4, <3>2, <3>4
    <3>6. QED
      BY <2>2, <3>1, <3>5 DEF MayGo, OR!Phase
  <2>19. CASE OR!RelayToClient
    BY <1>3, <1>4, <2>2, <2>19 DEF OR!RelayToClient, OR!PassDown
  <2>20. QED
    BY <1>7, <2>10, <2>11, <2>12, <2>13, <2>14, <2>15, <2>16, <2>17, <2>18, <2>19
    DEF OR!Handler, OR!Relay
<1>8. QED
  BY <1>5, <1>6, <1>7 DEF OR!Next

-----------------------------------------------------------------------------
(* The types of a Redis connection *)

LEMMA SeqIs ==
    ASSUME NEW s, NEW S, Sequence(s), \A i \in 1..Len(s) : s[i] \in S
    PROVE  s \in Seq(S)
<1>1. PICK T : s \in Seq(T)
  BY DEF Sequence
<1>2. Len(s) \in Nat /\ s \in [1..Len(s) -> T]
  BY <1>1, LenProperties
<1>3. s \in [1..Len(s) -> S]
  BY <1>2
<1>4. QED
  BY <1>2, <1>3, SeqDef

LEMMA RDTypeMeans == ASSUME RDInv PROVE RD!TypeOK
<1>1. /\ RDTypes /\ Len(toUpstream) \in Nat /\ Len(toClient) \in Nat /\ Len(uSent) \in Nat
      /\ Len(br) \in Nat /\ cRead \in Nat /\ cSent \in Nat /\ cRead <= cSent
      /\ Len(script) \in Nat /\ cSent <= 3 * Len(script)
      /\ RDCred \in {0, 1} /\ RDOwn \in {0, 1} /\ RDGiven \in Nat /\ RDDone \in Nat
      /\ RDDone <= RDGiven /\ RDLogin \in {0, 1, 2}
  BY RDNumbers DEF RDInv, RDTypes
<1>2. 3 * RDOwn + RDGiven + Len(br) <= cRead
  BY DEF RDInv, RDBytes
<1>3. br \in Seq(1..cRead)
  <2>1. ASSUME NEW i \in 1..Len(br) PROVE br[i] \in 1..cRead
    <3>1. br[i] = cRead - Len(br) + i
      BY DEF RDInv, RDBytes
    <3>2. Len(br) <= cRead
      BY <1>1, <1>2
    <3>3. QED
      BY <1>1, <3>1, <3>2
  <2>2. QED
    BY <1>1, <2>1, SeqIs DEF RDTypes
<1>4. toUpstream \in Seq(0..cRead)
  <2>1. Len(toUpstream) = RDCred + RDGiven
    BY <1>1 DEF RDGiven
  <2>2. ASSUME NEW i \in 1..RDGiven PROVE toUpstream[RDCred + i] \in 0..cRead
    <3>1. toUpstream[RDCred + i] = 3 * RDOwn + i
      BY DEF RDInv, RDBytes
    <3>2. 3 * RDOwn + i <= cRead
      BY <1>1, <1>2
    <3>3. QED
      BY <1>1, <3>1, <3>2
  <2>3. ASSUME NEW i \in 1..Len(toUpstream) PROVE toUpstream[i] \in 0..cRead
    <3>1. CASE RDCred = 1 /\ i = 1
      <4>1. toUpstream[1] = 0
        BY <3>1 DEF RDCred
      <4>2. QED
        BY <1>1, <3>1, <4>1
    <3>2. CASE RDCred = 0 \/ i > 1
      <4>1. i - RDCred \in 1..RDGiven /\ RDCred + (i - RDCred) = i
        BY <1>1, <2>1, <3>2
      <4>2. QED
        BY <2>2, <4>1
    <3>3. QED
      BY <1>1, <3>1, <3>2
  <2>4. QED
    BY <1>1, <2>3, SeqIs DEF RDTypes
<1>5. uSent \in Seq({RD!OK, RD!OKBegin, RD!OKRest, RD!OKLine, RD!LineEnd, RD!Err}
                     \cup RD!Replies)
  <2> DEFINE S == {RD!OK, RD!OKBegin, RD!OKRest, RD!OKLine, RD!LineEnd, RD!Err}
                      \cup RD!Replies
             n == RDDone \div 3
  <2>1. n \in Nat /\ 3 * n <= RDDone
    BY <1>1, Thirds
  <2> HIDE DEF n
  <2>2. ASSUME NEW i \in 1..RDLogin PROVE uSent[i] \in S
    <3>1. uSent[i] = RD!AnswerCredential[i] /\ RDLogin = Len(RD!AnswerCredential)
      <4>1. RDLogin # 0
        BY <1>1
      <4>2. RDLogin = Len(RD!AnswerCredential)
        BY <4>1 DEF RDLogin
      <4>3. uSent[i] = RD!AnswerCredential[i]
        BY DEF RDInv, RDReplies
      <4>4. QED
        BY <4>2, <4>3
    <3>2. i \in 1..Len(RD!AnswerCredential)
      BY <3>1
    <3>3. \A j \in 1..Len(RD!AnswerCredential) :
              RD!AnswerCredential[j] \in {RD!OK, RD!OKBegin, RD!OKRest, RD!OKLine,
                                         RD!LineEnd, RD!Err}
      BY DEF RD!AnswerCredential
    <3>4. QED
      BY <3>1, <3>2, <3>3
  <2>3. ASSUME NEW j \in 1..n PROVE uSent[RDLogin + j] \in S
    <3>1. uSent[RDLogin + j] = RD!Reply(RDOwn + j)
      BY DEF RDInv, RDReplies, n
    <3>2. RDOwn + j \in 1..Len(script)
      <4>1. 3 * (RDOwn + j) <= 3 * Len(script) /\ RDOwn + j \in Nat /\ RDOwn + j > 0
        BY <1>1, <1>2, <2>1
      <4>2. QED
        BY <1>1, <4>1
    <3>3. QED
      BY <3>1, <3>2 DEF RD!Replies
  <2>4. ASSUME NEW i \in 1..Len(uSent) PROVE uSent[i] \in S
    <3>1. Len(uSent) = RDLogin + n
      BY DEF RDInv, RDReplies, n
    <3>2. CASE i <= RDLogin
      BY <1>1, <2>2, <3>2
    <3>3. CASE i > RDLogin
      <4>1. i - RDLogin \in 1..n /\ RDLogin + (i - RDLogin) = i
        BY <1>1, <2>1, <3>1, <3>3
      <4>2. QED
        BY <2>3, <4>1
    <3>4. QED
      BY <1>1, <3>2, <3>3
  <2> HIDE DEF S
  <2>5. uSent \in Seq(S)
    BY <1>1, <2>4, SeqIs DEF RDTypes
  <2>6. QED
    BY <2>5 DEF S
<1>6. toClient \in Seq({RD!OwnOK, RD!LineEnd} \cup RD!Replies)
  <2>1. ASSUME NEW i \in 1..Len(toClient)
        PROVE  toClient[i] \in {RD!OwnOK, RD!LineEnd} \cup RD!Replies
    <3>1. toClient[i] = RDSees(i) /\ i <= Len(script) + RDStray /\ RDStray \in {0, 1}
      BY <1>1, RDNumbers DEF RDInv, RDReplies
    <3>2. CASE toClient[i] = RD!Reply(i - RDStray) /\ i - RDStray > 0
      <4>1. i - RDStray \in 1..Len(script)
        BY <1>1, <3>1, <3>2
      <4>2. QED
        BY <3>2, <4>1 DEF RD!Replies
    <3>3. CASE i - RDStray = 0
      BY <1>1, <3>1, <3>3 DEF RDSees
    <3>4. QED
      BY <1>1, <3>1, <3>2, <3>3 DEF RDSees
  <2>2. QED
    BY <1>1, <2>1, SeqIs DEF RDTypes
<1>7. QED
  BY <1>1, <1>3, <1>4, <1>5, <1>6 DEF RD!TypeOK, RDTypes, RD!EndOf, RD!Pieces

-----------------------------------------------------------------------------
(* The theorems *)

SessionsInv ==
    /\ RepliesInv /\ PostgresInv /\ MySQLInv
    /\ kind = "oracle" => ORInv
    /\ kind \in Kinds

LEMMA AlwaysSessions == Spec => []SessionsInv
<1> DEFINE Inv == (kind = "oracle" => ORInv) /\ kind \in Kinds
<1>1. Init => Inv
  <2>1. ASSUME Init PROVE kind \in Kinds
    BY <2>1, Zenon DEF Init
  <2>2. Init /\ kind = "oracle" => ORInv
    BY ORInit
  <2>3. QED
    BY <2>1, <2>2
<1>2. Inv /\ [Next]_vars => Inv'
  <2> SUFFICES ASSUME Inv, [Next]_vars PROVE Inv'
    OBVIOUS
  <2>1. kind' = kind
    BY DEF Next, Rest, RestRedis, vars
  <2>2. CASE Next /\ kind = "oracle"
    <3>1. OR!Next /\ UNCHANGED <<kind, br>>
      BY <2>2 DEF Next, Rest
    <3>2. QED
      BY <2>1, <2>2, <3>1, ORNext
  <2>3. CASE UNCHANGED vars
    BY <2>1, <2>3, ORStutter
  <2>4. QED
    BY <2>1, <2>2, <2>3
<1>3. Spec => []Inv
  BY <1>1, <1>2, PTL DEF Spec
<1> HIDE DEF Inv
<1>4. RepliesInv /\ PostgresInv /\ MySQLInv /\ Inv => SessionsInv
  BY DEF SessionsInv, Inv
<1>5. QED
  BY <1>3, <1>4, AlwaysReplies, AlwaysPostgres, AlwaysMySQL, PTL

LEMMA KindIs == SessionsInv => kind \in {"postgres", "mysql", "oracle", "http", "redis"}
  BY KindsAssumption DEF SessionsInv, Services

\* Whatever the service, a connection's streams hold what they should: what was read
\* was sent, what was sent follows the script, and MySQL's numbers are bytes.
THEOREM AlwaysTypeOK == Spec => []TypeOK
<1>1. SessionsInv => TypeOK
  <2> SUFFICES ASSUME SessionsInv PROVE TypeOK
    OBVIOUS
  <2>1. kind \in Kinds
    BY DEF SessionsInv
  <2>2. CASE kind = "postgres"
    BY <2>1, <2>2, PGMeans DEF SessionsInv, PostgresInv, TypeOK
  <2>3. CASE kind = "mysql"
    BY <2>1, <2>3, MYMeans DEF SessionsInv, MySQLInv, TypeOK
  <2>4. CASE kind = "oracle"
    BY <2>1, <2>4, ORMeans DEF SessionsInv, TypeOK
  <2>5. CASE kind = "http"
    BY <2>1, <2>5, HTMeans DEF SessionsInv, RepliesInv, TypeOK
  <2>6. CASE kind = "redis"
    BY <2>1, <2>6, RDTypeMeans DEF SessionsInv, RepliesInv, TypeOK
  <2>7. QED
    BY <2>2, <2>3, <2>4, <2>5, <2>6, KindIs
<1>2. QED
  BY <1>1, AlwaysSessions, PTL

\* A client of PostgreSQL, MySQL or Oracle sees of the exchange with the configured
\* credential only what the gateway makes up, and behind it the upstream's stream
\* without a gap, whatever the upstream sends and whoever closes when.
THEOREM AlwaysClientSeesOnlySession == Spec => []ClientSeesOnlySession
<1>1. SessionsInv => ClientSeesOnlySession
  BY PGMeans, MYMeans, ORMeans
  DEF SessionsInv, PostgresInv, MySQLInv, ClientSeesOnlySession
<1>2. QED
  BY <1>1, AlwaysSessions, PTL

\* An upstream sees the configured login, made for its own challenge, and then the
\* client's stream from behind the client's login on, once it has accepted; or, for
\* HTTP, requests in which the configured headers have replaced the client's.
THEOREM AlwaysUpstreamSeesConfig == Spec => []UpstreamSeesConfig
<1>1. SessionsInv => UpstreamSeesConfig
  BY PGMeans, MYMeans, ORMeans, HTMeans
  DEF SessionsInv, PostgresInv, MySQLInv, RepliesInv, UpstreamSeesConfig
<1>2. QED
  BY <1>1, AlwaysSessions, PTL

-----------------------------------------------------------------------------
(* The abstract session *)

\* A connection begins as an abstract session does.
LEMMA InitRefines == Init => Abstract!Init
<1> SUFFICES ASSUME Init PROVE Abstract!Init
  OBVIOUS
<1>1. kind \in {"postgres", "mysql", "oracle", "http", "redis"}
  BY Zenon DEF Init
<1>2. ASSUME kind # "redis" PROVE toUpstream = <<>>
  BY <1>2, Zenon
  DEF Init, PG!Init, PG!InitAt, MY!Init, MY!InitAt, OR!Init, OR!InitAt, HT!Init, HT!InitAt
<1>3. Sequence(<<>>) /\ Len(<<>>) = 0
  BY EmptyIs
<1>4. \A types : Others(<<>>, types) = 0
  <2>1. ASSUME NEW types PROVE Others(<<>>, types) = 0
    BY <1>3, OthersNumber
  <2>2. QED
    BY <2>1
<1>5. CASE kind = "postgres"
  <2>1. pc = "startup"
    BY <1>5 DEF Init, PG!Init, PG!InitAt
  <2>2. PG!Passed = 0
    <3>1. PG!Passed = Others(toUpstream, PG!OurTypes)
      BY <1>2, <1>3, <1>5, PGPassedIs DEF PG!Passed, PG!SentByClient, PG!Ours
    <3>2. QED
      BY <1>2, <1>4, <1>5, <3>1
  <2>3. PG!Phase = "opening" /\ PG!Verdict \in {"pending", "accepted"}
    BY <2>1 DEF PG!Phase, PG!Verdict
  <2>4. QED
    BY <1>5, <2>2, <2>3 DEF Abstract!Init, Phase, Verdict, Passed
<1>6. CASE kind = "mysql"
  <2>1. pc = "dial"
    BY <1>6 DEF Init, MY!Init, MY!InitAt
  <2>2. MY!Passed = 0
    BY <1>2, <1>6 DEF MY!Passed
  <2>3. MY!Phase = "opening" /\ MY!Verdict \in {"pending", "accepted"}
    <3>1. Len(uSent) < 2
      BY <1>6, EmptyIs DEF Init, MY!Init, MY!InitAt
    <3>2. QED
      BY <2>1, <3>1 DEF MY!Phase, MY!Verdict
  <2>4. QED
    BY <1>6, <2>2, <2>3 DEF Abstract!Init, Phase, Verdict, Passed
<1>7. CASE kind = "oracle"
  <2>1. pc = "connect"
    BY <1>7 DEF Init, OR!Init, OR!InitAt
  <2>2. OR!Passed = 0
    <3>1. Len(toUpstream) - OR!CountTypes(toUpstream, Len(toUpstream), OR!OurTypes) = 0
      BY <1>2, <1>4, <1>7, ORPassedIs
    <3>2. QED
      BY <3>1 DEF OR!Passed
  <2>3. OR!Phase = "opening" /\ OR!Verdict \in {"pending", "accepted"}
    BY <2>1 DEF OR!Phase, OR!Verdict
  <2>4. QED
    BY <1>7, <2>2, <2>3 DEF Abstract!Init, Phase, Verdict, Passed
<1>8. CASE kind = "http"
  <2>1. pc = "serve"
    BY <1>8 DEF Init, HT!Init, HT!InitAt
  <2>2. QED
    BY <1>8, <2>1 DEF Abstract!Init, Phase, Verdict, Passed
<1>9. CASE kind = "redis"
  <2>1. pc = "dial" /\ toUpstream = <<>>
    BY <1>9, Zenon DEF Init, RD!Init
  <2>2. RD!Passed = 0
    BY <1>3, <2>1, RDPassedIs DEF RDBehind
  <2>3. RD!Phase = "opening" /\ RD!Verdict \in {"pending", "accepted"}
    BY <2>1 DEF RD!Phase, RD!Verdict
  <2>4. QED
    BY <1>9, <2>2, <2>3 DEF Abstract!Init, Phase, Verdict, Passed
<1>10. QED
  BY <1>1, <1>5, <1>6, <1>7, <1>8, <1>9

\* A step of a connection is one of the abstract session, or none.
LEMMA NextRefines ==
    ASSUME SessionsInv, [Next]_vars
    PROVE  MayGo(Phase, Phase', Verdict, Verdict', Passed, Passed')
<1> DEFINE Goal == MayGo(Phase, Phase', Verdict, Verdict', Passed, Passed')
<1>1. CASE UNCHANGED vars
  <2>1. UNCHANGED <<Phase, Verdict, Passed>>
    BY <1>1
    DEF vars, Phase, Verdict, Passed, PG!Phase, PG!Verdict, PG!Passed, PG!SentByClient, PG!Ours,
        MY!Phase, MY!Verdict, MY!Passed, OR!Phase, OR!Verdict, OR!Accepted,
        OR!Settled, OR!Passed, RD!Phase, RD!Verdict, RD!Passed, RD!FromTheClient
  <2>2. QED
    BY <2>1 DEF MayGo
<1>2. CASE kind = "postgres" /\ PG!Next /\ Rest
  <2>1. UNCHANGED <<kind, br>> /\ kind' = "postgres"
    BY <1>2 DEF Rest
  <2>2. MayGo(PG!Phase, PG!Phase', PG!Verdict, PG!Verdict', PG!Passed, PG!Passed')
    BY <1>2, <2>1, PGRefines DEF SessionsInv, PostgresInv
  <2>3. Phase = PG!Phase /\ Verdict = PG!Verdict /\ Passed = PG!Passed
    BY <1>2 DEF Phase, Verdict, Passed
  <2>4. Phase' = PG!Phase' /\ Verdict' = PG!Verdict' /\ Passed' = PG!Passed'
    BY <2>1 DEF Phase, Verdict, Passed
  <2>5. QED
    BY <2>2, <2>3, <2>4
<1>3. CASE kind = "mysql" /\ MY!Next /\ Rest
  <2>1. UNCHANGED <<kind, br>> /\ kind' = "mysql"
    BY <1>3 DEF Rest
  <2>2. MayGo(MY!Phase, MY!Phase', MY!Verdict, MY!Verdict', MY!Passed, MY!Passed')
    BY <1>3, <2>1, MYRefines DEF SessionsInv, MySQLInv
  <2>3. Phase = MY!Phase /\ Verdict = MY!Verdict /\ Passed = MY!Passed
    BY <1>3 DEF Phase, Verdict, Passed
  <2>4. Phase' = MY!Phase' /\ Verdict' = MY!Verdict' /\ Passed' = MY!Passed'
    BY <2>1 DEF Phase, Verdict, Passed
  <2>5. QED
    BY <2>2, <2>3, <2>4
<1>4. CASE kind = "oracle" /\ OR!Next /\ Rest
  <2>1. UNCHANGED <<kind, br>> /\ kind' = "oracle"
    BY <1>4 DEF Rest
  <2>2. MayGo(OR!Phase, OR!Phase', OR!Verdict, OR!Verdict', OR!Passed, OR!Passed')
    BY <1>4, <2>1, ORRefines DEF SessionsInv
  <2>3. Phase = OR!Phase /\ Verdict = OR!Verdict /\ Passed = OR!Passed
    BY <1>4 DEF Phase, Verdict, Passed
  <2>4. Phase' = OR!Phase' /\ Verdict' = OR!Verdict' /\ Passed' = OR!Passed'
    BY <2>1 DEF Phase, Verdict, Passed
  <2>5. QED
    BY <2>2, <2>3, <2>4
<1>5. CASE kind = "http" /\ HT!Next /\ Rest
  BY <1>5, HTRefines DEF SessionsInv, RepliesInv, Rest
<1>6. CASE kind = "redis" /\ RD!Next /\ RestRedis
  <2>1. kind' = kind /\ kind' = "redis"
    BY <1>6 DEF RestRedis
  <2>2. MayGo(RD!Phase, RD!Phase', RD!Verdict, RD!Verdict', RD!Passed, RD!Passed')
    BY <1>6, <2>1, RDRefines DEF SessionsInv, RepliesInv
  <2>3. Phase = RD!Phase /\ Verdict = RD!Verdict /\ Passed = RD!Passed
    BY <1>6 DEF Phase, Verdict, Passed
  <2>4. Phase' = RD!Phase' /\ Verdict' = RD!Verdict' /\ Passed' = RD!Passed'
    BY <2>1 DEF Phase, Verdict, Passed
  <2>5. QED
    BY <2>2, <2>3, <2>4
<1>7. QED
  BY <1>1, <1>2, <1>3, <1>4, <1>5, <1>6 DEF Next

\* Every handler implements the abstract credential session: whatever the peers do,
\* the client is let in only after the upstream has accepted the configured
\* credential (a MySQL client only after the upstream has answered it, and with
\* neither an error nor a request for another plugin: mysql.go:133-147 looks for
\* nothing else), its own messages pass only in the open relay, one at a time, and
\* a closed session stays closed.
THEOREM RefinesSession == Spec => ImplementsSession
<1>1. Init => Abstract!Init
  BY InitRefines
<1>2. SessionsInv /\ [Next]_vars => [Abstract!Next]_(Abstract!vars)
  BY NextRefines, MayGoIs
<1>3. QED
  BY <1>1, <1>2, AlwaysSessions, PTL DEF Spec, ImplementsSession, Abstract!Spec
=============================================================================
