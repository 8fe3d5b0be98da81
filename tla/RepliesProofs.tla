---------------------------- MODULE RepliesProofs ----------------------------
(***************************************************************************)
(* Proofs about the HTTP and Redis connections of Sessions: for any        *)
(* scripts, configurations and number of messages, every request or        *)
(* command has its own reply, and a Redis client's bytes pass once.  The   *)
(* first part states what the other proofs about Sessions need of          *)
(* sequences.                                                              *)
(***************************************************************************)
EXTENDS Sessions, TLAPS, SequenceTheorems

-----------------------------------------------------------------------------
(* Sequences of whatever *)

Sequence(s) == \E S : s \in Seq(S)

\* t is s with more behind it.
Grows(s, t) ==
    /\ Sequence(t) /\ Len(s) <= Len(t)
    /\ \A i \in 1..Len(s) : t[i] = s[i]

LEMMA LenIs == ASSUME NEW s, Sequence(s) PROVE Len(s) \in Nat /\ DOMAIN s = 1..Len(s)
  BY LenProperties DEF Sequence

LEMMA AppendIs ==
    ASSUME NEW s, NEW e, Sequence(s)
    PROVE  /\ Sequence(Append(s, e)) /\ Len(Append(s, e)) = Len(s) + 1
           /\ \A i \in 1..Len(s) : Append(s, e)[i] = s[i]
           /\ Append(s, e)[Len(s) + 1] = e
<1>1. PICK S : s \in Seq(S)
  BY DEF Sequence
<1>2. s \in Seq(S \cup {e}) /\ e \in S \cup {e}
  BY <1>1, SeqMonotonic
<1>3. Append(s, e) \in Seq(S \cup {e})
  BY <1>2, AppendProperties
<1>4. QED
  BY <1>2, <1>3, AppendProperties DEF Sequence

LEMMA AppendGrows == ASSUME NEW s, NEW e, Sequence(s) PROVE Grows(s, Append(s, e))
  BY AppendIs, LenIs DEF Grows

LEMMA ConcatIs ==
    ASSUME NEW s, NEW t, Sequence(s), Sequence(t)
    PROVE  /\ Sequence(s \o t) /\ Len(s \o t) = Len(s) + Len(t)
           /\ \A i \in 1..Len(s) : (s \o t)[i] = s[i]
           /\ \A i \in 1..Len(t) : (s \o t)[Len(s) + i] = t[i]
<1>1. PICK S : s \in Seq(S)
  BY DEF Sequence
<1>2. PICK T : t \in Seq(T)
  BY DEF Sequence
<1>3. s \in Seq(S \cup T) /\ t \in Seq(S \cup T)
  BY <1>1, <1>2, SeqMonotonic
<1>4. Len(s) \in Nat /\ Len(t) \in Nat
  BY LenIs
<1>5. /\ s \o t \in Seq(S \cup T) /\ Len(s \o t) = Len(s) + Len(t)
      /\ \A i \in 1..(Len(s) + Len(t)) :
             (s \o t)[i] = IF i <= Len(s) THEN s[i] ELSE t[i - Len(s)]
  BY <1>3, ConcatProperties
<1>6. ASSUME NEW i \in 1..Len(t) PROVE (s \o t)[Len(s) + i] = t[i]
  <2>1. Len(s) + i \in 1..(Len(s) + Len(t)) /\ ~(Len(s) + i <= Len(s))
        /\ (Len(s) + i) - Len(s) = i
    BY <1>4
  <2>2. QED
    BY <1>5, <2>1
<1>7. QED
  BY <1>4, <1>5, <1>6 DEF Sequence

LEMMA ConcatGrows ==
    ASSUME NEW s, NEW t, Sequence(s), Sequence(t) PROVE Grows(s, s \o t)
  BY ConcatIs, LenIs DEF Grows

LEMMA SubSeqIs ==
    ASSUME NEW s, Sequence(s), NEW m \in Nat, NEW n \in Nat,
           1 <= m, m <= n + 1, n <= Len(s)
    PROVE  /\ Sequence(SubSeq(s, m, n)) /\ Len(SubSeq(s, m, n)) = n - m + 1
           /\ \A i \in 1..(n - m + 1) : SubSeq(s, m, n)[i] = s[m + i - 1]
<1>1. PICK S : s \in Seq(S)
  BY DEF Sequence
<1>2. \A i \in m..n : s[i] \in S
  BY <1>1, ElementOfSeq, LenIs
<1>3. SubSeq(s, m, n) \in Seq(S)
  BY <1>2, SubSeqProperties
<1>4. Len(SubSeq(s, m, n)) = n - m + 1
  BY <1>2, SubSeqProperties
<1>5. \A i \in 1..(n - m + 1) : SubSeq(s, m, n)[i] = s[m + i - 1]
  BY <1>2, SubSeqProperties
<1>6. QED
  BY <1>3, <1>4, <1>5 DEF Sequence

LEMMA SameSequence ==
    ASSUME NEW s, NEW t, Sequence(s), Sequence(t), Len(s) = Len(t),
           \A i \in 1..Len(s) : s[i] = t[i]
    PROVE  s = t
<1>1. PICK S : s \in Seq(S)
  BY DEF Sequence
<1>2. PICK T : t \in Seq(T)
  BY DEF Sequence
<1>3. s \in Seq(S \cup T) /\ t \in Seq(S \cup T)
  BY <1>1, <1>2, SeqMonotonic
<1>4. QED
  BY <1>3, SeqEqual

LEMMA TailIs ==
    ASSUME NEW s, Sequence(s), s # <<>>
    PROVE  /\ Sequence(Tail(s)) /\ Len(Tail(s)) = Len(s) - 1 /\ Head(s) = s[1] /\ Len(s) > 0
           /\ \A i \in 1..(Len(s) - 1) : Tail(s)[i] = s[i + 1]
<1>1. PICK S : s \in Seq(S)
  BY DEF Sequence
<1>2. QED
  BY <1>1, HeadTailProperties, EmptySeq DEF Sequence

LEMMA EmptyIs ==
    /\ Sequence(<<>>) /\ Len(<<>>) = 0
    /\ \A s : Sequence(s) => (s = <<>> <=> Len(s) = 0)
  BY EmptySeq DEF Sequence

LEMMA OneIs == ASSUME NEW e PROVE Sequence(<<e>>) /\ Len(<<e>>) = 1 /\ <<e>>[1] = e
<1>1. <<e>> \in Seq({e})
  OBVIOUS
<1>2. QED
  BY <1>1 DEF Sequence

LEMMA RangeIs ==
    ASSUME NEW s, Sequence(s)
    PROVE  /\ \A m \in Range(s) : \E i \in 1..Len(s) : s[i] = m
           /\ \A i \in 1..Len(s) : s[i] \in Range(s)
  BY LenIs DEF Range

LEMMA PrefixIs ==
    ASSUME NEW s, NEW t, Sequence(s), Sequence(t), Len(s) <= Len(t),
           \A i \in 1..Len(s) : s[i] = t[i]
    PROVE  SubSeq(s, 1, Len(s)) = SubSeq(t, 1, Len(s))
<1>1. Len(s) \in Nat /\ Len(t) \in Nat
  BY LenIs
<1> DEFINE n == Len(s)
           a == SubSeq(s, 1, n)
           b == SubSeq(t, 1, n)
<1>2. Sequence(a) /\ Len(a) = n /\ \A i \in 1..n : a[i] = s[i]
  BY <1>1, SubSeqIs
<1>3. Sequence(b) /\ Len(b) = n /\ \A i \in 1..n : b[i] = t[i]
  BY <1>1, SubSeqIs
<1>4. a = b
  BY <1>2, <1>3, SameSequence
<1>5. QED
  BY <1>4

-----------------------------------------------------------------------------
(* The streams of a connection, whatever the service (but for Redis, whose    *)
(* reader has numbers of bytes for streams)                                   *)

Streams ==
    /\ kind \in Kinds
    /\ mode \in ModesOf[kind] /\ cfg \in ConfigsOf[kind] /\ script \in ScriptsOf[kind]
    /\ Sequence(script) /\ Sequence(cSent) /\ Sequence(toClient)
    /\ Sequence(uSent) /\ Sequence(toUpstream)
    /\ Len(cSent) <= Len(script) /\ \A i \in 1..Len(cSent) : cSent[i] = script[i]
    /\ cRead \in 0..Len(cSent) /\ uRead \in 0..Len(uSent)
    /\ srvRead \in 0..Len(toUpstream)
    /\ cEof \in BOOLEAN /\ uEof \in BOOLEAN
    /\ br = <<>>

\* What a client does: it sends the next message of its script, or closes.
ClientStep ==
    /\ UNCHANGED <<kind, br, pc, mode, cfg, script, cRead, toClient, uSent, uRead,
                   toUpstream, srvRead, srv, uEof>>
    /\ \/ UNCHANGED cSent /\ cEof' = TRUE
       \/ /\ Len(cSent) < Len(script)
          /\ cSent' = Append(cSent, script[Len(cSent) + 1])
          /\ UNCHANGED cEof

\* What an upstream does: it reads, sends or closes.
UpstreamStep ==
    /\ UNCHANGED <<kind, br, pc, mode, cfg, script, cSent, cRead, toClient, uRead,
                   toUpstream, cEof>>
    /\ Grows(uSent, uSent')
    /\ srvRead' \in 0..Len(toUpstream) /\ uEof' \in BOOLEAN

\* What a handler does: it reads and writes at most a message of a stream.
HandlerStep ==
    /\ UNCHANGED <<kind, br, mode, cfg, script, cSent, uSent, srvRead, srv, cEof, uEof>>
    /\ cRead' = cRead \/ (cRead < Len(cSent) /\ cRead' = cRead + 1)
    /\ uRead' = uRead \/ (uRead < Len(uSent) /\ uRead' = uRead + 1)
    /\ toClient' = toClient \/ \E m : toClient' = Append(toClient, m)
    /\ toUpstream' = toUpstream \/ \E m : toUpstream' = Append(toUpstream, m)

LEMMA ClientStepKeeps ==
    ASSUME Streams, ClientStep PROVE Streams' /\ Grows(cSent, cSent')
<1>1. Len(cSent) \in Nat /\ Len(script) \in Nat
  BY LenIs DEF Streams
<1>2. CASE cSent' = cSent /\ cEof' = TRUE
  BY <1>1, <1>2 DEF Streams, ClientStep, Grows
<1>3. CASE /\ Len(cSent) < Len(script)
           /\ cSent' = Append(cSent, script[Len(cSent) + 1]) /\ cEof' = cEof
  <2>1. /\ Sequence(cSent') /\ Len(cSent') = Len(cSent) + 1
        /\ \A i \in 1..Len(cSent) : cSent'[i] = cSent[i]
        /\ cSent'[Len(cSent) + 1] = script[Len(cSent) + 1]
    BY <1>3, AppendIs DEF Streams
  <2>2. \A i \in 1..Len(cSent') : cSent'[i] = script[i]
    BY <1>1, <2>1 DEF Streams
  <2>3. cRead \in 0..Len(cSent')
    BY <1>1, <2>1 DEF Streams
  <2>4. Streams'
    BY <1>1, <1>3, <2>1, <2>2, <2>3 DEF Streams, ClientStep
  <2>5. QED
    BY <1>1, <2>1, <2>4 DEF Grows
<1>4. QED
  BY <1>2, <1>3 DEF ClientStep

LEMMA UpstreamStepKeeps ==
    ASSUME Streams, UpstreamStep PROVE Streams'
<1>1. Len(uSent) \in Nat /\ Len(uSent') \in Nat
  BY LenIs DEF Streams, UpstreamStep, Grows
<1>2. uRead \in 0..Len(uSent')
  BY <1>1 DEF Streams, UpstreamStep, Grows
<1>3. QED
  BY <1>2 DEF Streams, UpstreamStep, Grows

\* A stream that is appended to, or not.
LEMMA AppendedGrows ==
    ASSUME NEW s, NEW t, Sequence(s), t = s \/ \E m : t = Append(s, m)
    PROVE  Grows(s, t) /\ Len(t) \in {Len(s), Len(s) + 1}
<1>1. CASE t = s
  BY <1>1, LenIs DEF Grows
<1>2. ASSUME NEW m, t = Append(s, m) PROVE Grows(s, t) /\ Len(t) = Len(s) + 1
  BY <1>2, AppendIs, AppendGrows
<1>3. QED
  BY <1>1, <1>2

LEMMA HandlerStepKeeps ==
    ASSUME Streams, HandlerStep
    PROVE  Streams' /\ Grows(toClient, toClient') /\ Grows(toUpstream, toUpstream')
<1>1. Grows(toClient, toClient') /\ Grows(toUpstream, toUpstream')
  BY AppendedGrows DEF Streams, HandlerStep
<1>2. /\ Len(cSent) \in Nat /\ Len(uSent) \in Nat /\ Len(toUpstream) \in Nat
      /\ Len(toUpstream') \in Nat
  BY <1>1, LenIs DEF Streams, Grows
<1>3. cRead' \in 0..Len(cSent) /\ uRead' \in 0..Len(uSent)
  BY <1>2 DEF Streams, HandlerStep
<1>4. srvRead \in 0..Len(toUpstream')
  BY <1>1, <1>2 DEF Streams, Grows
<1>5. QED
  BY <1>1, <1>3, <1>4 DEF Streams, HandlerStep, Grows

\* Every service's connection begins with empty streams.
LEMMA InitStreams ==
    ASSUME kind \in Kinds, mode \in ModesOf[kind], cfg \in ConfigsOf[kind],
           script \in ScriptsOf[kind], Sequence(script),
           cSent = <<>> /\ cRead = 0 /\ toClient = <<>>
           /\ uSent = <<>> /\ uRead = 0 /\ toUpstream = <<>> /\ srvRead = 0
           /\ cEof = FALSE /\ uEof = FALSE, br = <<>>
    PROVE  Streams
<1>1. Len(script) \in Nat
  BY LenIs
<1>2. 0 \in 0..Len(cSent) /\ 0 \in 0..Len(uSent) /\ 0 \in 0..Len(toUpstream)
  BY EmptyIs
<1>3. Len(cSent) <= Len(script) /\ \A i \in 1..Len(cSent) : cSent[i] = script[i]
  BY <1>1, EmptyIs
<1>4. Sequence(cSent) /\ Sequence(toClient) /\ Sequence(uSent) /\ Sequence(toUpstream)
  BY EmptyIs
<1>5. QED
  BY <1>2, <1>3, <1>4 DEF Streams

-----------------------------------------------------------------------------
(* HTTP *)

HTState == {"serve", "await", "closed"}

HTTypes ==
    /\ kind = "http" /\ Streams /\ pc \in HTState /\ srv = "up"
    /\ \A i \in 1..Len(script) : script[i] \in HT!ClientMsgs /\ HT!Id(script[i]) = i

\* Between two requests nothing is under way; behind one, its answer is all that
\* can be.
HTExchange ==
    /\ pc = "serve" => /\ Len(toClient) = cRead
                       /\ uRead = Len(uSent) /\ srvRead = Len(toUpstream)
    /\ pc = "await" =>
           /\ cRead > 0 /\ Len(toClient) = cRead - 1 /\ Len(toUpstream) > 0
           /\ HT!Id(toUpstream[Len(toUpstream)]) = cRead
           /\ \/ srvRead = Len(toUpstream) - 1 /\ uRead = Len(uSent)
              \/ /\ srvRead = Len(toUpstream) /\ Len(uSent) = uRead + 1
                 /\ uSent[uRead + 1] = HT!Reply(cRead)

HTAnswers ==
    \A k \in 1..Len(toClient) : toClient[k] \in {HT!Reply(k), HT!BadGateway(k)}

\* What became of the headers of the i-th request in m.
HTHeadersOf(m, i) ==
    /\ HT!Id(m) = i /\ DOMAIN HT!Headers(m) = HT!Names
    /\ \A n \in HT!Names :
           HT!Headers(m)[n] \in
               IF n \in HT!Nominated(script[i]) \cup HT!HopByHop THEN {""}
               ELSE IF HT!Configured(n) # {} THEN HT!Configured(n)
               ELSE {HT!Headers(script[i])[n]}

HTForwarded ==
    \A k \in 1..Len(toUpstream) : \E i \in 1..cRead : HTHeadersOf(toUpstream[k], i)

HTInv == HTTypes /\ HTExchange /\ HTAnswers /\ HTForwarded

LEMMA HTInit == ASSUME Init, kind = "http" PROVE HTInv
<1>1. HT!Init /\ br = <<>> /\ kind \in Kinds
  BY DEF Init
<1>2. Sequence(script) /\ script \in Seq(HT!ClientMsgs)
  BY <1>1, ScriptsAssumption DEF HT!Init, HT!InitAt, Sequence
<1>3. Streams
  BY <1>1, <1>2, InitStreams DEF HT!Init, HT!InitAt
<1>4. \A i \in 1..Len(script) : script[i] \in HT!ClientMsgs /\ HT!Id(script[i]) = i
  BY <1>1, <1>2, ElementOfSeq, ScriptsAssumption DEF HT!Init, HT!InitAt
<1>6. HTTypes
  BY <1>1, <1>3, <1>4 DEF HTTypes, HTState, HT!Init, HT!InitAt
<1>7. HTExchange /\ HTAnswers /\ HTForwarded
  BY <1>1, EmptyIs DEF HTExchange, HTAnswers, HTForwarded, HT!Init, HT!InitAt
<1>8. QED
  BY <1>6, <1>7 DEF HTInv

\* The Director's headers, stripped.
LEMMA HeadersSet ==
    ASSUME HTTypes, NEW i \in 1..Len(script),
           NEW h \in HT!Injected(HT!Headers(script[i]))
    PROVE  HTHeadersOf(HT!Forwarded(i, HT!Stripped(h, HT!Nominated(script[i]))), i)
<1> DEFINE m == script[i]
           g == HT!Stripped(h, HT!Nominated(m))
<1>1. \A n \in HT!Names : IF HT!Configured(n) = {} THEN h[n] = HT!Headers(m)[n]
                                                    ELSE h[n] \in HT!Configured(n)
  BY DEF HT!Injected
<1>2. /\ DOMAIN g = HT!Names
      /\ \A n \in HT!Names :
             g[n] = IF n \in HT!Nominated(m) \cup HT!HopByHop THEN "" ELSE h[n]
  BY DEF HT!Stripped
<1>3. HT!Id(HT!Forwarded(i, g)) = i /\ HT!Headers(HT!Forwarded(i, g)) = g
  BY DEF HT!Id, HT!Headers, HT!Forwarded
<1>4. QED
  BY <1>1, <1>2, <1>3 DEF HTHeadersOf

LEMMA HeadersKept ==
    ASSUME UNCHANGED <<cfg, script>>, NEW m, NEW i, HTHeadersOf(m, i),
           NEW k, toUpstream'[k] = m
    PROVE  HTHeadersOf(toUpstream[k], i)'
  BY DEF HTHeadersOf, HT!Configured

\* What was forwarded stays as it was asked for.
LEMMA ForwardedKept ==
    ASSUME HTForwarded, Streams, UNCHANGED <<cfg, script, toUpstream>>,
           cRead' \in Nat, cRead <= cRead'
    PROVE  HTForwarded'
<1>1. \A i \in 1..cRead : i \in 1..cRead'
  BY DEF Streams
<1>2. ASSUME NEW k \in 1..Len(toUpstream)
      PROVE  \E i \in 1..cRead' : HTHeadersOf(toUpstream[k], i)'
  <2>1. PICK i \in 1..cRead : HTHeadersOf(toUpstream[k], i)
    BY DEF HTForwarded
  <2>2. HTHeadersOf(toUpstream[k], i)'
    BY <2>1 DEF HTHeadersOf, HT!Configured
  <2>3. QED
    BY <1>1, <2>2
<1>3. QED
  BY <1>2 DEF HTForwarded

LEMMA HTClientKeeps == ASSUME HTInv, ClientStep, kind = "http" PROVE HTInv'
<1>1. Streams' /\ Grows(cSent, cSent')
  BY ClientStepKeeps DEF HTInv, HTTypes
<1>2. HTTypes'
  BY <1>1 DEF HTInv, HTTypes, ClientStep, HT!Configured
<1>3. HTExchange' /\ HTAnswers'
  BY DEF HTInv, HTExchange, HTAnswers, ClientStep
<1>4. HTForwarded'
  BY ForwardedKept DEF HTInv, HTTypes, Streams, ClientStep
<1>5. QED
  BY <1>2, <1>3, <1>4 DEF HTInv

LEMMA HTUpstreamKeeps ==
    ASSUME HTInv, HT!UpstreamAnswers, kind' = kind, br' = br
    PROVE  HTInv'
<1>1. PICK m \in HT!Range(toUpstream) : HT!Answer("up", m, <<HT!Reply(HT!Id(m))>>, "up")
  BY DEF HT!UpstreamAnswers
<1> USE <1>1 DEF HT!Answer, HT!handlerVars, HT!clientVars
<1>2. Len(toUpstream) \in Nat /\ Len(uSent) \in Nat
  BY LenIs DEF HTInv, HTTypes, Streams
<1>3. /\ Sequence(uSent') /\ Len(uSent') = Len(uSent) + 1
      /\ \A i \in 1..Len(uSent) : uSent'[i] = uSent[i]
      /\ uSent'[Len(uSent) + 1] = HT!Reply(HT!Id(m))
  BY OneIs, ConcatIs DEF HTInv, HTTypes, Streams
<1>4. UpstreamStep
  BY <1>2, <1>3 DEF UpstreamStep, Grows, HTInv, HTTypes, Streams
<1>5. HTTypes'
  BY <1>4, UpstreamStepKeeps DEF HTInv, HTTypes, UpstreamStep, HT!Configured
<1>6. pc # "serve"
  BY <1>2 DEF HTInv, HTExchange
<1>7. CASE pc = "await"
  <2>1. /\ srvRead = Len(toUpstream) - 1 /\ uRead = Len(uSent)
        /\ HT!Id(toUpstream[Len(toUpstream)]) = cRead
    BY <1>2, <1>7 DEF HTInv, HTExchange
  <2>2. m = toUpstream[Len(toUpstream)]
    BY <1>2, <2>1
  <2>3. HTExchange'
    BY <1>2, <1>3, <1>7, <2>1, <2>2 DEF HTInv, HTExchange
  <2>4. HTAnswers'
    BY DEF HTInv, HTAnswers
  <2>5. HTForwarded'
    BY ForwardedKept DEF HTInv, HTTypes, Streams
  <2>6. QED
    BY <1>5, <2>3, <2>4, <2>5 DEF HTInv
<1>8. CASE pc = "closed"
  BY <1>8
<1>9. QED
  BY <1>5, <1>6, <1>7, <1>8 DEF HTInv, HTTypes, HTState

LEMMA ServeKeeps ==
    ASSUME HTInv, HT!Serve, kind' = kind, br' = br PROVE HTInv'
<1> DEFINE m == cSent[cRead + 1]
<1>1. /\ pc = "serve" /\ cRead < Len(cSent) /\ cRead' = cRead + 1 /\ uRead' = uRead
      /\ UNCHANGED <<mode, cfg, script, cSent, uSent, srvRead, srv, cEof, uEof>>
  BY DEF HT!Serve, HT!ReadsClient, HT!PeersUnchanged, HT!clientVars, HT!serverVars
<1>2. /\ Len(cSent) \in Nat /\ Len(toClient) \in Nat /\ Len(toUpstream) \in Nat
      /\ cRead \in Nat /\ Len(script) \in Nat /\ cRead + 1 \in 1..Len(script)
  BY <1>1, LenIs DEF HTInv, HTTypes, Streams
<1>3. m = script[cRead + 1] /\ HT!Id(m) = cRead + 1
  BY <1>1, <1>2 DEF HTInv, HTTypes, Streams
<1>4. /\ Len(toClient) = cRead /\ uRead = Len(uSent) /\ srvRead = Len(toUpstream)
  BY <1>1 DEF HTInv, HTExchange
<1>5. CASE toClient' = Append(toClient, HT!BadGateway(HT!Id(m))) /\ toUpstream' = toUpstream
           /\ pc' = pc
  <2>1. HandlerStep
    BY <1>1, <1>5 DEF HandlerStep
  <2>2. HTTypes'
    BY <1>1, <1>5, <2>1, HandlerStepKeeps DEF HTInv, HTTypes
  <2>3. /\ Len(toClient') = Len(toClient) + 1
        /\ \A k \in 1..Len(toClient) : toClient'[k] = toClient[k]
        /\ toClient'[Len(toClient) + 1] = HT!BadGateway(cRead + 1)
    BY <1>3, <1>5, AppendIs DEF HTInv, HTTypes, Streams
  <2>4. HTExchange'
    BY <1>1, <1>2, <1>4, <1>5, <2>3 DEF HTExchange
  <2>5. HTAnswers'
    BY <1>2, <1>4, <2>3 DEF HTInv, HTAnswers
  <2>6. HTForwarded'
    BY <1>1, <1>2, <1>5, ForwardedKept DEF HTInv, HTTypes
  <2>7. QED
    BY <2>2, <2>4, <2>5, <2>6 DEF HTInv
<1>6. ASSUME NEW h \in HT!Injected(HT!Headers(m)),
             toUpstream' = Append(toUpstream,
                 HT!Forwarded(HT!Id(m), HT!Stripped(h, HT!Nominated(m)))),
             toClient' = toClient, pc' = "await"
      PROVE  HTInv'
  <2> DEFINE r == HT!Forwarded(cRead + 1, HT!Stripped(h, HT!Nominated(m)))
  <2>1. HandlerStep
    BY <1>1, <1>6 DEF HandlerStep
  <2>2. HTTypes'
    BY <1>1, <1>6, <2>1, HandlerStepKeeps DEF HTInv, HTTypes, HTState
  <2>3. /\ Len(toUpstream') = Len(toUpstream) + 1
        /\ \A k \in 1..Len(toUpstream) : toUpstream'[k] = toUpstream[k]
        /\ toUpstream'[Len(toUpstream) + 1] = r
    BY <1>3, <1>6, AppendIs DEF HTInv, HTTypes, Streams
  <2>4. HTHeadersOf(r, cRead + 1)
    BY <1>2, <1>3, <1>6, HeadersSet DEF HTInv
  <2>5. HT!Id(r) = cRead + 1
    BY DEF HT!Id, HT!Forwarded
  <2>6. HTExchange'
    BY <1>1, <1>2, <1>4, <1>6, <2>3, <2>5 DEF HTExchange
  <2>7. HTAnswers'
    BY <1>6 DEF HTInv, HTAnswers
  <2>8. HTForwarded'
    <3>1. ASSUME NEW k \in 1..Len(toUpstream')
          PROVE  \E i \in 1..cRead' : HTHeadersOf(toUpstream[k], i)'
      <4>1. CASE k = Len(toUpstream) + 1
        <5>1. PICK i \in 1..cRead' : i = cRead + 1
          BY <1>1, <1>2
        <5>2. PICK q : q = r
          OBVIOUS
        <5>3. HTHeadersOf(q, i) /\ toUpstream'[k] = q
          BY <2>3, <2>4, <4>1, <5>1, <5>2
        <5>4. QED
          BY <1>1, <5>3, HeadersKept
      <4>2. CASE k \in 1..Len(toUpstream)
        <5>1. PICK i \in 1..cRead : HTHeadersOf(toUpstream[k], i)
          BY <4>2 DEF HTInv, HTForwarded
        <5>2. PICK q : q = toUpstream[k]
          OBVIOUS
        <5>3. i \in 1..cRead' /\ HTHeadersOf(q, i) /\ toUpstream'[k] = q
          BY <1>1, <1>2, <2>3, <4>2, <5>1, <5>2
        <5>4. QED
          BY <1>1, <5>3, HeadersKept
      <4>3. QED
        BY <1>2, <2>3, <4>1, <4>2
    <3>2. QED
      BY <3>1 DEF HTForwarded
  <2>9. QED
    BY <2>2, <2>6, <2>7, <2>8 DEF HTInv
<1>7. QED
  BY <1>5, <1>6
  DEF HT!Serve, HT!FromClient, HT!TellUpstream, HT!TellClient, HT!Goto, HT!Stay

\* The end of an exchange: the answer, an error, or the connection's end.
LEMMA AnsweredKeeps ==
    ASSUME HTInv, pc = "await", pc' \in {"serve", "closed"},
           UNCHANGED <<kind, br, mode, cfg, script, cSent, cRead, toUpstream, srv, cEof>>,
           UNCHANGED <<uSent, uEof>>,
           uRead' \in 0..Len(uSent), srvRead' \in 0..Len(toUpstream),
           pc' = "serve" => uRead' = Len(uSent) /\ srvRead' = Len(toUpstream),
           \/ pc' = "closed" /\ toClient' = toClient
           \/ \E m \in {HT!Reply(cRead), HT!BadGateway(cRead)} :
                  toClient' = Append(toClient, m)
    PROVE  HTInv'
<1>1. cRead \in Nat /\ cRead > 0 /\ Len(toClient) = cRead - 1
  BY DEF HTInv, HTTypes, Streams, HTExchange
<1>2. CASE pc' = "closed" /\ toClient' = toClient
  <2>1. HTTypes'
    BY <1>2 DEF HTInv, HTTypes, Streams, HTState
  <2>2. HTForwarded'
    BY <1>1, ForwardedKept DEF HTInv, HTTypes
  <2>3. QED
    BY <1>2, <2>1, <2>2 DEF HTInv, HTExchange, HTAnswers
<1>3. ASSUME NEW m \in {HT!Reply(cRead), HT!BadGateway(cRead)},
             toClient' = Append(toClient, m)
      PROVE  HTInv'
  <2>1. /\ Sequence(toClient') /\ Len(toClient') = cRead
        /\ \A k \in 1..(cRead - 1) : toClient'[k] = toClient[k]
        /\ toClient'[cRead] = m
    BY <1>1, <1>3, AppendIs DEF HTInv, HTTypes, Streams
  <2>2. HTTypes'
    BY <2>1 DEF HTInv, HTTypes, Streams, HTState
  <2>3. HTAnswers'
    BY <1>1, <2>1 DEF HTInv, HTAnswers
  <2>4. HTForwarded'
    BY <1>1, ForwardedKept DEF HTInv, HTTypes
  <2>5. HTExchange'
    BY <2>1 DEF HTExchange
  <2>6. QED
    BY <2>2, <2>3, <2>4, <2>5 DEF HTInv
<1>4. QED
  BY <1>2, <1>3

LEMMA HTNext == ASSUME HTInv, Next, kind = "http" PROVE HTInv'
<1> USE DEF HT!handlerVars, HT!clientVars, HT!serverVars, HT!PeersUnchanged
<1>1. HT!Next /\ kind' = kind /\ br' = br
  BY DEF Next, Rest
<1>2. CASE HT!ClientSends \/ HT!ClientCloses
  <2>1. ClientStep
    BY <1>1, <1>2 DEF ClientStep, HT!ClientSends, HT!ClientCloses
  <2>2. QED
    BY <2>1, HTClientKeeps
<1>3. CASE HT!UpstreamAnswers
  BY <1>1, <1>3, HTUpstreamKeeps
<1>4. CASE HT!Serve
  BY <1>1, <1>4, ServeKeeps
<1>5. Len(uSent) \in Nat /\ Len(toUpstream) \in Nat /\ uRead \in 0..Len(uSent)
      /\ srvRead \in 0..Len(toUpstream)
  BY LenIs DEF HTInv, HTTypes, Streams
<1>6. CASE HT!ForwardAnswer
  <2> USE <1>6 DEF HT!ForwardAnswer, HT!ReadsUpstream, HT!TellClient, HT!Goto, HT!FromUpstream
  <2>1. /\ srvRead = Len(toUpstream) /\ Len(uSent) = uRead + 1
        /\ uSent[uRead + 1] = HT!Reply(cRead)
    BY <1>5 DEF HTInv, HTExchange
  <2>2. QED
    BY <1>1, <1>5, <2>1, AnsweredKeeps
<1>7. CASE HT!ExchangeFails
  BY <1>1, <1>5, <1>7, AnsweredKeeps
  DEF HT!ExchangeFails, HT!TellClient, HT!Goto, HT!DropConnection
<1>8. CASE HT!AnswerBreaksOff
  BY <1>1, <1>5, <1>8, AnsweredKeeps
  DEF HT!AnswerBreaksOff, HT!ReadsUpstream, HT!Close, HT!TellNobody
<1>9. CASE HT!ClientLeft
  <2> USE <1>9 DEF HT!ClientLeft, HT!ClientGone, HT!Close, HT!TellNobody, HT!ReadsNobody
  <2>1. HTTypes'
    BY <1>1 DEF HTInv, HTTypes, Streams, HTState
  <2>2. HTForwarded'
    BY <1>1, ForwardedKept DEF HTInv, HTTypes, Streams
  <2>3. HTExchange' /\ HTAnswers'
    BY DEF HTInv, HTExchange, HTAnswers
  <2>4. QED
    BY <2>1, <2>2, <2>3 DEF HTInv
<1>10. QED
  BY <1>1, <1>2, <1>3, <1>4, <1>6, <1>7, <1>8, <1>9 DEF HT!Next, HT!Handler

LEMMA HTStutter == ASSUME HTInv, UNCHANGED vars PROVE HTInv'
<1>1. HTTypes'
  BY DEF HTInv, HTTypes, Streams, vars
<1>2. HTExchange' /\ HTAnswers'
  BY DEF HTInv, HTExchange, HTAnswers, vars
<1>3. HTForwarded'
  BY ForwardedKept DEF HTInv, HTTypes, Streams, vars
<1>4. QED
  BY <1>1, <1>2, <1>3 DEF HTInv

\* What HTTP's part of the properties needs of it.
LEMMA HTMeans ==
    ASSUME HTInv
    PROVE  HT!TypeOK /\ HT!UpstreamSeesConfig /\ HT!RepliesMatch
<1>1. HT!RepliesMatch
  BY DEF HTInv, HTAnswers, HT!RepliesMatch
<1>2. ASSUME NEW m \in HT!Range(toUpstream)
      PROVE  \E i \in 1..cRead : HTHeadersOf(m, i)
  <2>1. PICK k \in 1..Len(toUpstream) : m = toUpstream[k]
    BY LenIs DEF HT!Range, HTInv, HTTypes, Streams
  <2>2. QED
    BY <2>1 DEF HTInv, HTForwarded
<1>3. \A i \in 1..cRead : cSent[i] = script[i]
  BY LenIs DEF HTInv, HTTypes, Streams
<1>4. HT!UpstreamSeesConfig
  BY <1>2, <1>3 DEF HT!UpstreamSeesConfig, HTHeadersOf
<1>5. HT!TypeOK
  <2>1. HT!IsPrefix(cSent, script)
    BY PrefixIs DEF HT!IsPrefix, HTInv, HTTypes, Streams
  <2>2. \A m \in HT!Range(toUpstream) : DOMAIN HT!Headers(m) = HT!Names
    BY <1>2 DEF HTHeadersOf
  <2>3. QED
    BY <2>1, <2>2 DEF HT!TypeOK, HT!TypeInvariant, HTInv, HTTypes, HTState, Streams
<1>6. QED
  BY <1>1, <1>4, <1>5

-----------------------------------------------------------------------------
(* Redis *)

RDAuths == {"authArray", "authInline"}
RDAuth1 == Len(script) > 0 /\ RD!Kind(1) \in RDAuths     \* the client begins with AUTH

\* Whether the configured password is at the head of what the upstream gets, and
\* whether the gateway has answered the client's AUTH: 1 for yes.
RDCred == IF Len(toUpstream) > 0 /\ toUpstream[1] = 0 THEN 1 ELSE 0
RDOwn  == IF Len(toClient) > 0 /\ toClient[1] = RD!OwnOK THEN 1 ELSE 0

\* Whether the client got the end of the line of the upstream's +OK: 1 for yes.
RDStray == IF Len(toClient) > RDOwn /\ toClient[RDOwn + 1] = RD!LineEnd THEN 1 ELSE 0

\* The client's pieces in what the upstream got and in what it has processed, and
\* the messages in which it has answered the password.
RDGiven  == Len(toUpstream) - RDCred
RDDone   == IF RDCred = 1 /\ srvRead > 0 THEN srvRead - 1 ELSE srvRead
RDLogin  == IF RDCred = 1 /\ srvRead > 0 THEN Len(RD!AnswerCredential) ELSE 0

RDTypes ==
    /\ kind = "redis" /\ kind \in Kinds
    /\ pc \in {"dial", "closed"} \cup RD!Connected
    /\ mode \in ModesOf["redis"] /\ mode \in RD!AllModes
    /\ script \in ScriptsOf["redis"] /\ Len(script) \in Nat
    /\ cSent \in 0..(3 * Len(script)) /\ cRead \in 0..cSent
    /\ Sequence(br) /\ Sequence(toUpstream) /\ Sequence(uSent) /\ Sequence(toClient)
    /\ uRead \in 0..Len(uSent) /\ srvRead \in 0..Len(toUpstream)
    /\ cEof \in BOOLEAN /\ uEof \in BOOLEAN

\* The buffer is the end of what was read, and before it is what was given on.
RDBytes ==
    /\ \A i \in 1..Len(br) : br[i] = cRead - Len(br) + i
    /\ \A i \in 1..RDGiven : toUpstream[RDCred + i] = 3 * RDOwn + i
    /\ 3 * RDOwn + RDGiven + Len(br) <= cRead
    /\ pc = "relay" => 3 * RDOwn + RDGiven + Len(br) = cRead
    /\ pc \in {"dial", "auth"} => cRead = 0 /\ uRead = 0
    /\ pc \in {"peek", "consume"} => Len(br) = cRead
    /\ pc \notin {"relay", "closed"} => toClient = <<>> /\ RDGiven = 0

\* Where the password is, and what becomes of an AUTH at the beginning.
RDLogins ==
    /\ pc = "dial" => toUpstream = <<>>
    /\ pc = "auth" => RDCred = 1
    /\ RDCred = 1 => mode # "none"
    /\ pc \in {"peek", "consume", "relay"} /\ mode # "none" => RDCred = 1 /\ srvRead > 0
    /\ pc = "consume" => RDAuth1 /\ cRead > 0
    /\ RDOwn = 1 => RDAuth1
    /\ RDAuth1 /\ RDOwn = 0 =>
           /\ Len(toClient) = RDStray
           /\ pc = "relay" => cSent < 2 /\ cEof

\* What the client sees as its i-th.
RDSees(i) ==
    IF i = 1 /\ RDOwn = 1 THEN RD!OwnOK
    ELSE IF i = RDOwn + 1 /\ RDStray = 1 THEN RD!LineEnd ELSE RD!Reply(i - RDStray)

\* The handler has read +OK and not yet the end of its line.
RDLineOpen == mode = "splitEnd" /\ RDLogin = 2 /\ uRead = 1

\* The upstream's stream: its answer to the password and then a reply for each
\* command it got whole; the client's: the latter, behind an answer of our own and
\* an end of line that the handler has not read.
RDReplies ==
    /\ Len(uSent) = RDLogin + (RDDone \div 3)
    /\ \A i \in 1..RDLogin : uSent[i] = RD!AnswerCredential[i]
    /\ \A j \in 1..(RDDone \div 3) : uSent[RDLogin + j] = RD!Reply(RDOwn + j)
    /\ pc \in {"peek", "consume"} => uRead = RDLogin \/ RDLineOpen
    /\ pc = "relay" =>
           \/ uRead >= RDLogin /\ Len(toClient) = RDOwn + RDStray + (uRead - RDLogin)
           \/ RDLineOpen /\ Len(toClient) = RDOwn
    /\ \A i \in 1..Len(toClient) : toClient[i] = RDSees(i)
    /\ RDStray = 1 => mode = "splitEnd"
    /\ Len(toClient) <= Len(script) + RDStray

RDInv == RDTypes /\ RDBytes /\ RDLogins /\ RDReplies

LEMMA Thirds ==
    /\ \A p \in Nat : p \div 3 \in Nat /\ 3 * (p \div 3) <= p /\ p < 3 * (p \div 3) + 3
    /\ \A p \in Nat, f \in {0, 1} :
           IF (3 * f + p + 1) % 3 = 0
           THEN /\ (p + 1) \div 3 = (p \div 3) + 1
                /\ (3 * f + p + 1) \div 3 = f + (p \div 3) + 1
           ELSE (p + 1) \div 3 = p \div 3
  OBVIOUS

\* The numbers of the invariant are numbers.
LEMMA RDNumbers ==
    ASSUME RDTypes
    PROVE  /\ Len(toUpstream) \in Nat /\ Len(toClient) \in Nat /\ Len(uSent) \in Nat
           /\ Len(br) \in Nat /\ cRead \in Nat /\ cSent \in Nat /\ uRead \in Nat
           /\ srvRead \in Nat
           /\ RDCred \in {0, 1} /\ RDOwn \in {0, 1} /\ RDGiven \in Nat /\ RDDone \in Nat
           /\ RDDone <= RDGiven /\ RDStray \in {0, 1}
           /\ Sequence(RD!AnswerCredential) /\ RDLogin \in {0, 1, 2}
           /\ Len(RD!AnswerCredential) \in {1, 2}
<1>1. Len(toUpstream) \in Nat /\ Len(toClient) \in Nat /\ Len(uSent) \in Nat /\ Len(br) \in Nat
  BY LenIs DEF RDTypes
<1>2. cRead \in Nat /\ cSent \in Nat /\ uRead \in Nat /\ srvRead \in 0..Len(toUpstream)
  BY <1>1 DEF RDTypes
<1>3. RDCred \in {0, 1} /\ (RDCred = 1 => Len(toUpstream) > 0) /\ RDOwn \in {0, 1}
      /\ RDStray \in {0, 1}
  BY DEF RDCred, RDOwn, RDStray
<1>4. Sequence(RD!AnswerCredential) /\ Len(RD!AnswerCredential) \in {1, 2}
  <2>1. ASSUME NEW a, NEW b PROVE Sequence(<<a, b>>) /\ Len(<<a, b>>) = 2
    <3>1. <<a, b>> \in Seq({a, b})
      OBVIOUS
    <3>2. QED
      BY <3>1 DEF Sequence
  <2>2. QED
    BY <2>1, OneIs DEF RD!AnswerCredential
<1>5. RDGiven \in Nat /\ RDDone \in Nat /\ RDDone <= RDGiven
  BY <1>1, <1>2, <1>3 DEF RDGiven, RDDone
<1>6. RDLogin \in {0, 1, 2}
  BY <1>4 DEF RDLogin
<1>7. QED
  BY <1>1, <1>2, <1>3, <1>4, <1>5, <1>6

LEMMA RDInit == ASSUME Init, kind = "redis" PROVE RDInv
<1>1. RD!Init /\ kind \in Kinds
  BY DEF Init
<1>2. script \in ScriptsOf["redis"] /\ script \in Seq(RD!Commands) /\ mode \in RD!AllModes
      /\ mode \in ModesOf["redis"]
  BY <1>1, ScriptsAssumption, PeersAssumption DEF RD!Init
<1>3. Len(script) \in Nat
  BY <1>2, LenProperties
<1>4. /\ Sequence(br) /\ Sequence(toUpstream) /\ Sequence(uSent) /\ Sequence(toClient)
      /\ Len(br) = 0 /\ Len(toUpstream) = 0 /\ Len(uSent) = 0 /\ Len(toClient) = 0
  BY <1>1, EmptyIs DEF RD!Init
<1>5. RDTypes
  <2>1. 0 \in 0..(3 * Len(script)) /\ 0 \in 0..0
    BY <1>3
  <2>2. QED
    BY <1>1, <1>2, <1>3, <1>4, <2>1 DEF RDTypes, RD!Init
<1>6. RDCred = 0 /\ RDOwn = 0 /\ RDGiven = 0 /\ RDDone = 0 /\ RDLogin = 0 /\ RDStray = 0
  BY <1>1, <1>4 DEF RDCred, RDOwn, RDGiven, RDDone, RDLogin, RDStray, RD!Init
<1>7. RDBytes
  BY <1>1, <1>4, <1>6 DEF RDBytes, RD!Init
<1>8. RDLogins
  BY <1>1, <1>4, <1>6 DEF RDLogins, RD!Init
<1>9. RDReplies
  <2>1. 0 \div 3 = 0
    OBVIOUS
  <2>2. QED
    BY <1>1, <1>3, <1>4, <1>6, <2>1 DEF RDReplies, RD!Init
<1>10. QED
  BY <1>5, <1>7, <1>8, <1>9 DEF RDInv

\* The numbers of the invariant depend on what both sides got.
LEMMA RDSameNumbers ==
    ASSUME UNCHANGED <<mode, script, toUpstream, srvRead>>
    PROVE  /\ RDCred' = RDCred /\ RDGiven' = RDGiven /\ RDDone' = RDDone
           /\ RDLogin' = RDLogin /\ RDAuth1' = RDAuth1
           /\ RD!AnswerCredential' = RD!AnswerCredential
           /\ toClient' = toClient => RDOwn' = RDOwn /\ RDStray' = RDStray
  BY DEF RDCred, RDOwn, RDStray, RDGiven, RDDone, RDLogin, RDAuth1, RD!Kind, RD!AnswerCredential

\* Steps that leave the streams of the handler alone: the peers' and the ends.
LEMMA RDStill ==
    ASSUME RDInv,
           UNCHANGED <<kind, mode, script, cRead, br, toUpstream, toClient, uSent, uRead,
                       srvRead>>,
           pc' \in {pc, "closed"}, cSent' \in cSent..(3 * Len(script)),
           cEof' \in BOOLEAN, uEof' \in BOOLEAN, cEof => cEof' /\ cSent' = cSent
    PROVE  RDInv'
<1>1. /\ RDCred' = RDCred /\ RDOwn' = RDOwn /\ RDGiven' = RDGiven /\ RDDone' = RDDone
      /\ RDLogin' = RDLogin /\ RDAuth1' = RDAuth1 /\ RDStray' = RDStray
      /\ RD!AnswerCredential' = RD!AnswerCredential
  BY RDSameNumbers
<1>2. RDTypes'
  BY RDNumbers DEF RDInv, RDTypes
<1>3. RDBytes'
  BY <1>1 DEF RDInv, RDBytes
<1>4. RDLogins'
  BY <1>1 DEF RDInv, RDLogins
<1>5. RDReplies'
  BY <1>1 DEF RDInv, RDReplies, RDSees, RDLineOpen
<1>6. QED
  BY <1>2, <1>3, <1>4, <1>5 DEF RDInv

LEMMA RDAnswers ==
    ASSUME RDInv, RD!UpstreamAnswers, kind' = kind PROVE RDInv'
<1> DEFINE m == toUpstream[srvRead + 1]
<1> USE DEF RD!Credential, RD!Pieces
<1>1. /\ srvRead < Len(toUpstream) /\ srvRead' = srvRead + 1
      /\ uSent' = CASE m = 0      -> uSent \o RD!AnswerCredential
                    [] m % 3 # 0  -> uSent
                    [] OTHER      -> Append(uSent, RD!Reply(m \div 3))
      /\ UNCHANGED <<pc, mode, script, cSent, cRead, br, toUpstream, uRead, toClient,
                     cEof, uEof>>
  BY DEF RD!UpstreamAnswers, RD!handlerVars, RD!clientVars
<1>2. /\ RDCred' = RDCred /\ RDOwn' = RDOwn /\ RDGiven' = RDGiven /\ RDAuth1' = RDAuth1
      /\ RDStray' = RDStray /\ RD!AnswerCredential' = RD!AnswerCredential
  BY <1>1 DEF RDCred, RDOwn, RDStray, RDGiven, RDAuth1, RD!Kind, RD!AnswerCredential
<1> HIDE DEF m
<1>3. RDTypes
  BY DEF RDInv
<1>0. /\ Len(toUpstream) \in Nat /\ Len(toClient) \in Nat /\ Len(uSent) \in Nat
      /\ Len(br) \in Nat /\ cRead \in Nat /\ cSent \in Nat /\ uRead \in Nat
      /\ srvRead \in Nat /\ RDCred \in {0, 1} /\ RDOwn \in {0, 1} /\ RDGiven \in Nat
      /\ RDDone \in Nat /\ RDDone <= RDGiven /\ RDLogin \in {0, 1, 2}
      /\ Sequence(RD!AnswerCredential) /\ Len(RD!AnswerCredential) \in {1, 2}
  BY <1>3, RDNumbers
<1>4. CASE RDCred = 1 /\ srvRead = 0
  <2>1. m = 0
    BY <1>4 DEF RDCred, m
  <2>2. RDDone = 0 /\ RDLogin = 0 /\ RDDone' = 0 /\ RDLogin' = Len(RD!AnswerCredential)
    BY <1>1, <1>2, <1>4 DEF RDDone, RDLogin
  <2>3. 0 \div 3 = 0
    OBVIOUS
  <2>4. uSent' = uSent \o RD!AnswerCredential
    BY <1>1, <2>1
  <2>5. Len(uSent) = 0
    BY <2>2, <2>3 DEF RDInv, RDReplies
  <2>6. /\ Sequence(uSent') /\ Len(uSent') = Len(RD!AnswerCredential)
        /\ \A i \in 1..Len(RD!AnswerCredential) : uSent'[i] = RD!AnswerCredential[i]
    <3>1. Sequence(uSent)
      BY <1>0, <1>3 DEF RDTypes
    <3>2. \A i \in 1..Len(RD!AnswerCredential) : 0 + i = i
      BY <1>0, <1>3
    <3>3. QED
      BY <1>0, <1>3, <2>4, <2>5, <3>1, <3>2, ConcatIs
  <2>7. RDTypes'
    BY <1>1, <1>0, <1>3, <2>5, <2>6 DEF RDTypes
  <2>8. RDBytes' /\ RDLogins'
    BY <1>1, <1>2, <1>0, <1>3 DEF RDInv, RDBytes, RDLogins
  <2>9. pc \notin {"peek", "consume", "relay"}
    BY <1>3, <1>4 DEF RDInv, RDLogins
  <2>10. RDReplies'
    BY <1>1, <1>2, <1>0, <1>3, <2>2, <2>3, <2>6, <2>9 DEF RDInv, RDReplies, RDSees
  <2>11. QED
    BY <2>7, <2>8, <2>10 DEF RDInv
<1>5. CASE ~(RDCred = 1 /\ srvRead = 0)
  <2>1. RDDone' = RDDone + 1 /\ RDLogin' = RDLogin /\ srvRead + 1 = RDCred + RDDone + 1
        /\ RDDone < RDGiven
    <3>0. srvRead' = srvRead + 1 /\ srvRead < Len(toUpstream)
          /\ srvRead \in Nat /\ Len(toUpstream) \in Nat
      BY <1>0, <1>1
    <3>1. CASE RDCred = 0
      <4>1. RDDone = srvRead /\ RDDone' = srvRead' /\ RDLogin = 0 /\ RDLogin' = 0
        BY <1>2, <3>1 DEF RDDone, RDLogin
      <4>2. RDGiven = Len(toUpstream)
        BY <1>0, <3>1 DEF RDGiven
      <4>3. QED
        BY <3>0, <3>1, <4>1, <4>2
    <3>2. CASE RDCred = 1
      <4>1. srvRead > 0 /\ srvRead' > 0
        BY <3>0, <1>5, <3>2
      <4>2. RDDone = srvRead - 1 /\ RDDone' = srvRead' - 1 /\ RDLogin' = RDLogin
        BY <1>2, <3>2, <4>1 DEF RDDone, RDLogin
      <4>3. RDGiven = Len(toUpstream) - 1
        BY <3>2 DEF RDGiven
      <4>4. QED
        BY <3>0, <3>2, <4>1, <4>2, <4>3
    <3>3. QED
      BY <1>0, <3>1, <3>2
  <2>2. m = 3 * RDOwn + RDDone + 1
    <3>1. RDDone + 1 \in 1..RDGiven /\ srvRead + 1 = RDCred + (RDDone + 1)
      BY <1>0, <1>3, <2>1
    <3>2. toUpstream[RDCred + (RDDone + 1)] = 3 * RDOwn + (RDDone + 1)
      BY <3>1 DEF RDInv, RDBytes
    <3>3. QED
      BY <1>0, <1>3, <3>1, <3>2 DEF m
  <2>3. m # 0
    BY <1>0, <1>3, <2>2
  <2> DEFINE d == RDDone \div 3
  <2>4. d \in Nat /\ Len(uSent) = RDLogin + d
    BY <1>0, <1>3, Thirds DEF RDInv, RDReplies
  <2>0. RDDone \div 3 = d
    OBVIOUS
  <2> HIDE DEF d
  <2>5. /\ Sequence(uSent') /\ Len(uSent') = RDLogin + (RDDone' \div 3)
        /\ \A i \in 1..Len(uSent) : uSent'[i] = uSent[i]
        /\ RDDone' \div 3 \in {d, d + 1}
        /\ RDDone' \div 3 = d + 1 => uSent'[RDLogin + d + 1] = RD!Reply(RDOwn + d + 1)
    <3>1. Sequence(uSent)
      BY <1>0, <1>3 DEF RDTypes
    <3>2. CASE m % 3 = 0
      <4>1. RDDone' \div 3 = d + 1 /\ m \div 3 = RDOwn + d + 1
        BY <1>0, <1>3, <2>1, <2>2, <2>0, <3>2, Thirds
      <4>2. uSent' = Append(uSent, RD!Reply(RDOwn + d + 1))
        BY <1>1, <2>3, <3>2, <4>1
      <4>3. Len(uSent) + 1 = RDLogin + (d + 1) /\ RDLogin + d + 1 = Len(uSent) + 1
        BY <1>0, <1>3, <2>4
      <4>4. QED
        BY <2>4, <3>1, <4>1, <4>2, <4>3, AppendIs
    <3>3. CASE m % 3 # 0
      <4>1. RDDone' \div 3 = d
        BY <1>0, <1>3, <2>1, <2>2, <2>0, <3>3, Thirds
      <4>2. uSent' = uSent
        BY <1>1, <2>3, <3>3
      <4>3. QED
        BY <2>4, <3>1, <4>1, <4>2
    <3>4. QED
      BY <3>2, <3>3
  <2>6. RDTypes'
    <3>1. Len(uSent') \in Nat /\ Len(uSent) <= Len(uSent')
      BY <1>0, <1>3, <2>4, <2>5
    <3>2. uRead \in 0..Len(uSent') /\ srvRead' \in 0..Len(toUpstream')
      <4>1. uRead \in 0..Len(uSent)
        BY <1>3 DEF RDTypes
      <4>2. QED
        BY <1>0, <1>1, <3>1, <4>1
    <3>3. QED
      BY <1>1, <1>3, <2>5, <3>2 DEF RDTypes
  <2>7. RDBytes'
    BY <1>1, <1>2 DEF RDInv, RDBytes
  <2>8. RDLogins'
    BY <1>1, <1>2, <1>0, <1>3 DEF RDInv, RDLogins
  <2>9. RDReplies'
    <3>1. ASSUME NEW i \in 1..RDLogin PROVE uSent'[i] = RD!AnswerCredential[i]
      <4>1. i \in 1..Len(uSent)
        BY <1>0, <1>3, <2>4
      <4>2. QED
        BY <2>5, <4>1 DEF RDInv, RDReplies
    <3>2. \A j \in 1..(RDDone' \div 3) : uSent'[RDLogin + j] = RD!Reply(RDOwn + j)
      <4>1. ASSUME NEW j \in 1..d PROVE uSent'[RDLogin + j] = RD!Reply(RDOwn + j)
        <5>1. RDLogin + j \in 1..Len(uSent)
          BY <1>0, <1>3, <2>4
        <5>2. uSent[RDLogin + j] = RD!Reply(RDOwn + j)
          BY <2>0 DEF RDInv, RDReplies
        <5>3. QED
          BY <2>5, <5>1, <5>2
      <4>2. RDLogin + d + 1 = RDLogin + (d + 1) /\ RDOwn + d + 1 = RDOwn + (d + 1)
        BY <1>0, <1>3, <2>4
      <4>3. \A j \in 1..(d + 1) : j \in 1..d \/ j = d + 1
        BY <2>4
      <4>4. QED
        BY <2>5, <4>1, <4>2, <4>3
    <3>3. QED
      BY <1>1, <1>2, <2>1, <2>5, <3>1, <3>2 DEF RDInv, RDReplies, RDSees, RDLineOpen
  <2>10. QED
    BY <2>6, <2>7, <2>8, <2>9 DEF RDInv
<1>6. QED
  BY <1>4, <1>5

LEMMA RDDial == ASSUME RDInv, RD!Dial, kind' = kind PROVE RDInv'
<1> USE DEF RD!clientVars, RD!serverVars, RD!Credential
<1>1. /\ pc = "dial"
      /\ UNCHANGED <<mode, script, cSent, cEof, uSent, srvRead, uEof, cRead, br, uRead, toClient>>
  BY DEF RD!Dial, RD!Close
<1>2. RDTypes
  BY DEF RDInv
<1>3. toUpstream = <<>> /\ cRead = 0 /\ uRead = 0 /\ toClient = <<>>
  BY <1>1 DEF RDInv, RDBytes, RDLogins
<1>4. /\ Len(toUpstream) = 0 /\ srvRead = 0 /\ RDCred = 0 /\ RDGiven = 0 /\ RDDone = 0
      /\ RDLogin = 0 /\ RDOwn = 0 /\ Len(toClient) = 0 /\ RDOwn' = 0
      /\ RDStray = 0 /\ RDStray' = 0
  BY <1>1, <1>2, <1>3, EmptyIs DEF RDTypes, RDCred, RDGiven, RDDone, RDLogin, RDOwn, RDStray
<1>5. Len(br) = 0 /\ Len(uSent) = 0 /\ 0 \div 3 = 0
  <2>1. 0 \div 3 = 0
    OBVIOUS
  <2>2. Len(uSent) = 0
    BY <1>4, <2>1 DEF RDInv, RDReplies
  <2>3. Len(br) <= 0 /\ Len(br) \in Nat
    BY <1>2, <1>3, <1>4, RDNumbers DEF RDInv, RDBytes
  <2>4. QED
    BY <2>1, <2>2, <2>3
<1>6. CASE pc' = "closed" /\ toUpstream' = toUpstream
  BY <1>1, <1>2, <1>6, RDStill, RDNumbers DEF RDTypes
<1>7. CASE mode = "none" /\ pc' = "peek" /\ toUpstream' = <<>>
  <2>1. /\ RDCred' = 0 /\ RDGiven' = 0 /\ RDDone' = 0 /\ RDLogin' = 0 /\ RDAuth1' = RDAuth1
    BY <1>1, <1>3, <1>4, <1>7, RDSameNumbers
  <2>2. RDTypes'
    BY <1>1, <1>2, <1>3, <1>7 DEF RDTypes, RD!Connected
  <2>3. RDBytes'
    BY <1>1, <1>3, <1>4, <1>5, <1>7, <2>1 DEF RDBytes
  <2>4. RDLogins'
    BY <1>1, <1>3, <1>4, <1>7, <2>1 DEF RDLogins
  <2>5. RDReplies'
    BY <1>1, <1>3, <1>4, <1>5, <1>7, <2>1 DEF RDInv, RDReplies
  <2>6. QED
    BY <2>2, <2>3, <2>4, <2>5 DEF RDInv
<1>8. CASE mode # "none" /\ pc' = "auth" /\ toUpstream' = <<0>>
  <2>1. Sequence(toUpstream') /\ Len(toUpstream') = 1 /\ toUpstream'[1] = 0
    BY <1>8, OneIs
  <2>2. /\ RDCred' = 1 /\ RDGiven' = 0 /\ RDDone' = 0 /\ RDLogin' = 0 /\ RDAuth1' = RDAuth1
    BY <1>1, <1>4, <2>1 DEF RDCred, RDGiven, RDDone, RDLogin, RDAuth1, RD!Kind
  <2>3. RDTypes'
    BY <1>1, <1>2, <1>4, <1>8, <2>1 DEF RDTypes, RD!Connected
  <2>4. RDBytes'
    BY <1>1, <1>3, <1>4, <1>5, <1>8, <2>2 DEF RDBytes
  <2>5. RDLogins'
    BY <1>1, <1>3, <1>4, <1>8, <2>2 DEF RDLogins
  <2>6. RDReplies'
    BY <1>1, <1>3, <1>4, <1>5, <1>8, <2>2 DEF RDInv, RDReplies
  <2>7. QED
    BY <2>3, <2>4, <2>5, <2>6 DEF RDInv
<1>9. QED
  BY <1>6, <1>7, <1>8 DEF RD!Dial, RD!Close, RD!AfterDial

LEMMA RDAuthReply == ASSUME RDInv, RD!AuthReply, kind' = kind PROVE RDInv'
<1> USE DEF RD!clientVars, RD!serverVars
<1>1. PICK k \in 1..(Len(uSent) - uRead) :
          /\ uRead' = uRead + k
          /\ pc' = IF RD!Accepts(SubSeq(uSent, uRead + 1, uRead + k))
                   THEN "peek" ELSE "closed"
  BY DEF RD!AuthReply
<1>2. /\ pc = "auth"
      /\ UNCHANGED <<mode, script, cSent, cEof, uSent, srvRead, uEof, cRead, br, toUpstream,
                     toClient>>
  BY DEF RD!AuthReply
<1>3. RDTypes
  BY DEF RDInv
<1>4. /\ RDCred' = RDCred /\ RDOwn' = RDOwn /\ RDGiven' = RDGiven /\ RDDone' = RDDone
      /\ RDLogin' = RDLogin /\ RDAuth1' = RDAuth1 /\ RDStray' = RDStray
      /\ RD!AnswerCredential' = RD!AnswerCredential
  BY <1>2, RDSameNumbers
<1>5. RDCred = 1 /\ RDGiven = 0 /\ cRead = 0 /\ uRead = 0 /\ toClient = <<>> /\ mode # "none"
  BY <1>2 DEF RDInv, RDBytes, RDLogins
<1>6. RDDone = 0 /\ 0 \div 3 = 0 /\ Len(uSent) = RDLogin /\ Len(uSent) \in Nat
  <2>1. 0 \div 3 = 0
    OBVIOUS
  <2>2. RDDone = 0
    BY <1>3, <1>5, RDNumbers
  <2>3. QED
    BY <1>3, <2>1, <2>2, RDNumbers DEF RDInv, RDReplies
<1>7. k \in 1..Len(uSent) /\ uRead' = k /\ srvRead > 0 /\ RDLogin = Len(RD!AnswerCredential)
  <2>1. k \in 1..Len(uSent) /\ uRead' = k
    BY <1>1, <1>5, <1>6
  <2>2. QED
    BY <1>6, <2>1 DEF RDLogin
<1>8. pc' = "peek" => k = Len(uSent) \/ (mode = "splitEnd" /\ RDLogin = 2 /\ k = 1)
  <2> DEFINE a == SubSeq(uSent, 1, k)
  <2>1. Len(a) = k /\ a[1] = uSent[1]
    BY <1>3, <1>6, <1>7, SubSeqIs DEF RDTypes
  <2>2. uSent[1] = RD!AnswerCredential[1]
    BY <1>6, <1>7 DEF RDInv, RDReplies
  <2>3. pc' = "peek" => RD!Accepts(a)
    BY <1>1, <1>5
  <2>4. CASE mode = "split"
    <3>1. RD!AnswerCredential = <<RD!OKBegin, RD!OKRest>>
      BY <2>4 DEF RD!AnswerCredential
    <3>2. a[1] \notin {RD!OK, RD!OKLine} /\ Len(uSent) = 2
      BY <1>6, <1>7, <2>1, <2>2, <3>1 DEF RD!OKBegin, RD!OK, RD!OKLine
    <3>3. QED
      BY <1>7, <2>1, <2>3, <3>2 DEF RD!Accepts
  <2>5. CASE mode = "splitEnd"
    <3>1. Len(RD!AnswerCredential) = 2
      BY <2>5 DEF RD!AnswerCredential
    <3>2. QED
      BY <1>6, <1>7, <2>5, <3>1
  <2>6. CASE mode \notin {"split", "splitEnd"}
    <3>1. Len(RD!AnswerCredential) = 1
      BY <2>6, OneIs DEF RD!AnswerCredential
    <3>2. QED
      BY <1>6, <1>7, <3>1
  <2>7. QED
    BY <2>4, <2>5, <2>6
<1>9. RDTypes'
  BY <1>1, <1>2, <1>3, <1>7 DEF RDTypes, RD!Connected
<1>10. pc' \in {"peek", "closed"} /\ Len(br) = 0
  <2>1. Len(br) \in Nat /\ Len(br) <= 0
    BY <1>3, <1>5, RDNumbers DEF RDInv, RDBytes
  <2>2. QED
    BY <1>1, <2>1
<1>11. RDBytes'
  BY <1>2, <1>4, <1>5, <1>10 DEF RDInv, RDBytes
<1>12. RDLogins'
  BY <1>2, <1>4, <1>5, <1>7, <1>10 DEF RDInv, RDLogins
<1>13. RDReplies'
  BY <1>2, <1>4, <1>6, <1>7, <1>8, <1>10 DEF RDInv, RDReplies, RDSees, RDLineOpen
<1>14. QED
  BY <1>9, <1>11, <1>12, <1>13 DEF RDInv

LEMMA RDFill == ASSUME RDInv, RD!Fill, kind' = kind PROVE RDInv'
<1> USE DEF RD!clientVars, RD!serverVars
<1>1. PICK k \in 1..(cSent - cRead) :
          br' = br \o [i \in 1..k |-> cRead + i] /\ cRead' = cRead + k
  BY DEF RD!Fill
<1>2. /\ UNCHANGED <<mode, script, cSent, cEof, uSent, srvRead, uEof, pc, uRead, toUpstream,
                     toClient>>
      /\ pc \in {"peek", "consume"}
  <2>1. Len(br) < RD!Wants
    BY DEF RD!Fill
  <2>2. ~(Len(br) < 0)
    BY RDNumbers DEF RDInv
  <2>3. QED
    BY <2>1, <2>2 DEF RD!Fill, RD!Wants
<1>3. RDTypes
  BY DEF RDInv
<1>4. /\ RDCred' = RDCred /\ RDOwn' = RDOwn /\ RDGiven' = RDGiven /\ RDDone' = RDDone
      /\ RDLogin' = RDLogin /\ RDAuth1' = RDAuth1 /\ RDStray' = RDStray
      /\ RD!AnswerCredential' = RD!AnswerCredential
  BY <1>2, RDSameNumbers
<1>5. cRead \in Nat /\ cSent \in Nat /\ k \in Nat /\ k > 0 /\ cRead + k <= cSent
      /\ Len(br) = cRead
  BY <1>1, <1>2, <1>3, RDNumbers DEF RDInv, RDTypes, RDBytes
<1> DEFINE new == [i \in 1..k |-> cRead + i]
<1>6. Sequence(new) /\ Len(new) = k
  <2>1. new \in [1..k -> Nat]
    BY <1>5
  <2>2. new \in Seq(Nat) /\ Len(new) = k
    BY <1>5, <2>1
  <2>3. QED
    BY <2>2 DEF Sequence
<1>7. Sequence(br') /\ Len(br') = cRead' /\ \A i \in 1..Len(br') : br'[i] = i
  <2>1. /\ Sequence(br') /\ Len(br') = cRead + k
        /\ \A i \in 1..cRead : br'[i] = br[i]
        /\ \A i \in 1..k : br'[cRead + i] = new[i]
    <3>1. Sequence(br) /\ br' = br \o new
      BY <1>1, <1>3 DEF RDTypes
    <3> HIDE DEF new
    <3>2. /\ Sequence(br \o new) /\ Len(br \o new) = Len(br) + Len(new)
          /\ \A i \in 1..Len(br) : (br \o new)[i] = br[i]
          /\ \A i \in 1..Len(new) : (br \o new)[Len(br) + i] = new[i]
      BY <1>6, <3>1, ConcatIs
    <3>3. QED
      BY <1>5, <1>6, <3>1, <3>2
  <2>2. \A i \in 1..cRead : br'[i] = i
    BY <1>5, <2>1 DEF RDInv, RDBytes
  <2>3. ASSUME NEW i \in 1..(cRead + k), i > cRead PROVE br'[i] = i
    <3>1. PICK j \in 1..k : cRead + j = i
      <4>1. i - cRead \in 1..k /\ cRead + (i - cRead) = i
        BY <1>5, <2>3
      <4>2. QED
        BY <4>1
    <3>2. new[j] = cRead + j
      OBVIOUS
    <3>3. QED
      BY <2>1, <3>1, <3>2
  <2>4. QED
    BY <1>1, <1>5, <2>1, <2>2, <2>3
<1>8. RDTypes'
  BY <1>1, <1>2, <1>3, <1>5, <1>7 DEF RDTypes
<1>9. RDBytes'
  <2>1. toClient = <<>> /\ RDGiven = 0 /\ RDOwn = 0
    BY <1>2, EmptyIs DEF RDInv, RDBytes, RDOwn
  <2>2. \A i \in 1..Len(br') : br'[i] = cRead' - Len(br') + i
    <3>1. cRead' \in Nat
      BY <1>1, <1>5
    <3>2. QED
      BY <1>7, <3>1
  <2>3. \A i \in 1..RDGiven' : FALSE
    BY <1>4, <2>1
  <2>4. 3 * RDOwn' + RDGiven' + Len(br') = cRead'
    BY <1>1, <1>4, <1>5, <1>7, <2>1
  <2>5. QED
    BY <1>1, <1>2, <1>4, <1>5, <1>7, <2>1, <2>2, <2>3, <2>4 DEF RDBytes
<1>10. RDLogins'
  BY <1>1, <1>2, <1>4, <1>5 DEF RDInv, RDLogins
<1>11. RDReplies'
  BY <1>2, <1>4 DEF RDInv, RDReplies, RDSees, RDLineOpen
<1>12. QED
  BY <1>8, <1>9, <1>10, <1>11 DEF RDInv

LEMMA RDPeek == ASSUME RDInv, RD!Peek, kind' = kind PROVE RDInv'
<1> USE DEF RD!clientVars, RD!serverVars
<1>1. /\ pc = "peek" /\ Len(br) >= RD!Wants
      /\ pc' = IF RD!Kind(br[1]) \in RDAuths THEN "consume" ELSE "relay"
      /\ UNCHANGED <<mode, script, cSent, cEof, uSent, srvRead, uEof, cRead, br, uRead,
                     toUpstream, toClient>>
  BY DEF RD!Peek, RD!Found, RDAuths
<1>2. RDTypes
  BY DEF RDInv
<1>3. /\ RDCred' = RDCred /\ RDOwn' = RDOwn /\ RDGiven' = RDGiven /\ RDDone' = RDDone
      /\ RDLogin' = RDLogin /\ RDAuth1' = RDAuth1 /\ RDStray' = RDStray
      /\ RD!AnswerCredential' = RD!AnswerCredential
  BY <1>1, RDSameNumbers
<1>4. /\ toClient = <<>> /\ RDGiven = 0 /\ RDOwn = 0 /\ Len(br) = cRead
      /\ Len(toClient) = 0 /\ RDStray = 0
  BY <1>1, EmptyIs DEF RDInv, RDBytes, RDOwn, RDStray
<1>5. Len(br) > 0 /\ br[1] = 1 /\ Len(script) > 0
  <2>1. RD!Wants \in {1, 2}
    BY <1>1 DEF RD!Wants
  <2>2. Len(br) > 0
    BY <1>1, <1>2, <2>1, RDNumbers
  <2>3. br[1] = cRead - Len(br) + 1
    BY <1>2, <2>2, RDNumbers DEF RDInv, RDBytes
  <2>4. Len(script) > 0
    BY <1>2, <1>4, <2>2, RDNumbers DEF RDTypes
  <2>5. QED
    BY <1>2, <1>4, <2>2, <2>3, <2>4, RDNumbers
<1>6. pc' = IF RDAuth1 THEN "consume" ELSE "relay"
  BY <1>1, <1>5 DEF RDAuth1
<1>7. RDTypes'
  BY <1>1, <1>2, <1>6 DEF RDTypes, RD!Connected
<1>8. RDBytes'
  BY <1>1, <1>2, <1>3, <1>4, <1>6, RDNumbers DEF RDInv, RDBytes
<1>9. RDLogins'
  BY <1>1, <1>3, <1>4, <1>5, <1>6 DEF RDInv, RDLogins
<1>10. RDReplies'
  BY <1>1, <1>2, <1>3, <1>4, <1>6, RDNumbers DEF RDInv, RDReplies, RDLineOpen
<1>11. QED
  BY <1>7, <1>8, <1>9, <1>10 DEF RDInv

LEMMA RDConsume == ASSUME RDInv, RD!ConsumeAuth, kind' = kind PROVE RDInv'
<1> USE DEF RD!clientVars, RD!serverVars
<1>1. /\ pc = "consume" /\ Len(br) >= 3 /\ br' = SubSeq(br, 4, Len(br))
      /\ toClient' = Append(toClient, RD!OwnOK) /\ pc' = "relay"
      /\ UNCHANGED <<mode, script, cSent, cEof, uSent, srvRead, uEof, cRead, uRead, toUpstream>>
  BY DEF RD!ConsumeAuth, RD!Wants, RD!Pieces, RD!AuthTaken
<1>2. RDTypes
  BY DEF RDInv
<1>3. /\ RDCred' = RDCred /\ RDGiven' = RDGiven /\ RDDone' = RDDone
      /\ RDLogin' = RDLogin /\ RDAuth1' = RDAuth1
      /\ RD!AnswerCredential' = RD!AnswerCredential
  BY <1>1, RDSameNumbers
<1>4. /\ toClient = <<>> /\ RDGiven = 0 /\ Len(br) = cRead /\ Len(toClient) = 0 /\ RDOwn = 0
      /\ RDAuth1 /\ Len(script) > 0
  BY <1>1, EmptyIs DEF RDInv, RDBytes, RDOwn, RDLogins, RDAuth1
<1>5. Sequence(toClient') /\ Len(toClient') = 1 /\ toClient'[1] = RD!OwnOK /\ RDOwn' = 1
      /\ RDStray' = 0
  <2>1. Sequence(toClient) /\ toClient' = Append(toClient, RD!OwnOK)
        /\ Len(toClient) + 1 = 1
    BY <1>1, <1>2, <1>4 DEF RDTypes
  <2>2. Sequence(toClient') /\ Len(toClient') = 1 /\ toClient'[1] = RD!OwnOK
    <3> DEFINE e == RD!OwnOK
               a == Append(toClient, e)
    <3> HIDE DEF e
    <3>1. Sequence(a) /\ Len(a) = Len(toClient) + 1 /\ a[Len(toClient) + 1] = e
      BY <2>1, AppendIs
    <3>2. toClient' = a
      BY <2>1 DEF e
    <3> HIDE DEF a
    <3>3. QED
      BY <2>1, <3>1, <3>2 DEF e
  <2>3. QED
    BY <2>2 DEF RDOwn, RDStray
<1>6. /\ Sequence(br') /\ Len(br') = cRead - 3 /\ cRead \in Nat /\ cRead >= 3
      /\ \A i \in 1..Len(br') : br'[i] = br[i + 3] /\ i + 3 \in 1..Len(br)
  BY <1>1, <1>2, <1>4, RDNumbers, SubSeqIs DEF RDTypes
<1>7. RDTypes'
  BY <1>1, <1>2, <1>5, <1>6 DEF RDTypes, RD!Connected
<1>8. RDBytes'
  <2>1. \A i \in 1..Len(br') : br'[i] = cRead - Len(br') + i
    <3>1. \A i \in 1..Len(br) : br[i] = i
      BY <1>4, <1>6 DEF RDInv, RDBytes
    <3>2. QED
      BY <1>6, <3>1
  <2>2. QED
    BY <1>1, <1>3, <1>4, <1>5, <1>6, <2>1 DEF RDBytes
<1>9. RDLogins'
  BY <1>1, <1>3, <1>4, <1>5 DEF RDInv, RDLogins
<1>10. RDReplies'
  <2>1. RDDone = 0
    BY <1>2, <1>4, RDNumbers
  <2>2. 0 \div 3 = 0
    OBVIOUS
  <2>3. RDLogin \in Nat /\ (uRead = RDLogin \/ RDLineOpen)
    BY <1>1, <1>2, RDNumbers DEF RDInv, RDReplies
  <2>4. 1 <= Len(script)
    BY <1>2, <1>4 DEF RDTypes
  <2>5. /\ Len(uSent') = RDLogin' + (RDDone' \div 3)
        /\ \A i \in 1..RDLogin' : uSent'[i] = RD!AnswerCredential'[i]
    BY <1>1, <1>3 DEF RDInv, RDReplies
  <2>6. \A j \in 1..(RDDone' \div 3) : uSent'[RDLogin' + j] = RD!Reply(RDOwn' + j)
    BY <1>3, <2>1, <2>2
  <2>7. \/ uRead' >= RDLogin' /\ Len(toClient') = RDOwn' + RDStray' + (uRead' - RDLogin')
        \/ RDLineOpen' /\ Len(toClient') = RDOwn'
    BY <1>1, <1>3, <1>5, <2>3 DEF RDLineOpen
  <2>8. \A i \in 1..Len(toClient') : toClient'[i] = RDSees(i)'
    BY <1>5 DEF RDSees
  <2>9. QED
    BY <1>1, <1>5, <2>4, <2>5, <2>6, <2>7, <2>8 DEF RDReplies
<1>11. QED
  BY <1>7, <1>8, <1>9, <1>10 DEF RDInv

LEMMA RDSilent == ASSUME RDInv, RD!ClientSilent, kind' = kind PROVE RDInv'
<1> USE DEF RD!clientVars, RD!serverVars
<1>1. /\ cEof
      /\ UNCHANGED <<mode, script, cSent, cEof, uSent, srvRead, uEof, cRead, br, uRead,
                     toUpstream, toClient>>
  BY DEF RD!ClientSilent, RD!Close
<1>2. RDTypes
  BY DEF RDInv
<1>3. CASE pc' = "closed"
  BY <1>1, <1>2, <1>3, RDStill, RDNumbers DEF RDTypes
<1>4. CASE pc = "peek" /\ Len(br) < RD!Wants /\ cRead = cSent /\ pc' = "relay"
  <2>1. /\ RDCred' = RDCred /\ RDOwn' = RDOwn /\ RDGiven' = RDGiven /\ RDDone' = RDDone
        /\ RDLogin' = RDLogin /\ RDAuth1' = RDAuth1 /\ RDStray' = RDStray
        /\ RD!AnswerCredential' = RD!AnswerCredential
    BY <1>1, RDSameNumbers
  <2>2. /\ toClient = <<>> /\ RDGiven = 0 /\ RDOwn = 0 /\ Len(br) = cRead
        /\ Len(toClient) = 0 /\ RDStray = 0
    BY <1>4, EmptyIs DEF RDInv, RDBytes, RDOwn, RDStray
  <2>3. cSent < 2
    <3>1. RD!Wants \in {1, 2}
      BY <1>4 DEF RD!Wants
    <3>2. QED
      BY <1>2, <1>4, <2>2, <3>1, RDNumbers
  <2>4. RDTypes'
    BY <1>1, <1>2, <1>4 DEF RDTypes, RD!Connected
  <2>5. RDBytes'
    BY <1>1, <1>2, <1>4, <2>1, <2>2, RDNumbers DEF RDInv, RDBytes
  <2>6. RDLogins'
    BY <1>1, <1>4, <2>1, <2>2, <2>3 DEF RDInv, RDLogins
  <2>7. RDReplies'
    BY <1>1, <1>2, <1>4, <2>1, <2>2, RDNumbers DEF RDInv, RDReplies, RDLineOpen
  <2>8. QED
    BY <2>4, <2>5, <2>6, <2>7 DEF RDInv
<1>5. QED
  BY <1>3, <1>4 DEF RD!ClientSilent, RD!Close

\* A piece that goes up from the buffer is one less in it.
LEMMA RDOneMore ==
    ASSUME RDOwn \in Nat, RDGiven \in Nat, Len(br) \in Nat, cRead \in Nat,
           Len(br') \in Nat, cRead' \in Nat,
           3 * RDOwn + RDGiven + Len(br) = cRead,
           cRead + Len(br') + 1 = cRead' + Len(br)
    PROVE  3 * RDOwn + (RDGiven + 1) + Len(br') = cRead'
  OBVIOUS

\* A piece is given on: the first of the buffer, or the next of the client.
LEMMA RDPass ==
    ASSUME RDInv, pc = "relay",
           UNCHANGED <<kind, pc, mode, script, cSent, cEof, uSent, srvRead, uEof, uRead, toClient>>,
           toUpstream' = Append(toUpstream, 3 * RDOwn + RDGiven + 1),
           Sequence(br'), cRead' \in cRead..cSent, cRead + Len(br') + 1 = cRead' + Len(br),
           \A i \in 1..Len(br') : br'[i] = cRead' - Len(br') + i
    PROVE  RDInv'
<1>1. RDTypes
  BY DEF RDInv
<1>0. /\ Len(toUpstream) \in Nat /\ Len(toClient) \in Nat /\ Len(uSent) \in Nat
      /\ Len(br) \in Nat /\ cRead \in Nat /\ cSent \in Nat /\ uRead \in Nat
      /\ srvRead \in Nat /\ RDCred \in {0, 1} /\ RDOwn \in {0, 1} /\ RDGiven \in Nat
      /\ RDDone \in Nat /\ RDDone <= RDGiven /\ RDLogin \in {0, 1, 2}
  BY <1>1, RDNumbers
<1> DEFINE m == 3 * RDOwn + RDGiven + 1
<1>2. m \in Nat /\ m > 0
  <2>1. RDOwn \in Nat /\ RDGiven \in Nat
    BY <1>0
  <2>2. QED
    BY <2>1
<1>3. /\ Sequence(toUpstream') /\ Len(toUpstream') = Len(toUpstream) + 1
      /\ \A i \in 1..Len(toUpstream) : toUpstream'[i] = toUpstream[i]
      /\ toUpstream'[Len(toUpstream) + 1] = m
  <2>1. Sequence(toUpstream) /\ toUpstream' = Append(toUpstream, m)
    BY <1>1 DEF RDTypes
  <2> HIDE DEF m
  <2>2. QED
    BY <2>1, AppendIs
<1> HIDE DEF m
<1>4. RDCred' = RDCred
  <2>1. CASE Len(toUpstream) = 0
    BY <1>0, <1>2, <1>3, <2>1 DEF RDCred
  <2>2. CASE Len(toUpstream) > 0
    <3>1. toUpstream'[1] = toUpstream[1]
      BY <1>0, <1>3, <2>2
    <3>2. QED
      BY <1>0, <1>3, <2>2, <3>1 DEF RDCred
  <2>3. QED
    BY <1>0, <2>1, <2>2
<1>5. /\ RDOwn' = RDOwn /\ RDGiven' = RDGiven + 1 /\ RDDone' = RDDone
      /\ RDLogin' = RDLogin /\ RDAuth1' = RDAuth1 /\ RDStray' = RDStray
      /\ RD!AnswerCredential' = RD!AnswerCredential
  <2>1. RDOwn' = RDOwn /\ RDStray' = RDStray /\ RDAuth1' = RDAuth1
    BY DEF RDOwn, RDStray, RDAuth1, RD!Kind
  <2>2. RD!AnswerCredential' = RD!AnswerCredential
    BY DEF RD!AnswerCredential
  <2>3. RDDone' = RDDone /\ RDLogin' = RDLogin
    BY <1>4, <2>2 DEF RDDone, RDLogin
  <2>4. RDGiven' = RDGiven + 1
    BY <1>0, <1>3, <1>4 DEF RDGiven
  <2>5. QED
    BY <2>1, <2>2, <2>3, <2>4
<1>6. RDTypes'
  BY <1>0, <1>1, <1>3 DEF RDTypes
<1>7. RDBytes'
  <2>1. ASSUME NEW i \in 1..RDGiven' PROVE toUpstream'[RDCred' + i] = 3 * RDOwn' + i
    <3>1. CASE i = RDGiven + 1
      <4>1. RDCred + i = Len(toUpstream) + 1 /\ m = 3 * RDOwn + i
        BY <1>0, <3>1 DEF RDGiven, m
      <4>2. QED
        BY <1>3, <1>4, <1>5, <4>1
    <3>2. CASE i \in 1..RDGiven
      <4>1. toUpstream[RDCred + i] = 3 * RDOwn + i
        BY <3>2 DEF RDInv, RDBytes
      <4>2. RDCred + i \in 1..Len(toUpstream)
        BY <1>0, <3>2 DEF RDGiven
      <4>3. QED
        BY <1>3, <1>4, <1>5, <4>1, <4>2
    <3>3. i \in 1..RDGiven \/ i = RDGiven + 1
      BY <1>0, <1>5
    <3>4. QED
      BY <3>1, <3>2, <3>3
  <2>2. 3 * RDOwn' + RDGiven' + Len(br') = cRead'
    <3>1. 3 * RDOwn + RDGiven + Len(br) = cRead
      BY DEF RDInv, RDBytes
    <3>2. Len(br') \in Nat
      BY LenIs
    <3>3. cRead' \in Nat
      BY <1>0, <1>1 DEF RDTypes
    <3>4. RDOwn \in Nat /\ RDGiven \in Nat /\ Len(br) \in Nat /\ cRead \in Nat
      BY <1>0
    <3>5. 3 * RDOwn + (RDGiven + 1) + Len(br') = cRead'
      BY <3>1, <3>2, <3>3, <3>4, RDOneMore, Zenon
    <3>6. QED
      BY <1>5, <3>5
  <2>3. pc' = "relay" /\ 3 * RDOwn' + RDGiven' + Len(br') <= cRead'
    <3>1. cRead' \in Nat
      BY <1>0, <1>1 DEF RDTypes
    <3>2. QED
      BY <2>2, <3>1
  <2>4. QED
    BY <2>1, <2>2, <2>3 DEF RDBytes
<1>8. RDLogins'
  BY <1>4, <1>5 DEF RDInv, RDLogins
<1>9. RDReplies'
  BY <1>5 DEF RDInv, RDReplies, RDSees, RDLineOpen
<1>10. QED
  BY <1>6, <1>7, <1>8, <1>9 DEF RDInv

LEMMA RDUpward == ASSUME RDInv, RD!Upward, kind' = kind PROVE RDInv'
<1> USE DEF RD!clientVars, RD!serverVars, RD!HeadFirst
<1>1. RDTypes
  BY DEF RDInv
<1>0. /\ Len(toUpstream) \in Nat /\ Len(toClient) \in Nat /\ Len(uSent) \in Nat
      /\ Len(br) \in Nat /\ cRead \in Nat /\ cSent \in Nat /\ uRead \in Nat
      /\ srvRead \in Nat /\ RDCred \in {0, 1} /\ RDOwn \in {0, 1} /\ RDGiven \in Nat
      /\ RDDone \in Nat /\ RDDone <= RDGiven /\ RDLogin \in {0, 1, 2}
  BY <1>1, RDNumbers
<1>2. CASE RD!RelayHead
  <2> USE <1>2 DEF RD!RelayHead
  <2>1. pc = "relay" /\ br # <<>> /\ Sequence(br)
    BY <1>1 DEF RDTypes
  <2>2. /\ Sequence(Tail(br)) /\ Len(Tail(br)) = Len(br) - 1 /\ Head(br) = br[1]
        /\ Len(br) > 0 /\ \A i \in 1..(Len(br) - 1) : Tail(br)[i] = br[i + 1]
    BY <2>1, TailIs
  <2>3. 3 * RDOwn + RDGiven + Len(br) = cRead
    BY <2>1 DEF RDInv, RDBytes
  <2>4. \A i \in 1..Len(br) : br[i] = cRead - Len(br) + i
    BY DEF RDInv, RDBytes
  <2>5. Head(br) = 3 * RDOwn + RDGiven + 1
    BY <1>0, <2>2, <2>3, <2>4
  <2>6. \A i \in 1..Len(br') : br'[i] = cRead' - Len(br') + i
    <3>1. br' = Tail(br) /\ cRead' = cRead
      OBVIOUS
    <3>2. ASSUME NEW i \in 1..(Len(br) - 1) PROVE Tail(br)[i] = cRead - (Len(br) - 1) + i
      <4>1. i + 1 \in 1..Len(br) /\ cRead - Len(br) + (i + 1) = cRead - (Len(br) - 1) + i
        BY <1>0, <3>2
      <4>2. br[i + 1] = cRead - Len(br) + (i + 1)
        BY <2>4, <4>1
      <4>3. QED
        BY <2>2, <4>1, <4>2
    <3>3. QED
      BY <2>2, <3>1, <3>2
  <2>7. cRead + Len(br') + 1 = cRead' + Len(br) /\ cRead' \in cRead..cSent
    BY <1>1, <2>2, <1>0 DEF RDTypes
  <2>8. QED
    BY <2>1, <2>2, <2>5, <2>6, <2>7, RDPass
<1>3. CASE RD!RelayToUpstream
  <2> USE <1>3 DEF RD!RelayToUpstream
  <2>1. pc = "relay" /\ br = <<>> /\ Sequence(br) /\ Len(br) = 0 /\ br' = br
    BY <1>1, EmptyIs DEF RDTypes
  <2>2. 3 * RDOwn + RDGiven + Len(br) = cRead
    BY <2>1 DEF RDInv, RDBytes
  <2>3. cRead + 1 = 3 * RDOwn + RDGiven + 1
    BY <1>0, <2>1, <2>2
  <2>4. cRead + Len(br') + 1 = cRead' + Len(br) /\ cRead' \in cRead..cSent
    BY <1>0, <1>1, <2>1 DEF RDTypes
  <2>5. \A i \in 1..Len(br') : br'[i] = cRead' - Len(br') + i
    BY <2>1
  <2>6. QED
    BY <2>1, <2>3, <2>4, <2>5, RDPass
<1>4. QED
  BY <1>2, <1>3 DEF RD!Upward

\* What a step of the relay gives the client, at its place among what it has.
LEMMA RDNextReply ==
    ASSUME RDInv, pc = "relay", uRead < Len(uSent)
    PROVE  LET n == Len(toClient) + 1 IN
           \/ /\ uRead >= RDLogin /\ uSent[uRead + 1] = RD!Reply(n - RDStray)
              /\ Len(toClient) = RDOwn + RDStray + (uRead - RDLogin)
              /\ n <= Len(script) + RDStray /\ ~(RDAuth1 /\ RDOwn = 0)
           \/ /\ RDLineOpen /\ uSent[uRead + 1] = RD!LineEnd
              /\ Len(toClient) = RDOwn /\ RDStray = 0
<1>2. RDTypes
  BY DEF RDInv
<1>0. /\ Len(toUpstream) \in Nat /\ Len(toClient) \in Nat /\ Len(uSent) \in Nat
      /\ Len(br) \in Nat /\ cRead \in Nat /\ cSent \in Nat /\ uRead \in Nat
      /\ srvRead \in Nat /\ RDCred \in {0, 1} /\ RDOwn \in {0, 1} /\ RDGiven \in Nat
      /\ RDDone \in Nat /\ RDDone <= RDGiven /\ RDLogin \in {0, 1, 2}
      /\ RDStray \in {0, 1}
  BY <1>2, RDNumbers
<1>1. CASE RDLineOpen /\ Len(toClient) = RDOwn
  <2>1. uSent[2] = RD!AnswerCredential[2]
    BY <1>1 DEF RDInv, RDReplies, RDLineOpen
  <2>2. RD!AnswerCredential = <<RD!OKLine, RD!LineEnd>>
    BY <1>1 DEF RDLineOpen, RD!AnswerCredential
  <2>3. uSent[uRead + 1] = RD!LineEnd
    BY <1>1, <2>1, <2>2 DEF RDLineOpen
  <2>4. RDStray = 0
    BY <1>0, <1>1 DEF RDStray
  <2>5. QED
    BY <1>1, <2>3, <2>4
<1>3. CASE uRead >= RDLogin /\ Len(toClient) = RDOwn + RDStray + (uRead - RDLogin)
  <2> DEFINE d == RDDone \div 3
             j == uRead + 1 - RDLogin
  <2>4. d \in Nat /\ 3 * d <= RDDone
    BY <1>0, Thirds
  <2>5. Len(uSent) = RDLogin + d
    BY DEF RDInv, RDReplies
  <2>6. /\ j \in 1..d /\ RDLogin + j = uRead + 1
        /\ RDOwn + j = (Len(toClient) + 1) - RDStray
    <3> HIDE DEF d
    <3>1. j = uRead + 1 - RDLogin
      OBVIOUS
    <3> HIDE DEF j
    <3>2. QED
      BY <1>0, <1>3, <2>4, <2>5, <3>1
  <2>7. uSent[uRead + 1] = RD!Reply((Len(toClient) + 1) - RDStray)
    <3>1. uSent[RDLogin + j] = RD!Reply(RDOwn + j)
      BY <2>6 DEF RDInv, RDReplies
    <3>2. QED
      BY <2>6, <3>1
  <2> HIDE DEF d, j
  <2>8. /\ 3 * RDOwn + RDGiven <= cRead /\ 3 * RDOwn + 3 * d <= cSent
        /\ cSent <= 3 * Len(script) /\ Len(script) \in Nat
    <3>1. 3 * RDOwn + RDGiven + Len(br) <= cRead
      BY DEF RDInv, RDBytes
    <3>2. cRead <= cSent /\ cSent <= 3 * Len(script) /\ Len(script) \in Nat
      BY <1>2 DEF RDTypes
    <3>3. QED
      BY <1>0, <2>4, <3>1, <3>2
  <2>9. ~(RDAuth1 /\ RDOwn = 0)
    BY <1>0, <2>4, <2>6, <2>8 DEF RDInv, RDLogins
  <2>10. Len(toClient) + 1 <= Len(script) + RDStray
    <3>1. RDOwn + d <= Len(script)
      BY <1>0, <2>4, <2>8
    <3>2. RDOwn + j <= RDOwn + d
      BY <1>0, <2>4, <2>6
    <3>3. RDOwn + j \in Nat
      BY <1>0, <2>4, <2>6
    <3>4. RDOwn + j <= Len(script)
      BY <1>0, <2>4, <2>8, <3>1, <3>2, <3>3
    <3>5. Len(toClient) + 1 = RDOwn + j + RDStray
      BY <1>0, <2>6, <3>3
    <3>6. QED
      BY <1>0, <2>8, <3>3, <3>4, <3>5
  <2>11. QED
    BY <1>3, <2>7, <2>9, <2>10
<1>4. QED
  BY <1>1, <1>3 DEF RDInv, RDReplies

LEMMA RDDownward == ASSUME RDInv, RD!RelayToClient, kind' = kind PROVE RDInv'
<1> USE DEF RD!clientVars, RD!serverVars
<1> DEFINE n == Len(toClient) + 1
           e == uSent[uRead + 1]
<1>1. /\ pc = "relay" /\ uRead < Len(uSent) /\ uRead' = uRead + 1
      /\ toClient' = Append(toClient, e)
      /\ UNCHANGED <<pc, mode, script, cSent, cEof, uSent, srvRead, uEof, cRead, br, toUpstream>>
  BY DEF RD!RelayToClient
<1>2. RDTypes
  BY DEF RDInv
<1>0. /\ Len(toClient) \in Nat /\ Len(uSent) \in Nat /\ uRead \in Nat
      /\ RDOwn \in {0, 1} /\ RDLogin \in {0, 1, 2} /\ RDStray \in {0, 1}
  BY <1>2, RDNumbers
<1>3. /\ RDCred' = RDCred /\ RDGiven' = RDGiven /\ RDDone' = RDDone
      /\ RDLogin' = RDLogin /\ RDAuth1' = RDAuth1
      /\ RD!AnswerCredential' = RD!AnswerCredential
  BY <1>1, RDSameNumbers
<1>4. \/ /\ uRead >= RDLogin /\ e = RD!Reply(n - RDStray)
         /\ Len(toClient) = RDOwn + RDStray + (uRead - RDLogin)
         /\ n <= Len(script) + RDStray /\ ~(RDAuth1 /\ RDOwn = 0)
      \/ /\ RDLineOpen /\ e = RD!LineEnd
         /\ Len(toClient) = RDOwn /\ RDStray = 0
  BY <1>1, RDNextReply
<1> HIDE DEF e
<1>5. /\ Sequence(toClient') /\ Len(toClient') = n
      /\ \A i \in 1..Len(toClient) : toClient'[i] = toClient[i]
      /\ toClient'[n] = e
  BY <1>1, <1>2, AppendIs DEF RDTypes
<1>6. RDOwn' = RDOwn
  <2>1. e # RD!OwnOK
    BY <1>4 DEF RD!Reply, RD!LineEnd, RD!OwnOK
  <2>2. CASE Len(toClient) = 0
    BY <1>5, <2>1, <2>2 DEF RDOwn
  <2>3. CASE Len(toClient) > 0
    <3>1. toClient'[1] = toClient[1]
      BY <1>0, <1>5, <2>3
    <3>2. QED
      BY <1>0, <1>5, <2>3, <3>1 DEF RDOwn
  <2>4. QED
    BY <1>0, <2>2, <2>3
<1>7. RDTypes'
  BY <1>0, <1>1, <1>2, <1>5 DEF RDTypes
<1>8. RDBytes'
  BY <1>1, <1>3, <1>6 DEF RDInv, RDBytes
<1>9. \A i \in 1..Len(toClient) : toClient[i] = RDSees(i)
  BY DEF RDInv, RDReplies
<1>10. \A i \in 1..Len(toClient') : i \in 1..Len(toClient) \/ i = n
  BY <1>0, <1>5
<1>11. RDOwn = 1 => Len(toClient) > 0
  BY DEF RDOwn
<1>12. /\ Len(uSent') = RDLogin' + (RDDone' \div 3)
       /\ \A i \in 1..RDLogin' : uSent'[i] = RD!AnswerCredential'[i]
       /\ \A j \in 1..(RDDone' \div 3) : uSent'[RDLogin' + j] = RD!Reply(RDOwn' + j)
  BY <1>1, <1>3, <1>6 DEF RDInv, RDReplies
<1>13. CASE /\ uRead >= RDLogin /\ e = RD!Reply(n - RDStray)
            /\ Len(toClient) = RDOwn + RDStray + (uRead - RDLogin)
            /\ n <= Len(script) + RDStray /\ ~(RDAuth1 /\ RDOwn = 0)
  <2>1. RDStray' = RDStray
    <3>1. CASE Len(toClient) = RDOwn
      <4>1. RDStray = 0 /\ toClient'[RDOwn + 1] = e /\ e # RD!LineEnd
        BY <1>0, <1>5, <1>13, <3>1 DEF RDStray, RD!Reply, RD!LineEnd
      <4>2. QED
        BY <1>6, <4>1 DEF RDStray
    <3>2. CASE Len(toClient) > RDOwn
      <4>1. toClient'[RDOwn + 1] = toClient[RDOwn + 1] /\ Len(toClient') > RDOwn
        BY <1>0, <1>5, <3>2
      <4>2. QED
        BY <1>6, <3>2, <4>1 DEF RDStray
    <3>3. QED
      BY <1>0, <1>13, <3>1, <3>2
  <2>2. RDLogins'
    BY <1>1, <1>3, <1>6, <1>13 DEF RDInv, RDLogins
  <2>3. \A i \in 1..Len(toClient') : toClient'[i] = RDSees(i)'
    <3>1. \A i \in 1..Len(toClient') : RDSees(i)' = RDSees(i)
      BY <1>6, <2>1 DEF RDSees
    <3>2. RDSees(n) = e
      <4>1. ~(n = 1 /\ RDOwn = 1) /\ ~(n = RDOwn + 1 /\ RDStray = 1)
        BY <1>0, <1>11, <1>13
      <4>2. QED
        BY <1>13, <4>1 DEF RDSees
    <3>3. QED
      BY <1>5, <1>9, <1>10, <3>1, <3>2
  <2>4. uRead' >= RDLogin' /\ Len(toClient') = RDOwn' + RDStray' + (uRead' - RDLogin')
    BY <1>0, <1>1, <1>3, <1>5, <1>6, <1>13, <2>1
  <2>5. RDStray' = 1 => mode' = "splitEnd"
    BY <1>1, <2>1 DEF RDInv, RDReplies
  <2>6. RDReplies'
    BY <1>1, <1>5, <1>12, <1>13, <2>1, <2>3, <2>4, <2>5 DEF RDReplies
  <2>7. QED
    BY <1>7, <1>8, <2>2, <2>6 DEF RDInv
<1>14. CASE /\ RDLineOpen /\ e = RD!LineEnd
            /\ Len(toClient) = RDOwn /\ RDStray = 0
  <2>1. RDStray' = 1
    BY <1>0, <1>5, <1>6, <1>14 DEF RDStray
  <2>2. RDLogins'
    BY <1>1, <1>3, <1>5, <1>6, <1>14, <2>1 DEF RDInv, RDLogins
  <2>3. \A i \in 1..Len(toClient') : toClient'[i] = RDSees(i)'
    <3>0. \A i : RDSees(i)' = IF i = 1 /\ RDOwn = 1 THEN RD!OwnOK
                             ELSE IF i = RDOwn + 1 THEN RD!LineEnd ELSE RD!Reply(i - 1)
      BY <1>6, <2>1 DEF RDSees
    <3>1. ASSUME NEW i \in 1..Len(toClient) PROVE toClient'[i] = RDSees(i)'
      <4>1. i = 1 /\ RDOwn = 1
        BY <1>0, <1>14, <3>1
      <4>2. toClient[1] = RD!OwnOK
        BY <4>1 DEF RDOwn
      <4>3. toClient'[1] = toClient[1]
        BY <1>5, <3>1, <4>1
      <4>4. QED
        BY <3>0, <4>1, <4>2, <4>3
    <3>2. ASSUME NEW i, i = n PROVE toClient'[i] = RDSees(i)'
      <4>1. Len(toClient) = RDOwn /\ e = RD!LineEnd /\ toClient'[i] = e
        BY <1>5, <1>14, <3>2
      <4>2. i = RDOwn + 1 /\ ~(i = 1 /\ RDOwn = 1)
        BY <1>0, <3>2, <4>1
      <4>3. RDSees(i)' = RD!LineEnd
        BY <3>0, <4>2
      <4>4. QED
        BY <4>1, <4>3
    <3>3. QED
      BY <1>5, <1>10, <3>1, <3>2
  <2>4. uRead' >= RDLogin' /\ Len(toClient') = RDOwn' + RDStray' + (uRead' - RDLogin')
    BY <1>0, <1>1, <1>3, <1>5, <1>6, <1>14, <2>1 DEF RDLineOpen
  <2>5. mode' = "splitEnd" /\ Len(toClient') <= Len(script') + RDStray'
    <3>1. Len(toClient) <= Len(script) /\ Len(script) \in Nat
      BY <1>0, <1>2, <1>14 DEF RDInv, RDReplies, RDTypes
    <3>2. QED
      BY <1>0, <1>1, <1>5, <1>14, <2>1, <3>1 DEF RDLineOpen
  <2>6. RDReplies'
    BY <1>1, <1>12, <2>3, <2>4, <2>5 DEF RDReplies
  <2>7. QED
    BY <1>7, <1>8, <2>2, <2>6 DEF RDInv
<1>15. QED
  BY <1>4, <1>13, <1>14

LEMMA RDNext == ASSUME RDInv, RD!Next, kind' = kind PROVE RDInv'
<1> USE DEF RD!clientVars, RD!serverVars, RD!handlerVars
<1>1. RDTypes
  BY DEF RDInv
<1>2. cSent \in Nat /\ Len(script) \in Nat
  BY <1>1, RDNumbers DEF RDTypes
<1>3. cSent \in cSent..(3 * Len(script)) /\ cEof \in BOOLEAN /\ uEof \in BOOLEAN
  BY <1>1, <1>2 DEF RDTypes
<1>4. CASE RD!ClientSends
  <2>1. /\ ~cEof /\ cSent < 3 * Len(script) /\ cSent' = cSent + 1
        /\ UNCHANGED <<pc, mode, script, cRead, br, toUpstream, toClient, uSent, uRead, srvRead,
                       cEof, uEof>>
    BY <1>4 DEF RD!ClientSends, RD!EndOf, RD!Pieces
  <2>2. cSent' \in cSent..(3 * Len(script))
    BY <1>2, <2>1
  <2>3. QED
    BY <1>3, <2>1, <2>2, RDStill
<1>5. CASE RD!ClientCloses
  BY <1>3, <1>5, RDStill DEF RD!ClientCloses
<1>6. CASE RD!UpstreamCloses
  BY <1>3, <1>6, RDStill DEF RD!UpstreamCloses
<1>7. CASE RD!AuthLost
  BY <1>3, <1>7, RDStill DEF RD!AuthLost, RD!Close
<1>8. CASE RD!RelayEnds
  BY <1>3, <1>8, RDStill DEF RD!RelayEnds, RD!Close
<1>9. CASE RD!UpstreamAnswers
  BY <1>9, RDAnswers
<1>10. CASE RD!Dial \/ RD!AuthReply \/ RD!Fill
  BY <1>10, RDDial, RDAuthReply, RDFill
<1>11. CASE RD!Peek \/ RD!ConsumeAuth \/ RD!ClientSilent
  BY <1>11, RDPeek, RDConsume, RDSilent
<1>12. CASE RD!Upward \/ RD!RelayToClient
  BY <1>12, RDUpward, RDDownward
<1>13. QED
  BY <1>4, <1>5, <1>6, <1>7, <1>8, <1>9, <1>10, <1>11, <1>12
  DEF RD!Next, RD!Handler, RD!Relay

\* The invariant says what RedisProxy promises.
LEMMA RDMeans == ASSUME RDInv PROVE RD!ClientBytesOnce /\ RD!RepliesMatch
<1>1. RDTypes
  BY DEF RDInv
<1>0. /\ Len(toUpstream) \in Nat /\ Len(toClient) \in Nat /\ Len(br) \in Nat
      /\ cRead \in Nat /\ RDCred \in {0, 1} /\ RDOwn \in {0, 1} /\ RDGiven \in Nat
  BY <1>1, RDNumbers
<1> DEFINE f == RD!FromTheClient
<1>2. /\ Sequence(f) /\ Len(f) = RDGiven
      /\ \A i \in 1..RDGiven : f[i] = toUpstream[RDCred + i]
  <2>1. Sequence(toUpstream) /\ (toUpstream # <<>> <=> Len(toUpstream) > 0)
    BY <1>0, <1>1, EmptyIs DEF RDTypes
  <2>2. CASE RDCred = 1
    <3>1. toUpstream # <<>> /\ toUpstream[1] = 0
      BY <2>1, <2>2 DEF RDCred
    <3>2. /\ Sequence(Tail(toUpstream)) /\ Len(Tail(toUpstream)) = Len(toUpstream) - 1
          /\ Head(toUpstream) = toUpstream[1]
          /\ \A i \in 1..(Len(toUpstream) - 1) : Tail(toUpstream)[i] = toUpstream[i + 1]
      BY <2>1, <3>1, TailIs
    <3>3. f = Tail(toUpstream)
      BY <3>1, <3>2 DEF RD!FromTheClient, RD!Credential
    <3> HIDE DEF f
    <3>4. RDGiven = Len(toUpstream) - 1 /\ \A i \in 1..RDGiven : i + 1 = RDCred + i
      BY <1>0, <2>2 DEF RDGiven
    <3>5. QED
      BY <3>2, <3>3, <3>4
  <2>3. CASE RDCred = 0
    <3>1. f = toUpstream
      <4>1. CASE toUpstream = <<>>
        BY <4>1 DEF RD!FromTheClient
      <4>2. CASE toUpstream # <<>>
        <5>1. Len(toUpstream) > 0 /\ Head(toUpstream) = toUpstream[1]
          BY <2>1, <4>2, TailIs
        <5>2. toUpstream[1] # 0
          BY <2>3, <5>1 DEF RDCred
        <5>3. QED
          BY <5>1, <5>2 DEF RD!FromTheClient, RD!Credential
      <4>3. QED
        BY <4>1, <4>2
    <3> HIDE DEF f
    <3>2. RDGiven = Len(toUpstream) /\ \A i \in 1..RDGiven : i = RDCred + i
      BY <1>0, <2>3 DEF RDGiven
    <3>3. QED
      BY <2>1, <3>1, <3>2
  <2>4. QED
    BY <1>0, <2>2, <2>3
<1> HIDE DEF f
<1>3. RD!Intercepted = 3 * RDOwn
  <2>1. RDOwn = 1 <=> RD!OwnOK \in RD!Range(toClient)
    <3>1. /\ \A m \in Range(toClient) : \E i \in 1..Len(toClient) : toClient[i] = m
          /\ \A i \in 1..Len(toClient) : toClient[i] \in Range(toClient)
      BY <1>1, RangeIs DEF RDTypes
    <3>2. RD!Range(toClient) = Range(toClient)
      BY DEF RD!Range, Range
    <3>3. ASSUME RDOwn = 1 PROVE RD!OwnOK \in RD!Range(toClient)
      <4>1. 1 \in 1..Len(toClient) /\ toClient[1] = RD!OwnOK
        BY <1>0, <3>3 DEF RDOwn
      <4>2. QED
        BY <3>1, <3>2, <4>1
    <3>4. ASSUME RD!OwnOK \in RD!Range(toClient) PROVE RDOwn = 1
      <4>1. PICK i \in 1..Len(toClient) : toClient[i] = RD!OwnOK
        BY <3>1, <3>2, <3>4
      <4>2. toClient[i] = RDSees(i)
        BY DEF RDInv, RDReplies
      <4>3. QED
        BY <1>0, <4>1, <4>2 DEF RDSees, RD!OwnOK, RD!LineEnd, RD!Reply
    <3>5. QED
      BY <3>3, <3>4
  <2>2. QED
    BY <1>0, <2>1 DEF RD!Intercepted, RD!Pieces
<1>4. RD!ClientBytesOnce
  <2> DEFINE whole == [i \in 1..Len(f) |-> RD!Intercepted + i]
  <2>1. \A i \in 1..RDGiven : f[i] = 3 * RDOwn + i
    BY <1>2 DEF RDInv, RDBytes
  <2>2. Sequence(whole) /\ Len(whole) = Len(f) /\ \A i \in 1..Len(f) : whole[i] = 3 * RDOwn + i
    <3>1. Len(f) \in Nat /\ 3 * RDOwn \in Nat
      <4>1. RDOwn \in Nat
        BY <1>0
      <4>2. QED
        BY <1>0, <1>2, <4>1
    <3>2. whole = [i \in 1..Len(f) |-> 3 * RDOwn + i]
      BY <1>3
    <3>3. whole \in [1..Len(f) -> Nat]
      BY <3>1, <3>2
    <3>4. whole \in Seq(Nat) /\ Len(whole) = Len(f)
      <4> HIDE DEF whole
      <4>1. QED
        BY <3>1, <3>3
    <3>5. QED
      BY <3>2, <3>4 DEF Sequence
  <2> HIDE DEF whole
  <2>3. f = whole
    BY <1>2, <2>1, <2>2, SameSequence
  <2>4. pc = "relay" => RD!Intercepted + Len(f) + Len(br) = cRead
    BY <1>2, <1>3 DEF RDInv, RDBytes
  <2>5. QED
    BY <2>3, <2>4 DEF RD!ClientBytesOnce, f, whole
<1>5. RD!RepliesMatch
  <2>0. RDStray \in {0, 1} /\ Len(script) \in Nat
    BY <1>1, RDNumbers DEF RDTypes
  <2>1. /\ \A m \in Range(toClient) : \E i \in 1..Len(toClient) : toClient[i] = m
        /\ \A i \in 1..Len(toClient) : toClient[i] \in Range(toClient)
        /\ RD!Range(toClient) = Range(toClient)
    BY <1>1, RangeIs DEF RDTypes, RD!Range, Range
  <2>2. \A i \in 1..Len(toClient) : toClient[i] = RDSees(i)
    BY DEF RDInv, RDReplies
  <2>3. RD!Stray = RDStray
    <3>1. ASSUME RDStray = 1 PROVE RD!LineEnd \in Range(toClient)
      BY <1>0, <2>1, <3>1 DEF RDStray
    <3>2. ASSUME RD!LineEnd \in Range(toClient) PROVE RDStray = 1
      <4>1. PICK i \in 1..Len(toClient) : RDSees(i) = RD!LineEnd
        BY <2>1, <2>2, <3>2
      <4>2. QED
        BY <2>0, <4>1 DEF RDSees, RD!LineEnd, RD!OwnOK, RD!Reply
    <3>3. QED
      BY <2>0, <2>1, <3>1, <3>2 DEF RD!Stray
  <2>4. (IF RD!OwnOK \in RD!Range(toClient) THEN 1 ELSE 0) = RDOwn
    <3>1. ASSUME RDOwn = 1 PROVE RD!OwnOK \in Range(toClient)
      BY <1>0, <2>1, <3>1 DEF RDOwn
    <3>2. ASSUME RD!OwnOK \in Range(toClient) PROVE RDOwn = 1
      <4>1. PICK i \in 1..Len(toClient) : RDSees(i) = RD!OwnOK
        BY <2>1, <2>2, <3>2
      <4>2. QED
        BY <1>0, <4>1 DEF RDSees, RD!LineEnd, RD!OwnOK, RD!Reply
    <3>3. QED
      BY <1>0, <2>1, <3>1, <3>2
  <2> DEFINE first == IF RD!Kind(1) \in RDAuths THEN 1 ELSE 0
             Right(i) == \/ toClient[i] = RD!Reply(i - RDStray) /\ i > first + RDStray
                         \/ toClient[i] = RD!OwnOK /\ i = first
                         \/ toClient[i] = RD!LineEnd /\ i = RDOwn + 1 /\ mode = "splitEnd"
  <2>5. ASSUME NEW i \in 1..Len(toClient) PROVE Right(i)
    <3>1. CASE i = 1 /\ RDOwn = 1
      <4>1. toClient[i] = RD!OwnOK /\ RDAuth1
        BY <2>2, <3>1 DEF RDSees, RDInv, RDLogins
      <4>2. QED
        BY <3>1, <4>1 DEF RDAuth1
    <3>2. CASE ~(i = 1 /\ RDOwn = 1) /\ i = RDOwn + 1 /\ RDStray = 1
      BY <2>2, <3>2 DEF RDSees, RDInv, RDReplies
    <3>3. CASE ~(i = 1 /\ RDOwn = 1) /\ ~(i = RDOwn + 1 /\ RDStray = 1)
      <4>1. toClient[i] = RD!Reply(i - RDStray) /\ i > RDOwn + RDStray
        BY <1>0, <2>0, <2>2, <3>3 DEF RDSees
      <4>2. Len(script) > 0
        BY <1>0, <2>0, <2>5, <4>1 DEF RDInv, RDReplies
      <4>3. first = 1 => RDOwn = 1
        <5>1. RDAuth1 /\ RDOwn = 0 => Len(toClient) = RDStray
          BY DEF RDInv, RDLogins
        <5>2. QED
          BY <1>0, <2>0, <2>5, <4>1, <4>2, <5>1 DEF RDAuth1
      <4>4. QED
        BY <1>0, <2>0, <4>1, <4>3
    <3>4. QED
      BY <3>1, <3>2, <3>3
  <2>6. QED
    BY <2>3, <2>4, <2>5 DEF RD!RepliesMatch, RDAuths
<1>6. QED
  BY <1>4, <1>5

LEMMA RDStutter == ASSUME RDInv, UNCHANGED vars PROVE RDInv'
<1>1. RDTypes
  BY DEF RDInv
<1>2. cSent \in Nat /\ Len(script) \in Nat
  BY <1>1, RDNumbers DEF RDTypes
<1>3. cSent \in cSent..(3 * Len(script)) /\ cEof \in BOOLEAN /\ uEof \in BOOLEAN
  BY <1>1, <1>2 DEF RDTypes
<1>4. QED
  BY <1>3, RDStill DEF vars

-----------------------------------------------------------------------------
(* The steps as CredentialSession sees them *)

\* A step takes the session from phase p, verdict v and n messages passed to q, w
\* and m.
MayGo(p, q, v, w, n, m) ==
    \/ q = p /\ w = v /\ m = n
    \/ v = "pending" /\ w \in {"accepted", "refused", "other"} /\ q = p /\ m = n
    \/ p = "opening" /\ v \in {"accepted", "other"} /\ q \in {"granted", "relay"} /\ w = v /\ m = n
    \/ p = "granted" /\ q = "relay" /\ w = v /\ m = n
    \/ p = "relay" /\ q = p /\ w = v /\ m = n + 1
    \/ p # "closed" /\ q = "closed" /\ w = v /\ m = n

\* Then it is a step of CredentialSession, or none.
LEMMA MayGoIs ==
    ASSUME MayGo(Phase, Phase', Verdict, Verdict', Passed, Passed')
    PROVE  [Abstract!Next]_(Abstract!vars)
<1> USE DEF Abstract!Next, Abstract!vars
<1> DEFINE same == Verdict' = Verdict /\ Passed' = Passed
<1>1. CASE Phase' = Phase /\ same
  BY <1>1
<1>2. CASE /\ Verdict = "pending" /\ Verdict' \in {"accepted", "refused", "other"}
           /\ Phase' = Phase /\ Passed' = Passed
  BY <1>2 DEF Abstract!UpstreamAnswers
<1>3. CASE /\ Phase = "opening" /\ Verdict \in {"accepted", "other"}
           /\ Phase' \in {"granted", "relay"} /\ same
  BY <1>3 DEF Abstract!Grant
<1>4. CASE Phase = "granted" /\ Phase' = "relay" /\ same
  BY <1>4 DEF Abstract!Open
<1>5. CASE Phase = "relay" /\ Phase' = Phase /\ Verdict' = Verdict /\ Passed' = Passed + 1
  BY <1>5 DEF Abstract!Pass
<1>6. CASE Phase # "closed" /\ Phase' = "closed" /\ same
  BY <1>6 DEF Abstract!Close
<1>7. QED
  BY <1>1, <1>2, <1>3, <1>4, <1>5, <1>6 DEF MayGo

\* An HTTP connection opens no session: all it does is end.
LEMMA HTRefines ==
    ASSUME HTInv, HT!Next, UNCHANGED <<kind, br>>
    PROVE  MayGo(Phase, Phase', Verdict, Verdict', Passed, Passed')
<1>1. kind = "http" /\ kind' = "http"
  BY DEF HTInv, HTTypes
<1>2. Verdict' = Verdict /\ Passed' = Passed
  BY <1>1 DEF Verdict, Passed
<1>3. /\ Phase  = IF pc = "closed" THEN "closed" ELSE "opening"
      /\ Phase' = IF pc' = "closed" THEN "closed" ELSE "opening"
  BY <1>1 DEF Phase
<1>4. pc = "closed" => pc' = "closed"
  BY DEF HT!Next, HT!ClientSends, HT!ClientCloses, HT!UpstreamAnswers, HT!Answer, HT!Handler,
         HT!Serve, HT!ForwardAnswer, HT!ExchangeFails, HT!AnswerBreaksOff, HT!ClientLeft,
         HT!ClientGone, HT!Close, HT!handlerVars
<1>5. QED
  BY <1>2, <1>3, <1>4 DEF MayGo

-----------------------------------------------------------------------------
(* The Redis connections and the abstract session *)

\* The client's pieces in what the upstream got: all, or those behind the
\* configured password.
RDBehind(u) == IF u # <<>> /\ Head(u) = 0 THEN Tail(u) ELSE u

LEMMA RDBehindIs ==
    ASSUME NEW u, Sequence(u)
    PROVE  /\ Len(RDBehind(u)) \in Nat
           /\ (Len(u) = 0 \/ u[1] # 0) => Len(RDBehind(u)) = Len(u)
           /\ (Len(u) > 0 /\ u[1] = 0) => Len(RDBehind(u)) + 1 = Len(u)
<1>1. Len(u) \in Nat /\ (u = <<>> <=> Len(u) = 0)
  BY LenIs, EmptyIs
<1>2. u # <<>> => Head(u) = u[1] /\ Len(Tail(u)) = Len(u) - 1 /\ Len(u) > 0
  BY TailIs
<1>3. QED
  BY <1>1, <1>2 DEF RDBehind

LEMMA RDBehindAppend ==
    ASSUME NEW u, Sequence(u), NEW e, Len(u) > 0 \/ e # 0
    PROVE  Len(RDBehind(Append(u, e))) = Len(RDBehind(u)) + 1
<1> PICK t : t = Append(u, e)
  OBVIOUS
<1>1. /\ Sequence(t) /\ Len(t) = Len(u) + 1 /\ t[Len(u) + 1] = e
      /\ \A i \in 1..Len(u) : t[i] = u[i]
  BY AppendIs
<1>2. Len(u) \in Nat
  BY LenIs
<1>3. (Len(u) > 0 /\ t[1] = u[1]) \/ (Len(u) = 0 /\ t[1] # 0)
  BY <1>1, <1>2
<1>4. /\ Len(RDBehind(u)) \in Nat
      /\ (Len(u) = 0 \/ u[1] # 0) => Len(RDBehind(u)) = Len(u)
      /\ (Len(u) > 0 /\ u[1] = 0) => Len(RDBehind(u)) + 1 = Len(u)
  BY RDBehindIs
<1>5. /\ Len(RDBehind(t)) \in Nat
      /\ (Len(t) = 0 \/ t[1] # 0) => Len(RDBehind(t)) = Len(t)
      /\ (Len(t) > 0 /\ t[1] = 0) => Len(RDBehind(t)) + 1 = Len(t)
  BY <1>1, RDBehindIs
<1>6. QED
  BY <1>1, <1>2, <1>3, <1>4, <1>5

LEMMA RDBehindOne == Len(RDBehind(<<0>>)) = 0
<1> PICK u : u = <<0>>
  OBVIOUS
<1>1. Sequence(u) /\ Len(u) = 1 /\ u[1] = 0
  BY OneIs
<1>2. Len(u) > 0 /\ u[1] = 0
  BY <1>1
<1>3. Len(RDBehind(u)) \in Nat /\ Len(RDBehind(u)) + 1 = Len(u)
  BY <1>1, <1>2, RDBehindIs
<1>4. QED
  BY <1>1, <1>3

LEMMA RDPassedIs == RD!Passed = Len(RDBehind(toUpstream))
  BY DEF RD!Passed, RD!FromTheClient, RD!Credential, RDBehind

\* That the upstream has accepted the password, or that none is needed, is never
\* taken back.
LEMMA RDVerdictGrows ==
    ASSUME RDTypes, Grows(uSent, uSent'), mode' = mode
    PROVE  RD!Verdict' = RD!Verdict \/ (RD!Verdict = "pending" /\ RD!Verdict' = "accepted")
<1>1. /\ \A m \in Range(uSent) : \E i \in 1..Len(uSent) : uSent[i] = m
      /\ \A i \in 1..Len(uSent') : uSent'[i] \in Range(uSent')
      /\ Len(uSent) \in Nat /\ Len(uSent') \in Nat
  <2>1. Sequence(uSent) /\ Sequence(uSent')
    BY DEF RDTypes, Grows
  <2>2. QED
    BY <2>1, RangeIs, LenIs
<1>2. \A m \in Range(uSent) : m \in Range(uSent')
  <2>1. ASSUME NEW i \in 1..Len(uSent) PROVE uSent[i] \in Range(uSent')
    BY <1>1 DEF Grows
  <2>2. QED
    BY <1>1, <2>1
<1>3. RD!Range(uSent) = Range(uSent) /\ RD!Range(uSent)' = Range(uSent')
  BY DEF RD!Range, Range
<1>4. QED
  BY <1>2, <1>3 DEF RD!Verdict, RD!OK, RD!OKRest, RD!OKLine

\* +OK at the head of what was read, whole or in two segments, with or without the
\* end of its line, is an accepted password.
LEMMA RDAcceptedIs ==
    ASSUME RDInv, RD!AuthReply, pc' = "peek" PROVE RD!Verdict = "accepted"
<1>1. PICK k \in 1..(Len(uSent) - uRead) : RD!Accepts(SubSeq(uSent, uRead + 1, uRead + k))
  BY DEF RD!AuthReply
<1>2. RDTypes /\ pc = "auth"
  BY DEF RDInv, RD!AuthReply
<1>3. uRead = 0 /\ Len(uSent) \in Nat
  BY <1>2, RDNumbers DEF RDInv, RDBytes
<1>4. k \in 1..Len(uSent)
  BY <1>3
<1> DEFINE a == SubSeq(uSent, 1, k)
<1>5. Len(a) = k /\ a[1] = uSent[1]
  BY <1>2, <1>3, <1>4, SubSeqIs DEF RDTypes
<1>6. a[1] \in {RD!OK, RD!OKLine} \/ (k > 1 /\ a[1] = RD!OKBegin)
  <2>1. RD!Accepts(a)
    BY <1>1, <1>3
  <2> HIDE DEF a
  <2>2. QED
    BY <1>5, <2>1 DEF RD!Accepts
<1>7. Len(uSent) = RDLogin /\ Len(uSent) = Len(RD!AnswerCredential)
  <2>1. 0 \div 3 = 0
    OBVIOUS
  <2>2. RDGiven = 0
    BY <1>2 DEF RDInv, RDBytes
  <2>3. RDDone = 0
    BY <1>2, <2>2, RDNumbers
  <2>4. Len(uSent) = RDLogin
    BY <1>2, <2>1, <2>3, RDNumbers DEF RDInv, RDReplies
  <2>5. QED
    BY <1>4, <2>4 DEF RDLogin
<1>8. \A i \in 1..Len(uSent) : uSent[i] = RD!AnswerCredential[i]
  BY <1>7 DEF RDInv, RDReplies
<1>9. \A i \in 1..Len(uSent) : uSent[i] \in RD!Range(uSent)
  <2>1. RD!Range(uSent) = Range(uSent)
    BY DEF RD!Range, Range
  <2>2. QED
    BY <1>2, <2>1, RangeIs DEF RDTypes
<1>10. CASE a[1] \in {RD!OK, RD!OKLine}
  <2>1. a[1] \in RD!Range(uSent)
    BY <1>3, <1>4, <1>5, <1>9, <1>10
  <2>2. QED
    BY <1>10, <2>1 DEF RD!Verdict
<1>11. CASE k > 1 /\ a[1] = RD!OKBegin
  <2>1. 1 \in 1..Len(uSent) /\ 2 \in 1..Len(uSent)
    BY <1>3, <1>4, <1>11
  <2>2. RD!AnswerCredential[1] = RD!OKBegin
    BY <1>5, <1>8, <1>11, <2>1
  <2>3. mode = "split"
    BY <2>2, OneIs DEF RD!AnswerCredential, RD!OKBegin, RD!OK, RD!OKLine, RD!Err
  <2>4. RD!AnswerCredential[2] = RD!OKRest
    BY <2>3 DEF RD!AnswerCredential
  <2>5. RD!OKRest \in RD!Range(uSent)
    BY <1>8, <1>9, <2>1, <2>4
  <2>6. QED
    BY <2>5 DEF RD!Verdict
<1>12. QED
  BY <1>6, <1>10, <1>11

\* What the steps of the connection are to CredentialSession.
LEMMA RDRefines ==
    ASSUME RDInv, RD!Next, kind' = kind
    PROVE  MayGo(RD!Phase, RD!Phase', RD!Verdict, RD!Verdict', RD!Passed, RD!Passed')
<1> DEFINE Goal == MayGo(RD!Phase, RD!Phase', RD!Verdict, RD!Verdict', RD!Passed, RD!Passed')
<1> USE DEF RD!clientVars, RD!serverVars, RD!handlerVars, RD!Close
<1>1. /\ RDTypes /\ Sequence(toUpstream) /\ Sequence(uSent) /\ Len(br) \in Nat
      /\ cRead \in Nat /\ Len(toUpstream) \in Nat
      /\ RDOwn \in {0, 1} /\ RDGiven \in Nat
  BY RDNumbers DEF RDInv, RDTypes
<1>2. toUpstream' = toUpstream => RD!Passed' = RD!Passed
  BY DEF RD!Passed, RD!FromTheClient
<1>3. ASSUME UNCHANGED <<pc, toUpstream, mode>>, Grows(uSent, uSent') PROVE Goal
  BY <1>1, <1>2, <1>3, RDVerdictGrows DEF MayGo, RD!Phase
<1>4. Grows(uSent, uSent)
  BY <1>1, LenIs DEF Grows
<1>5. CASE RD!ClientSends \/ RD!ClientCloses \/ RD!UpstreamCloses \/ RD!Fill \/ RD!RelayToClient
  BY <1>3, <1>4, <1>5
  DEF RD!ClientSends, RD!ClientCloses, RD!UpstreamCloses, RD!Fill, RD!RelayToClient
<1>6. CASE RD!UpstreamAnswers
  <2>1. /\ UNCHANGED <<pc, toUpstream, mode>>
        /\ \/ uSent' = uSent
           \/ uSent' = uSent \o RD!AnswerCredential
           \/ \E m : uSent' = Append(uSent, m)
    BY <1>6 DEF RD!UpstreamAnswers
  <2>2. Sequence(RD!AnswerCredential)
    BY <1>1, RDNumbers
  <2>3. Grows(uSent, uSent')
    BY <1>1, <1>4, <2>1, <2>2, AppendGrows, ConcatGrows
  <2>4. QED
    BY <1>3, <2>1, <2>3
<1>7. ASSUME UNCHANGED <<uSent, mode>> PROVE RD!Verdict' = RD!Verdict
  BY <1>7 DEF RD!Verdict
<1>8. ASSUME pc # "closed", pc' = "closed", UNCHANGED <<toUpstream, uSent, mode>> PROVE Goal
  <2>1. RD!Phase # "closed" /\ RD!Phase' = "closed"
    BY <1>8 DEF RD!Phase
  <2>2. QED
    BY <1>2, <1>7, <1>8, <2>1 DEF MayGo
<1>9. CASE RD!Dial
  <2>1. pc = "dial" /\ toUpstream = <<>> /\ UNCHANGED <<uSent, mode>>
    BY <1>9 DEF RD!Dial, RDInv, RDLogins
  <2>2. CASE pc' = "closed" /\ UNCHANGED toUpstream
    BY <1>8, <2>1, <2>2
  <2>3. CASE mode = "none" /\ pc' = "peek" /\ toUpstream' = <<>>
    <3>1. RD!Verdict = "accepted"
      BY <2>3 DEF RD!Verdict
    <3>2. QED
      BY <1>2, <1>7, <2>1, <2>3, <3>1 DEF MayGo, RD!Phase
  <2>4. CASE pc' = "auth" /\ toUpstream' = <<0>>
    <3>1. RD!Passed = 0
      <4>1. Len(RDBehind(toUpstream)) = 0
        BY <2>1, EmptyIs, RDBehindIs
      <4>2. QED
        BY <4>1, RDPassedIs
    <3>2. RD!Passed' = 0
      <4>1. RD!Passed' = Len(RDBehind(toUpstream'))
        BY DEF RD!Passed, RD!FromTheClient, RD!Credential, RDBehind
      <4>2. QED
        BY <2>4, <4>1, RDBehindOne
    <3>3. QED
      BY <1>7, <2>1, <2>4, <3>1, <3>2 DEF MayGo, RD!Phase
  <2>5. QED
    BY <1>9, <2>2, <2>3, <2>4 DEF RD!Dial, RD!AfterDial, RD!Credential
<1>10. CASE RD!AuthReply
  <2>1. /\ pc = "auth" /\ pc' \in {"peek", "closed"}
        /\ UNCHANGED <<toUpstream, uSent, mode>>
    BY <1>10 DEF RD!AuthReply
  <2>2. CASE pc' = "peek"
    BY <1>2, <1>7, <1>10, <2>1, <2>2, RDAcceptedIs DEF MayGo, RD!Phase
  <2>3. QED
    BY <1>8, <2>1, <2>2
<1>11. CASE RD!AuthLost \/ RD!RelayEnds
  BY <1>8, <1>11 DEF RD!AuthLost, RD!RelayEnds
<1>12. CASE RD!Peek \/ RD!ConsumeAuth \/ RD!ClientSilent
  <2>1. /\ pc \in {"peek", "consume"} /\ pc' \in {"consume", "relay", "closed"}
        /\ UNCHANGED <<toUpstream, uSent, mode>>
    BY <1>12 DEF RD!Peek, RD!ConsumeAuth, RD!ClientSilent
  <2>2. QED
    BY <1>2, <1>7, <1>8, <2>1 DEF MayGo, RD!Phase
<1>13. CASE RD!Upward
  <2>1. pc = "relay" /\ UNCHANGED <<pc, uSent, mode>>
    BY <1>13 DEF RD!Upward, RD!RelayHead, RD!RelayToUpstream
  <2>2. PICK e : toUpstream' = Append(toUpstream, e) /\ e # 0
    <3>1. CASE RD!RelayHead
      <4>1. br # <<>> /\ toUpstream' = Append(toUpstream, Head(br)) /\ Sequence(br)
        BY <1>1, <3>1 DEF RD!RelayHead, RD!HeadFirst, RDTypes
      <4>2. Head(br) = br[1] /\ Len(br) > 0
        BY <4>1, TailIs
      <4>3. 3 * RDOwn + RDGiven + Len(br) = cRead /\ br[1] = cRead - Len(br) + 1
        BY <1>1, <2>1, <4>2 DEF RDInv, RDBytes
      <4>4. Head(br) # 0
        BY <1>1, <4>2, <4>3
      <4>5. QED
        BY <4>1, <4>4
    <3>2. CASE RD!RelayToUpstream
      <4>1. toUpstream' = Append(toUpstream, cRead + 1) /\ cRead + 1 # 0
        BY <1>1, <3>2 DEF RD!RelayToUpstream
      <4>2. QED
        BY <4>1
    <3>3. QED
      BY <1>13, <3>1, <3>2 DEF RD!Upward
  <2>3. RD!Passed' = RD!Passed + 1
    <3>1. RD!Passed' = Len(RDBehind(toUpstream'))
      BY DEF RD!Passed, RD!FromTheClient, RD!Credential, RDBehind
    <3>2. QED
      BY <1>1, <2>2, <3>1, RDPassedIs, RDBehindAppend
  <2>4. QED
    BY <1>7, <2>1, <2>3 DEF MayGo, RD!Phase
<1>14. QED
  BY <1>5, <1>6, <1>9, <1>10, <1>11, <1>12, <1>13 DEF RD!Next, RD!Handler, RD!Relay

-----------------------------------------------------------------------------
(* The theorems *)

RepliesInv ==
    /\ kind = "http"  => HTInv
    /\ kind = "redis" => RDInv

LEMMA InitReplies == Init => RepliesInv
  BY HTInit, RDInit DEF RepliesInv

LEMMA NextReplies == RepliesInv /\ [Next]_vars => RepliesInv'
<1> SUFFICES ASSUME RepliesInv, [Next]_vars PROVE RepliesInv'
  OBVIOUS
<1>1. kind' = kind
  BY DEF Next, Rest, RestRedis, vars
<1>2. CASE Next /\ kind = "http"
  BY <1>1, <1>2, HTNext DEF RepliesInv
<1>3. CASE Next /\ kind = "redis"
  <2>1. RD!Next
    BY <1>3 DEF Next
  <2>2. QED
    BY <1>1, <1>3, <2>1, RDNext DEF RepliesInv
<1>4. CASE UNCHANGED vars
  BY <1>1, <1>4, HTStutter, RDStutter DEF RepliesInv
<1>5. QED
  BY <1>1, <1>2, <1>3, <1>4 DEF RepliesInv

LEMMA AlwaysReplies == Spec => []RepliesInv
  BY InitReplies, NextReplies, PTL DEF Spec

\* What the Redis upstream gets of a client is its stream from the first piece, or
\* from behind an AUTH that the gateway answered itself: bytes that were in the
\* reader's buffer when the relay began are neither lost nor repeated nor
\* overtaken (redis.go, discardClientAuth and handle).
THEOREM AlwaysClientBytesOnce == Spec => []ClientBytesOnce
<1>1. RepliesInv => ClientBytesOnce
  BY RDMeans DEF RepliesInv, ClientBytesOnce
<1>2. QED
  BY <1>1, AlwaysReplies, PTL

\* What a Redis or HTTP client gets answers, in order, what it asked: of the
\* upstream's answer to the configured password no more than the end of its line
\* reaches a client, once, before every reply, and only when the segment read with
\* +OK ended before it (redis.go:64-74); and a request without an answer is answered
\* in its place (http.go, ErrorHandler).
THEOREM AlwaysRepliesMatch == Spec => []RepliesMatch
<1>1. RepliesInv => RepliesMatch
  BY HTMeans, RDMeans DEF RepliesInv, RepliesMatch
<1>2. QED
  BY <1>1, AlwaysReplies, PTL
=============================================================================
