------------------------- MODULE PostgresSessionProofs -------------------------
(***************************************************************************)
(* Proofs about the PostgreSQL connections of Sessions: for any scripts,   *)
(* upstreams and number of messages, the client is let in only behind the  *)
(* upstream's proof, nothing is answered that was not asked, and what each *)
(* side sees is the other's stream from the right message on.              *)
(***************************************************************************)
EXTENDS RepliesProofs, FiniteSetTheorems

-----------------------------------------------------------------------------
(* How often a message occurs *)

\* The instances' counts are those of the library.
LEMMA CountIs ==
    ASSUME NEW s, NEW n, NEW m
    PROVE  PG!Count(s, n, m) = Cardinality({i \in 1..n : s[i] = m})
  BY DEF PG!Count, PG!Cardinality, Cardinality

LEMMA CountNumber ==
    ASSUME NEW s, NEW n \in Nat, NEW m
    PROVE  PG!Count(s, n, m) \in Nat
<1>1. IsFiniteSet(1..n)
  BY FS_Interval
<1>2. IsFiniteSet({i \in 1..n : s[i] = m})
  BY <1>1, FS_Subset
<1>3. QED
  BY <1>2, FS_CardinalityType, CountIs

LEMMA CountNext ==
    ASSUME NEW s, NEW n \in Nat, NEW m
    PROVE  PG!Count(s, n + 1, m) = PG!Count(s, n, m) + (IF s[n + 1] = m THEN 1 ELSE 0)
<1> DEFINE C(k) == {i \in 1..k : s[i] = m}
<1>1. IsFiniteSet(C(n))
  <2>1. IsFiniteSet(1..n)
    BY FS_Interval
  <2>2. QED
    BY <2>1, FS_Subset
<1>2. CASE s[n + 1] = m
  <2>1. C(n + 1) = C(n) \cup {n + 1} /\ n + 1 \notin C(n)
    BY <1>2
  <2>2. Cardinality(C(n + 1)) = Cardinality(C(n)) + 1
    BY <1>1, <2>1, FS_AddElement
  <2>3. QED
    BY <1>2, <2>2, CountIs
<1>3. CASE s[n + 1] # m
  <2>1. C(n + 1) = C(n)
    BY <1>3
  <2>2. PG!Count(s, n + 1, m) = Cardinality(C(n + 1)) /\ PG!Count(s, n, m) = Cardinality(C(n))
    BY CountIs
  <2>3. PG!Count(s, n, m) \in Nat
    BY CountNumber
  <2>4. PG!Count(s, n + 1, m) = PG!Count(s, n, m)
    BY <2>1, <2>2
  <2>5. QED
    BY <1>3, <2>3, <2>4
<1>4. QED
  BY <1>2, <1>3

LEMMA CountSame ==
    ASSUME NEW s, NEW t, NEW n \in Nat, NEW m, \A i \in 1..n : s[i] = t[i]
    PROVE  PG!Count(s, n, m) = PG!Count(t, n, m)
<1>1. {i \in 1..n : s[i] = m} = {i \in 1..n : t[i] = m}
  OBVIOUS
<1>2. QED
  BY <1>1, CountIs

\* A sequence that begins with o messages of the types and goes on with others.
LEMMA CountTypesIs ==
    ASSUME NEW s, NEW n \in Nat, NEW o \in 0..n, NEW types,
           \A i \in 1..o : s[i][1] \in types,
           \A i \in 1..n : i > o => s[i][1] \notin types
    PROVE  PG!CountTypes(s, n, types) = o
<1>1. {i \in 1..n : s[i][1] \in types} = 1..o
  OBVIOUS
<1>2. Cardinality(1..o) = o
  BY FS_Interval
<1>3. PG!CountTypes(s, n, types) = Cardinality({i \in 1..n : s[i][1] \in types})
  BY DEF PG!CountTypes, PG!Cardinality, Cardinality
<1>4. QED
  BY <1>1, <1>2, <1>3

\* How many messages of a sequence are of other types.
Others(s, types) == Len(s) - PG!CountTypes(s, Len(s), types)

LEMMA OthersNumber ==
    ASSUME NEW s, Sequence(s), NEW types
    PROVE  /\ Others(s, types) \in Nat /\ PG!CountTypes(s, Len(s), types) \in 0..Len(s)
           /\ Len(s) = 0 => Others(s, types) = 0
<1> DEFINE C == {i \in 1..Len(s) : s[i][1] \in types}
<1>1. Len(s) \in Nat
  BY LenIs
<1>2. IsFiniteSet(1..Len(s)) /\ Cardinality(1..Len(s)) = Len(s)
  <2>1. PICK n \in Nat : n = Len(s)
    BY <1>1
  <2>2. IsFiniteSet(1..n) /\ Cardinality(1..n) = n
    BY FS_Interval
  <2>3. QED
    BY <2>1, <2>2
<1>3. IsFiniteSet(C) /\ Cardinality(C) <= Len(s)
  BY <1>2, FS_Subset
<1>4. Cardinality(C) \in Nat
  BY <1>3, FS_CardinalityType
<1>5. PG!CountTypes(s, Len(s), types) = Cardinality(C)
  BY DEF PG!CountTypes, PG!Cardinality, Cardinality
<1> HIDE DEF C
<1>6. QED
  BY <1>1, <1>3, <1>4, <1>5 DEF Others

LEMMA OthersAppend ==
    ASSUME NEW s, Sequence(s), NEW m, NEW types
    PROVE  Others(Append(s, m), types) = Others(s, types) + (IF m[1] \in types THEN 0 ELSE 1)
<1> DEFINE n == Len(s)
           C == {i \in 1..n : s[i][1] \in types}
<1>1. n \in Nat /\ IsFiniteSet(C) /\ Cardinality(C) \in Nat
  <2>1. n \in Nat
    BY LenIs
  <2>2. IsFiniteSet(1..n)
    BY <2>1, FS_Interval
  <2>3. IsFiniteSet(C)
    BY <2>2, FS_Subset
  <2>4. QED
    BY <2>1, <2>3, FS_CardinalityType
<1>2. PICK t : t = Append(s, m)
  OBVIOUS
<1>3. Len(t) = n + 1 /\ t[n + 1] = m /\ \A i \in 1..n : t[i] = s[i]
  BY <1>2, AppendIs
<1> DEFINE D == {i \in 1..(n + 1) : t[i][1] \in types}
<1>4. /\ PG!CountTypes(s, n, types) = Cardinality(C)
      /\ PG!CountTypes(t, n + 1, types) = Cardinality(D)
  BY DEF PG!CountTypes, PG!Cardinality, Cardinality
<1>5. CASE m[1] \in types
  <2>1. D = C \cup {n + 1} /\ n + 1 \notin C
    BY <1>1, <1>3, <1>5
  <2>2. Cardinality(D) = Cardinality(C) + 1
    BY <1>1, <2>1, FS_AddElement
  <2> HIDE DEF C, D
  <2>3. QED
    BY <1>1, <1>2, <1>3, <1>4, <1>5, <2>2 DEF Others
<1>6. CASE m[1] \notin types
  <2>1. D = C
    BY <1>1, <1>3, <1>6
  <2> HIDE DEF C, D
  <2>2. QED
    BY <1>1, <1>2, <1>3, <1>4, <1>6, <2>1 DEF Others
<1>7. QED
  BY <1>5, <1>6

\* All of the types, or one that is not.
LEMMA OthersNone ==
    ASSUME NEW s, Sequence(s), NEW types, \A i \in 1..Len(s) : s[i][1] \in types
    PROVE  Others(s, types) = 0
<1> PICK n \in Nat : n = Len(s)
  BY LenIs
<1>1. PG!CountTypes(s, n, types) = n
  BY CountTypesIs
<1>2. QED
  BY <1>1 DEF Others

LEMMA CountUpTo ==
    ASSUME NEW n \in Nat PROVE IsFiniteSet(1..n) /\ Cardinality(1..n) = n
  BY FS_Interval

LEMMA OthersSome ==
    ASSUME NEW s, Sequence(s), NEW types, NEW i \in 1..Len(s), s[i][1] \notin types
    PROVE  Others(s, types) > 0
<1> DEFINE C == {j \in 1..Len(s) : s[j][1] \in types}
<1>1. PICK n \in Nat : n = Len(s)
  BY LenIs
<1>2. IsFiniteSet(1..n) /\ Cardinality(1..n) = n
  BY CountUpTo
<1>3. C \subseteq 1..n /\ C # 1..n
  BY <1>1
<1>4. PG!CountTypes(s, n, types) = Cardinality(C)
  BY <1>1 DEF PG!CountTypes, PG!Cardinality, Cardinality
<1> HIDE DEF C
<1>5. Cardinality(C) # n
  BY <1>2, <1>3, FS_Subset
<1>6. PG!CountTypes(s, n, types) \in 0..n
  BY <1>1, OthersNumber
<1>7. QED
  BY <1>1, <1>4, <1>5, <1>6 DEF Others

-----------------------------------------------------------------------------
(* The invariant *)

PGStates == {"startup", "afterSsl", "dial", "closed"} \cup PG!Connected
PGEarly  == {"startup", "afterSsl", "dial"}
PGLogins == {"auth", "serverFirst", "serverFinal"}

\* How many of the messages to the client come before those of the upstream, and
\* how many are the upstream's.
PGOffset == IF Len(toClient) > 0 /\ toClient[1] = PG!NoSSL THEN 1 ELSE 0
PGSeen   == Len(toClient) - PGOffset

PGTypes ==
    /\ kind = "postgres" /\ Streams /\ pc \in PGStates
    /\ srv \in {"startup", "password", "proof", "session"}
    /\ \A i \in 1..Len(script) : script[i] \in PG!ClientMsgs

\* Where the handler is in the client's stream before it dials.
PGStartup ==
    /\ pc \in PGEarly => toUpstream = <<>> /\ uRead = 0 /\ PGSeen = 0
    /\ pc = "startup" => cRead = 0 /\ toClient = <<>>
    /\ pc = "afterSsl" => cRead = 1 /\ cSent[1] = PG!SSL
    /\ pc = "dial" => cRead > 0 /\ PG!StartupAt(cRead)

\* The startup message that the gateway sends for the client's i-th message.
PGOpening(i) == PG!OurStartup(IF cfg = "" THEN cSent[i][2] ELSE cfg)

\* The i-th message of the client was its startup; what it sent since follows the
\* gateway's own messages to the upstream.
PGBehind(i) ==
    /\ i \in 1..cRead /\ PG!StartupAt(i)
    /\ cRead - i < Len(toUpstream)
    /\ toUpstream[1] = PGOpening(i)
    /\ \A k \in 1..(Len(toUpstream) - (cRead - i)) : toUpstream[k][1] \in PG!OurTypes
    /\ \A k \in 1..(cRead - i) : toUpstream[Len(toUpstream) - (cRead - i) + k] = cSent[i + k]
    /\ cRead > i => \E r \in 1..uRead : uSent[r] = PG!Ready

PGUpstream ==
    /\ toUpstream # <<>> => \E i \in 1..cRead : PGBehind(i)
    /\ pc \in PGLogins \cup {"forward"} => PGBehind(cRead)
    /\ pc = "relay" => toUpstream # <<>> /\ \E r \in 1..uRead : uSent[r] = PG!Ready

\* Among the first n messages of the upstream every request for SCRAM is followed
\* by the whole exchange.
PGProved(n) ==
    \A k \in 1..n : uSent[k] = PG!AuthSASL =>
        k + 2 <= n /\ uSent[k + 1] = PG!ServerFirst /\ uSent[k + 2] = PG!ServerFinal

\* The client sees the upstream's stream from its g-th message on.
PGGranted(g) ==
    /\ g \in 1..uRead /\ uSent[g] = PG!AuthOK
    /\ \A k \in 1..(g - 1) : uSent[k] # PG!AuthOK
    /\ PGProved(g - 1)
    /\ PGSeen = uRead - g + 1
    /\ \A k \in 1..PGSeen : toClient[PGOffset + k] = uSent[g + k - 1]

PGClient ==
    /\ pc \in PGLogins => PGSeen = 0 /\ \A k \in 1..uRead : uSent[k] # PG!AuthOK
    /\ pc = "auth" => PGProved(uRead)
    /\ pc = "serverFirst" => uRead > 0 /\ PGProved(uRead - 1) /\ uSent[uRead] = PG!AuthSASL
    /\ pc = "serverFinal" => /\ uRead > 1 /\ PGProved(uRead - 2)
                             /\ uSent[uRead - 1] = PG!AuthSASL
                             /\ uSent[uRead] = PG!ServerFirst
    /\ pc \in {"forward", "relay"} => PGSeen > 0
    /\ PGSeen > 0 => \E g \in 1..uRead : PGGranted(g)

PGAnswers(a, b) ==
    PG!Count(toUpstream, Len(toUpstream), a) <= PG!Count(uSent, uRead, b)

PGCounts ==
    /\ PGAnswers(PG!MD5Response, PG!AuthMD5)
    /\ PGAnswers(PG!SASLInitial, PG!AuthSASL)
    /\ PGAnswers(PG!SASLResponse, PG!ServerFirst)

PGInv == PGTypes /\ PGStartup /\ PGUpstream /\ PGClient /\ PGCounts

-----------------------------------------------------------------------------
(* What the steps leave alone *)

\* The numbers of the invariant are numbers.
LEMMA PGNumbers ==
    ASSUME PGTypes
    PROVE  /\ Len(cSent) \in Nat /\ Len(script) \in Nat /\ Len(uSent) \in Nat
           /\ Len(toClient) \in Nat /\ Len(toUpstream) \in Nat
           /\ cRead \in Nat /\ cRead <= Len(cSent) /\ uRead \in Nat /\ uRead <= Len(uSent)
           /\ PGOffset \in {0, 1} /\ PGOffset \in Nat /\ PGSeen \in Nat
           /\ Len(toClient) = PGOffset + PGSeen
<1>1. /\ Len(cSent) \in Nat /\ Len(script) \in Nat /\ Len(uSent) \in Nat
      /\ Len(toClient) \in Nat /\ Len(toUpstream) \in Nat
  BY LenIs DEF PGTypes, Streams
<1>2. cRead \in Nat /\ cRead <= Len(cSent) /\ uRead \in Nat /\ uRead <= Len(uSent)
  BY <1>1 DEF PGTypes, Streams
<1>3. PGOffset \in {0, 1} /\ (PGOffset = 1 => Len(toClient) > 0)
  BY DEF PGOffset
<1>4. PGSeen \in Nat /\ Len(toClient) = PGOffset + PGSeen
  BY <1>1, <1>3 DEF PGSeen
<1>5. QED
  BY <1>1, <1>2, <1>3, <1>4

LEMMA PGClientMsgIs ==
    ASSUME NEW m \in PG!ClientMsgs PROVE m[1] \notin PG!OurTypes
  BY DEF PG!ClientMsgs, PG!OurTypes

\* What was read stays what it was.
LEMMA PGBehindKept ==
    ASSUME PGTypes, NEW i, PGBehind(i),
           UNCHANGED <<cfg, cRead, toUpstream>>, uRead' \in Nat, uRead <= uRead',
           \A j \in 1..cRead : cSent'[j] = cSent[j],
           \A j \in 1..uRead : uSent'[j] = uSent[j]
    PROVE  PGBehind(i)'
<1>0. /\ i \in 1..cRead /\ PG!StartupAt(i) /\ cRead - i < Len(toUpstream)
      /\ toUpstream[1] = PGOpening(i)
      /\ \A k \in 1..(Len(toUpstream) - (cRead - i)) : toUpstream[k][1] \in PG!OurTypes
      /\ \A k \in 1..(cRead - i) : toUpstream[Len(toUpstream) - (cRead - i) + k] = cSent[i + k]
      /\ cRead > i => \E r \in 1..uRead : uSent[r] = PG!Ready
  BY DEF PGBehind
<1>1. cRead \in Nat /\ uRead \in Nat /\ Len(toUpstream) \in Nat
  BY PGNumbers
<1>2. PG!StartupAt(i)' /\ cSent'[i] = cSent[i]
  <2>1. \A j \in 1..(i - 1) : j \in 1..cRead
    BY <1>0, <1>1
  <2>2. cSent'[i] = cSent[i]
    BY <1>0
  <2>3. \A j \in 1..(i - 1) : cSent'[j] = cSent[j]
    BY <2>1
  <2>4. QED
    BY <1>0, <2>2, <2>3 DEF PG!StartupAt
<1>3. \A k \in 1..(cRead - i) : cSent'[i + k] = cSent[i + k]
  <2>1. \A k \in 1..(cRead - i) : i + k \in 1..cRead
    BY <1>0, <1>1
  <2>2. QED
    BY <2>1
<1>4. cRead > i => \E r \in 1..uRead' : uSent'[r] = PG!Ready
  <2>1. \A r \in 1..uRead : r \in 1..uRead'
    BY <1>1
  <2>2. QED
    BY <1>0, <2>1
<1>5. PGOpening(i)' = PGOpening(i)
  BY <1>2, Zenon DEF PGOpening
<1>6. \A k \in 1..(cRead - i) : toUpstream[Len(toUpstream) - (cRead - i) + k] = cSent'[i + k]
  BY <1>0, <1>3
<1>7. QED
  BY <1>0, <1>2, <1>4, <1>5, <1>6 DEF PGBehind

LEMMA PGProvedKept ==
    ASSUME NEW n \in Nat, PGProved(n), \A j \in 1..n : uSent'[j] = uSent[j]
    PROVE  PGProved(n)'
<1>1. ASSUME NEW k \in 1..n, uSent[k] = PG!AuthSASL
      PROVE  /\ k + 2 <= n /\ uSent'[k + 1] = PG!ServerFirst
             /\ uSent'[k + 2] = PG!ServerFinal
  <2>1. /\ k + 2 <= n /\ uSent[k + 1] = PG!ServerFirst /\ uSent[k + 2] = PG!ServerFinal
    BY <1>1 DEF PGProved
  <2>2. k + 1 \in 1..n /\ k + 2 \in 1..n
    BY <2>1
  <2>3. QED
    BY <2>1, <2>2
<1>2. QED
  BY <1>1 DEF PGProved

LEMMA PGGrantedKept ==
    ASSUME PGTypes, NEW g, PGGranted(g), UNCHANGED <<toClient, uRead>>,
           \A j \in 1..uRead : uSent'[j] = uSent[j]
    PROVE  PGGranted(g)'
<1>1. uRead \in Nat /\ g \in 1..uRead /\ PGSeen \in Nat /\ PGSeen = uRead - g + 1
  BY PGNumbers DEF PGGranted
<1>2. PGOffset' = PGOffset /\ PGSeen' = PGSeen
  BY DEF PGOffset, PGSeen
<1>3. PGProved(g - 1)'
  <2>1. PICK n \in Nat : n = g - 1
    BY <1>1
  <2>2. \A j \in 1..n : j \in 1..uRead
    BY <1>1, <2>1
  <2>3. PGProved(n)'
    BY <2>1, <2>2, PGProvedKept DEF PGGranted
  <2>4. QED
    BY <2>1, <2>3
<1>4. \A k \in 1..(g - 1) : uSent'[k] = uSent[k]
  BY <1>1
<1>5. \A k \in 1..PGSeen : uSent'[g + k - 1] = uSent[g + k - 1]
  <2>1. \A k \in 1..PGSeen : g + k - 1 \in 1..uRead
    BY <1>1
  <2>2. QED
    BY <2>1
<1>6. QED
  BY <1>1, <1>2, <1>3, <1>4, <1>5 DEF PGGranted

LEMMA PGAnswersKept ==
    ASSUME PGTypes, NEW a, NEW b, PGAnswers(a, b), UNCHANGED uSent,
           uRead' \in {uRead, uRead + 1},
           \/ UNCHANGED toUpstream
           \/ \E m : /\ toUpstream' = Append(toUpstream, m)
                     /\ m = a => uRead' = uRead + 1 /\ uSent[uRead + 1] = b
    PROVE  PGAnswers(a, b)'
<1> DEFINE n == Len(toUpstream)
           sent == PG!Count(toUpstream, n, a)
           taken == PG!Count(uSent, uRead, b)
<1>1. n \in Nat /\ uRead \in Nat /\ Sequence(toUpstream)
  BY PGNumbers DEF PGTypes, Streams
<1>2. sent \in Nat /\ taken \in Nat /\ sent <= taken
  BY <1>1, CountNumber DEF PGAnswers
<1>3. PG!Count(uSent, uRead', b) = taken + (IF /\ uRead' = uRead + 1
                                              /\ uSent[uRead + 1] = b THEN 1 ELSE 0)
  <2>1. PG!Count(uSent, uRead + 1, b) = taken + (IF uSent[uRead + 1] = b THEN 1 ELSE 0)
    BY <1>1, CountNext
  <2>2. CASE uRead' = uRead
    BY <1>1, <1>2, <2>2
  <2>3. CASE uRead' = uRead + 1
    BY <2>1, <2>3
  <2>4. QED
    BY <2>2, <2>3
<1>4. CASE UNCHANGED toUpstream
  <2>1. PG!Count(toUpstream', Len(toUpstream'), a) = sent
    BY <1>4
  <2> HIDE DEF sent, taken
  <2>2. sent <= PG!Count(uSent, uRead', b)
    BY <1>2, <1>3
  <2>3. QED
    BY <2>1, <2>2 DEF PGAnswers
<1>5. ASSUME NEW m, toUpstream' = Append(toUpstream, m),
             m = a => uRead' = uRead + 1 /\ uSent[uRead + 1] = b
      PROVE  PGAnswers(a, b)'
  <2>1. /\ Len(toUpstream') = n + 1 /\ toUpstream'[n + 1] = m
        /\ \A i \in 1..n : toUpstream'[i] = toUpstream[i]
    BY <1>1, <1>5, AppendIs
  <2>2. PG!Count(toUpstream', n, a) = sent
    BY <1>1, <2>1, CountSame
  <2>3. PG!Count(toUpstream', n + 1, a) = sent + (IF m = a THEN 1 ELSE 0)
    <3>1. PICK t : t = toUpstream'
      OBVIOUS
    <3>2. PG!Count(t, n + 1, a) = PG!Count(t, n, a) + (IF t[n + 1] = a THEN 1 ELSE 0)
      BY <1>1, CountNext
    <3>3. QED
      BY <2>1, <2>2, <3>1, <3>2
  <2> HIDE DEF sent, taken
  <2>4. sent + (IF m = a THEN 1 ELSE 0) <= PG!Count(uSent, uRead', b)
    BY <1>2, <1>3, <1>5
  <2>5. QED
    BY <2>1, <2>3, <2>4 DEF PGAnswers
<1>6. QED
  BY <1>4, <1>5

\* m answers a challenge that is read in the same step, or is none of our answers.
PGDue(m) ==
    /\ m = PG!MD5Response  => uRead' = uRead + 1 /\ uSent[uRead + 1] = PG!AuthMD5
    /\ m = PG!SASLInitial  => uRead' = uRead + 1 /\ uSent[uRead + 1] = PG!AuthSASL
    /\ m = PG!SASLResponse => uRead' = uRead + 1 /\ uSent[uRead + 1] = PG!ServerFirst

LEMMA PGCountsKept ==
    ASSUME PGTypes, PGCounts, UNCHANGED uSent, uRead' \in {uRead, uRead + 1},
           \/ UNCHANGED toUpstream
           \/ \E m : toUpstream' = Append(toUpstream, m) /\ PGDue(m)
    PROVE  PGCounts'
<1>1. PGAnswers(PG!MD5Response, PG!AuthMD5)'
  BY PGAnswersKept DEF PGCounts, PGDue
<1>2. PGAnswers(PG!SASLInitial, PG!AuthSASL)'
  BY PGAnswersKept DEF PGCounts, PGDue
<1>3. PGAnswers(PG!SASLResponse, PG!ServerFirst)'
  BY PGAnswersKept DEF PGCounts, PGDue
<1>4. QED
  BY <1>1, <1>2, <1>3 DEF PGCounts

LEMMA PGTypesKept ==
    ASSUME PGTypes, Streams', UNCHANGED <<kind, script>>, pc' \in PGStates,
           srv' \in {"startup", "password", "proof", "session"}
    PROVE  PGTypes'
  BY DEF PGTypes

\* The peers write behind what the handler has read.
LEMMA PGPeersKeep ==
    ASSUME PGInv, PGTypes', UNCHANGED <<pc, cfg, cRead, toClient, uRead, toUpstream>>,
           \A j \in 1..cRead : cSent'[j] = cSent[j],
           \A j \in 1..uRead : uSent'[j] = uSent[j]
    PROVE  PGInv'
<1>1. PGTypes /\ cRead \in Nat /\ uRead \in Nat
  BY PGNumbers DEF PGInv
<1>2. PGOffset' = PGOffset /\ PGSeen' = PGSeen
  BY DEF PGOffset, PGSeen
<1>3. PGStartup'
  <2>1. pc = "dial" => PG!StartupAt(cRead)'
    BY <1>1 DEF PGInv, PGStartup, PG!StartupAt
  <2>2. QED
    BY <1>1, <1>2, <2>1 DEF PGInv, PGStartup
<1>4. PGUpstream'
  <2>1. ASSUME NEW i, PGBehind(i) PROVE PGBehind(i)'
    BY <1>1, <2>1, PGBehindKept
  <2>2. PICK c : c = cRead
    OBVIOUS
  <2>3. PGBehind(cRead) => PGBehind(cRead)'
    <3>1. PGBehind(c) => PGBehind(c)'
      BY <2>1
    <3>2. QED
      BY <2>2, <3>1
  <2>4. QED
    BY <2>1, <2>3 DEF PGInv, PGUpstream
<1>5. PGClient'
  <2>1. ASSUME NEW g, PGGranted(g) PROVE PGGranted(g)'
    BY <1>1, <2>1, PGGrantedKept
  <2>2. ASSUME NEW n \in Nat, n <= uRead, PGProved(n) PROVE PGProved(n)'
    BY <1>1, <2>2, PGProvedKept
  <2>3. PICK u \in Nat : u = uRead
    BY <1>1
  <2>4. pc = "auth" => PGProved(uRead)'
    BY <1>1, <2>2, <2>3 DEF PGInv, PGClient
  <2>5. pc = "serverFirst" => PGProved(uRead - 1)'
    <3>1. pc = "serverFirst" => u - 1 \in Nat /\ PGProved(u - 1)
      BY <2>3 DEF PGInv, PGClient
    <3>2. QED
      BY <2>2, <2>3, <3>1
  <2>6. pc = "serverFinal" => PGProved(uRead - 2)'
    <3>1. pc = "serverFinal" => u - 2 \in Nat /\ PGProved(u - 2)
      BY <2>3 DEF PGInv, PGClient
    <3>2. QED
      BY <2>2, <2>3, <3>1
  <2>7. \A k \in 1..uRead : uSent[k] # PG!AuthOK => uSent'[k] # PG!AuthOK
    OBVIOUS
  <2>8. /\ pc = "serverFirst" => uSent'[uRead] = uSent[uRead]
        /\ pc = "serverFinal" => uSent'[uRead] = uSent[uRead]
                                 /\ uSent'[uRead - 1] = uSent[uRead - 1]
    BY <1>1 DEF PGInv, PGClient
  <2>9. QED
    BY <1>2, <2>1, <2>4, <2>5, <2>6, <2>7, <2>8 DEF PGInv, PGClient
<1>6. PGCounts'
  <2>1. ASSUME NEW b PROVE PG!Count(uSent', uRead, b) = PG!Count(uSent, uRead, b)
    BY <1>1, CountSame
  <2>2. QED
    BY <2>1 DEF PGInv, PGCounts, PGAnswers
<1>7. QED
  BY <1>3, <1>4, <1>5, <1>6 DEF PGInv

-----------------------------------------------------------------------------
(* The steps *)

LEMMA PGInit == ASSUME Init, kind = "postgres" PROVE PGInv
<1>1. PG!Init /\ br = <<>> /\ kind \in Kinds
  BY DEF Init
<1>2. Sequence(script) /\ script \in Seq(PG!ClientMsgs)
  BY <1>1, ScriptsAssumption DEF PG!Init, PG!InitAt, Sequence
<1>3. Streams
  BY <1>1, <1>2, InitStreams DEF PG!Init, PG!InitAt
<1>4. \A i \in 1..Len(script) : script[i] \in PG!ClientMsgs
  BY <1>2, ElementOfSeq
<1>5. PGTypes
  BY <1>1, <1>3, <1>4 DEF PGTypes, PGStates, PG!Init, PG!InitAt
<1>6. pc = "startup" /\ toClient = <<>> /\ toUpstream = <<>> /\ cRead = 0 /\ uRead = 0
  BY <1>1 DEF PG!Init, PG!InitAt
<1>7. Len(toClient) = 0 /\ Len(toUpstream) = 0
  BY <1>6, EmptyIs
<1>8. PGOffset = 0 /\ PGSeen = 0
  BY <1>7 DEF PGOffset, PGSeen
<1>9. PGStartup /\ PGUpstream /\ PGClient
  BY <1>6, <1>8 DEF PGStartup, PGUpstream, PGClient, PGLogins
<1>10. PGCounts
  <2>1. ASSUME NEW s, NEW m PROVE PG!Count(s, 0, m) = 0
    <3>1. {i \in 1..0 : s[i] = m} = {}
      OBVIOUS
    <3>2. QED
      BY <3>1, FS_EmptySet, CountIs
  <2>2. QED
    BY <1>6, <1>7, <2>1 DEF PGCounts, PGAnswers
<1>11. QED
  BY <1>5, <1>9, <1>10 DEF PGInv

LEMMA PGClientMoves ==
    ASSUME PGInv, PG!ClientSends \/ PG!ClientCloses, UNCHANGED <<kind, br>> PROVE PGInv'
<1>1. PGTypes
  BY DEF PGInv
<1>2. ClientStep
  BY DEF ClientStep, PG!ClientSends, PG!ClientCloses, PG!handlerVars, PG!serverVars
<1>3. Streams' /\ Grows(cSent, cSent')
  BY <1>1, <1>2, ClientStepKeeps DEF PGTypes
<1>4. PGTypes'
  BY <1>1, <1>2, <1>3, PGTypesKept DEF ClientStep, PGTypes
<1>5. \A j \in 1..cRead : cSent'[j] = cSent[j]
  <2>1. \A j \in 1..cRead : j \in 1..Len(cSent)
    BY <1>1, PGNumbers
  <2>2. QED
    BY <1>3, <2>1 DEF Grows
<1>6. QED
  BY <1>2, <1>4, <1>5, PGPeersKeep DEF ClientStep

\* What an upstream answers is a sequence.
LEMMA PGSequences ==
    /\ Sequence(PG!AnswerStartup) /\ Sequence(PG!AnswerMD5) /\ Sequence(PG!AnswerProof)
<1>1. Sequence(PG!Session)
  <2> DEFINE a == PG!AuthOK
             b == PG!Status
             c == PG!Ready
  <2>1. PG!Session = <<a, b, c>>
    BY DEF PG!Session
  <2> HIDE DEF a, b, c
  <2>2. <<a, b, c>> \in Seq({a, b, c})
    OBVIOUS
  <2>3. QED
    BY <2>1, <2>2 DEF Sequence
<1>2. Sequence(PG!AnswerStartup)
  BY <1>1, OneIs DEF PG!AnswerStartup
<1>3. Sequence(PG!AnswerMD5)
  BY <1>1, OneIs DEF PG!AnswerMD5
<1>4. Sequence(PG!AnswerProof)
  BY <1>1, OneIs, ConcatIs DEF PG!AnswerProof
<1>5. QED
  BY <1>2, <1>3, <1>4

\* What the upstream does is a step of an upstream.
LEMMA PGUpstreamSteps ==
    ASSUME PGInv, PG!UpstreamAnswers \/ PG!UpstreamSendsAnything \/ PG!UpstreamCloses,
           UNCHANGED <<kind, br>>
    PROVE  UpstreamStep /\ srv' \in {"startup", "password", "proof", "session"}
<1> DEFINE states == {"startup", "password", "proof", "session"}
<1>1. PGTypes
  BY DEF PGInv
<1>2. Sequence(uSent) /\ srvRead \in 0..Len(toUpstream) /\ Len(toUpstream) \in Nat
      /\ uEof \in BOOLEAN /\ srv \in states
  BY <1>1, PGNumbers DEF PGTypes, Streams
<1>3. ASSUME NEW reply, Sequence(reply), uSent' = uSent \o reply, srvRead' = srvRead + 1,
             srvRead < Len(toUpstream), srv' \in states,
             UNCHANGED <<pc, cRead, toClient, uRead, toUpstream, script, cSent, cEof, mode, cfg,
                         uEof>>
      PROVE  UpstreamStep /\ srv' \in states
  <2>1. Grows(uSent, uSent')
    BY <1>2, <1>3, ConcatGrows
  <2>2. srvRead' \in 0..Len(toUpstream)
    BY <1>2, <1>3
  <2>3. QED
    BY <1>2, <1>3, <2>1, <2>2 DEF UpstreamStep
<1>4. ASSUME PG!UpstreamAnswers PROVE UpstreamStep /\ srv' \in states
  <2> USE DEF PG!Answer, PG!handlerVars, PG!clientVars
  <2>1. ASSUME NEW r PROVE Sequence(<<r>>)
    BY OneIs
  <2>2. CASE PG!Answer("startup", toUpstream[1], PG!AnswerStartup, "password")
    <3>1. /\ uSent' = uSent \o PG!AnswerStartup /\ srvRead' = srvRead + 1
          /\ srvRead < Len(toUpstream) /\ srv' \in states
      BY <2>2
    <3>2. UNCHANGED <<pc, cRead, toClient, uRead, toUpstream, script, cSent, cEof, mode, cfg, uEof>>
      BY <2>2
    <3>3. QED
      BY <1>3, <3>1, <3>2, PGSequences
  <2>3. CASE PG!Answer("password", PG!MD5Response, PG!AnswerMD5, "session")
    BY <1>3, <2>3, PGSequences
  <2>4. CASE PG!Answer("password", PG!SASLInitial, <<PG!ServerFirst>>, "proof")
    BY <1>3, <2>1, <2>4
  <2>5. CASE PG!Answer("proof", PG!SASLResponse, PG!AnswerProof, "session")
    BY <1>3, <2>5, PGSequences
  <2>6. ASSUME NEW i \in 1..Len(script),
               PG!Answer(IF mode = "trust" THEN "password" ELSE "session",
                         PG!Query(i), <<PG!Reply(i)>>, srv)
        PROVE  UpstreamStep /\ srv' \in states
    BY <1>2, <1>3, <2>1, <2>6
  <2>7. QED
    BY <1>4, <2>2, <2>3, <2>4, <2>5, <2>6 DEF PG!UpstreamAnswers
<1>5. ASSUME PG!UpstreamSendsAnything PROVE UpstreamStep /\ srv' \in states
  <2>1. Grows(uSent, uSent')
    BY <1>2, <1>5, AppendGrows DEF PG!UpstreamSendsAnything, PG!SendsAnything
  <2>2. QED
    BY <1>2, <1>5, <2>1
    DEF UpstreamStep, PG!UpstreamSendsAnything, PG!SendsAnything, PG!handlerVars, PG!clientVars
<1>6. ASSUME PG!UpstreamCloses PROVE UpstreamStep /\ srv' \in states
  <2>1. Grows(uSent, uSent')
    BY <1>2, <1>6, LenIs DEF PG!UpstreamCloses, PG!Closes, Grows
  <2>2. QED
    BY <1>2, <1>6, <2>1
    DEF UpstreamStep, PG!UpstreamCloses, PG!Closes, PG!handlerVars, PG!clientVars
<1>7. QED
  BY <1>4, <1>5, <1>6

LEMMA PGUpstreamMoves ==
    ASSUME PGInv, PG!UpstreamAnswers \/ PG!UpstreamSendsAnything \/ PG!UpstreamCloses,
           UNCHANGED <<kind, br>>
    PROVE  PGInv'
<1>1. PGTypes
  BY DEF PGInv
<1>2. UpstreamStep /\ srv' \in {"startup", "password", "proof", "session"}
  BY PGUpstreamSteps
<1>3. PGTypes'
  BY <1>1, <1>2, UpstreamStepKeeps, PGTypesKept DEF UpstreamStep, PGTypes
<1>4. \A j \in 1..uRead : uSent'[j] = uSent[j]
  <2>1. \A j \in 1..uRead : j \in 1..Len(uSent)
    BY <1>1, PGNumbers
  <2>2. QED
    BY <1>2, <2>1 DEF UpstreamStep, Grows
<1>5. QED
  BY <1>2, <1>3, <1>4, PGPeersKeep DEF UpstreamStep

\* The end of a session, with or without a last message read.
LEMMA PGCloses ==
    ASSUME PGInv, HandlerStep, pc' = "closed", UNCHANGED <<toClient, toUpstream>>,
           \/ UNCHANGED <<cRead, uRead>>
           \/ pc \in PGEarly /\ uRead' = uRead
           \/ pc \in PGLogins /\ cRead' = cRead
    PROVE  PGInv'
<1>1. PGTypes /\ cRead \in Nat /\ uRead \in Nat /\ uRead' \in {uRead, uRead + 1}
  BY PGNumbers DEF PGInv, HandlerStep
<1>2. PGOffset' = PGOffset /\ PGSeen' = PGSeen
  BY DEF PGOffset, PGSeen
<1>3. PGTypes'
  BY <1>1, HandlerStepKeeps, PGTypesKept DEF HandlerStep, PGTypes, PGStates
<1>4. PGStartup'
  BY DEF PGStartup, PGEarly
<1>5. PGUpstream'
  <2>1. CASE pc \in PGEarly
    BY <2>1 DEF PGInv, PGStartup, PGUpstream, PGLogins
  <2>2. CASE cRead' = cRead
    <3>1. ASSUME NEW i, PGBehind(i) PROVE PGBehind(i)'
      BY <1>1, <2>2, <3>1, PGBehindKept DEF HandlerStep
    <3>2. QED
      BY <2>2, <3>1 DEF PGInv, PGUpstream, PGLogins
  <2>3. QED
    BY <2>1, <2>2
<1>6. PGClient'
  <2>1. CASE pc \in PGEarly \cup PGLogins
    BY <1>2, <2>1 DEF PGInv, PGStartup, PGClient, PGLogins
  <2>2. CASE UNCHANGED uRead
    <3>1. ASSUME NEW g, PGGranted(g) PROVE PGGranted(g)'
      BY <1>1, <2>2, <3>1, PGGrantedKept DEF HandlerStep
    <3>2. QED
      BY <1>2, <2>2, <3>1 DEF PGInv, PGClient, PGLogins
  <2>3. QED
    BY <2>1, <2>2
<1>7. PGCounts'
  BY <1>1, PGCountsKept DEF PGInv, HandlerStep
<1>8. QED
  BY <1>3, <1>4, <1>5, <1>6, <1>7 DEF PGInv

LEMMA PGHandlerStep ==
    ASSUME PG!Handler \/ PG!Relay, UNCHANGED <<kind, br>> PROVE HandlerStep
<1> USE DEF HandlerStep, PG!PeersUnchanged, PG!clientVars, PG!serverVars, PG!ReadsClient,
            PG!ReadsUpstream, PG!ReadsNobody, PG!TellClient, PG!TellUpstream, PG!TellNobody
<1>1. CASE PG!ReadStartup
  BY <1>1 DEF PG!ReadStartup
<1>2. CASE PG!Dial
  BY <1>2 DEF PG!Dial
<1>3. CASE PG!AuthLoop
  BY <1>3 DEF PG!AuthLoop, PG!OnAuthError
<1>4. CASE PG!ScramFirst \/ PG!ScramFinal
  BY <1>4 DEF PG!ScramFirst, PG!ScramFinal
<1>5. CASE PG!ForwardStartup
  BY <1>5 DEF PG!ForwardStartup
<1>6. CASE PG!ClientLeft \/ PG!UpstreamLeft
  BY <1>6 DEF PG!ClientLeft, PG!UpstreamLeft, PG!ClientGone, PG!UpstreamGone
<1>7. CASE PG!Relay
  BY <1>7 DEF PG!Relay, PG!RelayToUpstream, PG!RelayToClient, PG!PassUp, PG!PassDown
<1>8. QED
  BY <1>1, <1>2, <1>3, <1>4, <1>5, <1>6, <1>7 DEF PG!Handler

LEMMA PGTypesStep ==
    ASSUME PGTypes, HandlerStep, pc' \in PGStates PROVE PGTypes'
  BY HandlerStepKeeps, PGTypesKept DEF HandlerStep, PGTypes

\* A message in front of those of the session, or none.
LEMMA PGOffsetKept ==
    ASSUME PGTypes, NEW m, toClient' = Append(toClient, m), Len(toClient) > 0 \/ m # PG!NoSSL
    PROVE  PGOffset' = PGOffset /\ PGSeen' = PGSeen + 1
<1>1. Sequence(toClient) /\ Len(toClient) \in Nat
  BY PGNumbers DEF PGTypes, Streams
<1>2. /\ Len(toClient') = Len(toClient) + 1 /\ toClient'[Len(toClient) + 1] = m
      /\ \A i \in 1..Len(toClient) : toClient'[i] = toClient[i]
  BY <1>1, AppendIs
<1>3. PGOffset' = PGOffset
  <2>1. CASE Len(toClient) > 0
    <3>1. toClient'[1] = toClient[1]
      BY <1>1, <1>2, <2>1
    <3>2. QED
      BY <1>1, <1>2, <2>1, <3>1 DEF PGOffset
  <2>2. CASE Len(toClient) = 0
    BY <1>2, <2>2 DEF PGOffset
  <2>3. QED
    BY <1>1, <2>1, <2>2
<1>4. PGOffset \in Nat
  BY PGNumbers
<1>5. QED
  BY <1>1, <1>2, <1>3, <1>4 DEF PGSeen

LEMMA PGReadsStartup ==
    ASSUME PGInv, PG!ReadStartup, HandlerStep PROVE PGInv'
<1>1. PGTypes /\ PGStartup
  BY DEF PGInv
<1>2. /\ pc \in {"startup", "afterSsl"} /\ cRead < Len(cSent) /\ cRead' = cRead + 1
      /\ uRead' = uRead /\ toUpstream' = toUpstream /\ cSent' = cSent
      /\ toUpstream = <<>> /\ uRead = 0 /\ PGSeen = 0 /\ cRead \in Nat
  BY <1>1, PGNumbers
  DEF PG!ReadStartup, PG!ReadsClient, PG!TellClient, PG!TellNobody, PG!PeersUnchanged,
      PG!clientVars, PGStartup, PGEarly
<1>3. PGCounts'
  BY <1>1, <1>2, PGCountsKept DEF PGInv, HandlerStep
<1>4. CASE /\ pc = "startup" /\ cSent[cRead + 1] = PG!SSL
           /\ toClient' = Append(toClient, PG!NoSSL) /\ pc' = "afterSsl"
  <2>1. cRead = 0 /\ toClient = <<>>
    BY <1>1, <1>4 DEF PGStartup
  <2>2. Len(toClient') = 1 /\ toClient'[1] = PG!NoSSL
    <3> DEFINE m == PG!NoSSL
    <3>1. toClient' = Append(toClient, m) /\ Sequence(toClient) /\ Len(toClient) = 0
      BY <1>4, <2>1, EmptyIs
    <3> HIDE DEF m
    <3>2. QED
      BY <3>1, AppendIs DEF m
  <2>3. PGSeen' = 0
    BY <2>2 DEF PGSeen, PGOffset
  <2>4. PGTypes'
    BY <1>1, <1>4, PGTypesStep DEF PGStates
  <2>5. PGStartup'
    <3>1. cRead' = 1 /\ cSent'[1] = PG!SSL
      BY <1>2, <1>4, <2>1
    <3>2. QED
      BY <1>2, <1>4, <2>3, <3>1 DEF PGStartup
  <2>6. PGUpstream' /\ PGClient'
    BY <1>2, <1>4, <2>3 DEF PGUpstream, PGClient, PGLogins
  <2>7. QED
    BY <1>3, <2>4, <2>5, <2>6 DEF PGInv
<1>5. CASE cSent[cRead + 1][1] = "startup" /\ pc' = "dial" /\ toClient' = toClient
  <2>1. PGSeen' = PGSeen
    BY <1>5 DEF PGSeen, PGOffset
  <2>2. PGTypes'
    BY <1>1, <1>5, PGTypesStep DEF PGStates
  <2>3. PG!StartupAt(cRead)'
    <3>1. ASSUME NEW j \in 1..(cRead' - 1) PROVE cSent[j][1] # "startup"
      <4>1. j \in 1..cRead
        BY <1>2
      <4>2. cRead = 1 /\ cSent[1] = PG!SSL
        BY <1>1, <1>2, <4>1 DEF PGStartup
      <4>3. cSent[j] = PG!SSL
        BY <4>1, <4>2
      <4>4. PG!SSL[1] # "startup"
        BY DEF PG!SSL
      <4>5. QED
        BY <4>3, <4>4
    <3>2. cSent'[cRead'][1] = "startup"
      BY <1>2, <1>5
    <3>3. \A j \in 1..(cRead' - 1) : cSent'[j][1] # "startup"
      BY <1>2, <3>1
    <3>4. QED
      BY <3>2, <3>3 DEF PG!StartupAt
  <2>4. PGStartup'
    BY <1>2, <1>5, <2>1, <2>3 DEF PGStartup
  <2>5. PGUpstream' /\ PGClient'
    BY <1>2, <1>5, <2>1 DEF PGUpstream, PGClient, PGLogins
  <2>6. QED
    BY <1>3, <2>2, <2>4, <2>5 DEF PGInv
<1>6. CASE pc' = "closed" /\ toClient' = toClient
  BY <1>2, <1>6, PGCloses DEF PGEarly
<1>7. QED
  BY <1>4, <1>5, <1>6
  DEF PG!ReadStartup, PG!FromClient, PG!TellClient, PG!TellNobody, PG!Goto, PG!Close

LEMMA PGDials ==
    ASSUME PGInv, PG!Dial, HandlerStep PROVE PGInv'
<1>1. PGTypes /\ PGStartup
  BY DEF PGInv
<1> DEFINE m == PG!OurStartup(PG!ChosenDb(cSent[cRead]))
<1>2. /\ pc = "dial" /\ UNCHANGED <<cRead, uRead, cSent, cfg, toClient, uSent>>
      /\ toUpstream = <<>> /\ uRead = 0 /\ PGSeen = 0 /\ cRead \in Nat
      /\ cRead > 0 /\ PG!StartupAt(cRead)
  BY <1>1, PGNumbers
  DEF PG!Dial, PG!TellUpstream, PG!TellNobody, PG!ReadsNobody, PG!PeersUnchanged, PG!clientVars,
      PG!serverVars, PGStartup, PGEarly
<1>3. CASE pc' = "auth" /\ toUpstream' = Append(toUpstream, m)
  <2>1. Len(toUpstream') = 1 /\ toUpstream'[1] = m
    <3>1. Sequence(toUpstream) /\ Len(toUpstream) = 0 /\ toUpstream' = Append(toUpstream, m)
      BY <1>2, <1>3, EmptyIs
    <3> HIDE DEF m
    <3>2. QED
      BY <3>1, AppendIs
  <2>2. PGTypes'
    BY <1>1, <1>3, PGTypesStep DEF PGStates, PG!Connected
  <2>3. PGStartup'
    BY <1>3 DEF PGStartup, PGEarly
  <2>4. PGBehind(cRead)'
    <3>1. PICK c : c = cRead
      OBVIOUS
    <3>2. PG!StartupAt(c)'
      BY <1>2, <3>1 DEF PG!StartupAt
    <3>3. m = PGOpening(c)' /\ m[1] \in PG!OurTypes
      <4>1. m = PGOpening(c)'
        <5>1. cfg' = cfg /\ cSent' = cSent /\ cSent[cRead] = cSent[c]
          BY <1>2, <3>1
        <5>2. CASE cfg = ""
          BY <5>1, <5>2, Zenon DEF PGOpening, PG!ChosenDb
        <5>3. CASE cfg # ""
          BY <5>1, <5>3, Zenon DEF PGOpening, PG!ChosenDb
        <5>4. QED
          BY <5>2, <5>3, Zenon
      <4>2. m[1] = "ourStartup"
        BY DEF PG!OurStartup
      <4>3. QED
        BY <4>1, <4>2 DEF PG!OurTypes
    <3> HIDE DEF m
    <3>4. PGBehind(c)'
      BY <1>2, <2>1, <3>1, <3>2, <3>3 DEF PGBehind
    <3>5. QED
      BY <1>2, <3>1, <3>4
  <2>5. PGUpstream'
    <3>1. cRead' \in 1..cRead'
      BY <1>2
    <3>2. QED
      BY <1>3, <2>4, <3>1 DEF PGUpstream, PGLogins
  <2>6. PGClient'
    <3>1. PGSeen' = 0
      BY <1>2 DEF PGSeen, PGOffset
    <3>2. PGProved(uRead)'
      BY <1>2 DEF PGProved
    <3>3. QED
      BY <1>2, <1>3, <3>1, <3>2 DEF PGClient
  <2>7. PGCounts'
    <3>1. PGDue(m)
      BY DEF PGDue, PG!OurStartup, PG!MD5Response, PG!SASLInitial, PG!SASLResponse
    <3>2. QED
      BY <1>1, <1>2, <1>3, <3>1, PGCountsKept DEF PGInv
  <2>8. QED
    BY <2>2, <2>3, <2>5, <2>6, <2>7 DEF PGInv
<1>4. CASE pc' = "closed" /\ toUpstream' = toUpstream
  BY <1>2, <1>4, PGCloses
<1>5. QED
  BY <1>3, <1>4 DEF PG!Dial, PG!Goto, PG!Close, PG!TellUpstream, PG!TellNobody

\* During the login the gateway only adds its own messages.
LEMMA PGLoginUpstream ==
    ASSUME PGInv, HandlerStep, pc \in PGLogins, pc' \in PGLogins \cup {"forward"},
           UNCHANGED cRead,
           \/ UNCHANGED toUpstream
           \/ \E m : toUpstream' = Append(toUpstream, m) /\ m[1] \in PG!OurTypes
    PROVE  PGUpstream'
<1>1. PGTypes /\ cRead \in Nat /\ uRead \in Nat /\ Len(toUpstream) \in Nat
      /\ Sequence(toUpstream)
  BY PGNumbers DEF PGInv, PGTypes, Streams
<1>2. PICK c : c = cRead
  OBVIOUS
<1>3. PGBehind(c) /\ UNCHANGED <<cfg, cSent, uSent>> /\ uRead' \in Nat /\ uRead <= uRead'
  BY <1>1, <1>2 DEF PGInv, PGUpstream, PGLogins, HandlerStep
<1>4. /\ c \in 1..cRead /\ PG!StartupAt(c) /\ cRead - c < Len(toUpstream)
      /\ toUpstream[1] = PGOpening(c) /\ cRead - c = 0
      /\ \A k \in 1..Len(toUpstream) : toUpstream[k][1] \in PG!OurTypes
  BY <1>1, <1>2, <1>3 DEF PGBehind
<1>5. ASSUME UNCHANGED toUpstream PROVE PGBehind(c)'
  <2>1. UNCHANGED <<cfg, cRead, toUpstream>> /\ cSent' = cSent /\ uSent' = uSent
    BY <1>3, <1>5
  <2>2. QED
    BY <1>1, <1>3, <2>1, PGBehindKept
<1>6. ASSUME NEW m, toUpstream' = Append(toUpstream, m), m[1] \in PG!OurTypes
      PROVE  PGBehind(c)'
  <2>1. /\ Len(toUpstream') = Len(toUpstream) + 1 /\ toUpstream'[Len(toUpstream) + 1] = m
        /\ \A i \in 1..Len(toUpstream) : toUpstream'[i] = toUpstream[i]
    BY <1>1, <1>6, AppendIs
  <2>2. PG!StartupAt(c)' /\ PGOpening(c)' = PGOpening(c)
    BY <1>3, <1>4, Zenon DEF PG!StartupAt, PGOpening
  <2>3. toUpstream'[1] = PGOpening(c)'
    BY <1>1, <1>4, <2>1, <2>2
  <2>4. \A k \in 1..Len(toUpstream') : toUpstream'[k][1] \in PG!OurTypes
    <3>1. \A k \in 1..Len(toUpstream') : k \in 1..Len(toUpstream) \/ k = Len(toUpstream) + 1
      BY <1>1, <2>1
    <3>2. QED
      BY <1>4, <1>6, <2>1, <3>1
  <2>5. cRead' - c = 0 /\ c \in 1..cRead' /\ Len(toUpstream') > 0
    BY <1>1, <1>4, <2>1
  <2>6. /\ ~(cRead' > c) /\ 1..(cRead' - c) = {}
        /\ Len(toUpstream') - (cRead' - c) = Len(toUpstream')
    BY <1>1, <1>2, <2>1, <2>5
  <2>7. QED
    BY <2>2, <2>3, <2>4, <2>5, <2>6 DEF PGBehind
<1>7. PGBehind(c)'
  BY <1>5, <1>6
<1>8. PGBehind(cRead)'
  BY <1>2, <1>7
<1>9. cRead' \in 1..cRead'
  BY <1>1, <1>2, <1>4
<1>10. QED
  BY <1>8, <1>9 DEF PGUpstream, PGLogins

LEMMA PGAuthLoop ==
    ASSUME PGInv, PG!AuthLoop, HandlerStep PROVE PGInv'
<1> DEFINE m == uSent[uRead + 1]
<1>1. /\ pc = "auth" /\ uRead < Len(uSent) /\ uRead' = uRead + 1
      /\ UNCHANGED <<cRead, uSent>>
  BY DEF PG!AuthLoop, PG!ReadsUpstream, PG!PeersUnchanged, PG!serverVars
<1>2. PGTypes /\ uRead \in Nat /\ PGSeen = 0 /\ PGProved(uRead)
      /\ \A k \in 1..uRead : uSent[k] # PG!AuthOK
  BY <1>1, PGNumbers DEF PGInv, PGClient, PGLogins
<1>3. PICK u \in Nat : u = uRead
  BY <1>2
<1>4. PGProved(u)'
  BY <1>1, <1>2, <1>3, PGProvedKept
<1>5. CASE m = PG!AuthOK /\ toClient' = Append(toClient, m) /\ pc' = "forward"
           /\ UNCHANGED toUpstream
  <2>1. PGOffset' = PGOffset /\ PGSeen' = 1
    <3>1. m # PG!NoSSL
      BY <1>5 DEF PG!AuthOK, PG!NoSSL
    <3> HIDE DEF m
    <3>2. QED
      BY <1>2, <1>5, <3>1, PGOffsetKept
  <2>2. toClient'[PGOffset' + 1] = m
    <3>1. Sequence(toClient) /\ Len(toClient) = PGOffset /\ PGOffset \in Nat
      BY <1>2, PGNumbers DEF PGTypes, Streams
    <3> HIDE DEF m
    <3>2. QED
      BY <1>5, <2>1, <3>1, AppendIs
  <2>3. PGTypes'
    BY <1>2, <1>5, PGTypesStep DEF PGStates, PG!Connected
  <2>4. PGStartup'
    BY <1>5 DEF PGStartup, PGEarly
  <2>5. PGUpstream'
    BY <1>1, <1>5, PGLoginUpstream DEF PGLogins
  <2>6. PGClient'
    <3>1. PICK g : g = uRead + 1
      OBVIOUS
    <3>2. PGProved(g - 1)'
      <4>1. g - 1 = u
        BY <1>3, <3>1
      <4>2. QED
        BY <1>4, <4>1
    <3>3. g \in 1..uRead' /\ uSent'[g] = PG!AuthOK /\ uRead' - g + 1 = 1
      BY <1>1, <1>2, <1>5, <3>1
    <3>4. \A k \in 1..(g - 1) : uSent'[k] # PG!AuthOK
      BY <1>1, <1>2, <3>1
    <3>5. toClient'[PGOffset' + 1] = uSent'[g + 1 - 1]
      BY <1>1, <1>2, <2>2, <3>1
    <3>6. PGGranted(g)'
      BY <2>1, <3>2, <3>3, <3>4, <3>5 DEF PGGranted
    <3>7. QED
      BY <1>5, <2>1, <3>3, <3>6 DEF PGClient, PGLogins
  <2>7. PGCounts'
    BY <1>1, <1>2, <1>5, PGCountsKept DEF PGInv
  <2>8. QED
    BY <2>3, <2>4, <2>5, <2>6, <2>7 DEF PGInv
<1>6. CASE /\ m = PG!AuthMD5 /\ UNCHANGED toClient /\ pc' = "auth"
           /\ toUpstream' = Append(toUpstream, PG!MD5Response)
  <2>1. PGSeen' = PGSeen
    BY <1>6 DEF PGSeen, PGOffset
  <2>2. PGTypes'
    BY <1>2, <1>6, PGTypesStep DEF PGStates, PG!Connected
  <2>3. PGStartup'
    BY <1>6 DEF PGStartup, PGEarly
  <2>4. PGUpstream'
    <3>1. PG!MD5Response[1] \in PG!OurTypes
      BY DEF PG!MD5Response, PG!OurTypes
    <3>2. QED
      BY <1>1, <1>6, <3>1, PGLoginUpstream DEF PGLogins
  <2>5. PGClient'
    <3>1. m # PG!AuthOK /\ m # PG!AuthSASL
      BY <1>6 DEF PG!AuthMD5, PG!AuthOK, PG!AuthSASL
    <3>2. \A k \in 1..(uRead + 1) : k \in 1..uRead \/ k = uRead + 1
      BY <1>2
    <3>3. PGProved(uRead)'
      BY <1>1, <1>2, <3>1, <3>2 DEF PGProved
    <3>4. QED
      BY <1>1, <1>2, <1>6, <2>1, <3>1, <3>2, <3>3 DEF PGClient, PGLogins
  <2>6. PGCounts'
    <3>1. PGDue(PG!MD5Response)
      BY <1>1, <1>6 DEF PGDue, PG!MD5Response, PG!SASLInitial, PG!SASLResponse
    <3>2. QED
      BY <1>1, <1>2, <1>6, <3>1, PGCountsKept DEF PGInv
  <2>7. QED
    BY <2>2, <2>3, <2>4, <2>5, <2>6 DEF PGInv
<1>7. CASE /\ m = PG!AuthSASL /\ UNCHANGED toClient /\ pc' = "serverFirst"
           /\ toUpstream' = Append(toUpstream, PG!SASLInitial)
  <2>1. PGSeen' = PGSeen
    BY <1>7 DEF PGSeen, PGOffset
  <2>2. PGTypes'
    BY <1>2, <1>7, PGTypesStep DEF PGStates, PG!Connected
  <2>3. PGStartup'
    BY <1>7 DEF PGStartup, PGEarly
  <2>4. PGUpstream'
    <3>1. PG!SASLInitial[1] \in PG!OurTypes
      BY DEF PG!SASLInitial, PG!OurTypes
    <3>2. QED
      BY <1>1, <1>7, <3>1, PGLoginUpstream DEF PGLogins
  <2>5. PGClient'
    <3>1. m # PG!AuthOK
      BY <1>7 DEF PG!AuthOK, PG!AuthSASL
    <3>2. \A k \in 1..(uRead + 1) : k \in 1..uRead \/ k = uRead + 1
      BY <1>2
    <3>3. PGProved(uRead - 1)'
      <4>1. uRead' - 1 = u
        BY <1>1, <1>3
      <4>2. QED
        BY <1>4, <4>1
    <3>4. uRead' > 0 /\ uSent'[uRead'] = PG!AuthSASL
      BY <1>1, <1>2, <1>7
    <3>5. QED
      BY <1>1, <1>2, <1>7, <2>1, <3>1, <3>2, <3>3, <3>4 DEF PGClient, PGLogins
  <2>6. PGCounts'
    <3>1. PGDue(PG!SASLInitial)
      BY <1>1, <1>7 DEF PGDue, PG!MD5Response, PG!SASLInitial, PG!SASLResponse
    <3>2. QED
      BY <1>1, <1>2, <1>7, <3>1, PGCountsKept DEF PGInv
  <2>7. QED
    BY <2>2, <2>3, <2>4, <2>5, <2>6 DEF PGInv
<1>8. CASE pc' = "closed" /\ UNCHANGED <<toClient, toUpstream>>
  BY <1>1, <1>8, PGCloses DEF PGLogins
<1>9. QED
  BY <1>1, <1>5, <1>6, <1>7, <1>8
  DEF PG!AuthLoop, PG!FromUpstream, PG!AsksMD5, PG!OnAuthError, PG!TellClient, PG!TellUpstream,
      PG!TellNobody, PG!Goto, PG!Stay, PG!Close

LEMMA PGScram ==
    ASSUME PGInv, PG!ScramFirst \/ PG!ScramFinal, HandlerStep PROVE PGInv'
<1> DEFINE m == uSent[uRead + 1]
<1>1. /\ pc \in {"serverFirst", "serverFinal"} /\ uRead < Len(uSent) /\ uRead' = uRead + 1
      /\ UNCHANGED <<cRead, uSent, toClient>>
  BY DEF PG!ScramFirst, PG!ScramFinal, PG!ReadsUpstream, PG!PeersUnchanged, PG!serverVars,
         PG!TellUpstream, PG!TellNobody
<1>2. PGTypes /\ uRead \in Nat /\ PGSeen = 0 /\ \A k \in 1..uRead : uSent[k] # PG!AuthOK
  BY <1>1, PGNumbers DEF PGInv, PGClient, PGLogins
<1>3. PGSeen' = 0
  BY <1>1, <1>2 DEF PGSeen, PGOffset
<1>4. CASE /\ pc = "serverFirst" /\ m = PG!ServerFirst /\ pc' = "serverFinal"
           /\ toUpstream' = Append(toUpstream, PG!SASLResponse)
  <2>1. PGTypes'
    BY <1>2, <1>4, PGTypesStep DEF PGStates, PG!Connected
  <2>2. PGStartup'
    BY <1>4 DEF PGStartup, PGEarly
  <2>3. PGUpstream'
    <3>1. PG!SASLResponse[1] \in PG!OurTypes
      BY DEF PG!SASLResponse, PG!OurTypes
    <3>2. QED
      BY <1>1, <1>4, <3>1, PGLoginUpstream DEF PGLogins
  <2>4. PGClient'
    <3>1. m # PG!AuthOK
      BY <1>4 DEF PG!AuthOK, PG!ServerFirst
    <3>2. uRead > 0 /\ PGProved(uRead - 1) /\ uSent[uRead] = PG!AuthSASL
      BY <1>4 DEF PGInv, PGClient
    <3>3. PICK u \in Nat : u = uRead - 1
      BY <1>2, <3>2
    <3>4. PGProved(u)'
      BY <1>1, <3>2, <3>3, PGProvedKept
    <3>5. PGProved(uRead - 2)'
      <4>1. uRead' - 2 = u
        BY <1>1, <1>2, <3>3
      <4>2. QED
        BY <3>4, <4>1
    <3>6. uRead' > 1 /\ uRead' - 1 = uRead
      BY <1>1, <1>2, <3>2
    <3>7. \A k \in 1..uRead' : k \in 1..uRead \/ k = uRead + 1
      BY <1>1, <1>2
    <3>8. QED
      BY <1>1, <1>2, <1>3, <1>4, <3>1, <3>2, <3>5, <3>6, <3>7 DEF PGClient, PGLogins
  <2>5. PGCounts'
    <3>1. PGDue(PG!SASLResponse)
      BY <1>1, <1>4 DEF PGDue, PG!MD5Response, PG!SASLInitial, PG!SASLResponse
    <3>2. QED
      BY <1>1, <1>2, <1>4, <3>1, PGCountsKept DEF PGInv
  <2>6. QED
    BY <2>1, <2>2, <2>3, <2>4, <2>5 DEF PGInv
<1>5. CASE /\ pc = "serverFinal" /\ m = PG!ServerFinal /\ pc' = "auth"
           /\ UNCHANGED toUpstream
  <2>1. PGTypes'
    BY <1>2, <1>5, PGTypesStep DEF PGStates, PG!Connected
  <2>2. PGStartup'
    BY <1>5 DEF PGStartup, PGEarly
  <2>3. PGUpstream'
    BY <1>1, <1>5, PGLoginUpstream DEF PGLogins
  <2>4. PGClient'
    <3>1. m # PG!AuthOK /\ m # PG!AuthSASL /\ PG!ServerFirst # PG!AuthSASL
      BY <1>5 DEF PG!AuthOK, PG!AuthSASL, PG!ServerFirst, PG!ServerFinal
    <3>2. uRead > 1 /\ PGProved(uRead - 2) /\ uSent[uRead - 1] = PG!AuthSASL
          /\ uSent[uRead] = PG!ServerFirst
      BY <1>5 DEF PGInv, PGClient
    <3>3. ASSUME NEW k \in 1..uRead', uSent[k] = PG!AuthSASL
          PROVE  /\ k + 2 <= uRead' /\ uSent[k + 1] = PG!ServerFirst
                 /\ uSent[k + 2] = PG!ServerFinal
      <4>1. k \in 1..(uRead - 2) \/ k = uRead - 1 \/ k = uRead \/ k = uRead + 1
        BY <1>1, <1>2, <3>2
      <4>2. CASE k \in 1..(uRead - 2)
        BY <1>1, <1>2, <3>2, <3>3, <4>2 DEF PGProved
      <4>3. CASE k = uRead - 1
        <5>1. k + 1 = uRead /\ k + 2 = uRead + 1
          BY <1>2, <4>3
        <5>2. QED
          BY <1>1, <1>2, <1>5, <3>2, <5>1
      <4>4. k # uRead /\ k # uRead + 1
        BY <3>1, <3>2, <3>3
      <4>5. QED
        BY <4>1, <4>2, <4>3, <4>4
    <3>4. PGProved(uRead)'
      BY <1>1, <3>3 DEF PGProved
    <3>5. \A k \in 1..uRead' : k \in 1..uRead \/ k = uRead + 1
      BY <1>1, <1>2
    <3>6. QED
      BY <1>1, <1>2, <1>3, <1>5, <3>1, <3>4, <3>5 DEF PGClient, PGLogins
  <2>5. PGCounts'
    BY <1>1, <1>2, <1>5, PGCountsKept DEF PGInv
  <2>6. QED
    BY <2>1, <2>2, <2>3, <2>4, <2>5 DEF PGInv
<1>6. CASE pc' = "closed" /\ UNCHANGED toUpstream
  BY <1>1, <1>6, PGCloses DEF PGLogins
<1>7. QED
  BY <1>4, <1>5, <1>6
  DEF PG!ScramFirst, PG!ScramFinal, PG!FinalVerified, PG!FromUpstream, PG!TellUpstream,
      PG!TellNobody, PG!Goto, PG!Close

LEMMA PGForward ==
    ASSUME PGInv, PG!ForwardStartup \/ PG!RelayToClient, HandlerStep PROVE PGInv'
<1> DEFINE m == uSent[uRead + 1]
<1>1. /\ pc \in {"forward", "relay"} /\ uRead < Len(uSent) /\ uRead' = uRead + 1
      /\ UNCHANGED <<cfg, cRead, cSent, uSent, toUpstream>>
      /\ toClient' = Append(toClient, m) /\ pc' \in {"forward", "relay"}
      /\ pc = "relay" => pc' = "relay"
      /\ pc # pc' => m = PG!Ready
  BY DEF PG!ForwardStartup, PG!RelayToClient, PG!PassDown, PG!ReadsUpstream, PG!FromUpstream,
         PG!TellClient, PG!EndsStartup, PG!Stay, PG!PeersUnchanged, PG!serverVars, PG!clientVars
<1>2. PGTypes /\ uRead \in Nat /\ cRead \in Nat /\ PGSeen > 0 /\ PGSeen \in Nat
      /\ PGOffset \in Nat /\ Len(toClient) = PGOffset + PGSeen /\ Sequence(toClient)
  BY <1>1, PGNumbers DEF PGInv, PGClient, PGTypes, Streams
<1>3. PGOffset' = PGOffset /\ PGSeen' = PGSeen + 1
  <2>1. Len(toClient) > 0
    BY <1>2
  <2> HIDE DEF m
  <2>2. QED
    BY <1>1, <1>2, <2>1, PGOffsetKept
<1>4. PGTypes'
  BY <1>1, <1>2, PGTypesStep DEF PGStates, PG!Connected
<1>5. PGStartup'
  BY <1>1 DEF PGStartup, PGEarly
<1>6. PGUpstream'
  <2>1. ASSUME NEW i, PGBehind(i) PROVE PGBehind(i)'
    <3>1. uRead' \in Nat /\ uRead <= uRead'
      BY <1>1, <1>2
    <3>2. QED
      BY <1>1, <1>2, <2>1, <3>1, PGBehindKept
  <2>2. toUpstream # <<>> => \E i \in 1..cRead' : PGBehind(i)'
    BY <1>1, <2>1 DEF PGInv, PGUpstream
  <2>3. pc = "forward" => PGBehind(cRead)'
    <3>1. PICK c : c = cRead
      OBVIOUS
    <3>2. pc = "forward" => PGBehind(c)'
      BY <2>1, <3>1 DEF PGInv, PGUpstream
    <3>3. QED
      BY <1>1, <3>1, <3>2
  <2>4. pc' = "relay" => toUpstream # <<>>
    <3>1. CASE pc = "relay"
      BY <3>1 DEF PGInv, PGUpstream
    <3>2. CASE pc = "forward"
      <4>1. cRead - cRead < Len(toUpstream)
        BY <3>2 DEF PGInv, PGUpstream, PGBehind
      <4>2. QED
        BY <1>2, <4>1, EmptyIs
    <3>3. QED
      BY <1>1, <3>1, <3>2
  <2>5. pc' = "relay" => \E r \in 1..uRead' : uSent'[r] = PG!Ready
    <3>1. CASE pc = "relay"
      <4>1. PICK r \in 1..uRead : uSent[r] = PG!Ready
        BY <3>1 DEF PGInv, PGUpstream
      <4>2. r \in 1..uRead'
        BY <1>1, <1>2
      <4>3. QED
        BY <1>1, <4>1, <4>2
    <3>2. CASE m = PG!Ready
      <4>1. uRead + 1 \in 1..uRead'
        BY <1>1, <1>2
      <4>2. QED
        BY <1>1, <3>2, <4>1
    <3>3. QED
      BY <1>1, <3>1, <3>2
  <2>6. QED
    BY <1>1, <2>2, <2>3, <2>4, <2>5 DEF PGUpstream, PGLogins
<1>7. PGClient'
  <2>1. PICK g \in 1..uRead : PGGranted(g)
    BY <1>2 DEF PGInv, PGClient
  <2>2. /\ uSent[g] = PG!AuthOK /\ PGProved(g - 1) /\ PGSeen = uRead - g + 1
        /\ \A k \in 1..(g - 1) : uSent[k] # PG!AuthOK
        /\ \A k \in 1..PGSeen : toClient[PGOffset + k] = uSent[g + k - 1]
    BY <2>1 DEF PGGranted
  <2>3. PGProved(g - 1)'
    <3>1. PICK n \in Nat : n = g - 1
      BY <1>2
    <3>2. PGProved(n)'
      BY <1>1, <2>2, <3>1, PGProvedKept
    <3>3. QED
      BY <3>1, <3>2
  <2>4. PGSeen' = uRead' - g + 1 /\ g \in 1..uRead'
    BY <1>1, <1>2, <1>3, <2>2
  <2>5. ASSUME NEW k \in 1..PGSeen' PROVE toClient'[PGOffset' + k] = uSent'[g + k - 1]
    <3>1. k \in 1..PGSeen \/ k = PGSeen + 1
      BY <1>2, <1>3
    <3>2. CASE k \in 1..PGSeen
      <4>1. PGOffset + k \in 1..Len(toClient)
        BY <1>2, <3>2
      <4>2. toClient'[PGOffset + k] = toClient[PGOffset + k]
        BY <1>1, <1>2, <4>1, AppendIs
      <4>3. QED
        BY <1>1, <1>3, <2>2, <3>2, <4>2
    <3>3. CASE k = PGSeen + 1
      <4>1. PGOffset + k = Len(toClient) + 1 /\ g + k - 1 = uRead + 1
        BY <1>2, <2>2, <3>3
      <4>2. toClient'[Len(toClient) + 1] = m
        <5> HIDE DEF m
        <5>1. QED
          BY <1>1, <1>2, AppendIs
      <4>3. QED
        BY <1>1, <1>3, <4>1, <4>2
    <3>4. QED
      BY <3>1, <3>2, <3>3
  <2>6. PGGranted(g)'
    BY <1>1, <2>2, <2>3, <2>4, <2>5 DEF PGGranted
  <2>7. PGSeen' > 0
    BY <1>2, <1>3
  <2>8. QED
    BY <1>1, <2>4, <2>6, <2>7 DEF PGClient, PGLogins
<1>8. PGCounts'
  BY <1>1, <1>2, PGCountsKept DEF PGInv
<1>9. QED
  BY <1>4, <1>5, <1>6, <1>7, <1>8 DEF PGInv

LEMMA PGPassesUp ==
    ASSUME PGInv, PG!RelayToUpstream, HandlerStep PROVE PGInv'
<1> DEFINE m == cSent[cRead + 1]
<1>1. /\ pc = "relay" /\ pc' = "relay" /\ cRead < Len(cSent) /\ cRead' = cRead + 1
      /\ UNCHANGED <<cfg, uRead, cSent, uSent, toClient>>
      /\ toUpstream' = Append(toUpstream, m)
  BY DEF PG!RelayToUpstream, PG!PipesClient, PG!PassUp, PG!ReadsClient, PG!FromClient, PG!Relayed,
         PG!TellUpstream, PG!Stay, PG!PeersUnchanged, PG!serverVars, PG!clientVars
<1>2. PGTypes /\ uRead \in Nat /\ cRead \in Nat /\ Len(toUpstream) \in Nat
      /\ Sequence(toUpstream)
  BY PGNumbers DEF PGInv, PGTypes, Streams
<1>3. PGOffset' = PGOffset /\ PGSeen' = PGSeen
  BY <1>1 DEF PGOffset, PGSeen
<1>4. /\ Len(toUpstream') = Len(toUpstream) + 1 /\ toUpstream'[Len(toUpstream) + 1] = m
      /\ \A i \in 1..Len(toUpstream) : toUpstream'[i] = toUpstream[i]
  <2> HIDE DEF m
  <2>1. QED
    BY <1>1, <1>2, AppendIs
<1>5. m[1] \notin PG!OurTypes
  <2>1. cRead + 1 \in 1..Len(cSent) /\ Len(cSent) <= Len(script) /\ Len(script) \in Nat
        /\ Len(cSent) \in Nat
    BY <1>1, <1>2, PGNumbers DEF PGTypes, Streams
  <2>2. cRead + 1 \in 1..Len(script)
    BY <2>1
  <2>3. m \in PG!ClientMsgs
    BY <1>2, <2>1, <2>2 DEF PGTypes, Streams
  <2> HIDE DEF m
  <2>4. QED
    BY <2>3, PGClientMsgIs
<1>6. PGTypes'
  BY <1>1, <1>2, PGTypesStep DEF PGStates, PG!Connected
<1>7. PGStartup'
  BY <1>1 DEF PGStartup, PGEarly
<1>8. PGUpstream'
  <2>1. toUpstream # <<>> /\ \E r \in 1..uRead : uSent[r] = PG!Ready
    BY <1>1 DEF PGInv, PGUpstream
  <2>2. PICK i \in 1..cRead : PGBehind(i)
    BY <2>1 DEF PGInv, PGUpstream
  <2>3. /\ PG!StartupAt(i) /\ cRead - i < Len(toUpstream) /\ toUpstream[1] = PGOpening(i)
        /\ \A k \in 1..(Len(toUpstream) - (cRead - i)) : toUpstream[k][1] \in PG!OurTypes
        /\ \A k \in 1..(cRead - i) :
               toUpstream[Len(toUpstream) - (cRead - i) + k] = cSent[i + k]
    BY <2>2 DEF PGBehind
  <2>4. PICK d \in Nat : d = cRead - i
    BY <1>2
  <2>5. cRead' - i = d + 1 /\ Len(toUpstream') - (d + 1) = Len(toUpstream) - d
        /\ d < Len(toUpstream) /\ i \in 1..cRead'
    BY <1>1, <1>2, <1>4, <2>3, <2>4
  <2>6. PG!StartupAt(i)' /\ PGOpening(i)' = PGOpening(i)
    BY <1>1, <2>3, Zenon DEF PG!StartupAt, PGOpening
  <2>7. toUpstream'[1] = PGOpening(i)'
    BY <1>2, <1>4, <2>3, <2>5, <2>6
  <2>8. \A k \in 1..(Len(toUpstream) - d) : toUpstream'[k][1] \in PG!OurTypes
    <3>1. \A k \in 1..(Len(toUpstream) - d) : k \in 1..Len(toUpstream)
      BY <1>2, <2>4
    <3>2. QED
      BY <1>4, <2>3, <2>4, <3>1
  <2>9. ASSUME NEW k \in 1..(d + 1)
        PROVE  toUpstream'[Len(toUpstream) - d + k] = cSent'[i + k]
    <3>1. CASE k = d + 1
      <4>1. Len(toUpstream) - d + k = Len(toUpstream) + 1 /\ i + k = cRead + 1
        BY <1>2, <2>4, <3>1
      <4>2. QED
        BY <1>1, <1>4, <4>1
    <3>2. CASE k \in 1..d
      <4>1. Len(toUpstream) - d + k \in 1..Len(toUpstream)
        BY <1>2, <2>4, <2>5, <3>2
      <4>2. toUpstream[Len(toUpstream) - d + k] = cSent[i + k]
        BY <2>3, <2>4, <3>2
      <4>3. QED
        BY <1>1, <1>4, <4>1, <4>2
    <3>3. QED
      BY <2>4, <3>1, <3>2
  <2>10. d + 1 < Len(toUpstream')
    BY <1>2, <1>4, <2>4, <2>5
  <2>11. \E r \in 1..uRead' : uSent'[r] = PG!Ready
    BY <1>1, <2>1
  <2>12. PGBehind(i)'
    BY <2>5, <2>6, <2>7, <2>8, <2>9, <2>10, <2>11 DEF PGBehind
  <2>13. toUpstream' # <<>>
    BY <1>2, <1>4, EmptyIs
  <2>14. QED
    BY <1>1, <2>5, <2>11, <2>12, <2>13 DEF PGUpstream, PGLogins
<1>9. PGClient'
  <2>1. ASSUME NEW g, PGGranted(g) PROVE PGGranted(g)'
    BY <1>1, <1>2, <2>1, PGGrantedKept
  <2>2. QED
    BY <1>1, <1>3, <2>1 DEF PGInv, PGClient, PGLogins
<1>10. PGCounts'
  <2>1. PGDue(m)
    <3>1. /\ PG!MD5Response[1] \in PG!OurTypes /\ PG!SASLInitial[1] \in PG!OurTypes
          /\ PG!SASLResponse[1] \in PG!OurTypes
      BY DEF PG!MD5Response, PG!SASLInitial, PG!SASLResponse, PG!OurTypes
    <3> HIDE DEF m
    <3>2. QED
      BY <1>5, <3>1 DEF PGDue
  <2> HIDE DEF m
  <2>2. QED
    BY <1>1, <1>2, <2>1, PGCountsKept DEF PGInv
<1>11. QED
  BY <1>6, <1>7, <1>8, <1>9, <1>10 DEF PGInv

LEMMA PGNext == ASSUME PGInv, PG!Next, UNCHANGED <<kind, br>> PROVE PGInv'
<1>1. CASE PG!ClientSends \/ PG!ClientCloses
  BY <1>1, PGClientMoves
<1>2. CASE PG!UpstreamAnswers \/ PG!UpstreamSendsAnything \/ PG!UpstreamCloses
  BY <1>2, PGUpstreamMoves
<1>3. CASE PG!Handler \/ PG!Relay
  <2>1. HandlerStep
    BY <1>3, PGHandlerStep
  <2>2. CASE PG!ReadStartup \/ PG!Dial
    BY <2>1, <2>2, PGReadsStartup, PGDials
  <2>3. CASE PG!AuthLoop \/ PG!ScramFirst \/ PG!ScramFinal
    BY <2>1, <2>3, PGAuthLoop, PGScram
  <2>4. CASE PG!ForwardStartup \/ PG!Relay
    BY <2>1, <2>4, PGForward, PGPassesUp DEF PG!Relay
  <2>5. CASE PG!ClientLeft \/ PG!UpstreamLeft
    BY <2>1, <2>5, PGCloses
    DEF PG!ClientLeft, PG!UpstreamLeft, PG!ClientGone, PG!UpstreamGone, PG!Close, PG!TellNobody,
        PG!ReadsNobody
  <2>6. QED
    BY <1>3, <2>2, <2>3, <2>4, <2>5 DEF PG!Handler
<1>4. QED
  BY <1>1, <1>2, <1>3 DEF PG!Next

LEMMA PGStutter == ASSUME PGInv, UNCHANGED vars PROVE PGInv'
<1>1. PGTypes /\ PGTypes'
  BY DEF PGInv, PGTypes, Streams, vars
<1>2. /\ UNCHANGED <<pc, cfg, cRead, toClient, uRead, toUpstream>>
      /\ cSent' = cSent /\ uSent' = uSent
  BY DEF vars
<1>3. QED
  BY <1>1, <1>2, PGPeersKeep

-----------------------------------------------------------------------------
(* What the invariant means *)

LEMMA PGTypeMeans == ASSUME PGTypes PROVE PG!TypeOK
<1>1. PG!IsPrefix(cSent, script)
  BY PrefixIs DEF PG!IsPrefix, PGTypes, Streams
<1>2. QED
  BY <1>1 DEF PG!TypeOK, PG!TypeInvariant, PGTypes, PGStates, Streams

LEMMA PGSeenIs ==
    ASSUME PGTypes
    PROVE  /\ Sequence(PG!SeenByClient) /\ Len(PG!SeenByClient) = PGSeen
           /\ \A k \in 1..PGSeen : PG!SeenByClient[k] = toClient[PGOffset + k]
<1> DEFINE f == PG!SeenByClient
<1>1. /\ Len(toClient) \in Nat /\ PGOffset \in {0, 1} /\ PGSeen \in Nat
      /\ Len(toClient) = PGOffset + PGSeen /\ Sequence(toClient)
      /\ (toClient # <<>> <=> Len(toClient) > 0)
  <2>1. Sequence(toClient) /\ Len(toClient) \in Nat /\ PGOffset \in {0, 1}
        /\ PGSeen \in Nat /\ Len(toClient) = PGOffset + PGSeen
    BY PGNumbers DEF PGTypes, Streams
  <2>2. toClient = <<>> <=> Len(toClient) = 0
    BY <2>1, EmptyIs
  <2>3. QED
    BY <2>1, <2>2
<1>2. CASE PGOffset = 1
  <2>1. toClient # <<>> /\ toClient[1] = PG!NoSSL
    BY <1>1, <1>2 DEF PGOffset
  <2>2. /\ Sequence(Tail(toClient)) /\ Len(Tail(toClient)) = Len(toClient) - 1
        /\ Head(toClient) = toClient[1]
        /\ \A i \in 1..(Len(toClient) - 1) : Tail(toClient)[i] = toClient[i + 1]
    BY <1>1, <2>1, TailIs
  <2>3. f = Tail(toClient)
    BY <2>1, <2>2 DEF PG!SeenByClient
  <2> HIDE DEF f
  <2>4. PGSeen = Len(toClient) - 1 /\ \A i \in 1..PGSeen : i + 1 = PGOffset + i
    BY <1>1, <1>2
  <2>5. QED
    BY <2>2, <2>3, <2>4 DEF f
<1>3. CASE PGOffset = 0
  <2>1. f = toClient
    <3>1. CASE toClient = <<>>
      BY <3>1 DEF PG!SeenByClient
    <3>2. CASE toClient # <<>>
      <4>1. Len(toClient) > 0 /\ Head(toClient) = toClient[1]
        BY <1>1, <3>2, TailIs
      <4>2. toClient[1] # PG!NoSSL
        BY <1>3, <4>1 DEF PGOffset
      <4>3. QED
        BY <4>1, <4>2 DEF PG!SeenByClient
    <3>3. QED
      BY <3>1, <3>2
  <2> HIDE DEF f
  <2>2. PGSeen = Len(toClient) /\ \A i \in 1..PGSeen : i = PGOffset + i
    BY <1>1, <1>3
  <2>3. QED
    BY <1>1, <2>1, <2>2 DEF f
<1>4. QED
  BY <1>1, <1>2, <1>3

LEMMA PGClientMeans ==
    ASSUME PGInv PROVE PG!ClientSeesOnlySession /\ PG!GrantNeedsSignature
<1> DEFINE f == PG!SeenByClient
<1>1. PGTypes /\ uRead \in Nat /\ Len(uSent) \in Nat /\ uRead <= Len(uSent) /\ PGSeen \in Nat
      /\ Sequence(uSent)
  BY PGNumbers DEF PGInv, PGTypes, Streams
<1>2. /\ Sequence(f) /\ Len(f) = PGSeen
      /\ \A k \in 1..PGSeen : f[k] = toClient[PGOffset + k]
  BY <1>1, PGSeenIs
<1>3. ASSUME f # <<>>
      PROVE  \E g \in 1..Len(uSent) :
                 /\ PG!IsFirst(uSent, PG!AuthOK, g) /\ PGProved(g - 1)
                 /\ f = SubSeq(uSent, g, g + Len(f) - 1)
  <2> HIDE DEF f
  <2>1. PGSeen > 0
    BY <1>1, <1>2, <1>3, EmptyIs
  <2>2. PICK g \in 1..uRead : PGGranted(g)
    BY <2>1 DEF PGInv, PGClient
  <2>3. /\ uSent[g] = PG!AuthOK /\ PGProved(g - 1) /\ PGSeen = uRead - g + 1
        /\ \A k \in 1..(g - 1) : uSent[k] # PG!AuthOK
        /\ \A k \in 1..PGSeen : toClient[PGOffset + k] = uSent[g + k - 1]
    BY <2>2 DEF PGGranted
  <2>4. g \in Nat /\ g \in 1..Len(uSent) /\ g + Len(f) - 1 = uRead /\ g <= uRead + 1
        /\ uRead - g + 1 = Len(f)
    BY <1>1, <1>2, <2>3
  <2> DEFINE t == SubSeq(uSent, g, uRead)
  <2>5. Sequence(t) /\ Len(t) = uRead - g + 1
        /\ \A k \in 1..(uRead - g + 1) : t[k] = uSent[g + k - 1]
    BY <1>1, <2>4, SubSeqIs
  <2> HIDE DEF t
  <2>6. f = t
    <3>1. Len(t) = Len(f) /\ \A k \in 1..Len(f) : f[k] = t[k]
      BY <1>2, <2>3, <2>4, <2>5
    <3>2. QED
      BY <1>2, <2>5, <3>1, SameSequence
  <2>7. PG!IsFirst(uSent, PG!AuthOK, g)
    BY <2>3 DEF PG!IsFirst
  <2>8. QED
    BY <2>3, <2>4, <2>6, <2>7 DEF t
<1>4. PG!ClientSeesOnlySession
  BY <1>3 DEF PG!ClientSeesOnlySession
<1>5. PG!GrantNeedsSignature
  <2>1. ASSUME NEW g \in 1..Len(uSent), NEW k \in 1..Len(uSent),
               PG!IsFirst(uSent, PG!AuthOK, g), f # <<>>, k < g, uSent[k] = PG!AuthSASL
        PROVE  /\ k + 2 < g /\ uSent[k + 1] = PG!ServerFirst
               /\ uSent[k + 2] = PG!ServerFinal
    <3>1. PICK h \in 1..Len(uSent) : PG!IsFirst(uSent, PG!AuthOK, h) /\ PGProved(h - 1)
      BY <1>3, <2>1
    <3>2. h = g
      <4>1. ~(h < g)
        BY <1>1, <2>1, <3>1 DEF PG!IsFirst
      <4>2. ~(g < h)
        BY <1>1, <2>1, <3>1 DEF PG!IsFirst
      <4>3. QED
        BY <1>1, <4>1, <4>2
    <3>3. PGProved(g - 1) /\ k \in 1..(g - 1)
      BY <1>1, <2>1, <3>1, <3>2
    <3>4. /\ k + 2 <= g - 1 /\ uSent[k + 1] = PG!ServerFirst /\ uSent[k + 2] = PG!ServerFinal
      BY <2>1, <3>3 DEF PGProved
    <3>5. QED
      BY <1>1, <3>4
  <2>2. QED
    BY <2>1 DEF PG!GrantNeedsSignature
<1>6. QED
  BY <1>4, <1>5

\* What the client sent is what follows our messages.
LEMMA PGSentIs ==
    ASSUME PGTypes, NEW i, PGBehind(i)
    PROVE  /\ PG!SentByClient = SubSeq(cSent, i + 1, cRead)
           /\ Len(PG!SentByClient) = cRead - i
<1>1. /\ Sequence(toUpstream) /\ Sequence(cSent) /\ Len(toUpstream) \in Nat /\ cRead \in Nat
      /\ Len(cSent) \in Nat /\ cRead <= Len(cSent) /\ i \in 1..cRead
      /\ Len(cSent) <= Len(script) /\ Len(script) \in Nat
  BY PGNumbers DEF PGTypes, Streams, PGBehind
<1>2. /\ cRead - i < Len(toUpstream)
      /\ \A k \in 1..(Len(toUpstream) - (cRead - i)) : toUpstream[k][1] \in PG!OurTypes
      /\ \A k \in 1..(cRead - i) :
             toUpstream[Len(toUpstream) - (cRead - i) + k] = cSent[i + k]
  BY DEF PGBehind
<1>3. PICK d \in Nat : d = cRead - i
  BY <1>1
<1>4. PICK n \in Nat : n = Len(toUpstream)
  BY <1>1
<1>5. PICK o \in Nat : o = n - d
  BY <1>2, <1>3, <1>4
<1>6. o + d = n /\ o \in 0..n /\ i + d = cRead
  BY <1>1, <1>3, <1>4, <1>5
<1>7. ASSUME NEW k \in 1..d
      PROVE  toUpstream[o + k] = cSent[i + k] /\ toUpstream[o + k][1] \notin PG!OurTypes
  <2>1. toUpstream[o + k] = cSent[i + k]
    BY <1>2, <1>3, <1>4, <1>5
  <2>2. i + k \in 1..Len(cSent) /\ i + k \in 1..Len(script)
    BY <1>1, <1>6
  <2>3. cSent[i + k] \in PG!ClientMsgs
    BY <2>2 DEF PGTypes, Streams
  <2>4. QED
    BY <2>1, <2>3, PGClientMsgIs
<1>8. PG!Ours = o
  <2>1. \A k \in 1..o : toUpstream[k][1] \in PG!OurTypes
    BY <1>2, <1>3, <1>4, <1>5
  <2>2. ASSUME NEW k \in 1..n, k > o PROVE toUpstream[k][1] \notin PG!OurTypes
    <3>1. PICK j \in 1..d : k = o + j
      <4>1. k - o \in 1..d /\ k = o + (k - o)
        BY <1>6, <2>2
      <4>2. QED
        BY <4>1
    <3>2. QED
      BY <1>7, <3>1
  <2>3. PG!CountTypes(toUpstream, n, PG!OurTypes) = o
    BY <1>6, <2>1, <2>2, CountTypesIs
  <2>4. QED
    BY <1>4, <2>3 DEF PG!Ours
<1> DEFINE s == SubSeq(toUpstream, o + 1, n)
           t == SubSeq(cSent, i + 1, cRead)
<1>9. Sequence(s) /\ Len(s) = d /\ \A k \in 1..d : s[k] = toUpstream[o + k]
  <2>1. o + 1 \in Nat /\ 1 <= o + 1 /\ o + 1 <= n + 1 /\ n <= Len(toUpstream)
        /\ n - (o + 1) + 1 = d /\ \A k \in 1..d : (o + 1) + k - 1 = o + k
    BY <1>4, <1>6
  <2>2. Sequence(s) /\ Len(s) = n - (o + 1) + 1
        /\ \A k \in 1..(n - (o + 1) + 1) : s[k] = toUpstream[(o + 1) + k - 1]
    BY <1>1, <2>1, SubSeqIs
  <2> HIDE DEF s
  <2>3. QED
    BY <2>1, <2>2
<1>10. Sequence(t) /\ Len(t) = d /\ \A k \in 1..d : t[k] = cSent[i + k]
  <2>1. i + 1 \in Nat /\ 1 <= i + 1 /\ i + 1 <= cRead + 1
        /\ cRead - (i + 1) + 1 = d /\ \A k \in 1..d : (i + 1) + k - 1 = i + k
    BY <1>1, <1>6
  <2>2. Sequence(t) /\ Len(t) = cRead - (i + 1) + 1
        /\ \A k \in 1..(cRead - (i + 1) + 1) : t[k] = cSent[(i + 1) + k - 1]
    BY <1>1, <2>1, SubSeqIs
  <2> HIDE DEF t
  <2>3. QED
    BY <2>1, <2>2
<1>11. PG!SentByClient = s
  BY <1>4, <1>8 DEF PG!SentByClient
<1> HIDE DEF s, t
<1>12. s = t
  BY <1>7, <1>9, <1>10, SameSequence
<1>13. QED
  BY <1>3, <1>9, <1>11, <1>12 DEF t

LEMMA PGUpstreamMeans == ASSUME PGInv PROVE PG!UpstreamSeesConfig
<1>1. PGTypes /\ cRead \in Nat
  BY PGNumbers DEF PGInv
<1>2. ASSUME NEW i \in 1..cRead, PGBehind(i)
      PROVE  /\ PG!StartupAt(i)
             /\ toUpstream[1] = PG!OurStartup(IF cfg = "" THEN cSent[i][2] ELSE cfg)
             /\ Len(PG!SentByClient) = cRead - i
             /\ PG!SentByClient = SubSeq(cSent, i + 1, cRead)
             /\ PG!SentByClient # <<>> => \E r \in 1..uRead : uSent[r] = PG!Ready
  <2> DEFINE s == PG!SentByClient
  <2>1. s = SubSeq(cSent, i + 1, cRead) /\ Len(s) = cRead - i
    BY <1>1, <1>2, PGSentIs
  <2> HIDE DEF s
  <2>2. PG!StartupAt(i) /\ toUpstream[1] = PGOpening(i)
        /\ (cRead > i => \E r \in 1..uRead : uSent[r] = PG!Ready)
    BY <1>2 DEF PGBehind
  <2>3. s # <<>> => cRead > i
    <3>1. Sequence(s)
      <4>1. Sequence(cSent) /\ i + 1 \in Nat /\ 1 <= i + 1 /\ i + 1 <= cRead + 1
            /\ cRead <= Len(cSent)
        BY <1>1, PGNumbers DEF PGTypes, Streams
      <4>2. QED
        BY <1>1, <2>1, <4>1, SubSeqIs
    <3>2. s # <<>> => Len(s) # 0
      BY <3>1, EmptyIs
    <3>3. QED
      BY <1>1, <2>1, <3>2
  <2>4. s # <<>> => \E r \in 1..uRead : uSent[r] = PG!Ready
    BY <2>2, <2>3
  <2>5. PG!StartupAt(i)
    BY <2>2
  <2>6. toUpstream[1] = PG!OurStartup(IF cfg = "" THEN cSent[i][2] ELSE cfg)
    BY <2>2, Zenon DEF PGOpening
  <2>7. QED
    BY <2>1, <2>4, <2>5, <2>6, Zenon DEF s
<1>3. toUpstream # <<>> => \E i \in 1..cRead : PGBehind(i)
  BY DEF PGInv, PGUpstream
<1>4. QED
  BY <1>2, <1>3, Zenon DEF PG!UpstreamSeesConfig

LEMMA PGCountsMean == ASSUME PGInv PROVE PG!AnswersChallenges
  BY DEF PGInv, PGCounts, PGAnswers, PG!AnswersChallenges

LEMMA PGMeans ==
    ASSUME PGInv
    PROVE  /\ PG!TypeOK /\ PG!ClientSeesOnlySession /\ PG!UpstreamSeesConfig
           /\ PG!GrantNeedsSignature /\ PG!AnswersChallenges
<1>1. PG!TypeOK
  BY PGTypeMeans DEF PGInv
<1>2. QED
  BY <1>1, PGClientMeans, PGUpstreamMeans, PGCountsMean

-----------------------------------------------------------------------------
(* The steps as CredentialSession sees them *)

\* What has passed are the messages that are not the gateway's own.
LEMMA PGPassedIs ==
    ASSUME NEW s, Sequence(s)
    PROVE  Len(SubSeq(s, PG!CountTypes(s, Len(s), PG!OurTypes) + 1, Len(s)))
               = Others(s, PG!OurTypes)
<1> PICK types : types = PG!OurTypes
  OBVIOUS
<1> DEFINE o == PG!CountTypes(s, Len(s), types)
           n == Len(s)
<1>1. n \in Nat /\ o \in 0..n
  BY LenIs, OthersNumber
<1> HIDE DEF o
<1>2. Len(SubSeq(s, o + 1, n)) = n - (o + 1) + 1
  BY <1>1, SubSeqIs
<1>3. QED
  BY <1>1, <1>2 DEF Others, o

\* That the upstream has sent AuthenticationOk is never taken back.
LEMMA PGVerdictGrows ==
    ASSUME PGTypes, Grows(uSent, uSent')
    PROVE  PG!Verdict' = PG!Verdict \/ (PG!Verdict = "pending" /\ PG!Verdict' = "accepted")
<1>1. /\ \A m \in Range(uSent) : \E i \in 1..Len(uSent) : uSent[i] = m
      /\ \A i \in 1..Len(uSent') : uSent'[i] \in Range(uSent')
      /\ Len(uSent) \in Nat /\ Len(uSent') \in Nat
  <2>1. Sequence(uSent) /\ Sequence(uSent')
    BY DEF PGTypes, Streams, Grows
  <2>2. QED
    BY <2>1, RangeIs, LenIs
<1>2. PG!AuthOK \in Range(uSent) => PG!AuthOK \in Range(uSent')
  <2>1. ASSUME NEW i \in 1..Len(uSent) PROVE uSent[i] \in Range(uSent')
    BY <1>1 DEF Grows
  <2>2. QED
    BY <1>1, <2>1
<1>3. PG!Range(uSent) = Range(uSent) /\ PG!Range(uSent)' = Range(uSent')
  BY DEF PG!Range, Range
<1>4. QED
  BY <1>2, <1>3 DEF PG!Verdict, PG!AuthOK

LEMMA PGRefines ==
    ASSUME PGInv, PG!Next, UNCHANGED <<kind, br>>
    PROVE  MayGo(PG!Phase, PG!Phase', PG!Verdict, PG!Verdict', PG!Passed, PG!Passed')
<1> DEFINE Goal == MayGo(PG!Phase, PG!Phase', PG!Verdict, PG!Verdict', PG!Passed, PG!Passed')
<1>1. /\ PGTypes /\ Sequence(toUpstream) /\ Sequence(uSent) /\ Len(uSent) \in Nat
      /\ uRead \in Nat /\ cRead \in Nat /\ Len(cSent) \in Nat /\ Len(script) \in Nat
  BY PGNumbers DEF PGInv, PGTypes, Streams
<1>2. toUpstream' = toUpstream => PG!Passed' = PG!Passed
  BY DEF PG!Passed, PG!SentByClient, PG!Ours
<1>3. ASSUME UNCHANGED <<pc, toUpstream>>, Grows(uSent, uSent') PROVE Goal
  BY <1>1, <1>2, <1>3, PGVerdictGrows DEF MayGo, PG!Phase
<1>4. Grows(uSent, uSent)
  BY <1>1 DEF Grows
<1>5. CASE PG!ClientSends \/ PG!ClientCloses
  BY <1>3, <1>4, <1>5 DEF PG!ClientSends, PG!ClientCloses, PG!handlerVars, PG!serverVars
<1>6. CASE PG!UpstreamAnswers \/ PG!UpstreamSendsAnything \/ PG!UpstreamCloses
  BY <1>3, <1>6, PGUpstreamSteps DEF UpstreamStep
<1>7. CASE PG!Handler \/ PG!Relay
  <2>1. HandlerStep
    BY <1>7, PGHandlerStep
  <2>2. /\ UNCHANGED <<uSent, script, cSent>> /\ PG!Verdict' = PG!Verdict
        /\ Sequence(toUpstream')
    BY <1>1, <2>1, HandlerStepKeeps DEF HandlerStep, PG!Verdict, PGTypes, Grows
  <2>3. PG!Passed = Others(toUpstream, PG!OurTypes) /\ PG!Passed \in Nat
    BY <1>1, PGPassedIs, OthersNumber DEF PG!Passed, PG!SentByClient, PG!Ours
  <2>4. ASSUME NEW m, toUpstream' = Append(toUpstream, m)
        PROVE  PG!Passed' = PG!Passed + (IF m[1] \in PG!OurTypes THEN 0 ELSE 1)
    <3>1. PG!Passed' = Others(toUpstream', PG!OurTypes)
      BY <2>2, PGPassedIs DEF PG!Passed, PG!SentByClient, PG!Ours
    <3>2. QED
      BY <1>1, <2>3, <2>4, <3>1, OthersAppend
  <2>5. ASSUME pc \in PGEarly \cup PGLogins, pc' \in PGEarly \cup PGLogins,
               \/ UNCHANGED toUpstream
               \/ \E m : toUpstream' = Append(toUpstream, m) /\ m[1] \in PG!OurTypes
        PROVE  Goal
    <3>1. PG!Passed' = PG!Passed
      BY <1>2, <2>3, <2>4, <2>5
    <3>2. QED
      BY <2>2, <2>5, <3>1 DEF MayGo, PG!Phase, PGEarly, PGLogins
  <2>6. ASSUME pc # "closed", pc \in PGStates, pc' = "closed", UNCHANGED toUpstream PROVE Goal
    BY <1>2, <2>2, <2>6 DEF MayGo, PG!Phase, PGStates, PG!Connected
  <2>7. pc \in PGStates
    BY <1>1 DEF PGTypes
  <2>8. CASE PG!ReadStartup
    BY <2>5, <2>6, <2>7, <2>8
    DEF PG!ReadStartup, PG!Goto, PG!Close, PG!TellClient, PG!TellNobody, PGEarly
  <2>9. CASE PG!Dial
    <3>1. \A db : PG!OurStartup(db)[1] \in PG!OurTypes
      BY DEF PG!OurStartup, PG!OurTypes
    <3>2. QED
      BY <2>5, <2>6, <2>7, <2>9, <3>1
      DEF PG!Dial, PG!Goto, PG!Close, PG!TellUpstream, PG!TellNobody, PGEarly, PGLogins
  <2>10. /\ PG!MD5Response[1] \in PG!OurTypes /\ PG!SASLInitial[1] \in PG!OurTypes
         /\ PG!SASLResponse[1] \in PG!OurTypes
    BY DEF PG!MD5Response, PG!SASLInitial, PG!SASLResponse, PG!OurTypes
  <2>11. CASE PG!AuthLoop
    <3>1. pc = "auth" /\ uRead < Len(uSent)
      BY <2>11 DEF PG!AuthLoop, PG!ReadsUpstream
    <3>2. CASE PG!FromUpstream = PG!AuthOK /\ PG!TellClient(PG!FromUpstream) /\ PG!Goto("forward")
      <4>1. PG!AuthOK \in PG!Range(uSent)
        <5>1. uRead + 1 \in 1..Len(uSent)
          BY <1>1, <3>1
        <5>2. uSent[uRead + 1] \in Range(uSent)
          BY <1>1, <5>1, RangeIs
        <5>3. QED
          BY <3>2, <5>2 DEF PG!FromUpstream, PG!Range, Range
      <4>2. PG!Verdict = "accepted"
        BY <4>1 DEF PG!Verdict
      <4>3. pc' = "forward" /\ toUpstream' = toUpstream
        BY <3>2 DEF PG!Goto, PG!TellClient
      <4>4. QED
        BY <1>2, <2>2, <3>1, <4>2, <4>3 DEF MayGo, PG!Phase
    <3>3. CASE PG!TellUpstream(PG!MD5Response) /\ PG!Stay
      BY <2>5, <2>10, <3>1, <3>3 DEF PG!TellUpstream, PG!Stay, PGLogins
    <3>4. CASE PG!TellUpstream(PG!SASLInitial) /\ PG!Goto("serverFirst")
      BY <2>5, <2>10, <3>1, <3>4 DEF PG!TellUpstream, PG!Goto, PGLogins
    <3>5. CASE PG!TellNobody /\ PG!Close
      BY <2>6, <2>7, <3>1, <3>5 DEF PG!TellNobody, PG!Close
    <3>6. QED
      BY <2>11, <3>2, <3>3, <3>4, <3>5 DEF PG!AuthLoop, PG!OnAuthError
  <2>12. CASE PG!ScramFirst
    BY <2>5, <2>6, <2>7, <2>10, <2>12
    DEF PG!ScramFirst, PG!Goto, PG!Close, PG!TellUpstream, PG!TellNobody, PGLogins
  <2>13. CASE PG!ScramFinal
    BY <2>5, <2>6, <2>7, <2>13 DEF PG!ScramFinal, PG!Goto, PG!Close, PG!TellNobody, PGLogins
  <2>14. CASE PG!ForwardStartup
    <3>1. pc = "forward" /\ pc' \in {"forward", "relay"} /\ UNCHANGED toUpstream
      BY <2>14 DEF PG!ForwardStartup, PG!TellClient
    <3>2. QED
      BY <1>2, <2>2, <3>1 DEF MayGo, PG!Phase
  <2>15. CASE PG!ClientLeft \/ PG!UpstreamLeft
    BY <2>6, <2>7, <2>15
    DEF PG!ClientLeft, PG!UpstreamLeft, PG!ClientGone, PG!UpstreamGone, PG!Close, PG!TellNobody
  <2>16. CASE PG!RelayToUpstream
    <3>1. /\ pc = "relay" /\ pc' = pc /\ cRead < Len(cSent)
          /\ toUpstream' = Append(toUpstream, cSent[cRead + 1])
      BY <2>16
      DEF PG!RelayToUpstream, PG!PipesClient, PG!PassUp, PG!Stay, PG!TellUpstream, PG!Relayed,
          PG!FromClient, PG!ReadsClient
    <3>2. cSent[cRead + 1][1] \notin PG!OurTypes
      <4>1. cRead + 1 \in 1..Len(cSent) /\ cRead + 1 \in 1..Len(script)
        BY <1>1, <3>1 DEF PGTypes, Streams
      <4>2. cSent[cRead + 1] \in PG!ClientMsgs
        BY <1>1, <4>1 DEF PGTypes, Streams
      <4>3. QED
        BY <4>2, PGClientMsgIs
    <3>3. PG!Passed' = PG!Passed + 1
      BY <2>4, <3>1, <3>2
    <3>4. QED
      BY <2>2, <3>1, <3>3 DEF MayGo, PG!Phase
  <2>17. CASE PG!RelayToClient
    BY <1>3, <1>4, <2>2, <2>17 DEF PG!RelayToClient, PG!PassDown, PG!TellClient, PG!Stay
  <2>18. QED
    BY <1>7, <2>8, <2>9, <2>11, <2>12, <2>13, <2>14, <2>15, <2>16, <2>17
    DEF PG!Handler, PG!Relay
<1>8. QED
  BY <1>5, <1>6, <1>7 DEF PG!Next

-----------------------------------------------------------------------------
(* The theorems *)

PostgresInv == kind = "postgres" => PGInv

LEMMA AlwaysPostgres == Spec => []PostgresInv
<1>1. Init => PostgresInv
  BY PGInit DEF PostgresInv
<1>2. PostgresInv /\ [Next]_vars => PostgresInv'
  <2> SUFFICES ASSUME PostgresInv, [Next]_vars PROVE PostgresInv'
    OBVIOUS
  <2>1. kind' = kind
    BY DEF Next, Rest, RestRedis, vars
  <2>2. CASE Next /\ kind = "postgres"
    <3>1. PG!Next /\ UNCHANGED <<kind, br>>
      BY <2>2 DEF Next, Rest
    <3>2. QED
      BY <2>1, <2>2, <3>1, PGNext DEF PostgresInv
  <2>3. CASE UNCHANGED vars
    BY <2>1, <2>3, PGStutter DEF PostgresInv
  <2>4. QED
    BY <2>1, <2>2, <2>3 DEF PostgresInv
<1>3. QED
  BY <1>1, <1>2, PTL DEF Spec

\* The client of a PostgreSQL upstream that asks for SCRAM is told that it is in
\* only behind a server signature that doSCRAM has verified, however the upstream
\* mixes its requests (postgres.go).
THEOREM AlwaysGrantNeedsSignature == Spec => []GrantNeedsSignature
<1>1. PostgresInv => GrantNeedsSignature
  BY PGMeans DEF PostgresInv, GrantNeedsSignature
<1>2. QED
  BY <1>1, AlwaysPostgres, PTL

\* Every MD5 response, SCRAM opening and SCRAM proof that the gateway sends answers
\* a challenge of its own (handle and doSCRAM in postgres.go).
THEOREM AlwaysAnswersChallenges == Spec => []AnswersChallenges
<1>1. PostgresInv => AnswersChallenges
  BY PGMeans DEF PostgresInv, AnswersChallenges
<1>2. QED
  BY <1>1, AlwaysPostgres, PTL
=============================================================================
