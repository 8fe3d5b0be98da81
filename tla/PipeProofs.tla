----------------------------- MODULE PipeProofs -----------------------------
(***************************************************************************)
(* Proofs about Pipe, for every value of its bounds.                       *)
(***************************************************************************)
EXTENDS Pipe, TLAPS, SequenceTheorems

-----------------------------------------------------------------------------
(* Facts about the operators the steps are built from. *)

\* A byte is in Bytes when its position is a natural number.
LEMMA ByteType == \A d \in Dirs : \A i \in Nat : Byte(d, i) \in Bytes
BY DEF Byte, Bytes

\* What a read takes from a queue and what it leaves in it.
LEMMA SplitSeq ==
    ASSUME NEW S, NEW s \in Seq(S), NEW k \in 0..Len(s)
    PROVE  /\ SubSeq(s, 1, k) \in Seq(S)
           /\ Len(SubSeq(s, 1, k)) = k
           /\ \A i \in 1..k : SubSeq(s, 1, k)[i] = s[i]
           /\ SubSeq(s, k + 1, Len(s)) \in Seq(S)
           /\ Len(SubSeq(s, k + 1, Len(s))) = Len(s) - k
           /\ \A i \in 1..(Len(s) - k) : SubSeq(s, k + 1, Len(s))[i] = s[k + i]
<1>1. \A i \in 1..k : s[i] \in S
  BY ElementOfSeq
<1>2. \A i \in (k + 1)..Len(s) : s[i] \in S
  BY ElementOfSeq
<1>3. /\ SubSeq(s, 1, k) \in Seq(S)
      /\ Len(SubSeq(s, 1, k)) = IF 1 <= k THEN k - 1 + 1 ELSE 0
      /\ \A i \in 1..(k - 1 + 1) : SubSeq(s, 1, k)[i] = s[1 + i - 1]
  BY <1>1, SubSeqProperties
<1>4. /\ SubSeq(s, k + 1, Len(s)) \in Seq(S)
      /\ Len(SubSeq(s, k + 1, Len(s))) = IF k + 1 <= Len(s) THEN Len(s) - (k + 1) + 1 ELSE 0
      /\ \A i \in 1..(Len(s) - (k + 1) + 1) :
             SubSeq(s, k + 1, Len(s))[i] = s[(k + 1) + i - 1]
  BY <1>2, SubSeqProperties, LenProperties
<1>5. QED
  BY <1>3, <1>4, LenProperties

\* A sequence that grows at its end.
LEMMA Append1 ==
    ASSUME NEW S, NEW s \in Seq(S), NEW e \in S
    PROVE  /\ Append(s, e) \in Seq(S)
           /\ Len(Append(s, e)) = Len(s) + 1
           /\ \A i \in 1..Len(s) : Append(s, e)[i] = s[i]
           /\ Append(s, e)[Len(s) + 1] = e
OBVIOUS

\* A sequence that loses its first element.
LEMMA Tail1 ==
    ASSUME NEW S, NEW s \in Seq(S), s # <<>>
    PROVE  /\ Len(s) \in Nat \ {0}
           /\ Head(s) \in S /\ Head(s) = s[1]
           /\ Tail(s) \in Seq(S)
           /\ Len(Tail(s)) = Len(s) - 1
           /\ \A i \in 1..(Len(s) - 1) : Tail(s)[i] = s[i + 1]
BY HeadTailProperties, EmptySeq

\* A sequence is empty when its length is zero.
LEMMA EmptyLen == ASSUME NEW S PROVE \A s \in Seq(S) : s = <<>> <=> Len(s) = 0
BY EmptySeq

-----------------------------------------------------------------------------
(* Runs: sequences that are a piece of a direction's stream *)

\* s holds the bytes of direction d that follow the first n, in order.
IsRun(s, d, n) == \A i \in 1..Len(s) : s[i] = Byte(d, n + i)

\* The empty sequence is a run of any direction, from any position.
LEMMA EmptyRun == ASSUME NEW d, NEW n PROVE IsRun(<<>>, d, n)
BY DEF IsRun

\* A run that is cut in two is two runs, the second one starting where the first ends.
LEMMA SplitRun ==
    ASSUME NEW S, NEW s \in Seq(S), NEW k \in 0..Len(s), NEW d, NEW n \in Nat,
           IsRun(s, d, n)
    PROVE  /\ IsRun(SubSeq(s, 1, k), d, n)
           /\ IsRun(SubSeq(s, k + 1, Len(s)), d, n + k)
<1>1. Len(s) \in Nat /\ k \in Nat
  BY LenProperties
<1>2. IsRun(SubSeq(s, 1, k), d, n)
  BY <1>1, SplitSeq DEF IsRun
<1>3. \A i \in 1..(Len(s) - k) : s[k + i] = Byte(d, (n + k) + i)
  <2>1. ASSUME NEW i \in 1..(Len(s) - k) PROVE k + i \in 1..Len(s) /\ n + (k + i) = (n + k) + i
    BY <1>1
  <2> QED
    BY <2>1 DEF IsRun
<1>4. IsRun(SubSeq(s, k + 1, Len(s)), d, n + k)
  BY <1>1, <1>3, SplitSeq DEF IsRun
<1> QED
  BY <1>2, <1>4

\* A run goes on with the byte that follows it.
LEMMA AppendRun ==
    ASSUME NEW S, NEW s \in Seq(S), NEW d, NEW n \in Nat, NEW b \in S,
           IsRun(s, d, n), b = Byte(d, n + Len(s) + 1)
    PROVE  IsRun(Append(s, b), d, n)
<1>1. Len(s) \in Nat /\ n + Len(s) + 1 = n + (Len(s) + 1)
  BY LenProperties
<1>2. \A i \in 1..(Len(s) + 1) : Append(s, b)[i] = Byte(d, n + i)
  <2>1. ASSUME NEW i \in 1..(Len(s) + 1) PROVE i \in 1..Len(s) \/ i = Len(s) + 1
    BY <1>1
  <2> QED
    BY <1>1, <2>1, Append1 DEF IsRun
<1> QED
  BY <1>2, Append1 DEF IsRun

\* A run starts with the byte that follows position n, and without it is a run.
LEMMA TailRun ==
    ASSUME NEW S, NEW s \in Seq(S), s # <<>>, NEW d, NEW n \in Nat, IsRun(s, d, n)
    PROVE  /\ Head(s) = Byte(d, n + 1)
           /\ IsRun(Tail(s), d, n + 1)
<1>1. Len(s) \in Nat \ {0} /\ Head(s) = s[1] /\ Len(Tail(s)) = Len(s) - 1
  BY Tail1
<1>2. \A i \in 1..(Len(s) - 1) : Tail(s)[i] = Byte(d, (n + 1) + i)
  <2>1. ASSUME NEW i \in 1..(Len(s) - 1) PROVE i + 1 \in 1..Len(s) /\ n + (i + 1) = (n + 1) + i
    BY <1>1
  <2> QED
    BY <2>1, Tail1 DEF IsRun
<1> QED
  BY <1>1, <1>2 DEF IsRun

-----------------------------------------------------------------------------
(* Type correctness *)

\* A goroutine holds a chunk exactly while it writes.
Chunks ==
    \A d \in Dirs : /\ pc[d] = "write" => buf[d] # <<>>
                    /\ pc[d] = "read" => buf[d] = <<>>

\* pipe starts in a state of the right type.
LEMMA InitTypeOK == Init => TypeOK
<1> SUFFICES ASSUME Init PROVE TypeOK
  OBVIOUS
<1>1. PICK h \in 0..MaxHead :
          /\ sent = [d \in Dirs |-> IF d = "toUpstream" THEN h ELSE 0]
          /\ head = [i \in 1..h |-> Byte("toUpstream", i)]
  BY DEF Init
<1>2. h \in Nat
  BY BoundsAssumption
<1>3. \A i \in 1..h : Byte("toUpstream", i) \in Bytes
  BY <1>2, ByteType DEF Dirs
<1>4. head \in Seq(Bytes)
  BY <1>1, <1>2, <1>3
<1>5. <<>> \in Seq(Bytes)
  OBVIOUS
<1>6. sent \in [Dirs -> Nat]
  BY <1>1, <1>2
<1>7. /\ inq \in [Dirs -> Seq(Bytes)] /\ buf \in [Dirs -> Seq(Bytes)]
      /\ outq \in [Dirs -> Seq(Bytes)] /\ got \in [Dirs -> Seq(Bytes)]
  BY <1>5 DEF Init
<1>8. /\ written \in [Dirs -> Nat] /\ count \in [Dirs -> Nat]
      /\ fin \in [Conns -> BOOLEAN] /\ rst \in [Conns -> BOOLEAN]
      /\ open \in [Conns -> BOOLEAN]
  BY DEF Init
<1>9. /\ pc \in [Dirs -> Steps] /\ err \in [Dirs -> {"none", "nil", "error"}]
      /\ once = "idle" /\ returned = FALSE
  BY DEF Init, Steps
<1> QED
  BY <1>4, <1>6, <1>7, <1>8, <1>9 DEF TypeOK

\* A step keeps the types; a write needs a chunk to take its byte from.
LEMMA NextTypeOK == TypeOK /\ Chunks /\ [Next]_vars => TypeOK'
<1> SUFFICES ASSUME TypeOK, Chunks, [Next]_vars PROVE TypeOK'
  OBVIOUS
<1> USE DEF TypeOK, Steps
<1>1. ASSUME NEW d \in Dirs, PeerSend(d) PROVE TypeOK'
  <2>1. Byte(d, sent[d] + 1) \in Bytes
    BY ByteType
  <2>2. Append(inq[d], Byte(d, sent[d] + 1)) \in Seq(Bytes)
    BY <2>1, Append1
  <2> QED
    BY <1>1, <2>2 DEF PeerSend
<1>2. ASSUME NEW c \in Conns, PeerFin(c) PROVE TypeOK'
  BY <1>2 DEF PeerFin
<1>3. ASSUME NEW c \in Conns, PeerReset(c) PROVE TypeOK'
  <2>1. PICK d \in Dirs : \E k \in 0..Len(inq[d]) :
            inq' = [inq EXCEPT ![d] = SubSeq(@, 1, k)]
    BY <1>3 DEF PeerReset
  <2>2. PICK k \in 0..Len(inq[d]) : inq' = [inq EXCEPT ![d] = SubSeq(@, 1, k)]
    BY <2>1
  <2>3. SubSeq(inq[d], 1, k) \in Seq(Bytes)
    BY SplitSeq
  <2> QED
    BY <1>3, <2>2, <2>3 DEF PeerReset
<1>4. ASSUME NEW d \in Dirs, PeerReceive(d) PROVE TypeOK'
  <2>1. outq[d] \in Seq(Bytes) /\ got[d] \in Seq(Bytes) /\ outq[d] # <<>>
    BY <1>4 DEF PeerReceive
  <2>2. Head(outq[d]) \in Bytes /\ Tail(outq[d]) \in Seq(Bytes)
    BY <2>1, Tail1
  <2>3. Append(got[d], Head(outq[d])) \in Seq(Bytes)
    BY <2>1, <2>2, Append1
  <2> QED
    BY <1>4, <2>2, <2>3 DEF PeerReceive
<1>5. ASSUME NEW d \in Dirs, LoseTail(d) PROVE TypeOK'
  <2>1. outq[d] \in Seq(Bytes) /\ outq[d] # <<>>
    BY <1>5 DEF LoseTail
  <2>2. Len(outq[d]) - 1 \in 0..Len(outq[d])
    BY <2>1, EmptySeq
  <2>3. SubSeq(outq[d], 1, Len(outq[d]) - 1) \in Seq(Bytes)
    BY <2>1, <2>2, SplitSeq
  <2> QED
    BY <1>5, <2>3 DEF LoseTail
<1>6. ASSUME NEW d \in Dirs, ReadHead(d) PROVE TypeOK'
  <2>1. PICK k \in 1..Len(head) :
            /\ buf' = [buf EXCEPT ![d] = SubSeq(head, 1, k)]
            /\ head' = SubSeq(head, k + 1, Len(head))
    BY <1>6 DEF ReadHead
  <2>2. SubSeq(head, 1, k) \in Seq(Bytes) /\ SubSeq(head, k + 1, Len(head)) \in Seq(Bytes)
    BY SplitSeq
  <2> QED
    BY <1>6, <2>1, <2>2 DEF ReadHead
<1>7. ASSUME NEW d \in Dirs, ReadConn(d) PROVE TypeOK'
  <2>1. PICK k \in 1..Len(inq[d]) :
            /\ buf' = [buf EXCEPT ![d] = SubSeq(inq[d], 1, k)]
            /\ inq' = [inq EXCEPT ![d] = SubSeq(@, k + 1, Len(@))]
    BY <1>7 DEF ReadConn
  <2>2. SubSeq(inq[d], 1, k) \in Seq(Bytes) /\ SubSeq(inq[d], k + 1, Len(inq[d])) \in Seq(Bytes)
    BY SplitSeq
  <2> QED
    BY <1>7, <2>1, <2>2 DEF ReadConn
<1>8. ASSUME NEW d \in Dirs, ReadEnd(d) PROVE TypeOK'
  BY <1>8 DEF ReadEnd, CopyEnds
<1>9. ASSUME NEW d \in Dirs, WriteByte(d) PROVE TypeOK'
  <2>1. buf[d] \in Seq(Bytes) /\ outq[d] \in Seq(Bytes) /\ buf[d] # <<>>
    BY <1>9 DEF WriteByte, Chunks
  <2>2. Head(buf[d]) \in Bytes /\ Tail(buf[d]) \in Seq(Bytes)
    BY <2>1, Tail1
  <2>3. Append(outq[d], Head(buf[d])) \in Seq(Bytes)
    BY <2>1, <2>2, Append1
  <2>4. AfterWrite(d) \in Steps
    BY DEF AfterWrite
  <2>5. outq' \in [Dirs -> Seq(Bytes)] /\ buf' \in [Dirs -> Seq(Bytes)]
    BY <1>9, <2>2, <2>3 DEF WriteByte
  <2>6. written' \in [Dirs -> Nat] /\ pc' \in [Dirs -> Steps]
    BY <1>9, <2>4 DEF WriteByte
  <2> QED
    BY <1>9, <2>5, <2>6 DEF WriteByte
<1>10. ASSUME NEW d \in Dirs, WriteFails(d) PROVE TypeOK'
  BY <1>10 DEF WriteFails, CopyEnds
<1>11. ASSUME NEW d \in Dirs, CloseFirst(d) PROVE TypeOK'
  BY <1>11 DEF CloseFirst
<1>12. ASSUME NEW d \in Dirs, CloseSecond(d) PROVE TypeOK'
  BY <1>12 DEF CloseSecond
<1>13. ASSUME NEW d \in Dirs, CloseAgain(d) PROVE TypeOK'
  BY <1>13 DEF CloseAgain
<1>14. ASSUME Return PROVE TypeOK'
  BY <1>14 DEF Return
<1>15. ASSUME UNCHANGED vars PROVE TypeOK'
  BY <1>15 DEF vars
<1> QED
  BY <1>1, <1>2, <1>3, <1>4, <1>5, <1>6, <1>7, <1>8, <1>9, <1>10, <1>11, <1>12,
     <1>13, <1>14, <1>15 DEF Next, Copy, Peer

-----------------------------------------------------------------------------
(* Control: where the goroutines are, the sync.Once, the connections *)

\* The goroutine that runs closeAll is one, the client is closed when it starts
\* and the upstream when it ends, and pipe returns behind both goroutines.
Control ==
    /\ \A d \in Dirs :
           /\ err[d] = "none" <=> pc[d] \in {"read", "write"}
           /\ err[d] # "none" => count[d] = written[d]
           /\ pc[d] = "closing" => once = "running"
           /\ pc[d] = "done" => once = "done"
           /\ returned => pc[d] = "done"
           /\ \A e \in Dirs : pc[d] = "closing" /\ pc[e] = "closing" => d = e
    /\ once = "idle" <=> open["client"]
    /\ once = "done" <=> ~open["upstream"]
    /\ once # "idle" => \E d \in Dirs : err[d] # "none"

\* Both goroutines start in the loop, with both connections open.
LEMMA InitControl == Init => Control
BY DEF Init, Control, Dirs, Conns

\* The steps of the peers and of a copy that goes on leave Control's variables
\* alone, but for the place in the loop.
LEMMA NextControl == TypeOK /\ Control /\ [Next]_vars => Control'
<1> SUFFICES ASSUME TypeOK, Control, [Next]_vars PROVE Control'
  OBVIOUS
<1>1. ASSUME UNCHANGED <<pc, err, count, written, once, open, returned>> PROVE Control'
  BY <1>1 DEF Control
<1>2. ASSUME Peer PROVE Control'
  BY <1>2, <1>1 DEF Peer, PeerSend, PeerFin, PeerReset, PeerReceive, LoseTail
<1>3. ASSUME NEW d \in Dirs, ReadHead(d) \/ ReadConn(d) PROVE Control'
  <2>1. /\ pc[d] = "read" /\ pc' = [pc EXCEPT ![d] = "write"]
        /\ UNCHANGED <<written, open, err, once, count, returned>>
    BY <1>3 DEF ReadHead, ReadConn
  <2>2. \A e \in Dirs : pc'[e] = IF e = d THEN "write" ELSE pc[e]
    BY <2>1 DEF TypeOK
  <2> QED
    BY <2>1, <2>2 DEF Control
<1>4. ASSUME NEW d \in Dirs, WriteByte(d) PROVE Control'
  <2>1. AfterWrite(d) \in {"read", "write"}
    BY DEF AfterWrite
  <2>2. PICK w \in {"read", "write"} : pc' = [pc EXCEPT ![d] = w]
    BY <1>4, <2>1 DEF WriteByte
  <2>3. /\ pc[d] = "write"
        /\ written' = [written EXCEPT ![d] = @ + 1]
        /\ UNCHANGED <<open, err, once, count, returned>>
    BY <1>4 DEF WriteByte
  <2>4. \A e \in Dirs : pc'[e] = IF e = d THEN w ELSE pc[e]
    BY <2>2 DEF TypeOK
  <2>5. \A e \in Dirs : e # d => written'[e] = written[e]
    BY <2>3 DEF TypeOK
  <2> QED
    BY <2>3, <2>4, <2>5 DEF Control
<1>5. ASSUME NEW d \in Dirs, ReadEnd(d) \/ WriteFails(d) PROVE Control'
  <2>1. PICK r \in {"nil", "error"} : CopyEnds(d, r)
    BY <1>5 DEF ReadEnd, WriteFails
  <2>2. pc[d] \in {"read", "write"} /\ UNCHANGED <<written, open, once, returned>>
    BY <1>5 DEF ReadEnd, WriteFails
  <2>3. \A e \in Dirs : /\ pc'[e] = IF e = d THEN "closeAll" ELSE pc[e]
                        /\ err'[e] = IF e = d THEN r ELSE err[e]
                        /\ count'[e] = IF e = d THEN written[d] ELSE count[e]
    BY <2>1 DEF CopyEnds, TypeOK
  <2> QED
    BY <2>2, <2>3 DEF Control
<1>6. ASSUME NEW d \in Dirs, CloseFirst(d) PROVE Control'
  BY <1>6 DEF CloseFirst, CloseOrder, Control, TypeOK, Conns
<1>7. ASSUME NEW d \in Dirs, CloseSecond(d) PROVE Control'
  BY <1>7 DEF CloseSecond, CloseOrder, Control, TypeOK, Conns
<1>8. ASSUME NEW d \in Dirs, CloseAgain(d) PROVE Control'
  BY <1>8 DEF CloseAgain, Control, TypeOK
<1>9. ASSUME Return PROVE Control'
  BY <1>9 DEF Return, WaitOver, Control
<1>10. ASSUME UNCHANGED vars PROVE Control'
  BY <1>10, <1>1 DEF vars
<1> QED
  BY <1>2, <1>3, <1>4, <1>5, <1>6, <1>7, <1>8, <1>9, <1>10 DEF Next, Copy

-----------------------------------------------------------------------------
(* Accounts: how many bytes are where *)

\* The length of a queue, kept closed where the provers only need arithmetic.
Size(queue, d) == Len(queue[d])

Account(d) ==
    /\ Size(got, d) + Size(outq, d) <= written[d]
    /\ open[Dst[d]] => Size(got, d) + Size(outq, d) >= written[d]
    /\ written[d] + Size(buf, d) + HeadLen(d) + Size(inq, d) <= sent[d]
    /\ ~rst[Src[d]] => written[d] + Size(buf, d) + HeadLen(d) + Size(inq, d) >= sent[d]

Accounts == \A d \in Dirs : Account(d)

(* Positions: which bytes they are *)

Position(d) ==
    /\ IsRun(got[d], d, 0)
    /\ IsRun(outq[d], d, Size(got, d))
    /\ IsRun(buf[d], d, written[d])
    /\ d = "toUpstream" => IsRun(head, d, written[d] + Size(buf, d))
    /\ IsRun(inq[d], d, written[d] + Size(buf, d) + HeadLen(d))

Positions == \A d \in Dirs : Position(d)

(* Causes: why a direction has ended *)

Causes ==
    /\ \A d \in Dirs :
           /\ err[d] = "nil" => fin[Src[d]] /\ written[d] = sent[d]
           /\ err[d] = "error" => \/ \E c \in Conns : rst[c]
                                  \/ \E e \in Dirs \ {d} : err[e] # "none"
    /\ (\E d \in Dirs : err[d] # "none") => \E c \in Conns : fin[c] \/ rst[c]

\* The inductive invariant of pipe.
IInv == TypeOK /\ Chunks /\ Control /\ Accounts /\ Positions /\ Causes

\* The state in which a handler calls pipe satisfies the invariant.
LEMMA InitIInv == Init => IInv
<1> SUFFICES ASSUME Init PROVE IInv
  OBVIOUS
<1>1. PICK h \in 0..MaxHead :
          /\ sent = [d \in Dirs |-> IF d = "toUpstream" THEN h ELSE 0]
          /\ head = [i \in 1..h |-> Byte("toUpstream", i)]
  BY DEF Init
<1>2. TypeOK /\ Control
  BY InitTypeOK, InitControl
<1>3. h \in Nat /\ Len(head) = h
  BY <1>1, BoundsAssumption
<1>4. \A d \in Dirs : /\ got[d] = <<>> /\ outq[d] = <<>> /\ buf[d] = <<>>
                      /\ inq[d] = <<>> /\ written[d] = 0
                      /\ pc[d] = "read" /\ err[d] = "none"
                      /\ HeadLen(d) = sent[d]
  BY <1>1, <1>3 DEF Init, HeadLen
<1>5. Chunks /\ Causes
  BY <1>4 DEF Chunks, Causes
<1>6. Accounts
  BY <1>2, <1>4 DEF Accounts, Account, Size, TypeOK
<1>7. Positions
  <2>1. IsRun(head, "toUpstream", 0)
    BY <1>1, <1>3 DEF IsRun
  <2>2. \A d \in Dirs : written[d] + Size(buf, d) = 0 /\ Size(got, d) = 0
    BY <1>4 DEF Size
  <2> QED
    BY <1>4, <2>1, <2>2, EmptyRun DEF Positions, Position
<1> QED
  BY <1>2, <1>5, <1>6, <1>7 DEF IInv

\* A read fills the chunk, the write of its last byte empties it.
LEMMA NextChunks == TypeOK /\ Chunks /\ [Next]_vars => Chunks'
<1> SUFFICES ASSUME TypeOK, Chunks, [Next]_vars PROVE Chunks'
  OBVIOUS
<1>1. ASSUME UNCHANGED <<pc, buf>> PROVE Chunks'
  BY <1>1 DEF Chunks
<1>2. ASSUME Peer \/ Return \/ UNCHANGED vars PROVE Chunks'
  BY <1>2, <1>1 DEF Peer, PeerSend, PeerFin, PeerReset, PeerReceive, LoseTail, Return, vars
<1>3. ASSUME NEW d \in Dirs, ReadHead(d) \/ ReadConn(d) PROVE Chunks'
  <2>1. PICK s \in Seq(Bytes) : \E k \in 1..Len(s) :
            buf' = [buf EXCEPT ![d] = SubSeq(s, 1, k)] /\ pc' = [pc EXCEPT ![d] = "write"]
    BY <1>3 DEF ReadHead, ReadConn, TypeOK
  <2>2. PICK k \in 1..Len(s) :
            buf' = [buf EXCEPT ![d] = SubSeq(s, 1, k)] /\ pc' = [pc EXCEPT ![d] = "write"]
    BY <2>1
  <2>3. Len(SubSeq(s, 1, k)) = k
    BY SplitSeq
  <2>4. SubSeq(s, 1, k) # <<>>
    BY <2>3
  <2> QED
    BY <2>2, <2>4 DEF Chunks, TypeOK
<1>4. ASSUME NEW d \in Dirs, WriteByte(d) PROVE Chunks'
  <2>1. /\ buf[d] # <<>> /\ pc[d] = "write"
        /\ buf' = [buf EXCEPT ![d] = Tail(@)]
        /\ pc' = [pc EXCEPT ![d] = IF Len(buf[d]) = 1 THEN "read" ELSE "write"]
    BY <1>4 DEF WriteByte, AfterWrite, Chunks
  <2>2. Tail(buf[d]) \in Seq(Bytes) /\ Len(Tail(buf[d])) = Len(buf[d]) - 1
    BY <2>1, Tail1 DEF TypeOK
  <2>3. Tail(buf[d]) = <<>> <=> Len(Tail(buf[d])) = 0
    BY <2>2, EmptyLen
  <2>4. Tail(buf[d]) = <<>> <=> Len(buf[d]) = 1
    BY <2>2, <2>3 DEF TypeOK
  <2> QED
    BY <2>1, <2>4 DEF Chunks, TypeOK
<1>5. ASSUME NEW d \in Dirs, NEW w \in Steps \ {"read", "write"},
             pc' = [pc EXCEPT ![d] = w], UNCHANGED buf
      PROVE  Chunks'
  BY <1>5 DEF Chunks, TypeOK
<1> QED
  BY <1>2, <1>3, <1>4, <1>5
     DEF Next, Copy, ReadEnd, WriteFails, CopyEnds, CloseFirst, CloseSecond, CloseAgain, Steps

-----------------------------------------------------------------------------
(* The steps keep the accounts. *)

\* Every length the accounts add up is a natural number.
LEMMA Lengths ==
    TypeOK => \A d \in Dirs :
        /\ Len(got[d]) \in Nat /\ Len(outq[d]) \in Nat /\ Len(buf[d]) \in Nat
        /\ Len(inq[d]) \in Nat /\ HeadLen(d) \in Nat /\ Len(head) \in Nat
        /\ written[d] \in Nat /\ sent[d] \in Nat
BY LenProperties DEF TypeOK, HeadLen

\* A step moves bytes from one place of a direction to the next, adds one
\* at its start, or drops some only behind a reset or a close.
LEMMA NextAccounts == TypeOK /\ Chunks /\ Accounts /\ [Next]_vars => Accounts'
<1> SUFFICES ASSUME TypeOK, Chunks, Accounts, [Next]_vars PROVE Accounts'
  OBVIOUS
<1>0. \A d \in Dirs :
        /\ Size(got, d) \in Nat /\ Size(outq, d) \in Nat /\ Size(buf, d) \in Nat
        /\ Size(inq, d) \in Nat /\ HeadLen(d) \in Nat
        /\ written[d] \in Nat /\ sent[d] \in Nat
  BY Lengths DEF Size
<1>a. \A d \in Dirs : Account(d)
  BY DEF Accounts
<1>b. ASSUME NEW e \in Dirs, sent'[e] = sent[e], HeadLen(e)' = HeadLen(e),
             inq'[e] = inq[e], buf'[e] = buf[e], written'[e] = written[e],
             outq'[e] = outq[e], got'[e] = got[e],
             rst'[Src[e]] = rst[Src[e]], open'[Dst[e]] = open[Dst[e]]
      PROVE  Account(e)'
  BY <1>a, <1>b DEF Account, Size
<1>1. ASSUME UNCHANGED <<sent, head, inq, buf, written, outq, got>>,
             \A c \in Conns : rst'[c] = rst[c] /\ (open'[c] => open[c])
      PROVE  Accounts'
  BY <1>1 DEF Accounts, Account, Size, HeadLen, Src, Dst, Conns, Dirs
<1>2. ASSUME NEW d \in Dirs, PeerSend(d) PROVE Accounts'
  <2>1. Len(inq[d]) + 1 = Len(Append(inq[d], Byte(d, sent[d] + 1)))
    BY ByteType, Append1 DEF TypeOK
  <2>2. /\ sent'[d] = sent[d] + 1 /\ Size(inq, d)' = Size(inq, d) + 1
        /\ \A e \in Dirs : e # d => sent'[e] = sent[e] /\ inq'[e] = inq[e]
    BY <1>2, <2>1 DEF PeerSend, TypeOK, Size
  <2>3. \A e \in Dirs : HeadLen(e)' = HeadLen(e)
    BY <1>2 DEF PeerSend, HeadLen
  <2>4. UNCHANGED <<buf, written, outq, got, rst, open>>
    BY <1>2 DEF PeerSend
  <2>8. Account(d)'
    <3>1. /\ Size(got, d) \in Nat /\ Size(outq, d) \in Nat /\ Size(buf, d) \in Nat
          /\ Size(inq, d) \in Nat /\ HeadLen(d) \in Nat
          /\ written[d] \in Nat /\ sent[d] \in Nat /\ Account(d)
      BY <1>0, <1>a
    <3> QED
      BY <3>1, <2>2, <2>3, <2>4 DEF Account
  <2>9. ASSUME NEW e \in Dirs, e # d PROVE Account(e)'
    BY <1>b, <2>9, <2>2, <2>3, <2>4
  <2> QED
    BY <2>8, <2>9 DEF Accounts
<1>3. ASSUME NEW c \in Conns, PeerFin(c) PROVE Accounts'
  BY <1>1, <1>3 DEF PeerFin
<1>4. ASSUME NEW c \in Conns, PeerReset(c) PROVE Accounts'
  <2>1. PICK d \in Dirs : Src[d] = c /\ \E k \in 0..Len(inq[d]) :
            inq' = [inq EXCEPT ![d] = SubSeq(@, 1, k)]
    BY <1>4 DEF PeerReset
  <2>2. PICK k \in 0..Len(inq[d]) : inq' = [inq EXCEPT ![d] = SubSeq(@, 1, k)]
    BY <2>1
  <2>3. Len(SubSeq(inq[d], 1, k)) = k
    BY SplitSeq DEF TypeOK
  <2>4. /\ Size(inq, d)' \in Nat /\ Size(inq, d)' <= Size(inq, d)
        /\ \A e \in Dirs : e # d => inq'[e] = inq[e]
    BY <1>0, <2>2, <2>3 DEF TypeOK, Size
  <2>5. rst'[Src[d]] /\ \A e \in Dirs : e # d => rst'[Src[e]] = rst[Src[e]]
    BY <1>4, <2>1 DEF PeerReset, TypeOK, Src, Dirs, Conns
  <2>6. \A e \in Dirs : HeadLen(e)' = HeadLen(e)
    BY <1>4 DEF PeerReset, HeadLen
  <2>7. UNCHANGED <<sent, buf, written, outq, got, open>>
    BY <1>4 DEF PeerReset
  <2>8. Account(d)'
    <3>1. /\ Size(got, d) \in Nat /\ Size(outq, d) \in Nat /\ Size(buf, d) \in Nat
          /\ Size(inq, d) \in Nat /\ HeadLen(d) \in Nat
          /\ written[d] \in Nat /\ sent[d] \in Nat /\ Account(d)
      BY <1>0, <1>a
    <3> QED
      BY <3>1, <2>4, <2>5, <2>6, <2>7 DEF Account
  <2>9. ASSUME NEW e \in Dirs, e # d PROVE Account(e)'
    BY <1>b, <2>9, <2>4, <2>5, <2>6, <2>7
  <2> QED
    BY <2>8, <2>9 DEF Accounts
<1>5. ASSUME NEW d \in Dirs, PeerReceive(d) PROVE Accounts'
  <2>1. outq[d] \in Seq(Bytes) /\ got[d] \in Seq(Bytes) /\ outq[d] # <<>>
    BY <1>5 DEF PeerReceive, TypeOK
  <2>2. Len(Tail(outq[d])) = Len(outq[d]) - 1 /\ Head(outq[d]) \in Bytes
    BY <2>1, Tail1
  <2>3. Len(Append(got[d], Head(outq[d]))) = Len(got[d]) + 1
    BY <2>1, <2>2, Append1
  <2>4. /\ Size(outq, d)' = Size(outq, d) - 1 /\ Size(got, d)' = Size(got, d) + 1
        /\ \A e \in Dirs : e # d => outq'[e] = outq[e] /\ got'[e] = got[e]
    BY <1>5, <2>2, <2>3 DEF PeerReceive, TypeOK, Size
  <2>5. \A e \in Dirs : HeadLen(e)' = HeadLen(e)
    BY <1>5 DEF PeerReceive, HeadLen
  <2>6. UNCHANGED <<sent, inq, buf, written, rst, open>>
    BY <1>5 DEF PeerReceive
  <2>8. Account(d)'
    <3>1. /\ Size(got, d) \in Nat /\ Size(outq, d) \in Nat /\ Size(buf, d) \in Nat
          /\ Size(inq, d) \in Nat /\ HeadLen(d) \in Nat
          /\ written[d] \in Nat /\ sent[d] \in Nat /\ Account(d)
      BY <1>0, <1>a
    <3> QED
      BY <3>1, <2>4, <2>5, <2>6 DEF Account
  <2>9. ASSUME NEW e \in Dirs, e # d PROVE Account(e)'
    BY <1>b, <2>9, <2>4, <2>5, <2>6
  <2> QED
    BY <2>8, <2>9 DEF Accounts
<1>6. ASSUME NEW d \in Dirs, LoseTail(d) PROVE Accounts'
  <2>1. outq[d] \in Seq(Bytes) /\ outq[d] # <<>> /\ ~open[Dst[d]]
    BY <1>6 DEF LoseTail, TypeOK
  <2>2. Len(outq[d]) - 1 \in 0..Len(outq[d])
    BY <2>1, EmptySeq
  <2>3. Len(SubSeq(outq[d], 1, Len(outq[d]) - 1)) = Len(outq[d]) - 1
    BY <2>1, <2>2, SplitSeq
  <2>4. /\ Size(outq, d)' = Size(outq, d) - 1
        /\ \A e \in Dirs : e # d => outq'[e] = outq[e]
    BY <1>6, <2>3 DEF LoseTail, TypeOK, Size
  <2>5. \A e \in Dirs : HeadLen(e)' = HeadLen(e)
    BY <1>6 DEF LoseTail, HeadLen
  <2>6. UNCHANGED <<sent, inq, buf, written, got, rst, open>>
    BY <1>6 DEF LoseTail
  <2>8. Account(d)'
    <3>1. /\ Size(got, d) \in Nat /\ Size(outq, d) \in Nat /\ Size(buf, d) \in Nat
          /\ Size(inq, d) \in Nat /\ HeadLen(d) \in Nat
          /\ written[d] \in Nat /\ sent[d] \in Nat /\ Account(d)
      BY <1>0, <1>a
    <3> QED
      BY <3>1, <2>1, <2>4, <2>5, <2>6 DEF Account
  <2>9. ASSUME NEW e \in Dirs, e # d PROVE Account(e)'
    BY <1>b, <2>9, <2>1, <2>4, <2>5, <2>6
  <2> QED
    BY <2>8, <2>9 DEF Accounts
<1>7. ASSUME NEW d \in Dirs, ReadHead(d) PROVE Accounts'
  <2>1. PICK k \in 1..Len(head) :
            /\ buf' = [buf EXCEPT ![d] = SubSeq(head, 1, k)]
            /\ head' = SubSeq(head, k + 1, Len(head))
    BY <1>7 DEF ReadHead
  <2>2. head \in Seq(Bytes) /\ Len(head) \in Nat
    BY Lengths DEF TypeOK
  <2>3. Len(SubSeq(head, 1, k)) = k /\ Len(head') = Len(head) - k
    BY <2>1, <2>2, SplitSeq
  <2>4. d = "toUpstream" /\ Size(buf, d) = 0
    BY <1>7, EmptyLen DEF ReadHead, FromHead, Chunks, TypeOK, Size
  <2>5. /\ Size(buf, d)' = k /\ HeadLen(d) = Len(head) /\ HeadLen(d)' = Len(head) - k
        /\ \A e \in Dirs : e # d => buf'[e] = buf[e] /\ HeadLen(e)' = HeadLen(e)
    BY <2>1, <2>3, <2>4 DEF TypeOK, HeadLen, Size
  <2>6. UNCHANGED <<sent, inq, written, outq, got, rst, open>>
    BY <1>7 DEF ReadHead
  <2>8. Account(d)'
    <3>1. /\ Size(got, d) \in Nat /\ Size(outq, d) \in Nat /\ Size(buf, d) \in Nat
          /\ Size(inq, d) \in Nat /\ HeadLen(d) \in Nat
          /\ written[d] \in Nat /\ sent[d] \in Nat /\ Account(d)
      BY <1>0, <1>a
    <3> QED
      BY <3>1, <2>2, <2>4, <2>5, <2>6 DEF Account
  <2>9. ASSUME NEW e \in Dirs, e # d PROVE Account(e)'
    BY <1>b, <2>9, <2>2, <2>4, <2>5, <2>6
  <2> QED
    BY <2>8, <2>9 DEF Accounts
<1>8. ASSUME NEW d \in Dirs, ReadConn(d) PROVE Accounts'
  <2>1. PICK k \in 1..Len(inq[d]) :
            /\ buf' = [buf EXCEPT ![d] = SubSeq(inq[d], 1, k)]
            /\ inq' = [inq EXCEPT ![d] = SubSeq(@, k + 1, Len(@))]
    BY <1>8 DEF ReadConn
  <2>2. inq[d] \in Seq(Bytes) /\ Len(inq[d]) \in Nat
    BY <1>0 DEF TypeOK
  <2>3. /\ Len(SubSeq(inq[d], 1, k)) = k
        /\ Len(SubSeq(inq[d], k + 1, Len(inq[d]))) = Len(inq[d]) - k
    BY <2>2, SplitSeq
  <2>4. Size(buf, d) = 0
    BY <1>8, EmptyLen DEF ReadConn, Chunks, TypeOK, Size
  <2>5. /\ Size(buf, d)' = k /\ Size(inq, d)' = Size(inq, d) - k
        /\ \A e \in Dirs : e # d => buf'[e] = buf[e] /\ inq'[e] = inq[e]
    BY <2>1, <2>3 DEF TypeOK, Size
  <2>6. \A e \in Dirs : HeadLen(e)' = HeadLen(e)
    BY <1>8 DEF ReadConn, HeadLen
  <2>7. UNCHANGED <<sent, written, outq, got, rst, open>>
    BY <1>8 DEF ReadConn
  <2>8. Account(d)'
    <3>1. /\ Size(got, d) \in Nat /\ Size(outq, d) \in Nat /\ Size(buf, d) \in Nat
          /\ Size(inq, d) \in Nat /\ HeadLen(d) \in Nat
          /\ written[d] \in Nat /\ sent[d] \in Nat /\ Account(d)
      BY <1>0, <1>a
    <3> QED
      BY <3>1, <2>4, <2>5, <2>6, <2>7 DEF Account
  <2>9. ASSUME NEW e \in Dirs, e # d PROVE Account(e)'
    BY <1>b, <2>9, <2>4, <2>5, <2>6, <2>7
  <2> QED
    BY <2>8, <2>9 DEF Accounts
<1>9. ASSUME NEW d \in Dirs, ReadEnd(d) \/ WriteFails(d) PROVE Accounts'
  BY <1>9, <1>1 DEF ReadEnd, WriteFails
<1>10. ASSUME NEW d \in Dirs, WriteByte(d) PROVE Accounts'
  <2>1. buf[d] \in Seq(Bytes) /\ outq[d] \in Seq(Bytes) /\ buf[d] # <<>>
    BY <1>10 DEF WriteByte, Chunks, TypeOK
  <2>2. /\ Len(Tail(buf[d])) = Len(buf[d]) - 1
        /\ Len(Append(outq[d], Head(buf[d]))) = Len(outq[d]) + 1
    BY <2>1, Tail1, Append1
  <2>3. /\ Size(buf, d)' = Size(buf, d) - 1 /\ Size(outq, d)' = Size(outq, d) + 1
        /\ written'[d] = written[d] + 1
        /\ \A e \in Dirs : e # d => /\ buf'[e] = buf[e] /\ outq'[e] = outq[e]
                                    /\ written'[e] = written[e]
    BY <1>10, <2>2 DEF WriteByte, TypeOK, Size
  <2>4. \A e \in Dirs : HeadLen(e)' = HeadLen(e)
    BY <1>10 DEF WriteByte, HeadLen
  <2>5. UNCHANGED <<sent, inq, got, rst, open>>
    BY <1>10 DEF WriteByte
  <2>8. Account(d)'
    <3>1. /\ Size(got, d) \in Nat /\ Size(outq, d) \in Nat /\ Size(buf, d) \in Nat
          /\ Size(inq, d) \in Nat /\ HeadLen(d) \in Nat
          /\ written[d] \in Nat /\ sent[d] \in Nat /\ Account(d)
      BY <1>0, <1>a
    <3> QED
      BY <3>1, <2>3, <2>4, <2>5 DEF Account
  <2>9. ASSUME NEW e \in Dirs, e # d PROVE Account(e)'
    BY <1>b, <2>9, <2>3, <2>4, <2>5
  <2> QED
    BY <2>8, <2>9 DEF Accounts
<1>11. ASSUME NEW d \in Dirs, CloseFirst(d) \/ CloseSecond(d) \/ CloseAgain(d) PROVE Accounts'
  BY <1>11, <1>1 DEF CloseFirst, CloseSecond, CloseAgain, CloseOrder, TypeOK, Conns
<1>12. ASSUME Return \/ UNCHANGED vars PROVE Accounts'
  BY <1>12, <1>1 DEF Return, vars
<1> QED
  BY <1>2, <1>3, <1>4, <1>5, <1>6, <1>7, <1>8, <1>9, <1>10, <1>11, <1>12
     DEF Next, Copy, Peer

-----------------------------------------------------------------------------
(* The steps keep every byte at its position. *)

\* The accounts say which position a byte is appended at.
LEMMA NextPositions ==
    TypeOK /\ Chunks /\ Accounts /\ Positions /\ [Next]_vars => Positions'
<1> SUFFICES ASSUME TypeOK, Chunks, Accounts, Positions, [Next]_vars PROVE Positions'
  OBVIOUS
<1>0. \A d \in Dirs :
        /\ Size(got, d) \in Nat /\ Size(outq, d) \in Nat /\ Size(buf, d) \in Nat
        /\ Size(inq, d) \in Nat /\ HeadLen(d) \in Nat
        /\ written[d] \in Nat /\ sent[d] \in Nat
  BY Lengths DEF Size
<1>a. \A d \in Dirs : Account(d) /\ Position(d)
  BY DEF Accounts, Positions
<1>b. ASSUME NEW e \in Dirs, HeadLen(e)' = HeadLen(e),
             e = "toUpstream" => head' = head,
             inq'[e] = inq[e], buf'[e] = buf[e], written'[e] = written[e],
             outq'[e] = outq[e], got'[e] = got[e]
      PROVE  Position(e)'
  BY <1>a, <1>b DEF Position, Size
<1>1. ASSUME UNCHANGED <<head, inq, buf, written, outq, got>> PROVE Positions'
  <2>1. ASSUME NEW e \in Dirs PROVE Position(e)'
    BY <1>1, <1>b DEF HeadLen
  <2> QED
    BY <2>1 DEF Positions
<1>2. ASSUME NEW d \in Dirs, PeerSend(d) PROVE Positions'
  <2>1. ~rst[Src[d]] /\ UNCHANGED <<head, buf, written, outq, got>>
    BY <1>2 DEF PeerSend
  <2>2. Byte(d, sent[d] + 1) \in Bytes /\ inq[d] \in Seq(Bytes)
    BY <1>0, ByteType DEF TypeOK
  <2>3. sent[d] + 1 = (written[d] + Size(buf, d) + HeadLen(d)) + Len(inq[d]) + 1
    <3>1. /\ written[d] \in Nat /\ Size(buf, d) \in Nat /\ HeadLen(d) \in Nat
          /\ Size(inq, d) \in Nat /\ sent[d] \in Nat /\ Account(d)
      BY <1>0, <1>a
    <3>2. sent[d] = written[d] + Size(buf, d) + HeadLen(d) + Size(inq, d)
      BY <2>1, <3>1 DEF Account
    <3> QED
      BY <3>2 DEF Size
  <2>4. IsRun(Append(inq[d], Byte(d, sent[d] + 1)), d, written[d] + Size(buf, d) + HeadLen(d))
    <3>1. written[d] + Size(buf, d) + HeadLen(d) \in Nat
      BY <1>0
    <3> QED
      BY <1>a, <2>2, <2>3, <3>1, AppendRun DEF Position
  <2>5. /\ inq'[d] = Append(inq[d], Byte(d, sent[d] + 1))
        /\ \A e \in Dirs : e # d => inq'[e] = inq[e]
    BY <1>2 DEF PeerSend, TypeOK
  <2>6. \A e \in Dirs : HeadLen(e)' = HeadLen(e)
    BY <2>1 DEF HeadLen
  <2>7. Position(d)'
    BY <1>a, <2>1, <2>4, <2>5, <2>6 DEF Position, Size
  <2>8. ASSUME NEW e \in Dirs, e # d PROVE Position(e)'
    BY <1>b, <2>1, <2>5, <2>6, <2>8
  <2> QED
    BY <2>7, <2>8 DEF Positions
<1>3. ASSUME NEW c \in Conns, PeerReset(c) PROVE Positions'
  <2>1. PICK d \in Dirs : \E k \in 0..Len(inq[d]) :
            inq' = [inq EXCEPT ![d] = SubSeq(@, 1, k)]
    BY <1>3 DEF PeerReset
  <2>2. PICK k \in 0..Len(inq[d]) : inq' = [inq EXCEPT ![d] = SubSeq(@, 1, k)]
    BY <2>1
  <2>3. inq[d] \in Seq(Bytes)
    BY DEF TypeOK
  <2>4. IsRun(SubSeq(inq[d], 1, k), d, written[d] + Size(buf, d) + HeadLen(d))
    BY <1>0, <1>a, <2>3, SplitRun DEF Position
  <2>5. /\ inq'[d] = SubSeq(inq[d], 1, k)
        /\ \A e \in Dirs : e # d => inq'[e] = inq[e]
    BY <2>2 DEF TypeOK
  <2>6. UNCHANGED <<head, buf, written, outq, got>>
    BY <1>3 DEF PeerReset
  <2>7. \A e \in Dirs : HeadLen(e)' = HeadLen(e)
    BY <2>6 DEF HeadLen
  <2>8. Position(d)'
    BY <1>a, <2>4, <2>5, <2>6, <2>7 DEF Position, Size
  <2>9. ASSUME NEW e \in Dirs, e # d PROVE Position(e)'
    BY <1>b, <2>5, <2>6, <2>7, <2>9
  <2> QED
    BY <2>8, <2>9 DEF Positions
<1>4. ASSUME NEW d \in Dirs, PeerReceive(d) PROVE Positions'
  <2>1. outq[d] \in Seq(Bytes) /\ got[d] \in Seq(Bytes) /\ outq[d] # <<>>
    BY <1>4 DEF PeerReceive, TypeOK
  <2>2. /\ Head(outq[d]) = Byte(d, Size(got, d) + 1)
        /\ IsRun(Tail(outq[d]), d, Size(got, d) + 1)
    BY <1>0, <1>a, <2>1, TailRun DEF Position
  <2>3. Head(outq[d]) \in Bytes /\ 0 + Len(got[d]) + 1 = Size(got, d) + 1
    BY <1>0, <2>1, Tail1 DEF Size
  <2>4. IsRun(Append(got[d], Head(outq[d])), d, 0)
    BY <1>a, <2>1, <2>2, <2>3, AppendRun DEF Position
  <2>5. Len(Append(got[d], Head(outq[d]))) = Len(got[d]) + 1
    BY <2>1, <2>3, Append1
  <2>6. /\ outq'[d] = Tail(outq[d]) /\ got'[d] = Append(got[d], Head(outq[d]))
        /\ \A e \in Dirs : e # d => outq'[e] = outq[e] /\ got'[e] = got[e]
    BY <1>4 DEF PeerReceive, TypeOK
  <2>7. Size(got, d)' = Size(got, d) + 1
    BY <2>5, <2>6 DEF Size
  <2>8. UNCHANGED <<head, inq, buf, written>>
    BY <1>4 DEF PeerReceive
  <2>9. \A e \in Dirs : HeadLen(e)' = HeadLen(e)
    BY <2>8 DEF HeadLen
  <2>10. Position(d)'
    <3>1. IsRun(outq[d], d, Size(got, d))' /\ IsRun(got[d], d, 0)'
      BY <2>2, <2>4, <2>6, <2>7
    <3>2. Size(buf, d)' = Size(buf, d)
      BY <2>8 DEF Size
    <3> QED
      BY <1>a, <2>8, <2>9, <3>1, <3>2 DEF Position
  <2>11. ASSUME NEW e \in Dirs, e # d PROVE Position(e)'
    BY <1>b, <2>6, <2>8, <2>9, <2>11
  <2> QED
    BY <2>10, <2>11 DEF Positions
<1>5. ASSUME NEW d \in Dirs, LoseTail(d) PROVE Positions'
  <2>1. outq[d] \in Seq(Bytes) /\ outq[d] # <<>>
    BY <1>5 DEF LoseTail, TypeOK
  <2>2. Len(outq[d]) - 1 \in 0..Len(outq[d])
    BY <2>1, EmptySeq
  <2>3. IsRun(SubSeq(outq[d], 1, Len(outq[d]) - 1), d, Size(got, d))
    BY <1>0, <1>a, <2>1, <2>2, SplitRun DEF Position
  <2>4. /\ outq'[d] = SubSeq(outq[d], 1, Len(outq[d]) - 1)
        /\ \A e \in Dirs : e # d => outq'[e] = outq[e]
    BY <1>5 DEF LoseTail, TypeOK
  <2>5. UNCHANGED <<head, inq, buf, written, got>>
    BY <1>5 DEF LoseTail
  <2>6. \A e \in Dirs : HeadLen(e)' = HeadLen(e)
    BY <2>5 DEF HeadLen
  <2>7. Position(d)'
    BY <1>a, <2>3, <2>4, <2>5, <2>6 DEF Position, Size
  <2>8. ASSUME NEW e \in Dirs, e # d PROVE Position(e)'
    BY <1>b, <2>4, <2>5, <2>6, <2>8
  <2> QED
    BY <2>7, <2>8 DEF Positions
<1>6. ASSUME NEW d \in Dirs, ReadHead(d) PROVE Positions'
  <2>1. PICK k \in 1..Len(head) :
            /\ buf' = [buf EXCEPT ![d] = SubSeq(head, 1, k)]
            /\ head' = SubSeq(head, k + 1, Len(head))
    BY <1>6 DEF ReadHead
  <2>2. head \in Seq(Bytes) /\ Len(head) \in Nat /\ k \in 0..Len(head)
    BY Lengths DEF TypeOK
  <2>3. d = "toUpstream" /\ Size(buf, d) = 0
    BY <1>6, EmptyLen DEF ReadHead, FromHead, Chunks, TypeOK, Size
  <2>4. IsRun(head, d, written[d])
    <3>1. written[d] + Size(buf, d) = written[d]
      BY <1>0, <2>3
    <3> QED
      BY <1>a, <2>3, <3>1 DEF Position
  <2>5. /\ IsRun(SubSeq(head, 1, k), d, written[d])
        /\ IsRun(SubSeq(head, k + 1, Len(head)), d, written[d] + k)
    BY <1>0, <2>2, <2>4, SplitRun
  <2>6. Len(SubSeq(head, 1, k)) = k /\ Len(head') = Len(head) - k
    BY <2>1, <2>2, SplitSeq
  <2>7. /\ buf'[d] = SubSeq(head, 1, k) /\ Size(buf, d)' = k
        /\ HeadLen(d) = Len(head) /\ HeadLen(d)' = Len(head) - k
    BY <2>1, <2>3, <2>6 DEF TypeOK, HeadLen, Size
  <2>8. \A e \in Dirs : e # d => /\ buf'[e] = buf[e] /\ HeadLen(e)' = HeadLen(e)
                                 /\ e # "toUpstream"
    BY <2>1, <2>3 DEF TypeOK, HeadLen
  <2>9. UNCHANGED <<inq, written, outq, got>>
    BY <1>6 DEF ReadHead
  <2>10. Position(d)'
    <3>1. written[d] + Size(buf, d)' + HeadLen(d)' = written[d] + Size(buf, d) + HeadLen(d)
      <4>1. written[d] \in Nat /\ Len(head) \in Nat /\ k \in Nat
        BY <1>0, <2>2
      <4>2. written[d] + k + (Len(head) - k) = written[d] + 0 + Len(head)
        BY <4>1
      <4> QED
        BY <2>3, <2>7, <4>2
    <3>2. Size(got, d)' = Size(got, d)
      BY <2>9 DEF Size
    <3>3. IsRun(buf[d], d, written[d])' /\ IsRun(head, d, written[d] + Size(buf, d))'
      BY <2>1, <2>5, <2>7, <2>9
    <3>4. IsRun(inq[d], d, written[d] + Size(buf, d) + HeadLen(d))'
      BY <1>a, <2>9, <3>1 DEF Position
    <3> QED
      BY <1>a, <2>9, <3>2, <3>3, <3>4 DEF Position
  <2>11. ASSUME NEW e \in Dirs, e # d PROVE Position(e)'
    BY <1>b, <2>8, <2>9, <2>11
  <2> QED
    BY <2>10, <2>11 DEF Positions
<1>7. ASSUME NEW d \in Dirs, ReadConn(d) PROVE Positions'
  <2>1. PICK k \in 1..Len(inq[d]) :
            /\ buf' = [buf EXCEPT ![d] = SubSeq(inq[d], 1, k)]
            /\ inq' = [inq EXCEPT ![d] = SubSeq(@, k + 1, Len(@))]
    BY <1>7 DEF ReadConn
  <2>2. inq[d] \in Seq(Bytes) /\ Len(inq[d]) \in Nat /\ k \in 0..Len(inq[d])
    BY <1>0 DEF TypeOK, Size
  <2>3. HeadLen(d) = 0 /\ Size(buf, d) = 0 /\ (d = "toUpstream" => head = <<>>)
    BY <1>7, EmptyLen DEF ReadConn, FromHead, Chunks, TypeOK, Size, HeadLen
  <2>4. IsRun(inq[d], d, written[d])
    <3>1. written[d] + Size(buf, d) + HeadLen(d) = written[d]
      BY <1>0, <2>3
    <3> QED
      BY <1>a, <3>1 DEF Position
  <2>5. /\ IsRun(SubSeq(inq[d], 1, k), d, written[d])
        /\ IsRun(SubSeq(inq[d], k + 1, Len(inq[d])), d, written[d] + k)
    BY <1>0, <2>2, <2>4, SplitRun
  <2>6. Len(SubSeq(inq[d], 1, k)) = k
    BY <2>2, SplitSeq
  <2>7. /\ buf'[d] = SubSeq(inq[d], 1, k) /\ Size(buf, d)' = k
        /\ inq'[d] = SubSeq(inq[d], k + 1, Len(inq[d]))
        /\ \A e \in Dirs : e # d => buf'[e] = buf[e] /\ inq'[e] = inq[e]
    BY <2>1, <2>6 DEF TypeOK, Size
  <2>8. UNCHANGED <<head, written, outq, got>>
    BY <1>7 DEF ReadConn
  <2>9. \A e \in Dirs : HeadLen(e)' = HeadLen(e)
    BY <2>8 DEF HeadLen
  <2>10. Position(d)'
    <3>1. written[d] + Size(buf, d)' + HeadLen(d)' = written[d] + k
      BY <1>0, <2>2, <2>3, <2>7, <2>9
    <3>2. Size(got, d)' = Size(got, d)
      BY <2>8 DEF Size
    <3>3. IsRun(buf[d], d, written[d])'
      BY <2>5, <2>7, <2>8
    <3>4. IsRun(inq[d], d, written[d] + Size(buf, d) + HeadLen(d))'
      BY <2>5, <2>7, <2>8, <3>1
    <3>5. d = "toUpstream" => IsRun(head, d, written[d] + Size(buf, d))'
      BY <2>3, <2>8, EmptyRun
    <3> QED
      BY <1>a, <2>8, <3>2, <3>3, <3>4, <3>5 DEF Position
  <2>11. ASSUME NEW e \in Dirs, e # d PROVE Position(e)'
    BY <1>b, <2>7, <2>8, <2>9, <2>11
  <2> QED
    BY <2>10, <2>11 DEF Positions
<1>8. ASSUME NEW d \in Dirs, WriteByte(d) PROVE Positions'
  <2>1. buf[d] \in Seq(Bytes) /\ outq[d] \in Seq(Bytes) /\ buf[d] # <<>> /\ open[Dst[d]]
    BY <1>8 DEF WriteByte, Chunks, TypeOK
  <2>2. Head(buf[d]) = Byte(d, written[d] + 1) /\ IsRun(Tail(buf[d]), d, written[d] + 1)
    BY <1>0, <1>a, <2>1, TailRun DEF Position
  <2>3. written[d] = Size(got, d) + Size(outq, d)
    <3>1. /\ written[d] \in Nat /\ Size(got, d) \in Nat /\ Size(outq, d) \in Nat
          /\ Account(d)
      BY <1>0, <1>a
    <3> QED
      BY <2>1, <3>1 DEF Account
  <2>4. Head(buf[d]) \in Bytes /\ Len(Tail(buf[d])) = Len(buf[d]) - 1
    BY <2>1, Tail1
  <2>5. IsRun(Append(outq[d], Head(buf[d])), d, Size(got, d))
    BY <1>0, <1>a, <2>1, <2>2, <2>3, <2>4, AppendRun DEF Position, Size
  <2>6. /\ buf'[d] = Tail(buf[d]) /\ outq'[d] = Append(outq[d], Head(buf[d]))
        /\ written'[d] = written[d] + 1
        /\ \A e \in Dirs : e # d => /\ buf'[e] = buf[e] /\ outq'[e] = outq[e]
                                    /\ written'[e] = written[e]
    BY <1>8 DEF WriteByte, TypeOK
  <2>7. Size(buf, d)' = Size(buf, d) - 1
    BY <2>4, <2>6 DEF Size
  <2>8. UNCHANGED <<head, inq, got>>
    BY <1>8 DEF WriteByte
  <2>9. \A e \in Dirs : HeadLen(e)' = HeadLen(e)
    BY <2>8 DEF HeadLen
  <2>10. Position(d)'
    <3>1. /\ written'[d] + Size(buf, d)' = written[d] + Size(buf, d)
          /\ HeadLen(d)' = HeadLen(d)
      <4>1. written[d] \in Nat /\ Size(buf, d) \in Nat
        BY <1>0
      <4>2. (written[d] + 1) + (Size(buf, d) - 1) = written[d] + Size(buf, d)
        BY <4>1
      <4> QED
        BY <2>6, <2>7, <2>9, <4>2
    <3>2. Size(got, d)' = Size(got, d)
      BY <2>8 DEF Size
    <3>3. IsRun(buf[d], d, written[d])' /\ IsRun(outq[d], d, Size(got, d))'
      BY <2>2, <2>5, <2>6, <3>2
    <3> QED
      BY <1>a, <2>8, <3>1, <3>3 DEF Position
  <2>11. ASSUME NEW e \in Dirs, e # d PROVE Position(e)'
    BY <1>b, <2>6, <2>8, <2>9, <2>11
  <2> QED
    BY <2>10, <2>11 DEF Positions
<1>9. ASSUME NEW c \in Conns, PeerFin(c) PROVE Positions'
  BY <1>1, <1>9 DEF PeerFin
<1>10. ASSUME NEW d \in Dirs,
              \/ ReadEnd(d) \/ WriteFails(d)
              \/ CloseFirst(d) \/ CloseSecond(d) \/ CloseAgain(d)
       PROVE  Positions'
  BY <1>1, <1>10 DEF ReadEnd, WriteFails, CloseFirst, CloseSecond, CloseAgain
<1>11. ASSUME Return \/ UNCHANGED vars PROVE Positions'
  BY <1>1, <1>11 DEF Return, vars
<1> QED
  BY <1>2, <1>3, <1>4, <1>5, <1>6, <1>7, <1>8, <1>9, <1>10, <1>11 DEF Next, Copy, Peer

-----------------------------------------------------------------------------
(* The steps keep the causes: who has left, and what an end at the end of the
   stream has written. *)

\* A direction ends with "nil" only when it has written the whole stream.
LEMMA NextCauses ==
    TypeOK /\ Chunks /\ Control /\ Accounts /\ Causes /\ [Next]_vars => Causes'
<1> SUFFICES ASSUME TypeOK, Chunks, Control, Accounts, Causes, [Next]_vars PROVE Causes'
  OBVIOUS
<1>1. ASSUME UNCHANGED <<sent, written, err>>,
             \A c \in Conns : (fin[c] => fin'[c]) /\ (rst[c] => rst'[c])
      PROVE  Causes'
  BY <1>1 DEF Causes, Src, Dirs, Conns
<1>2. ASSUME NEW d \in Dirs, PeerSend(d) PROVE Causes'
  <2>1. /\ ~fin[Src[d]] /\ UNCHANGED <<written, err, fin, rst>>
        /\ \A e \in Dirs : e # d => sent'[e] = sent[e]
    BY <1>2 DEF PeerSend, TypeOK
  <2>2. err[d] # "nil"
    BY <2>1 DEF Causes
  <2> QED
    BY <2>1, <2>2 DEF Causes
<1>3. ASSUME NEW c \in Conns, PeerFin(c) \/ PeerReset(c) PROVE Causes'
  BY <1>1, <1>3 DEF PeerFin, PeerReset, TypeOK
<1>4. ASSUME NEW d \in Dirs, WriteByte(d) PROVE Causes'
  <2>1. /\ err[d] = "none" /\ UNCHANGED <<sent, err, fin, rst>>
        /\ \A e \in Dirs : e # d => written'[e] = written[e]
    BY <1>4 DEF WriteByte, Control, TypeOK
  <2> QED
    BY <2>1 DEF Causes
<1>5. ASSUME NEW d \in Dirs, ReadEnd(d), AtEof(d), CopyEnds(d, "nil") PROVE Causes'
  <2>1. /\ pc[d] = "read" /\ ~FromHead(d) /\ UNCHANGED <<sent, written, fin, rst>>
        /\ fin[Src[d]] /\ ~rst[Src[d]] /\ inq[d] = <<>>
    BY <1>5 DEF ReadEnd, AtEof
  <2>2. written[d] = sent[d]
    <3>1. Size(inq, d) = 0 /\ Size(buf, d) = 0 /\ HeadLen(d) = 0
      BY <2>1, EmptyLen DEF Chunks, FromHead, HeadLen, Size, TypeOK
    <3>2. /\ written[d] + Size(buf, d) + HeadLen(d) + Size(inq, d) <= sent[d]
          /\ written[d] + Size(buf, d) + HeadLen(d) + Size(inq, d) >= sent[d]
      BY <2>1 DEF Accounts, Account
    <3>3. written[d] \in Nat /\ sent[d] \in Nat
      BY Lengths
    <3> QED
      BY <3>1, <3>2, <3>3
  <2>3. \A e \in Dirs : err'[e] = IF e = d THEN "nil" ELSE err[e]
    BY <1>5 DEF CopyEnds, TypeOK
  <2>4. Src[d] \in Conns
    BY DEF Src, Conns, Dirs
  <2> QED
    BY <2>1, <2>2, <2>3, <2>4 DEF Causes
<1>6. ASSUME NEW d \in Dirs, NEW c \in Conns, ~open[c] \/ rst[c], err[d] = "none",
             CopyEnds(d, "error"), UNCHANGED <<sent, written, fin, rst>>
      PROVE  Causes'
  <2>1. \A e \in Dirs : err'[e] = IF e = d THEN "error" ELSE err[e]
    BY <1>6 DEF CopyEnds, TypeOK
  <2>2. (\E b \in Conns : rst[b]) \/ (\E e \in Dirs \ {d} : err[e] # "none")
    BY <1>6 DEF Control, Conns
  <2> QED
    BY <1>6, <2>1, <2>2 DEF Causes
<1>7. ASSUME NEW d \in Dirs, ReadEnd(d) \/ WriteFails(d) PROVE Causes'
  <2>1. err[d] = "none" /\ UNCHANGED <<sent, written, fin, rst>>
    BY <1>7 DEF ReadEnd, WriteFails, Control
  <2>2. Src[d] \in Conns /\ Dst[d] \in Conns
    BY DEF Src, Dst, Conns, Dirs
  <2>3. CASE WriteFails(d)
    BY <1>6, <2>1, <2>2, <2>3 DEF WriteFails
  <2>4. CASE ReadEnd(d) /\ AtEof(d) /\ CopyEnds(d, "nil")
    BY <1>5, <2>4
  <2>5. CASE ReadFails(d) /\ CopyEnds(d, "error")
    BY <1>6, <2>1, <2>2, <2>5 DEF ReadFails
  <2> QED
    BY <1>7, <2>3, <2>4, <2>5 DEF ReadEnd
<1>8. ASSUME UNCHANGED <<sent, written, err, fin, rst>> PROVE Causes'
  BY <1>1, <1>8
<1> QED
  BY <1>2, <1>3, <1>4, <1>7, <1>8
     DEF Next, Copy, Peer, PeerReceive, LoseTail, ReadHead, ReadConn, CloseFirst,
         CloseSecond, CloseAgain, Return, vars

-----------------------------------------------------------------------------
(* The invariant, and what it implies *)

\* The invariant is inductive.
LEMMA NextIInv == IInv /\ [Next]_vars => IInv'
BY NextTypeOK, NextChunks, NextControl, NextAccounts, NextPositions, NextCauses DEF IInv

\* Every reachable state of pipe satisfies the inductive invariant.
THEOREM Invariance == Spec => []IInv
BY InitIInv, NextIInv, PTL DEF Spec

\* InOrder is the first part of Positions, bounded by Accounts.
LEMMA ImpliesInOrder == IInv => InOrder
<1> SUFFICES ASSUME IInv, NEW d \in Dirs
             PROVE  /\ Len(got[d]) <= sent[d]
                    /\ \A i \in 1..Len(got[d]) : got[d][i] = Byte(d, i)
  BY DEF InOrder
<1>1. /\ Size(got, d) \in Nat /\ Size(outq, d) \in Nat /\ Size(buf, d) \in Nat
      /\ Size(inq, d) \in Nat /\ HeadLen(d) \in Nat
      /\ written[d] \in Nat /\ sent[d] \in Nat
  BY Lengths DEF IInv, Size
<1>2. Account(d) /\ Position(d)
  BY DEF IInv, Accounts, Positions
<1>3. Size(got, d) <= sent[d]
  BY <1>1, <1>2 DEF Account
<1>4. \A i \in 1..Len(got[d]) : got[d][i] = Byte(d, 0 + i) /\ 0 + i = i
  BY <1>2 DEF Position, IsRun
<1> QED
  BY <1>3, <1>4 DEF Size

\* Without a reset or a close the accounts are exact.
LEMMA ImpliesNoByteLost == IInv => NoByteLost
<1> SUFFICES ASSUME IInv, \A c \in Conns : open[c] /\ ~rst[c], NEW d \in Dirs
             PROVE  sent[d] = Len(got[d]) + Underway(d)
  BY DEF NoByteLost
<1>1. /\ Size(got, d) \in Nat /\ Size(outq, d) \in Nat /\ Size(buf, d) \in Nat
      /\ Size(inq, d) \in Nat /\ HeadLen(d) \in Nat
      /\ written[d] \in Nat /\ sent[d] \in Nat
  BY Lengths DEF IInv, Size
<1>2. Account(d) /\ open[Dst[d]] /\ ~rst[Src[d]]
  BY DEF IInv, Accounts, Src, Dst, Conns, Dirs
<1>3. sent[d] = Size(got, d) + (HeadLen(d) + Size(inq, d) + Size(buf, d) + Size(outq, d))
  BY <1>1, <1>2 DEF Account
<1> QED
  BY <1>3 DEF Underway, Size

\* A count is taken when its direction ends, and written stays put after it.
LEMMA ImpliesCountsFinal == IInv => CountsFinal
<1> SUFFICES ASSUME IInv, returned, NEW d \in Dirs
             PROVE  count[d] = written[d] /\ Len(got[d]) + Len(outq[d]) <= count[d]
  BY DEF CountsFinal
<1>1. count[d] = written[d]
  BY DEF IInv, Control
<1>2. Len(got[d]) + Len(outq[d]) <= written[d]
  BY DEF IInv, Accounts, Account, Size
<1> QED
  BY <1>1, <1>2

\* EofFlushed is a part of Causes.
LEMMA ImpliesEofFlushed == IInv => EofFlushed
BY DEF IInv, Causes, EofFlushed

\* NothingLeaks follows from the order of closeAll.
LEMMA ImpliesNothingLeaks == IInv => NothingLeaks
BY DEF IInv, Control, NothingLeaks, Conns, Dirs

\* A closed connection means a direction has ended, and that has a cause.
LEMMA ImpliesEndHasCause == IInv => EndHasCause
<1> SUFFICES ASSUME IInv PROVE EndHasCause
  OBVIOUS
<1>1. ASSUME NEW c \in Conns, ~open[c] PROVE \E d \in Dirs : err[d] # "none"
  BY <1>1 DEF IInv, Control, Conns
<1>2. (\E c \in Conns : ~open[c]) => \E c \in Conns : fin[c] \/ rst[c]
  BY <1>1 DEF IInv, Causes
<1> QED
  BY <1>2 DEF IInv, Causes, EndHasCause

-----------------------------------------------------------------------------
(* Theorems *)

\* Every variable of pipe keeps its type.
THEOREM TypeCorrect == Spec => []TypeOK
<1>1. IInv => TypeOK
  BY DEF IInv
<1> QED
  BY <1>1, Invariance, PTL

\* However the goroutines, the peers and the network interleave, and however
\* many bytes are sent and buffered, a peer receives a beginning of what the
\* other peer sent.
THEOREM AlwaysInOrder == Spec => []InOrder
BY Invariance, ImpliesInOrder, PTL

\* Nothing is lost inside the gateway while the session lasts.
THEOREM AlwaysNoByteLost == Spec => []NoByteLost
BY Invariance, ImpliesNoByteLost, PTL

\* A direction that ends at the end of its stream has written all of it.
THEOREM AlwaysEofFlushed == Spec => []EofFlushed
BY Invariance, ImpliesEofFlushed, PTL

\* The counts that pipe returns are final.
THEOREM AlwaysCountsFinal == Spec => []CountsFinal
BY Invariance, ImpliesCountsFinal, PTL

\* When pipe has returned both connections are closed and both goroutines gone.
THEOREM AlwaysNothingLeaks == Spec => []NothingLeaks
BY Invariance, ImpliesNothingLeaks, PTL

\* The gateway never ends a session before a peer has left.
THEOREM AlwaysEndHasCause == Spec => []EndHasCause
BY Invariance, ImpliesEndHasCause, PTL

-----------------------------------------------------------------------------
(* Refinement: the safety half of ImplementsRelay *)

\* The initial states of pipe are initial states of the relay.
LEMMA InitRelay == Init => R!Init
<1> SUFFICES ASSUME Init PROVE R!Init
  OBVIOUS
<1>1. sent \in [Dirs -> Nat]
  BY InitTypeOK DEF TypeOK
<1>2. Phase = "open"
  BY DEF Init, Phase
<1> QED
  BY <1>1, <1>2 DEF Init, R!Init, R!Dirs, Dirs

\* A step of pipe is a step of the relay or leaves it unchanged.
LEMMA StepRelay == IInv /\ IInv' /\ [Next]_vars => [R!Next]_(R!vars)
<1> SUFFICES ASSUME IInv, IInv', [Next]_vars PROVE [R!Next]_(R!vars)
  OBVIOUS
<1> USE DEF R!vars, R!Dirs, Dirs
<1>1. ASSUME UNCHANGED <<sent, written, got, err, returned>> PROVE UNCHANGED R!vars
  BY <1>1 DEF Phase
<1>2. ASSUME NEW d \in Dirs, PeerSend(d) PROVE R!Produce(d)
  BY <1>2 DEF PeerSend, R!Produce, Phase
<1>3. ASSUME NEW d \in Dirs, PeerReceive(d) PROVE R!Deliver(d)
  <2>1. outq[d] \in Seq(Bytes) /\ outq[d] # <<>> /\ got \in [Dirs -> Seq(Bytes)]
    BY <1>3 DEF PeerReceive, IInv, TypeOK
  <2>2. Size(got, d) \in Nat /\ Size(outq, d) \in Nat \ {0} /\ written[d] \in Nat
    BY <2>1, EmptyLen, Lengths DEF IInv, Size
  <2>3. Size(got, d) + Size(outq, d) <= written[d]
    BY DEF IInv, Accounts, Account
  <2>4. Len(got[d]) < written[d]
    <3>1. Size(got, d) < written[d]
      BY <2>2, <2>3
    <3> QED
      BY <3>1 DEF Size
  <2>5. Head(outq[d]) = Byte(d, Len(got[d]) + 1)
    BY <2>1, <2>2, TailRun DEF IInv, Positions, Position, Size
  <2>6. got' = [got EXCEPT ![d] = Append(@, R!Byte(d, Len(@) + 1))]
    BY <1>3, <2>1, <2>5 DEF PeerReceive, Byte, R!Byte
  <2>7. UNCHANGED <<sent, written, Phase>>
    BY <1>3 DEF PeerReceive, Phase
  <2> QED
    BY <2>4, <2>6, <2>7 DEF R!Deliver
<1>4. ASSUME NEW d \in Dirs, WriteByte(d) PROVE R!Forward(d)
  <2>1. pc[d] = "write" /\ buf[d] \in Seq(Bytes) /\ buf[d] # <<>>
    BY <1>4 DEF WriteByte, IInv, Chunks, TypeOK
  <2>2. /\ Size(buf, d) \in Nat \ {0} /\ Size(inq, d) \in Nat /\ HeadLen(d) \in Nat
        /\ written[d] \in Nat /\ sent[d] \in Nat
    BY <2>1, EmptyLen, Lengths DEF IInv, Size
  <2>3. written[d] + Size(buf, d) + HeadLen(d) + Size(inq, d) <= sent[d]
    BY DEF IInv, Accounts, Account
  <2>4. written[d] < sent[d]
    BY <2>2, <2>3
  <2>5. Phase # "over"
    BY <2>1 DEF IInv, Control, Phase
  <2>6. written' = [written EXCEPT ![d] = @ + 1] /\ UNCHANGED <<sent, got, Phase>>
    BY <1>4 DEF WriteByte, Phase
  <2> QED
    BY <2>4, <2>5, <2>6 DEF R!Forward
<1>5. ASSUME NEW d \in Dirs, ReadEnd(d) \/ WriteFails(d) PROVE R!BeginEnd \/ UNCHANGED R!vars
  <2>1. PICK r \in {"nil", "error"} : CopyEnds(d, r)
    BY <1>5 DEF ReadEnd, WriteFails
  <2>2. pc[d] \in {"read", "write"} /\ UNCHANGED <<sent, written, got, returned>>
    BY <1>5 DEF ReadEnd, WriteFails
  <2>3. err' = [err EXCEPT ![d] = r]
    BY <2>1 DEF CopyEnds
  <2>4. err'[d] # "none" /\ ~returned
    BY <2>2, <2>3 DEF IInv, Control, TypeOK
  <2>5. Phase' = "ending"
    BY <2>2, <2>4 DEF Phase
  <2>6. Phase \in {"open", "ending"}
    BY <2>4 DEF Phase
  <2> QED
    BY <2>2, <2>5, <2>6 DEF R!BeginEnd
<1>6. ASSUME Return PROVE R!Finish
  <2>1. \A d \in Dirs : err[d] # "none"
    BY <1>6 DEF Return, WaitOver, IInv, Control
  <2>2. Phase = "ending" /\ Phase' = "over"
    BY <1>6, <2>1 DEF Return, Phase
  <2> QED
    BY <1>6, <2>2 DEF Return, R!Finish
<1>7. ASSUME UNCHANGED vars PROVE UNCHANGED R!vars
  BY <1>1, <1>7 DEF vars
<1>8. ASSUME NEW d \in Dirs,
             \/ LoseTail(d) \/ ReadHead(d) \/ ReadConn(d)
             \/ CloseFirst(d) \/ CloseSecond(d) \/ CloseAgain(d)
      PROVE  UNCHANGED R!vars
  BY <1>1, <1>8 DEF LoseTail, ReadHead, ReadConn, CloseFirst, CloseSecond, CloseAgain
<1>9. ASSUME NEW c \in Conns, PeerFin(c) \/ PeerReset(c) PROVE UNCHANGED R!vars
  BY <1>1, <1>9 DEF PeerFin, PeerReset
<1> QED
  BY <1>2, <1>3, <1>4, <1>5, <1>6, <1>7, <1>8, <1>9 DEF Next, Copy, Peer, R!Next

\* Every behaviour of pipe is, step for step, one of the abstract relay: bytes
\* are forwarded and delivered in order, and a relay that has ended stays ended.
\* (That an ending relay comes to its end needs fairness: PipeFair checks it.)
THEOREM RefinesRelay == Spec => R!SafeSpec
<1>1. Init => R!Init
  BY InitRelay
<1>2. IInv /\ IInv' /\ [Next]_vars => [R!Next]_(R!vars)
  BY StepRelay
<1> QED
  BY <1>1, <1>2, Invariance, PTL DEF Spec, R!SafeSpec
=============================================================================
