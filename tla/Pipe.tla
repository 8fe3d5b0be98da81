-------------------------------- MODULE Pipe --------------------------------
(***************************************************************************)
(* pipe() of internal/gateway/pipe.go: two goroutines copy bytes between   *)
(* the client's and the upstream's connection, the first to terminate      *)
(* closes both connections through a sync.Once, and pipe returns the two   *)
(* byte counts once both goroutines are done.                              *)
(*                                                                         *)
(* A byte is its direction and its position in the stream.  inq[d] is what *)
(* has reached the gateway's receive buffer, buf[d] the chunk the          *)
(* goroutine has read and not yet written, outq[d] what it has written and *)
(* the peer has not yet read (a full outq blocks the writer).  The peers   *)
(* send, half-close, reset and stop reading whenever they like.            *)
(***************************************************************************)
EXTENDS Naturals, Sequences

CONSTANTS
    MaxSent,    \* bound: bytes a peer sends after pipe has started
    MaxHead,    \* bound: client bytes the redis proxy buffered before pipe
    OutCap      \* capacity of the path from the gateway to a peer, in bytes

ASSUME BoundsAssumption == MaxSent \in Nat /\ MaxHead \in Nat /\ OutCap \in Nat \ {0}

Conns == {"client", "upstream"}
Dirs  == {"toUpstream", "toClient"}

Src == [d \in Dirs |-> IF d = "toUpstream" THEN "client" ELSE "upstream"]
Dst == [d \in Dirs |-> IF d = "toUpstream" THEN "upstream" ELSE "client"]

Byte(d, i) == <<d, i>>
Bytes == Dirs \X Nat

VARIABLES
    sent,      \* [Dirs -> Nat]: bytes the source of the direction has sent
    head,      \* client bytes that clientSrc yields before the connection's own
    inq,       \* [Dirs -> Seq(Bytes)]: received by the gateway, not yet read
    buf,       \* [Dirs -> Seq(Bytes)]: read by io.Copy, not yet written
    written,   \* [Dirs -> Nat]: io.Copy's byte count
    outq,      \* [Dirs -> Seq(Bytes)]: written, not yet received by the peer
    got,       \* [Dirs -> Seq(Bytes)]: received by the destination
    fin,       \* [Conns -> BOOLEAN]: the peer has closed its sending side
    rst,       \* [Conns -> BOOLEAN]: the peer's connection is reset or dead
    open,      \* [Conns -> BOOLEAN]: the gateway has not closed the connection
    pc,        \* [Dirs -> ...]: where each goroutine is
    err,       \* [Dirs -> ...]: the error io.Copy returned (the code drops it)
    once,      \* state of the sync.Once: "idle", "running", "done"
    count,     \* [Dirs -> Nat]: the named results, set when io.Copy returns
    returned   \* pipe has returned count to the handler

vars == <<sent, head, inq, buf, written, outq, got, fin, rst, open, pc, err,
          once, count, returned>>

Steps == {"read", "write", "closeAll", "closing", "done"}

\* The state in which a proxy's handler calls pipe: both connections open, the
\* first h client bytes already in the bufio.Reader of the redis proxy.
Init ==
    \E h \in 0..MaxHead :
        /\ sent = [d \in Dirs |-> IF d = "toUpstream" THEN h ELSE 0]
        /\ head = [i \in 1..h |-> Byte("toUpstream", i)]
        /\ inq = [d \in Dirs |-> <<>>]
        /\ buf = [d \in Dirs |-> <<>>]
        /\ written = [d \in Dirs |-> 0]
        /\ outq = [d \in Dirs |-> <<>>]
        /\ got = [d \in Dirs |-> <<>>]
        /\ fin = [c \in Conns |-> FALSE]
        /\ rst = [c \in Conns |-> FALSE]
        /\ open = [c \in Conns |-> TRUE]
        /\ pc = [d \in Dirs |-> "read"]
        /\ err = [d \in Dirs |-> "none"]
        /\ once = "idle"
        /\ count = [d \in Dirs |-> 0]
        /\ returned = FALSE

-----------------------------------------------------------------------------
(* The peers and the network: not code, but what pipe must live with. *)

\* The source of direction d sends a byte; it reaches the receive buffer.
PeerSend(d) ==
    /\ ~fin[Src[d]] /\ ~rst[Src[d]]
    /\ sent[d] < MaxSent + (IF d = "toUpstream" THEN MaxHead ELSE 0)
    /\ sent' = [sent EXCEPT ![d] = @ + 1]
    /\ inq' = [inq EXCEPT ![d] = Append(@, Byte(d, sent[d] + 1))]
    /\ UNCHANGED <<head, buf, written, outq, got, fin, rst, open, pc, err, once,
                   count, returned>>

\* The peer closes its sending side: a read yields EOF after the last byte.
PeerFin(c) ==
    /\ ~fin[c] /\ ~rst[c]
    /\ fin' = [fin EXCEPT ![c] = TRUE]
    /\ UNCHANGED <<sent, head, inq, buf, written, outq, got, rst, open, pc, err,
                   once, count, returned>>

\* The peer resets or the network gives up: what is under way in either
\* direction may be lost from some byte on.
PeerReset(c) ==
    /\ ~rst[c]
    /\ rst' = [rst EXCEPT ![c] = TRUE]
    /\ \E d \in Dirs : Src[d] = c /\ \E k \in 0..Len(inq[d]) :
           inq' = [inq EXCEPT ![d] = SubSeq(@, 1, k)]
    /\ UNCHANGED <<sent, head, buf, written, outq, got, fin, open, pc, err, once,
                   count, returned>>

\* The destination of direction d reads a byte.
PeerReceive(d) ==
    /\ ~rst[Dst[d]] /\ outq[d] # <<>>
    /\ got' = [got EXCEPT ![d] = Append(@, Head(outq[d]))]
    /\ outq' = [outq EXCEPT ![d] = Tail(@)]
    /\ UNCHANGED <<sent, head, inq, buf, written, fin, rst, open, pc, err, once,
                   count, returned>>

\* A connection the gateway closed with unread input is reset by the kernel,
\* and the peer loses what it has not read.
LoseTail(d) ==
    /\ ~open[Dst[d]] /\ outq[d] # <<>>
    /\ outq' = [outq EXCEPT ![d] = SubSeq(@, 1, Len(@) - 1)]
    /\ UNCHANGED <<sent, head, inq, buf, written, got, fin, rst, open, pc, err,
                   once, count, returned>>
-----------------------------------------------------------------------------
(* io.Copy(dst, src) in the goroutine of direction d. *)

\* clientSrc is a MultiReader: the bytes the redis proxy buffered come first,
\* and reading them needs no connection.
FromHeadDropped(d) == FALSE      \* mutant: pipe copies from client, not clientSrc
FromHead(d) == d = "toUpstream" /\ head # <<>>

ReadHead(d) ==
    /\ pc[d] = "read" /\ FromHead(d)
    /\ \E k \in 1..Len(head) :
           /\ buf' = [buf EXCEPT ![d] = SubSeq(head, 1, k)]
           /\ head' = SubSeq(head, k + 1, Len(head))
    /\ pc' = [pc EXCEPT ![d] = "write"]
    /\ UNCHANGED <<sent, inq, written, outq, got, fin, rst, open, err, once,
                   count, returned>>

\* Read returns some of what has arrived.
ReadableFull(d) == open[Src[d]] /\ Len(inq[d]) >= 2    \* mutant: fills its buffer
Readable(d) == open[Src[d]] /\ inq[d] # <<>>

ReadConn(d) ==
    /\ pc[d] = "read" /\ ~FromHead(d)
    /\ Readable(d)
    /\ \E k \in 1..Len(inq[d]) :
           /\ buf' = [buf EXCEPT ![d] = SubSeq(inq[d], 1, k)]
           /\ inq' = [inq EXCEPT ![d] = SubSeq(@, k + 1, Len(@))]
    /\ pc' = [pc EXCEPT ![d] = "write"]
    /\ UNCHANGED <<sent, head, written, outq, got, fin, rst, open, err, once,
                   count, returned>>

\* Read reports the end of the stream only behind the last byte; a reset or a
\* connection the other goroutine has closed is an error.
AtEofEarly(d) == open[Src[d]] /\ fin[Src[d]]      \* mutant: overtakes the data
AtEof(d)     == open[Src[d]] /\ inq[d] = <<>> /\ fin[Src[d]] /\ ~rst[Src[d]]
ReadFailsIdle(d) == ~open[Src[d]] \/ inq[d] = <<>>   \* mutant: a read deadline
ReadFails(d) == ~open[Src[d]] \/ (inq[d] = <<>> /\ rst[Src[d]])

\* io.Copy returns: its count is assigned to the named result, then the
\* deferred calls run.
CopyEndsHalfClose(d, e) ==     \* mutant: an EOF does not close the connections
    /\ err' = [err EXCEPT ![d] = e]
    /\ count' = [count EXCEPT ![d] = written[d]]
    /\ pc' = [pc EXCEPT ![d] = IF e = "nil" THEN "done" ELSE "closeAll"]
CopyEndsRawEof(d, e) ==        \* mutant: io.EOF is passed on as the error
    /\ err' = [err EXCEPT ![d] = IF e = "nil" THEN "EOF" ELSE e]
    /\ count' = [count EXCEPT ![d] = written[d]]
    /\ pc' = [pc EXCEPT ![d] = "closeAll"]
CopyEnds(d, e) ==
    /\ err' = [err EXCEPT ![d] = e]
    /\ count' = [count EXCEPT ![d] = written[d]]
    /\ pc' = [pc EXCEPT ![d] = "closeAll"]

ReadEnd(d) ==
    /\ pc[d] = "read" /\ ~FromHead(d)
    /\ \/ AtEof(d)     /\ CopyEnds(d, "nil")
       \/ ReadFails(d) /\ CopyEnds(d, "error")
    /\ UNCHANGED <<sent, head, inq, buf, written, outq, got, fin, rst, open, once,
                   returned>>

\* After the last byte of the chunk the loop reads again.
AfterWriteShort(d) == "read"     \* mutant: the rest of a short write is dropped
AfterWrite(d) == IF Len(buf[d]) = 1 THEN "read" ELSE "write"

\* Write blocks while the path to the peer is full.
WriteByte(d) ==
    /\ pc[d] = "write"
    /\ open[Dst[d]] /\ ~rst[Dst[d]] /\ Len(outq[d]) < OutCap
    /\ outq' = [outq EXCEPT ![d] = Append(@, Head(buf[d]))]
    /\ buf' = [buf EXCEPT ![d] = Tail(@)]
    /\ written' = [written EXCEPT ![d] = @ + 1]
    /\ pc' = [pc EXCEPT ![d] = AfterWrite(d)]
    /\ UNCHANGED <<sent, head, inq, got, fin, rst, open, err, once,
                   count, returned>>

WriteFails(d) ==
    /\ pc[d] = "write"
    /\ ~open[Dst[d]] \/ rst[Dst[d]]
    /\ CopyEnds(d, "error")
    /\ UNCHANGED <<sent, head, inq, buf, written, outq, got, fin, rst, open, once,
                   returned>>
-----------------------------------------------------------------------------
(* closeAll, deferred by each goroutine: sync.Once runs it in the first, and a
   second caller waits until the first call has returned. *)

CloseOrderTwice == <<"client", "client">>      \* mutant: upstream left open
CloseOrder == <<"client", "upstream">>

CloseFirst(d) ==
    /\ pc[d] = "closeAll" /\ once = "idle"
    /\ once' = "running"
    /\ open' = [open EXCEPT ![CloseOrder[1]] = FALSE]
    /\ pc' = [pc EXCEPT ![d] = "closing"]
    /\ UNCHANGED <<sent, head, inq, buf, written, outq, got, fin, rst, err, count, returned>>

CloseSecond(d) ==
    /\ pc[d] = "closing"
    /\ once' = "done"
    /\ open' = [open EXCEPT ![CloseOrder[2]] = FALSE]
    /\ pc' = [pc EXCEPT ![d] = "done"]
    /\ UNCHANGED <<sent, head, inq, buf, written, outq, got, fin, rst, err, count, returned>>

CloseAgain(d) ==
    /\ pc[d] = "closeAll" /\ once = "done"
    /\ pc' = [pc EXCEPT ![d] = "done"]
    /\ UNCHANGED <<sent, head, inq, buf, written, outq, got, fin, rst, open, err,
                   once, count, returned>>

\* wg.Wait lets pipe return once both goroutines have called wg.Done.
WaitOverOne == \E d \in Dirs : pc[d] = "done"     \* mutant: wg.Add(1)
WaitOver == \A d \in Dirs : pc[d] = "done"

Return ==
    /\ ~returned /\ WaitOver
    /\ returned' = TRUE
    /\ UNCHANGED <<sent, head, inq, buf, written, outq, got, fin, rst, open, pc,
                   err, once, count>>

Copy(d) ==
    \/ ReadHead(d) \/ ReadConn(d) \/ ReadEnd(d)
    \/ WriteByte(d) \/ WriteFails(d)
    \/ CloseFirst(d) \/ CloseSecond(d) \/ CloseAgain(d)

Peer ==
    \/ \E d \in Dirs : PeerSend(d) \/ PeerReceive(d) \/ LoseTail(d)
    \/ \E c \in Conns : PeerFin(c) \/ PeerReset(c)

Next ==
    \/ \E d \in Dirs : Copy(d)
    \/ Return
    \/ Peer

Spec == Init /\ [][Next]_vars

\* The Go scheduler runs a goroutine that can go on; nothing is assumed of the
\* peers.
FairSpec == Spec /\ (\A d \in Dirs : WF_vars(Copy(d))) /\ WF_vars(Return)

-----------------------------------------------------------------------------
(* Properties *)

TypeOK ==
    /\ sent \in [Dirs -> Nat]
    /\ head \in Seq(Bytes)
    /\ inq \in [Dirs -> Seq(Bytes)]
    /\ buf \in [Dirs -> Seq(Bytes)]
    /\ written \in [Dirs -> Nat]
    /\ outq \in [Dirs -> Seq(Bytes)]
    /\ got \in [Dirs -> Seq(Bytes)]
    /\ fin \in [Conns -> BOOLEAN]
    /\ rst \in [Conns -> BOOLEAN]
    /\ open \in [Conns -> BOOLEAN]
    /\ pc \in [Dirs -> Steps]
    /\ err \in [Dirs -> {"none", "nil", "error"}]
    /\ once \in {"idle", "running", "done"}
    /\ count \in [Dirs -> Nat]
    /\ returned \in BOOLEAN

\* What a peer receives is the beginning of what the other peer sent: nothing
\* is reordered, repeated, skipped or taken from the other direction, and the
\* bytes the redis proxy buffered come before the connection's own.
InOrder ==
    \A d \in Dirs :
        /\ Len(got[d]) <= sent[d]
        /\ \A i \in 1..Len(got[d]) : got[d][i] = Byte(d, i)

\* Bytes of direction d that are somewhere between the two peers.
HeadLen(d)  == IF d = "toUpstream" THEN Len(head) ELSE 0
Underway(d) == HeadLen(d) + Len(inq[d]) + Len(buf[d]) + Len(outq[d])

\* While neither peer is reset and the gateway holds both connections open,
\* every byte sent has been received or is still on its way.
NoByteLost ==
    (\A c \in Conns : open[c] /\ ~rst[c])
        => \A d \in Dirs : sent[d] = Len(got[d]) + Underway(d)

\* A direction that ends at the end of its stream has written every byte of it:
\* the connections are not torn down in front of a peer's last bytes.
EofFlushed ==
    \A d \in Dirs : err[d] = "nil" => written[d] = sent[d]

\* The counts the close line reports are final when pipe returns: no copy is
\* still running behind them, and no peer receives more than they say.
CountsFinal ==
    returned => \A d \in Dirs :
        /\ count[d] = written[d]
        /\ Len(got[d]) + Len(outq[d]) <= count[d]

\* The handler that called pipe leaks neither a connection nor a goroutine.
NothingLeaks ==
    returned => /\ \A c \in Conns : ~open[c]
                /\ \A d \in Dirs : pc[d] = "done"

\* The gateway never ends a session by itself: it closes a connection only
\* after a peer has closed its side or is lost, and a direction fails only for
\* a lost peer or because the other direction has ended.
EndHasCause ==
    /\ (\E c \in Conns : ~open[c]) => \E c \in Conns : fin[c] \/ rst[c]
    /\ \A d \in Dirs : err[d] = "error" =>
           \/ \E c \in Conns : rst[c]
           \/ \E e \in Dirs \ {d} : err[e] # "none"

\* Peers that keep reading what they are sent; the properties below that need
\* them say so.
PeersRead == \A d \in Dirs : WF_vars(PeerReceive(d))

\* A peer that leaves is noticed and the session ends, as long as the peer
\* that stays goes on reading.
DepartureEndsSession ==
    PeersRead => ((\E c \in Conns : fin[c] \/ rst[c]) ~> returned)

\* A byte sent between peers that read reaches its destination, unless a peer
\* leaves first.
Delivered ==
    PeersRead =>
        \A d \in Dirs : \A i \in 1..(MaxSent + MaxHead) :
            sent[d] >= i ~> (Len(got[d]) >= i \/ \E c \in Conns : fin[c] \/ rst[c])

\* pipe implements the abstract relay.
Phase == IF returned THEN "over"
         ELSE IF \E d \in Dirs : err[d] # "none" THEN "ending" ELSE "open"

R == INSTANCE Relay WITH fwd <- written, phase <- Phase

\* Every behaviour of pipe is one of the abstract relay.  Its liveness is "when
\* either direction terminates, both connections are closed so the other
\* direction unblocks": once one goroutine has stopped copying pipe returns,
\* even when the other is blocked on a peer that neither reads nor sends.
ImplementsRelay == R!Spec
=============================================================================
