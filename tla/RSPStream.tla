------------------------------ MODULE RSPStream ------------------------------
(***************************************************************************)
(* One sender's stream of the Reliable Stream Protocol over UDP multicast  *)
(* (src/lib/net/rspConnection.cpp).  The sending peer Writer multicasts    *)
(* the fragments of each write() to every member of the group, then drives *)
(* the ACKREQ / NACK / ACK exchange until every child has acknowledged.    *)
(* Every child (the Writer's own loopback child and each remote peer)      *)
(* reassembles the fragments into a ring of NBuffers receive slots, which  *)
(* its reader thread consumes in order with readSync().                    *)
(*                                                                         *)
(* Threads: the Writer's application thread (write, _handleRepeat), the   *)
(* Writer's network thread (_runReadThread: ACK, NACK, timeouts), each     *)
(* remote peer's network thread (DATA, ACKREQ) and every child's reader.   *)
(* Each handler is one atomic step.  The Writer's own child is served      *)
(* synchronously inside the Writer's steps, as _sendDatagram and           *)
(* _sendAckRequest call _handleDataDatagram and _handleAckRequest directly.*)
(*                                                                         *)
(* Data abstraction: the payload of a fragment is the number of the write  *)
(* it belongs to; a buffer's content is the sequence of those numbers.     *)
(***************************************************************************)
EXTENDS Integers, Sequences, FiniteSets, SequencesExt

CONSTANTS
    Writer,       \* the sending peer (its own loopback child has this id)
    Remotes,      \* the other members of the multicast group
    NBuffers,     \* _nBuffers: receive slots per sender (4 in the code)
    AckFreq,      \* _ackFreq: fragments per buffer, the size of got[]
    SeqIdMod,       \* 2^16: sequence ids are IDSequenceType (uint16)
    MaxWrites,    \* bound on the number of write() calls
    ChanCap,      \* datagrams a UDP socket buffer holds before dropping
    TimeoutLimit, \* consecutive select() timeouts that kill the thread (1000)
    RepeatCap,    \* saturation of _handleRepeat's nRepeats counter
    Reorder,      \* TRUE: UDP may deliver datagrams out of order
    Lossy         \* TRUE: UDP may lose any datagram in flight

ASSUME /\ Writer \notin Remotes
       /\ NBuffers \in Nat \ {0}
       /\ AckFreq \in Nat \ {0}
       /\ SeqIdMod > MaxWrites
       /\ ChanCap \in Nat \ {0}
       /\ TimeoutLimit \in Nat \ {0}
       \* any nRepeats >= AckFreq gives an error rate above 20%
       /\ RepeatCap >= AckFreq
       /\ Reorder \in BOOLEAN
       /\ Lossy \in BOOLEAN

Children == {Writer} \cup Remotes        \* the Writer's _children
Slots    == 0 .. NBuffers - 1
Idx      == 0 .. AckFreq - 1
NoBuf    == -1                           \* _recvBuffer == 0
NoAck    == -1                           \* _lastSequenceIDAck( -1 )

NackRange == [start : Idx, end : Idx]     \* one (start << 16) | end NACK entry

VARIABLES
    \* the Writer (listening RSPConnection) and its application thread
    seqW,          \* writes started; _sequenceIDWrite == seqW % SeqIdMod
    nDatagrams,    \* _nDatagrams of the current write
    lens,          \* lens[w]: number of fragments of write w (history)
    wpc,           \* writer thread: "idle", "pop" (wait for a request),
                   \* "merge" (merging NACKs in _handleRepeat)
    requests,      \* the merged NACK vector of _handleRepeat
    nRepeats,      \* _handleRepeat's nRepeats, saturated at RepeatCap
    rate,          \* last argument given to adaptSendRate
    repeatQueue,   \* _repeatQueue (MTQueue of RepeatRequest)
    ackReceived,   \* child->_ackReceived for every child
    numWriteAcks,  \* _numWriteAcks
    writing,       \* _writing
    timeouts,      \* _timeouts
    netUp,         \* the Writer's network thread is running
    \* the child RSPConnection of the Writer on every member
    rcv,           \* [slots, buf, idx, rd, last] per child
    delivered,     \* buffers each child's reader has consumed (history)
    \* the network
    toPeer,        \* datagrams multicast by the Writer, per remote peer
    toWriter       \* datagrams sent by remote peers to the Writer

writerVars == <<seqW, nDatagrams, lens, wpc, requests, nRepeats, rate,
                repeatQueue, ackReceived, numWriteAcks, writing, timeouts,
                netUp>>
vars == <<writerVars, rcv, delivered, toPeer, toWriter>>

-----------------------------------------------------------------------------
(* Receive slots: DataReceive and the child's ring.                        *)

\* DataReceive::reset(): sequenceID 0, ackSend and allRead set, got cleared,
\* data resized to _bufferSize.  frag[k] is the payload at k * _payloadSize.
ResetSlot == [seq |-> 0, ackSend |-> TRUE, allRead |-> TRUE, got |-> {},
              frag |-> [k \in Idx |-> 0], size |-> AckFreq]

\* A child as built by the RSPConnection constructor.
InitChild == [slots |-> [k \in Slots |-> ResetSlot],
              buf   |-> 0,          \* _recvBuffer = _buffer[ 0 ]
              idx   |-> 0,          \* _recvBufferIndex
              rd    |-> 0,          \* _readBufferIndex
              last  |-> NoAck]      \* _lastSequenceIDAck

\* What a reader copies out of a slot: data[0 .. size-1].
Held(s) == [i \in 1 .. s.size |-> s.frag[i - 1]]

\* What write w put on the wire.
Content(w) == [i \in 1 .. lens[w] |-> w]

\* _findReceiverWithSequenceID: the first slot with that sequence id.
FindSlot(rs, sq) ==
    LET m == {k \in Slots : rs.slots[k].seq = sq}
    IN  IF m = {} THEN NoBuf ELSE Min(m)

\* The slot selection at the top of _handleDataDatagram: the new value of
\* _recvBuffer, NoBuf meaning the datagram is dropped.
SelectRecv(rs, sq) ==
    IF rs.buf # NoBuf THEN rs.buf
    ELSE IF rs.slots[rs.idx].allRead THEN rs.idx
    ELSE FindSlot(rs, sq)

\* The early-NACK run: walk down from j while got[indexMin - 1] is false.
RunStart(got, j) ==
    CHOOSE i \in 0 .. j : /\ \A x \in i .. j : x \notin got
                          /\ i = 0 \/ (i - 1) \in got

\* A datagram reaching a slot that is not receiving is dropped when it
\* belongs to the slot's last sequence or to the last sequence ACKed.
IsStaleInverted(rs, s, d) == d.seq # s.seq \/ rs.last = d.seq
IsStaleNoLastAck(rs, s, d) == d.seq = s.seq
IsStale(rs, s, d) == d.seq = s.seq \/ rs.last = d.seq

\* _handleDataDatagram for datagram d on child state rs.  Returns the new
\* child state and the early NACK ranges (empty or one range).
OnData(rs, d) ==
    LET b   == SelectRecv(rs, d.seq)
        rs1 == [rs EXCEPT !.buf = b]
        s   == rs.slots[b]
        new == s.ackSend
        s1  == IF new THEN [s EXCEPT !.seq = d.seq, !.size = 0,
                                     !.ackSend = FALSE]
                      ELSE s
        s2  == [s1 EXCEPT !.got = @ \cup {d.idx}, !.frag[d.idx] = d.pay,
                          !.size = Max({@, d.idx + 1})]
        k   == d.idx
    IN  IF b = NoBuf THEN [rs |-> rs1, nack |-> <<>>]
        ELSE IF new /\ IsStale(rs, s, d)
        THEN [rs |-> rs1, nack |-> <<>>]
        ELSE IF k \in s1.got
        THEN [rs |-> [rs1 EXCEPT !.slots[b] = s1], nack |-> <<>>]
        ELSE [rs   |-> [rs1 EXCEPT !.slots[b] = s2],
              nack |-> IF k = 0 \/ (k - 1) \in s2.got THEN <<>>
                       ELSE <<[start |-> RunStart(s2.got, k - 1),
                               end   |-> k - 1]>>]

\* The loss scan of _handleAckRequest from index i: every missing i <= last
\* starts a run that ends before the next fragment present anywhere in
\* got[] (the inner loop runs up to got.getSize(), not to last).
RECURSIVE NackRanges(_, _, _)
NackRanges(got, last, i) ==
    IF i > last THEN <<>>
    ELSE IF i \in got THEN NackRanges(got, last, i + 1)
    ELSE LET after == {j \in i .. AckFreq - 1 : j \in got}
         IN  IF after = {} THEN <<[start |-> i, end |-> last]>>
             ELSE <<[start |-> i, end |-> Min(after) - 1]>>
                  \o NackRanges(got, last, Min(after) + 1)

\* After an ACK the next slot becomes _recvBuffer only if it was read.
NextRecv(rs, nxt) == IF rs.slots[nxt].allRead THEN nxt ELSE NoBuf


\* A complete buffer is handed to the reader: ackSend = true, then
\* allRead = false.
Complete(s) == [s EXCEPT !.ackSend = TRUE, !.allRead = FALSE]

\* _handleAckRequest for an ACKREQ q on child state rs.  The reply is an
\* ACK of a sequence id or a NACK with ranges.
OnAckReq(rs, q) ==
    LET k   == FindSlot(rs, q.seq)
        s   == rs.slots[k]
        rg  == NackRanges(s.got, q.last, 0)
        nxt == (rs.idx + 1) % NBuffers
    IN  IF k = NoBuf
        THEN [rs |-> rs, reply |-> [type |-> "NACK",
                                    ranges |-> <<[start |-> 0, end |-> q.last]>>]]
        ELSE IF s.ackSend
        THEN [rs |-> rs, reply |-> [type |-> "ACK", seq |-> q.seq]]
        ELSE IF rg # <<>>
        THEN [rs |-> rs, reply |-> [type |-> "NACK", ranges |-> rg]]
        ELSE [rs |-> [rs EXCEPT !.idx  = nxt,
                                !.buf  = NextRecv(rs, nxt),
                                !.last = s.seq,
                                !.slots[k] = Complete(s)],
              reply |-> [type |-> "ACK", seq |-> s.seq]]

-----------------------------------------------------------------------------
(* The Writer's side.  A step of the Writer's threads works on a record    *)
(* st holding the Writer's own child, the repeat queue, the multicast      *)
(* channels and the ACK bookkeeping, so that the loopback calls made       *)
(* inside one handler compose in the order the code makes them.           *)

WSt == [own |-> rcv[Writer], q |-> repeatQueue, chans |-> toPeer,
        acked |-> ackReceived, nacks |-> numWriteAcks, to |-> timeouts]

ApplyWSt(st) ==
    /\ rcv'          = [rcv EXCEPT ![Writer] = st.own]
    /\ repeatQueue'  = st.q
    /\ toPeer'       = st.chans
    /\ ackReceived'  = st.acked
    /\ numWriteAcks' = st.nacks
    /\ timeouts'     = st.to

\* UDPConnection::write of a datagram that is dropped when the receiving
\* socket buffer is full.
Post(ch, m) == IF Len(ch) < ChanCap THEN Append(ch, m) ELSE ch

Multicast(chans, m) == [r \in Remotes |-> Post(chans[r], m)]

\* _addRepeat: one RepeatRequest::NACK per range.
NackReqs(rg) ==
    [i \in 1 .. Len(rg) |-> [type |-> "NACK", start |-> rg[i].start,
                                              end   |-> rg[i].end]]

\* _isCurrentSequenceWrite (the writer id is always the Writer here).
IsCurrent(sq) == sq = seqW % SeqIdMod

\* The writer is released once the ACK count reaches the child count.
AllAcked(n) == n = Cardinality(Children)

HandleAckNoDupCheck(st, r, sq, cur) ==
    IF sq # cur THEN st
    ELSE [st EXCEPT !.acked[r] = TRUE, !.nacks = @ + 1, !.to = 0,
                    !.q = IF AllAcked(st.nacks + 1)
                          THEN Append(@, [type |-> "DONE"]) ELSE @]

\* _handleAck for an ACK of sequence id sq from child r, the current write
\* having sequence id cur.
HandleAck(st, r, sq, cur) ==
    IF sq # cur \/ st.acked[r] THEN st
    ELSE [st EXCEPT !.acked[r] = TRUE,
                    !.nacks    = @ + 1,
                    !.to       = 0,
                    !.q        = IF AllAcked(st.nacks + 1)
                                 THEN Append(@, [type |-> "DONE"])
                                 ELSE @]

\* _sendDatagram( data, writeSeqID, k ) of write w: loopback delivery to the
\* Writer's own child (an early NACK goes straight to _addRepeat), then the
\* multicast.
SendDatagram(st, sq, k, w) ==
    LET d   == [type |-> "DATA", seq |-> sq, idx |-> k, pay |-> w]
        res == OnData(st.own, d)
    IN  [st EXCEPT !.own   = res.rs,
                   !.q     = @ \o NackReqs(res.nack),
                   !.chans = Multicast(@, d)]

\* _sendAckRequest: loopback _handleAckRequest (its ACK goes to _handleAck,
\* its NACK to _addRepeat), then the multicast.
SendAckRequest(st, sq, last) ==
    LET q   == [type |-> "ACKREQ", seq |-> sq, last |-> last]
        res == OnAckReq(st.own, q)
        st1 == [st EXCEPT !.own = res.rs]
        st2 == IF res.reply.type = "ACK"
               THEN HandleAck(st1, Writer, res.reply.seq, sq)
               ELSE [st1 EXCEPT !.q = @ \o NackReqs(res.reply.ranges)]
    IN  [st2 EXCEPT !.chans = Multicast(@, q)]

\* The fragment indices a sequence of ranges asks for, in sending order.
Indices(rg) ==
    FoldLeft(LAMBDA acc, r : acc \o [j \in 1 .. r.end - r.start + 1 |->
                                         r.start + j - 1],
             <<>>, rg)

\* _sendDatagram for every index of a list, in order.
SendAll(st, sq, ks, w) ==
    FoldLeft(LAMBDA acc, k : SendDatagram(acc, sq, k, w), st, ks)

\* _adaptSendRate: the step for errors out of n datagrams, with
\* error = 100 / n * errors compared against the thresholds.
AdaptSendRate(errors, n) ==
    CASE 100 * errors <=  1 * n -> 10
      [] 100 * errors <=  2 * n -> 1
      [] 100 * errors <=  3 * n -> -1
      [] 100 * errors <=  5 * n -> -5
      [] 100 * errors <= 20 * n -> -10
      [] OTHER                  -> -20

\* The merge of a NACK candidate in _handleRepeat: it widens the first
\* request it overlaps, else it is appended.
MergeInto(reqs, c) ==
    LET ov == {i \in 1 .. Len(reqs) : /\ reqs[i].start <= c.end
                                       /\ reqs[i].end >= c.start}
        i  == Min(ov)
    IN  IF ov = {} THEN Append(reqs, c)
        ELSE [reqs EXCEPT ![i] = [@ EXCEPT !.start = Min({@, c.start}),
                                           !.end   = Max({@, c.end})]]

-----------------------------------------------------------------------------
(* Initial state: the group is formed, every member knows every other one, *)
(* nothing has been written.                                               *)

Init ==
    /\ seqW = 0
    /\ nDatagrams = 0
    /\ lens = <<>>
    /\ wpc = "idle"
    /\ requests = <<>>
    /\ nRepeats = 0
    /\ rate = 0
    /\ repeatQueue = <<>>
    /\ ackReceived = [c \in Children |-> FALSE]
    /\ numWriteAcks = 0
    /\ writing = FALSE
    /\ timeouts = 0
    /\ netUp = TRUE
    /\ rcv = [c \in Children |-> InitChild]
    /\ delivered = [c \in Children |-> <<>>]
    /\ toPeer = [r \in Remotes |-> <<>>]
    /\ toWriter = <<>>

-----------------------------------------------------------------------------
(* The Writer's application thread: write() and _handleRepeat().           *)

\* write( buffer, bytes ) of n fragments: new sequence id, ack flags
\* cleared, every fragment sent, then the first ACKREQ.
Write ==
    /\ wpc = "idle"
    /\ seqW < MaxWrites
    /\ \E n \in 1 .. AckFreq :
        LET w   == seqW + 1
            sq  == w % SeqIdMod
            st0 == [WSt EXCEPT !.acked = [c \in Children |-> FALSE],
                               !.nacks = 0, !.to = 0]
            st1 == SendAll(st0, sq, [i \in 1 .. n |-> i - 1], w)
        IN  /\ ApplyWSt(SendAckRequest(st1, sq, n - 1))
            /\ seqW' = w
            /\ nDatagrams' = n
            /\ lens' = Append(lens, n)
            /\ writing' = TRUE
            /\ wpc' = "pop"
            /\ requests' = <<>>
            /\ nRepeats' = 0
            /\ UNCHANGED <<rate, netUp, delivered, toWriter>>

\* DONE popped (first loop or merge loop): _writing = false, return, and
\* write() adapts the send rate to nRepeats.
ReturnFromWrite ==
    /\ repeatQueue' = Tail(repeatQueue)
    /\ writing' = FALSE
    /\ wpc' = "idle"
    /\ requests' = <<>>
    /\ rate' = AdaptSendRate(nRepeats, nDatagrams)
    /\ UNCHANGED <<seqW, nDatagrams, lens, nRepeats, ackReceived,
                   numWriteAcks, timeouts, netUp, rcv, delivered, toPeer,
                   toWriter>>

PopDone ==
    /\ wpc = "pop"
    /\ repeatQueue # <<>>
    /\ Head(repeatQueue).type = "DONE"
    /\ ReturnFromWrite

PopAckReq ==
    /\ wpc = "pop"
    /\ repeatQueue # <<>>
    /\ Head(repeatQueue).type = "ACKREQ"
    /\ ApplyWSt(SendAckRequest([WSt EXCEPT !.q = Tail(@)],
                               seqW % SeqIdMod, nDatagrams - 1))
    /\ UNCHANGED <<seqW, nDatagrams, lens, wpc, requests, nRepeats, rate,
                   writing, netUp, delivered, toWriter>>

PopNack ==
    /\ wpc = "pop"
    /\ repeatQueue # <<>>
    /\ Head(repeatQueue).type = "NACK"
    /\ requests' = <<Head(repeatQueue)>>
    /\ repeatQueue' = Tail(repeatQueue)
    /\ wpc' = "merge"
    /\ UNCHANGED <<seqW, nDatagrams, lens, nRepeats, rate, ackReceived,
                   numWriteAcks, writing, timeouts, netUp, rcv, delivered,
                   toPeer, toWriter>>

MergeDone ==
    /\ wpc = "merge"
    /\ repeatQueue # <<>>
    /\ Head(repeatQueue).type = "DONE"
    /\ ReturnFromWrite

\* An ACKREQ met while merging is dropped: one is sent after the resend.
MergeSkipAckReq ==
    /\ wpc = "merge"
    /\ repeatQueue # <<>>
    /\ Head(repeatQueue).type = "ACKREQ"
    /\ repeatQueue' = Tail(repeatQueue)
    /\ UNCHANGED <<seqW, nDatagrams, lens, wpc, requests, nRepeats, rate,
                   ackReceived, numWriteAcks, writing, timeouts, netUp, rcv,
                   delivered, toPeer, toWriter>>

MergeNack ==
    /\ wpc = "merge"
    /\ repeatQueue # <<>>
    /\ Head(repeatQueue).type = "NACK"
    /\ requests' = MergeInto(requests, Head(repeatQueue))
    /\ repeatQueue' = Tail(repeatQueue)
    /\ UNCHANGED <<seqW, nDatagrams, lens, wpc, nRepeats, rate, ackReceived,
                   numWriteAcks, writing, timeouts, netUp, rcv, delivered,
                   toPeer, toWriter>>

\* The queue is drained: count the errors, adapt the rate, resend every
\* merged range, and re-request the ACK if nothing new was queued.
Resend ==
    /\ wpc = "merge"
    /\ repeatQueue = <<>>
    /\ LET sq     == seqW % SeqIdMod
           errors == FoldLeft(LAMBDA a, r : a + r.end - r.start + 1,
                              0, requests)
           st1    == SendAll(WSt, sq, Indices(requests), seqW)
           st2    == IF st1.q = <<>> THEN SendAckRequest(st1, sq, nDatagrams - 1)
                     ELSE st1
       IN  /\ ApplyWSt(st2)
           /\ nRepeats' = Min({nRepeats + Len(requests), RepeatCap})
           /\ rate' = AdaptSendRate(errors, nDatagrams)
    /\ requests' = <<>>
    /\ wpc' = "pop"
    /\ UNCHANGED <<seqW, nDatagrams, lens, writing, netUp, delivered, toWriter>>

-----------------------------------------------------------------------------
(* The Writer's network thread (_runReadThread).                           *)

\* The indices of a channel a receive may take: the head, or any datagram
\* when the network reorders.
Pick(ch) == IF Reorder THEN 1 .. Len(ch) ELSE 1 .. Min({1, Len(ch)})

\* _handleNack: ignored once that reader has ACKed or if it is not about
\* the current write; otherwise every range is queued.
HandleNack(st, m) ==
    IF st.acked[m.reader] \/ ~IsCurrent(m.seq) THEN st
    ELSE [st EXCEPT !.to = 0, !.q = @ \o NackReqs(m.ranges)]

WriterRecvAck ==
    /\ netUp
    /\ \E i \in Pick(toWriter) :
        /\ toWriter[i].type = "ACK"
        /\ toWriter' = RemoveAt(toWriter, i)
        /\ ApplyWSt(HandleAck(WSt, toWriter[i].reader, toWriter[i].seq,
                              seqW % SeqIdMod))
    /\ UNCHANGED <<seqW, nDatagrams, lens, wpc, requests, nRepeats, rate,
                   writing, netUp, delivered>>

WriterRecvNack ==
    /\ netUp
    /\ \E i \in Pick(toWriter) :
        /\ toWriter[i].type = "NACK"
        /\ toWriter' = RemoveAt(toWriter, i)
        /\ ApplyWSt(HandleNack(WSt, toWriter[i]))
    /\ UNCHANGED <<seqW, nDatagrams, lens, wpc, requests, nRepeats, rate,
                   writing, netUp, delivered>>

\* ++_timeouts; if( _timeouts >= 1000 ): the n-th timeout in a row is fatal.
IsFatalTimeoutOffByOne(n) == n > TimeoutLimit
IsFatalTimeout(n) == n >= TimeoutLimit

\* select() times out after 10 ms while writing with an empty repeat queue:
\* an ACKREQ request is queued for the writer thread ...
Timeout ==
    /\ netUp
    /\ writing
    /\ repeatQueue = <<>>
    /\ ~IsFatalTimeout(timeouts + 1)
    /\ timeouts' = timeouts + 1
    /\ repeatQueue' = <<[type |-> "ACKREQ"]>>
    /\ UNCHANGED <<seqW, nDatagrams, lens, wpc, requests, nRepeats, rate,
                   ackReceived, numWriteAcks, writing, netUp, rcv, delivered,
                   toPeer, toWriter>>

\* ... unless that was the 1000th in a row: the thread returns.
FatalTimeout ==
    /\ netUp
    /\ writing
    /\ repeatQueue = <<>>
    /\ IsFatalTimeout(timeouts + 1)
    /\ timeouts' = timeouts + 1
    /\ netUp' = FALSE
    /\ UNCHANGED <<seqW, nDatagrams, lens, wpc, requests, nRepeats, rate,
                   repeatQueue, ackReceived, numWriteAcks, writing, rcv,
                   delivered, toPeer, toWriter>>

-----------------------------------------------------------------------------
(* A remote peer's network thread, for the Writer's datagrams.             *)

\* A DATA datagram: reassembly, possibly an early NACK to the Writer.
PeerRecvData(r) ==
    \E i \in Pick(toPeer[r]) :
        LET m   == toPeer[r][i]
            res == OnData(rcv[r], m)
        IN  /\ m.type = "DATA"
            /\ toPeer' = [toPeer EXCEPT ![r] = RemoveAt(@, i)]
            /\ rcv' = [rcv EXCEPT ![r] = res.rs]
            /\ toWriter' = IF res.nack = <<>> THEN toWriter
                           ELSE Post(toWriter, [type |-> "NACK", reader |-> r,
                                                seq |-> m.seq,
                                                ranges |-> res.nack])
            /\ UNCHANGED <<writerVars, delivered>>

\* An ACKREQ: answered with an ACK or a NACK.
PeerRecvAckReq(r) ==
    \E i \in Pick(toPeer[r]) :
        LET m   == toPeer[r][i]
            res == OnAckReq(rcv[r], m)
        IN  /\ m.type = "ACKREQ"
            /\ toPeer' = [toPeer EXCEPT ![r] = RemoveAt(@, i)]
            /\ rcv' = [rcv EXCEPT ![r] = res.rs]
            /\ toWriter' = Post(toWriter,
                             IF res.reply.type = "ACK"
                             THEN [type |-> "ACK", reader |-> r,
                                   seq |-> res.reply.seq]
                             ELSE [type |-> "NACK", reader |-> r,
                                   seq |-> m.seq,
                                   ranges |-> res.reply.ranges])
            /\ UNCHANGED <<writerVars, delivered>>

-----------------------------------------------------------------------------
(* A child's reader thread: readSync() of a whole buffer.                  *)

\* readSync blocks until the read slot has ackSend set and allRead clear.
ReadReady(s) == s.ackSend /\ ~s.allRead

\* _readSync of the whole buffer: copy it out, clear got, advance the read
\* index, then drop the data and set allRead.
Read(c) ==
    LET rs == rcv[c]
        s  == rs.slots[rs.rd]
    IN  /\ ReadReady(s)
        /\ delivered' = [delivered EXCEPT ![c] = Append(@, Held(s))]
        /\ rcv' = [rcv EXCEPT
                     ![c].slots[rs.rd] = [s EXCEPT !.got = {}, !.size = 0,
                                                   !.allRead = TRUE],
                     ![c].rd = (rs.rd + 1) % NBuffers]
        /\ UNCHANGED <<writerVars, toPeer, toWriter>>

-----------------------------------------------------------------------------
(* UDP: any datagram may be lost (Lossy).                                 *)

LoseToPeer(r) ==
    /\ Lossy
    /\ \E i \in 1 .. Len(toPeer[r]) :
           toPeer' = [toPeer EXCEPT ![r] = RemoveAt(@, i)]
    /\ UNCHANGED <<writerVars, rcv, delivered, toWriter>>

LoseToWriter ==
    /\ Lossy
    /\ \E i \in 1 .. Len(toWriter) : toWriter' = RemoveAt(toWriter, i)
    /\ UNCHANGED <<writerVars, rcv, delivered, toPeer>>

-----------------------------------------------------------------------------
Next ==
    \/ Write
    \/ PopDone \/ PopAckReq \/ PopNack
    \/ MergeDone \/ MergeSkipAckReq \/ MergeNack \/ Resend
    \/ WriterRecvAck \/ WriterRecvNack \/ Timeout \/ FatalTimeout
    \/ \E r \in Remotes : PeerRecvData(r) \/ PeerRecvAckReq(r)
                          \/ LoseToPeer(r)
    \/ \E c \in Children : Read(c)
    \/ LoseToWriter

Spec == Init /\ [][Next]_vars

\* Fairness.  The Writer's application thread, blocked in _handleRepeat,
\* runs whenever a request is queued, and its network thread takes every
\* 10 ms timeout that stays due (weak fairness).  A datagram can be lost,
\* so a receive is only enabled again and again; a handler that keeps
\* being enabled runs (strong fairness).  write() and readSync() are the
\* application's calls and losses are the network's: neither is assumed.
FairSpec ==
    /\ Spec
    /\ WF_vars(PopDone) /\ WF_vars(PopAckReq) /\ WF_vars(PopNack)
    /\ WF_vars(MergeDone) /\ WF_vars(MergeSkipAckReq) /\ WF_vars(MergeNack)
    /\ WF_vars(Resend) /\ WF_vars(Timeout) /\ WF_vars(FatalTimeout)
    /\ SF_vars(WriterRecvAck) /\ SF_vars(WriterRecvNack)
    /\ \A r \in Remotes : SF_vars(PeerRecvData(r)) /\ SF_vars(PeerRecvAckReq(r))

-----------------------------------------------------------------------------
(* Properties.                                                             *)

Request == [type : {"DONE", "ACKREQ"}] \cup
           [type : {"NACK"}, start : Idx, end : Idx]

\* A DataReceive slot, field by field.
SlotOK(s) ==
    /\ DOMAIN s = {"seq", "ackSend", "allRead", "got", "frag", "size"}
    /\ s.seq \in 0 .. SeqIdMod - 1
    /\ s.ackSend \in BOOLEAN /\ s.allRead \in BOOLEAN
    /\ s.got \subseteq Idx
    /\ s.frag \in [Idx -> 0 .. MaxWrites]
    /\ s.size \in 0 .. AckFreq

TypeOK ==
    /\ seqW \in 0 .. MaxWrites
    /\ lens \in Seq(1 .. AckFreq) /\ Len(lens) = seqW
    /\ wpc \in {"idle", "pop", "merge"}
    /\ \A i \in 1 .. Len(repeatQueue) : repeatQueue[i] \in Request
    /\ \A i \in 1 .. Len(requests) : requests[i] \in Request
    /\ ackReceived \in [Children -> BOOLEAN]
    /\ numWriteAcks \in 0 .. Cardinality(Children)
    /\ timeouts \in 0 .. TimeoutLimit
    /\ DOMAIN rcv = Children
    /\ \A c \in Children :
        /\ DOMAIN rcv[c].slots = Slots
        /\ \A k \in Slots : SlotOK(rcv[c].slots[k])
        /\ rcv[c].buf \in Slots \cup {NoBuf}
        /\ rcv[c].idx \in Slots /\ rcv[c].rd \in Slots
        /\ rcv[c].last = NoAck \/ rcv[c].last \in 0 .. SeqIdMod - 1
    /\ \A r \in Remotes : Len(toPeer[r]) <= ChanCap
    /\ Len(toWriter) <= ChanCap

\* The byte stream (spec section 8, property 1): the i-th buffer any
\* child's readSync() hands to the application is exactly the i-th write.
\* Reassembly (_handleDataDatagram), slot recycling (_handleAckRequest,
\* _readSync) and retransmission must all agree for this to hold.
StreamIntegrity ==
    \A c \in Children :
        \A i \in 1 .. Len(delivered[c]) :
            i <= seqW /\ delivered[c][i] = Content(i)

\* write() returns only when every child holds the buffer: when the writer
\* thread is back from write w, each child's reader has consumed write w
\* or a completed, unread slot holds exactly its content.  This is what
\* the DONE request of _handleAck promises the writer thread.
ReturnMeansHeld ==
    wpc = "idle" /\ seqW > 0 =>
        \A c \in Children :
            \/ Len(delivered[c]) >= seqW
            \/ \E k \in Slots : LET s == rcv[c].slots[k]
                                IN  s.ackSend /\ ~s.allRead
                                    /\ Held(s) = Content(seqW)

\* readSync() waits for ackSend and then, separately, for allRead to be
\* clear; the network thread may change the slot between the two waits,
\* and Read takes both as one test.  The two agree because a slot whose
\* allRead is clear always has ackSend set: the reader that has passed
\* the second wait holds a complete buffer, whatever the first wait saw.
\* The completion in _handleAckRequest and the slot reuse of
\* _handleDataDatagram must keep it so.
UnreadIsComplete ==
    \A c \in Children, k \in Slots :
        ~rcv[c].slots[k].allRead => rcv[c].slots[k].ackSend

\* A buffer that is complete and not yet read (ackSend and not allRead) is
\* the reader's: the network thread never changes it, and it leaves that
\* state only by readSync() handing its exact content to the application.
\* The slot choice of _handleDataDatagram and the _recvBuffer update of
\* _handleAckRequest must both avoid such slots.
CompletedSlotStable ==
    [][\A c \in Children, k \in Slots :
         LET s == rcv[c].slots[k]
         IN  s.ackSend /\ ~s.allRead =>
                \/ rcv'[c].slots[k] = s
                \/ /\ rcv'[c].slots[k].allRead
                   /\ delivered'[c] = Append(delivered[c], Held(s))]_vars

\* A write() ends: once the Writer is writing, either _handleRepeat pops
\* DONE and returns, or the network thread gives up after TimeoutLimit
\* timeouts.  The NACK / resend / ACKREQ loop cannot spin forever with
\* the timeout count reset by every NACK.
WriteEnds == writing ~> (~writing \/ ~netUp)

\* write() returns (spec: on a fatal error the network thread "wakes all
\* blocked callers" and the writer reports a failure): _writing is
\* eventually cleared.
WriteReturns == writing ~> ~writing

=============================================================================
