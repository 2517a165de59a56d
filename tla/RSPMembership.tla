---------------------------- MODULE RSPMembership ----------------------------
(***************************************************************************)
(* Group membership of the Reliable Stream Protocol                        *)
(* (src/lib/net/rspConnection.cpp): how the listening RSPConnection of     *)
(* each peer picks a unique ID and learns the other members, and how it    *)
(* forgets one.                                                            *)
(*                                                                         *)
(* A peer goes through the phases of its network thread:                  *)
(*   "idle"       constructed, not listening (the ID is already random)   *)
(*   "acceptID"   _acceptID: HELLO every timeout, DENY on collision        *)
(*   "initRead"   _initReadThread: COUNTNODE every timeout                 *)
(*   "listening"  _runReadThread                                           *)
(*   "closed"     after close(), which multicast EXIT                     *)
(* Each datagram handler and each select() timeout is one atomic step.    *)
(*                                                                         *)
(* A member may also write(): its DATA, ACKREQ and the ACK and NACK        *)
(* replies share the sockets with the membership datagrams, and           *)
(* _handleData looks the sender up in _children before it does anything.  *)
(* The stream itself is reduced to one fragment per write, which a reader *)
(* either holds or not; RSPStream models it in full.  The network thread  *)
(* may end on such a datagram ("halted": a handler returned false),       *)
(* crash ("crashed": _handleNack dereferences a null child) or give up    *)
(* after RetryLimit timeouts during a write ("gaveUp").                   *)
(*                                                                         *)
(* Timing: select() waits 100 ms, far longer than a datagram takes to     *)
(* cross the LAN and be handled.  A timeout is therefore enabled only when *)
(* no datagram is waiting at any peer (Quiet).  Multicast loopback is off: *)
(* a peer never receives its own datagrams.                                *)
(***************************************************************************)
EXTENDS Integers, Sequences, FiniteSets, SequencesExt

CONSTANTS
    Peers,       \* the processes that create a listening RSPConnection
    IDs,         \* the values _rng.get<ID>() may return
    HelloLimit,  \* timeouts of _acceptID before CONFIRM (10 in the code)
    CountLimit,  \* timeouts of _initReadThread before listening (10)
    ChanCap,     \* datagrams a UDP socket buffer holds before dropping
    Lossy,       \* TRUE: the network may lose datagrams
    Reorder,     \* TRUE: the network may deliver datagrams out of order
    AllowClose,  \* TRUE: a listening peer may close()
    InitIDs,     \* the ID assignments the constructors may draw
    WriteLimit,  \* write() calls per peer
    RetryLimit   \* 10 ms timeouts of one write before giving up (1000)

ASSUME /\ IDs # {} /\ IDs \subseteq Nat
       /\ HelloLimit \in Nat \ {0} /\ CountLimit \in Nat \ {0}
       /\ ChanCap \in Nat \ {0}
       /\ {Lossy, Reorder, AllowClose} \subseteq BOOLEAN
       /\ InitIDs \subseteq [Peers -> IDs]
       /\ WriteLimit \in Nat /\ RetryLimit \in Nat \ {0}

Phases == {"idle", "acceptID", "initRead", "listening", "closed",
           "halted", "crashed", "gaveUp"}

\* The phases in which the network thread reads its socket.
Reading == {"acceptID", "initRead", "listening"}

\* The datagrams of section "Membership" of the wire format.
NodeMsg  == [type : {"HELLO", "DENY", "CONFIRM", "EXIT"}, x : IDs]
CountMsg == [type : {"COUNTNODE"}, x : IDs, n : Nat]

\* The stream datagrams: writer w, sequence s (DatagramData, DatagramAckRequest)
\* and reader r (DatagramAck, DatagramNack).
Seqs      == 1 .. WriteLimit
WriteMsg  == [type : {"DATA", "ACKREQ"}, w : IDs, s : Seqs]
ReplyMsg  == [type : {"ACK", "NACK"}, r : IDs, w : IDs, s : Seqs]
MemberTypes == {"HELLO", "DENY", "CONFIRM", "EXIT", "COUNTNODE"}

VARIABLES
    phase,      \* where each peer's network thread is
    id,         \* _id
    timeouts,   \* _timeouts
    children,   \* _children, as the sequence of their _writerID
    accepted,   \* _countAcceptChildren
    inbox,      \* datagrams waiting in each peer's UDP socket
    wseq,       \* _sequenceIDWrite
    writing,    \* a write() waits in _handleRepeat for its DONE
    acked,      \* the children whose _ackReceived is set
    numAcks,    \* _numWriteAcks
    got         \* got[p][w]: the last write of w that p's slot holds whole

streamVars == <<wseq, writing, acked, numAcks, got>>
vars == <<phase, id, timeouts, children, accepted, inbox, streamVars>>

-----------------------------------------------------------------------------
(* The work of one handler on one peer is done on a record               *)
(* [id, to, ch, out]: its _id, _timeouts, _children and the datagrams it  *)
(* multicasts, in order.                                                   *)

Local(p) == [id |-> id[p], to |-> timeouts[p], ch |-> children[p],
             out |-> <<>>]

Send(st, m) == [st EXCEPT !.out = Append(@, m)]

Node(t, x) == [type |-> t, x |-> x]

\* _findConnectionWithWriterID( x ) is valid.
Known(ch, x) == x \in ToSet(ch)

\* _sendDatagramCountNode: COUNTNODE{ _id, _children.size() }, sent only
\* once the peer is its own child.
SendCountNode(st) ==
    IF Known(st.ch, st.id)
    THEN Send(st, [type |-> "COUNTNODE", x |-> st.id, n |-> Len(st.ch)])
    ELSE st

CheckNewIDKnownOnly(st, x) ==
    IF Known(st.ch, x) THEN Send(st, Node("DENY", x)) ELSE st
\* _checkNewID: DENY an ID equal to ours, or to one of a known child.
CheckNewID(st, x) ==
    IF x = st.id THEN Send(st, Node("DENY", st.id))
    ELSE IF Known(st.ch, x) THEN Send(st, Node("DENY", x))
    ELSE st

\* _addNewConnection: a new child for an unknown ID, then COUNTNODE.
AddNewConnection(st, x) ==
    IF Known(st.ch, x) THEN st
    ELSE SendCountNode([st EXCEPT !.ch = Append(@, x)])

\* _acceptRemoveConnection, with its test as written: an EXIT from any ID
\* but our own only triggers a COUNTNODE; an EXIT carrying our own ID
\* erases the first child with that ID.
RemovesOwnIDOnly(st, x) == x = st.id
AcceptRemoveConnection(st, x) ==
    IF ~RemovesOwnIDOnly(st, x) THEN SendCountNode(st)
    ELSE LET i == SelectInSeq(st.ch, LAMBDA c : c = x)
         IN  SendCountNode(IF i = 0 THEN st
                           ELSE [st EXCEPT !.ch = RemoveAt(@, i)])

-----------------------------------------------------------------------------
(* The network.                                                           *)

\* The peers whose socket is open: they have called listen() and not
\* close().
Open == {q \in Peers : phase[q] \notin {"idle", "closed", "crashed"}}

\* UDP multicast from p of the datagrams ms, each dropped at a receiver
\* whose socket buffer is full.
Multicast(box, p, ms) ==
    [q \in Peers |->
        IF q = p \/ q \notin Open THEN box[q]
        ELSE FoldLeft(LAMBDA b, m : IF Len(b) < ChanCap THEN Append(b, m)
                                    ELSE b,
                      box[q], ms)]

\* The indices of p's socket a receive may take.
Pick(p) == IF Reorder THEN 1 .. Len(inbox[p])
           ELSE 1 .. Min({1, Len(inbox[p])})

\* No datagram waits at a thread that reads: the only time a timer can
\* expire.
Quiet == \A q \in Peers : phase[q] \in Reading => inbox[q] = <<>>

\* ++_timeouts on a select() timeout.
TickLost(st) == st
Tick(st) == [st EXCEPT !.to = @ + 1]

\* p's step leaves it in local state st and phase ph; box is the network
\* before p's multicast.
Commit(p, box, st, ph) ==
    /\ phase' = [phase EXCEPT ![p] = ph]
    /\ id' = [id EXCEPT ![p] = st.id]
    /\ timeouts' = [timeouts EXCEPT ![p] = st.to]
    /\ children' = [children EXCEPT ![p] = st.ch]
    /\ inbox' = Multicast(box, p, st.out)
    /\ UNCHANGED <<accepted, streamVars>>

-----------------------------------------------------------------------------
(* Initial state: every RSPConnection constructed, its ID drawn by        *)
(* _buildNewID, no child, nothing on the network.                         *)

Init ==
    /\ phase = [p \in Peers |-> "idle"]
    /\ id \in InitIDs
    /\ timeouts = [p \in Peers |-> 0]
    /\ children = [p \in Peers |-> <<>>]
    /\ accepted = [p \in Peers |-> 0]
    /\ inbox = [p \in Peers |-> <<>>]
    /\ wseq = [p \in Peers |-> 0]
    /\ writing = [p \in Peers |-> FALSE]
    /\ acked = [p \in Peers |-> {}]
    /\ numAcks = [p \in Peers |-> 0]
    /\ got = [p \in Peers |-> [x \in IDs |-> 0]]

-----------------------------------------------------------------------------
(* listen() and _acceptID.                                                *)

\* listen(): the UDP socket joins the group and the thread's init runs
\* _acceptID, which multicasts the first HELLO.
Listen(p) ==
    /\ phase[p] = "idle"
    /\ Commit(p, inbox, Send([Local(p) EXCEPT !.to = 0], Node("HELLO", id[p])),
              "acceptID")

AcceptTimeoutNoSelf(p) ==
    /\ phase[p] = "acceptID"
    /\ Quiet
    /\ LET st == Tick(Local(p))
       IN  IF st.to < HelloLimit
           THEN Commit(p, inbox, Send(st, Node("HELLO", st.id)), "acceptID")
           ELSE Commit(p, inbox, [Send(st, Node("CONFIRM", st.id))
                                     EXCEPT !.to = 0], "initRead")
AcceptTimeoutOffByOne(p) ==
    /\ phase[p] = "acceptID"
    /\ Quiet
    /\ LET st == Tick(Local(p))
       IN  IF st.to <= HelloLimit
           THEN Commit(p, inbox, Send(st, Node("HELLO", st.id)), "acceptID")
           ELSE LET st1 == AddNewConnection(Send(st, Node("CONFIRM", st.id)),
                                            st.id)
                IN  Commit(p, inbox, [SendCountNode(st1) EXCEPT !.to = 0],
                           "initRead")
\* A 100 ms timeout of _acceptID: HELLO again, or after HelloLimit of them
\* CONFIRM, become our own child, and go on to _initReadThread, which
\* sends COUNTNODE and clears the count.
AcceptTimeout(p) ==
    /\ phase[p] = "acceptID"
    /\ Quiet
    /\ LET st == Tick(Local(p))
       IN  IF st.to < HelloLimit
           THEN Commit(p, inbox, Send(st, Node("HELLO", st.id)), "acceptID")
           ELSE LET st1 == AddNewConnection(Send(st, Node("CONFIRM", st.id)),
                                            st.id)
                IN  Commit(p, inbox, [SendCountNode(st1) EXCEPT !.to = 0],
                           "initRead")

\* _handleAcceptID: HELLO is checked, a DENY of our ID draws a new one and
\* announces it, EXIT goes to _acceptRemoveConnection; CONFIRM and
\* COUNTNODE are ignored.
AcceptRecv(p) ==
    /\ phase[p] = "acceptID"
    /\ \E i \in Pick(p) :
        LET m   == inbox[p][i]
            box == [inbox EXCEPT ![p] = RemoveAt(@, i)]
            st  == Local(p)
        IN  CASE m.type = "HELLO" ->
                   Commit(p, box, CheckNewID(st, m.x), "acceptID")
              [] m.type = "DENY" /\ m.x = st.id ->
                   \E new \in IDs :
                       Commit(p, box, Send([st EXCEPT !.to = 0, !.id = new],
                                           Node("HELLO", new)), "acceptID")
              [] m.type = "EXIT" ->
                   Commit(p, box, AcceptRemoveConnection(st, m.x), "acceptID")
              [] OTHER -> Commit(p, box, st, "acceptID")

-----------------------------------------------------------------------------
(* _initReadThread.                                                       *)

\* A timeout: COUNTNODE again, or after CountLimit of them the thread
\* starts _runReadThread and listen() returns.
InitTimeout(p) ==
    /\ phase[p] = "initRead"
    /\ Quiet
    /\ LET st == Tick(Local(p))
       IN  IF st.to < CountLimit
           THEN Commit(p, inbox, SendCountNode(st), "initRead")
           ELSE Commit(p, inbox, st, "listening")

\* _handleInitData.  A COUNTNODE agreeing with our child count (and more
\* than one child) sets _timeouts to 20, so the next timeout ends the
\* phase; one from an unknown peer adds it.
InitRecv(p) ==
    /\ phase[p] = "initRead"
    /\ \E i \in Pick(p) :
        LET m   == inbox[p][i]
            box == [inbox EXCEPT ![p] = RemoveAt(@, i)]
            st  == Local(p)
        IN  CASE m.type = "HELLO" ->
                   Commit(p, box, CheckNewID([st EXCEPT !.to = 0], m.x),
                          "initRead")
              [] m.type = "CONFIRM" ->
                   Commit(p, box, AddNewConnection([st EXCEPT !.to = 0], m.x),
                          "initRead")
              [] m.type = "COUNTNODE" /\ Len(st.ch) = m.n /\ Len(st.ch) > 1 ->
                   Commit(p, box, [st EXCEPT !.to = CountLimit], "initRead")
              [] m.type = "COUNTNODE" /\ ~(Len(st.ch) = m.n /\ Len(st.ch) > 1)
                                      /\ ~Known(st.ch, m.x) ->
                   Commit(p, box, AddNewConnection([st EXCEPT !.to = 0], m.x),
                          "initRead")
              [] m.type = "EXIT" ->
                   Commit(p, box, AcceptRemoveConnection(st, m.x), "initRead")
              [] OTHER -> Commit(p, box, st, "initRead")

-----------------------------------------------------------------------------
(* _runReadThread, acceptSync() and close().                              *)

\* _handleData for the membership datagrams.  A COUNTNODE carrying our
\* own child count is taken to mean we know everyone; DENY is ignored.
RunRecv(p) ==
    /\ phase[p] = "listening"
    /\ \E i \in Pick(p) :
        LET m   == inbox[p][i]
            box == [inbox EXCEPT ![p] = RemoveAt(@, i)]
            st  == Local(p)
        IN  /\ m.type \in MemberTypes
            /\ CASE m.type = "HELLO" ->
                   Commit(p, box, CheckNewID(st, m.x), "listening")
              [] m.type = "CONFIRM" ->
                   Commit(p, box, AddNewConnection(st, m.x), "listening")
              [] m.type = "EXIT" ->
                   Commit(p, box, AcceptRemoveConnection(st, m.x), "listening")
              [] m.type = "COUNTNODE" /\ Len(st.ch) # m.n ->
                   Commit(p, box, AddNewConnection(st, m.x), "listening")
              [] OTHER -> Commit(p, box, st, "listening")

-----------------------------------------------------------------------------
(* write() and the stream datagrams in _runReadThread.                    *)

Data(x, sq)   == [type |-> "DATA", w |-> x, s |-> sq]
AckReq(x, sq) == [type |-> "ACKREQ", w |-> x, s |-> sq]

\* The DONE test of _handleAck: _numWriteAcks == _children.size().
AllAcked(p, n) == n = Len(children[p])

\* _handleData ends the network thread: a handler returned false.
Halt(p, box) ==
    /\ phase' = [phase EXCEPT ![p] = "halted"]
    /\ inbox' = box
    /\ UNCHANGED <<id, timeouts, children, accepted, streamVars>>

\* The datagram is handled without a change of state.
Drop(p, box) ==
    /\ inbox' = box
    /\ UNCHANGED <<phase, id, timeouts, children, accepted, streamVars>>

\* write(): _timeouts and _numWriteAcks cleared, ++_sequenceIDWrite, every
\* _ackReceived cleared, the DATA multicast (_sendDatagram also hands it
\* to our own child), _writing set, then _sendAckRequest: the loopback
\* _handleAckRequest finds our own slot complete and its ACK is counted by
\* _handleAck at once; the ACKREQ is multicast.  With only ourselves as a
\* child the DONE is pushed there and write() returns.
Write(p) ==
    /\ phase[p] = "listening"
    /\ ~writing[p]
    /\ wseq[p] < WriteLimit
    /\ LET sq   == wseq[p] + 1
           self == IF Known(children[p], id[p]) THEN {id[p]} ELSE {}
       IN  /\ wseq' = [wseq EXCEPT ![p] = sq]
           /\ acked' = [acked EXCEPT ![p] = self]
           /\ numAcks' = [numAcks EXCEPT ![p] = Cardinality(self)]
           /\ writing' = [writing EXCEPT ![p] =
                              ~AllAcked(p, Cardinality(self))]
           /\ timeouts' = [timeouts EXCEPT ![p] = 0]
           /\ inbox' = Multicast(inbox, p, <<Data(id[p], sq),
                                             AckReq(id[p], sq)>>)
    /\ UNCHANGED <<phase, id, children, accepted, got>>

\* A 10 ms timeout while writing with an empty _repeatQueue: ++_timeouts,
\* and at RetryLimit the thread returns; else the ACKREQ request, which
\* _handleRepeat turns into _sendAckRequest (the loopback ACK is already
\* counted).
WriteTimeout(p) ==
    /\ phase[p] = "listening"
    /\ writing[p]
    /\ Quiet
    /\ timeouts' = [timeouts EXCEPT ![p] = @ + 1]
    /\ IF timeouts[p] + 1 >= RetryLimit
       THEN /\ phase' = [phase EXCEPT ![p] = "gaveUp"]
            /\ UNCHANGED inbox
       ELSE /\ inbox' = Multicast(inbox, p, <<AckReq(id[p], wseq[p])>>)
            /\ UNCHANGED phase
    /\ UNCHANGED <<id, children, accepted, streamVars>>

\* _handleDataDatagram: a writer missing from _children ends the thread
\* (EQUNREACHABLE; return false).  Otherwise the fragment completes the
\* slot of its write; an older write's fragment is stale and dropped.
RecvData(p, m, box) ==
    IF ~Known(children[p], m.w) THEN Halt(p, box)
    ELSE /\ got' = [got EXCEPT ![p][m.w] = Max({@, m.s})]
         /\ inbox' = box
         /\ UNCHANGED <<phase, id, timeouts, children, accepted,
                        wseq, writing, acked, numAcks>>

HoldsOffByOne(p, x, sq) == got[p][x] >= sq - 1
\* _findReceiverWithSequenceID finds a complete slot for write sq of x.
Holds(p, x, sq) == got[p][x] >= sq

\* _handleAckRequest: an unknown writer ends the thread; a slot holding
\* the write (or a later one, the older slot still in the ring) is
\* ACKed, any other case is NACKed.  Both replies are multicast.
RecvAckReq(p, m, box) ==
    IF ~Known(children[p], m.w) THEN Halt(p, box)
    ELSE /\ inbox' = Multicast(box, p,
                        <<[type |-> IF Holds(p, m.w, m.s) THEN "ACK" ELSE "NACK",
                           r |-> id[p], w |-> m.w, s |-> m.s]>>)
         /\ UNCHANGED <<phase, id, timeouts, children, accepted, streamVars>>

\* _handleAck: ignored unless it is for our current write; an unknown
\* reader ends the thread; a reader counted already is ignored; else it is
\* counted, _timeouts cleared, and DONE pushed when the count reaches the
\* number of children.
RecvAck(p, m, box) ==
    IF m.w # id[p] \/ m.s # wseq[p] THEN Drop(p, box)
    ELSE IF ~Known(children[p], m.r) THEN Halt(p, box)
    ELSE IF m.r \in acked[p] THEN Drop(p, box)
    ELSE /\ acked' = [acked EXCEPT ![p] = @ \cup {m.r}]
         /\ numAcks' = [numAcks EXCEPT ![p] = @ + 1]
         /\ writing' = [writing EXCEPT ![p] =
                            IF AllAcked(p, numAcks[p] + 1) THEN FALSE ELSE @]
         /\ timeouts' = [timeouts EXCEPT ![p] = 0]
         /\ inbox' = box
         /\ UNCHANGED <<phase, id, children, accepted, wseq, got>>

\* _handleNack reads connection->_ackReceived before it tests the child
\* for validity: a NACK from a reader missing from _children dereferences
\* a null pointer and the process dies with its socket.  Otherwise it is
\* ignored when that reader has ACKed or when it is not for our current
\* write; else _timeouts is cleared and the repeat is queued, which
\* _handleRepeat resends, followed by an ACKREQ.
RecvNack(p, m, box) ==
    IF ~Known(children[p], m.r)
    THEN /\ phase' = [phase EXCEPT ![p] = "crashed"]
         /\ inbox' = [box EXCEPT ![p] = <<>>]
         /\ UNCHANGED <<id, timeouts, children, accepted, streamVars>>
    ELSE IF m.r \in acked[p] \/ m.w # id[p] \/ m.s # wseq[p]
    THEN Drop(p, box)
    ELSE /\ timeouts' = [timeouts EXCEPT ![p] = 0]
         /\ inbox' = Multicast(box, p, <<Data(id[p], m.s), AckReq(id[p], m.s)>>)
         /\ UNCHANGED <<phase, id, children, accepted, streamVars>>

\* _handleData for the stream datagrams of a listening peer.
StreamRecv(p) ==
    /\ phase[p] = "listening"
    /\ \E i \in Pick(p) :
        LET m   == inbox[p][i]
            box == [inbox EXCEPT ![p] = RemoveAt(@, i)]
        IN  \/ m.type = "DATA"   /\ RecvData(p, m, box)
            \/ m.type = "ACKREQ" /\ RecvAckReq(p, m, box)
            \/ m.type = "ACK"    /\ RecvAck(p, m, box)
            \/ m.type = "NACK"   /\ RecvNack(p, m, box)

\* acceptSync(): hand the next child to the application, then COUNTNODE.
Accept(p) ==
    /\ phase[p] = "listening"
    /\ accepted[p] < Len(children[p])
    /\ accepted' = [accepted EXCEPT ![p] = @ + 1]
    /\ inbox' = Multicast(inbox, p, SendCountNode(Local(p)).out)
    /\ UNCHANGED <<phase, id, timeouts, children, streamVars>>

\* close() of a listening connection: EXIT, the thread is joined, the
\* socket closed.  _children is left as it is.
Close(p) ==
    /\ AllowClose
    /\ phase[p] = "listening"
    /\ phase' = [phase EXCEPT ![p] = "closed"]
    /\ inbox' = Multicast([inbox EXCEPT ![p] = <<>>], p,
                          <<Node("EXIT", id[p])>>)
    /\ UNCHANGED <<id, timeouts, children, accepted, streamVars>>

\* UDP loses a datagram.
Lose(p) ==
    /\ Lossy
    /\ \E i \in 1 .. Len(inbox[p]) : inbox' = [inbox EXCEPT ![p] = RemoveAt(@, i)]
    /\ UNCHANGED <<phase, id, timeouts, children, accepted, streamVars>>

Next ==
    \E p \in Peers :
        \/ Listen(p) \/ AcceptTimeout(p) \/ AcceptRecv(p)
        \/ InitTimeout(p) \/ InitRecv(p)
        \/ RunRecv(p) \/ Accept(p) \/ Close(p)
        \/ Write(p) \/ WriteTimeout(p) \/ StreamRecv(p)
        \/ Lose(p)

Spec == Init /\ [][Next]_vars

\* Fairness.  A network thread that has a datagram waiting handles it
\* (weak fairness).  select() times out whenever 100 ms pass without a
\* datagram, so a timer that is enabled again and again, each time the
\* network falls quiet, fires (strong fairness).  listen(), acceptSync()
\* and close() are the application's calls and are not assumed to happen.
FairSpec ==
    /\ Spec
    /\ \A p \in Peers :
        /\ WF_vars(AcceptRecv(p)) /\ WF_vars(InitRecv(p)) /\ WF_vars(RunRecv(p))
        /\ WF_vars(StreamRecv(p))
        /\ SF_vars(AcceptTimeout(p)) /\ SF_vars(InitTimeout(p))
        /\ SF_vars(WriteTimeout(p))

-----------------------------------------------------------------------------
(* Properties.                                                             *)

\* The most _timeouts can be in each phase: _acceptID confirms on the
\* HelloLimit-th timeout, _initReadThread leaves on the timeout after
\* CountLimit, a write gives up on the RetryLimit-th.
TimeoutsBound(p) ==
    CASE phase[p] = "acceptID"  -> HelloLimit - 1
      [] phase[p] = "initRead"  -> CountLimit
      [] phase[p] = "gaveUp"    -> RetryLimit
      [] writing[p]             -> RetryLimit - 1
      [] OTHER                  -> CountLimit + 1

\* Types, with each peer's _timeouts within what its phase allows.
TypeOK ==
    /\ phase \in [Peers -> Phases]
    /\ id \in [Peers -> IDs]
    /\ \A p \in Peers : timeouts[p] \in 0 .. TimeoutsBound(p)
    /\ children \in [Peers -> Seq(IDs)]
    /\ accepted \in [Peers -> Nat]
    /\ \A p \in Peers : /\ Len(inbox[p]) <= ChanCap
                         /\ ToSet(inbox[p]) \subseteq
                                NodeMsg \cup CountMsg \cup WriteMsg \cup ReplyMsg
    /\ wseq \in [Peers -> 0 .. WriteLimit]
    /\ writing \in [Peers -> BOOLEAN]
    /\ \A p \in Peers : acked[p] \subseteq IDs /\ numAcks[p] \in Nat
    /\ got \in [Peers -> [IDs -> 0 .. WriteLimit]]

\* Every peer has joined, the application has accepted every child with
\* acceptSync() (each call of which multicasts a COUNTNODE), and no
\* datagram is on its way: nothing is left that could change _children.
Members == {p \in Peers : phase[p] = "listening"}
Quiescent ==
    /\ \A p \in Peers : phase[p] \in {"listening", "closed"}
    /\ \A p \in Members : accepted[p] = Len(children[p])
    /\ \A p \in Peers : inbox[p] = <<>>

\* Spec section 8, property 4: once the joins have settled, the peers that
\* are members hold pairwise distinct IDs.  The DENY handshake of
\* _checkNewID and _handleAcceptID must resolve every collision.
UniqueIDs ==
    Quiescent => \A p, q \in Members : p # q => id[p] # id[q]

\* Once the joins and leaves have settled, every member's _children holds
\* exactly the IDs of the members (section 4.2: late joiners converge,
\* EXIT removes).  This is what write() relies on when it waits for an
\* ACK from every child.
QuiescentAgreement ==
    Quiescent => \A p \in Members : ToSet(children[p]) = {id[q] : q \in Members}

\* Every peer that calls listen() gets through _acceptID and
\* _initReadThread, so that listen() returns (the joins terminate).
JoinCompletes ==
    \A p \in Peers : phase[p] = "acceptID" ~> phase[p] \in {"listening", "closed"}

\* write() returns only when every child holds the buffer: when _writing
\* is cleared (or a write finishes inside write()), each of the writer's
\* children is a peer whose slot holds that write.  The ACK of a reader
\* that does not hold it, an ACK counted for the wrong reader or write,
\* or a child count that shrank under the counter would break it.
DoneMeansHeld ==
    [][\A p \in Peers :
         (/\ ~writing'[p] /\ wseq'[p] > 0
          /\ writing[p] \/ wseq'[p] # wseq[p]) =>
            \A c \in ToSet(children'[p]) \ {id[p]} :
                \E q \in Peers : id[q] = c /\ got'[q][id[p]] >= wseq'[p]]_vars

\* Spec section 4.3: DATA from a sender not yet discovered is dropped, and
\* discovery adds the sender later; section 9 calls a datagram from an
\* unknown sender a protocol violation, not a failure.  The network thread
\* of a member never ends, nor its process dies, because of a stream
\* datagram from a peer missing from its _children.
NetThreadSurvives == \A p \in Peers : phase[p] \notin {"halted", "crashed"}

====
