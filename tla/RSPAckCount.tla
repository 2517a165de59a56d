----------------------------- MODULE RSPAckCount -----------------------------
(***************************************************************************)
(* The ACK barrier of RSPConnection::write() at the grain of its shared    *)
(* memory accesses (src/lib/net/rspConnection.cpp).                        *)
(*                                                                         *)
(* _handleAck runs on two threads: on the Writer's application thread,     *)
(* for the loopback ACK of its own child (_sendAckRequest ->               *)
(* _handleAckRequest -> _sendAck -> _handleAck), and on the network        *)
(* thread for every ACK datagram.  It tests the sequence id, tests and     *)
(* sets the reader's _ackReceived, increments _numWriteAcks and compares   *)
(* it with the child count, with no lock; write() clears the same fields   *)
(* while the network thread runs.  Each read or write of a shared field    *)
(* is one step here; ++_numWriteAcks is a load and a store, the outcomes   *)
(* a data race can have.                                                   *)
(*                                                                         *)
(* Locked = TRUE adds a mutex around write()'s reset and each _handleAck,  *)
(* the atomicity RSPStream assumes; the code has none (Locked = FALSE).    *)
(*                                                                         *)
(* The network thread is modelled at the grain of its loop              *)
(* (_runReadThread): it reads _writing, then whether _repeatQueue is      *)
(* empty, to choose between a 10 ms poll and an unbounded wait, and then  *)
(* blocks in select() until a datagram, an interrupt() or the timeout.    *)
(* A timeout queues an ACKREQ request, which the application thread pops  *)
(* to repeat the ACKREQ; write() and the repeat interrupt the select so   *)
(* that the timeout is chosen again.  ConnectionSet is not part of the    *)
(* repository: its interrupt() is the wake pipe of the spec, a flag that  *)
(* stays set until a select() returns EVENT_INTERRUPT.                    *)
(*                                                                         *)
(* Fragments and NACKs are left out (RSPStream has them).  A remote that  *)
(* receives an ACKREQ holds that buffer and ACKs it; every repeated       *)
(* ACKREQ is ACKed again, so an ACK can arrive late.  UDP loses at most   *)
(* LossLimit datagrams.                                                   *)
(***************************************************************************)
EXTENDS Integers, Sequences, FiniteSets

CONSTANTS
    Writer,       \* the sending peer; its own loopback child has this id
    Remotes,      \* the other children
    MaxWrites,    \* bound on the number of write() calls
    Locked,       \* TRUE: write()'s reset and _handleAck are mutually exclusive
    TimeoutLimit, \* the fatal count of consecutive timeouts (1000 in the code)
    LossLimit     \* bound on the datagrams the network loses

ASSUME /\ Writer \notin Remotes
       /\ MaxWrites \in Nat \ {0}
       /\ Locked \in BOOLEAN
       /\ TimeoutLimit \in Nat \ {0}
       /\ LossLimit \in Nat

Children == {Writer} \cup Remotes
Threads  == {"app", "net"}
Ack      == [reader : Children, seq : 1 .. MaxWrites]
AckReq   == [to : Remotes, seq : 1 .. MaxWrites]
NoAck    == [reader |-> Writer, seq |-> 0]

VARIABLES
    seq,      \* _sequenceIDWrite
    n,        \* _numWriteAcks
    acked,    \* acked[c]: child c's _ackReceived
    queue,    \* _repeatQueue: "DONE" and "ACKREQ" requests
    writing,  \* _writing
    timeouts, \* _timeouts
    wpc,      \* write(): "idle", "inc", "reset", "flag", "ackreq",
              \* "multicast", "pop"; repeating an ACKREQ: "reqack",
              \* "remulticast"
    pending,  \* children whose _ackReceived write() has still to clear
    hpc,      \* hpc[t]: where thread t is in _handleAck ("none" outside)
    msg,      \* msg[t]: the ACK thread t is handling
    tmp,      \* tmp[t]: the value of _numWriteAcks t loaded
    npc,      \* the network thread: "top", "arm", "wait", or "down"
    rw,       \* the value of _writing it read at "top"
    poll,     \* TRUE: its select() has the 10 ms timeout, FALSE: none
    intr,     \* an interrupt() not yet returned by a select()
    reqs,     \* the ACKREQ datagrams in flight
    inflight, \* the ACK datagrams in flight
    lost,     \* the datagrams lost so far
    sent      \* the ACK datagrams remotes have sent (history)

vars == <<seq, n, acked, queue, writing, timeouts, wpc, pending, hpc, msg,
          tmp, npc, rw, poll, intr, reqs, inflight, lost, sent>>

\* The variables of the network thread's loop and of the network.
loopVars == <<npc, rw, poll, intr, reqs, inflight, lost>>

\* Thread t is inside a section the mutex (if any) covers.
InSection(t) ==
    \/ hpc[t] # "none"
    \/ t = "app" /\ wpc \in {"inc", "reset"}

\* Thread t may enter a section: nobody else is in one.
MayEnter(t) == ~Locked \/ \A u \in Threads \ {t} : ~InSection(u)

Init ==
    /\ seq = 0
    /\ n = 0
    /\ acked = [c \in Children |-> FALSE]
    /\ queue = <<>>
    /\ writing = FALSE
    /\ timeouts = 0
    /\ wpc = "idle"
    /\ pending = {}
    /\ hpc = [t \in Threads |-> "none"]
    /\ msg = [t \in Threads |-> NoAck]
    /\ tmp = [t \in Threads |-> 0]
    /\ npc = "top"
    /\ rw = FALSE
    /\ poll = FALSE
    /\ intr = FALSE
    /\ reqs = {}
    /\ inflight = {}
    /\ lost = 0
    /\ sent = {}

-----------------------------------------------------------------------------
(* _handleAck, one shared access per step.                                *)

\* Thread t leaves _handleAck.
Finish(t) ==
    /\ hpc' = [hpc EXCEPT ![t] = "none"]
    /\ msg' = [msg EXCEPT ![t] = NoAck]

\* _isCurrentSequenceWrite( ack->sequenceID, ack->writerID ).
CheckSeq(t) ==
    /\ hpc[t] = "seq"
    /\ IF msg[t].seq = seq THEN /\ hpc' = [hpc EXCEPT ![t] = "flag"]
                                /\ UNCHANGED msg
                           ELSE Finish(t)
    /\ UNCHANGED <<seq, n, acked, queue, writing, timeouts, wpc, pending, tmp,
                   loopVars, sent>>

\* if( connection->_ackReceived ) return true;
CheckFlag(t) ==
    /\ hpc[t] = "flag"
    /\ IF acked[msg[t].reader] THEN Finish(t)
       ELSE /\ hpc' = [hpc EXCEPT ![t] = "set"]
            /\ UNCHANGED msg
    /\ UNCHANGED <<seq, n, acked, queue, writing, timeouts, wpc, pending, tmp,
                   loopVars, sent>>

\* connection->_ackReceived = true;
SetFlag(t) ==
    /\ hpc[t] = "set"
    /\ acked' = [acked EXCEPT ![msg[t].reader] = TRUE]
    /\ hpc' = [hpc EXCEPT ![t] = "load"]
    /\ UNCHANGED <<seq, n, queue, writing, timeouts, wpc, pending, msg, tmp,
                   loopVars, sent>>

\* ++_numWriteAcks: the load ...
LoadCount(t) ==
    /\ hpc[t] = "load"
    /\ tmp' = [tmp EXCEPT ![t] = n]
    /\ hpc' = [hpc EXCEPT ![t] = "store"]
    /\ UNCHANGED <<seq, n, acked, queue, writing, timeouts, wpc, pending, msg,
                   loopVars, sent>>

\* ... and the store; then _timeouts = 0.
StoreCount(t) ==
    /\ hpc[t] = "store"
    /\ n' = tmp[t] + 1
    /\ timeouts' = 0
    /\ hpc' = [hpc EXCEPT ![t] = "cmp"]
    /\ UNCHANGED <<seq, acked, queue, writing, wpc, pending, msg, tmp,
                   loopVars, sent>>

CompareCountOffByOne(t) ==
    /\ hpc[t] = "cmp"
    /\ queue' = IF n > Cardinality(Children) THEN Append(queue, "DONE")
                 ELSE queue
    /\ Finish(t)
    /\ UNCHANGED <<seq, n, acked, writing, timeouts, wpc, pending, tmp,
                   loopVars, sent>>

\* if( _numWriteAcks != _children.size() ) return; else push DONE.
CompareCount(t) ==
    /\ hpc[t] = "cmp"
    /\ queue' = IF n = Cardinality(Children) THEN Append(queue, "DONE")
                 ELSE queue
    /\ Finish(t)
    /\ UNCHANGED <<seq, n, acked, writing, timeouts, wpc, pending, tmp,
                   loopVars, sent>>

HandlerStep(t) ==
    \/ CheckSeq(t) \/ CheckFlag(t) \/ SetFlag(t)
    \/ LoadCount(t) \/ StoreCount(t) \/ CompareCount(t)

-----------------------------------------------------------------------------
(* The Writer's application thread: write() and _handleRepeat.            *)

ZeroLost ==
    /\ wpc = "idle"
    /\ seq < MaxWrites
    /\ MayEnter("app")
    /\ timeouts' = 0
    /\ wpc' = "inc"
    /\ UNCHANGED <<seq, n, acked, queue, writing, pending, hpc, msg, tmp,
                   loopVars, sent>>

\* _timeouts = 0; _numWriteAcks = 0.
Zero ==
    /\ wpc = "idle"
    /\ seq < MaxWrites
    /\ MayEnter("app")
    /\ timeouts' = 0
    /\ n' = 0
    /\ wpc' = "inc"
    /\ UNCHANGED <<seq, acked, queue, writing, pending, hpc, msg, tmp,
                   loopVars, sent>>

\* ++_sequenceIDWrite.
IncSeq ==
    /\ wpc = "inc"
    /\ seq' = seq + 1
    /\ pending' = Children
    /\ wpc' = "reset"
    /\ UNCHANGED <<n, acked, queue, writing, timeouts, hpc, msg, tmp,
                   loopVars, sent>>

\* The loop clearing each child's _ackReceived, in _children's order.
ResetFlag ==
    /\ wpc = "reset"
    /\ \E c \in pending :
        /\ acked' = [acked EXCEPT ![c] = FALSE]
        /\ pending' = pending \ {c}
    /\ wpc' = IF pending' = {} THEN "flag" ELSE "reset"
    /\ UNCHANGED <<seq, n, queue, writing, timeouts, hpc, msg, tmp,
                   loopVars, sent>>

SetWritingNoInterrupt ==
    /\ wpc = "flag"
    /\ writing' = TRUE
    /\ wpc' = "ackreq"
    /\ UNCHANGED <<seq, n, acked, queue, timeouts, pending, hpc, msg, tmp,
                   loopVars, sent>>

\* _writing = true; _connectionSet.interrupt().
SetWriting ==
    /\ wpc = "flag"
    /\ writing' = TRUE
    /\ intr' = TRUE
    /\ wpc' = "ackreq"
    /\ UNCHANGED <<seq, n, acked, queue, timeouts, pending, hpc, msg, tmp,
                   npc, rw, poll, reqs, inflight, lost, sent>>

\* _sendAckRequest, from write() or for a queued ACKREQ: the loopback
\* ACK of the Writer's own child is handled on this thread ...
LoopbackAck ==
    /\ wpc \in {"ackreq", "reqack"}
    /\ MayEnter("app")
    /\ hpc' = [hpc EXCEPT !["app"] = "seq"]
    /\ msg' = [msg EXCEPT !["app"] = [reader |-> Writer, seq |-> seq]]
    /\ wpc' = IF wpc = "ackreq" THEN "multicast" ELSE "remulticast"
    /\ UNCHANGED <<seq, n, acked, queue, writing, timeouts, pending, tmp,
                   loopVars, sent>>

MulticastAckReqNoInterrupt ==
    /\ wpc \in {"multicast", "remulticast"}
    /\ hpc["app"] = "none"
    /\ reqs' = reqs \cup {[to |-> r, seq |-> seq] : r \in Remotes}
    /\ wpc' = "pop"
    /\ UNCHANGED <<seq, n, acked, queue, writing, timeouts, pending, hpc, msg,
                   tmp, npc, rw, poll, intr, inflight, lost, sent>>

\* ... then the ACKREQ is multicast, and _handleRepeat blocks in pop();
\* a repeated ACKREQ is followed by _connectionSet.interrupt().
MulticastAckReq ==
    /\ wpc \in {"multicast", "remulticast"}
    /\ hpc["app"] = "none"
    /\ reqs' = reqs \cup {[to |-> r, seq |-> seq] : r \in Remotes}
    /\ intr' = (intr \/ wpc = "remulticast")
    /\ wpc' = "pop"
    /\ UNCHANGED <<seq, n, acked, queue, writing, timeouts, pending, hpc, msg,
                   tmp, npc, rw, poll, inflight, lost, sent>>

\* _repeatQueue.pop() returns DONE: _writing = false, write() returns.
PopDone ==
    /\ wpc = "pop"
    /\ queue # <<>>
    /\ Head(queue) = "DONE"
    /\ queue' = Tail(queue)
    /\ writing' = FALSE
    /\ wpc' = "idle"
    /\ UNCHANGED <<seq, n, acked, timeouts, pending, hpc, msg, tmp,
                   loopVars, sent>>

\* _repeatQueue.pop() returns ACKREQ: the ACKREQ is sent again.
PopAckReq ==
    /\ wpc = "pop"
    /\ queue # <<>>
    /\ Head(queue) = "ACKREQ"
    /\ queue' = Tail(queue)
    /\ wpc' = "reqack"
    /\ UNCHANGED <<seq, n, acked, writing, timeouts, pending, hpc, msg, tmp,
                   loopVars, sent>>

-----------------------------------------------------------------------------
(* The Writer's network thread (_runReadThread).                          *)

\* timeOut = ( _writing && _repeatQueue.isEmpty( )) ? 10 : -1, read as
\* two loads: _writing first ...
ReadWriting ==
    /\ npc = "top"
    /\ hpc["net"] = "none"
    /\ rw' = writing
    /\ npc' = "arm"
    /\ UNCHANGED <<seq, n, acked, queue, writing, timeouts, wpc, pending, hpc,
                   msg, tmp, poll, intr, reqs, inflight, lost, sent>>

\* ... then the queue.
ReadQueue ==
    /\ npc = "arm"
    /\ poll' = (rw /\ queue = <<>>)
    /\ npc' = "wait"
    /\ UNCHANGED <<seq, n, acked, queue, writing, timeouts, wpc, pending, hpc,
                   msg, tmp, rw, intr, reqs, inflight, lost, sent>>

\* select() returns EVENT_INTERRUPT: loop.
SelectInterrupt ==
    /\ npc = "wait"
    /\ intr
    /\ intr' = FALSE
    /\ npc' = "top"
    /\ UNCHANGED <<seq, n, acked, queue, writing, timeouts, wpc, pending, hpc,
                   msg, tmp, rw, poll, reqs, inflight, lost, sent>>

\* select() returns EVENT_DATA: _handleData of an ACK datagram.
NetRecv(a) ==
    /\ npc = "wait"
    /\ a \in inflight
    /\ MayEnter("net")
    /\ inflight' = inflight \ {a}
    /\ hpc' = [hpc EXCEPT !["net"] = "seq"]
    /\ msg' = [msg EXCEPT !["net"] = a]
    /\ npc' = "top"
    /\ UNCHANGED <<seq, n, acked, queue, writing, timeouts, wpc, pending, tmp,
                   rw, poll, intr, reqs, lost, sent>>

\* select() returns EVENT_TIMEOUT (10 ms, no interrupt pending):
\* ++_timeouts, and the thread returns at the limit, else an ACKREQ
\* request is queued.
Timeout ==
    /\ npc = "wait"
    /\ poll
    /\ ~intr
    /\ timeouts' = timeouts + 1
    /\ IF timeouts + 1 >= TimeoutLimit
          THEN /\ npc' = "down" /\ UNCHANGED queue
          ELSE /\ npc' = "top"  /\ queue' = Append(queue, "ACKREQ")
    /\ UNCHANGED <<seq, n, acked, writing, wpc, pending, hpc, msg, tmp,
                   rw, poll, intr, reqs, inflight, lost, sent>>

NetStep == ReadWriting \/ ReadQueue \/ SelectInterrupt \/ Timeout
           \/ \E a \in Ack : NetRecv(a)

-----------------------------------------------------------------------------
(* The remotes, and the network.                                          *)

\* _handleAckRequest of a remote that holds the buffer: (repeat) ACK.
RemoteAck(q) ==
    /\ q \in reqs
    /\ reqs' = reqs \ {q}
    /\ inflight' = inflight \cup {[reader |-> q.to, seq |-> q.seq]}
    /\ sent' = sent \cup {[reader |-> q.to, seq |-> q.seq]}
    /\ UNCHANGED <<seq, n, acked, queue, writing, timeouts, wpc, pending, hpc,
                   msg, tmp, npc, rw, poll, intr, lost>>

LoseAckReq ==
    /\ lost < LossLimit
    /\ \E q \in reqs : reqs' = reqs \ {q}
    /\ lost' = lost + 1
    /\ UNCHANGED <<seq, n, acked, queue, writing, timeouts, wpc, pending, hpc,
                   msg, tmp, npc, rw, poll, intr, inflight, sent>>

LoseAck ==
    /\ lost < LossLimit
    /\ \E a \in inflight : inflight' = inflight \ {a}
    /\ lost' = lost + 1
    /\ UNCHANGED <<seq, n, acked, queue, writing, timeouts, wpc, pending, hpc,
                   msg, tmp, npc, rw, poll, intr, reqs, sent>>

AppStep ==
    \/ Zero \/ IncSeq \/ ResetFlag \/ SetWriting \/ LoopbackAck
    \/ MulticastAckReq \/ PopDone \/ PopAckReq

Next ==
    \/ AppStep
    \/ \E t \in Threads : HandlerStep(t)
    \/ NetStep
    \/ \E q \in AckReq : RemoteAck(q)
    \/ LoseAckReq \/ LoseAck

Spec == Init /\ [][Next]_vars

\* Once write() is called its thread keeps running, each thread finishes
\* the _handleAck it is in, and the network thread takes a step whenever
\* select() has something to return (weak fairness).  A datagram in
\* flight may be lost, so a receive is fair only if one stays possible
\* again and again (strong fairness); losses are bounded by LossLimit.
\* write() itself is the application's call and is not assumed.
FairSpec ==
    /\ Spec
    /\ WF_vars(IncSeq \/ ResetFlag \/ SetWriting \/ LoopbackAck
               \/ MulticastAckReq \/ PopDone \/ PopAckReq)
    /\ \A t \in Threads : WF_vars(HandlerStep(t))
    /\ WF_vars(ReadWriting \/ ReadQueue \/ SelectInterrupt \/ Timeout)
    /\ SF_vars(\E a \in Ack : NetRecv(a))
    /\ SF_vars(\E q \in AckReq : RemoteAck(q))

-----------------------------------------------------------------------------
(* Properties.                                                             *)

TypeOK ==
    /\ seq \in 0 .. MaxWrites
    /\ n \in 0 .. Cardinality(Children)
    /\ acked \in [Children -> BOOLEAN]
    /\ \A i \in 1 .. Len(queue) : queue[i] \in {"DONE", "ACKREQ"}
    /\ writing \in BOOLEAN
    /\ timeouts \in 0 .. TimeoutLimit
    /\ wpc \in {"idle", "inc", "reset", "flag", "ackreq", "multicast", "pop",
                "reqack", "remulticast"}
    /\ pending \subseteq Children
    /\ hpc \in [Threads -> {"none", "seq", "flag", "set", "load", "store", "cmp"}]
    /\ msg \in [Threads -> Ack \cup {NoAck}]
    /\ npc \in {"top", "arm", "wait", "down"}
    /\ rw \in BOOLEAN /\ poll \in BOOLEAN /\ intr \in BOOLEAN
    /\ reqs \subseteq AckReq /\ inflight \subseteq Ack /\ sent \subseteq Ack
    /\ lost \in 0 .. LossLimit

\* write() returns only when every remote child holds the buffer: when
\* _handleRepeat pops a DONE, each remote has ACKed the current write.  A
\* DONE pushed twice, or a late ACK of the previous write counted for
\* this one, would let write() return early.
ReturnOnlyWhenAcked ==
    [][PopDone => \A r \in Remotes : [reader |-> r, seq |-> seq] \in sent]_vars

\* _numWriteAcks counts the children whose _ackReceived is set: whenever
\* no thread is inside _handleAck and write() is not between its reset of
\* the count and of the flags, the two agree.  An increment lost between
\* the load and the store of two handlers, or a flag set by a late ACK
\* after write() cleared it, breaks the agreement, and with it the DONE
\* test of _handleAck.
AckCountMatchesFlags ==
    (/\ \A t \in Threads : hpc[t] = "none"
     /\ wpc \notin {"inc", "reset"}) =>
        n = Cardinality({c \in Children : acked[c]})

\* No lost wakeup between the threads: while write() waits in
\* _handleRepeat with nothing queued, a network thread blocked in a
\* select() without timeout has an interrupt pending.  Otherwise only a
\* datagram wakes it, and if the ACKREQ or its ACK is lost, no timeout
\* ever repeats the ACKREQ.  The interrupts of write() and of the ACKREQ
\* repeat must cover every order of the two loads of the timeout choice
\* and the application thread's steps.
NoLostWakeup ==
    (/\ wpc = "pop" /\ writing /\ queue = <<>>
     /\ npc = "wait" /\ ~poll) => intr

\* A write() blocked in _handleRepeat returns, unless the network thread
\* has given up after TimeoutLimit timeouts: _numWriteAcks reaches the
\* child count with no increment lost, and lost datagrams are repeated
\* by timeouts.
WriteReturns == wpc = "pop" ~> (wpc = "idle" \/ npc = "down")

=============================================================================
