------------------------------ MODULE RSPRepeat ------------------------------
(***************************************************************************)
(* The writer's repeat loop, RSPConnection::_handleRepeat                  *)
(* (src/lib/net/rspConnection.cpp), for one write of NDatagrams fragments: *)
(* enough fragments for several NACK ranges to meet, which the stream      *)
(* model RSPStream (two fragments per write) cannot reach.                 *)
(*                                                                         *)
(* The network thread fills _repeatQueue: _addRepeat pushes each range of  *)
(* a NACK as its own request, a timeout pushes an ACKREQ, and the last     *)
(* ACK pushes DONE.  Readers and datagrams are left out: a range may be    *)
(* any run of fragment indices, since different readers miss different    *)
(* fragments.  The application thread pops, merges and resends; what it    *)
(* resends is recorded, and so is every error count it hands to            *)
(* _adaptSendRate.                                                         *)
(***************************************************************************)
EXTENDS Integers, Sequences, FiniteSets

CONSTANTS
    NDatagrams, \* _nDatagrams of the write
    MaxPushes   \* bound on the requests the network thread pushes

ASSUME /\ NDatagrams \in Nat \ {0}
       /\ MaxPushes \in Nat

Idx   == 0 .. NDatagrams - 1
Range == {r \in [start : Idx, end : Idx] : r.start <= r.end}

\* RepeatRequest: DONE, ACKREQ, or NACK with a fragment range.
Nack(r) == [type |-> "NACK", start |-> r.start, end |-> r.end]
Done    == [type |-> "DONE", start |-> 0, end |-> 0]
AckReq  == [type |-> "ACKREQ", start |-> 0, end |-> 0]

VARIABLES
    queue,     \* _repeatQueue
    pushes,    \* the requests pushed so far
    doneSent,  \* the network thread has pushed DONE
    pc,        \* "pop": the first loop; "merge": the merge loop; "ret"
    requests,  \* the local vector of merged NACK ranges
    round,     \* the NACK ranges popped since the last resend (history)
    nRepeats,  \* the count write() passes to _adaptSendRate at the end
    adapted,   \* the arguments of every _adaptSendRate call, in order
    resent     \* the fragment indices of every _sendDatagram, in order

vars == <<queue, pushes, doneSent, pc, requests, round, nRepeats, adapted,
          resent>>

Init ==
    /\ queue = <<>>
    /\ pushes = 0
    /\ doneSent = FALSE
    /\ pc = "pop"
    /\ requests = <<>>
    /\ round = {}
    /\ nRepeats = 0
    /\ adapted = <<>>
    /\ resent = <<>>

-----------------------------------------------------------------------------
(* The network thread.                                                     *)

Push(q) ==
    /\ ~doneSent
    /\ pushes < MaxPushes
    /\ queue' = Append(queue, q)
    /\ pushes' = pushes + 1
    /\ UNCHANGED <<pc, requests, round, nRepeats, adapted, resent>>

\* _addRepeat: one range of a NACK datagram.
AddRepeat == \E r \in Range : Push(Nack(r)) /\ UNCHANGED doneSent

\* The 10 ms timeout of _runReadThread.
PushAckReq == Push(AckReq) /\ UNCHANGED doneSent

\* _handleAck, once every child has ACKed.
PushDone == Push(Done) /\ doneSent' = TRUE

-----------------------------------------------------------------------------
(* The application thread.                                                 *)

\* The DONE case of either loop: _writing = false; return nRepeats, and
\* write() calls _adaptSendRate( nRepeats ).
Return ==
    /\ queue' = Tail(queue)
    /\ adapted' = Append(adapted, nRepeats)
    /\ pc' = "ret"
    /\ UNCHANGED <<pushes, doneSent, requests, round, nRepeats, resent>>

\* First loop, while requests is empty: pop and dispatch.
PopRequest ==
    /\ pc = "pop"
    /\ queue # <<>>
    /\ LET q == Head(queue) IN
       \/ q.type = "DONE" /\ Return
       \/ /\ q.type = "ACKREQ"
          /\ queue' = Tail(queue)
          /\ UNCHANGED <<pushes, doneSent, pc, requests, round, nRepeats,
                         adapted, resent>>
       \/ /\ q.type = "NACK"
          /\ queue' = Tail(queue)
          /\ requests' = <<[start |-> q.start, end |-> q.end]>>
          /\ round' = {[start |-> q.start, end |-> q.end]}
          /\ pc' = "merge"
          /\ UNCHANGED <<pushes, doneSent, nRepeats, adapted, resent>>

\* The candidate is folded into the first overlapping request, or
\* appended when none overlaps.
MergeFirst(reqs, c) ==
    LET ov == {i \in 1 .. Len(reqs) : /\ reqs[i].start <= c.end
                                       /\ reqs[i].end >= c.start}
        i  == CHOOSE j \in ov : \A k \in ov : j <= k
    IN  IF ov = {} THEN Append(reqs, c)
        ELSE [reqs EXCEPT ![i] =
                 [start |-> IF c.start < @.start THEN c.start ELSE @.start,
                  end   |-> IF c.end > @.end THEN c.end ELSE @.end]]

\* Merge loop, while the queue is not empty.
MergeRequest ==
    /\ pc = "merge"
    /\ queue # <<>>
    /\ LET q == Head(queue)
           c == [start |-> q.start, end |-> q.end]
       IN
       \/ q.type = "DONE" /\ Return
       \/ /\ q.type = "ACKREQ"
          /\ queue' = Tail(queue)
          /\ UNCHANGED <<pushes, doneSent, pc, requests, round, nRepeats,
                         adapted, resent>>
       \/ /\ q.type = "NACK"
          /\ queue' = Tail(queue)
          /\ requests' = MergeFirst(requests, c)
          /\ round' = round \cup {c}
          /\ UNCHANGED <<pushes, doneSent, pc, nRepeats, adapted, resent>>

\* The fragments of a sequence of ranges, in the order they are resent.
RECURSIVE Fragments(_)
Fragments(rs) ==
    IF rs = <<>> THEN <<>>
    ELSE [i \in 1 .. Head(rs).end - Head(rs).start + 1 |->
              Head(rs).start + i - 1] \o Fragments(Tail(rs))

\* The queue is drained: sum the errors, count the ranges in nRepeats,
\* adapt the rate, resend every range, and (the queue being empty) send
\* the ACKREQ again; then back to the first loop.
Resend ==
    /\ pc = "merge"
    /\ queue = <<>>
    /\ adapted' = Append(adapted, Len(Fragments(requests)))
    /\ nRepeats' = nRepeats + Len(requests)
    /\ resent' = resent \o Fragments(requests)
    /\ requests' = <<>>
    /\ round' = {}
    /\ pc' = "pop"
    /\ UNCHANGED <<queue, pushes, doneSent>>

Next ==
    \/ AddRepeat \/ PushAckReq \/ PushDone
    \/ PopRequest \/ MergeRequest \/ Resend

Spec == Init /\ [][Next]_vars

-----------------------------------------------------------------------------
(* Properties.                                                             *)

Overlap(a, b) == a.start <= b.end /\ b.start <= a.end

\* The spec's merge (section 4.3): any two ranges that intersect become
\* their union, until no two intersect.
RECURSIVE UnionMerge(_)
UnionMerge(S) ==
    IF \E a, b \in S : a # b /\ Overlap(a, b)
    THEN LET p == CHOOSE p \in S \X S : p[1] # p[2] /\ Overlap(p[1], p[2])
             u == [start |-> IF p[1].start < p[2].start THEN p[1].start
                             ELSE p[2].start,
                   end   |-> IF p[1].end > p[2].end THEN p[1].end
                             ELSE p[2].end]
         IN  UnionMerge((S \ {p[1], p[2]}) \cup {u})
    ELSE S

\* When the merge loop finds the queue empty, the ranges _handleRepeat is
\* about to resend are the union-merge of the NACK ranges it popped in
\* this round (spec 4.3: overlapping NACKs become their union, so no
\* fragment is sent twice in one round).
MergedIsUnion ==
    pc = "merge" /\ queue = <<>> =>
        {requests[i] : i \in 1 .. Len(requests)} = UnionMerge(round)

=============================================================================
