# TLA+ models of Collage's Reliable Stream Protocol

This directory holds the model-checking project for the RSP connection in
`src/lib/net/rspConnection.cpp`. RSP is a reliable, ordered byte stream over
UDP multicast. The repository's other sources (`objectCM.h`, `nullCM.h`,
`observer.h`, `nodeOCommand.h`, `sequel/detail/node.cpp`) are interfaces,
stubs or forwarding calls with no protocol of their own (see "Not modelled").

## 1. The system

### Parts and how they interact

A group of peers shares one multicast address. Each peer has one
*listening* `RSPConnection`. The listener also owns one *child*
`RSPConnection` per known member, and one of these children is the peer
itself. A child holds the receive state for the stream sent by that member.

| Part | Code | State | Operations |
|---|---|---|---|
| Send path | `write` 1214-1287, `_sendDatagram` 1471-1505, `_sendAckRequest` 1507-1517 | `_sequenceIDWrite`, `_nDatagrams`, `_writing`, `_numWriteAcks`, the children's `_ackReceived` | split one buffer into `_nDatagrams` DATA fragments; multicast them; send an ACKREQ; block in `_handleRepeat` |
| Repeat handling | `_handleRepeat` 1289-1390 | `_repeatQueue`, a thread-safe FIFO shared with the network thread; the local `requests` and `nRepeats` | pop DONE (return), ACKREQ (re-send it) or NACK; merge overlapping NACKs; resend the merged ranges; re-request the ACK |
| Reassembler | `_handleDataDatagram` 743-862, `_findReceiverWithSequenceID` 1131-1142 | per child: a ring of `_nBuffers = 4` `DataReceive` slots (`sequenceID`, `ackSend`, `allRead`, `got[]`, `data`), plus `_recvBuffer`, `_recvBufferIndex` and `_lastSequenceIDAck` | choose a slot; drop stale datagrams; store the fragment; send an early NACK for the gap before it |
| ACK state machine | `_handleAckRequest` 973-1109, `_handleAck` 864-913, `_handleNack` 915-957, `_addRepeat` 959-971 | as above | answer an ACKREQ with a re-ACK, a NACK of the missing runs, or an ACK that hands the slot to the reader and moves the receive index on; count ACKs and push DONE; queue NACK ranges |
| Reader | `readSync` 349-367, `_readSync` 613-657 | `_readBufferIndex`, the slot's `posRead` | wait for a complete slot; copy it out; clear `got`; advance; set `allRead` |
| Rate controller | `_adaptSendRate` 1392-1410 | the transport's send rate | one step of +10/+1/-1/-5/-10/-20 per cent from the error ratio |
| Event loop | `_runReadThread` 554-611, `_handleData` 659-741 | `_timeouts`, `_connection` | dispatch one datagram; on a 10 ms timeout while writing with an empty queue, push an ACKREQ; at the 1000th timeout in a row, exit |
| Membership | `listen`, `_acceptID`, `_handleAcceptID`, `_initReadThread`, `_handleInitData`, `_checkNewID`, `_addNewConnection`, `_acceptRemoveConnection`, COUNTNODE in `_handleData` | `_id`, `_children`, `_state` | HELLO/DENY ID negotiation; CONFIRM; COUNTNODE gossip; EXIT |
| Shutdown | `close` 133-172 | `_state`, the slots | send EXIT, join the thread, reset the slots |

**Threads.** Each peer runs:

- an application writer thread, which runs `write` and `_handleRepeat`;
- one network thread, which runs every datagram handler and the timeouts;
- an application reader thread, which runs `readSync`.

**Loopback.** On the writer, `_sendDatagram` and `_sendAckRequest` call
`_handleDataDatagram` and `_handleAckRequest` directly, *on the writer
thread*, for the writer's own child. An ACK to oneself goes straight to
`_handleAck`, and a NACK to oneself goes straight to `_addRepeat`.
Multicast loopback on the socket is assumed to be off, because the writer's
own child is served only this way.

### Behaviours that make it hard

- Every datagram may be lost. The network may also reorder datagrams, which
  the spec (section 4.1) expects.
- A full socket buffer drops datagrams.
- Timeouts re-send the ACKREQ. Re-ACKs and late ACKs and NACKs of an earlier
  write arrive at any time.
- The writer's own child is updated on two threads.
- The ring of four slots fills when a reader is slow.
- The sequence id is 16 bits wide.

Every one of these is listed, at the line where it bites, under "hazards" in
`PROJECT.json`.

### Properties the system should have

- **Stream integrity** (spec section 8, property 1): the i-th buffer every
  reader gets is exactly the i-th write.
- **write() returns only when every child holds the buffer** (what DONE
  promises).
- **A completed, unread buffer is never changed** until its reader consumes
  it. This is what the comment at lines 790-794 and spec property 6 ask for.
- **Every write eventually returns** under fair delivery (spec property 5).
  **A fatal timeout wakes the blocked writer** (spec section 7).
- **ACK idempotence** (spec property 2), **unique IDs at quiescence** (spec
  property 4), and **an EXIT removes the member** (spec scenario 6).

## 2. Modules

| Module | Models | Status |
|---|---|---|
| `RSPStream.tla` | One writer's stream to every child: send path, repeat handling, reassembler, ACK state machine, reader, timeouts, and the rate step | written |
| `MCRSPStream.tla` | Model-checking instance of `RSPStream` (`SeqIdMod` = 2^16) | written |
| `RSPMembership.tla` | Joining and leaving: listen(), HELLO/DENY/CONFIRM, COUNTNODE, EXIT, acceptSync() and close() on every peer | written |
| `MCRSPMembership.tla` | Model-checking instance of `RSPMembership`: peer model values and the ID assignments | written |
| `RSPAckCount.tla` | The writer's two threads split into their shared-memory steps. It covers `_handleAck` on the network thread and on the application thread (loopback `_sendAck`), and write()'s resets of `_numWriteAcks`, `_sequenceIDWrite` and `_ackReceived`. It also covers the network thread's loop: the two loads that choose the select() timeout, select() with the interrupt() wake pipe, the timeouts and the ACKREQ repeats, with bounded loss. Its cfgs give the constants directly | written |
| `RSPRepeat.tla` | `_handleRepeat` on one write of `NDatagrams` fragments: the network thread's pushes to `_repeatQueue` (NACK ranges, ACKREQ, DONE) and the writer's pop, merge, error count and resend loop | written |
| `StreamSpec.tla` | Abstract stream: each write is held by every child and read in order; `MCRSPStream` maps `RSPStream` onto it (`StreamRefined`) | written |

### How RSPStream corresponds to the code

**State.**

- `seqW`, `nDatagrams`, `writing`, `timeouts`, `numWriteAcks`,
  `ackReceived` and `repeatQueue` are the listener's fields of the same
  name.
- `wpc` is where the writer thread is: idle, blocked in the first loop of
  `_handleRepeat` ("pop"), or in its merge loop ("merge").
- `requests` and `nRepeats` are `_handleRepeat`'s locals.
- `rcv[c]` is child `c`'s ring and its `_recvBuffer` (`buf`, -1 for null),
  `_recvBufferIndex` (`idx`), `_readBufferIndex` (`rd`) and
  `_lastSequenceIDAck` (`last`).
- `netUp` is FALSE once `_runReadThread` has returned.
- `toPeer` and `toWriter` are the UDP channels.
- `delivered` and `lens` are history: what each reader got and how many
  fragments each write had.

**Data abstraction.** A fragment's payload is the number of the write it
belongs to, so a buffer's content is a sequence of write numbers. A mixed or
short buffer is therefore visible.

**Actions.** Each action is one whole handler, with the calls it makes
composed in code order:

- `Write` runs `write()` through its first `_sendAckRequest`, including the
  loopback reassembly and ACK/NACK of each fragment.
- `PopDone`, `PopAckReq` and `PopNack` are the first loop of
  `_handleRepeat`.
- `MergeDone`, `MergeSkipAckReq` and `MergeNack` are its merge loop.
- `Resend` is the error count, the rate step, the resends and the
  re-request.
- `WriterRecvAck`, `WriterRecvNack`, `Timeout` and `FatalTimeout` are the
  writer's network thread.
- `PeerRecvData` and `PeerRecvAckReq` are a remote peer's network thread.
- `Read` is `readSync`. Its two waits, first for `ackSend` and then for
  `allRead` to clear, are taken as one test. That is sound only while no
  slot is reused between the two waits, which the pass runs guarantee
  (no more writes than slots). With a third write it is not: the overrun
  of finding 1 clears `ackSend` of an unread slot, and `UnreadIsComplete`
  (whenever `allRead` is clear, `ackSend` is set) fails on
  `MCRSPStreamOverrun.cfg`.
- `LoseToPeer` and `LoseToWriter` are UDP losses.

The handlers themselves are the operators `OnData`, `OnAckReq`,
`HandleAck` and `HandleNack`. The loss scan of `_handleAckRequest` is the
RECURSIVE operator `NackRanges`. `PROJECT.json` "map" gives the lines of
every definition.

### The refinement

`StreamSpec` says what one sender's stream promises, with no datagrams,
slots or acknowledgements:

- `StartWrite` adds a buffer of 1 to `AckFreq` fragments. The children in
  a set S hold it at once: these are the Writer's own child, served inside
  write().
- `Receive(c)`: child c comes to hold the next write, in order.
- `Return`: write() returns once every child holds the buffer.
- `Fail`: the network thread gives up.
- `Read(c)`: c's reader takes the next held buffer, exactly as written.

`MCRSPStream` maps the code onto it:

- `lens`, `delivered` and `writing`/`netUp` map to `lens`, `delivered`
  and `busy`/`up`.
- `held[c]` is the number of buffers c's reader has taken plus the
  complete, unread slots of its ring (`HeldCount`).

A slot completed by `_handleAckRequest` is a `Receive`, and a `readSync`
moves a buffer from the ring to `delivered` while `held` stays the same.
The refinement therefore fails as soon as:

- a child completes a write out of order, twice, or with the wrong
  fragments;
- a completed buffer is lost;
- write() returns early.

It holds under the bounds of `stream_fifo`, which checks it beside the
invariants. Reordering (finding 2) and a third
write (finding 1) break it, as they break the invariants.

### How RSPMembership corresponds to the code

**State**, per peer:

- `phase` is where the connection is: idle (constructed), in `_acceptID`,
  in `_initReadThread`, listening (`_runReadThread`, `STATE_LISTENING`), or
  closed.
- `id`, `timeouts`, `children` and `accepted` are `_id`, `_timeouts`, the
  writer IDs of `_children` in order, and `_countAcceptChildren`.
- `inbox[p]` is p's UDP socket buffer, at most `ChanCap` datagrams.

**Actions.** Each one is a whole handler with the calls it makes, using the
operators `CheckNewID`, `AddNewConnection` (which ends in `SendCountNode`),
`AcceptRemoveConnection` and `SendCountNode`:

- `Listen` is `listen()` up to the first HELLO of `_acceptID`.
- `AcceptTimeout` and `AcceptRecv` are the two branches of `_acceptID`'s
  select (the latter is `_handleAcceptID`). The HelloLimit-th timeout sends
  CONFIRM, adds the peer itself, and runs the first COUNTNODE of
  `_initReadThread`.
- `InitTimeout` and `InitRecv` are `_initReadThread` and `_handleInitData`,
  including the `_timeouts = 20` short cut when counts agree (`CountLimit`).
- `RunRecv` is the membership cases of `_handleData`.
- `Accept` is `acceptSync()`.
- `Close` is `close()` of a listening connection.
- `Lose` is UDP loss, enabled when `Lossy`.

**The stream datagrams.** A listening member may also `Write` (at most
`WriteLimit` times), so that DATA, ACKREQ, ACK and NACK share the sockets
with the membership datagrams. The stream is reduced to one fragment per
write: `got[p][w]` is the last write of writer w that p's slot holds whole,
`acked`/`numAcks` are `_ackReceived` and `_numWriteAcks`, `wseq` is
`_sequenceIDWrite` and `writing` is `_writing`.

- `Write` is `write()`: the resets, the DATA, `_writing`, and
  `_sendAckRequest` with its loopback ACK counted at once.
- `WriteTimeout` is the 10 ms timeout of `_runReadThread` while writing:
  another ACKREQ, or at `RetryLimit` the thread gives up (`gaveUp`).
- `StreamRecv` is the stream cases of `_handleData` in the listening phase:
  `RecvData`, `RecvAckReq`, `RecvAck` and `RecvNack`. A handler that
  returns false for a peer missing from `_children` ends the thread
  (`halted`); a NACK from such a peer dereferences a null child and the
  process dies (`crashed`). `_acceptID` and `_initReadThread` ignore these
  datagrams, as their handlers do.

The retransmission after a NACK (`_addRepeat`, then `_handleRepeat`) is one
step with the NACK. `RSPStream` models the stream in full; here it only has
to say who holds which write.

A new random ID (`_buildNewID`) is any member of `IDs`. Multicast loopback
is off, as the code expects: a peer never receives its own datagrams.

**Timing.** The 100 ms select timeouts are modelled by one assumption: a
timeout fires only when no datagram is waiting at any peer (`Quiet`). 100 ms
is far longer than a datagram takes on a LAN. Without this assumption, a
peer could time out ten times while a DENY sat unread in its buffer, and
the model would report collisions that need a 1 s delay.

### How RSPAckCount corresponds to the code

Each step is one load or store of a shared field, or one outcome of
select().
- `Zero`, `IncSeq`, `ResetFlag` and `SetWriting` are the top of write()
  (lines 1229-1265).
- `LoopbackAck` and `MulticastAckReq` are `_sendAckRequest`, called from
  write() or, after `PopAckReq`, from `_handleRepeat`. The repeat
  interrupts the select.
- `CheckSeq` … `CompareCount` are `_handleAck` (lines 876-911), run by
  either thread. `msg` holds the ACK the thread handles and `tmp` its
  loaded count.
- `ReadWriting` and `ReadQueue` are the two loads of line 560.
- `SelectInterrupt`, `NetRecv` and `Timeout` are the three outcomes of
  `_connectionSet.select()` at line 570.
- `RemoteAck` is a remote's repeat ACK. `LoseAckReq` and `LoseAck` are
  UDP losses.
- `Locked` TRUE puts one mutex around write()'s resets and each handler.
  The code has none.

### How RSPRepeat corresponds to the code

`RSPStream` writes two fragments, so at most two NACK ranges ever meet in
`_repeatQueue`, and the first-match merge is never wrong there.
`RSPRepeat` takes one write of `NDatagrams` fragments and leaves out
readers and datagrams: a NACK range may be any `[start, end]`, since
different readers miss different fragments.
- `AddRepeat` is one push of `_addRepeat` (lines 959-971); a NACK with
  several ranges is several pushes, which the writer may interleave with.
- `PushAckReq` is the timeout push of `_runReadThread` (line 587) and
  `PushDone` the last ACK's push in `_handleAck` (line 910).
- `PopRequest` is the first loop of `_handleRepeat` (lines 1298-1318),
  `MergeRequest` with `MergeFirst` the merge loop (lines 1321-1354), and
  `Return` the DONE case of either loop, with write()'s final
  `_adaptSendRate( nRepeats )` (line 1274).
- `Resend` is lines 1356-1386: the errors, `nRepeats`, `_adaptSendRate`,
  the resend of every range (`Fragments`) and the re-requested ACK.
- `round` is a history variable: the ranges popped since the last resend.
  `MergedIsUnion` compares the requests with `UnionMerge(round)`, the
  interval union of spec 4.3 written as a RECURSIVE reference.

## 3. Runs

| Run | Config | Expect | Checks | Shows |
|---|---|---|---|---|
| `stream_fifo` | `MCRSPStream.cfg` | pass | `TypeOK`, `StreamIntegrity`, `ReturnMeansHeld`, `StreamRefined` | With loss, full socket buffers, timeouts and retransmission over a FIFO network, two writes reach both children intact. write() returns only when both hold the buffer. `RSPStream` implements `StreamSpec`. |
| `stream_ring_overrun` | `MCRSPStreamOverrun.cfg` | violation | `CompletedSlotStable` | With three writes and two slots, a completed, unread buffer is overwritten (a code bug; see below). |
| `stream_reorder` | `MCRSPStreamReorder.cfg` | violation | `StreamIntegrity` | With reordering, a late fragment of write 1 completes write 2's buffer. |
| `stream_write_ends` | `MCRSPStreamLive.cfg` | pass | `WriteEnds` | Under `FairSpec`, every write() returns or the thread gives up at the timeout limit: the NACK/resend/ACKREQ loop never spins forever. |
| `membership_join` | `MCRSPMembership.cfg` | pass | `UniqueIDs`, `QuiescentAgreement` | Two peers whose IDs may collide, on a reliable network that reorders, settle with distinct IDs and identical child sets. |
| `membership_lossy_close` | `MCRSPMembershipLossy.cfg` | pass | `TypeOK`, `JoinCompletes`, `DoneMeansHeld` | With loss, reordering, close() and one write per peer: each peer's `_timeouts` stays within what its phase allows (`TimeoutsBound`), every join completes, and write() returns only when every child holds the write. |
| `membership_count_split` | `MCRSPMembershipCount.cfg` | violation | `QuiescentAgreement` | Three peers: two COUNTNODEs dropped by a full socket leave a member that never learns another, even once every acceptSync call has run. |
| `membership_exit` | `MCRSPMembershipExit.cfg` | violation | `QuiescentAgreement` | A peer that closed stays in the other member's `_children`. |
| `membership_unknown_sender` | `MCRSPMembershipStream.cfg` | violation | `NetThreadSurvives` | Two peers on a reliable FIFO network, each writing once: a write fills the joiner's socket, it misses the writer's COUNTNODE, and the writer's later ACK ends its network thread. |
| `ack_count_locked` | `MCRSPAckCount.cfg` | pass | `TypeOK`, `NoLostWakeup`, `WriteReturns` | Here write()'s resets and each `_handleAck` are mutually exclusive (`Locked` TRUE), a lock the code does not have: this run checks the rest of the writer's loop apart from the race of finding 7. Three writes, and up to two datagrams lost. The interrupts of write() and of the ACKREQ repeat leave no order of the timeout choice in which the network thread sleeps without a timeout while write() waits. Every blocked write returns, unless the network thread gives up at the fatal timeout. 121,825 states, about 25 s. |
| `ack_count_stale` | `MCRSPAckCountStale.cfg` | violation | `ReturnOnlyWhenAcked` | Without the lock, as in the code: a late ACK of write 1 is counted for write 2. |
| `repeat_merge_overlap` | `MCRSPRepeat.cfg` | violation | `MergedIsUnion` | Five fragments, three pushes: queued NACKs [0,0], [1,1] and a range covering both are merged into that range and [1,1], so fragment 1 is resent twice. 15,227 states, about 1 s. |

Four further configurations are kept beside the runs.
`MCRSPAckCountUnlocked.cfg` (module `RSPAckCount`, `Locked` FALSE as in the
code) checks `TypeOK` and `NoLostWakeup` on the unlocked code: both hold
(459,661 states, about 10 s), so the wake-up argument does not depend on
the lock `ack_count_locked` adds. The other three reproduce findings 3, 6
and 7b below: `MCRSPStreamStuck.cfg` (module `MCRSPStream`,
`WriteReturns` violated after `FatalTimeout`), `MCRSPMembershipLostHello.cfg` (module `MCRSPMembership`,
`UniqueIDs` violated when HELLOs are lost) and `MCRSPAckCountLost.cfg`
(module `RSPAckCount`, `AckCountMatchesFlags` violated by a lost increment). Run
them with `tlc -config <cfg> <module>`.

### Findings

1. **Ring overrun (`rspConnection.cpp:772`).** Suppose `_recvBuffer` is
   null and the slot at `_recvBufferIndex` is unread.
   - The slot chosen by sequence id is used even when it is complete and
     unread.
   - A retransmission of the last ACKed write finds that slot, and line 805
     drops the datagram but leaves `_recvBuffer` pointing at it.
   - The next write's DATA then lands in the unread slot, whose `got[]` is
     still full. The slot is ACKed at once, and the reader later gets the
     wrong buffer.

   TLC's trace is 17 steps: two writes, one lost DATA, a NACK round, and the
   third write. The same overrun also breaks `UnreadIsComplete` (25 steps;
   `MCRSPStreamOverrun.cfg` with that invariant). The reused slot has
   `ackSend` cleared while `allRead` is still clear. A reader that passed
   its `ackSend` wait on the old content then reads a buffer that is
   still being received (hazard at line 358).
2. **Reordering (`rspConnection.cpp:803`).** A slot that is already
   receiving accepts any DATA, whatever its sequence id. A late fragment of
   the previous write is copied into it.
3. **Writer never woken (`rspConnection.cpp:582`).** On the fatal timeout
   `_runReadThread` returns without pushing anything to `_repeatQueue`, so
   the writer stays blocked in `pop()`. Spec section 7 says blocked callers
   are woken with an error.
4. **EXIT removes nobody (`rspConnection.cpp:1186`).** The test is
   inverted: an EXIT carrying another peer's ID only re-sends COUNTNODE.
   The leaver stays a child, and every later write waits for its ACK until
   the fatal timeout. The trace has 17 steps: two peers join, and one
   closes.
5. **COUNTNODE does not converge (`rspConnection.cpp:520`).** COUNTNODE is
   sent only when `_children` changes, on acceptSync, and on the init
   timeouts. A peer that sees its own count in a COUNTNODE stops adding,
   and a peer that already knows a COUNTNODE's sender sends nothing back.
   `Quiescent` asks that every peer is listening, that the application has
   called acceptSync() for every child (each call multicasts a COUNTNODE,
   line 330), and that every socket is empty.
   - In the 44-step trace, p3 is in `_initReadThread` with its socket
     full of p1's acceptSync COUNTNODEs when p2 adds p3. Both of p2's
     COUNTNODEs with count 3 (from `_addNewConnection` and from its last
     acceptSync) are dropped there.
   - An older COUNTNODE of p2 with count 2 then matches p3's count of 2,
     and p3 stops listening for more.
   - p3's own COUNTNODEs reach p1 and p2, who know p3 and answer nothing.
     Every acceptSync has run, every socket is empty, and p3 holds {3, 1}.
   - Spec section 4.2 promises a periodic COUNTNODE that makes late
     joiners converge.
   - Without any drop, three peers were not found to split within the
     state space TLC could explore (29 million states at `ChanCap` = 4).
6. **A duplicate ID survives lost HELLOs (`rspConnection.cpp:711`).** A
   peer is told of a joiner's ID only by HELLO. If the HELLOs are lost, the
   joiner's CONFIRM of a taken ID reaches `_addNewConnection`, which finds
   the ID known and does nothing. DENY is ignored outside `_acceptID`.
7. **`_handleAck` races write() (`rspConnection.cpp:876`, `:898`).**
   `_handleAck` runs on the network thread and, for the writer's own
   loopback ACK, on the application thread inside write(). Neither it nor
   write()'s resets hold a lock.
   - a. `ack_count_stale` (41 steps): a repeated ACK of write 1 passes the
     sequence test; write() then increments `_sequenceIDWrite` and clears
     `_ackReceived`; the old ACK sets the flag and counts for write 2, whose
     DONE is pushed before the remote holds it.
   - b. `MCRSPAckCountLost.cfg` (58 steps): the two threads'
     `++_numWriteAcks` interleave. Both load 0 and both store 1, so the
     count is 1 with two flags set. The count never reaches
     `_children.size()`. Repeated ACKs are ignored once the flag is set,
     and they no longer reset `_timeouts`. write() therefore waits until
     the fatal timeout ends the network thread, and then for ever
     (finding 3).

   `RSPStream` treats each handler as one step, which is what a mutex
   around the handler and the resets gives; `ack_count_locked` shows that
   this is enough.
8. **A datagram from an undiscovered peer ends the network thread
   (`rspConnection.cpp:884`, `:756`, `:985`, `:927`).** `_handleAck`,
   `_handleDataDatagram` and `_handleAckRequest` return false for a sender
   missing from `_children`, and `_runReadThread` returns; `_handleNack`
   dereferences the missing child before testing it. Spec section 4.3 says
   such DATA is dropped and discovery adds the sender later. Section 7
   says a protocol violation drops the offending datagram and does not
   kill the connection. In the
   22-step trace of `membership_unknown_sender` the network is reliable:
   p1 writes while p2 is in `_initReadThread`; the DATA and ACKREQ fill
   p2's socket, so p1's COUNTNODE announcing p2 is dropped; p2 never learns
   p1, and when p2 writes, p1's ACK ends p2's network thread. The same run
   with writes also shows that a write during a join is enough to split
   the group (finding 5 without a third peer).
9. **Merged NACK ranges still overlap (`rspConnection.cpp:1342`).** The
   merge loop folds a queued NACK into the first request it overlaps and
   never merges the grown request with the later ones. In the 7-step
   trace of `repeat_merge_overlap` the queue holds [0,0] and [1,1], which
   do not overlap, and then a range covering both ([0,1] or [0,2]; which
   one TLC reports depends on the order its workers explore). That range
   grows [0,0] and leaves [1,1]. Fragment 1 is resent twice
   in one round and counted twice in the errors passed to
   `_adaptSendRate`. Spec section 4.3 says overlapping NACKs become their
   union.

### Bounds and why they are enough

The writer is `w` and there is one remote peer `r1`, so both the loopback
path and the network path are exercised.

| Constant | Value | Why |
|---|---|---|
| `NBuffers` | 2 | The ring wraps after two writes. |
| `AckFreq` | 2 | A write has one or two fragments, so a gap before a received fragment (early NACK) and a NACK range can occur. |
| `ChanCap` | 2 | Each channel holds up to two datagrams, so a full socket buffer drops. |
| `TimeoutLimit` | 3 | Two timeouts re-send the ACKREQ and the third is fatal. |
| `RepeatCap` | 2 | `nRepeats` saturates where every error ratio above it gives the same -20 step (the ASSUME `RepeatCap >= AckFreq`). |
| `SeqIdMod` | 2^16 | The real width. Wrap-around needs 65536 writes and is out of reach. |

The liveness runs use `TimeoutLimit` 2 and `Lossy` FALSE; see section 4.

`MaxWrites` is 2 in the pass run. A third write, with two slots, reaches
the overrun bug. So the pass run covers everything up to the first wrap of
the ring, and the overrun run covers the wrap.

For `RSPMembership`:

| Constant | Value | Why |
|---|---|---|
| `Peers` | 2 (3 for the split) | Two peers meet every message kind. A third is needed for one peer to learn of another only through COUNTNODE. |
| `IDs` | {1, 2} (or {1, 2, 3}) | With any assignment (`MCAnyIDs`), colliding initial IDs and re-draws after a DENY both happen. `MCDistinctIDs` keeps the lossy and three-peer runs small. |
| `HelloLimit`, `CountLimit` | 2 | The code's 10 and 10. Two is the least value with a repeated HELLO and a repeated COUNTNODE, and the behaviour does not depend on the count beyond that. |
| `ChanCap` | 2 | A socket buffer can fill and drop. |
| `WriteLimit` | 1 (0 in the pure membership runs) | One write per peer meets every stream datagram kind, in every phase of the other peer. |
| `RetryLimit` | 2 | The code's 1000: one ACKREQ re-sent, then the thread gives up. |

For `RSPAckCount`, the pass run has one remote child and three writes.
The loopback ACK on the application thread and the remote's ACK on the
network thread already race with two children. Up to two datagrams are
lost (`LossLimit` 2). With that, an ACKREQ and its repeat can both be
lost, and a late duplicate ACK can cross into the next write. The second
timeout in a row is fatal (`TimeoutLimit` 2), so the thread exit is
reached. Two remote children (693,047 states) pass too, in about 3.5
minutes. The two violation cfgs have two writes, one loss, and a fatal
third timeout.

Deadlock checking is off because the model really stops in two places:

- after `MaxWrites` writes, once every buffer has been read;
- after `FatalTimeout`, where the code's writer blocks forever in
  `_repeatQueue.pop()`.

A settled membership group also stops: every thread is blocked in select().

For `repeat_merge_overlap`, `NDatagrams` = 5 and `MaxPushes` = 3: three
ranges are the fewest in which a grown request can meet a later one, and
they need at least three fragments; five leave room for ranges that are
disjoint, adjacent, nested and overlapping. The run explores every queue of
up to three requests and every interleaving of pushes and pops.

### Mutants

Each property of the pass run is broken by a plausible bug in the code it
is about:

| Property | Mutant | Bug |
|---|---|---|
| `StreamIntegrity` | `IsStale` → `IsStaleNoLastAck` | the `_lastSequenceIDAck` check of line 810 is dropped |
| `ReturnMeansHeld` | `HandleAck` → `HandleAckNoDupCheck` | the `_ackReceived` check of line 892 is dropped, so a re-ACK is counted twice |
| `TypeOK` | `IsFatalTimeout` → `IsFatalTimeoutOffByOne` | `>` instead of `>=` at line 579 |
| `StreamRefined` | `HandleAck` → `HandleAckNoDupCheck` | a re-ACK counted twice: write() returns before the remote child holds the buffer |
| `WriteEnds` | `IsStale` → `IsStaleInverted` | the sequence test of line 803 inverted: fresh DATA is dropped and the NACK/resend loop never ends |
| `TypeOK` (membership) | `AcceptTimeout` → `AcceptTimeoutOffByOne` | `<=` for `<` at line 383: `_acceptID` sends one HELLO too many and waits in `_acceptID` with `_timeouts` at the limit |
| `UniqueIDs` | `CheckNewID` → `CheckNewIDKnownOnly` | `_checkNewID` without the `id == _id` case |
| `QuiescentAgreement` | `AcceptTimeout` → `AcceptTimeoutNoSelf` | `_addNewConnection( _id )` missing after CONFIRM (line 391): a peer never becomes its own child and never sends COUNTNODE |
| `JoinCompletes` | `Tick` → `TickLost` | `++_timeouts` missing: the HELLO loop never ends |
| `DoneMeansHeld` | `Holds` → `HoldsOffByOne` | `_findReceiverWithSequenceID` matching the previous write: a reader ACKs a write it does not hold |
| `TypeOK` (ack count) | `Zero` → `ZeroLost` | `_numWriteAcks = 0` missing at the top of write() |
| `NoLostWakeup` | `SetWriting` → `SetWritingNoInterrupt` | `_connectionSet.interrupt()` after `_writing = true` dropped (line 1265): a network thread that read `_writing` as false sleeps without a timeout |
| `WriteReturns` (ack count) | `MulticastAckReq` → `MulticastAckReqNoInterrupt` | the interrupt after a repeated ACKREQ dropped (line 1309): a lost ACKREQ or ACK is never repeated and write() waits for ever |

## 4. Fairness

The safety runs use `Spec` and assume no fairness. The liveness runs use
`FairSpec`.

**RSPStream.**
- Weak fairness for the writer thread's steps in `_handleRepeat` and for
  `Timeout` and `FatalTimeout`. A thread with work keeps being scheduled,
  and a 10 ms select that stays due fires.
- Strong fairness for each receive (`WriterRecvAck`, `WriterRecvNack`,
  `PeerRecvData`, `PeerRecvAckReq`). A datagram can be dropped, so a
  receive is enabled only on and off. A handler enabled again and again
  runs.
- None for `Write` and `Read` (the application's calls), nor for loss.

The liveness runs set `Lossy` FALSE, so datagrams are dropped only by full
socket buffers. With random loss, an adversary that loses every
retransmitted DATA keeps the writer in a NACK loop with its timeout count
reset. No fairness on the code's threads excludes this, and real networks
do. With `Lossy` TRUE, TLC finds that loop as a counterexample to
`WriteEnds`.

**RSPAckCount.**
- Weak fairness for every step of the application thread but the start
  of a write, and for each handler step.
- Weak fairness for the network thread's own steps: the two loads,
  EVENT_INTERRUPT and EVENT_TIMEOUT. A thread that can go on does.
- Strong fairness for an ACK receipt and for a remote's answer to an
  ACKREQ. A datagram in flight may be lost, and the writer's repeated
  ACKREQs make a receipt possible again and again.
- Loss is bounded by `LossLimit`, the finite-loss assumption under which
  "the 10 ms timeout drives liveness" (spec section 6) can hold at all.
- A timeout may fire while an ACK is in flight; that is a delay longer
  than 10 ms. That is why `WriteReturns` allows the fatal timeout as an
  outcome.

**RSPMembership.**
- Weak fairness for the three receive handlers of each peer.
- Strong fairness for its two timeouts, which are enabled each time the
  network falls quiet.
- Weak fairness for its stream receive (`StreamRecv`) and strong
  fairness for the 10 ms `WriteTimeout`, on the same grounds.
- None for `Listen`, `Accept`, `Close`, `Write` or `Lose`.

`JoinCompletes` is checked with distinct initial IDs. Two peers that keep
drawing each other's ID after every DENY would loop forever. The random
draw makes that improbable, but nothing in the code prevents it.

## 5. Not modelled, and why

- **Membership and the full stream together.** `RSPMembership` carries
  one-fragment writes, enough for the sender lookups of lines 756, 884,
  927 and 985. Slots, NACK ranges and the rate controller stay in
  `RSPStream`, which starts from a formed group. close() only from the
  listening state; the second `_thread->start()` of listen() (the Thread
  class is not in the repository).
- **The non-atomic `++_numWriteAcks` inside `RSPStream`.** There every
  handler is one step; `RSPAckCount` checks that race on its own, for one
  writer, with the datagrams reduced to ACKs and ACK requests.
- **Partial reads** (`posRead`, `bytes` smaller than the buffer), AIO
  posting, and the float rounding of `_adaptSendRate`. The self-pipe
  wake-up is modelled only in `RSPAckCount`. `RSPStream` takes a whole
  select() round as one step.
- **The UDP transport** (not in the repository). It is modelled as bounded
  lossy channels, optionally reordering, with no duplication yet.
- **`ObjectCM` and `NullCM`.** The first is an abstract interface; the
  second is a stub whose calls are `EQDONTCALL` or return constants.
- **`Observer` and `NodeOCommand`.** These are declarations whose
  implementation is not in the repository.
- **`seq::detail::Node`.** It only forwards to `eq::Node` and the
  application.

The spec places this distributed-object framework outside its scope
(spec line 9: change managers, object commands, observers, session
layer). These components therefore stay `not_modelled`.

## 6. Plan for the coming sittings

1. Map `RSPAckCount`'s locked variant onto `RSPStream`'s `HandleAck` as a
   refinement. Its select loop would then justify `RSPStream`'s atomic
   `Timeout`.
2. `NackRanges` against the maximal-runs reference of spec 4.3, and
   `AdaptSendRate` against the step table of spec 4.6 with the float
   arithmetic, to decide hazard 1274 on writes of ten or more fragments.
   The project is at its twelve runs, so this needs a slot first.
3. Network duplication in `RSPStream`. The zero-byte write stays out: it
   reads past the caller's buffer (hazard at line 1510).
