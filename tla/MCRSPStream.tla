---------------------------- MODULE MCRSPStream ----------------------------
(* Model-checking instance of RSPStream: one remote peer beside the        *)
(* Writer's own loopback child.                                            *)
EXTENDS RSPStream

\* Sequence ids are uint16 (IDSequenceType), as in the code.
MCSeqIdMod == 65536

\* The refinement mapping.  A child holds a write once its buffer is
\* complete (ackSend set, allRead clear) or its reader has taken it.
HeldCount == [c \in Children |->
                Len(delivered[c])
                + Cardinality({k \in Slots : ReadReady(rcv[c].slots[k])})]

Abstract == INSTANCE StreamSpec
                WITH busy <- writing, up <- netUp, held <- HeldCount

\* RSPStream implements the abstract stream: every step of the code's
\* threads (write(), _handleRepeat, the network handlers, readSync) is a
\* step of StreamSpec or leaves its state alone.  This says at once that
\* buffers are completed and read in write order with the written
\* content, that a child never holds a write twice or loses one, and
\* that write() returns only when every child holds the buffer.
StreamRefined == Abstract!Spec
=============================================================================
