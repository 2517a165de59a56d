------------------------------ MODULE StreamSpec ------------------------------
(***************************************************************************)
(* What one sender's RSP stream promises, without datagrams, slots or      *)
(* acknowledgements (spec sections 2 and 8).                               *)
(*                                                                         *)
(* write() hands one buffer of 1 .. AckFreq fragments to every child of    *)
(* the group and blocks.  Each child comes to hold the writes in the order *)
(* they were made, one at a time; write() returns only once every child    *)
(* holds the buffer; the child's reader takes the held buffers in order,   *)
(* each exactly as written.  The sender may instead give up for good       *)
(* (the fatal timeout), after which write() never returns.                 *)
(***************************************************************************)
EXTENDS Naturals, Sequences

CONSTANTS
    Children,     \* the readers of the stream, the sender's own included
    MaxWrites,    \* bound on the number of write() calls
    AckFreq       \* the largest number of fragments in one buffer

VARIABLES
    lens,         \* lens[w]: fragments of write w, for every write made
    busy,         \* a write() has not returned
    up,           \* the sender's network thread is running
    held,         \* held[c]: writes child c holds completely
    delivered     \* delivered[c]: the buffers c's reader has taken

vars == <<lens, busy, up, held, delivered>>

\* The buffer of write w: each fragment carries the write's number.
Buffer(w) == [i \in 1 .. lens[w] |-> w]

Init ==
    /\ lens = <<>>
    /\ busy = FALSE
    /\ up = TRUE
    /\ held = [c \in Children |-> 0]
    /\ delivered = [c \in Children |-> <<>>]

\* write(): a new buffer.  The children in S (the sender's own loopback
\* child, served inside write()) hold it at once.
StartWrite ==
    /\ ~busy
    /\ Len(lens) < MaxWrites
    /\ \E n \in 1 .. AckFreq, S \in SUBSET Children :
        /\ \A c \in S : held[c] = Len(lens)
        /\ lens' = Append(lens, n)
        /\ held' = [c \in Children |-> IF c \in S THEN held[c] + 1
                                       ELSE held[c]]
    /\ busy' = TRUE
    /\ UNCHANGED <<up, delivered>>

\* Child c comes to hold the next write.
Receive(c) ==
    /\ held[c] < Len(lens)
    /\ held' = [held EXCEPT ![c] = @ + 1]
    /\ UNCHANGED <<lens, busy, up, delivered>>

\* write() returns once every child holds the buffer.
Return ==
    /\ busy
    /\ \A c \in Children : held[c] = Len(lens)
    /\ busy' = FALSE
    /\ UNCHANGED <<lens, up, held, delivered>>

\* The sender gives up during a write.
Fail ==
    /\ busy /\ up
    /\ up' = FALSE
    /\ UNCHANGED <<lens, busy, held, delivered>>

\* c's reader takes the next held buffer.
Read(c) ==
    /\ Len(delivered[c]) < held[c]
    /\ delivered' = [delivered EXCEPT ![c] = Append(@,
                                             Buffer(Len(delivered[c]) + 1))]
    /\ UNCHANGED <<lens, busy, up, held>>

Next ==
    \/ StartWrite \/ Return \/ Fail
    \/ \E c \in Children : Receive(c) \/ Read(c)

Spec == Init /\ [][Next]_vars

=============================================================================
