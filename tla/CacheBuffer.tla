----------------------------- MODULE CacheBuffer -----------------------------
(***************************************************************************)
(* data::CacheBuffer and the reading methods of data::ChannelBuffer        *)
(* (code/cyber/data/cache_buffer.h, channel_buffer.h): a ring that keeps   *)
(* the newest messages.  Every operator here runs under the buffer's       *)
(* mutex.  Messages are numbered from 1 by Fill(); number i lives in slot  *)
(* i % capacity_, and slots are default constructed to Null.               *)
(***************************************************************************)
EXTENDS Naturals

CONSTANT Null      \* a default constructed std::shared_ptr

\* capacity_ is one more than the size asked for.
NewBuffer(size) ==
    [head_ |-> 0, tail_ |-> 0, capacity_ |-> size + 1,
     buffer_ |-> [i \in 0 .. size |-> Null]]

At(b, pos) == b.buffer_[pos % b.capacity_]

BufHead(b) == b.head_ + 1
BufTail(b) == b.tail_
BufEmpty(b) == b.tail_ = 0

BufFull(b) == b.capacity_ - 1 = b.tail_ - b.head_
Back(b) == At(b, b.tail_)

\* A full ring that overwrites the oldest message it still offers.
Fill_InUsedSlot(b, value) ==
    IF BufFull(b)
      THEN [b EXCEPT !.buffer_[(b.head_ + 1) % b.capacity_] = value,
                     !.head_ = @ + 1, !.tail_ = @ + 1]
      ELSE [b EXCEPT !.buffer_[(b.tail_ + 1) % b.capacity_] = value,
                     !.tail_ = @ + 1]

\* Fill() without a fusion callback: a full ring gives up its oldest message
\* and stores in the spare slot.
Fill(b, value) ==
    IF BufFull(b)
      THEN [b EXCEPT !.buffer_[b.head_ % b.capacity_] = value,
                     !.head_ = @ + 1, !.tail_ = @ + 1]
      ELSE [b EXCEPT !.buffer_[(b.tail_ + 1) % b.capacity_] = value,
                     !.tail_ = @ + 1]

\* A reader that takes its next index for the one it read last.
CanFetch_LastUnread(b, index) ==
    /\ ~BufEmpty(b)
    /\ index = 0 \/ index < BufTail(b)

\* ChannelBuffer::Fetch(): nothing to read, or the index that is read.  A
\* reader that starts, or that was overtaken by the ring, goes to the newest.
CanFetch(b, index) ==
    /\ ~BufEmpty(b)
    /\ index = 0 \/ index # BufTail(b) + 1

\* A reader that gives up on the oldest message although it is still there.
FetchIndex_OneEarly(b, index) ==
    IF index = 0 \/ index <= BufHead(b) THEN BufTail(b) ELSE index

FetchIndex(b, index) ==
    IF index = 0 \/ index < BufHead(b) THEN BufTail(b) ELSE index
=============================================================================
