----------------------------- MODULE ShmSegment -----------------------------
(***************************************************************************)
(* transport::Segment with XsiSegment, State, Block and ShmConf            *)
(* (code/cyber/transport/shm): the blocks of one channel in shared memory. *)
(* A segment that is too small for a message is marked need_remap, removed *)
(* and created again with larger and fewer blocks; processes that still    *)
(* use the old one move over at their next access.                         *)
(*                                                                         *)
(* Segments are numbered in the order of their creation.  Removing a       *)
(* segment only takes away the key under which it is found: processes that *)
(* have it attached keep it.                                               *)
(***************************************************************************)
EXTENDS Naturals, Integers, Sequences

CONSTANTS
    Proc,          \* processes that use the segment, one Segment object each
    BlockNum16K,   \* block_num of the small and of the large configuration
    BlockNumMore

ASSUME SegmentAssumption ==
    /\ BlockNum16K \in Nat \ {0} /\ BlockNumMore \in Nat \ {0}
    /\ BlockNumMore <= BlockNum16K

Small == 1                   \* up to MESSAGE_SIZE_16K
Large == 2                   \* up to MESSAGE_SIZE_MORE
Huge == 3                    \* larger than any block
Size == {Small, Large}       \* ceiling_msg_size
MsgSize == {Small, Large, Huge}

kRWLockFree == 0
kWriteExclusive == -1

Blank == 0                   \* a block that was never written
Partial == -1                \* a block that is being written or was garbled

VARIABLES
    key,           \* the segment found under key_, 0 if there is none
    shm,           \* all segments created so far
    init_, conf_, state_,    \* of each Segment object; state_ is the segment
                             \* it has attached, 0 if none
    mishap         \* history: what went wrong while segments were set up

segmentVars == <<key, shm, init_, conf_, state_, mishap>>

block_num(size) == IF size = Small THEN BlockNum16K ELSE BlockNumMore

\* GetCeilingMessageSize(), also of the 0 found in a segment whose State is
\* not constructed yet.  A message larger than MESSAGE_SIZE_MORE gets that
\* ceiling too, although it does not fit.
CeilingMessageSize(size) == IF size <= Small THEN Small ELSE Large

Blocks == 0 .. BlockNum16K - 1

Zeroed(size) ==
    [ceiling_msg_size |-> size, need_remap |-> FALSE, seq |-> 0,
     reference_count |-> 0, lock_num |-> [b \in Blocks |-> kRWLockFree],
     data |-> [b \in Blocks |-> Blank]]

SegmentInit ==
    /\ key = 0
    /\ shm = <<>>
    /\ init_ = [p \in Proc |-> FALSE]
    /\ conf_ = [p \in Proc |-> Small]
    /\ state_ = [p \in Proc |-> 0]
    /\ mishap = {}

Seg(p) == shm[state_[p]]

\* OpenOrCreate(), shmget(): a new segment is full of zeroes.  A key that is
\* in use yields EEXIST, whatever the size of its segment.
Create(p) ==
    /\ key = 0
    /\ shm' = Append(shm, Zeroed(0))
    /\ key' = Len(shm')
    /\ state_' = [state_ EXCEPT ![p] = Len(shm')]
    /\ UNCHANGED <<init_, conf_, mishap>>

\* OpenOrCreate() constructs State and Blocks and counts itself.
Construct(p) ==
    /\ shm' = [shm EXCEPT ![state_[p]] =
                 [Zeroed(conf_[p]) EXCEPT !.reference_count = 1]]
    /\ init_' = [init_ EXCEPT ![p] = TRUE]
    /\ UNCHANGED <<key, conf_, state_, mishap>>

\* OpenOnly() takes the configuration from the segment it finds.
OpenOnly(p) ==
    /\ key # 0
    /\ state_' = [state_ EXCEPT ![p] = key]
    /\ conf_' = [conf_ EXCEPT ![p] = CeilingMessageSize(shm[key].ceiling_msg_size)]
    /\ shm' = [shm EXCEPT ![key].reference_count = @ + 1]
    /\ init_' = [init_ EXCEPT ![p] = TRUE]
    /\ UNCHANGED key

\* Reset(), as Remap() and Recreate() call it.
Reset(p) ==
    /\ init_' = [init_ EXCEPT ![p] = FALSE]
    /\ state_' = [state_ EXCEPT ![p] = 0]

Remap(p) == Reset(p) /\ UNCHANGED <<key, shm, conf_, mishap>>

\* Recreate(): tell the others, then detach ...
RecreateMark(p) ==
    /\ shm' = [shm EXCEPT ![state_[p]].need_remap = TRUE]
    /\ Reset(p)
    /\ UNCHANGED <<key, conf_, mishap>>

\* ... and remove whatever is found under the key.
RecreateRemove(p, size) ==
    /\ key' = 0
    /\ conf_' = [conf_ EXCEPT ![p] = CeilingMessageSize(size)]
    /\ UNCHANGED <<shm, init_, state_, mishap>>

\* Destroy(), which does nothing without an attached segment: the last one that leaves removes the segment.
DestroyDecrease(p) ==
    /\ shm' = [shm EXCEPT ![state_[p]].reference_count = IF @ = 0 THEN 0 ELSE @ - 1]
    /\ init_' = [init_ EXCEPT ![p] = FALSE]
    /\ UNCHANGED <<key, conf_, state_, mishap>>

NewObject(p) ==
    /\ conf_' = [conf_ EXCEPT ![p] = Small]
    /\ state_' = [state_ EXCEPT ![p] = 0]

DestroyNothing(p) == NewObject(p) /\ UNCHANGED <<key, shm, init_, mishap>>

DestroyKeep(p) ==
    /\ Seg(p).reference_count # 0
    /\ DestroyNothing(p)

DestroyRemove(p) ==
    /\ key' = 0
    /\ NewObject(p)
    /\ UNCHANGED <<shm, init_, mishap>>

-----------------------------------------------------------------------------
(* Blocks.                                                                 *)

\* seq_ is a 32-bit counter; only its remainder by block_num is used, which
\* wrapping preserves because every block_num is a power of two.
FetchAddSeq(p) ==
    /\ shm' = [shm EXCEPT ![state_[p]].seq = (@ + 1) % block_num(conf_[p])]
    /\ UNCHANGED <<key, init_, conf_, state_, mishap>>

SetBlock(p, b, lock, data) ==
    /\ shm' = [shm EXCEPT ![state_[p]].lock_num[b] = lock,
                          ![state_[p]].data[b] = data]
    /\ UNCHANGED <<key, init_, conf_, state_, mishap>>

TryLockForWrite(p, b) ==
    /\ Seg(p).lock_num[b] = kRWLockFree
    /\ SetBlock(p, b, kWriteExclusive, Seg(p).data[b])

\* A reader that looks only for other readers.
TryLockForRead_Blind(p, b) ==
    SetBlock(p, b, Seg(p).lock_num[b] + 1, Seg(p).data[b])

\* The loop of TryLockForRead() gives up after kMaxTryLockTimes; when it
\* succeeds it does so on a lock that is not held by a writer.
TryLockForRead(p, b) ==
    /\ Seg(p).lock_num[b] >= kRWLockFree
    /\ SetBlock(p, b, Seg(p).lock_num[b] + 1, Seg(p).data[b])

ReleaseWriteLock(p, b, data) == SetBlock(p, b, Seg(p).lock_num[b] + 1, data)

ReleaseReadLock(p, b) ==
    SetBlock(p, b, Seg(p).lock_num[b] - 1, Seg(p).data[b])
=============================================================================
