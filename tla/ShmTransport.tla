---------------------------- MODULE ShmTransport ----------------------------
(***************************************************************************)
(* ShmTransmitter and ShmDispatcher over Segment and ConditionNotifier     *)
(* (code/cyber/transport/transmitter/shm_transmitter.h,                    *)
(* dispatcher/shm_dispatcher.cc): processes of one host that write and     *)
(* read the messages of one channel.  Each writing process transmits one   *)
(* message at a time; each reading process has one dispatcher thread.  A   *)
(* process may die anywhere, and leaves shared memory as it is.            *)
(***************************************************************************)
EXTENDS ShmSegment, ConditionNotifier, FiniteSets

CONSTANTS
    MaxMsg,        \* bound: messages transmitted
    OversizeAt,    \* bound: which of them may be larger than any block
    MaxLeave       \* bound: processes that leave, by Disable(), Shutdown()
                   \* or by dying

ASSUME TransportAssumption ==
    /\ Proc = Writer \cup Reader /\ IsFiniteSet(Proc)
    /\ MaxMsg \in Nat /\ MaxLeave \in Nat
    /\ NoInfo \notin [index : Nat, by : Nat, stamp : Nat, home : Nat]

VARIABLES
    pc, then,      \* control; where an open or create continues
    size, index,   \* of the message a process handles
    stamp,         \* of the message a writer writes, or the one announced to
                   \* a reader, with the segment it is in
    home,
    got,           \* what a reader has found in its block
    writes,        \* history: blocks locked for writing so far
    sent, left     \* counters for the bounds

transportVars == <<pc, then, size, index, stamp, home, got, writes, sent,
                   left>>
locals == <<then, size, index, stamp, home, got>>
vars == <<segmentVars, notifierVars, transportVars>>

\* ReadableInfo of a block; the number under which it is announced, the
\* message's stamp and its segment are history.
Info(w) == [index |-> index[w], by |-> seq[w], stamp |-> stamp[w],
            home |-> state_[w]]

Init ==
    /\ SegmentInit
    /\ NotifierInit
    /\ pc = [p \in Proc |-> IF p \in Writer THEN "idle" ELSE "off"]
    /\ then = [p \in Proc |-> "idle"]
    /\ size = [w \in Writer |-> Small]
    /\ index = [p \in Proc |-> 0]
    /\ stamp = [p \in Proc |-> 0]
    /\ home = [r \in Reader |-> 0]
    /\ got = [r \in Reader |-> Blank]
    /\ writes = 0 /\ sent = 0 /\ left = 0

Go(p, to) == pc' = [pc EXCEPT ![p] = to]
GoOpen(p, at, to) == Go(p, at) /\ then' = [then EXCEPT ![p] = to]

\* Where a process waits for the next message or notification; what it knew
\* of the last one is forgotten.
Rest(p) == IF p \in Writer THEN "idle" ELSE "listen"

GiveUp(p) ==
    /\ GoOpen(p, Rest(p), "idle")
    /\ index' = [index EXCEPT ![p] = 0]
    /\ stamp' = [stamp EXCEPT ![p] = 0]
    /\ size' = [q \in Writer |-> IF q = p THEN Small ELSE size[q]]
    /\ home' = [r \in Reader |-> IF r = p THEN 0 ELSE home[r]]
    /\ got' = [r \in Reader |-> IF r = p THEN Blank ELSE got[r]]

-----------------------------------------------------------------------------
(* ShmTransmitter::Transmit().                                             *)

\* A message of some size; AcquireBlockToWrite() looks for its segment.
Transmit(w) ==
    /\ pc[w] = "idle"
    /\ sent < MaxMsg
    /\ sent' = sent + 1
    /\ \E s \in MsgSize : /\ s > Large => sent + 1 \in OversizeAt
                          /\ size' = [size EXCEPT ![w] = s]
    /\ IF init_[w] THEN Go(w, "remap") /\ UNCHANGED then
                   ELSE GoOpen(w, "create", "remap")
    /\ UNCHANGED <<segmentVars, notifierVars, index, stamp, home, got, writes,
                   left>>

\* OpenOrCreate(): a segment that exists is only opened.
CreateSegment(w) ==
    /\ pc[w] = "create"
    /\ IF key = 0 THEN Create(w) /\ Go(w, "construct")
                  ELSE UNCHANGED segmentVars /\ Go(w, "open")
    /\ UNCHANGED <<notifierVars, then, size, index, stamp, home, got, writes,
                   sent, left>>

ConstructSegment(w) ==
    /\ pc[w] = "construct"
    /\ Construct(w)
    /\ GoOpen(w, then[w], "idle")
    /\ UNCHANGED <<notifierVars, size, index, stamp, home, got, writes,
                   sent, left>>

\* A message that goes into any segment.
Sized_Any(s, conf) == "next"

\* A message larger than the segment's blocks needs another segment; one
\* larger than any block asks for it every time.
Sized(s, conf) == IF s > conf THEN "mark" ELSE "next"

OpenSegment(p) ==
    /\ pc[p] = "open"
    /\ OpenOnly(p)
    /\ GoOpen(p, IF then[p] = "size" THEN Sized(size[p], conf_'[p]) ELSE then[p],
              "idle")
    /\ mishap' = mishap
         \cup (IF shm[key].ceiling_msg_size = 0 THEN {"unready"} ELSE {})
         \cup (IF then[p] = "next" /\ CeilingMessageSize(size[p]) > conf_'[p]
                 THEN {"small"} ELSE {})
    /\ UNCHANGED <<notifierVars, size, index, stamp, home, got, writes,
                   sent, left>>

\* Without a segment the message is given up.  A writer that came from
\* Remap() with a message that is too large goes on into Recreate(), whose
\* state_ is a null pointer.
OpenFails(p) ==
    /\ pc[p] = "open"
    /\ key = 0
    /\ IF p \in Writer /\ then[p] = "size" /\ size[p] > conf_[p]
         THEN Go(p, "dead") /\ UNCHANGED locals
         ELSE GiveUp(p)
    /\ UNCHANGED <<segmentVars, notifierVars, writes, sent, left>>

\* AcquireBlockToWrite(): need_remap, then the size.
CheckRemap(w) ==
    /\ pc[w] = "remap"
    /\ IF Seg(w).need_remap
         THEN Remap(w) /\ GoOpen(w, "open", "size")
         ELSE /\ UNCHANGED <<segmentVars, then>>
              /\ Go(w, Sized(size[w], conf_[w]))
    /\ UNCHANGED <<notifierVars, size, index, stamp, home, got, writes, sent,
                   left>>

MarkSegment(w) ==
    /\ pc[w] = "mark"
    /\ RecreateMark(w)
    /\ Go(w, "remove")
    /\ UNCHANGED <<notifierVars, then, size, index, stamp, home, got, writes,
                   sent, left>>

RemoveSegment(w) ==
    /\ pc[w] = "remove"
    /\ RecreateRemove(w, size[w])
    /\ GoOpen(w, "create", "next")
    /\ UNCHANGED <<notifierVars, size, index, stamp, home, got, writes, sent,
                   left>>

\* GetNextWritableBlockIndex()
NextBlock(w) ==
    /\ pc[w] = "next"
    /\ index' = [index EXCEPT ![w] = Seg(w).seq % block_num(conf_[w])]
    /\ FetchAddSeq(w)
    /\ Go(w, "lock")
    /\ UNCHANGED <<notifierVars, then, size, stamp, home, got, writes, sent,
                   left>>

\* TryLockForWrite() fails on a lock that is held, and the next block is
\* tried.  (On the machines whose compare_exchange_weak can fail on a free
\* lock, a block is merely passed over.)
LockBlock(w) ==
    /\ pc[w] = "lock"
    /\ \/ /\ TryLockForWrite(w, index[w])
          /\ Go(w, "write")
          /\ writes' = writes + 1
          /\ stamp' = [stamp EXCEPT ![w] = writes + 1]
       \/ /\ Seg(w).lock_num[index[w]] # kRWLockFree
          /\ Go(w, "next")
          /\ UNCHANGED <<segmentVars, writes, stamp>>
    /\ UNCHANGED <<notifierVars, then, size, index, home, got, sent, left>>

\* The message fits into the block that was handed out.
Fits(w) == size[w] <= conf_[w] /\ conf_[w] = Seg(w).ceiling_msg_size

\* SerializeToArray() overwrites the block; one that is too small, or that is
\* not where the writer thinks, takes another block's contents with it.  (Past
\* the last block the process may also die: that is Crash().)
WriteBlock(w) ==
    /\ pc[w] = "write"
    /\ \E b \in Blocks :
         /\ Fits(w) => b = index[w]
         /\ shm' = [shm EXCEPT ![state_[w]].data[index[w]] = Partial,
                               ![state_[w]].data[b] = Partial]
    /\ mishap' = mishap \cup (IF size[w] > Large THEN {"oversize"} ELSE {})
    /\ Go(w, "finish")
    /\ UNCHANGED <<key, init_, conf_, state_, notifierVars, then, size, index,
                   stamp, home, got, writes, sent, left>>

\* An error path that forgets the lock.
SerializeFails_KeepsLock(w) ==
    /\ pc[w] = "write"
    /\ GiveUp(w)
    /\ UNCHANGED <<segmentVars, notifierVars, writes, sent, left>>

\* A message that cannot be serialised leaves the block as it was: sizes are
\* tested before anything is written, and the message info has its own size.
SerializeFails(w) ==
    /\ pc[w] = "write"
    /\ ReleaseWriteLock(w, index[w], Seg(w).data[index[w]])
    /\ GiveUp(w)
    /\ UNCHANGED <<notifierVars, writes, sent, left>>

\* The message is in its block; the end of one that did not fit lies where
\* others write, so that a reader finds it whole or garbled.  Its size is not
\* needed any more.
FinishBlock(w) ==
    /\ pc[w] = "finish"
    /\ \E d \in {stamp[w], Partial} :
         /\ Fits(w) => d = stamp[w]
         /\ ReleaseWriteLock(w, index[w], d)
    /\ Go(w, "reserve")
    /\ size' = [size EXCEPT ![w] = Small]
    /\ UNCHANGED <<notifierVars, then, index, stamp, home, got, writes,
                   sent, left>>

\* notifier_->Notify()
Reserve(w) ==
    /\ pc[w] = "reserve"
    /\ NotifyReserve(w)
    /\ Go(w, "info")
    /\ UNCHANGED <<segmentVars, then, size, index, stamp, home, got, writes,
                   sent, left>>

StoreInfo(w) ==
    /\ pc[w] = "info"
    /\ NotifyStoreInfo(w, Info(w))
    /\ Go(w, "seq")
    /\ UNCHANGED <<segmentVars, then, size, index, stamp, home, got, writes,
                   sent, left>>

StoreSeq(w) ==
    /\ pc[w] = "seq"
    /\ NotifyStoreSeq(w)
    /\ GiveUp(w)
    /\ UNCHANGED <<segmentVars, writes, sent, left>>

-----------------------------------------------------------------------------
(* ShmDispatcher::ThreadFunc().                                            *)

Start(r) ==
    /\ pc[r] = "off"
    /\ Attach(r)
    /\ Go(r, "listen")
    /\ UNCHANGED <<segmentVars, then, size, index, stamp, home, got, writes,
                   sent, left>>

\* A Listen() that times out changes nothing and is called again.
Listen(r) ==
    /\ pc[r] = "listen"
    /\ ListenTest(r)
    /\ Go(r, "take")
    /\ UNCHANGED <<segmentVars, then, size, index, stamp, home, got, writes,
                   sent, left>>

\* Listen() returns; an info of another host, as a default constructed one,
\* is passed over, otherwise AcquireBlockToRead() opens the segment if need
\* be.
Take(r) ==
    /\ pc[r] = "take"
    /\ ListenTake(r)
    /\ IF Heard(r) = NoInfo
         THEN GiveUp(r)
         ELSE /\ index' = [index EXCEPT ![r] = Heard(r).index]
              /\ stamp' = [stamp EXCEPT ![r] = Heard(r).stamp]
              /\ home' = [home EXCEPT ![r] = Heard(r).home]
              /\ IF init_[r] THEN Go(r, "check") /\ UNCHANGED then
                             ELSE GoOpen(r, "open", "check")
              /\ UNCHANGED <<size, got>>
    /\ UNCHANGED <<segmentVars, writes, sent, left>>

\* The index is tested before the segment is opened again.
CheckIndex(r) ==
    /\ pc[r] = "check"
    /\ IF index[r] >= block_num(conf_[r])
         THEN GiveUp(r) /\ UNCHANGED segmentVars
         ELSE /\ IF Seg(r).need_remap
                   THEN Remap(r) /\ GoOpen(r, "open", "lock")
                   ELSE UNCHANGED <<segmentVars, then>> /\ Go(r, "lock")
              /\ UNCHANGED <<size, index, stamp, home, got>>
    /\ UNCHANGED <<notifierVars, writes, sent, left>>

LockToRead(r) ==
    /\ pc[r] = "lock"
    /\ index[r] < block_num(conf_[r])
    /\ \/ TryLockForRead(r, index[r]) /\ Go(r, "read") /\ UNCHANGED locals
       \/ UNCHANGED segmentVars /\ GiveUp(r)
    /\ UNCHANGED <<notifierVars, writes, sent, left>>

\* An index beyond the blocks of the segment that was opened meanwhile: the
\* lock is taken somewhere in the blocks' contents, the message info found
\* there is refused and the lock is not released.
LockBeyond(r) ==
    /\ pc[r] = "lock"
    /\ index[r] >= block_num(conf_[r])
    /\ \/ UNCHANGED shm
       \/ \E b \in 0 .. block_num(conf_[r]) - 1 :
            shm' = [shm EXCEPT ![state_[r]].data[b] = Partial]
    /\ mishap' = mishap \cup {"beyond"}
    /\ GiveUp(r)
    /\ UNCHANGED <<key, init_, conf_, state_, notifierVars, writes, sent,
                   left>>

\* OnMessage(); a block without a message info delivers nothing.
ReadBlock(r) ==
    /\ pc[r] = "read"
    /\ got' = [got EXCEPT ![r] = Seg(r).data[index[r]]]
    /\ Go(r, "release")
    /\ UNCHANGED <<segmentVars, notifierVars, then, size, index, stamp, home,
                   writes, sent, left>>

ReleaseBlock(r) ==
    /\ pc[r] = "release"
    /\ ReleaseReadLock(r, index[r])
    /\ GiveUp(r)
    /\ UNCHANGED <<notifierVars, writes, sent, left>>

-----------------------------------------------------------------------------
(* ShmTransmitter::Disable(), ShmDispatcher::Shutdown().                   *)

\* A process without its segment; a writer is enabled again.
Off(p) == IF p \in Writer THEN "idle" ELSE "off"

Disable(p) ==
    /\ pc[p] = Rest(p)
    /\ left < MaxLeave
    /\ left' = left + 1
    /\ IF init_[p]
         THEN DestroyDecrease(p) /\ Go(p, "destroy")
         ELSE DestroyNothing(p) /\ Go(p, Off(p))
    /\ UNCHANGED <<notifierVars, then, size, index, stamp, home, got, writes,
                   sent>>

DestroyTest(p) ==
    /\ pc[p] = "destroy"
    /\ \/ DestroyKeep(p) /\ Go(p, Off(p))
       \/ /\ Seg(p).reference_count = 0
          /\ UNCHANGED segmentVars
          /\ Go(p, "unlink")
    /\ UNCHANGED <<notifierVars, then, size, index, stamp, home, got, writes,
                   sent, left>>

Unlink(p) ==
    /\ pc[p] = "unlink"
    /\ DestroyRemove(p)
    /\ Go(p, Off(p))
    /\ UNCHANGED <<notifierVars, then, size, index, stamp, home, got, writes,
                   sent, left>>

\* The process dies; then[p] records where.
Crash(p) ==
    /\ left < MaxLeave
    /\ left' = left + 1
    /\ pc[p] # "dead"
    /\ GoOpen(p, "dead", pc[p])
    /\ UNCHANGED <<segmentVars, notifierVars, size, index, stamp, home,
                   got, writes, sent>>

Next ==
    \/ \E w \in Writer :
         \/ Transmit(w) \/ CreateSegment(w) \/ ConstructSegment(w)
         \/ CheckRemap(w) \/ MarkSegment(w) \/ RemoveSegment(w)
         \/ NextBlock(w) \/ LockBlock(w) \/ WriteBlock(w)
         \/ SerializeFails(w) \/ FinishBlock(w)
         \/ Reserve(w) \/ StoreInfo(w) \/ StoreSeq(w)
    \/ \E r \in Reader :
         \/ Start(r) \/ Listen(r) \/ Take(r)
         \/ CheckIndex(r) \/ LockToRead(r) \/ LockBeyond(r) \/ ReadBlock(r)
         \/ ReleaseBlock(r)
    \/ \E p \in Proc :
         \/ OpenSegment(p) \/ OpenFails(p) \/ Disable(p) \/ DestroyTest(p)
         \/ Unlink(p) \/ Crash(p)

Spec == Init /\ [][Next]_vars

-----------------------------------------------------------------------------
(* Properties.                                                             *)

\* Where a process is, or where it died.
Where(p) == IF pc[p] = "dead" THEN then[p] ELSE pc[p]

\* p uses block b of segment g at one of the given places, or died there.
Holds(p, g, b, places) ==
    state_[p] = g /\ index[p] = b /\ Where(p) \in places

WriteHolders(g, b) == {w \in Writer : Holds(w, g, b, {"write", "finish"})}
ReadHolders(g, b) == {r \in Reader : Holds(r, g, b, {"read", "release"})}

\* The lock of a block counts its holders, those that died with the block
\* included: no release is lost or done twice, whatever segments the holders
\* move to, as long as nobody has opened a segment under construction.
LocksExact ==
    "unready" \notin mishap =>
      \A g \in 1 .. Len(shm) : \A b \in Blocks :
        shm[g].lock_num[b] =
          IF WriteHolders(g, b) # {}
            THEN kWriteExclusive * Cardinality(WriteHolders(g, b))
            ELSE Cardinality(ReadHolders(g, b))

\* A message is handed to the listeners only when it is whole: also when a
\* writer died in the middle of it, when the block was written again before
\* it was read, and when the segment has been replaced.  Read from the segment
\* it was announced in, it is the one that was announced or one written into
\* that block afterwards; after a replacement it may be any message of the
\* new segment.  What breaks this is recorded in mishap: a message larger than
\* any block, which AcquireBlockToWrite() accepts, a segment that is opened
\* before it is constructed, a message forced into a small segment that
\* another process created meanwhile, and an index that is used after the
\* segment has shrunk.
WholeMessages ==
    mishap = {} =>
      \A r \in Reader : pc[r] = "release" =>
        /\ got[r] # Partial
        /\ home[r] = state_[r] => got[r] >= stamp[r]

\* A block that AcquireBlockToWrite() hands out is large enough for the
\* message or, when the message is larger than any block, one of the largest
\* kind, and its segment is laid out as the writer believes; unless somebody
\* else created the segment that the writer was about to create.
MessageFits ==
    mishap \cap {"unready", "small"} = {} =>
      \A w \in Writer : pc[w] \in {"lock", "write", "finish"} =>
        /\ conf_[w] = Seg(w).ceiling_msg_size
        /\ IF size[w] <= Large THEN Fits(w) ELSE conf_[w] = Large

\* Listen() returns the info that was stored under the number it waits for,
\* or one stored into the same slot a whole number of rounds later; the
\* first number is the exception, because seqs starts at 0.
HeardIsNotified ==
    ~lapped =>
      \A r \in Reader : pc[r] = "take" /\ next_seq_[r] # 0 =>
        /\ Heard(r) # NoInfo
        /\ Heard(r).by >= next_seq_[r]
        /\ Heard(r).by % BufLength = next_seq_[r] % BufLength

\* Whenever no notification is under way, the reader finds the next one: it
\* is held up only by a writer that has reserved a number and not stored it,
\* or that died between the two.
NotifiedIsReadable ==
    ~lapped /\ (\A w \in Writer : Where(w) \notin {"info", "seq"}) =>
      \A r \in Reader : next_seq_[r] # next_seq => Readable(r)
=============================================================================
