----------------------------- MODULE DataVisitor -----------------------------
(***************************************************************************)
(* data::DataVisitor with data::fusion::AllLatest                          *)
(* (code/cyber/data/data_visitor.h, data/fusion/all_latest.h): a reader of *)
(* one main channel and of Others further ones.  A message of the main     *)
(* channel is fused with the latest message of every other channel; the    *)
(* tuples are kept in a ring that one routine fetches from.  With          *)
(* Others = 0 this is the visitor of a single channel, whose ring holds    *)
(* the messages themselves.                                                *)
(*                                                                         *)
(* DataDispatcher::Dispatch() holds the mutex of the buffer it fills.  For *)
(* the main channel that is held during the whole fusion callback, which   *)
(* takes the other buffers' mutexes one after the other: other channels    *)
(* are filled in between.  A channel may be fed by several threads, one    *)
(* for each transport.                                                     *)
(***************************************************************************)
EXTENDS CacheBuffer, Sequences

CONSTANTS
    Feeder,        \* threads that dispatch messages of the main channel
    Others,        \* number of further channels, 0 .. 3
    QueueSize,     \* queue_size of the main channel's VisitorConfig
    OtherSize,     \* queue_size of the others
    MaxMsg,        \* bound: messages of the main channel
    MaxOther,      \* bound: messages of each other channel
    None

ASSUME VisitorAssumption ==
    /\ Others \in Nat /\ QueueSize \in Nat /\ OtherSize \in Nat
    /\ MaxMsg \in Nat /\ MaxOther \in Nat
    /\ None \notin Feeder

Channel == 1 .. Others

VARIABLES
    other,         \* buffer_m1_, buffer_m2_, buffer_m3_
    buffer_fusion_,
    mutex,         \* of buffer_m0_
    arrived,       \* messages of the main channel dispatched so far
    msg,           \* m0 of the callback a feeder is in, 0 outside
    latest,        \* what that callback has read from the other channels
    next_msg_index_,
    fused,         \* history: tuples filled into buffer_fusion_
    since,         \* history: newest other messages when the callback began
    fetched        \* history: what TryFetch() returned, with its index

vars == <<other, buffer_fusion_, mutex, arrived, msg, latest, next_msg_index_,
          fused, since, fetched>>

\* Messages are numbered by channel, in the order in which they are filled.
Newest == [c \in Channel |-> BufTail(other[c])]

Init ==
    /\ other = [c \in Channel |-> NewBuffer(OtherSize)]
    /\ buffer_fusion_ = NewBuffer(QueueSize)
    /\ mutex = None
    /\ arrived = 0
    /\ msg = [f \in Feeder |-> 0]
    /\ latest = [f \in Feeder |-> <<>>]
    /\ next_msg_index_ = 0
    /\ fused = <<>>
    /\ since = [f \in Feeder |-> [c \in Channel |-> 0]]
    /\ fetched = <<>>

\* Dispatch() of a message of another channel.
DispatchOther(c) ==
    /\ BufTail(other[c]) < MaxOther
    /\ other' = [other EXCEPT ![c] = Fill(@, BufTail(@) + 1)]
    /\ UNCHANGED <<buffer_fusion_, mutex, arrived, msg, latest,
                   next_msg_index_, fused, since, fetched>>

\* A message arrives for the callback of feeder f.
Arrive(f) ==
    /\ arrived < MaxMsg
    /\ msg[f] = 0
    /\ arrived' = arrived + 1
    /\ msg' = [msg EXCEPT ![f] = arrived + 1]
    /\ latest' = [latest EXCEPT ![f] = <<>>]
    /\ since' = [since EXCEPT ![f] = Newest]
    /\ UNCHANGED <<other, buffer_fusion_, next_msg_index_, fused, fetched>>

\* A dispatch that does not wait for the buffer's mutex.
DispatchMain_NoMutex(f) == Arrive(f) /\ mutex' = f

\* Dispatch() of a message of the main channel: under the buffer's mutex,
\* Fill() calls the fusion callback.
DispatchMain(f) == mutex = None /\ Arrive(f) /\ mutex' = f

\* The callback returns and Dispatch() unlocks.
Leave(f) == mutex' = None /\ msg' = [msg EXCEPT ![f] = 0]

\* A callback that takes the oldest message of the other channel.
ReadLatest_Oldest(f) ==
    /\ msg[f] # 0
    /\ Len(latest[f]) < Others
    /\ LET b == other[Len(latest[f]) + 1]
       IN IF BufEmpty(b)
            THEN Leave(f) /\ UNCHANGED latest
            ELSE /\ latest' = [latest EXCEPT ![f] = Append(@, At(b, BufHead(b)))]
                 /\ UNCHANGED <<mutex, msg>>
    /\ UNCHANGED <<other, buffer_fusion_, arrived, next_msg_index_, fused,
                   since, fetched>>

\* Latest() of the next channel; without a message there is no tuple and
\* the main channel's message is dropped.
ReadLatest(f) ==
    /\ msg[f] # 0
    /\ Len(latest[f]) < Others
    /\ LET b == other[Len(latest[f]) + 1]
       IN IF BufEmpty(b)
            THEN Leave(f) /\ UNCHANGED latest
            ELSE /\ latest' = [latest EXCEPT ![f] = Append(@, Back(b))]
                 /\ UNCHANGED <<mutex, msg>>
    /\ UNCHANGED <<other, buffer_fusion_, arrived, next_msg_index_, fused,
                   since, fetched>>

\* The tuple is complete: fill it in and leave.
FillFusion(f) ==
    /\ msg[f] # 0
    /\ Len(latest[f]) = Others
    /\ buffer_fusion_' = Fill(buffer_fusion_, <<msg[f]>> \o latest[f])
    /\ fused' = Append(fused, <<msg[f]>> \o latest[f])
    /\ Leave(f)
    /\ UNCHANGED <<other, arrived, latest, next_msg_index_, since, fetched>>

\* TryFetch() by the visitor's routine, which runs on one processor at a
\* time: Fusion() fetches from the ring, then next_msg_index_ moves on.
TryFetch ==
    /\ CanFetch(buffer_fusion_, next_msg_index_)
    /\ LET index == FetchIndex(buffer_fusion_, next_msg_index_)
       IN /\ next_msg_index_' = index + 1
          /\ fetched' = Append(fetched,
                          [index |-> index, data |-> At(buffer_fusion_, index)])
    /\ UNCHANGED <<other, buffer_fusion_, mutex, arrived, msg, latest, fused,
                   since>>

TryFetchFails ==
    /\ ~CanFetch(buffer_fusion_, next_msg_index_)
    /\ UNCHANGED vars

Next ==
    \/ \E c \in Channel : DispatchOther(c)
    \/ \E f \in Feeder : DispatchMain(f) \/ ReadLatest(f) \/ FillFusion(f)
    \/ TryFetch
    \/ TryFetchFails

Spec == Init /\ [][Next]_vars

-----------------------------------------------------------------------------
(* Properties.                                                             *)

BufferOf(size, value) ==
    [head_ : Nat, tail_ : Nat, capacity_ : {size + 1},
     buffer_ : [0 .. size -> value \cup {Null}]]

\* A ring never spans more than its size, and the reader is never ahead of
\* it by more than the next message.
TypeOK ==
    /\ \A c \in Channel : other[c] \in BufferOf(OtherSize, Nat)
    /\ buffer_fusion_ \in BufferOf(QueueSize, Seq(Nat))
    /\ buffer_fusion_.head_ <= buffer_fusion_.tail_
    /\ buffer_fusion_.tail_ - buffer_fusion_.head_ <= QueueSize
    /\ next_msg_index_ <= buffer_fusion_.tail_ + 1
    /\ arrived \in Nat
    /\ msg \in [Feeder -> Nat]
    /\ latest \in [Feeder -> Seq(Nat)]

\* The ring offers the newest tuples, each under its own number: what Head()
\* .. Tail() and the tail reach is what was filled in under that number,
\* also when the ring is full, and when its size is 0.
RingKeepsNewest ==
    /\ BufTail(buffer_fusion_) = Len(fused)
    /\ \A i \in 1 .. Len(fused) :
         i = BufTail(buffer_fusion_) \/ i >= BufHead(buffer_fusion_)
           => At(buffer_fusion_, i) = fused[i]

\* The callback sees tuples in the order in which they were filled in, each
\* at most once, and none that was overwritten meanwhile.
FetchedInOrder ==
    \A k \in 1 .. Len(fetched) :
      /\ fetched[k].index \in 1 .. Len(fused)
      /\ fetched[k].data = fused[fetched[k].index]
      /\ k > 1 => fetched[k - 1].index < fetched[k].index

\* "older messages that are not handled will be lost", but never the newest:
\* when TryFetch() finds nothing, the last tuple has been fetched.
NewestNotLost ==
    ~CanFetch(buffer_fusion_, next_msg_index_) /\ fused # <<>> =>
      fetched # <<>> /\ fetched[Len(fetched)].index = Len(fused)

\* A tuple is skipped only by a reader that starts late or has fallen behind
\* by more than the queue size.
SkipsOnlyOverrun ==
    [][fetched' # fetched /\ next_msg_index_ # 0 =>
         \/ next_msg_index_' = next_msg_index_ + 1
         \/ next_msg_index_ <= Len(fused) - QueueSize]_vars

\* Tuples do not go back in time: whatever threads feed the main channel,
\* its messages come in the order of their dispatch and the messages they
\* are fused with never get older.
TuplesInOrder ==
    \A i \in 2 .. Len(fused) :
      /\ fused[i - 1][1] < fused[i][1]
      /\ \A c \in Channel : fused[i - 1][c + 1] <= fused[i][c + 1]

\* A message is fused with messages at least as new as the newest ones when
\* it was dispatched.
FusedIsFresh ==
    [][\A f \in Feeder : FillFusion(f) =>
         \A c \in Channel : since[f][c] <= latest[f][c]]_vars
=============================================================================
