-------------------------- MODULE ConditionNotifier --------------------------
(***************************************************************************)
(* transport::ConditionNotifier                                            *)
(* (code/cyber/transport/shm/condition_notifier.cc): a ring in shared      *)
(* memory that tells the readers of a host which block was written.  A     *)
(* writer reserves a number, stores its ReadableInfo and then the number;  *)
(* the three accesses are separate, and neither the info nor the number is *)
(* protected by a lock.  Readers poll the slot of the next number.         *)
(***************************************************************************)
EXTENDS Naturals

CONSTANTS
    Writer, Reader,  \* processes that notify and that listen
    BufLength,       \* kBufLength
    NoInfo           \* a default constructed ReadableInfo

ASSUME NotifierAssumption ==
    /\ BufLength \in Nat \ {0}
    /\ Writer \cap Reader = {}

VARIABLES
    next_seq, infos, seqs,   \* Indicator, in shared memory
    seq,             \* the number a writer has reserved, 0 outside Notify()
    next_seq_,       \* of each reader's process
    actual_seq,      \* local of Listen()
    lapped           \* history: a writer stored into a slot that a later
                     \* notification had reserved meanwhile

notifierVars == <<next_seq, infos, seqs, seq, next_seq_, actual_seq, lapped>>

NotifierInit ==
    /\ next_seq = 0
    /\ infos = [i \in 0 .. BufLength - 1 |-> NoInfo]
    /\ seqs = [i \in 0 .. BufLength - 1 |-> 0]
    /\ seq = [w \in Writer |-> 0]
    /\ next_seq_ = [r \in Reader |-> 0]
    /\ actual_seq = [r \in Reader |-> 0]
    /\ lapped = FALSE

\* The constructor: a process listens from now on.
Attach(r) ==
    /\ next_seq_' = [next_seq_ EXCEPT ![r] = next_seq]
    /\ UNCHANGED <<next_seq, infos, seqs, seq, actual_seq, lapped>>

NotifyReserve(w) ==
    /\ seq' = [seq EXCEPT ![w] = next_seq]
    /\ next_seq' = next_seq + 1
    /\ UNCHANGED <<infos, seqs, next_seq_, actual_seq, lapped>>

Lapped(w) == lapped \/ next_seq > seq[w] + BufLength

NotifyStoreInfo(w, info) ==
    /\ infos' = [infos EXCEPT ![seq[w] % BufLength] = info]
    /\ lapped' = Lapped(w)
    /\ UNCHANGED <<next_seq, seqs, seq, next_seq_, actual_seq>>

NotifyStoreSeq(w) ==
    /\ seqs' = [seqs EXCEPT ![seq[w] % BufLength] = seq[w]]
    /\ seq' = [seq EXCEPT ![w] = 0]
    /\ lapped' = Lapped(w)
    /\ UNCHANGED <<next_seq, infos, next_seq_, actual_seq>>

\* A reader that trusts the reserved numbers.
Readable_Reserved(r) == next_seq # next_seq_[r]

\* A reader that waits for a number after the one it needs.
Readable_Later(r) ==
    /\ next_seq # next_seq_[r]
    /\ seqs[next_seq_[r] % BufLength] > next_seq_[r]

\* Something can be read: the slot of the next number holds that number or a
\* later one.
Readable(r) ==
    /\ next_seq # next_seq_[r]
    /\ seqs[next_seq_[r] % BufLength] >= next_seq_[r]

ListenTest(r) ==
    /\ Readable(r)
    /\ actual_seq' = [actual_seq EXCEPT ![r] = seqs[next_seq_[r] % BufLength]]
    /\ UNCHANGED <<next_seq, infos, seqs, seq, next_seq_, lapped>>

\* The info that Listen() returns.
Heard(r) == infos[next_seq_[r] % BufLength]

ListenTake(r) ==
    /\ next_seq_' = [next_seq_ EXCEPT ![r] = actual_seq[r] + 1]
    /\ actual_seq' = [actual_seq EXCEPT ![r] = 0]
    /\ UNCHANGED <<next_seq, infos, seqs, seq, lapped>>
=============================================================================
