------------------------------ MODULE Journal ------------------------------
(***************************************************************************)
(* The master's write-ahead journal: JournalWriter (journal_writer.cpp)   *)
(* under a single-node RaftJournal (Start, Stop, Propose).                 *)
(*                                                                         *)
(* The journal file is a sequence of records [len][seq, ts, type, data].  *)
(* Append writes a record into the std::ofstream buffer and Flush hands   *)
(* the buffer to the operating system.  A process crash keeps what the    *)
(* OS has and loses the buffer; since the ofstream also writes its buffer *)
(* out by itself whenever it fills, a crash can leave any prefix of the   *)
(* buffered bytes in the file, so the last record may be torn.            *)
(* Entry payloads are abstracted to the number of the Propose call that   *)
(* wrote them.                                                             *)
(***************************************************************************)
EXTENDS Naturals, Sequences, SequencesExt, FiniteSets

CONSTANTS
    Threads,         \* threads calling RaftJournal::Propose
    MaxSeq,          \* bound on sequence numbers, decoded ones included
    MaxProposals,    \* bound on Propose calls
    MaxCrashes,      \* bound on process crashes
    TORN             \* the bytes of a record cut short by a crash

VARIABLES
    file,          \* the journal file as the OS holds it: records and TORN
    exists,        \* fs::exists(journal_file_path_)
    buf,           \* records written into writer_ and not yet handed to the OS
    open,          \* writer_.is_open()
    next_seq,      \* JournalWriter::next_seq_
    running,       \* RaftJournal::running_
    role,          \* RaftJournal::role_
    term,          \* current_term_
    commit_index,  \* commit_index_
    last_applied,  \* last_applied_
    pc,            \* pc[t]: where thread t is inside Propose, and its entry
    acked,         \* history: payloads whose Propose returned OK
    nprop,         \* Propose calls so far (bound only)
    crashes        \* crashes so far (bound only)

vars == <<file, exists, buf, open, next_seq, running, role, term,
          commit_index, last_applied, pc, acked, nprop, crashes>>

SeqVal == 0..MaxSeq
\* JournalEntryData: sequence_number and payload (timestamp and type omitted).
Entry == [seq : SeqVal, pay : 0..MaxProposals]
Roles == {"follower", "candidate", "leader"}
PcState == {[st |-> "idle"]} \cup [st : {"flush", "commit"}, e : Entry]
Idle == [st |-> "idle"]

TypeOK ==
    /\ file \in Seq(Entry \cup {TORN})
    /\ buf \in Seq(Entry)
    /\ exists \in BOOLEAN /\ open \in BOOLEAN
    /\ next_seq \in SeqVal
    /\ running \in BOOLEAN /\ role \in Roles /\ term \in 0..1
    /\ commit_index \in SeqVal /\ last_applied \in SeqVal
    /\ pc \in [Threads -> PcState]
    /\ acked \subseteq 1..MaxProposals
    /\ nprop \in 0..MaxProposals /\ crashes \in 0..MaxCrashes

(* A fresh master: no journal file, a JournalWriter with next_seq_ = 1,   *)
(* a RaftJournal that is a stopped follower.                               *)
Init ==
    /\ file = <<>> /\ exists = FALSE
    /\ buf = <<>> /\ open = FALSE
    /\ next_seq = 1
    /\ running = FALSE /\ role = "follower" /\ term = 0
    /\ commit_index = 0 /\ last_applied = 0
    /\ pc = [t \in Threads |-> Idle]
    /\ acked = {} /\ nprop = 0 /\ crashes = 0

-----------------------------------------------------------------------------
(* Deserialize of bytes that are not one whole record: a read that starts *)
(* inside a torn record swallows the bytes of the records after it, and   *)
(* the entry it decodes has whatever sequence number those bytes hold and *)
(* a payload no Propose wrote.                                             *)
Garbage == {[seq |-> s, pay |-> 0] : s \in 0..MaxSeq}

(* JournalWriter::Replay: the entries it can deliver from the file d.  A  *)
(* torn record at the end fails its read and ends the loop; a torn record *)
(* with records after it either fails the sanity check on its length or   *)
(* reads one misaligned record, and the loop ends there.                   *)
RECURSIVE ReplayFrom(_)
ReplayFrom(d) ==
    IF d = <<>> THEN {<<>>}
    ELSE IF Head(d) = TORN
         THEN {<<>>} \cup (IF Tail(d) = <<>> THEN {}
                           ELSE {<<g>> : g \in Garbage})
         ELSE {<<Head(d)>> \o r : r \in ReplayFrom(Tail(d))}

\* A faulty variant: the callback keeps one past the largest number.
MaxReplayedSeqPlusOne(r) ==
    IF r = <<>> THEN 0 ELSE Max({r[i].seq : i \in 1..Len(r)}) + 1

(* Open's Replay callback: the largest sequence number delivered.         *)
MaxReplayedSeq(r) == IF r = <<>> THEN 0 ELSE Max({r[i].seq : i \in 1..Len(r)})

(* The model's bound: a session starts only while every replayed number  *)
(* is below MaxSeq.                                                         *)
SeqBound(r) == \A i \in 1..Len(r) : r[i].seq < MaxSeq

(* What reaches the file when the buffer b is cut off: a prefix of its     *)
(* records, then possibly the first bytes of the next one.                 *)
Cut(b) == {SubSeq(b, 1, k) : k \in 0..Len(b)}
          \cup {SubSeq(b, 1, k) \o <<TORN>> : k \in 0..Len(b) - 1}

-----------------------------------------------------------------------------
(* RaftJournal::Start: JournalWriter::Open replays an existing file to     *)
(* find the largest sequence number, then opens it for appending; with no *)
(* peers the node makes itself leader in term 1.  Sequence numbers are    *)
(* bounded by MaxSeq.                                                       *)
Start ==
    /\ ~running
    /\ \E r \in IF exists THEN ReplayFrom(file) ELSE {<<>>} :
         /\ SeqBound(r)
         /\ next_seq' = IF exists THEN MaxReplayedSeq(r) + 1 ELSE next_seq
    /\ exists' = TRUE /\ open' = TRUE
    /\ running' = TRUE /\ role' = "leader" /\ term' = 1
    /\ UNCHANGED <<file, buf, commit_index, last_applied, pc, acked, nprop, crashes>>

(* RaftJournal::Stop: running_ = false, then JournalWriter::Close, whose   *)
(* close() writes the buffer out.  The role stays leader.                  *)
Stop ==
    /\ running
    /\ running' = FALSE
    /\ file' = IF open THEN file \o buf ELSE file
    /\ buf' = <<>> /\ open' = FALSE
    /\ UNCHANGED <<exists, next_seq, role, term, commit_index, last_applied,
                   pc, acked, nprop, crashes>>

(* Propose: Unavailable unless leader; the entry takes next_seq_, which    *)
(* nothing advances, and Append writes it into the buffer under mu_, or    *)
(* returns IOError when the writer is closed.                              *)
ProposeAppend(t) ==
    /\ pc[t] = Idle /\ nprop < MaxProposals
    /\ role = "leader"
    /\ nprop' = nprop + 1
    /\ LET e == [seq |-> next_seq, pay |-> nprop + 1] IN
       IF open
       THEN /\ buf' = Append(buf, e)
            /\ pc' = [pc EXCEPT ![t] = [st |-> "flush", e |-> e]]
       ELSE UNCHANGED <<buf, pc>>
    /\ UNCHANGED <<file, exists, open, next_seq, running, role, term,
                   commit_index, last_applied, acked, crashes>>

\* A faulty variant: Propose commits without calling Flush.
ProposeNoFlush(t) ==
    /\ pc[t].st = "flush"
    /\ pc' = [pc EXCEPT ![t].st = "commit"]
    /\ UNCHANGED <<file, exists, buf, open, next_seq, running, role, term,
                   commit_index, last_applied, acked, nprop, crashes>>

(* Flush under mu_: the whole buffer, other threads' records included,    *)
(* goes to the OS (a Stop's Close may have taken it already).  The model's *)
(* file system accepts every write.                                        *)
ProposeFlush(t) ==
    /\ pc[t].st = "flush"
    /\ file' = IF open THEN file \o buf ELSE file
    /\ buf' = IF open THEN <<>> ELSE buf
    /\ pc' = [pc EXCEPT ![t].st = "commit"]
    /\ UNCHANGED <<exists, open, next_seq, running, role, term,
                   commit_index, last_applied, acked, nprop, crashes>>

(* Propose's single-node commit: commit_index_ and last_applied_ take the  *)
(* entry's sequence number, the commit callback runs, and it returns OK.   *)
ProposeCommit(t) ==
    /\ pc[t].st = "commit"
    /\ commit_index' = pc[t].e.seq /\ last_applied' = pc[t].e.seq
    /\ acked' = acked \cup {pc[t].e.pay}
    /\ pc' = [pc EXCEPT ![t] = Idle]
    /\ UNCHANGED <<file, exists, buf, open, next_seq, running, role, term,
                   nprop, crashes>>

(* The master process dies: every member is lost, the file keeps what the *)
(* OS had, and the buffer reaches it only as far as the ofstream had      *)
(* already written it out.                                                  *)
Crash ==
    /\ crashes < MaxCrashes
    /\ crashes' = crashes + 1
    /\ \E c \in Cut(buf) : file' = file \o c
    /\ buf' = <<>> /\ open' = FALSE
    /\ next_seq' = 1
    /\ running' = FALSE /\ role' = "follower" /\ term' = 0
    /\ commit_index' = 0 /\ last_applied' = 0
    /\ pc' = [t \in Threads |-> Idle]
    /\ UNCHANGED <<exists, acked, nprop>>

Next ==
    \/ Start
    \/ Stop
    \/ \E t \in Threads : ProposeAppend(t) \/ ProposeFlush(t) \/ ProposeCommit(t)
    \/ Crash

Spec == Init /\ [][Next]_vars

-----------------------------------------------------------------------------
(* Propose returns OK only for an entry the OS holds: the Flush before the *)
(* commit moves it out of the ofstream buffer, even when another thread's *)
(* Flush took it, or a Stop's Close did, before this thread's own Flush.   *)
AcknowledgedInFile ==
    \A n \in acked : \E i \in 1..Len(file) : file[i] # TORN /\ file[i].pay = n

(* Every entry whose Propose returned OK is delivered by every Replay of   *)
(* the file: the journal is what the master recovers from.                *)
AcknowledgedReplayed ==
    \A n \in acked, r \in ReplayFrom(file) : \E i \in 1..Len(r) : r[i].pay = n

(* The entries of the file carry strictly increasing sequence numbers, as *)
(* Propose's "assign sequence number" and Open's max + 1 expect.           *)
SeqIncreasing ==
    \A i, j \in 1..Len(file) :
        i < j /\ file[i] # TORN /\ file[j] # TORN => file[i].seq < file[j].seq

=============================================================================
