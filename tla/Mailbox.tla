------------------------------- MODULE Mailbox -------------------------------
(***************************************************************************)
(* The mailboxes of the lwIP port (lwip/port/Mailbox.cpp and the sys_mbox  *)
(* functions of lwip/port/arch.cpp): a queue under a mutex, with one wait  *)
(* condition for posters that find it full and one for a fetcher that      *)
(* finds it empty.  Any number of threads post; one thread fetches, as     *)
(* tcpip_thread does from its mailbox and the owner of a connection from   *)
(* the connection's.                                                       *)
(*                                                                         *)
(* A critical section is one step.  wakeOne() is called after the mutex is *)
(* released and is a step of its own; a thread woken from wait() takes the *)
(* mutex again in a later step.                                            *)
(***************************************************************************)
EXTENDS Naturals, Sequences, FiniteSets

CONSTANTS
    Posters,     \* threads that post
    Size,        \* the argument of sys_mbox_new
    MaxPosts     \* bound: messages of one poster

ASSUME MailboxAssumption ==
    /\ IsFiniteSet(Posters)
    /\ Size \in Nat
    /\ MaxPosts \in Nat

VARIABLES
    queue,      \* messages in the mailbox, oldest first
    poster,     \* poster[s]: where poster s is
    fetcher,    \* where the fetching thread is
    posted,     \* posted[s]: number of messages s has put into the queue
    fetched,    \* messages taken out, in order
    crashed     \* the process dequeued from an empty queue

vars == <<queue, poster, fetcher, posted, fetched, crashed>>

PosterState == {"idle",      \* outside send() and trySend()
                "waiting",   \* in sendWait.wait()
                "woken",     \* woken from it, about to take the mutex
                "waking"}    \* about to call recvWait.wakeOne()

FetcherState == {"idle", "waiting", "woken", "waking",
                 "draining",     \* in the loop of netconn_free
                 "drainwaking",  \* in it, about to call sendWait.wakeOne()
                 "closed"}       \* past it

Message == [from : Posters, number : Nat]

-----------------------------------------------------------------------------
\* MailboxPrivate: a size of zero stands for 64.
Capacity == IF Size = 0 THEN 64 ELSE Size

Waiting == {s \in Posters : poster[s] = "waiting"}

Init ==
    /\ queue = <<>>
    /\ poster = [s \in Posters |-> "idle"]
    /\ fetcher = "idle"
    /\ posted = [s \in Posters |-> 0]
    /\ fetched = <<>>
    /\ crashed = FALSE

\* Mutant: an item that no poster gave is put in the queue.
EnqueueNull(s) ==
    /\ queue' = Append(queue, [from |-> 0, number |-> 0])
    /\ posted' = [posted EXCEPT ![s] = @ + 1]
    /\ poster' = [poster EXCEPT ![s] = IF queue = <<>> THEN "waking" ELSE "idle"]
    /\ UNCHANGED <<fetcher, fetched, crashed>>

\* Mutant: the queue is tested for emptiness after enqueue().
EnqueueThenTest(s) ==
    /\ queue' = Append(queue, [from |-> s, number |-> posted[s] + 1])
    /\ posted' = [posted EXCEPT ![s] = @ + 1]
    /\ poster' = [poster EXCEPT ![s] = IF queue' = <<>> THEN "waking" ELSE "idle"]
    /\ UNCHANGED <<fetcher, fetched, crashed>>

\* enqueue() and unlock(): the fetcher is to be woken if the queue was empty.
Enqueue(s) ==
    /\ queue' = Append(queue, [from |-> s, number |-> posted[s] + 1])
    /\ posted' = [posted EXCEPT ![s] = @ + 1]
    /\ poster' = [poster EXCEPT ![s] = IF queue = <<>> THEN "waking" ELSE "idle"]
    /\ UNCHANGED <<fetcher, fetched, crashed>>

\* send() that finds the mailbox full.
SendWaits(s) ==
    /\ poster[s] = "idle" /\ posted[s] < MaxPosts
    /\ Len(queue) = Capacity
    /\ poster' = [poster EXCEPT ![s] = "waiting"]
    /\ UNCHANGED <<queue, fetcher, posted, fetched, crashed>>

\* send() and trySend() that find room; a trySend() that finds none changes nothing.
Send(s) ==
    /\ poster[s] = "idle" /\ posted[s] < MaxPosts
    /\ Len(queue) # Capacity
    /\ Enqueue(s)

TrySend(s) ==
    /\ poster[s] = "idle" /\ posted[s] < MaxPosts
    /\ Len(queue) < Capacity
    /\ Enqueue(s)

\* send() after wait(): the test for a full queue is not made again.
SendResumes(s) ==
    /\ poster[s] = "woken"
    /\ Enqueue(s)

WakeFetcher(s) ==
    /\ poster[s] = "waking"
    /\ poster' = [poster EXCEPT ![s] = "idle"]
    /\ fetcher' = IF fetcher = "waiting" THEN "woken" ELSE fetcher
    /\ UNCHANGED <<queue, posted, fetched, crashed>>

\* Mutant: a stack in place of the queue.
DequeueLast ==
    /\ queue' = SubSeq(queue, 1, Len(queue) - 1)
    /\ fetched' = Append(fetched, queue[Len(queue)])

Dequeue ==
    /\ queue' = Tail(queue)
    /\ fetched' = Append(fetched, Head(queue))

\* receive() that finds a message.
Receive ==
    /\ fetcher = "idle" /\ queue # <<>>
    /\ Dequeue
    /\ fetcher' = "waking"
    /\ UNCHANGED <<poster, posted, crashed>>

ReceiveWaits ==
    /\ fetcher = "idle" /\ queue = <<>>
    /\ fetcher' = "waiting"
    /\ UNCHANGED <<queue, poster, posted, fetched, crashed>>

\* receive() after wait(): it dequeues without looking.  Taking the first of no
\* elements is undefined in QQueue and ends the model's run.
ReceiveResumes ==
    /\ fetcher = "woken"
    /\ \/ /\ queue # <<>>
          /\ Dequeue
          /\ fetcher' = "waking"
          /\ UNCHANGED crashed
       \/ /\ queue = <<>>
          /\ crashed' = TRUE
          /\ UNCHANGED <<queue, fetcher, fetched>>
    /\ UNCHANGED <<poster, posted>>

\* wait() reports a timeout, receive() returns false: SYS_ARCH_TIMEOUT.
ReceiveTimeout ==
    /\ fetcher = "waiting"
    /\ fetcher' = "idle"
    /\ UNCHANGED <<queue, poster, posted, fetched, crashed>>

\* Mutant: sendWait.wakeOne() is left out.
WakePosterSilent ==
    /\ fetcher \in {"waking", "drainwaking"}
    /\ fetcher' = IF fetcher = "waking" THEN "idle" ELSE "draining"
    /\ UNCHANGED <<queue, poster, posted, fetched, crashed>>

WakePoster ==
    /\ fetcher \in {"waking", "drainwaking"}
    /\ fetcher' = IF fetcher = "waking" THEN "idle" ELSE "draining"
    /\ \/ \E s \in Waiting : poster' = [poster EXCEPT ![s] = "woken"]
       \/ Waiting = {} /\ UNCHANGED poster
    /\ UNCHANGED <<queue, posted, fetched, crashed>>

\* netconn_free begins when the connection is deleted.
StartDrain ==
    /\ fetcher = "idle"
    /\ fetcher' = "draining"
    /\ UNCHANGED <<queue, poster, posted, fetched, crashed>>

\* sys_arch_mbox_tryfetch: the value returned for a message and for none.
TryFetchCode(ret) == IF ret THEN "ERR_OK" ELSE "ERR_OK"

\* One turn of while(sys_mbox_tryfetch(...) != SYS_MBOX_EMPTY).
Drain ==
    /\ fetcher = "draining"
    /\ \/ /\ queue # <<>>
          /\ Dequeue
          /\ fetcher' = IF TryFetchCode(TRUE) = "SYS_MBOX_EMPTY" THEN "closed"
                                                                 ELSE "drainwaking"
       \/ /\ queue = <<>>
          /\ fetcher' = IF TryFetchCode(FALSE) = "SYS_MBOX_EMPTY" THEN "closed"
                                                                  ELSE "draining"
          /\ UNCHANGED <<queue, fetched>>
    /\ UNCHANGED <<poster, posted, crashed>>

Post(s) == SendWaits(s) \/ Send(s) \/ TrySend(s)

Next ==
    /\ ~crashed
    /\ \/ \E s \in Posters : Post(s) \/ SendResumes(s) \/ WakeFetcher(s)
       \/ Receive \/ ReceiveWaits \/ ReceiveResumes \/ ReceiveTimeout
       \/ WakePoster \/ StartDrain \/ Drain

\* Threads run: a thread that holds or can take the mutex goes on, and the fetching
\* thread comes back for the next message.  Posting and timeouts are not promised.
Fairness ==
    /\ \A s \in Posters : WF_vars(~crashed /\ (SendResumes(s) \/ WakeFetcher(s)))
    /\ WF_vars(~crashed /\ (Receive \/ ReceiveWaits \/ ReceiveResumes \/ WakePoster
                            \/ Drain))

Spec == Init /\ [][Next]_vars

FairSpec == Spec /\ Fairness

-----------------------------------------------------------------------------
(* Properties. *)

\* Types of the variables.
TypeOK ==
    /\ queue \in Seq(Message)
    /\ poster \in [Posters -> PosterState]
    /\ fetcher \in FetcherState
    /\ posted \in [Posters -> Nat]
    /\ fetched \in Seq(Message)
    /\ crashed \in BOOLEAN

\* No lost wakeup: while the fetcher sleeps on a mailbox that holds a message, some
\* poster has yet to call wakeOne(), although only the message that found the queue
\* empty asks for it.
NoLostWakeup ==
    fetcher = "waiting" /\ queue # <<>> => \E s \in Posters : poster[s] = "waking"

\* Posters and the fetcher never all sleep: with a poster asleep on a full mailbox
\* and the fetcher asleep on an empty one, a thread that was woken or that will wake
\* another is under way, although each fetch wakes one poster only and wakeOne()
\* comes after the mutex was released.
NoStandoff ==
    fetcher = "waiting" /\ Waiting # {} =>
        \E s \in Posters : poster[s] \in {"woken", "waking"}

\* The messages posted so far, in the order in which they come out.
Stream == fetched \o queue

\* The messages of one poster come out once each and in the order posted: each number
\* up to the last one posted is in the stream, no other is, and numbers grow.
PostOrder ==
    /\ \A s \in Posters : \A n \in 1 .. posted[s] :
          \E i \in 1 .. Len(Stream) : Stream[i] = [from |-> s, number |-> n]
    /\ \A i \in 1 .. Len(Stream) : Stream[i].number \in 1 .. posted[Stream[i].from]
    /\ \A i, j \in 1 .. Len(Stream) :
          i < j /\ Stream[i].from = Stream[j].from => Stream[i].number < Stream[j].number

\* A post that had to wait for room is completed, and what is in the mailbox is
\* fetched, unless the fetcher first crashes on an empty queue or drains.
PostCompletes ==
    \A s \in Posters :
        (poster[s] = "waiting") ~>
            (poster[s] # "waiting" \/ crashed \/ fetcher = "draining")

MailboxEmpties == (queue # <<>>) ~> (queue = <<>> \/ crashed)

\* sys_arch.txt on sys_mbox_new: a mailbox for maximum "size" elements.
WithinSize == Len(queue) <= Capacity

\* sys_arch.txt on sys_arch_mbox_fetch: it blocks until a message arrives, so a
\* fetch that goes on without a timeout has a message to take.
FetchFindsMessage == ~crashed

=============================================================================
