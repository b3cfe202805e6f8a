---------------------------- MODULE MailboxProofs ----------------------------
(***************************************************************************)
(* No lost wakeup, no standoff and no message lost, repeated or overtaken  *)
(* in a mailbox, for any finite number of posters, any size and any number *)
(* of posts.                                                               *)
(***************************************************************************)
EXTENDS Mailbox, FiniteSetTheorems, TLAPS

\* Posters that were woken and have not yet posted.
Woken == {s \in Posters : poster[s] = "woken"}

\* The fetcher has taken a message and is about to wake a poster for it.
Owed == IF fetcher \in {"waking", "drainwaking"} THEN 1 ELSE 0

\* While a poster sleeps, every place of the mailbox holds a message, is promised to a
\* woken poster, or its wakeup is about to be sent.
PlacesTaken == Waiting # {} => Len(queue) + Cardinality(Woken) + Owed >= Capacity

MailboxInv == TypeOK /\ NoLostWakeup /\ PlacesTaken

-----------------------------------------------------------------------------
LEMMA CapacityPositive == Capacity \in Nat /\ Capacity >= 1
  BY MailboxAssumption DEF Capacity

LEMMA WokenFinite == IsFiniteSet(Woken) /\ Cardinality(Woken) \in Nat
<1>1. Woken \subseteq Posters
  BY DEF Woken
<1> QED
  BY <1>1, MailboxAssumption, FS_Subset, FS_CardinalityType

\* How the sets of sleeping and of woken posters change with one poster.
LEMMA PosterMoves ==
    ASSUME poster \in [Posters -> PosterState], NEW s \in Posters, NEW v \in PosterState,
           poster' = [poster EXCEPT ![s] = v]
    PROVE  /\ poster' \in [Posters -> PosterState]
           /\ v # "waiting" => Waiting' = Waiting \ {s}
           /\ poster[s] # "woken" /\ v # "woken" => Cardinality(Woken') = Cardinality(Woken)
           /\ poster[s] = "woken" /\ v # "woken" =>
                 Cardinality(Woken') = Cardinality(Woken) - 1
           /\ poster[s] # "woken" /\ v = "woken" =>
                 Cardinality(Woken') = Cardinality(Woken) + 1
<1>1. \A q \in Posters : poster'[q] = IF q = s THEN v ELSE poster[q]
  OBVIOUS
<1>2. poster' \in [Posters -> PosterState]
  OBVIOUS
<1>3. v # "waiting" => Waiting' = Waiting \ {s}
  BY <1>1 DEF Waiting
<1>4. poster[s] # "woken" /\ v # "woken" => Woken' = Woken
  BY <1>1 DEF Woken
<1>5. ASSUME poster[s] = "woken", v # "woken"
      PROVE  Cardinality(Woken') = Cardinality(Woken) - 1
  <2>1. Woken' = Woken \ {s} /\ s \in Woken
    BY <1>1, <1>5 DEF Woken
  <2> QED
    BY <2>1, WokenFinite, FS_RemoveElement
<1>6. ASSUME poster[s] # "woken", v = "woken"
      PROVE  Cardinality(Woken') = Cardinality(Woken) + 1
  <2>1. Woken' = Woken \cup {s} /\ s \notin Woken
    BY <1>1, <1>6 DEF Woken
  <2> QED
    BY <2>1, WokenFinite, FS_AddElement
<1> QED
  BY <1>2, <1>3, <1>4, <1>5, <1>6

\* A step that leaves the posters alone.
LEMMA PostersStay ==
    ASSUME poster' = poster
    PROVE  Waiting' = Waiting /\ Woken' = Woken
  BY DEF Waiting, Woken

-----------------------------------------------------------------------------
LEMMA InitMailbox == Init => MailboxInv
<1> SUFFICES ASSUME Init PROVE MailboxInv
  OBVIOUS
<1>1. TypeOK
  <2>1. queue \in Seq(Message) /\ fetched \in Seq(Message)
    BY DEF Init
  <2>2. /\ poster \in [Posters -> PosterState] /\ posted \in [Posters -> Nat]
        /\ fetcher \in FetcherState
    BY DEF Init, PosterState, FetcherState
  <2> QED
    BY <2>1, <2>2 DEF Init, TypeOK
<1>2. NoLostWakeup /\ PlacesTaken
  BY DEF Init, NoLostWakeup, PlacesTaken, Waiting
<1> QED
  BY <1>1, <1>2 DEF MailboxInv

LEMMA EnqueueKeeps ==
    ASSUME MailboxInv, NEW s \in Posters, Enqueue(s), poster[s] \in {"idle", "woken"}
    PROVE  MailboxInv'
<1> DEFINE v == IF queue = <<>> THEN "waking" ELSE "idle"
           e == [from |-> s, number |-> posted[s] + 1]
<1>1. TypeOK /\ NoLostWakeup /\ PlacesTaken
  BY DEF MailboxInv
<1>2. v \in PosterState /\ v # "waiting" /\ v # "woken" /\ e \in Message
  BY <1>1 DEF PosterState, TypeOK, Message
<1>3. /\ queue' = Append(queue, e) /\ poster' = [poster EXCEPT ![s] = v]
      /\ posted' = [posted EXCEPT ![s] = @ + 1]
      /\ UNCHANGED <<fetcher, fetched, crashed>>
  BY DEF Enqueue
<1> HIDE DEF e, v
<1>4. queue' \in Seq(Message) /\ Len(queue') = Len(queue) + 1 /\ Len(queue) \in Nat
  BY <1>1, <1>2, <1>3 DEF TypeOK
<1>5. /\ poster' \in [Posters -> PosterState]
      /\ Waiting' = Waiting \ {s}
      /\ Cardinality(Woken') >= Cardinality(Woken) - 1
      /\ Cardinality(Woken') \in Int
  <2>1. poster \in [Posters -> PosterState]
    BY <1>1 DEF TypeOK
  <2>2. /\ poster' \in [Posters -> PosterState]
        /\ Waiting' = Waiting \ {s}
        /\ poster[s] # "woken" => Cardinality(Woken') = Cardinality(Woken)
        /\ poster[s] = "woken" => Cardinality(Woken') = Cardinality(Woken) - 1
    BY <1>2, <1>3, <2>1, PosterMoves
  <2>3. Cardinality(Woken) \in Nat
    BY WokenFinite
  <2> QED
    BY <2>2, <2>3
<1>6. TypeOK'
  <2>1. posted' \in [Posters -> Nat]
    BY <1>1, <1>3 DEF TypeOK
  <2> QED
    BY <1>1, <1>3, <1>4, <1>5, <2>1 DEF TypeOK
<1>7. NoLostWakeup'
  <2> SUFFICES ASSUME fetcher' = "waiting" PROVE \E q \in Posters : poster'[q] = "waking"
    BY DEF NoLostWakeup
  <2>1. CASE queue = <<>>
    BY <1>1, <1>3, <2>1 DEF v, TypeOK
  <2>2. CASE queue # <<>>
    <3>1. PICK q \in Posters : poster[q] = "waking"
      BY <1>1, <1>3, <2>2 DEF NoLostWakeup
    <3>2. poster'[q] = "waking"
      BY <1>1, <1>3, <3>1 DEF TypeOK
    <3> QED
      BY <3>2
  <2> QED
    BY <2>1, <2>2
<1>8. PlacesTaken'
  BY <1>1, <1>3, <1>4, <1>5, WokenFinite, CapacityPositive DEF PlacesTaken, Owed, Capacity
<1> QED
  BY <1>6, <1>7, <1>8 DEF MailboxInv


LEMMA SendWaitsKeeps ==
    ASSUME MailboxInv, NEW s \in Posters, SendWaits(s)
    PROVE  MailboxInv'
<1>1. TypeOK /\ NoLostWakeup
  BY DEF MailboxInv
<1>2. /\ poster' = [poster EXCEPT ![s] = "waiting"] /\ poster[s] = "idle"
      /\ UNCHANGED <<queue, fetcher, posted, fetched, crashed>>
      /\ Len(queue) = Capacity
  BY DEF SendWaits
<1>3. /\ poster' \in [Posters -> PosterState]
      /\ Cardinality(Woken') = Cardinality(Woken)
  <2>1. poster \in [Posters -> PosterState] /\ "waiting" \in PosterState
    BY <1>1 DEF TypeOK, PosterState
  <2> QED
    BY <1>2, <2>1, PosterMoves
<1>4. TypeOK'
  BY <1>1, <1>2, <1>3 DEF TypeOK
<1>5. NoLostWakeup'
  <2>1. \A q \in Posters : poster[q] = "waking" => poster'[q] = "waking"
    BY <1>1, <1>2 DEF TypeOK
  <2> QED
    BY <1>1, <1>2, <2>1 DEF NoLostWakeup
<1>6. PlacesTaken'
  BY <1>2, <1>3, WokenFinite, CapacityPositive DEF PlacesTaken, Owed, Capacity
<1> QED
  BY <1>4, <1>5, <1>6 DEF MailboxInv

LEMMA WakeFetcherKeeps ==
    ASSUME MailboxInv, NEW s \in Posters, WakeFetcher(s)
    PROVE  MailboxInv'
<1>1. TypeOK /\ PlacesTaken
  BY DEF MailboxInv
<1>2. /\ poster' = [poster EXCEPT ![s] = "idle"] /\ poster[s] = "waking"
      /\ fetcher' = IF fetcher = "waiting" THEN "woken" ELSE fetcher
      /\ UNCHANGED <<queue, posted, fetched, crashed>>
  BY DEF WakeFetcher
<1>3. /\ poster' \in [Posters -> PosterState]
      /\ Waiting' = Waiting \ {s}
      /\ Cardinality(Woken') = Cardinality(Woken)
  <2>1. poster \in [Posters -> PosterState] /\ "idle" \in PosterState
    BY <1>1 DEF TypeOK, PosterState
  <2> QED
    BY <1>2, <2>1, PosterMoves
<1>4. TypeOK'
  BY <1>1, <1>2, <1>3 DEF TypeOK, FetcherState
<1>5. NoLostWakeup'
  BY <1>2 DEF NoLostWakeup
<1>6. PlacesTaken'
  BY <1>1, <1>2, <1>3 DEF PlacesTaken, Owed, Capacity
<1> QED
  BY <1>4, <1>5, <1>6 DEF MailboxInv

\* A message is taken out and a wakeup is owed for it.
LEMMA DequeueKeeps ==
    ASSUME MailboxInv, queue # <<>>, Dequeue, fetcher \notin {"waking", "drainwaking"},
           fetcher' \in {"waking", "drainwaking"}, UNCHANGED <<poster, posted, crashed>>
    PROVE  MailboxInv'
<1>1. TypeOK /\ PlacesTaken
  BY DEF MailboxInv
<1>2. /\ queue' \in Seq(Message) /\ Len(queue') = Len(queue) - 1 /\ Len(queue) \in Nat
      /\ fetched' \in Seq(Message)
  BY <1>1 DEF TypeOK, Dequeue
<1>3. Waiting' = Waiting /\ Woken' = Woken
  BY PostersStay
<1>4. TypeOK'
  BY <1>1, <1>2 DEF TypeOK, FetcherState
<1>5. NoLostWakeup'
  BY DEF NoLostWakeup
<1>6. PlacesTaken'
  BY <1>1, <1>2, <1>3, WokenFinite, CapacityPositive DEF PlacesTaken, Owed, Capacity
<1> QED
  BY <1>4, <1>5, <1>6 DEF MailboxInv

\* The fetcher moves without a message and without a wakeup owed or paid.
LEMMA FetcherMoves ==
    ASSUME MailboxInv, UNCHANGED <<queue, poster, posted, fetched>>,
           crashed' \in BOOLEAN, fetcher' \in FetcherState,
           Owed' = Owed, fetcher' = "waiting" /\ fetcher # "waiting" => queue = <<>>
    PROVE  MailboxInv'
<1>1. TypeOK /\ NoLostWakeup /\ PlacesTaken
  BY DEF MailboxInv
<1>2. Waiting' = Waiting /\ Woken' = Woken
  BY PostersStay
<1>3. TypeOK'
  BY <1>1 DEF TypeOK
<1>4. NoLostWakeup'
  BY <1>1 DEF NoLostWakeup
<1>5. PlacesTaken'
  BY <1>1, <1>2 DEF PlacesTaken, Capacity
<1> QED
  BY <1>3, <1>4, <1>5 DEF MailboxInv

LEMMA WakePosterKeeps ==
    ASSUME MailboxInv, WakePoster
    PROVE  MailboxInv'
<1>1. TypeOK /\ PlacesTaken
  BY DEF MailboxInv
<1>2. /\ Owed = 1 /\ Owed' = 0 /\ fetcher' \in {"idle", "draining"}
      /\ UNCHANGED <<queue, posted, fetched, crashed>>
  BY DEF WakePoster, Owed
<1>3. NoLostWakeup'
  BY <1>2 DEF NoLostWakeup
<1>4. CASE Waiting = {} /\ UNCHANGED poster
  <2>1. Waiting' = Waiting
    BY <1>4, PostersStay
  <2>2. TypeOK' /\ PlacesTaken'
    BY <1>1, <1>2, <1>4, <2>1 DEF TypeOK, FetcherState, PlacesTaken
  <2> QED
    BY <1>3, <2>2 DEF MailboxInv
<1>5. ASSUME NEW s \in Waiting, poster' = [poster EXCEPT ![s] = "woken"]
      PROVE  MailboxInv'
  <2>1. s \in Posters /\ poster[s] = "waiting" /\ Waiting # {}
    BY DEF Waiting
  <2>2. poster \in [Posters -> PosterState] /\ "woken" \in PosterState
    BY <1>1 DEF TypeOK, PosterState
  <2>3. /\ poster' \in [Posters -> PosterState]
        /\ Cardinality(Woken') = Cardinality(Woken) + 1
    BY <1>5, <2>1, <2>2, PosterMoves
  <2>4. TypeOK'
    BY <1>1, <1>2, <2>3 DEF TypeOK, FetcherState
  <2>5. Len(queue) \in Nat
    BY <1>1 DEF TypeOK
  <2>6. PlacesTaken'
    BY <1>1, <1>2, <2>1, <2>3, <2>5, WokenFinite, CapacityPositive
       DEF PlacesTaken, Capacity
  <2> QED
    BY <1>3, <2>4, <2>6 DEF MailboxInv
<1> QED
  BY <1>4, <1>5 DEF WakePoster

LEMMA MailboxInductive == MailboxInv /\ [Next]_vars => MailboxInv'
<1> SUFFICES ASSUME MailboxInv, [Next]_vars PROVE MailboxInv'
  OBVIOUS
<1>0. TypeOK
  BY DEF MailboxInv
<1>1. ASSUME NEW s \in Posters, Send(s) \/ TrySend(s) \/ SendResumes(s)
      PROVE  MailboxInv'
  BY <1>1, EnqueueKeeps DEF Send, TrySend, SendResumes
<1>2. ASSUME NEW s \in Posters, SendWaits(s) PROVE MailboxInv'
  BY <1>2, SendWaitsKeeps
<1>3. ASSUME NEW s \in Posters, WakeFetcher(s) PROVE MailboxInv'
  BY <1>3, WakeFetcherKeeps
<1>4. CASE Receive
  BY <1>4, DequeueKeeps DEF Receive
<1>5. CASE ReceiveWaits
  BY <1>0, <1>5, FetcherMoves DEF ReceiveWaits, FetcherState, Owed, TypeOK
<1>6. CASE ReceiveResumes
  <2>1. CASE queue # <<>>
    BY <1>6, <2>1, DequeueKeeps DEF ReceiveResumes
  <2>2. CASE queue = <<>>
    BY <1>0, <1>6, <2>2, FetcherMoves DEF ReceiveResumes, Owed, TypeOK
  <2> QED
    BY <2>1, <2>2
<1>7. CASE ReceiveTimeout \/ StartDrain
  BY <1>0, <1>7, FetcherMoves DEF ReceiveTimeout, StartDrain, FetcherState, Owed, TypeOK
<1>8. CASE WakePoster
  BY <1>8, WakePosterKeeps
<1>9. CASE Drain
  <2>1. CASE queue # <<>>
    BY <1>9, <2>1, DequeueKeeps DEF Drain, TryFetchCode
  <2>2. CASE queue = <<>>
    BY <1>0, <1>9, <2>2, FetcherMoves DEF Drain, TryFetchCode, FetcherState, Owed, TypeOK
  <2> QED
    BY <2>1, <2>2
<1>10. CASE UNCHANGED vars
  BY <1>0, <1>10, FetcherMoves DEF vars, Owed, TypeOK
<1> QED
  BY <1>1, <1>2, <1>3, <1>4, <1>5, <1>6, <1>7, <1>8, <1>9, <1>10 DEF Next, Post

LEMMA MailboxAlways == Spec => []MailboxInv
<1>1. Init => MailboxInv
  BY InitMailbox
<1>2. MailboxInv /\ [Next]_vars => MailboxInv'
  BY MailboxInductive
<1> QED
  BY <1>1, <1>2, PTL DEF Spec

-----------------------------------------------------------------------------
(* The order of messages.  A post extends the stream of messages at its end, every *)
(* other step leaves it as it is: a fetch moves its own boundary only.              *)

LEMMA StreamType ==
    ASSUME TypeOK
    PROVE  /\ Stream \in Seq(Message)
           /\ Len(Stream) = Len(fetched) + Len(queue) /\ Len(Stream) \in Nat
           /\ \A i \in 1 .. Len(Stream) : Stream[i] \in Message
  BY DEF TypeOK, Stream

LEMMA StreamExtends ==
    ASSUME TypeOK, NEW e \in Message, queue' = Append(queue, e), fetched' = fetched
    PROVE  Stream' = Append(Stream, e)
  BY DEF TypeOK, Stream

LEMMA StreamKept ==
    ASSUME TypeOK, queue # <<>>, Dequeue
    PROVE  Stream' = Stream
<1>1. /\ queue \in Seq(Message) /\ fetched \in Seq(Message) /\ Head(queue) \in Message
      /\ queue' = Tail(queue) /\ fetched' = Append(fetched, Head(queue))
  BY DEF TypeOK, Dequeue
<1>2. Append(fetched, Head(queue)) \o Tail(queue) = fetched \o queue
  BY <1>1
<1> QED
  BY <1>1, <1>2 DEF Stream

\* A post gives the number that follows the poster's last one.
LEMMA EnqueueOrder ==
    ASSUME TypeOK, PostOrder, NEW s \in Posters, Enqueue(s)
    PROVE  PostOrder'
<1> DEFINE e == [from |-> s, number |-> posted[s] + 1]
           L == Len(Stream)
<1>1. /\ posted \in [Posters -> Nat] /\ e \in Message
      /\ posted' = [posted EXCEPT ![s] = @ + 1]
  BY DEF TypeOK, Message, Enqueue
<1>2. Stream' = Append(Stream, e)
  BY <1>1, StreamExtends DEF Enqueue
<1>3. /\ Stream \in Seq(Message) /\ L \in Nat
      /\ \A i \in 1 .. L : Stream[i] \in Message
  BY StreamType
<1>4. /\ Len(Stream') = L + 1
      /\ \A i \in 1 .. L : Stream'[i] = Stream[i]
      /\ Stream'[L + 1] = e
  BY <1>1, <1>2, <1>3
<1> HIDE DEF L
<1>5. \A q \in Posters : posted'[q] = IF q = s THEN posted[s] + 1 ELSE posted[q]
  BY <1>1
<1>6. ASSUME NEW q \in Posters, NEW n \in 1 .. posted'[q]
      PROVE  \E i \in 1 .. Len(Stream') : Stream'[i] = [from |-> q, number |-> n]
  <2>1. CASE n \in 1 .. posted[q]
    <3>1. PICK i \in 1 .. L : Stream[i] = [from |-> q, number |-> n]
      BY <2>1 DEF PostOrder, L
    <3> QED
      BY <1>3, <1>4, <3>1
  <2>2. CASE n \notin 1 .. posted[q]
    <3>1. q = s /\ n = posted[s] + 1
      BY <1>1, <1>5, <2>2
    <3> QED
      BY <1>3, <1>4, <3>1
  <2> QED
    BY <2>1, <2>2
<1>7. ASSUME NEW i \in 1 .. Len(Stream')
      PROVE  Stream'[i].number \in 1 .. posted'[Stream'[i].from]
  <2>1. CASE i \in 1 .. L
    <3>1. Stream[i].number \in 1 .. posted[Stream[i].from] /\ Stream[i].from \in Posters
      BY <1>3, <2>1 DEF PostOrder, L, Message
    <3> QED
      BY <1>1, <1>4, <1>5, <2>1, <3>1
  <2>2. CASE i = L + 1
    BY <1>1, <1>4, <1>5, <2>2
  <2> QED
    BY <1>3, <1>4, <2>1, <2>2
<1>8. ASSUME NEW i \in 1 .. Len(Stream'), NEW j \in 1 .. Len(Stream'),
             i < j, Stream'[i].from = Stream'[j].from
      PROVE  Stream'[i].number < Stream'[j].number
  <2>1. i \in 1 .. L
    BY <1>3, <1>4, <1>8
  <2>2. CASE j \in 1 .. L
    BY <1>4, <1>8, <2>1, <2>2 DEF PostOrder, L
  <2>3. CASE j = L + 1
    <3>1. Stream[i].number \in 1 .. posted[s]
      BY <1>4, <1>8, <2>1, <2>3 DEF PostOrder, L
    <3> QED
      BY <1>1, <1>4, <2>1, <2>3, <3>1
  <2> QED
    BY <1>3, <1>4, <2>2, <2>3
<1> QED
  BY <1>6, <1>7, <1>8 DEF PostOrder

LEMMA PostOrderInit == Init => PostOrder
<1> SUFFICES ASSUME Init PROVE PostOrder
  OBVIOUS
<1>1. Len(Stream) = 0
  BY DEF Init, Stream
<1> QED
  BY <1>1 DEF Init, PostOrder

LEMMA PostOrderNext == TypeOK /\ PostOrder /\ [Next]_vars => PostOrder'
<1> SUFFICES ASSUME TypeOK, PostOrder, [Next]_vars PROVE PostOrder'
  OBVIOUS
<1>1. ASSUME Stream' = Stream, posted' = posted PROVE PostOrder'
  BY <1>1 DEF PostOrder
<1>2. ASSUME NEW s \in Posters, Send(s) \/ TrySend(s) \/ SendResumes(s) PROVE PostOrder'
  BY <1>2, EnqueueOrder DEF Send, TrySend, SendResumes
<1>3. ASSUME NEW s \in Posters, SendWaits(s) \/ WakeFetcher(s) PROVE PostOrder'
  BY <1>1, <1>3 DEF SendWaits, WakeFetcher, Stream
<1>4. CASE Receive
  BY <1>1, <1>4, StreamKept DEF Receive
<1>5. CASE ReceiveWaits \/ ReceiveTimeout \/ StartDrain \/ WakePoster
  BY <1>1, <1>5 DEF ReceiveWaits, ReceiveTimeout, StartDrain, WakePoster, Stream
<1>6. CASE ReceiveResumes
  <2>1. CASE queue # <<>>
    BY <1>1, <1>6, <2>1, StreamKept DEF ReceiveResumes
  <2>2. CASE queue = <<>>
    BY <1>1, <1>6, <2>2 DEF ReceiveResumes, Stream
  <2> QED
    BY <2>1, <2>2
<1>7. CASE Drain
  <2>1. CASE queue # <<>>
    BY <1>1, <1>7, <2>1, StreamKept DEF Drain
  <2>2. CASE queue = <<>>
    BY <1>1, <1>7, <2>2 DEF Drain, Stream
  <2> QED
    BY <2>1, <2>2
<1>8. CASE UNCHANGED vars
  BY <1>1, <1>8 DEF vars, Stream
<1> QED
  BY <1>2, <1>3, <1>4, <1>5, <1>6, <1>7, <1>8 DEF Next, Post

-----------------------------------------------------------------------------
(* Results. *)

\* Every reachable state of a mailbox is well typed.
THEOREM MailboxTypes == Spec => []TypeOK
<1>1. MailboxInv => TypeOK
  BY DEF MailboxInv
<1> QED
  BY <1>1, MailboxAlways, PTL

\* Mailbox::send and Mailbox::receive lose no wakeup, although wakeOne() comes after the
\* mutex is released and only from a post into an empty queue.
THEOREM NoLostWakeupAlways == Spec => []NoLostWakeup
<1>1. MailboxInv => NoLostWakeup
  BY DEF MailboxInv
<1> QED
  BY <1>1, MailboxAlways, PTL

\* Posters and the fetcher of a mailbox never all sleep.
THEOREM NoStandoffAlways == Spec => []NoStandoff
<1>1. ASSUME MailboxInv, fetcher = "waiting", Waiting # {}
      PROVE  \E s \in Posters : poster[s] \in {"woken", "waking"}
  <2>1. CASE queue # <<>>
    BY <1>1, <2>1 DEF MailboxInv, NoLostWakeup
  <2>2. CASE queue = <<>>
    <3>1. Len(queue) = 0 /\ Owed = 0
      BY <1>1, <2>2 DEF Owed
    <3>2. Cardinality(Woken) >= 1
      BY <1>1, <3>1, CapacityPositive, WokenFinite DEF MailboxInv, PlacesTaken
    <3>3. Woken # {}
      BY <3>2, FS_EmptySet
    <3> QED
      BY <3>3 DEF Woken
  <2> QED
    BY <2>1, <2>2
<1>2. MailboxInv => NoStandoff
  BY <1>1 DEF NoStandoff
<1> QED
  BY <1>2, MailboxAlways, PTL

\* A mailbox loses, repeats and reorders no message of a poster, although a poster that
\* was woken posts without looking at the queue again and several of them may race.
THEOREM PostOrderAlways == Spec => []PostOrder
<1>1. MailboxInv => TypeOK
  BY DEF MailboxInv
<1> QED
  BY <1>1, PostOrderInit, PostOrderNext, MailboxAlways, PTL DEF Spec

=============================================================================
