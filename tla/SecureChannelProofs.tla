------------------------- MODULE SecureChannelProofs -------------------------
(* The order of packets on a channel, for every set of hosts. *)
EXTENDS SecureChannel, TLAPS

\* A sequence of numbers that increases and stays below n, and so still after the
\* next number is appended or a suffix is cut off.
UpTo(s, n) == Increasing(s) /\ \A i \in 1 .. Len(s) : s[i] <= n

\* Appending the next packet number keeps the order.
LEMMA AppendNext ==
    ASSUME NEW s \in Seq(Nat), NEW n \in Nat, UpTo(s, n)
    PROVE  UpTo(Append(s, n + 1), n + 1)
BY DEF UpTo, Increasing

\* A prefix of an ordered sequence is ordered.
LEMMA PrefixOrdered ==
    ASSUME NEW s \in Seq(Nat), NEW t \in Seq(Nat), NEW n \in Nat, UpTo(s \o t, n)
    PROVE  UpTo(s, n)
<1>1. /\ Len(s \o t) = Len(s) + Len(t)
      /\ \A i \in 1 .. Len(s) : (s \o t)[i] = s[i]
  OBVIOUS
<1>2. Len(s) \in Nat /\ Len(t) \in Nat
  OBVIOUS
<1>3. \A i \in 1 .. Len(s) : i \in 1 .. Len(s \o t)
  BY <1>1, <1>2
<1>4. Increasing(s)
  BY <1>1, <1>3 DEF UpTo, Increasing
<1>5. \A i \in 1 .. Len(s) : s[i] <= n
  BY <1>1, <1>3 DEF UpTo
<1> QED BY <1>4, <1>5 DEF UpTo

\* Appending to the second of two sequences appends to their concatenation.
LEMMA ConcatAppend ==
    ASSUME NEW s \in Seq(Nat), NEW t \in Seq(Nat), NEW n \in Nat
    PROVE  s \o Append(t, n) = Append(s \o t, n)
OBVIOUS

\* Nothing follows an empty outbox.
LEMMA ConcatEmpty ==
    ASSUME NEW s \in Seq(Nat)
    PROVE  s \o <<>> = s
OBVIOUS

Inv == Shape /\ InOrder

LEMMA InvInit == Init => Inv
<1> SUFFICES ASSUME Init PROVE Inv
  OBVIOUS
<1>1. Shape
  BY DEF Init, Shape
<1>2. InOrder
  BY DEF Init, InOrder, Increasing
<1> QED BY <1>1, <1>2 DEF Inv

LEMMA InvNext == Inv /\ [Next]_vars => Inv'
<1> SUFFICES ASSUME Inv, [Next]_vars PROVE Inv'
  OBVIOUS
<1>1. CASE UNCHANGED vars
  BY <1>1 DEF Inv, Shape, InOrder, Increasing, vars
<1>2. CASE Next
  <2>1. Shape /\ Shape' /\ InOrder
    BY <1>2 DEF Next, Inv
  <2>2. ASSUME NEW h \in Hosts, NEW p \in Hosts
        PROVE  UpTo(wire'[h][p] \o outbox'[h][p], accepted'[h][p])
    <3> DEFINE w == wire[h][p]
               o == outbox[h][p]
               n == accepted[h][p]
    <3>1. /\ w \in Seq(Nat) /\ o \in Seq(Nat) /\ n \in Nat
          /\ UpTo(w \o o, n)
      BY <2>1 DEF Shape, InOrder, UpTo
    <3>2. w \o o \in Seq(Nat)
      BY <3>1
    <3>3. CASE Accept(h, p)
      <4>1. CASE outbox'[h][p] = Append(o, n + 1) /\ wire'[h][p] = w
        <5>1. wire'[h][p] \o outbox'[h][p] = Append(w \o o, n + 1)
          <6>1. n + 1 \in Nat
            BY <3>1
          <6>2. w \o Append(o, n + 1) = Append(w \o o, n + 1)
            BY <3>1, <6>1, ConcatAppend
          <6> QED BY <4>1, <6>2
        <5> QED BY <3>1, <3>2, <3>3, <5>1, AppendNext DEF Accept
      <4>2. CASE o = <<>> /\ outbox'[h][p] = <<>> /\ wire'[h][p] = Append(w, n + 1)
        <5>1. w \o o = w
          BY <3>1, <4>2, ConcatEmpty
        <5>2. Append(w, n + 1) \in Seq(Nat)
          BY <3>1
        <5>3. wire'[h][p] \o outbox'[h][p] = Append(w, n + 1)
          BY <4>2, <5>2, ConcatEmpty
        <5> QED BY <3>1, <3>3, <5>1, <5>3, AppendNext DEF Accept
      <4> QED BY <3>3, <4>1, <4>2 DEF Accept
    <3>4. CASE Release(h, p)
      <4>1. wire'[h][p] \o outbox'[h][p] = w \o o
        BY <3>2, <3>4, ConcatEmpty DEF Release
      <4> QED BY <3>1, <3>4, <4>1 DEF Release
    <3>5. CASE Drop(h, p)
      <4>1. wire'[h][p] \o outbox'[h][p] = w
        BY <3>1, <3>5, ConcatEmpty DEF Drop
      <4>2. UpTo(w, n)
        BY <3>1, PrefixOrdered
      <4> QED BY <3>5, <4>1, <4>2 DEF Drop
    <3>6. CASE Keep(h, p)
      BY <3>1, <3>6 DEF Keep
    <3> QED BY <1>2, <3>3, <3>4, <3>5, <3>6 DEF Next
  <2>3. InOrder'
    BY <2>2 DEF InOrder, UpTo
  <2> QED BY <2>1, <2>3 DEF Inv
<1> QED BY <1>1, <1>2

\* The channel never reorders, repeats or lets a packet overtake: what
\* sendEncryptedPacket promises, for every number of hosts and packets.
THEOREM ChannelInOrder == Spec => []InOrder
<1>1. Inv => InOrder
  BY DEF Inv
<1> QED BY InvInit, InvNext, <1>1, PTL DEF Spec

=============================================================================
