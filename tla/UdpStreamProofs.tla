-------------------------- MODULE UdpStreamProofs --------------------------
(***************************************************************************)
(* Proofs about UdpStream for any lengths, sizes, waits and bounds: its    *)
(* types, that what comes out is what went in up to some datagram, and     *)
(* that it implements the safety part of Datagrams.                        *)
(*                                                                         *)
(* The bytes on their way are those in the buffer of run, in the slice     *)
(* that is being written, between the two ends and in c.read, in this      *)
(* order.  The invariant says that they can be cut into the frames of the  *)
(* datagrams taken and not sent, with empty frames between them.  Where    *)
(* the cuts are is not in the state: there is a function that says so, and *)
(* every step has a new one.                                               *)
(***************************************************************************)
EXTENDS UdpStream, SequenceTheorems, TLAPS

Bytes == Seq(Nat)
Datagram == {d \in Bytes : Len(d) > 0}

-----------------------------------------------------------------------------
(* Sequences of bytes.                                                     *)

\* A sequence is its first k elements and the rest.
LEMMA Parts ==
  ASSUME NEW S, NEW s \in Seq(S), NEW k \in 0..Len(s)
  PROVE  /\ SubSeq(s, 1, k) \in Seq(S) /\ Len(SubSeq(s, 1, k)) = k
         /\ Rest(s, k) \in Seq(S) /\ Len(Rest(s, k)) = Len(s) - k
         /\ \A i \in 1..Len(s) - k : Rest(s, k)[i] = s[k + i]
         /\ SubSeq(s, 1, k) \o Rest(s, k) = s
<1>1. Len(s) \in Nat /\ \A i \in 1..Len(s) : s[i] \in S
  BY LenProperties, ElementOfSeq
<1>2. /\ SubSeq(s, 1, k) \in Seq(S) /\ Len(SubSeq(s, 1, k)) = k
      /\ \A i \in 1..k : SubSeq(s, 1, k)[i] = s[i]
  <2>1. \A i \in 1..k : s[i] \in S
    BY <1>1
  <2> QED
    BY <1>1, <2>1, SubSeqProperties
<1>3. /\ Rest(s, k) \in Seq(S) /\ Len(Rest(s, k)) = Len(s) - k
      /\ \A i \in 1..Len(s) - k : Rest(s, k)[i] = s[k + i]
  <2>1. \A i \in k + 1..Len(s) : s[i] \in S
    BY <1>1
  <2> QED
    BY <1>1, <2>1, SubSeqProperties DEF Rest
<1>4. SubSeq(s, 1, k) \o Rest(s, k) = s
  <2> DEFINE t == SubSeq(s, 1, k) \o Rest(s, k)
  <2>1. /\ t \in Seq(S) /\ Len(t) = k + (Len(s) - k)
        /\ \A i \in 1..k + (Len(s) - k) :
             t[i] = IF i <= k THEN SubSeq(s, 1, k)[i] ELSE Rest(s, k)[i - k]
    BY <1>2, <1>3, ConcatProperties
  <2> HIDE DEF t
  <2>2. Len(t) = Len(s)
    BY <1>1, <2>1
  <2>3. ASSUME NEW i \in 1..Len(t)
        PROVE  t[i] = s[i]
    <3>1. CASE i <= k
      BY <3>1, <1>1, <1>2, <2>1, <2>2
    <3>2. CASE i > k
      <4>1. i - k \in 1..Len(s) - k /\ k + (i - k) = i
        BY <3>2, <1>1, <2>2
      <4> QED
        BY <4>1, <3>2, <1>1, <1>3, <2>1, <2>2
    <3> QED
      BY <3>1, <3>2, <1>1
  <2>4. t = s
    BY <2>1, <2>2, <2>3, SeqEqual
  <2> QED
    BY <2>4 DEF t
<1> QED
  BY <1>2, <1>3, <1>4

\* A piece moves from the head of a sequence to the end of the one before it.
LEMMA Move ==
  ASSUME NEW S, NEW a \in Seq(S), NEW b \in Seq(S), NEW k \in 0..Len(b)
  PROVE  (a \o SubSeq(b, 1, k)) \o Rest(b, k) = a \o b
<1> DEFINE p == SubSeq(b, 1, k)
           q == Rest(b, k)
<1>1. p \in Seq(S) /\ q \in Seq(S) /\ p \o q = b
  BY Parts
<1> HIDE DEF p, q
<1>2. (a \o p) \o q = a \o (p \o q)
  <2>1. \A x, y, z \in Seq(S) : (x \o y) \o z = x \o (y \o z)
    BY ConcatAssociative, SMTT(40)
  <2> QED
    BY <1>1, <2>1, ZenonT(60)
<1>3. (a \o p) \o q = a \o b
  BY <1>1, <1>2
<1> QED
  BY <1>3 DEF p, q

\* Three sequences of bytes that follow each other.
LEMMA Associative ==
  ASSUME NEW a \in Bytes, NEW b \in Bytes, NEW c \in Bytes
  PROVE  (a \o b) \o c = a \o (b \o c)
<1>1. a \in Seq(Nat) /\ b \in Seq(Nat) /\ c \in Seq(Nat)
  BY DEF Bytes
<1>2. \A x, y, z \in Seq(Nat) : (x \o y) \o z = x \o (y \o z)
  BY ConcatAssociative, SMTT(40)
<1> QED
  BY <1>1, <1>2, Zenon

\* Two sequences of bytes that follow each other.
LEMMA Joined ==
  ASSUME NEW a \in Bytes, NEW b \in Bytes
  PROVE  /\ a \o b \in Bytes /\ Len(a \o b) = Len(a) + Len(b)
         /\ \A i \in 1..Len(a) : (a \o b)[i] = a[i]
         /\ \A i \in 1..Len(b) : (a \o b)[Len(a) + i] = b[i]
<1>1. Len(a) \in Nat /\ Len(b) \in Nat
  BY LenProperties DEF Bytes
<1> QED
  BY <1>1, ConcatProperties DEF Bytes

\* A header determines the length of its datagram.
LEMMA HeaderOf ==
  ASSUME NEW n \in Nat
  PROVE  n % 256 \in Nat /\ n \div 256 \in Nat /\ (n % 256) + 256 * (n \div 256) = n
OBVIOUS

\* A frame is its header and its datagram.
LEMMA FrameBytes ==
  ASSUME NEW d \in Bytes
  PROVE  /\ Frame(d) \in Bytes /\ Len(Frame(d)) = 2 + Len(d)
         /\ Frame(d)[1] = Len(d) % 256 /\ Frame(d)[2] = Len(d) \div 256
         /\ \A i \in 1..Len(d) : Frame(d)[2 + i] = d[i]
<1> DEFINE h == <<Len(d) % 256, Len(d) \div 256>>
<1>1. Len(d) \in Nat
  BY LenProperties DEF Bytes
<1>2. h \in Bytes /\ Len(h) = 2 /\ h[1] = Len(d) % 256 /\ h[2] = Len(d) \div 256
  BY <1>1, HeaderOf DEF Bytes
<1> HIDE DEF h
<1>3. Frame(d) = h \o d
  BY DEF Frame, h
<1>4. 1 \in 1..Len(h) /\ 2 \in 1..Len(h)
  BY <1>2
<1>5. /\ h \o d \in Bytes /\ Len(h \o d) = Len(h) + Len(d)
      /\ \A i \in 1..Len(h) : (h \o d)[i] = h[i]
      /\ \A i \in 1..Len(d) : (h \o d)[Len(h) + i] = d[i]
  BY <1>2, Joined, ZenonT(60)
<1> QED
  BY <1>2, <1>3, <1>4, <1>5, ZenonT(60)

-----------------------------------------------------------------------------
(* Sequences of datagrams.                                                 *)

\* What is behind the first k elements, when there is one more element.
LEMMA RestGrows ==
  ASSUME NEW S, NEW s \in Seq(S), NEW k \in 0..Len(s), NEW e \in S
  PROVE  /\ Rest(Append(s, e), k) = Append(Rest(s, k), e)
         /\ SubSeq(Append(s, e), 1, k) = SubSeq(s, 1, k)
<1> DEFINE t == Append(s, e)
           a == Rest(t, k)
           b == Append(Rest(s, k), e)
<1>1. /\ t \in Seq(S) /\ Len(t) = Len(s) + 1 /\ t[Len(s) + 1] = e
      /\ \A i \in 1..Len(s) : t[i] = s[i]
      /\ Len(s) \in Nat
  BY AppendProperties, LenProperties
<1> HIDE DEF t
<1>2. k \in 0..Len(t)
  BY <1>1
<1>3. /\ a \in Seq(S) /\ Len(a) = Len(s) + 1 - k
      /\ \A i \in 1..Len(s) + 1 - k : a[i] = t[k + i]
  BY <1>1, <1>2, Parts
<1>4. /\ Rest(s, k) \in Seq(S) /\ Len(Rest(s, k)) = Len(s) - k
      /\ \A i \in 1..Len(s) - k : Rest(s, k)[i] = s[k + i]
  BY Parts
<1>5. /\ b \in Seq(S) /\ Len(b) = Len(s) - k + 1 /\ b[Len(s) - k + 1] = e
      /\ \A i \in 1..Len(s) - k : b[i] = Rest(s, k)[i]
  BY <1>4, AppendProperties
<1> HIDE DEF a, b
<1>6. ASSUME NEW i \in 1..Len(a)
      PROVE  a[i] = b[i]
  <2>1. CASE i = Len(s) - k + 1
    <3>1. k + i = Len(s) + 1 /\ i \in 1..Len(s) + 1 - k
      BY <1>1, <2>1
    <3>2. a[i] = e
      BY <1>1, <1>3, <3>1
    <3> QED
      BY <1>5, <2>1, <3>2
  <2>2. CASE i # Len(s) - k + 1
    <3>1. i \in 1..Len(s) - k /\ i \in 1..Len(s) + 1 - k /\ k + i \in 1..Len(s)
      <4>1. i \in 1..Len(s) + 1 - k
        BY <1>3
      <4>2. Len(s) \in Nat
        BY <1>1
      <4> QED
        BY <4>1, <4>2, <2>2
    <3>2. a[i] = s[k + i]
      BY <1>1, <1>3, <3>1
    <3>3. b[i] = s[k + i]
      BY <1>4, <1>5, <3>1
    <3> QED
      BY <3>2, <3>3
  <2> QED
    BY <2>1, <2>2
<1>7. Len(a) = Len(b)
  BY <1>1, <1>3, <1>5
<1>8. a = b
  BY <1>3, <1>5, <1>6, <1>7, SeqEqual
<1>9. SubSeq(t, 1, k) = SubSeq(s, 1, k)
  <2> DEFINE p == SubSeq(t, 1, k)
             q == SubSeq(s, 1, k)
  <2>1. p \in Seq(S) /\ Len(p) = k /\ q \in Seq(S) /\ Len(q) = k
    BY <1>1, <1>2, Parts
  <2>2. \A i \in 1..k : t[i] \in S /\ s[i] \in S
    BY <1>1, ElementOfSeq
  <2>3. \A i \in 1..k : p[i] = t[i] /\ q[i] = s[i]
    BY <1>1, <2>2, SubSeqProperties
  <2> HIDE DEF p, q
  <2>4. \A i \in 1..k : p[i] = q[i]
    BY <1>1, <2>3
  <2>5. p = q
    BY <2>1, <2>4, SeqEqual
  <2> QED
    BY <2>5 DEF p, q
<1> QED
  BY <1>8, <1>9 DEF a, b, t

\* What is behind the first k elements, when one of it goes to them.
LEMMA RestDrops ==
  ASSUME NEW S, NEW s \in Seq(S), NEW k \in Nat, k + 1 <= Len(s)
  PROVE  /\ Rest(Rest(s, k), 1) = Rest(s, k + 1)
         /\ Tail(Rest(s, k)) = Rest(s, k + 1)
         /\ Rest(s, k) # <<>> /\ Head(Rest(s, k)) = Rest(s, k)[1]
         /\ SubSeq(s, 1, k + 1) = Append(SubSeq(s, 1, k), Rest(s, k)[1])
<1> DEFINE r == Rest(s, k)
           a == Rest(r, 1)
           b == Rest(s, k + 1)
<1>1. Len(s) \in Nat /\ k \in 0..Len(s) /\ k + 1 \in 0..Len(s)
  BY LenProperties
<1>2. /\ r \in Seq(S) /\ Len(r) = Len(s) - k
      /\ \A i \in 1..Len(s) - k : r[i] = s[k + i]
  BY <1>1, Parts
<1> HIDE DEF r
<1>3. 1 \in 0..Len(r)
  BY <1>1, <1>2
<1>4. /\ a \in Seq(S) /\ Len(a) = Len(r) - 1
      /\ \A i \in 1..Len(r) - 1 : a[i] = r[1 + i]
  <2>1. r \in Seq(S)
    BY <1>2
  <2> QED
    BY <1>3, <2>1, Parts
<1>5. /\ b \in Seq(S) /\ Len(b) = Len(s) - (k + 1)
      /\ \A i \in 1..Len(s) - (k + 1) : b[i] = s[k + 1 + i]
  BY <1>1, Parts
<1> HIDE DEF a, b
<1>6. a = b
  <2>1. ASSUME NEW i \in 1..Len(a)
        PROVE  a[i] = b[i]
    <3>1. /\ 1 + i \in 1..Len(s) - k /\ i \in 1..Len(r) - 1
          /\ i \in 1..Len(s) - (k + 1) /\ k + (1 + i) = k + 1 + i
      BY <1>1, <1>2, <1>4
    <3>2. a[i] = s[k + (1 + i)]
      BY <1>2, <1>4, <3>1
    <3>3. b[i] = s[k + 1 + i]
      BY <1>5, <3>1
    <3> QED
      BY <3>1, <3>2, <3>3
  <2>2. Len(a) = Len(b)
    BY <1>1, <1>2, <1>4, <1>5
  <2> QED
    BY <1>4, <1>5, <2>1, <2>2, SeqEqual
<1>7. r # <<>>
  BY <1>1, <1>2, EmptySeq
<1>8. Tail(r) = a
  <2>1. Tail(r) = SubSeq(r, 2, Len(r))
    BY <1>2, <1>7, TailIsSubSeq
  <2>2. 1 + 1 = 2
    OBVIOUS
  <2> QED
    BY <2>1, <2>2 DEF Rest, a
<1>9. Head(r) = r[1]
  <2>1. 1 \in 1..Len(r) /\ Len(r) \in 1..Len(r)
    BY <1>1, <1>2
  <2>2. Head(SubSeq(r, 1, Len(r))) = r[1]
    BY <1>2, <2>1, HeadTailOfSubSeq
  <2> QED
    BY <1>2, <2>2, SubSeqFull
<1>10. SubSeq(s, 1, k + 1) = Append(SubSeq(s, 1, k), r[1])
  <2> DEFINE p == SubSeq(s, 1, k + 1)
             q == SubSeq(s, 1, k)
             t == Append(q, r[1])
  <2>1. p \in Seq(S) /\ Len(p) = k + 1 /\ q \in Seq(S) /\ Len(q) = k
    BY <1>1, Parts
  <2>2. \A i \in 1..Len(s) : s[i] \in S
    BY ElementOfSeq
  <2>3. \A i \in 1..k + 1 : p[i] = s[i]
    <3>1. \A i \in 1..k + 1 : s[i] \in S
      BY <1>1, <2>2
    <3> QED
      BY <1>1, <3>1, SubSeqProperties
  <2>4. \A i \in 1..k : q[i] = s[i]
    <3>1. \A i \in 1..k : s[i] \in S
      BY <1>1, <2>2
    <3> QED
      BY <1>1, <3>1, SubSeqProperties
  <2>5. r[1] = s[k + 1] /\ r[1] \in S
    BY <1>1, <1>2, <2>2
  <2>6. /\ t \in Seq(S) /\ Len(t) = k + 1 /\ t[k + 1] = r[1]
        /\ \A i \in 1..k : t[i] = q[i]
    BY <2>1, <2>5, AppendProperties
  <2> HIDE DEF p, q, t
  <2>7. \A i \in 1..k + 1 : p[i] = t[i]
    <3>1. \A i \in 1..k + 1 : i \in 1..k \/ i = k + 1
      OBVIOUS
    <3> QED
      BY <2>3, <2>4, <2>5, <2>6, <3>1
  <2>8. p = t
    BY <2>1, <2>6, <2>7, SeqEqual
  <2> QED
    BY <2>8 DEF p, t, q
<1> QED
  BY <1>6, <1>7, <1>8, <1>9, <1>10 DEF a, b, r

-----------------------------------------------------------------------------
(* Where the frames are.                                                   *)

\* The frame of d follows the first p bytes of b.
FrameAt(b, d, p) ==
  /\ p + 2 + Len(d) <= Len(b)
  /\ b[p + 1] = Len(d) % 256 /\ b[p + 2] = Len(d) \div 256
  /\ \A j \in 1..Len(d) : b[p + 2 + j] = d[j]

\* Nothing but empty frames between p and q.
Gap(b, p, q) ==
  /\ \E m \in Nat : q = p + 2 * m
  /\ \A j \in p + 1..q : b[j] = 0

\* Where the frame before number i ends.
End(U, at, i) == IF i = 1 THEN 0 ELSE at[i - 1] + 2 + Len(U[i - 1])

\* Each frame ends before those behind it.
Ordered(U, at) ==
  \A i \in 1..Len(U) : \A j \in i + 1..Len(U) + 1 : at[i] + 2 + Len(U[i]) <= at[j]

\* The bytes of b are the frames of U at the places at, and empty frames.
Cut(b, U, at) ==
  /\ at \in [1..Len(U) + 1 -> Nat]
  /\ at[Len(U) + 1] = Len(b)
  /\ Ordered(U, at)
  /\ \A i \in 1..Len(U) : FrameAt(b, U[i], at[i])
  /\ \A i \in 1..Len(U) + 1 : Gap(b, End(U, at, i), at[i])

\* No byte, no datagram.
LEMMA CutNothing ==
  \E at : Cut(<<>>, <<>>, at)
<1> DEFINE at == [i \in 1..1 |-> 0]
<1>1. Len(<<>>) = 0
  OBVIOUS
<1>2. at \in [1..1 -> Nat] /\ at[1] = 0
  OBVIOUS
<1>3. Gap(<<>>, End(<<>>, at, 1), at[1])
  BY <1>2 DEF Gap, End
<1> HIDE DEF at
<1>4. Cut(<<>>, <<>>, at)
  BY <1>1, <1>2, <1>3 DEF Cut, Ordered
<1> QED
  BY <1>4

\* Bytes that are added disturb neither a frame nor a gap.
LEMMA Longer ==
  ASSUME NEW b \in Bytes, NEW c \in Bytes, NEW d \in Bytes, NEW p \in Nat
  PROVE  /\ FrameAt(b, d, p) => FrameAt(b \o c, d, p)
         /\ \A q \in 0..Len(b) : Gap(b, p, q) => Gap(b \o c, p, q)
<1>1. Len(b) \in Nat /\ Len(c) \in Nat /\ Len(d) \in Nat
  BY LenProperties DEF Bytes
<1>2. Len(b \o c) = Len(b) + Len(c) /\ \A i \in 1..Len(b) : (b \o c)[i] = b[i]
  BY Joined
<1>3. ASSUME FrameAt(b, d, p)
      PROVE  FrameAt(b \o c, d, p)
  <2>1. /\ p + 1 \in 1..Len(b) /\ p + 2 \in 1..Len(b)
        /\ \A j \in 1..Len(d) : p + 2 + j \in 1..Len(b)
        /\ p + 2 + Len(d) <= Len(b \o c)
    BY <1>1, <1>2, <1>3 DEF FrameAt
  <2> QED
    BY <1>2, <1>3, <2>1 DEF FrameAt
<1>4. ASSUME NEW q \in 0..Len(b), Gap(b, p, q)
      PROVE  Gap(b \o c, p, q)
  <2>1. \A j \in p + 1..q : j \in 1..Len(b)
    BY <1>1
  <2> QED
    BY <1>2, <1>4, <2>1 DEF Gap
<1> QED
  BY <1>3, <1>4

\* Nor do bytes that are dropped before it.
LEMMA Later ==
  ASSUME NEW b \in Bytes, NEW k \in 0..Len(b), NEW d \in Bytes, NEW p \in Nat, p >= k
  PROVE  /\ FrameAt(b, d, p) => FrameAt(Rest(b, k), d, p - k)
         /\ \A q \in 0..Len(b) : Gap(b, p, q) => Gap(Rest(b, k), p - k, q - k)
<1>1. Len(b) \in Nat /\ Len(d) \in Nat
  BY LenProperties DEF Bytes
<1>2. /\ Len(Rest(b, k)) = Len(b) - k
      /\ \A i \in 1..Len(b) - k : Rest(b, k)[i] = b[k + i]
  BY Parts DEF Bytes
<1> DEFINE r == Rest(b, k)
<1> HIDE DEF r
<1>3. ASSUME FrameAt(b, d, p)
      PROVE  FrameAt(r, d, p - k)
  <2>1. p - k + 2 + Len(d) <= Len(r)
    BY <1>1, <1>2, <1>3 DEF FrameAt, r
  <2>2. r[p - k + 1] = b[p + 1] /\ r[p - k + 2] = b[p + 2]
    <3>1. /\ p - k + 1 \in 1..Len(b) - k /\ k + (p - k + 1) = p + 1
          /\ p - k + 2 \in 1..Len(b) - k /\ k + (p - k + 2) = p + 2
      BY <1>1, <1>3 DEF FrameAt
    <3>2. r[p - k + 1] = b[p + 1]
      BY <1>2, <3>1 DEF r
    <3>3. r[p - k + 2] = b[p + 2]
      BY <1>2, <3>1 DEF r
    <3> QED
      BY <3>2, <3>3
  <2>3. ASSUME NEW j \in 1..Len(d)
        PROVE  r[p - k + 2 + j] = b[p + 2 + j]
    <3> DEFINE x == p - k + 2 + j
    <3>1. x \in 1..Len(b) - k /\ k + x = p + 2 + j
      BY <1>1, <1>3 DEF FrameAt
    <3> HIDE DEF x
    <3>2. r[x] = b[k + x]
      BY <1>2, <3>1 DEF r
    <3>3. r[x] = b[p + 2 + j]
      BY <3>1, <3>2
    <3> QED
      BY <3>3 DEF x
  <2> QED
    BY <1>3, <2>1, <2>2, <2>3 DEF FrameAt
<1>4. ASSUME NEW q \in 0..Len(b), Gap(b, p, q)
      PROVE  Gap(r, p - k, q - k)
  <2>1. PICK m \in Nat : q = p + 2 * m
    BY <1>4 DEF Gap
  <2>2. q - k = (p - k) + 2 * m
    BY <1>1, <2>1
  <2>3. ASSUME NEW j \in p - k + 1..q - k
        PROVE  r[j] = 0
    <3>1. j \in 1..Len(b) - k /\ k + j \in p + 1..q
      BY <1>1
    <3>2. r[j] = b[k + j]
      BY <1>2, <3>1 DEF r
    <3>3. b[k + j] = 0
      BY <1>4, <3>1 DEF Gap
    <3> QED
      BY <3>2, <3>3
  <2> QED
    BY <2>2, <2>3 DEF Gap
<1> QED
  BY <1>3, <1>4 DEF r

\* The places are ordered and within the bytes.
LEMMA Places ==
  ASSUME NEW b \in Bytes, NEW U \in Seq(Datagram), NEW at, Cut(b, U, at)
  PROVE  /\ Len(U) \in Nat /\ Len(b) \in Nat
         /\ \A i \in 1..Len(U) : U[i] \in Bytes /\ Len(U[i]) \in Nat \ {0}
         /\ \A i \in 1..Len(U) + 1 :
              End(U, at, i) \in Nat /\ at[i] \in Nat /\ End(U, at, i) <= at[i]
         /\ \A i \in 1..Len(U) : at[i] + 2 + Len(U[i]) <= Len(b)
<1>1. Len(U) \in Nat /\ Len(b) \in Nat
  BY LenProperties DEF Bytes
<1>2. ASSUME NEW i \in 1..Len(U)
      PROVE  U[i] \in Bytes /\ Len(U[i]) \in Nat \ {0}
  <2>1. U[i] \in Datagram
    BY ElementOfSeq
  <2>2. U[i] \in Bytes /\ Len(U[i]) > 0
    BY <2>1 DEF Datagram
  <2> QED
    BY <2>2, LenProperties DEF Bytes
<1>3. \A i \in 1..Len(U) + 1 : at[i] \in Nat
  BY DEF Cut
<1>4. ASSUME NEW i \in 1..Len(U) + 1
      PROVE  End(U, at, i) \in Nat
  <2>1. CASE i = 1
    BY <2>1 DEF End
  <2>2. CASE i # 1
    <3>1. i - 1 \in 1..Len(U) /\ i - 1 \in 1..Len(U) + 1
      BY <1>1, <2>2
    <3>2. Len(U[i - 1]) \in Nat /\ at[i - 1] \in Nat
      BY <1>2, <1>3, <3>1
    <3> QED
      BY <2>2, <3>2 DEF End
  <2> QED
    BY <2>1, <2>2
<1>5. ASSUME NEW i \in 1..Len(U) + 1
      PROVE  End(U, at, i) <= at[i]
  <2>1. PICK m \in Nat : at[i] = End(U, at, i) + 2 * m
    BY DEF Cut, Gap
  <2> QED
    BY <1>3, <1>4, <2>1
<1>6. \A i \in 1..Len(U) : at[i] + 2 + Len(U[i]) <= Len(b)
  BY DEF Cut, FrameAt
<1> QED
  BY <1>1, <1>2, <1>3, <1>4, <1>5, <1>6

\* The frame of another datagram behind the bytes.
LEMMA CutGrows ==
  ASSUME NEW b \in Bytes, NEW U \in Seq(Datagram), NEW at, Cut(b, U, at),
         NEW d \in Datagram
  PROVE  \E at2 : Cut(b \o Frame(d), Append(U, d), at2)
<1> DEFINE n == Len(U)
           f == Frame(d)
           c == b \o f
           V == Append(U, d)
           at2 == [i \in 1..n + 2 |-> IF i <= n + 1 THEN at[i] ELSE Len(c)]
<1>1. d \in Bytes
  BY DEF Datagram
<1>2. f \in Bytes /\ Len(f) = 2 + Len(d) /\ Len(d) \in Nat
  BY <1>1, FrameBytes, LenProperties DEF Bytes
<1>3. c \in Bytes /\ Len(c) = Len(b) + Len(f) /\ Len(c) \in Nat
  BY <1>2, Joined, LenProperties DEF Bytes
<1>4. /\ n \in Nat /\ Len(b) \in Nat
      /\ \A i \in 1..n : U[i] \in Bytes
      /\ \A i \in 1..n + 1 : End(U, at, i) \in Nat /\ at[i] \in Nat /\ at[i] <= Len(b)
      /\ at[n + 1] = Len(b)
  <2>1. at[n + 1] = Len(b)
    BY DEF Cut
  <2>2. ASSUME NEW i \in 1..n + 1
        PROVE  at[i] <= Len(b)
    <3>1. CASE i \in 1..n
      <4>1. at[i] + 2 + Len(U[i]) <= Len(b) /\ Len(U[i]) \in Nat /\ at[i] \in Nat
        BY <3>1, Places
      <4> QED
        BY <4>1, Places
    <3>2. CASE i = n + 1
      BY <2>1, <3>2, Places
    <3> QED
      BY <3>1, <3>2, Places
  <2> QED
    BY <2>1, <2>2, Places
<1>5. /\ Len(V) = n + 1 /\ V[n + 1] = d
      /\ \A i \in 1..n : V[i] = U[i]
  BY AppendProperties
<1> HIDE DEF n, f, c, V
<1>6. /\ at2 \in [1..n + 2 -> Nat] /\ at2[n + 2] = Len(c)
      /\ \A i \in 1..n + 1 : at2[i] = at[i]
  BY <1>3, <1>4
<1> HIDE DEF at2
<1>7. ASSUME NEW i \in 1..n
      PROVE  FrameAt(c, V[i], at2[i])
  <2>1. FrameAt(b, U[i], at[i]) /\ at[i] \in Nat /\ U[i] \in Bytes
    BY <1>4 DEF Cut, n
  <2>2. FrameAt(c, U[i], at[i])
    BY <1>2, <2>1, Longer DEF c
  <2> QED
    BY <1>4, <1>5, <1>6, <2>2
<1>8. FrameAt(c, V[n + 1], at2[n + 1])
  <2>1. at2[n + 1] = Len(b) /\ V[n + 1] = d
    BY <1>4, <1>5, <1>6
  <2>2. c[Len(b) + 1] = f[1] /\ c[Len(b) + 2] = f[2]
    BY <1>2, Joined DEF c
  <2>3. \A j \in 1..Len(d) : c[Len(b) + 2 + j] = f[2 + j]
    <3>1. ASSUME NEW j \in 1..Len(d)
          PROVE  c[Len(b) + 2 + j] = f[2 + j]
      <4>1. 2 + j \in 1..Len(f) /\ Len(b) + 2 + j = Len(b) + (2 + j)
        BY <1>2, <1>4
      <4>2. \A x \in 1..Len(f) : c[Len(b) + x] = f[x]
        BY <1>2, Joined DEF c
      <4> QED
        BY <4>1, <4>2
    <3> QED
      BY <3>1
  <2>4. /\ f[1] = Len(d) % 256 /\ f[2] = Len(d) \div 256
        /\ \A j \in 1..Len(d) : f[2 + j] = d[j]
    BY <1>1, FrameBytes DEF f
  <2>5. Len(b) + 2 + Len(d) <= Len(c)
    BY <1>2, <1>3, <1>4
  <2>6. FrameAt(c, d, Len(b))
    BY <2>2, <2>3, <2>4, <2>5 DEF FrameAt
  <2> QED
    BY <2>1, <2>6
<1>9. ASSUME NEW i \in 1..n + 1
      PROVE  Gap(c, End(V, at2, i), at2[i])
  <2>1. Gap(b, End(U, at, i), at[i])
    BY DEF Cut, n
  <2>2. Gap(c, End(U, at, i), at[i])
    <3>1. at[i] \in 0..Len(b) /\ End(U, at, i) \in Nat
      BY <1>4
    <3>2. <<>> \in Bytes
      BY EmptySeq DEF Bytes
    <3> QED
      BY <1>2, <2>1, <3>1, <3>2, Longer DEF c
  <2>3. End(V, at2, i) = End(U, at, i)
    <3>1. CASE i = 1
      BY <3>1 DEF End
    <3>2. CASE i # 1
      <4>1. i - 1 \in 1..n /\ i - 1 \in 1..n + 1
        BY <1>4, <3>2
      <4>2. V[i - 1] = U[i - 1] /\ at2[i - 1] = at[i - 1]
        BY <1>5, <1>6, <4>1
      <4> QED
        BY <3>2, <4>2 DEF End
    <3> QED
      BY <3>1, <3>2
  <2> QED
    BY <1>6, <2>2, <2>3
<1>10. Gap(c, End(V, at2, n + 2), at2[n + 2])
  <2>1. n + 2 # 1 /\ (n + 2) - 1 = n + 1 /\ n + 1 \in 1..n + 1
    BY <1>4
  <2>2. End(V, at2, n + 2) = Len(b) + 2 + Len(d)
    BY <1>4, <1>5, <1>6, <2>1 DEF End
  <2>3. End(V, at2, n + 2) = Len(c) /\ at2[n + 2] = Len(c)
    BY <1>2, <1>3, <1>4, <1>6, <2>2
  <2>4. Len(c) = Len(c) + 2 * 0 /\ Len(c) + 1..Len(c) = {}
    BY <1>3
  <2> QED
    BY <2>3, <2>4 DEF Gap
<1>11. Cut(c, V, at2)
  <2>1. /\ Len(V) + 1 = n + 2
        /\ \A i \in 1..Len(V) : i \in 1..n \/ i = n + 1
        /\ \A i \in 1..Len(V) + 1 : i \in 1..n + 1 \/ i = n + 2
    BY <1>4, <1>5
  <2>2. \A i \in 1..Len(V) : FrameAt(c, V[i], at2[i])
    BY <1>7, <1>8, <2>1
  <2>3. \A i \in 1..Len(V) + 1 : Gap(c, End(V, at2, i), at2[i])
    BY <1>9, <1>10, <2>1
  <2>4. ASSUME NEW i \in 1..n + 1, NEW j \in i + 1..n + 2
        PROVE  at2[i] + 2 + Len(V[i]) <= at2[j]
    <3>1. CASE i = n + 1
      <4>1. j = n + 2 /\ at2[i] = Len(b) /\ V[i] = d
        BY <1>4, <1>5, <1>6, <3>1
      <4> QED
        BY <1>2, <1>3, <1>4, <1>6, <4>1
    <3>2. CASE i \in 1..n
      <4>1. /\ at2[i] = at[i] /\ V[i] = U[i]
            /\ at[i] \in Nat /\ Len(U[i]) \in Nat /\ at[i] + 2 + Len(U[i]) <= Len(b)
        BY <1>5, <1>6, <3>2, Places DEF n
      <4>2. CASE j = n + 2
        <5>1. /\ at2[j] = Len(b) + (2 + Len(d))
              /\ Len(b) \in Nat /\ Len(d) \in Nat
          BY <1>2, <1>3, <1>4, <1>6, <4>2
        <5> QED
          BY <4>1, <5>1
      <4>3. CASE j \in i + 1..n + 1
        <5>1. at[i] + 2 + Len(U[i]) <= at[j]
          BY <3>2, <4>3 DEF Cut, Ordered, n
        <5>2. at2[j] = at[j]
          BY <1>4, <1>6, <3>2, <4>3
        <5> QED
          BY <4>1, <5>1, <5>2
      <4> QED
        BY <1>4, <4>2, <4>3
    <3> QED
      BY <1>4, <3>1, <3>2
  <2>5. Ordered(V, at2)
    BY <1>5, <2>1, <2>4 DEF Ordered
  <2> QED
    BY <1>6, <2>1, <2>2, <2>3, <2>5 DEF Cut
<1> QED
  BY <1>11 DEF c, V, f

\* An empty frame behind the bytes: the last gap is longer.
LEMMA CutPads ==
  ASSUME NEW b \in Bytes, NEW U \in Seq(Datagram), NEW at, Cut(b, U, at)
  PROVE  \E at2 : Cut(b \o <<0, 0>>, U, at2)
<1> DEFINE n == Len(U)
           e == <<0, 0>>
           c == b \o e
           at2 == [i \in 1..n + 1 |-> IF i <= n THEN at[i] ELSE Len(c)]
<1>1. e \in Bytes /\ Len(e) = 2 /\ e[1] = 0 /\ e[2] = 0
  BY DEF Bytes
<1> HIDE DEF e
<1>2. /\ c \in Bytes /\ Len(c) = Len(b) + 2 /\ Len(c) \in Nat
      /\ \A i \in 1..Len(b) : c[i] = b[i]
      /\ c[Len(b) + 1] = 0 /\ c[Len(b) + 2] = 0
  <2>1. /\ c \in Bytes /\ Len(c) = Len(b) + Len(e)
        /\ \A i \in 1..Len(b) : c[i] = b[i]
        /\ \A i \in 1..Len(e) : c[Len(b) + i] = e[i]
    BY <1>1, Joined
  <2>2. 1 \in 1..Len(e) /\ 2 \in 1..Len(e)
    BY <1>1
  <2>3. c[Len(b) + 1] = e[1] /\ c[Len(b) + 2] = e[2]
    BY <2>1, <2>2
  <2>4. Len(c) \in Nat
    BY <2>1, LenProperties DEF Bytes
  <2> QED
    BY <1>1, <2>1, <2>3, <2>4
<1>3. /\ n \in Nat /\ Len(b) \in Nat
      /\ \A i \in 1..n : U[i] \in Bytes /\ at[i] <= Len(b)
      /\ \A i \in 1..n + 1 : End(U, at, i) \in Nat /\ at[i] \in Nat
      /\ at[n + 1] = Len(b)
  <2>1. ASSUME NEW i \in 1..n
        PROVE  at[i] <= Len(b)
    <3>1. at[i] + 2 + Len(U[i]) <= Len(b) /\ Len(U[i]) \in Nat /\ at[i] \in Nat
      BY Places
    <3> QED
      BY <3>1, Places
  <2>2. at[n + 1] = Len(b)
    BY DEF Cut
  <2> QED
    BY <2>1, <2>2, Places
<1> HIDE DEF n, c
<1>4. /\ at2 \in [1..n + 1 -> Nat] /\ at2[n + 1] = Len(c)
      /\ \A i \in 1..n : at2[i] = at[i]
  BY <1>2, <1>3
<1> HIDE DEF at2
<1>5. ASSUME NEW i \in 1..n
      PROVE  FrameAt(c, U[i], at2[i])
  <2>1. FrameAt(b, U[i], at[i]) /\ at[i] \in Nat /\ U[i] \in Bytes
    BY <1>3 DEF Cut, n
  <2>2. FrameAt(c, U[i], at[i])
    BY <1>1, <2>1, Longer DEF c
  <2> QED
    BY <1>4, <2>2
<1>6. ASSUME NEW i \in 1..n + 1
      PROVE  Gap(c, End(U, at2, i), at2[i])
  <2>1. End(U, at2, i) = End(U, at, i)
    <3>1. CASE i = 1
      BY <3>1 DEF End
    <3>2. CASE i # 1
      <4>1. i - 1 \in 1..n
        BY <1>3, <3>2
      <4>2. at2[i - 1] = at[i - 1]
        BY <1>4, <4>1
      <4> QED
        BY <3>2, <4>2 DEF End
    <3> QED
      BY <3>1, <3>2
  <2>2. Gap(b, End(U, at, i), at[i]) /\ End(U, at, i) \in Nat
    BY <1>3 DEF Cut, n
  <2>3. at[i] \in 0..Len(b)
    BY <1>3
  <2>4. Gap(c, End(U, at, i), at[i])
    BY <1>1, <2>2, <2>3, Longer DEF c
  <2>5. CASE i \in 1..n
    BY <1>4, <2>1, <2>4, <2>5
  <2>6. CASE i = n + 1
    <3>1. at[i] = Len(b) /\ at2[i] = Len(b) + 2
      BY <1>2, <1>3, <1>4, <2>6
    <3>2. PICK m \in Nat : at[i] = End(U, at, i) + 2 * m
      BY <2>2 DEF Gap
    <3>3. at2[i] = End(U, at, i) + 2 * (m + 1) /\ m + 1 \in Nat
      BY <1>3, <2>2, <3>1, <3>2
    <3>4. ASSUME NEW j \in End(U, at, i) + 1..at2[i]
          PROVE  c[j] = 0
      <4>1. CASE j <= Len(b)
        <5>1. j \in 1..Len(b) /\ j \in End(U, at, i) + 1..at[i]
          BY <1>3, <2>2, <3>1, <4>1
        <5> QED
          BY <1>2, <2>2, <5>1 DEF Gap
      <4>2. CASE j > Len(b)
        <5>1. j \in Int /\ Len(b) \in Nat /\ j <= Len(b) + 2
          BY <1>3, <2>2, <3>1
        <5>2. j >= Len(b) + 1
          BY <4>2, <5>1
        <5>3. j = Len(b) + 1 \/ j = Len(b) + 2
          BY <5>1, <5>2
        <5> QED
          BY <1>2, <5>3
      <4> QED
        BY <1>3, <2>2, <4>1, <4>2
    <3>5. Gap(c, End(U, at, i), at2[i])
      BY <3>3, <3>4 DEF Gap
    <3> QED
      BY <2>1, <3>5
  <2> QED
    BY <1>3, <2>5, <2>6
<1>7. ASSUME NEW i \in 1..n, NEW j \in i + 1..n + 1
      PROVE  at2[i] + 2 + Len(U[i]) <= at2[j]
  <2>1. /\ at2[i] = at[i] /\ at[i] \in Nat /\ Len(U[i]) \in Nat
        /\ at[i] + 2 + Len(U[i]) <= Len(b)
    BY <1>4, Places DEF n
  <2>2. CASE j = n + 1
    <3>1. at2[j] = Len(b) + 2 /\ Len(b) \in Nat
      BY <1>2, <1>3, <1>4, <2>2
    <3> QED
      BY <2>1, <3>1
  <2>3. CASE j \in i + 1..n
    <3>1. at[i] + 2 + Len(U[i]) <= at[j]
      BY <1>3, <2>3 DEF Cut, Ordered, n
    <3>2. at2[j] = at[j]
      BY <1>3, <1>4, <2>3
    <3> QED
      BY <2>1, <3>1, <3>2
  <2> QED
    BY <1>3, <2>2, <2>3
<1>8. Cut(c, U, at2)
  <2>1. Ordered(U, at2)
    BY <1>7 DEF Ordered, n
  <2> QED
    BY <1>4, <1>5, <1>6, <2>1 DEF Cut, n
<1> QED
  BY <1>8 DEF c, e

\* The first two bytes are the header of an empty frame or of the first
\* datagram.
LEMMA CutHeader ==
  ASSUME NEW b \in Bytes, NEW U \in Seq(Datagram), NEW at, Cut(b, U, at), Len(b) >= 2
  PROVE  \/ at[1] >= 2 /\ b[1] = 0 /\ b[2] = 0
         \/ /\ Len(U) >= 1 /\ at[1] = 0 /\ FrameAt(b, U[1], 0)
            /\ Len(U[1]) = b[1] + 256 * b[2] /\ Len(U[1]) > 0
            /\ b[1] = Len(U[1]) % 256 /\ b[2] = Len(U[1]) \div 256
<1>1. 1 \in 1..Len(U) + 1 /\ Len(U) \in Nat
  BY Places
<1>2. End(U, at, 1) = 0
  BY DEF End
<1>3. Gap(b, 0, at[1])
  BY <1>1, <1>2 DEF Cut
<1>4. PICK m \in Nat : at[1] = 2 * m
  BY <1>3 DEF Gap
<1>5. CASE m > 0
  <2>1. at[1] >= 2 /\ 1 \in 0 + 1..at[1] /\ 2 \in 0 + 1..at[1]
    BY <1>4, <1>5
  <2> QED
    BY <1>3, <2>1 DEF Gap
<1>6. CASE m = 0
  <2>1. at[1] = 0
    BY <1>4, <1>6
  <2>2. Len(U) # 0
    BY <2>1 DEF Cut
  <2>3. 1 \in 1..Len(U) /\ Len(U) >= 1
    BY <1>1, <2>2
  <2>4. FrameAt(b, U[1], 0) /\ Len(U[1]) \in Nat \ {0}
    BY <2>1, <2>3, Places DEF Cut
  <2>5. b[1] = Len(U[1]) % 256 /\ b[2] = Len(U[1]) \div 256
    <3>1. b[0 + 1] = Len(U[1]) % 256 /\ b[0 + 2] = Len(U[1]) \div 256
      BY <2>4, Zenon DEF FrameAt
    <3>2. 0 + 1 = 1 /\ 0 + 2 = 2
      OBVIOUS
    <3> QED
      BY <3>1, <3>2, Zenon
  <2>6. Len(U[1]) = b[1] + 256 * b[2]
    BY <2>4, <2>5, HeaderOf, ZenonT(60)
  <2>7. Len(U[1]) > 0
    BY <2>4
  <2> QED
    BY <2>1, <2>3, <2>4, <2>5, <2>6, <2>7, Zenon
<1>7. m > 0 \/ m = 0
  OBVIOUS
<1> QED
  BY <1>5, <1>6, <1>7, Zenon

\* An empty frame before the bytes is passed over.
LEMMA CutSkips ==
  ASSUME NEW b \in Bytes, NEW U \in Seq(Datagram), NEW at, Cut(b, U, at), at[1] >= 2
  PROVE  \E at2 : Cut(Rest(b, 2), U, at2)
<1> DEFINE n == Len(U)
           c == Rest(b, 2)
           at2 == [i \in 1..n + 1 |-> at[i] - 2]
<1>1. /\ n \in Nat /\ Len(b) \in Nat
      /\ \A i \in 1..n : U[i] \in Bytes /\ Len(U[i]) \in Nat /\ at[i] + 2 + Len(U[i]) <= Len(b)
      /\ \A i \in 1..n + 1 : End(U, at, i) \in Nat /\ at[i] \in Nat /\ End(U, at, i) <= at[i]
      /\ at[n + 1] = Len(b)
  BY Places DEF Cut
<1>2. ASSUME NEW i \in 1..n + 1, i # 1
      PROVE  End(U, at, i) >= 2 /\ at[i] >= 2
  <2>1. i - 1 \in 1..n /\ i - 1 \in 1..n + 1
    BY <1>1, <1>2
  <2>2. End(U, at, i) = at[i - 1] + 2 + Len(U[i - 1])
    BY <1>2 DEF End
  <2>3. /\ at[i - 1] \in Nat /\ Len(U[i - 1]) \in Nat
        /\ at[i] \in Nat /\ End(U, at, i) <= at[i]
    BY <1>1, <2>1
  <2> QED
    BY <2>2, <2>3, SMTT(40)
<1>3. \A i \in 1..n + 1 : at[i] >= 2 /\ at[i] \in Nat
  BY <1>1, <1>2
<1>4. 2 \in 0..Len(b)
  <2>1. n + 1 \in 1..n + 1
    BY <1>1
  <2> QED
    BY <1>1, <1>3, <2>1
<1>5. c \in Bytes /\ Len(c) = Len(b) - 2
  BY <1>4, Parts DEF Bytes
<1> HIDE DEF n, c
<1>6. /\ at2 \in [1..n + 1 -> Nat] /\ at2[n + 1] = Len(c)
      /\ \A i \in 1..n + 1 : at2[i] = at[i] - 2
  BY <1>1, <1>3, <1>5, SMTT(40)
<1> HIDE DEF at2
<1>7. ASSUME NEW i \in 1..n
      PROVE  FrameAt(c, U[i], at2[i])
  <2>1. FrameAt(b, U[i], at[i]) /\ at[i] \in Nat /\ U[i] \in Bytes /\ at[i] >= 2
    BY <1>1, <1>3 DEF Cut, n
  <2>2. FrameAt(c, U[i], at[i] - 2)
    BY <1>4, <2>1, Later DEF c
  <2>3. at2[i] = at[i] - 2
    BY <1>1, <1>6, SMTT(40)
  <2> QED
    BY <2>2, <2>3
<1>8. ASSUME NEW i \in 1..n + 1
      PROVE  Gap(c, End(U, at2, i), at2[i])
  <2>1. Gap(b, End(U, at, i), at[i]) /\ at[i] \in 0..Len(b)
    <3>1. at[i] <= Len(b)
      <4>1. CASE i \in 1..n
        <5>1. at[i] \in Nat /\ Len(U[i]) \in Nat /\ at[i] + 2 + Len(U[i]) <= Len(b)
          BY <1>1, <4>1
        <5> QED
          BY <1>1, <5>1
      <4>2. CASE i = n + 1
        BY <1>1, <4>2
      <4> QED
        BY <1>1, <4>1, <4>2
    <3> QED
      BY <1>1, <3>1 DEF Cut, n
  <2>2. CASE i = 1
    <3>1. End(U, at, i) = 0 /\ End(U, at2, i) = 0 /\ at2[i] = at[i] - 2
      BY <1>6, <2>2 DEF End
    <3>2. Gap(b, 0, at[i])
      BY <2>1, <3>1
    <3>3. PICK m \in Nat : at[i] = 0 + 2 * m
      BY <3>2 DEF Gap
    <3>4. at2[i] = 0 + 2 * (m - 1) /\ m - 1 \in Nat
      BY <1>3, <3>1, <3>3
    <3>5. ASSUME NEW j \in 0 + 1..at2[i]
          PROVE  c[j] = 0
      <4>1. j \in 1..Len(b) - 2 /\ 2 + j \in 0 + 1..at[i]
        BY <1>1, <2>1, <3>1
      <4>2. c[j] = b[2 + j]
        BY <1>4, <4>1, Parts DEF c, Bytes
      <4> QED
        BY <3>2, <4>1, <4>2 DEF Gap
    <3> QED
      BY <3>1, <3>4, <3>5 DEF Gap
  <2>3. CASE i # 1
    <3>1. i - 1 \in 1..n /\ i - 1 \in 1..n + 1
      BY <1>1, <2>3
    <3>2. End(U, at2, i) = End(U, at, i) - 2
      <4>1. at2[i - 1] = at[i - 1] - 2 /\ at[i - 1] \in Nat /\ Len(U[i - 1]) \in Nat
        BY <1>1, <1>6, <3>1
      <4> QED
        BY <2>3, <4>1 DEF End
    <3>3. End(U, at, i) >= 2 /\ End(U, at, i) \in Nat
      BY <1>1, <1>2, <2>3
    <3>4. <<>> \in Bytes
      BY EmptySeq DEF Bytes
    <3>5. Gap(c, End(U, at, i) - 2, at[i] - 2)
      BY <1>4, <2>1, <3>3, <3>4, Later DEF c
    <3> QED
      BY <1>6, <3>2, <3>5
  <2> QED
    BY <2>2, <2>3
<1>9. ASSUME NEW i \in 1..n, NEW j \in i + 1..n + 1
      PROVE  at2[i] + 2 + Len(U[i]) <= at2[j]
  <2>1. i \in 1..n + 1 /\ j \in 1..n + 1
    BY <1>1
  <2>2. /\ at2[i] = at[i] - 2 /\ at2[j] = at[j] - 2
        /\ at[i] \in Nat /\ at[j] \in Nat /\ Len(U[i]) \in Nat
    BY <1>1, <1>6, <2>1
  <2>3. at[i] + 2 + Len(U[i]) <= at[j]
    BY DEF Cut, Ordered, n
  <2> QED
    BY <2>2, <2>3, SMTT(40)
<1>10. Cut(c, U, at2)
  <2>1. Ordered(U, at2)
    BY <1>9 DEF Ordered, n
  <2> QED
    BY <1>6, <1>7, <1>8, <2>1 DEF Cut, n
<1> QED
  BY <1>10 DEF c

\* The first frame goes, and with it the first datagram.
LEMMA CutDrops ==
  ASSUME NEW b \in Bytes, NEW U \in Seq(Datagram), NEW at, Cut(b, U, at),
         Len(U) >= 1, at[1] = 0
  PROVE  \E at2 : Cut(Rest(b, 2 + Len(U[1])), Rest(U, 1), at2)
<1> DEFINE n == Len(U) - 1
           k == 2 + Len(U[1])
           c == Rest(b, k)
           V == Rest(U, 1)
           at2 == [i \in 1..n + 1 |-> at[i + 1] - k]
<1>1. /\ n \in Nat /\ Len(U) = n + 1 /\ Len(b) \in Nat /\ k \in Nat
      /\ \A i \in 1..n + 1 : U[i] \in Bytes /\ Len(U[i]) \in Nat /\ at[i] + 2 + Len(U[i]) <= Len(b)
      /\ \A i \in 1..n + 2 : End(U, at, i) \in Nat /\ at[i] \in Nat /\ End(U, at, i) <= at[i]
      /\ at[n + 2] = Len(b)
  <2>1. Len(U) \in Nat /\ n \in Nat /\ Len(U) = n + 1 /\ Len(U) + 1 = n + 2
    BY Places
  <2>2. 1 \in 1..Len(U)
    BY <2>1
  <2>3. Len(U[1]) \in Nat
    BY <2>2, Places
  <2>4. at[n + 2] = Len(b)
    BY <2>1 DEF Cut
  <2> QED
    BY <2>1, <2>3, <2>4, Places
<1>2. 1 \in 1..n + 1 /\ 1 + 1 = 2
  BY <1>1
<1>3. ASSUME NEW i \in 1..n + 1
      PROVE  /\ i + 1 \in 1..n + 2 /\ i + 1 # 1 /\ (i + 1) - 1 = i
             /\ End(U, at, i + 1) = at[i] + 2 + Len(U[i])
             /\ at[i] \in Nat /\ Len(U[i]) \in Nat /\ at[i + 1] \in Nat
             /\ at[i] + 2 + Len(U[i]) <= at[i + 1]
  <2>1. i + 1 \in 1..n + 2 /\ i + 1 # 1 /\ (i + 1) - 1 = i /\ i \in 1..n + 2
    BY <1>1
  <2>2. End(U, at, i + 1) = at[i] + 2 + Len(U[i])
    BY <2>1 DEF End
  <2> QED
    BY <1>1, <2>1, <2>2
<1>4. ASSUME NEW i \in 1..n + 1
      PROVE  at[i + 1] >= k
  <2>1. 1 \in 1..Len(U) /\ i + 1 \in 1 + 1..Len(U) + 1
    BY <1>1
  <2>2. at[1] + 2 + Len(U[1]) <= at[i + 1]
    BY <2>1, Zenon DEF Cut, Ordered
  <2>3. at[i + 1] \in Nat /\ Len(U[1]) \in Nat
    BY <1>1, <1>2, <1>3
  <2> QED
    BY <2>2, <2>3
<1>5. k \in 0..Len(b)
  BY <1>1, <1>2
<1>6. c \in Bytes /\ Len(c) = Len(b) - k
  BY <1>5, Parts DEF Bytes
<1>7. Len(V) = n /\ \A i \in 1..n : V[i] = U[i + 1] /\ i + 1 \in 1..n + 1
  <2>1. 1 \in 0..Len(U)
    BY <1>1
  <2>2. Len(V) = Len(U) - 1 /\ \A i \in 1..Len(U) - 1 : V[i] = U[1 + i]
    BY <2>1, Parts
  <2>3. \A i \in 1..n : 1 + i = i + 1 /\ i + 1 \in 1..n + 1
    BY <1>1
  <2> QED
    BY <2>2, <2>3
<1> HIDE DEF n, c, k, V
<1>8. /\ at2 \in [1..n + 1 -> Nat] /\ at2[n + 1] = Len(c)
      /\ \A i \in 1..n + 1 : at2[i] = at[i + 1] - k
  <2>1. \A i \in 1..n + 1 : at[i + 1] - k \in Nat
    BY <1>1, <1>3, <1>4, SMTT(40)
  <2>2. n + 1 \in 1..n + 1 /\ (n + 1) + 1 = n + 2
    BY <1>1
  <2> QED
    BY <1>1, <1>6, <2>1, <2>2
<1> HIDE DEF at2
<1>9. ASSUME NEW i \in 1..n
      PROVE  FrameAt(c, V[i], at2[i])
  <2>1. i \in 1..n + 1 /\ i + 1 \in 1..n + 1
    BY <1>1
  <2>2. FrameAt(b, U[i + 1], at[i + 1]) /\ U[i + 1] \in Bytes
    BY <1>1, <2>1 DEF Cut
  <2>3. at[i + 1] \in Nat /\ at[i + 1] >= k
    BY <1>3, <1>4, <2>1
  <2>4. FrameAt(c, U[i + 1], at[i + 1] - k)
    BY <1>5, <2>2, <2>3, Later DEF c
  <2> QED
    BY <1>7, <1>8, <2>1, <2>4
<1>10. ASSUME NEW i \in 1..n + 1
       PROVE  Gap(c, End(V, at2, i), at2[i])
  <2>1. Gap(b, End(U, at, i + 1), at[i + 1])
    <3>1. i + 1 \in 1..Len(U) + 1
      BY <1>1
    <3> QED
      BY <3>1 DEF Cut
  <2>2. /\ End(V, at2, i) = End(U, at, i + 1) - k
        /\ End(U, at, i + 1) \in Nat /\ End(U, at, i + 1) >= k
    <3>1. CASE i = 1
      <4>1. End(U, at, i + 1) = at[1] + 2 + Len(U[1])
        BY <1>3, <3>1
      <4>2. End(U, at, i + 1) = k
        BY <1>1, <1>2, <4>1 DEF k
      <4> QED
        BY <1>1, <3>1, <4>2 DEF End
    <3>2. CASE i # 1
      <4>1. i - 1 \in 1..n /\ i - 1 \in 1..n + 1 /\ (i - 1) + 1 = i
        BY <1>1, <3>2
      <4>2. at2[i - 1] = at[i] - k /\ V[i - 1] = U[i] /\ at[i] >= k
        BY <1>4, <1>7, <1>8, <4>1
      <4>3. End(V, at2, i) = at2[i - 1] + 2 + Len(V[i - 1])
        BY <3>2 DEF End
      <4>4. /\ End(U, at, i + 1) = at[i] + 2 + Len(U[i])
            /\ at[i] \in Nat /\ Len(U[i]) \in Nat /\ k \in Nat
        BY <1>1, <1>3
      <4>5. End(V, at2, i) = (at[i] - k) + 2 + Len(U[i])
        BY <4>2, <4>3
      <4>6. \A x, z, m \in Nat :
              /\ (x - m) + 2 + z = (x + 2 + z) - m
              /\ x + 2 + z \in Nat
              /\ x >= m => x + 2 + z >= m
        OBVIOUS
      <4> QED
        BY <4>2, <4>4, <4>5, <4>6, SMTT(40)
    <3> QED
      BY <3>1, <3>2
  <2>3. at[i + 1] \in 0..Len(b)
    <3>1. CASE i = n + 1
      BY <1>1, <3>1
    <3>2. CASE i \in 1..n
      <4>1. i + 1 \in 1..n + 1
        BY <1>1, <3>2
      <4>2. /\ at[i + 1] \in Nat /\ Len(U[i + 1]) \in Nat
            /\ at[i + 1] + 2 + Len(U[i + 1]) <= Len(b) /\ Len(b) \in Nat
        BY <1>1, <1>3, <4>1
      <4> QED
        BY <4>2
    <3> QED
      BY <1>1, <3>1, <3>2
  <2>4. <<>> \in Bytes
    BY EmptySeq DEF Bytes
  <2>5. Gap(c, End(U, at, i + 1) - k, at[i + 1] - k)
    BY <1>5, <2>1, <2>2, <2>3, <2>4, Later DEF c
  <2> QED
    BY <1>8, <2>2, <2>5
<1>11. ASSUME NEW i \in 1..n, NEW j \in i + 1..n + 1
       PROVE  at2[i] + 2 + Len(V[i]) <= at2[j]
  <2>1. /\ i \in 1..n + 1 /\ j \in 1..n + 1 /\ i + 1 \in 1..Len(U)
        /\ j + 1 \in (i + 1) + 1..Len(U) + 1
    BY <1>1
  <2>2. at[i + 1] + 2 + Len(U[i + 1]) <= at[j + 1]
    BY <2>1 DEF Cut, Ordered
  <2>3. at2[i] = at[i + 1] - k /\ at2[j] = at[j + 1] - k /\ V[i] = U[i + 1]
    BY <1>7, <1>8, <2>1
  <2>4. at[i + 1] \in Nat /\ at[j + 1] \in Nat /\ Len(U[i + 1]) \in Nat
    BY <1>1, <1>3, <2>1
  <2>5. \A x, y, z, m \in Nat : x + 2 + z <= y => (x - m) + 2 + z <= y - m
    OBVIOUS
  <2>6. k \in Nat
    BY <1>1
  <2>7. (at[i + 1] - k) + 2 + Len(U[i + 1]) <= at[j + 1] - k
    BY <2>2, <2>4, <2>5, <2>6
  <2> QED
    BY <2>3, <2>7
<1>12. Cut(c, V, at2)
  <2>1. Ordered(V, at2)
    BY <1>7, <1>11 DEF Ordered
  <2> QED
    BY <1>7, <1>8, <1>9, <1>10, <2>1 DEF Cut
<1> QED
  BY <1>12 DEF c, V, k

-----------------------------------------------------------------------------
(* The types.                                                              *)

Typed ==
  /\ side \in {"listener", "dialer"} /\ arrived \in 0..MaxDatagrams
  /\ taken \in Seq(Datagram) /\ read \in Bytes /\ near \in BOOLEAN
  /\ wire \in Bytes /\ fwd \in {"copying", "ended"} /\ chunk \in Bytes
  /\ run \in {"header", "body", "exited"} /\ out \in Seq(Datagram)
  /\ buf \in Bytes /\ need \in Nat \ {0} /\ Len(buf) <= need
  /\ run = "header" => need = 2
  /\ timer \in {"running", "exited"} /\ count \in 0..Wait
  /\ timer = "running" => count < Wait
  /\ closed \in BOOLEAN /\ signal \in BOOLEAN /\ answers \in 0..MaxAnswers
  /\ run = "exited" \/ timer = "exited" => closed

\* A datagram of a socket is a sequence of bytes, not longer than Size; that
\* of length zero is empty.
LEMMA Payloads ==
  ASSUME NEW k \in Nat, NEW n \in Nat
  PROVE  /\ Payload(k, n) \in Bytes
         /\ n = 0 => Payload(k, n) = <<>>
         /\ n # 0 => Payload(k, n) \in Datagram /\ Len(Payload(k, n)) <= Size
<1> DEFINE m == Smaller(n, Size)
           d == [i \in 1..m |-> k]
<1>1. m \in Nat /\ (n = 0 => m = 0) /\ (n # 0 => m > 0) /\ m <= Size
  BY SizeAssumption, SMTT(40) DEF Smaller
<1> HIDE DEF m
<1>2. d \in Bytes /\ Len(d) = m
  BY <1>1 DEF Bytes
<1>3. Payload(k, n) = d
  BY DEF Payload, m
<1>4. ASSUME n = 0
      PROVE  d = <<>>
  BY <1>1, <1>2, <1>4, EmptySeq DEF Bytes
<1>5. ASSUME n # 0
      PROVE  d \in Datagram /\ Len(d) <= Size
  <2>1. Len(d) > 0 /\ Len(d) <= Size
    BY <1>1, <1>2, <1>5
  <2> QED
    BY <1>2, <2>1 DEF Datagram
<1> QED
  BY <1>2, <1>3, <1>4, <1>5

LEMMA TypedInit == Init => Typed
<1> SUFFICES ASSUME Init PROVE Typed
  OBVIOUS
<1>1. <<>> \in Bytes /\ <<>> \in Seq(Datagram) /\ Len(<<>>) = 0
  BY EmptySeq DEF Bytes
<1>2. /\ arrived \in 0..MaxDatagrams /\ answers \in 0..MaxAnswers
      /\ count \in 0..Wait /\ count < Wait
  BY BoundAssumption, WaitAssumption DEF Init
<1>3. /\ taken \in Seq(Datagram) /\ out \in Seq(Datagram)
      /\ read \in Bytes /\ wire \in Bytes /\ chunk \in Bytes /\ buf \in Bytes
  BY <1>1 DEF Init
<1>4. need = 2 /\ need \in Nat \ {0} /\ Len(buf) <= need
  BY <1>1 DEF Init
<1>5. /\ side \in {"listener", "dialer"} /\ near \in BOOLEAN /\ fwd \in {"copying", "ended"}
      /\ run = "header" /\ run \in {"header", "body", "exited"} /\ timer = "running"
      /\ timer \in {"running", "exited"} /\ closed \in BOOLEAN /\ signal \in BOOLEAN
  BY DEF Init
<1> QED
  BY <1>2, <1>3, <1>4, <1>5 DEF Typed

LEMMA TypedStep == Typed /\ [Next]_vars => Typed'
<1> SUFFICES ASSUME Typed, [Next]_vars PROVE Typed'
  OBVIOUS
<1> USE DEF Typed, nearVars, pipeVars, runVars, timerVars
<1>1. ASSUME NEW n \in Lengths, Arrive(n) PROVE Typed'
  <2>1. arrived + 1 \in Nat /\ arrived' \in 0..MaxDatagrams /\ n \in Nat
    <3>1. arrived \in Nat /\ arrived < MaxDatagrams /\ arrived' = arrived + 1
      BY <1>1, BoundAssumption DEF Arrive
    <3> QED
      BY <3>1, SizeAssumption, BoundAssumption
  <2> DEFINE d == Payload(arrived + 1, n)
  <2>2. d \in Bytes /\ (n # 0 => d \in Datagram)
    BY <2>1, Payloads
  <2> HIDE DEF d
  <2>3. Frame(d) \in Bytes
    BY <2>2, FrameBytes
  <2>4. taken' \in Seq(Datagram)
    <3>1. CASE n = 0
      BY <1>1, <3>1 DEF Arrive
    <3>2. CASE n # 0
      <4>1. taken' = Append(taken, d)
        BY <1>1, <3>2 DEF Arrive, d
      <4> QED
        BY <2>2, <3>2, <4>1, AppendProperties
    <3> QED
      BY <3>1, <3>2
  <2>5. read' \in Bytes
    <3>1. read' = read \/ read' = Frame(d)
      BY <1>1 DEF Arrive, d
    <3> QED
      BY <2>3, <3>1
  <2> QED
    BY <1>1, <2>1, <2>4, <2>5 DEF Arrive
<1>2. ASSUME NEW k \in 1..Len(read), Read(k) PROVE Typed'
  <2>1. k \in 0..Len(read)
    OBVIOUS
  <2>2. SubSeq(read, 1, k) \in Bytes /\ Rest(read, k) \in Bytes
    BY <2>1, Parts DEF Bytes
  <2>3. wire' \in Bytes /\ read' \in Bytes
    BY <1>2, <2>2, Joined DEF Read
  <2> QED
    BY <1>2, <2>3 DEF Read
<1>3. CASE NearEnds
  BY <1>3 DEF NearEnds
<1>4. CASE BridgeCloses
  BY <1>4 DEF BridgeCloses
<1>5. CASE Forwarder
  <2>1. ASSUME NEW k \in 1..Len(wire), Write(k) PROVE Typed'
    <3>1. k \in 0..Len(wire)
      OBVIOUS
    <3>2. chunk' \in Bytes /\ wire' \in Bytes
      BY <2>1, <3>1, Parts DEF Write, Bytes
    <3> QED
      BY <2>1, <3>2 DEF Write
  <2>2. CASE WriteFails
    <3>1. <<>> \in Bytes
      BY EmptySeq DEF Bytes
    <3> QED
      BY <2>2, <3>1 DEF WriteFails
  <2>3. CASE StreamEnds
    BY <2>3 DEF StreamEnds
  <2> QED
    BY <1>5, <2>1, <2>2, <2>3 DEF Forwarder
<1>6. CASE Run
  <2>0. <<>> \in Bytes /\ Len(<<>>) = 0
    BY EmptySeq DEF Bytes
  <2>1. CASE Fill
    <3> DEFINE k == Smaller(need - Len(buf), Len(chunk))
    <3>1. Len(buf) \in Nat /\ Len(chunk) \in Nat
      BY LenProperties DEF Bytes
    <3>2. k \in 0..Len(chunk) /\ Len(buf) + k <= need
      BY <2>1, <3>1 DEF Fill, Smaller
    <3> HIDE DEF k
    <3>3. SubSeq(chunk, 1, k) \in Bytes /\ Len(SubSeq(chunk, 1, k)) = k /\ Rest(chunk, k) \in Bytes
      BY <3>2, Parts DEF Bytes
    <3>4. buf' = buf \o SubSeq(chunk, 1, k) /\ chunk' = Rest(chunk, k)
      BY <2>1 DEF Fill, k
    <3>5. buf' \in Bytes /\ Len(buf') = Len(buf) + k
      <4> DEFINE p == SubSeq(chunk, 1, k)
      <4>1. p \in Bytes /\ Len(p) = k /\ buf' = buf \o p /\ buf \in Bytes
        BY <3>3, <3>4
      <4> HIDE DEF p
      <4> QED
        BY <4>1, Joined
    <3>6. Len(buf') <= need
      BY <3>2, <3>5
    <3> QED
      BY <2>1, <3>3, <3>4, <3>5, <3>6 DEF Fill
  <2>2. CASE Header
    <3> DEFINE n == buf[1] + 256 * buf[2]
    <3>1. Len(buf) = 2
      BY <2>2 DEF Header
    <3>2. buf[1] \in Nat /\ buf[2] \in Nat
      <4>1. 1 \in 1..Len(buf) /\ 2 \in 1..Len(buf)
        BY <3>1
      <4> QED
        BY <4>1, ElementOfSeq DEF Bytes
    <3>3. n \in Nat
      BY <3>2, SMTT(40)
    <3> HIDE DEF n
    <3>4. IF n = 0 THEN UNCHANGED <<run, need>> ELSE run' = "body" /\ need' = n
      BY <2>2 DEF Header, n
    <3>5. buf' = <<>>
      BY <2>2 DEF Header
    <3> QED
      BY <2>0, <2>2, <3>3, <3>4, <3>5 DEF Header
  <2>3. CASE Send
    <3>1. buf \in Datagram
      BY <2>3 DEF Send, Datagram
    <3>2. out' \in Seq(Datagram)
      BY <2>3, <3>1, AppendProperties DEF Send
    <3> QED
      BY <2>0, <2>3, <3>2 DEF Send
  <2>4. CASE SendFails
    BY <2>4 DEF SendFails
  <2>5. CASE RunEnds
    BY <2>5 DEF RunEnds
  <2> QED
    BY <1>6, <2>1, <2>2, <2>3, <2>4, <2>5 DEF Run
<1>7. CASE Tick
  <2>1. count' \in 0..Wait /\ (count' = Wait \/ count' < Wait)
    BY <1>7, WaitAssumption DEF Tick
  <2> QED
    BY <1>7, <2>1 DEF Tick
<1>8. CASE Signalled
  <2>1. count' \in 0..Wait /\ count' < Wait
    BY <1>8, WaitAssumption DEF Signalled
  <2> QED
    BY <1>8, <2>1 DEF Signalled
<1>9. CASE Answer
  BY <1>9, BoundAssumption DEF Answer
<1>10. CASE UNCHANGED vars
  BY <1>10 DEF vars
<1> QED
  BY <1>1, <1>2, <1>3, <1>4, <1>5, <1>6, <1>7, <1>8, <1>9, <1>10 DEF Next

-----------------------------------------------------------------------------
(* What is on its way.                                                     *)

\* What run has read of the frame it is at.
Seen == IF run = "body" THEN <<need % 256, need \div 256>> \o buf ELSE buf

\* All bytes on their way, the next one first.
Flight == Seen \o (chunk \o (wire \o read))

\* The datagrams taken and not sent.
Underway == Rest(taken, Len(out))

\* What is sent is the first part of what was taken.
Prefix == Len(out) <= Len(taken) /\ out = SubSeq(taken, 1, Len(out))

\* As long as the far end is open, the bytes are the frames of the datagrams.
Framed == ~closed => \E at : Cut(Flight, Underway, at)

\* What run is about to send is the next datagram.
Full == run = "body" /\ Len(buf) = need => Len(Underway) >= 1 /\ buf = Underway[1]

IInv == Typed /\ Prefix /\ Framed /\ Full

LEMMA FlightBytes ==
  ASSUME Typed
  PROVE  /\ Seen \in Bytes /\ chunk \o (wire \o read) \in Bytes /\ Flight \in Bytes
         /\ wire \o read \in Bytes
         /\ run = "body" => Len(Seen) = 2 + Len(buf)
<1>1. wire \o read \in Bytes /\ chunk \o (wire \o read) \in Bytes
  BY Joined DEF Typed
<1>2. Seen \in Bytes /\ (run = "body" => Len(Seen) = 2 + Len(buf))
  <2>1. CASE run = "body"
    <3> DEFINE h == <<need % 256, need \div 256>>
    <3>1. h \in Bytes /\ Len(h) = 2
      BY HeaderOf DEF Typed, Bytes
    <3> HIDE DEF h
    <3>2. h \o buf \in Bytes /\ Len(h \o buf) = 2 + Len(buf)
      BY <3>1, Joined DEF Typed
    <3> QED
      BY <2>1, <3>2 DEF Seen, h
  <2>2. CASE run # "body"
    BY <2>2 DEF Seen, Typed
  <2> QED
    BY <2>1, <2>2
<1> QED
  BY <1>1, <1>2, Joined DEF Flight

\* The datagrams underway are among those taken.
LEMMA UnderwayType ==
  ASSUME Typed, Prefix
  PROVE  Underway \in Seq(Datagram) /\ Len(out) \in 0..Len(taken)
<1>1. Len(out) \in Nat /\ Len(taken) \in Nat
  BY LenProperties DEF Typed
<1>2. Len(out) \in 0..Len(taken)
  BY <1>1 DEF Prefix
<1> QED
  BY <1>2, Parts DEF Typed, Underway

\* While run reads a body, what it has read follows the header of the next
\* datagram.
LEMMA BodyHeader ==
  ASSUME Typed, Prefix, run = "body", NEW at, Cut(Flight, Underway, at)
  PROVE  /\ at[1] = 0 /\ Len(Underway) >= 1 /\ FrameAt(Flight, Underway[1], 0)
         /\ Len(Underway[1]) = need /\ Underway[1] \in Bytes
         /\ \A i \in 1..Len(buf) : Flight[2 + i] = buf[i]
<1> DEFINE h == <<need % 256, need \div 256>>
           t == chunk \o (wire \o read)
<1>1. h \in Bytes /\ Len(h) = 2 /\ h[1] = need % 256 /\ h[2] = need \div 256
  BY HeaderOf DEF Typed, Bytes
<1>2. Seen = h \o buf /\ Flight = Seen \o t
  BY DEF Seen, Flight
<1>3. t \in Bytes /\ buf \in Bytes /\ Seen \in Bytes /\ Flight \in Bytes /\ need \in Nat \ {0}
  BY FlightBytes DEF Typed
<1> HIDE DEF h, t
<1>4. /\ Len(Seen) = 2 + Len(buf) /\ Len(buf) \in Nat
      /\ \A i \in 1..2 : Seen[i] = h[i]
      /\ \A i \in 1..Len(buf) : Seen[2 + i] = buf[i]
  <2>1. /\ Len(h \o buf) = Len(h) + Len(buf)
        /\ \A i \in 1..Len(h) : (h \o buf)[i] = h[i]
        /\ \A i \in 1..Len(buf) : (h \o buf)[Len(h) + i] = buf[i]
    <3>1. h \in Bytes /\ buf \in Bytes
      BY <1>1, <1>3
    <3> QED
      BY <3>1, Joined
  <2>2. Len(buf) \in Nat
    BY <1>3, LenProperties DEF Bytes
  <2> QED
    BY <1>1, <1>2, <2>1, <2>2
<1>5. /\ Len(Flight) = Len(Seen) + Len(t) /\ Len(t) \in Nat
      /\ \A i \in 1..Len(Seen) : Flight[i] = Seen[i]
  BY <1>2, <1>3, Joined, LenProperties DEF Bytes
<1>6. Flight[1] = need % 256 /\ Flight[2] = need \div 256
  <2>1. 1 \in 1..2 /\ 2 \in 1..2 /\ 1 \in 1..Len(Seen) /\ 2 \in 1..Len(Seen)
    BY <1>4
  <2> QED
    BY <1>1, <1>4, <1>5, <2>1
<1>7. Flight[1] + 256 * Flight[2] = need
  BY <1>3, <1>6, HeaderOf
<1>8. Len(Flight) >= 2
  BY <1>4, <1>5
<1>9. ~(Flight[1] = 0 /\ Flight[2] = 0)
  <2>1. ASSUME Flight[1] = 0, Flight[2] = 0 PROVE FALSE
    BY <1>3, <1>7, <2>1
  <2> QED
    BY <2>1
<1>10. Underway \in Seq(Datagram) /\ Len(Underway) \in Nat
  BY UnderwayType, LenProperties
<1>11. /\ at[1] = 0 /\ Len(Underway) >= 1 /\ FrameAt(Flight, Underway[1], 0)
       /\ Len(Underway[1]) = need
  <2>1. Flight \in Bytes
    BY <1>3
  <2>2. \/ at[1] >= 2 /\ Flight[1] = 0 /\ Flight[2] = 0
        \/ /\ Len(Underway) >= 1 /\ at[1] = 0 /\ FrameAt(Flight, Underway[1], 0)
           /\ Len(Underway[1]) = Flight[1] + 256 * Flight[2] /\ Len(Underway[1]) > 0
           /\ Flight[1] = Len(Underway[1]) % 256
           /\ Flight[2] = Len(Underway[1]) \div 256
    BY <1>8, <1>10, <2>1, CutHeader, ZenonT(60)
  <2>3. /\ at[1] = 0 /\ Len(Underway) >= 1 /\ FrameAt(Flight, Underway[1], 0)
        /\ Len(Underway[1]) = Flight[1] + 256 * Flight[2]
    BY <1>9, <2>2, Zenon
  <2> QED
    BY <1>7, <2>3
<1>12. Underway[1] \in Bytes
  <2>1. 1 \in 1..Len(Underway)
    BY <1>10, <1>11
  <2>2. Underway[1] \in Datagram
    BY <1>10, <2>1, ElementOfSeq
  <2> QED
    BY <2>2 DEF Datagram
<1>13. ASSUME NEW i \in 1..Len(buf)
       PROVE  Flight[2 + i] = buf[i]
  <2>1. 2 + i \in 1..Len(Seen)
    BY <1>4
  <2> QED
    BY <1>4, <1>5, <2>1
<1> QED
  BY <1>11, <1>12, <1>13

\* When it has the whole body, this is the next datagram.
LEMMA BodyIsNext ==
  ASSUME Typed, Prefix, Framed, ~closed
  PROVE  Full
<1> SUFFICES ASSUME run = "body", Len(buf) = need
             PROVE  Len(Underway) >= 1 /\ buf = Underway[1]
  BY DEF Full
<1>1. PICK at : Cut(Flight, Underway, at)
  BY DEF Framed
<1>2. /\ at[1] = 0 /\ Len(Underway) >= 1 /\ FrameAt(Flight, Underway[1], 0)
      /\ Len(Underway[1]) = need /\ Underway[1] \in Bytes
      /\ \A i \in 1..Len(buf) : Flight[2 + i] = buf[i]
  BY <1>1, BodyHeader
<1>3. ASSUME NEW i \in 1..Len(buf)
      PROVE  buf[i] = Underway[1][i]
  <2>1. Flight[0 + 2 + i] = Underway[1][i]
    BY <1>2 DEF FrameAt
  <2>2. 0 + 2 + i = 2 + i
    OBVIOUS
  <2> QED
    BY <1>2, <2>1, <2>2
<1>4. buf = Underway[1]
  <2>1. buf \in Seq(Nat) /\ Underway[1] \in Seq(Nat) /\ Len(buf) = Len(Underway[1])
    BY <1>2 DEF Typed, Bytes
  <2> QED
    BY <1>3, <2>1, SeqEqual
<1> QED
  BY <1>2, <1>4

\* What is left when the first bytes go.
LEMMA AfterFirst ==
  ASSUME NEW a \in Bytes, NEW b \in Bytes
  PROVE  Rest(a \o b, Len(a)) = b /\ <<>> \o b = b
<1>1. Len(a) \in Nat /\ Len(b) \in Nat
  BY LenProperties DEF Bytes
<1>2. /\ a \o b \in Bytes /\ Len(a \o b) = Len(a) + Len(b)
      /\ \A i \in 1..Len(b) : (a \o b)[Len(a) + i] = b[i]
  BY Joined
<1> DEFINE c == a \o b
<1> HIDE DEF c
<1>3. Len(a) \in 0..Len(c)
  BY <1>1, <1>2 DEF c
<1>4. /\ Rest(c, Len(a)) \in Bytes /\ Len(Rest(c, Len(a))) = Len(c) - Len(a)
      /\ \A i \in 1..Len(c) - Len(a) : Rest(c, Len(a))[i] = c[Len(a) + i]
  <2>1. c \in Seq(Nat)
    BY <1>2 DEF c, Bytes
  <2> QED
    BY <1>3, <2>1, Parts DEF Bytes
<1>5. Len(c) - Len(a) = Len(b)
  BY <1>1, <1>2 DEF c
<1>6. \A i \in 1..Len(b) : Rest(c, Len(a))[i] = b[i]
  BY <1>2, <1>4, <1>5 DEF c
<1>7. Rest(c, Len(a)) = b
  BY <1>4, <1>5, <1>6, SeqEqual DEF Bytes
<1> QED
  BY <1>7, ConcatEmptySeq DEF c, Bytes

\* What the steps of the near end do to the bytes on their way.
LEMMA NearSteps ==
  ASSUME IInv, ~closed, ~closed',
         \/ \E n \in Lengths : Arrive(n)
         \/ \E k \in 1..Len(read) : Read(k)
  PROVE  \E at : Cut(Flight', Underway', at)
<1>1. PICK at : Cut(Flight, Underway, at)
  BY DEF IInv, Framed
<1>2. Underway \in Seq(Datagram) /\ Len(out) \in 0..Len(taken)
  BY UnderwayType DEF IInv
<1>3. /\ Seen \in Bytes /\ chunk \in Bytes /\ wire \in Bytes /\ read \in Bytes
      /\ wire \o read \in Bytes /\ chunk \o (wire \o read) \in Bytes /\ Flight \in Bytes
  BY FlightBytes DEF IInv, Typed
<1>4. ASSUME NEW n \in Lengths, Arrive(n)
      PROVE  \E at2 : Cut(Flight', Underway', at2)
  <2> DEFINE d == Payload(arrived + 1, n)
  <2>1. d \in Bytes /\ (n = 0 => d = <<>>) /\ (n # 0 => d \in Datagram)
    <3>1. arrived + 1 \in Nat /\ n \in Nat
      BY SizeAssumption, BoundAssumption DEF IInv, Typed
    <3> QED
      BY <3>1, Payloads
  <2>2. /\ read = <<>> /\ out' = out /\ Seen' = Seen /\ chunk' = chunk /\ wire' = wire
        /\ taken' = IF n = 0 THEN taken ELSE Append(taken, d)
        /\ read' = IF side = "dialer" /\ n = 0 THEN read ELSE Frame(d)
    BY <1>4 DEF Arrive, pipeVars, runVars, Seen
  <2> HIDE DEF d
  <2>3. Flight = Seen \o (chunk \o wire) /\ chunk \o wire \in Bytes
    <3>1. wire \o <<>> = wire
      BY <1>3, ConcatEmptySeq DEF Bytes
    <3> QED
      BY <1>3, <2>2, <3>1, Joined DEF Flight
  <2>4. ASSUME NEW f \in Bytes, read' = f
        PROVE  Flight' = Flight \o f
    <3>1. Flight' = Seen \o (chunk \o (wire \o f))
      BY <2>2, <2>4 DEF Flight
    <3>2. \A x, y, z \in Bytes : (x \o y) \o z = x \o (y \o z)
      BY Associative
    <3> DEFINE cw == chunk \o wire
    <3>3. cw \o f = chunk \o (wire \o f)
      <4>1. chunk \in Bytes /\ wire \in Bytes
        BY <1>3
      <4> QED
        BY <3>2, <4>1, Zenon
    <3>4. (Seen \o cw) \o f = Seen \o (cw \o f)
      <4>1. Seen \in Bytes /\ cw \in Bytes
        BY <1>3, <2>3
      <4> HIDE DEF cw
      <4> QED
        BY <3>2, <4>1, Zenon
    <3> QED
      BY <2>3, <3>1, <3>3, <3>4, Zenon
  <2>5. CASE n # 0
    <3>1. Underway' = Append(Underway, d)
      <4>1. taken' = Append(taken, d)
        BY <2>2, <2>5
      <4>2. taken \in Seq(Datagram) /\ d \in Datagram
        BY <2>1, <2>5 DEF IInv, Typed
      <4>3. Rest(Append(taken, d), Len(out)) = Append(Rest(taken, Len(out)), d)
        BY <1>2, <4>2, RestGrows
      <4> QED
        BY <2>2, <4>1, <4>3 DEF Underway
    <3>2. Flight' = Flight \o Frame(d)
      <4>1. Frame(d) \in Bytes /\ read' = Frame(d)
        BY <2>1, <2>2, <2>5, FrameBytes
      <4> QED
        BY <2>4, <4>1
    <3>3. d \in Datagram
      BY <2>1, <2>5
    <3>4. \E at2 : Cut(Flight \o Frame(d), Append(Underway, d), at2)
      BY <1>1, <1>2, <1>3, <3>3, CutGrows
    <3> QED
      BY <3>1, <3>2, <3>4
  <2>6. CASE n = 0
    <3>1. Underway' = Underway
      BY <2>2, <2>6 DEF Underway
    <3>2. CASE side = "dialer"
      <4>1. Flight' = Flight
        BY <2>2, <2>6, <3>2 DEF Flight
      <4> QED
        BY <1>1, <3>1, <4>1
    <3>3. CASE side # "dialer"
      <4>1. Frame(d) = <<0, 0>>
        <5>1. d = <<>> /\ Len(d) = 0
          BY <2>1, <2>6, EmptySeq
        <5>2. Len(d) % 256 = 0 /\ Len(d) \div 256 = 0
          BY <5>1
        <5>3. <<0, 0>> \in Seq(Nat)
          OBVIOUS
        <5>4. <<0, 0>> \o <<>> = <<0, 0>>
          BY <5>3, ConcatEmptySeq
        <5> QED
          BY <5>1, <5>2, <5>4 DEF Frame
      <4>2. Flight' = Flight \o <<0, 0>>
        <5>1. read' = <<0, 0>> /\ <<0, 0>> \in Bytes
          BY <2>2, <3>3, <4>1 DEF Bytes
        <5> QED
          BY <2>4, <5>1
      <4>3. \E at2 : Cut(Flight \o <<0, 0>>, Underway, at2)
        BY <1>1, <1>2, <1>3, CutPads
      <4> QED
        BY <3>1, <4>2, <4>3
    <3> QED
      BY <3>2, <3>3
  <2> QED
    BY <2>5, <2>6
<1>5. ASSUME NEW k \in 1..Len(read), Read(k)
      PROVE  \E at2 : Cut(Flight', Underway', at2)
  <2>1. /\ wire' = wire \o SubSeq(read, 1, k) /\ read' = Rest(read, k)
        /\ Seen' = Seen /\ chunk' = chunk /\ Underway' = Underway
    BY <1>5 DEF Read, runVars, Seen, Underway
  <2>2. wire' \o read' = wire \o read
    <3>1. k \in 0..Len(read)
      OBVIOUS
    <3>2. (wire \o SubSeq(read, 1, k)) \o Rest(read, k) = wire \o read
      BY <1>3, <3>1, Move DEF Bytes
    <3> QED
      BY <2>1, <3>2
  <2>3. Flight' = Flight
    BY <2>1, <2>2 DEF Flight
  <2> QED
    BY <1>1, <2>1, <2>3
<1> QED
  BY <1>4, <1>5

\* What a Write and a read of the pipe do to them.
LEMMA PipeSteps ==
  ASSUME IInv, ~closed, ~closed', Fill \/ \E k \in 1..Len(wire) : Write(k)
  PROVE  Flight' = Flight /\ Underway' = Underway
<1>1. Seen \in Bytes /\ chunk \in Bytes /\ wire \in Bytes /\ read \in Bytes /\ buf \in Bytes
  BY FlightBytes DEF IInv, Typed
<1>2. \A x, y, z \in Bytes : (x \o y) \o z = x \o (y \o z)
  BY Associative
<1>3. ASSUME NEW k \in 1..Len(wire), Write(k)
      PROVE  Flight' = Flight /\ Underway' = Underway
  <2> DEFINE p == SubSeq(wire, 1, k)
             q == Rest(wire, k)
  <2>1. /\ chunk = <<>> /\ chunk' = p /\ wire' = q
        /\ Seen' = Seen /\ read' = read /\ Underway' = Underway
    BY <1>3 DEF Write, runVars, nearVars, Seen, Underway
  <2>2. p \in Bytes /\ q \in Bytes /\ p \o q = wire
    <3>1. k \in 0..Len(wire)
      OBVIOUS
    <3> QED
      BY <1>1, <3>1, Parts DEF Bytes
  <2> HIDE DEF p, q
  <2>3. p \o (q \o read) = wire \o read
    <3>1. (p \o q) \o read = p \o (q \o read)
      <4>1. p \in Bytes /\ q \in Bytes /\ read \in Bytes
        BY <1>1, <2>2
      <4> QED
        BY <1>2, <4>1, Zenon
    <3> QED
      BY <2>2, <3>1
  <2>4. chunk \o (wire \o read) = wire \o read
    <3>1. wire \o read \in Bytes
      BY <1>1, Joined
    <3> QED
      BY <2>1, <3>1, ConcatEmptySeq DEF Bytes
  <2> QED
    BY <2>1, <2>3, <2>4 DEF Flight
<1>4. CASE Fill
  <2> DEFINE k == Smaller(need - Len(buf), Len(chunk))
             p == SubSeq(chunk, 1, k)
             q == Rest(chunk, k)
             t == wire \o read
             h == <<need % 256, need \div 256>>
  <2>1. /\ buf' = buf \o p /\ chunk' = q /\ run' = run /\ need' = need
        /\ wire' = wire /\ read' = read /\ Underway' = Underway
    BY <1>4 DEF Fill, nearVars, Underway
  <2>2. k \in 0..Len(chunk)
    <3>1. Len(buf) \in Nat /\ Len(chunk) \in Nat /\ need \in Nat
      BY <1>1, LenProperties DEF IInv, Typed, Bytes
    <3> QED
      BY <1>4, <3>1 DEF Fill, Smaller
  <2>3. p \in Bytes /\ q \in Bytes /\ p \o q = chunk
    <3> HIDE DEF k
    <3> QED
      BY <1>1, <2>2, Parts DEF Bytes
  <2>4. h \in Bytes /\ t \in Bytes
    <3>1. t \in Bytes
      BY <1>1, Joined
    <3> QED
      BY <3>1, HeaderOf DEF IInv, Typed, Bytes
  <2>5. Seen' = Seen \o p
    <3>1. CASE run = "body"
      <4>1. Seen = h \o buf /\ Seen' = h \o (buf \o p)
        BY <2>1, <3>1 DEF Seen
      <4> HIDE DEF h, p
      <4>2. (h \o buf) \o p = h \o (buf \o p)
        <5>1. h \in Bytes /\ buf \in Bytes /\ p \in Bytes
          BY <1>1, <2>3, <2>4
        <5> QED
          BY <1>2, <5>1, Zenon
      <4> QED
        BY <4>1, <4>2
    <3>2. CASE run # "body"
      BY <2>1, <3>2 DEF Seen
    <3> QED
      BY <3>1, <3>2
  <2> HIDE DEF p, q, t
  <2>6. (Seen \o p) \o (q \o t) = Seen \o (chunk \o t)
    <3> DEFINE u == q \o t
    <3>1. /\ u \in Bytes /\ Seen \in Bytes /\ p \in Bytes /\ q \in Bytes /\ t \in Bytes
      BY <1>1, <2>3, <2>4, Joined
    <3>2. (p \o q) \o t = p \o u
      BY <1>2, <3>1, ZenonT(60)
    <3>3. (Seen \o p) \o u = Seen \o (p \o u)
      <4> HIDE DEF u
      <4> QED
        BY <1>2, <3>1, ZenonT(60)
    <3> QED
      BY <2>3, <3>2, <3>3, Zenon
  <2>7. Flight' = (Seen \o p) \o (q \o t) /\ Flight = Seen \o (chunk \o t)
    BY <2>1, <2>5 DEF Flight, t
  <2> QED
    BY <2>1, <2>6, <2>7
<1> QED
  BY <1>3, <1>4

\* What run does to them when it has read a header: it was empty, or it is
\* that of the next datagram.
LEMMA HeaderStep ==
  ASSUME IInv, ~closed, Header
  PROVE  \E at : Cut(Flight', Underway', at)
<1> DEFINE n == buf[1] + 256 * buf[2]
           t == chunk \o (wire \o read)
<1>1. PICK at : Cut(Flight, Underway, at)
  BY DEF IInv, Framed
<1>2. Underway \in Seq(Datagram) /\ Underway' = Underway
  BY UnderwayType DEF IInv, Header, nearVars, Underway
<1>3. /\ Len(buf) = 2 /\ buf \in Bytes /\ buf' = <<>>
      /\ run = "header" /\ chunk' = chunk /\ wire' = wire /\ read' = read
      /\ IF n = 0 THEN run' = run ELSE run' = "body" /\ need' = n
  BY DEF Header, IInv, Typed, pipeVars, nearVars
<1>4. t \in Bytes /\ Flight \in Bytes
  BY FlightBytes DEF IInv
<1>5. Flight = buf \o t /\ Flight' = Seen' \o t
  BY <1>3 DEF Flight, Seen
<1> HIDE DEF t
<1>6. /\ Len(Flight) >= 2 /\ Rest(Flight, 2) = t
      /\ Flight[1] = buf[1] /\ Flight[2] = buf[2]
  <2>1. /\ Len(buf \o t) = Len(buf) + Len(t) /\ Len(t) \in Nat
        /\ \A i \in 1..Len(buf) : (buf \o t)[i] = buf[i]
    BY <1>3, <1>4, Joined, LenProperties, ZenonT(60) DEF Bytes
  <2>2. 1 \in 1..Len(buf) /\ 2 \in 1..Len(buf)
    BY <1>3
  <2>3. Rest(buf \o t, Len(buf)) = t
    BY <1>3, <1>4, AfterFirst
  <2> QED
    BY <1>3, <1>5, <2>1, <2>2, <2>3
<1>7. buf[1] \in Nat /\ buf[2] \in Nat
  <2>1. 1 \in 1..Len(buf) /\ 2 \in 1..Len(buf)
    BY <1>3
  <2> QED
    BY <1>3, <2>1, ElementOfSeq DEF Bytes
<1>8. \/ at[1] >= 2 /\ buf[1] = 0 /\ buf[2] = 0
      \/ /\ Len(Underway[1]) = n /\ n > 0
         /\ buf[1] = n % 256 /\ buf[2] = n \div 256
  <2>1. \/ at[1] >= 2 /\ Flight[1] = 0 /\ Flight[2] = 0
        \/ /\ Len(Underway) >= 1 /\ at[1] = 0 /\ FrameAt(Flight, Underway[1], 0)
           /\ Len(Underway[1]) = Flight[1] + 256 * Flight[2] /\ Len(Underway[1]) > 0
           /\ Flight[1] = Len(Underway[1]) % 256
           /\ Flight[2] = Len(Underway[1]) \div 256
    BY <1>1, <1>2, <1>4, <1>6, CutHeader, ZenonT(60)
  <2>2. CASE at[1] >= 2 /\ Flight[1] = 0 /\ Flight[2] = 0
    BY <1>6, <2>2, Zenon
  <2>3. CASE ~(at[1] >= 2 /\ Flight[1] = 0 /\ Flight[2] = 0)
    <3> DEFINE l == Len(Underway[1])
    <3>1. /\ l = Flight[1] + 256 * Flight[2] /\ l > 0
          /\ Flight[1] = l % 256 /\ Flight[2] = l \div 256
      BY <2>1, <2>3, Zenon
    <3>2. n = Flight[1] + 256 * Flight[2]
      BY <1>6, Zenon
    <3>3. l = n
      BY <3>1, <3>2, Zenon
    <3> HIDE DEF n, l
    <3>4. n > 0 /\ buf[1] = n % 256 /\ buf[2] = n \div 256
      BY <1>6, <3>1, <3>3, Zenon
    <3> QED
      BY <3>3, <3>4, Zenon DEF l
  <2> QED
    BY <2>2, <2>3, Zenon
<1>9. CASE n = 0
  <2>1. Seen' = <<>>
    BY <1>3, <1>9 DEF Seen
  <2>2. Flight' = Rest(Flight, 2)
    BY <1>4, <1>5, <1>6, <2>1, AfterFirst
  <2>3. at[1] >= 2
    BY <1>7, <1>8, <1>9
  <2>4. \E at2 : Cut(Rest(Flight, 2), Underway, at2)
    BY <1>1, <1>2, <1>4, <2>3, CutSkips
  <2> QED
    BY <1>2, <2>2, <2>4
<1>10. CASE n # 0
  <2>1. ~(buf[1] = 0 /\ buf[2] = 0)
    BY <1>10
  <2>2. buf[1] = n % 256 /\ buf[2] = n \div 256 /\ n > 0
    BY <1>8, <2>1
  <2>3. Seen' = <<n % 256, n \div 256>> \o <<>>
    BY <1>3, <1>10 DEF Seen
  <2>4. <<n % 256, n \div 256>> = buf
    <3> DEFINE a == buf[1]
               b == buf[2]
    <3>1. <<a, b>> \in Seq(Nat) /\ Len(<<a, b>>) = 2
      BY <1>7
    <3>2. \A i \in 1..2 : <<a, b>>[i] = buf[i]
      OBVIOUS
    <3>3. buf = <<a, b>>
      BY <1>3, <3>1, <3>2, SeqEqual DEF Bytes
    <3> QED
      BY <2>2, <3>3
  <2>5. Seen' = buf
    <3>1. buf \o <<>> = buf
      BY <1>3, ConcatEmptySeq DEF Bytes
    <3> QED
      BY <2>3, <2>4, <3>1
  <2> QED
    BY <1>1, <1>2, <1>5, <2>5
<1> QED
  BY <1>9, <1>10

\* And when it sends a datagram.
LEMMA SendStep ==
  ASSUME IInv, ~closed, Send
  PROVE  \E at : Cut(Flight', Underway', at)
<1> DEFINE t == chunk \o (wire \o read)
<1>1. PICK at : Cut(Flight, Underway, at)
  BY DEF IInv, Framed
<1>2. /\ run = "body" /\ Len(buf) = need /\ run' = "header" /\ buf' = <<>>
      /\ out' = Append(out, buf)
      /\ taken' = taken /\ chunk' = chunk /\ wire' = wire /\ read' = read
  BY DEF Send, nearVars, pipeVars
<1>3. Underway \in Seq(Datagram) /\ Len(out) \in 0..Len(taken)
  BY UnderwayType DEF IInv
<1>4. at[1] = 0 /\ Len(Underway) >= 1 /\ Len(Underway[1]) = need
  BY <1>1, <1>2, BodyHeader DEF IInv
<1>5. /\ t \in Bytes /\ Flight \in Bytes /\ Seen \in Bytes
      /\ Len(Seen) = 2 + Len(Underway[1])
  BY <1>2, <1>4, FlightBytes DEF IInv
<1>6. Flight = Seen \o t /\ Flight' = <<>> \o t
  BY <1>2 DEF Flight, Seen
<1> HIDE DEF t
<1>7. Flight' = Rest(Flight, 2 + Len(Underway[1]))
  BY <1>5, <1>6, AfterFirst
<1>8. Underway' = Rest(Underway, 1)
  <2> DEFINE k == Len(out)
  <2>1. Len(out') = k + 1
    BY <1>2, AppendProperties DEF IInv, Typed
  <2>2. Len(taken) \in Nat /\ Len(Underway) = Len(taken) - k /\ taken \in Seq(Datagram)
    BY <1>3, Parts, LenProperties DEF Underway, IInv, Typed
  <2>3. k \in Nat /\ k + 1 <= Len(taken)
    BY <1>3, <1>4, <2>2
  <2> HIDE DEF k
  <2>4. Rest(Rest(taken, k), 1) = Rest(taken, k + 1)
    BY <2>2, <2>3, RestDrops
  <2> QED
    BY <1>2, <2>1, <2>4 DEF Underway, k
<1>9. \E at2 : Cut(Rest(Flight, 2 + Len(Underway[1])), Rest(Underway, 1), at2)
  BY <1>1, <1>3, <1>4, <1>5, CutDrops
<1> QED
  BY <1>7, <1>8, <1>9

\* The bytes on their way are the frames of the datagrams underway after
\* every step that leaves the far end open.
LEMMA FramedStep ==
  ASSUME IInv, [Next]_vars
  PROVE  Framed'
<1> SUFFICES ASSUME ~closed' PROVE \E at : Cut(Flight', Underway', at)
  BY DEF Framed
<1>1. ASSUME Flight' = Flight, Underway' = Underway, ~closed
      PROVE  \E at : Cut(Flight', Underway', at)
  BY <1>1 DEF IInv, Framed
<1>2. ASSUME UNCHANGED <<nearVars, pipeVars, runVars, closed>>
      PROVE  \E at : Cut(Flight', Underway', at)
  <2>1. Flight' = Flight /\ Underway' = Underway /\ ~closed
    BY <1>2 DEF nearVars, pipeVars, runVars, Flight, Seen, Underway
  <2> QED
    BY <1>1, <2>1
<1>3. ASSUME (\E n \in Lengths : Arrive(n)) \/ \E k \in 1..Len(read) : Read(k)
      PROVE  \E at : Cut(Flight', Underway', at)
  <2>1. ~closed
    BY <1>3 DEF Arrive, Read
  <2> QED
    BY <1>3, <2>1, NearSteps
<1>4. CASE NearEnds
  <2>1. Flight' = Flight /\ Underway' = Underway /\ ~closed
    BY <1>4 DEF NearEnds, pipeVars, runVars, Flight, Seen, Underway
  <2> QED
    BY <1>1, <2>1
<1>5. CASE BridgeCloses
  BY <1>5 DEF BridgeCloses
<1>6. CASE Forwarder
  <2>1. CASE \E k \in 1..Len(wire) : Write(k)
    <3>1. ~closed
      BY <2>1 DEF Write
    <3> QED
      BY <1>1, <2>1, <3>1, PipeSteps
  <2>2. CASE WriteFails
    BY <2>2 DEF WriteFails
  <2>3. CASE StreamEnds
    <3>1. Flight' = Flight /\ Underway' = Underway /\ ~closed
      BY <2>3 DEF StreamEnds, nearVars, runVars, Flight, Seen, Underway
    <3> QED
      BY <1>1, <3>1
  <2> QED
    BY <1>6, <2>1, <2>2, <2>3 DEF Forwarder
<1>7. CASE Run
  <2>1. CASE Fill
    <3>1. ~closed
      BY <2>1 DEF Fill
    <3> QED
      BY <1>1, <2>1, <3>1, PipeSteps
  <2>2. CASE Header
    <3>1. ~closed
      BY <2>2 DEF Header
    <3> QED
      BY <2>2, <3>1, HeaderStep
  <2>3. CASE Send
    <3>1. ~closed
      BY <2>3 DEF Send
    <3> QED
      BY <2>3, <3>1, SendStep
  <2>4. CASE SendFails
    BY <2>4 DEF SendFails
  <2>5. CASE RunEnds
    BY <2>5 DEF RunEnds
  <2> QED
    BY <1>7, <2>1, <2>2, <2>3, <2>4, <2>5 DEF Run
<1>8. CASE Tick
  BY <1>2, <1>8 DEF Tick
<1>9. CASE Signalled
  BY <1>2, <1>9 DEF Signalled
<1>10. CASE Answer
  BY <1>2, <1>10 DEF Answer
<1>11. CASE UNCHANGED vars
  BY <1>2, <1>11 DEF vars
<1> QED
  BY <1>3, <1>4, <1>5, <1>6, <1>7, <1>8, <1>9, <1>10, <1>11 DEF Next

-----------------------------------------------------------------------------
(* What comes out.                                                         *)

\* What Arrive and Send do to the datagrams taken and sent; no other step
\* touches them.
LEMMA ArriveStep ==
  ASSUME IInv, NEW n \in Lengths, Arrive(n)
  PROVE  /\ Len(out) <= Len(taken') /\ out' = out
         /\ SubSeq(taken', 1, Len(out)) = SubSeq(taken, 1, Len(out))
         /\ IF n = 0 THEN Underway' = Underway
                     ELSE /\ Underway' = Append(Underway, Payload(arrived + 1, n))
                          /\ Len(Underway) >= 1 =>
                               Len(Underway') >= 1 /\ Underway'[1] = Underway[1]
<1> DEFINE d == Payload(arrived + 1, n)
<1>1. taken \in Seq(Datagram) /\ Len(taken) \in Nat /\ Len(out) \in 0..Len(taken)
      /\ Underway \in Seq(Datagram) /\ Len(Underway) \in Nat
  BY UnderwayType, LenProperties DEF IInv, Typed
<1>2. out' = out /\ taken' = IF n = 0 THEN taken ELSE Append(taken, d)
  BY DEF Arrive, runVars
<1>3. n # 0 => d \in Datagram
  <2>1. arrived + 1 \in Nat /\ n \in Nat
    BY SizeAssumption, BoundAssumption DEF IInv, Typed
  <2> QED
    BY <2>1, Payloads
<1>4. CASE n = 0
  BY <1>1, <1>2, <1>4 DEF Underway
<1>5. CASE n # 0
  <2> HIDE DEF d
  <2>1. d \in Datagram /\ taken' = Append(taken, d)
    BY <1>2, <1>3, <1>5
  <2>2. /\ Rest(Append(taken, d), Len(out)) = Append(Rest(taken, Len(out)), d)
        /\ SubSeq(Append(taken, d), 1, Len(out)) = SubSeq(taken, 1, Len(out))
    BY <1>1, <2>1, RestGrows
  <2>3. Underway' = Append(Underway, d)
    BY <1>2, <2>1, <2>2 DEF Underway
  <2>4. Len(taken') = Len(taken) + 1
    BY <1>1, <2>1, AppendProperties
  <2>5. /\ Len(Underway') = Len(Underway) + 1
        /\ \A i \in 1..Len(Underway) : Underway'[i] = Underway[i]
    BY <1>1, <2>1, <2>3, AppendProperties
  <2>6. Len(Underway) >= 1 => Len(Underway') >= 1 /\ Underway'[1] = Underway[1]
    <3>1. Len(Underway) >= 1 => 1 \in 1..Len(Underway)
      BY <1>1
    <3> QED
      BY <1>1, <2>5, <3>1
  <2>7. Len(out) <= Len(taken')
    BY <1>1, <2>4
  <2> QED
    BY <1>2, <1>5, <2>1, <2>2, <2>3, <2>6, <2>7 DEF d
<1> QED
  BY <1>4, <1>5

LEMMA Sent ==
  ASSUME IInv, Send
  PROVE  /\ Underway # <<>> /\ out' = Append(out, Head(Underway))
         /\ Underway' = Tail(Underway) /\ taken' = taken
         /\ Len(out') <= Len(taken) /\ out' = SubSeq(taken, 1, Len(out'))
<1> DEFINE k == Len(out)
<1>1. /\ out' = Append(out, buf) /\ taken' = taken
      /\ Len(Underway) >= 1 /\ buf = Underway[1]
  BY DEF Send, nearVars, IInv, Full
<1>2. Len(out') = k + 1
  BY <1>1, AppendProperties DEF IInv, Typed
<1>3. /\ taken \in Seq(Datagram) /\ Len(taken) \in Nat /\ k \in 0..Len(taken)
      /\ Len(Underway) = Len(taken) - k
  <2>1. taken \in Seq(Datagram) /\ Len(taken) \in Nat /\ k \in 0..Len(taken)
    BY UnderwayType, LenProperties DEF IInv, Typed
  <2> QED
    BY <2>1, Parts DEF Underway
<1>4. k \in Nat /\ k + 1 <= Len(taken)
  BY <1>1, <1>3
<1>5. out = SubSeq(taken, 1, k)
  BY DEF IInv, Prefix
<1>6. Underway = Rest(taken, k) /\ Underway' = Rest(taken, k + 1)
  BY <1>1, <1>2 DEF Underway
<1> HIDE DEF k
<1>7. /\ Tail(Rest(taken, k)) = Rest(taken, k + 1)
      /\ Rest(taken, k) # <<>> /\ Head(Rest(taken, k)) = Rest(taken, k)[1]
      /\ SubSeq(taken, 1, k + 1) = Append(SubSeq(taken, 1, k), Rest(taken, k)[1])
  BY <1>3, <1>4, RestDrops
<1> QED
  BY <1>1, <1>2, <1>4, <1>5, <1>6, <1>7

LEMMA OutStep ==
  ASSUME [Next]_vars
  PROVE  \/ \E n \in Lengths : Arrive(n)
         \/ Send
         \/ taken' = taken /\ out' = out /\ Underway' = Underway
<1> USE DEF nearVars, runVars, Underway
<1>1. CASE \E k \in 1..Len(read) : Read(k)
  BY <1>1 DEF Read
<1>2. CASE NearEnds \/ BridgeCloses
  BY <1>2 DEF NearEnds, BridgeCloses
<1>3. CASE Forwarder
  BY <1>3 DEF Forwarder, Write, WriteFails, StreamEnds
<1>4. CASE Fill \/ Header \/ SendFails \/ RunEnds
  BY <1>4 DEF Fill, Header, SendFails, RunEnds
<1>5. CASE Tick \/ Signalled \/ Answer
  BY <1>5 DEF Tick, Signalled, Answer
<1>6. CASE UNCHANGED vars
  BY <1>6 DEF vars
<1> QED
  BY <1>1, <1>2, <1>3, <1>4, <1>5, <1>6 DEF Next, Run

LEMMA PrefixStep ==
  ASSUME IInv, [Next]_vars
  PROVE  Prefix'
<1>1. CASE \E n \in Lengths : Arrive(n)
  <2>1. PICK n \in Lengths : Arrive(n)
    BY <1>1
  <2>2. /\ Len(out) <= Len(taken') /\ out' = out
        /\ SubSeq(taken', 1, Len(out)) = SubSeq(taken, 1, Len(out))
    BY <2>1, ArriveStep
  <2> QED
    BY <2>2 DEF IInv, Prefix
<1>2. CASE Send
  <2>1. taken' = taken /\ Len(out') <= Len(taken) /\ out' = SubSeq(taken, 1, Len(out'))
    BY <1>2, Sent
  <2> QED
    BY <2>1 DEF Prefix
<1>3. CASE taken' = taken /\ out' = out
  BY <1>3 DEF IInv, Prefix
<1> QED
  BY <1>1, <1>2, <1>3, OutStep

\* Once the far end is closed run collects no more, but it may still send.
LEMMA FullStep ==
  ASSUME IInv, [Next]_vars, closed'
  PROVE  Full'
<1> SUFFICES ASSUME run' = "body", Len(buf') = need'
             PROVE  Len(Underway') >= 1 /\ Underway'[1] = buf'
  BY DEF Full
<1>1. buf' = buf /\ run' = run /\ need' = need
  <2>1. CASE Run
    <3>1. ~Fill
      BY DEF Fill
    <3>2. ~Header
      <4>1. ASSUME Header PROVE FALSE
        <5>1. buf' = <<>> /\ run = "header" /\ run' = "body"
          BY <4>1 DEF Header
        <5>2. need' # 0
          BY <4>1, <5>1 DEF Header
        <5>3. Len(buf') = 0
          BY <5>1, EmptySeq
        <5> QED
          BY <5>2, <5>3
      <4> QED
        BY <4>1
    <3>3. ~Send /\ ~SendFails /\ ~RunEnds
      BY DEF Send, SendFails, RunEnds
    <3> QED
      BY <2>1, <3>1, <3>2, <3>3 DEF Run
  <2>2. CASE UNCHANGED runVars
    BY <2>2 DEF runVars
  <2>3. CASE ~Run
    <3>1. UNCHANGED runVars
      BY <2>3 DEF Next, vars, Arrive, Read, NearEnds, BridgeCloses, Forwarder, Write,
                  WriteFails, StreamEnds, Tick, Signalled, Answer
    <3> QED
      BY <2>2, <3>1
  <2> QED
    BY <2>1, <2>3
<1>2. Len(Underway) >= 1 /\ buf = Underway[1]
  BY <1>1 DEF IInv, Full
<1>3. CASE \E n \in Lengths : Arrive(n)
  <2>1. PICK n \in Lengths : Arrive(n)
    BY <1>3
  <2>2. IF n = 0 THEN Underway' = Underway
        ELSE Len(Underway) >= 1 => Len(Underway') >= 1 /\ Underway'[1] = Underway[1]
    BY <2>1, ArriveStep
  <2> QED
    BY <1>1, <1>2, <2>2
<1>4. CASE Send
  BY <1>4 DEF Send
<1>5. CASE Underway' = Underway
  BY <1>1, <1>2, <1>5
<1> QED
  BY <1>3, <1>4, <1>5, OutStep

LEMMA IInvInit == Init => IInv
<1> SUFFICES ASSUME Init PROVE IInv
  OBVIOUS
<1>1. Typed
  BY TypedInit
<1>2. <<>> \in Bytes /\ <<>> \in Seq(Datagram) /\ Len(<<>>) = 0
  BY EmptySeq DEF Bytes
<1>3. Underway = <<>> /\ SubSeq(<<>>, 1, 0) = <<>>
  BY <1>2, SubSeqEmpty DEF Init, Underway, Rest
<1>4. Prefix
  BY <1>2, <1>3 DEF Init, Prefix
<1>5. Flight = <<>>
  <2>1. <<>> \o <<>> = <<>>
    BY <1>2, ConcatEmptySeq
  <2> QED
    BY <2>1 DEF Init, Flight, Seen
<1>6. Framed
  BY <1>3, <1>5, CutNothing DEF Framed
<1>7. Full
  BY DEF Init, Full
<1> QED
  BY <1>1, <1>4, <1>6, <1>7 DEF IInv

LEMMA IInvStep == IInv /\ [Next]_vars => IInv'
<1>1. ASSUME IInv, [Next]_vars
      PROVE  Typed' /\ Prefix' /\ Framed'
  BY <1>1, TypedStep, PrefixStep, FramedStep DEF IInv
<1>2. Typed /\ Prefix /\ Framed /\ ~closed => Full
  BY BodyIsNext
<1>3. Typed' /\ Prefix' /\ Framed' /\ ~closed' => Full'
  BY <1>2, PTL
<1>4. IInv /\ [Next]_vars /\ closed' => Full'
  BY FullStep
<1> QED
  BY <1>1, <1>3, <1>4 DEF IInv

\* The state is what its parts say: run collects no more than it needs, and
\* it and the timer exit only when the far end is closed.
THEOREM UdpStreamTyped == Spec => []Typed
<1>1. IInv => Typed
  BY DEF IInv
<1> QED
  BY <1>1, IInvInit, IInvStep, PTL DEF Spec

\* However the stream is cut, what was sent is the first part of what was
\* taken: no datagram that is not empty is lost, split, merged or doubled.
THEOREM UdpStreamPrefix == Spec => []Prefix
<1>1. IInv => Prefix
  BY DEF IInv
<1> QED
  BY <1>1, IInvInit, IInvStep, PTL DEF Spec

\* While the far end is open, the bytes between the two sockets are the
\* frames of the datagrams underway and empty frames: run never takes a byte
\* of a body for a header.
THEOREM UdpStreamFramed == Spec => []Framed
<1>1. IInv => Framed
  BY DEF IInv
<1> QED
  BY <1>1, IInvInit, IInvStep, PTL DEF Spec

-----------------------------------------------------------------------------
(* The refinement.                                                         *)

\* Each step takes a datagram, delivers the next one, closes the connection
\* or is not seen.
LEMMA StreamRefines == IInv /\ [Next]_vars => [A!Next]_(A!vars)
<1> SUFFICES ASSUME IInv, [Next]_vars PROVE [A!Next]_(A!vars)
  OBVIOUS
<1>1. ASSUME NEW n \in Lengths, Arrive(n) PROVE [A!Next]_(A!vars)
  <2> DEFINE d == Payload(arrived + 1, n)
  <2>1. out' = out /\ near' = near /\ closed' = closed
    BY <1>1 DEF Arrive, runVars
  <2>2. CASE n = 0
    <3>1. Underway' = Underway
      BY <1>1, <2>2, ArriveStep
    <3> QED
      BY <2>1, <3>1 DEF A!vars, Underway
  <2>3. CASE n # 0
    <3>1. Underway' = Append(Underway, d)
      BY <1>1, <2>3, ArriveStep
    <3>2. d \in {Payload(k, m) : k \in 1..MaxDatagrams, m \in Lengths \ {0}}
      <4>1. arrived + 1 \in 1..MaxDatagrams
        BY <1>1, BoundAssumption DEF Arrive, IInv, Typed
      <4>2. n \in Lengths \ {0}
        BY <2>3
      <4> QED
        BY <4>1, <4>2
    <3> HIDE DEF d
    <3>3. A!Take(d)
      BY <2>1, <3>1 DEF A!Take, Underway
    <3>4. A!Next
      BY <3>2, <3>3 DEF A!Next
    <3> QED
      BY <3>4
  <2> QED
    BY <2>2, <2>3
<1>2. CASE Send
  <2>1. Underway # <<>> /\ out' = Append(out, Head(Underway)) /\ Underway' = Tail(Underway)
    BY <1>2, Sent
  <2>2. near' = near /\ closed' = closed
    BY <1>2 DEF Send, nearVars
  <2>3. A!Deliver
    BY <2>1, <2>2 DEF A!Deliver, Underway
  <2> QED
    BY <2>3 DEF A!Next
<1>3. ASSUME Underway' = Underway, out' = out, (near /\ ~closed)' = FALSE
      PROVE  [A!Next]_(A!vars)
  <2>1. A!Close
    BY <1>3 DEF A!Close, Underway
  <2> QED
    BY <2>1 DEF A!Next
<1>4. ASSUME Underway' = Underway, out' = out, near' = near, closed' = closed
      PROVE  [A!Next]_(A!vars)
  BY <1>4 DEF A!vars, Underway
<1>5. CASE NearEnds
  <2>1. Underway' = Underway /\ out' = out /\ (near /\ ~closed)' = FALSE
    BY <1>5 DEF NearEnds, runVars, Underway
  <2> QED
    BY <1>3, <2>1
<1>6. CASE BridgeCloses \/ SendFails
  <2>1. Underway' = Underway /\ out' = out /\ (near /\ ~closed)' = FALSE
    BY <1>6 DEF BridgeCloses, SendFails, nearVars, runVars, Underway
  <2> QED
    BY <1>3, <2>1
<1>7. CASE Tick
  <2>1. Underway' = Underway /\ out' = out /\ near' = near /\ (closed' = TRUE \/ closed' = closed)
    BY <1>7 DEF Tick, nearVars, runVars, Underway
  <2>2. CASE closed' = TRUE
    <3>1. (near /\ ~closed)' = FALSE
      BY <2>2
    <3> QED
      BY <1>3, <2>1, <3>1
  <2> QED
    BY <1>4, <2>1, <2>2
<1>8. CASE \E k \in 1..Len(read) : Read(k)
  <2>1. Underway' = Underway /\ out' = out /\ near' = near /\ closed' = closed
    BY <1>8 DEF Read, runVars, Underway
  <2> QED
    BY <1>4, <2>1
<1>9. CASE Forwarder
  <2>1. Underway' = Underway /\ out' = out /\ near' = near /\ closed' = closed
    BY <1>9 DEF Forwarder, Write, WriteFails, StreamEnds, nearVars, runVars, Underway
  <2> QED
    BY <1>4, <2>1
<1>10. CASE Fill \/ Header \/ RunEnds
  <2>1. Underway' = Underway /\ out' = out /\ near' = near /\ closed' = closed
    BY <1>10 DEF Fill, Header, RunEnds, nearVars, Underway
  <2> QED
    BY <1>4, <2>1
<1>11. CASE Signalled \/ Answer \/ UNCHANGED vars
  <2>1. Underway' = Underway /\ out' = out /\ near' = near /\ closed' = closed
    BY <1>11 DEF Signalled, Answer, nearVars, runVars, vars, Underway
  <2> QED
    BY <1>4, <2>1
<1> QED
  BY <1>1, <1>2, <1>5, <1>6, <1>7, <1>8, <1>9, <1>10, <1>11 DEF Next, Run

LEMMA StreamRefinesInit == Init => A!Init
<1> SUFFICES ASSUME Init PROVE A!Init
  OBVIOUS
<1>1. <<>> \in Seq(Datagram) /\ Len(<<>>) = 0
  BY EmptySeq
<1>2. Rest(taken, Len(out)) = <<>>
  BY <1>1, SubSeqEmpty DEF Init, Rest
<1> QED
  BY <1>2 DEF Init, A!Init

\* A stream that is cut anywhere carries datagrams whole, once and in order:
\* the safety part of Datagrams.
THEOREM UdpStreamImplementsDatagrams == Spec => A!Init /\ [][A!Next]_(A!vars)
<1>1. Init => A!Init
  BY StreamRefinesInit
<1>2. IInv /\ [Next]_vars => [A!Next]_(A!vars)
  BY StreamRefines
<1> QED
  BY <1>1, <1>2, IInvInit, IInvStep, PTL DEF Spec
=============================================================================
